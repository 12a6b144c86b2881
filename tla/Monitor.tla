------------------------------ MODULE Monitor ------------------------------
(***************************************************************************)
(* umundo::Monitor (Thread.cpp), the pthread variant: a condition that     *)
(* remembers a signal when nobody waits for it.                            *)
(*                                                                         *)
(* wait runs under the pthread mutex, but signal reads _waiters and writes *)
(* _signaled without it.  An action is therefore one access to these two   *)
(* variables (or several that no other thread can tell apart), and         *)
(* _signaled-- is a load and a store.  A build may keep _waiters in a      *)
(* register or read it again: SetSignaled has both outcomes.               *)
(***************************************************************************)
EXTENDS Integers, FiniteSets

CONSTANTS
    Waiter,        \* threads that call wait
    Timed,         \* the waiters that pass a timeout
    Signaler,      \* threads that call signal or broadcast
    MaxThreads,    \* the largest nrThreads passed to signal
    None           \* the mutex is free

ASSUME ThreadAssumption ==
    /\ IsFiniteSet(Waiter)
    /\ Timed \subseteq Waiter
    /\ Waiter \cap Signaler = {}
    /\ None \notin Waiter
    /\ MaxThreads \in Nat

VARIABLES
    waiters,       \* _waiters
    signaled,      \* _signaled
    mutex,         \* the waiter that holds _mutex
    pc,            \* where every thread is
    nrThreads,     \* the argument of signal, per signaler
    reg,           \* the value a thread has loaded, zero once it is used
    misread        \* history: broadcast found nobody waiting, or a signal used
                   \* two different values of _waiters

monitorVars == <<waiters, signaled, mutex, pc, nrThreads, reg, misread>>

Thread == Waiter \cup Signaler

MonitorInit ==
    /\ waiters = 0
    /\ signaled = 0
    /\ mutex = None
    /\ pc = [t \in Thread |-> "idle"]
    /\ nrThreads = [t \in Signaler |-> 0]
    /\ reg = [t \in Thread |-> 0]
    /\ misread = FALSE

Goto(t, from, to) == pc[t] = from /\ pc' = [pc EXCEPT ![t] = to]

-----------------------------------------------------------------------------
(* wait.                                                                      *)

Wait(t) ==
    /\ Goto(t, "idle", "entered")
    /\ mutex = None /\ mutex' = t
    /\ UNCHANGED <<waiters, signaled, nrThreads, reg, misread>>

\* Signaled prior to waiting: pass without being counted.
TestPrior(t) ==
    /\ Goto(t, "entered", IF signaled > 0 THEN "prior" ELSE "count")
    /\ UNCHANGED <<waiters, signaled, mutex, nrThreads, reg, misread>>

CountWaiter(t) ==
    /\ Goto(t, "count", "test")
    /\ waiters' = waiters + 1
    /\ UNCHANGED <<signaled, mutex, nrThreads, reg, misread>>

\* The condition of the loop around pthread_cond_wait.
TestSignaled(t) ==
    /\ Goto(t, "test", IF signaled # 0 THEN "pass" ELSE "sleep")
    /\ UNCHANGED <<waiters, signaled, mutex, nrThreads, reg, misread>>

LoadSignaled(t) ==
    /\ \/ Goto(t, "prior", "takePrior")
       \/ Goto(t, "pass", "take")
    /\ reg' = [reg EXCEPT ![t] = signaled]
    /\ UNCHANGED <<waiters, signaled, mutex, nrThreads, misread>>

\* The store of _signaled--, _waiters-- for a counted thread, and the return.
StoreSignaled(t) ==
    /\ \/ Goto(t, "takePrior", "idle") /\ UNCHANGED waiters
       \/ Goto(t, "take", "idle") /\ waiters' = waiters - 1
    /\ signaled' = reg[t] - 1
    /\ mutex' = None
    /\ reg' = [reg EXCEPT ![t] = 0]
    /\ UNCHANGED <<nrThreads, misread>>

\* Mutant: a wait that timed out stays counted.
TimedOutStillCounted(t) ==
    /\ Goto(t, "timedout", "idle")
    /\ mutex = None
    /\ UNCHANGED <<waiters, signaled, mutex, nrThreads, reg, misread>>

\* A wait that timed out takes no signal.
ReturnTimedOut(t) ==
    /\ Goto(t, "timedout", "idle")
    /\ mutex = None
    /\ waiters' = waiters - 1
    /\ UNCHANGED <<signaled, mutex, nrThreads, reg, misread>>

-----------------------------------------------------------------------------
(* The condition variable (pthread): cond_wait gives up the mutex and sleeps, *)
(* a sleeping thread may wake up at any time, for no reason or because its    *)
(* time is over, and takes the mutex before cond_wait returns.                *)

CondWait(t) ==
    /\ Goto(t, "sleep", "blocked")
    /\ mutex' = None
    /\ UNCHANGED <<waiters, signaled, nrThreads, reg, misread>>

WakeUp(t) ==
    /\ \/ Goto(t, "blocked", "awake")
       \/ t \in Timed /\ Goto(t, "blocked", "timedout")
    /\ UNCHANGED <<waiters, signaled, mutex, nrThreads, reg, misread>>

\* Mutant: a thread that is woken up does not test _signaled again.
RelockUntested(t) ==
    /\ Goto(t, "awake", "pass")
    /\ mutex = None /\ mutex' = t
    /\ UNCHANGED <<waiters, signaled, nrThreads, reg, misread>>

Relock(t) ==
    /\ Goto(t, "awake", "test")
    /\ mutex = None /\ mutex' = t
    /\ UNCHANGED <<waiters, signaled, nrThreads, reg, misread>>

-----------------------------------------------------------------------------
(* signal and broadcast.                                                      *)

CallSignal(t, n) ==
    /\ Goto(t, "idle", "signal")
    /\ nrThreads' = [nrThreads EXCEPT ![t] = n]
    /\ UNCHANGED <<waiters, signaled, mutex, reg>>

Signal(t, n) == CallSignal(t, n) /\ UNCHANGED misread

Broadcast(t) == CallSignal(t, waiters) /\ misread' = (misread \/ waiters = 0)

ReadWaiters(t) ==
    /\ Goto(t, "signal", "set")
    /\ reg' = [reg EXCEPT ![t] = waiters]
    /\ UNCHANGED <<waiters, signaled, mutex, nrThreads, misread>>

\* a and b: the values of _waiters in the comparison and in the result.
SetSignaled(t) ==
    /\ Goto(t, "set", "notify")
    /\ \E a, b \in {reg[t], waiters} :
           /\ signaled' = IF reg[t] = 0 THEN 1
                          ELSE IF nrThreads[t] > a THEN b ELSE nrThreads[t]
           /\ misread' = (misread \/ {a, b} # {reg[t]})
    /\ reg' = [reg EXCEPT ![t] = 0]
    /\ nrThreads' = [nrThreads EXCEPT ![t] = 0]
    /\ UNCHANGED <<waiters, mutex>>

\* Mutant: the condition is signalled without the mutex.
NotifyUnlocked(t) ==
    /\ pc[t] = "notify"
    /\ pc' = [u \in Thread |-> IF u = t THEN "idle"
                               ELSE IF pc[u] = "blocked" THEN "awake" ELSE pc[u]]
    /\ UNCHANGED <<waiters, signaled, mutex, nrThreads, reg, misread>>

\* Mutant: one of the sleeping threads is woken up, as pthread_cond_signal does.
NotifyOne(t) ==
    /\ pc[t] = "notify"
    /\ mutex = None
    /\ LET asleep == {u \in Waiter : pc[u] = "blocked"}
       IN  \/ asleep = {} /\ pc' = [pc EXCEPT ![t] = "idle"]
           \/ \E u \in asleep : pc' = [pc EXCEPT ![t] = "idle", ![u] = "awake"]
    /\ UNCHANGED <<waiters, signaled, mutex, nrThreads, reg, misread>>

\* pthread_cond_broadcast under the mutex.
Notify(t) ==
    /\ pc[t] = "notify"
    /\ mutex = None
    /\ pc' = [u \in Thread |-> IF u = t THEN "idle"
                               ELSE IF pc[u] = "blocked" THEN "awake" ELSE pc[u]]
    /\ UNCHANGED <<waiters, signaled, mutex, nrThreads, reg, misread>>

-----------------------------------------------------------------------------

\* What a thread inside wait does by itself.
WaitStep(t) ==
    \/ TestPrior(t) \/ CountWaiter(t) \/ TestSignaled(t) \/ LoadSignaled(t)
    \/ StoreSignaled(t) \/ ReturnTimedOut(t) \/ CondWait(t) \/ Relock(t)

\* What a thread inside signal does.
SignalStep(t) == ReadWaiters(t) \/ SetSignaled(t) \/ Notify(t)

MonitorNext ==
    \/ \E t \in Waiter : Wait(t) \/ WaitStep(t) \/ WakeUp(t)
    \/ \E t \in Signaler :
           (\E n \in 1 .. MaxThreads : Signal(t, n)) \/ Broadcast(t) \/ SignalStep(t)

MonitorSpec == MonitorInit /\ [][MonitorNext]_monitorVars

-----------------------------------------------------------------------------
(* Properties.                                                                *)

\* Where a waiter holds the mutex, and where _waiters counts it.
Inside  == {"entered", "prior", "takePrior", "count", "test", "sleep", "pass", "take"}
Counted == {"test", "sleep", "blocked", "awake", "timedout", "pass", "take"}

(* _waiters is never negative (asserted at the end of signal), every thread   *)
(* is at a point of its function, and only waiters hold the mutex.  _signaled *)
(* may be negative: see SignalsAsserted.                                      *)
MonitorTypeOK ==
    /\ waiters \in Nat /\ signaled \in Int
    /\ mutex \in Waiter \cup {None}
    /\ pc \in [Thread -> {"idle", "signal", "set", "notify"} \cup {"blocked", "awake", "timedout"}
                         \cup Inside]
    /\ \A t \in Waiter : pc[t] \notin {"signal", "set", "notify"}
    /\ \A t \in Signaler : pc[t] \in {"idle", "signal", "set", "notify"}
    /\ nrThreads \in [Signaler -> Int]
    /\ reg \in [Thread -> Int]
    /\ misread \in BOOLEAN

(* A thread between the lock and the unlock of wait holds the mutex.          *)
InsideHoldsMutex == \A t \in Waiter : pc[t] \in Inside <=> mutex = t

\* A waiter sleeps or is bound to, having seen no signal.
Asleep == \E t \in Waiter : pc[t] \in {"sleep", "blocked"}

(* No lost wake-up: if there is a signal while a thread sleeps in wait, some  *)
(* thread in signal is still about to wake everyone up.  The unlocked write   *)
(* of _signaled is made safe by the locked broadcast after it.                *)
NoLostWakeup == signaled > 0 /\ Asleep => \E t \in Signaler : pc[t] = "notify"

\* What NoLostWakeup needs to be inductive: it also holds for the value that a
\* thread is about to store.
NoLostStore ==
    (\E t \in Waiter : pc[t] \in {"takePrior", "take"} /\ reg[t] > 1) /\ Asleep
        => \E t \in Signaler : pc[t] = "notify"

(* _waiters is the number of threads in wait that have not returned yet, so   *)
(* the assertion _waiters > 0 holds where wait makes it, timeouts included.   *)
WaitersCounted == waiters = Cardinality({t \in Waiter : pc[t] \in Counted})

(* The assertions on _signaled: it is not negative when signal returns, and   *)
(* positive where a thread that was woken up takes a signal (Thread.cpp:552,  *)
(* 573, 595).  They hold as long as no broadcast finds nobody waiting and no  *)
(* signal reads _waiters again after it has changed.  Either makes signal     *)
(* store 0 for threads that have already been let through: one of them then   *)
(* stores -1, with which the loop of wait lets everyone pass.                 *)
SignalsAsserted ==
    ~misread => /\ signaled >= 0
                /\ \A t \in Waiter : pc[t] \in {"prior", "pass"} => signaled > 0

\* What SignalsAsserted needs to be inductive: what threads have loaded, and the
\* number of threads they signal, is positive too.
StoresAsserted ==
    ~misread => /\ \A t \in Waiter : pc[t] \in {"takePrior", "take"} => reg[t] > 0
                /\ \A t \in Signaler : pc[t] \in {"signal", "set"} => nrThreads[t] > 0
                /\ \A t \in Signaler : reg[t] >= 0

\* The inductive invariant behind these properties.
MonitorInv ==
    /\ MonitorTypeOK
    /\ InsideHoldsMutex
    /\ NoLostWakeup
    /\ NoLostStore
    /\ WaitersCounted
    /\ SignalsAsserted
    /\ StoresAsserted

\* Fairness: a thread that can go on inside wait or signal does.
MonitorFairness ==
    /\ \A t \in Waiter : WF_monitorVars(WaitStep(t))
    /\ \A t \in Signaler : WF_monitorVars(SignalStep(t))

(* A signal does not stay while threads sleep: one of them takes it, or all   *)
(* are awake.                                                                 *)
SignalTaken == (signaled > 0 /\ Asleep) ~> ~(signaled > 0 /\ Asleep)

=============================================================================
