----------------------------- MODULE MCThreads -----------------------------
(***************************************************************************)
(* Monitor and Locks for TLC.  The initial state chooses which of the two  *)
(* is checked; the other one keeps its initial state.                      *)
(***************************************************************************)
EXTENDS Monitor, Locks

CONSTANTS
    Components,    \* the ones to check: "monitor", "locks"
    MaxWaits,      \* calls of wait
    MaxSignals,    \* calls of signal and broadcast
    MaxWakeUps     \* spurious wake-ups and timeouts

VARIABLES
    component,
    calls          \* the calls made so far, of the operations that are bounded

MCInit ==
    /\ component \in Components
    /\ MonitorInit
    /\ LockInit
    /\ calls = [wait |-> 0, signal |-> 0, wakeup |-> 0]

Count(kind, max) ==
    /\ calls[kind] < max
    /\ calls' = [calls EXCEPT ![kind] = @ + 1]

MCStep(t) ==
    /\ \/ t \in Waiter /\ WaitStep(t)
       \/ t \in Signaler /\ SignalStep(t)
    /\ UNCHANGED calls

MCMonitorNext ==
    \/ \E t \in Thread : MCStep(t)
    \/ \E t \in Waiter : Wait(t) /\ Count("wait", MaxWaits)
    \/ \E t \in Waiter : WakeUp(t) /\ Count("wakeup", MaxWakeUps)
    \/ \E t \in Signaler, n \in 1 .. MaxThreads : Signal(t, n) /\ Count("signal", MaxSignals)
    \/ \E t \in Signaler : Broadcast(t) /\ Count("signal", MaxSignals)

MCNext ==
    /\ UNCHANGED component
    /\ \/ component = "monitor" /\ MCMonitorNext /\ UNCHANGED lockVars
       \/ component = "locks" /\ LockNext /\ UNCHANGED <<monitorVars, calls>>

MCSpec ==
    /\ MCInit
    /\ [][MCNext]_<<monitorVars, lockVars, component, calls>>
    /\ MonitorFairness

(* Both components keep their types: _waiters is not negative and only threads*)
(* in wait hold a monitor's mutex (Monitor), and every thread of a process is *)
(* at a point of its function, holding mutexes and waiting for threads that   *)
(* exist (Locks).                                                             *)
ThreadsTypeOK == MonitorTypeOK /\ LocksTypeOK

\* One thread of the application decides how long objects live and when they are
\* suspended, the others use them.
MCCalls ==
    [a \in Application |->
        IF a = "owner"
        THEN {"suspend", "resume", "destroyNode", "destroyPublisher", "destroySubscriber"}
        ELSE {"addSubscriber", "removeSubscriber", "addPublisher", "startQuery", "addService"}]

=============================================================================
