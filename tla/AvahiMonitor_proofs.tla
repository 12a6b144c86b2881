------------------------ MODULE AvahiMonitor_proofs -------------------------
(***************************************************************************)
(* The utilities that need counting: Monitor and Avahi discovery.  They    *)
(* share no state.                                                         *)
(*                                                                         *)
(* Monitor never loses a wake-up, for any number of waiting and signalling *)
(* threads, and the assertions on _signaled in wait() hold as long as no   *)
(* signal misread _waiters.                                                *)
(*                                                                         *)
(* A thread that goes to sleep has seen no signal and holds the mutex      *)
(* until it sleeps; whoever writes _signaled afterwards takes the mutex to *)
(* wake it up, and no thread inside wait can store a larger value than it  *)
(* has loaded under the mutex.                                             *)
(*                                                                         *)
(* Avahi discovery keeps its clients in step with its nodes and queries,   *)
(* and the listener of a query in step with the stubs it maintains, for    *)
(* any number of nodes, queries and interfaces, and so implements the      *)
(* safety part of NodeListing.                                             *)
(***************************************************************************)
EXTENDS Monitor, AvahiNodeDiscovery, FiniteSetTheorems, TLAPS

\* The threads _waiters counts.
CountedWaiters == {t \in Waiter : pc[t] \in Counted}

\* The part of the invariant that is not about counting.
WakeupInv == MonitorTypeOK /\ InsideHoldsMutex /\ NoLostWakeup /\ NoLostStore

\* The part about the assertions on _signaled.
AssertInv == SignalsAsserted /\ StoresAsserted

\* A step of wait by thread t, or the wake-up of a thread.
WaiterStep(t) == Wait(t) \/ WaitStep(t) \/ WakeUp(t)

\* A step of signal by thread t.
SignalerStep(t) == (\E n \in 1 .. MaxThreads : Signal(t, n)) \/ Broadcast(t) \/ SignalStep(t)

-----------------------------------------------------------------------------
(* A thread that starts or ends to be counted changes the number by one: the  *)
(* set of counted threads is finite, being a subset of Waiter.                *)
LEMMA CountedFinite ==
    ASSUME WaitersCounted
    PROVE  IsFiniteSet(CountedWaiters) /\ waiters = Cardinality(CountedWaiters)
<1>1. CountedWaiters \subseteq Waiter
  BY DEF CountedWaiters
<1>2. IsFiniteSet(CountedWaiters)
  BY <1>1, ThreadAssumption, FS_Subset
<1>. QED
  BY <1>2 DEF WaitersCounted, CountedWaiters

(* Nobody starts or ends to be counted.                                       *)
LEMMA CountSame ==
    ASSUME WaitersCounted, waiters' = waiters,
           \A u \in Waiter : pc'[u] \in Counted <=> pc[u] \in Counted
    PROVE  WaitersCounted'
<1>1. CountedWaiters' = CountedWaiters
  BY DEF CountedWaiters
<1>. QED
  BY <1>1, Zenon DEF WaitersCounted, CountedWaiters

(* Thread t starts to be counted and increments _waiters.                     *)
LEMMA CountUp ==
    ASSUME WaitersCounted, NEW t \in Waiter, waiters' = waiters + 1,
           pc[t] \notin Counted, pc'[t] \in Counted,
           \A u \in Waiter \ {t} : pc'[u] \in Counted <=> pc[u] \in Counted
    PROVE  WaitersCounted'
<1>1. CountedWaiters' = CountedWaiters \cup {t} /\ t \notin CountedWaiters
  BY DEF CountedWaiters
<1>2. Cardinality(CountedWaiters \cup {t}) = Cardinality(CountedWaiters) + 1
  BY <1>1, CountedFinite, FS_AddElement
<1>. QED
  BY <1>1, <1>2, CountedFinite DEF WaitersCounted, CountedWaiters

(* Thread t ends to be counted and decrements _waiters.                       *)
LEMMA CountDown ==
    ASSUME WaitersCounted, NEW t \in Waiter, waiters' = waiters - 1,
           pc[t] \in Counted, pc'[t] \notin Counted,
           \A u \in Waiter \ {t} : pc'[u] \in Counted <=> pc[u] \in Counted
    PROVE  WaitersCounted'
<1>1. CountedWaiters' = CountedWaiters \ {t} /\ t \in CountedWaiters
  BY DEF CountedWaiters
<1>2. Cardinality(CountedWaiters \ {t}) = Cardinality(CountedWaiters) - 1
  BY <1>1, CountedFinite, FS_RemoveElement, Zenon
<1>. QED
  BY <1>1, <1>2, CountedFinite DEF WaitersCounted, CountedWaiters

(* _waiters is a number of threads.                                           *)
LEMMA CountNat ==
    ASSUME WaitersCounted'
    PROVE  waiters' \in Nat
<1>1. CountedWaiters' \subseteq Waiter
  BY DEF CountedWaiters
<1>2. Cardinality(CountedWaiters') \in Nat
  BY <1>1, ThreadAssumption, FS_Subset, FS_CardinalityType
<1>. QED
  BY <1>2 DEF WaitersCounted, CountedWaiters

-----------------------------------------------------------------------------
(* Every step of wait keeps _waiters the number of counted threads.           *)
LEMMA WaiterCounts ==
    ASSUME MonitorInv, NEW t \in Waiter, WaiterStep(t)
    PROVE  WaitersCounted'
<1>. pc \in [Thread -> {"idle", "signal", "set", "notify"}
                       \cup {"blocked", "awake", "timedout"} \cup Inside] /\ t \in Thread
  BY DEF MonitorInv, MonitorTypeOK, Thread
<1>. WaitersCounted
  BY DEF MonitorInv
<1>1. CASE CountWaiter(t)
  BY <1>1, CountUp DEF CountWaiter, Goto, Counted, Thread
<1>2. CASE Goto(t, "take", "idle") /\ waiters' = waiters - 1
  BY <1>2, CountDown DEF Goto, Counted, Thread
<1>3. CASE ReturnTimedOut(t)
  BY <1>3, CountDown DEF ReturnTimedOut, Goto, Counted, Thread
<1>4. CASE Wait(t) \/ TestPrior(t) \/ TestSignaled(t) \/ LoadSignaled(t)
           \/ CondWait(t) \/ WakeUp(t) \/ Relock(t)
           \/ (Goto(t, "takePrior", "idle") /\ UNCHANGED waiters)
  BY <1>4, CountSame DEF Wait, TestPrior, TestSignaled, LoadSignaled, CondWait, WakeUp,
                         Relock, Goto, Counted, Thread
<1>. QED
  BY <1>1, <1>2, <1>3, <1>4 DEF WaiterStep, WaitStep, StoreSignaled

(* signal does not change who is counted: a thread it wakes up still is.      *)
LEMMA SignalerCounts ==
    ASSUME MonitorInv, NEW t \in Signaler, SignalerStep(t)
    PROVE  WaitersCounted'
<1>. pc \in [Thread -> {"idle", "signal", "set", "notify"}
                       \cup {"blocked", "awake", "timedout"} \cup Inside] /\ t \in Thread
  BY DEF MonitorInv, MonitorTypeOK, Thread
<1>. WaitersCounted /\ t \notin Waiter
  BY ThreadAssumption DEF MonitorInv
<1>1. waiters' = waiters
  BY DEF SignalerStep, SignalStep, Signal, Broadcast, CallSignal, ReadWaiters, SetSignaled, Notify
<1>2. ASSUME NEW u \in Waiter PROVE pc'[u] \in Counted <=> pc[u] \in Counted
  BY <1>2 DEF SignalerStep, SignalStep, Signal, Broadcast, CallSignal, ReadWaiters, SetSignaled, Notify,
         Goto, Counted, Thread
<1>. QED
  BY <1>1, <1>2, CountSame

-----------------------------------------------------------------------------
(* Every step of wait keeps the rest of the invariant.                        *)
LEMMA WaiterWakeup ==
    ASSUME MonitorInv, NEW t \in Waiter, WaiterStep(t), waiters' \in Nat
    PROVE  WakeupInv'
<1>. USE ThreadAssumption
<1>. USE DEF MonitorInv, WakeupInv, MonitorTypeOK, InsideHoldsMutex, NoLostWakeup,
             NoLostStore, Asleep, Inside, Thread, Goto
<1>1. CASE Wait(t)
  BY <1>1 DEF Wait
<1>2. CASE TestPrior(t)
  BY <1>2 DEF TestPrior
<1>3. CASE CountWaiter(t)
  BY <1>3 DEF CountWaiter
<1>4. CASE TestSignaled(t)
  BY <1>4 DEF TestSignaled
<1>5. CASE LoadSignaled(t)
  BY <1>5 DEF LoadSignaled
<1>6. CASE StoreSignaled(t)
  BY <1>6 DEF StoreSignaled
<1>7. CASE ReturnTimedOut(t)
  BY <1>7 DEF ReturnTimedOut
<1>8. CASE CondWait(t)
  BY <1>8 DEF CondWait
<1>9. CASE WakeUp(t)
  BY <1>9 DEF WakeUp
<1>10. CASE Relock(t)
  BY <1>10 DEF Relock
<1>. QED
  BY <1>1, <1>2, <1>3, <1>4, <1>5, <1>6, <1>7, <1>8, <1>9, <1>10 DEF WaiterStep, WaitStep

(* Every step of signal keeps the rest of the invariant.                      *)
LEMMA SignalerWakeup ==
    ASSUME MonitorInv, NEW t \in Signaler, SignalerStep(t)
    PROVE  WakeupInv'
<1>. USE ThreadAssumption
<1>. USE DEF MonitorInv, WakeupInv, MonitorTypeOK, InsideHoldsMutex, NoLostWakeup,
             NoLostStore, Asleep, Inside, Thread, Goto
<1>1. ASSUME NEW n \in Int, CallSignal(t, n), misread' \in BOOLEAN PROVE WakeupInv'
  BY <1>1 DEF CallSignal
<1>2. CASE ReadWaiters(t)
  BY <1>2 DEF ReadWaiters
<1>3. CASE SetSignaled(t)
  BY <1>3 DEF SetSignaled
<1>4. CASE Notify(t)
  BY <1>4 DEF Notify
<1>5. waiters \in Int /\ 1 .. MaxThreads \subseteq Int
  OBVIOUS
<1>. QED
  BY <1>1, <1>2, <1>3, <1>4, <1>5, Zenon DEF SignalerStep, SignalStep, Signal, Broadcast

-----------------------------------------------------------------------------
(* Every step of wait keeps the assertions: it stores one less than a value   *)
(* that was positive when it was loaded, and only tests let threads through.  *)
LEMMA WaiterAsserts ==
    ASSUME MonitorInv, NEW t \in Waiter, WaiterStep(t)
    PROVE  AssertInv'
<1>0. misread' = misread
  BY DEF WaiterStep, WaitStep, Wait, TestPrior, CountWaiter, TestSignaled, LoadSignaled,
         StoreSignaled, ReturnTimedOut, CondWait, WakeUp, Relock
<1>. SUFFICES ASSUME ~misread PROVE AssertInv'
  BY <1>0 DEF AssertInv, SignalsAsserted, StoresAsserted
<1>. USE ThreadAssumption, <1>0
<1>. USE DEF MonitorInv, AssertInv, SignalsAsserted, StoresAsserted, MonitorTypeOK,
             InsideHoldsMutex, Inside, Thread, Goto
<1>1. CASE Wait(t)
  BY <1>1 DEF Wait
<1>2. CASE TestPrior(t)
  BY <1>2 DEF TestPrior
<1>3. CASE CountWaiter(t)
  BY <1>3 DEF CountWaiter
<1>4. CASE TestSignaled(t)
  BY <1>4 DEF TestSignaled
<1>5. CASE LoadSignaled(t)
  BY <1>5 DEF LoadSignaled
<1>6. CASE StoreSignaled(t)
  BY <1>6 DEF StoreSignaled
<1>7. CASE ReturnTimedOut(t)
  BY <1>7 DEF ReturnTimedOut
<1>8. CASE CondWait(t)
  BY <1>8 DEF CondWait
<1>9. CASE WakeUp(t)
  BY <1>9 DEF WakeUp
<1>10. CASE Relock(t)
  BY <1>10 DEF Relock
<1>. QED
  BY <1>1, <1>2, <1>3, <1>4, <1>5, <1>6, <1>7, <1>8, <1>9, <1>10 DEF WaiterStep, WaitStep

(* Every step of signal keeps the assertions: it stores a positive value if   *)
(* it is given one and uses one value of _waiters.                            *)
LEMMA SignalerAsserts ==
    ASSUME MonitorInv, NEW t \in Signaler, SignalerStep(t)
    PROVE  AssertInv'
<1>. USE ThreadAssumption
<1>. USE DEF MonitorInv, AssertInv, SignalsAsserted, StoresAsserted, MonitorTypeOK,
             Inside, Thread, Goto
<1>1. ASSUME NEW n \in Int, n > 0 \/ misread', CallSignal(t, n), misread => misread'
      PROVE  AssertInv'
  BY <1>1 DEF CallSignal
<1>2. CASE ReadWaiters(t)
  BY <1>2 DEF ReadWaiters
<1>3. CASE SetSignaled(t)
  <2>1. PICK a, b \in {reg[t], waiters} :
             /\ signaled' = IF reg[t] = 0 THEN 1
                            ELSE IF nrThreads[t] > a THEN b ELSE nrThreads[t]
             /\ misread' = (misread \/ {a, b} # {reg[t]})
    BY <1>3 DEF SetSignaled
  <2>. SUFFICES ASSUME ~misread' PROVE AssertInv'
    OBVIOUS
  <2>2. ~misread /\ a = reg[t] /\ b = reg[t]
    BY <2>1, Zenon
  <2>3. signaled' > 0
    BY <1>3, <2>1, <2>2 DEF SetSignaled
  <2>. QED
    BY <1>3, <2>2, <2>3 DEF SetSignaled
<1>4. CASE Notify(t)
  BY <1>4 DEF Notify
<1>5. waiters \in Int /\ (waiters > 0 \/ waiters = 0) /\ \A n \in 1 .. MaxThreads : n \in Int /\ n > 0
  OBVIOUS
<1>. QED
  BY <1>1, <1>2, <1>3, <1>4, <1>5, Zenon DEF SignalerStep, SignalStep, Signal, Broadcast

-----------------------------------------------------------------------------
(* MonitorInv holds initially and every step keeps it.                        *)
LEMMA MonitorInitInv == MonitorInit => MonitorInv
<1>. SUFFICES ASSUME MonitorInit PROVE MonitorInv
  OBVIOUS
<1>1. CountedWaiters = {}
  BY DEF CountedWaiters, MonitorInit, Counted, Thread
<1>2. WaitersCounted
  BY <1>1, FS_EmptySet DEF WaitersCounted, CountedWaiters, MonitorInit
<1>3. WakeupInv
  <2>1. misread \in BOOLEAN
    BY Zenon DEF MonitorInit
  <2>. QED
    BY <2>1, ThreadAssumption DEF MonitorInit, WakeupInv, MonitorTypeOK, InsideHoldsMutex,
          NoLostWakeup, NoLostStore, Asleep, Inside, Thread
<1>4. AssertInv
  BY DEF MonitorInit, AssertInv, SignalsAsserted, StoresAsserted, Thread
<1>. QED
  BY <1>2, <1>3, <1>4 DEF MonitorInv, WakeupInv, AssertInv

LEMMA MonitorNextInv == MonitorInv /\ [MonitorNext]_monitorVars => MonitorInv'
<1>. SUFFICES ASSUME MonitorInv, [MonitorNext]_monitorVars PROVE MonitorInv'
  OBVIOUS
<1>1. ASSUME NEW t \in Waiter, WaiterStep(t) PROVE MonitorInv'
  <2>1. WaitersCounted'
    BY <1>1, WaiterCounts
  <2>2. waiters' \in Nat
    BY <2>1, CountNat
  <2>3. WakeupInv'
    BY <1>1, <2>2, WaiterWakeup
  <2>4. AssertInv'
    BY <1>1, WaiterAsserts
  <2>. QED
    BY <2>1, <2>3, <2>4 DEF MonitorInv, WakeupInv, AssertInv
<1>2. ASSUME NEW t \in Signaler, SignalerStep(t) PROVE MonitorInv'
  <2>1. WaitersCounted'
    BY <1>2, SignalerCounts
  <2>2. WakeupInv'
    BY <1>2, SignalerWakeup
  <2>3. AssertInv'
    BY <1>2, SignalerAsserts
  <2>. QED
    BY <2>1, <2>2, <2>3 DEF MonitorInv, WakeupInv, AssertInv
<1>3. CASE UNCHANGED monitorVars
  BY <1>3 DEF monitorVars, MonitorInv, MonitorTypeOK, InsideHoldsMutex, NoLostWakeup,
        NoLostStore, Asleep, WaitersCounted, SignalsAsserted, StoresAsserted
<1>. QED
  BY <1>1, <1>2, <1>3 DEF MonitorNext, WaiterStep, SignalerStep

-----------------------------------------------------------------------------
(* The inductive invariant of the monitor.                                    *)
THEOREM MonitorInvariant == MonitorSpec => []MonitorInv
BY MonitorInitInv, MonitorNextInv, PTL DEF MonitorSpec

(* While a thread sleeps in wait, a signal is never left without a thread in  *)
(* signal that is about to wake everyone up.                                  *)
THEOREM NoWakeupIsLost == MonitorSpec => []NoLostWakeup
<1>1. MonitorInv => NoLostWakeup
  BY DEF MonitorInv
<1>. QED
  BY <1>1, MonitorInvariant, PTL

(* _waiters is exactly the number of threads waiting.                         *)
THEOREM WaitersAreCounted == MonitorSpec => []WaitersCounted
<1>1. MonitorInv => WaitersCounted
  BY DEF MonitorInv
<1>. QED
  BY <1>1, MonitorInvariant, PTL

(* The assertions of signal and wait on _signaled hold, for any number of     *)
(* threads, as long as no broadcast finds nobody waiting and no signal uses   *)
(* two values of _waiters.                                                    *)
THEOREM SignalsAreAsserted == MonitorSpec => []SignalsAsserted
<1>1. MonitorInv => SignalsAsserted
  BY DEF MonitorInv
<1>. QED
  BY <1>1, MonitorInvariant, PTL

(* _waiters is never negative, a thread is always at a point of its function, *)
(* and only threads in wait hold the mutex (wait, signal).                    *)
THEOREM MonitorTypeCorrect == MonitorSpec => []MonitorTypeOK
<1>1. MonitorInv => MonitorTypeOK
  BY DEF MonitorInv
<1>. QED
  BY <1>1, MonitorInvariant, PTL


EventType == [service : Service, new : BOOLEAN]

(* A stub without an interface index was not announced: it holds nothing.  *)
Sound(stub) == stub \in Stub /\ (stub.ifs = {} => stub = NoStub)

(* The types of the variables that the callbacks change.                   *)
QueryTypes ==
    /\ queries \subseteq Node
    /\ queryNodes \in [Node -> [Name -> Stub]]
    /\ nodes \in [Node -> SUBSET Name]
    /\ resolvers \in [Node -> [Service -> Nat]]
    /\ inbox \in [Node -> Seq(EventType)]

LocalTypes ==
    /\ localNodes \subseteq Node
    /\ suspendedNodes \subseteq Node
    /\ isSuspended \in BOOLEAN
    /\ avahiGroups \subseteq localNodes
    /\ avahiClients = {nodeClient(m) : m \in localNodes} \cup {queryClient(q) : q \in queries}

NetworkTypes == present \subseteq Service /\ IsFiniteSet(present)

(* The stubs of every query are sound, a query that does not browse has    *)
(* nothing, and one that browses lists only nodes it knows.                *)
StubsInv ==
    /\ \A q \in Node, n \in Name : Sound(queryNodes[q][n])
    /\ \A q \in Node \ queries :
          /\ Known(queryNodes[q]) = {}
          /\ \A s \in Service : resolvers[q][s] = 0
          /\ inbox[q] = <<>>
    /\ \A q \in queries : nodes[q] \subseteq Known(queryNodes[q])

(* The inductive invariant.                                                *)
AvahiInv == QueryTypes /\ LocalTypes /\ NetworkTypes /\ StubsInv

LEMMA AvahiInvImplies ==
    ASSUME AvahiInv
    PROVE  AvahiTypeOK /\ AvahiValidateState
<1>1. AvahiTypeOK
  BY Zenon DEF AvahiInv, QueryTypes, LocalTypes, NetworkTypes, AvahiTypeOK, EventType
<1>2. AvahiValidateState
  BY DEF AvahiInv, LocalTypes, StubsInv, AvahiValidateState
<1>. QED
  BY <1>1, <1>2

-----------------------------------------------------------------------------
(* Stubs.                                                                  *)

LEMMA NoStubSound == Sound(NoStub) /\ NoStub.ifs = {}
BY DEF Sound, NoStub, Stub

LEMMA AnnouncedSound ==
    ASSUME NEW stub, Sound(stub), NEW s \in Service
    PROVE  Sound(Announced(stub, s)) /\ Announced(stub, s).ifs # {}
<1>1. s.if \in If
  BY DEF Service
<1>. QED
  BY <1>1 DEF Sound, Stub, Announced

LEMMA WithdrawnSound ==
    ASSUME NEW stub, Sound(stub), NEW s \in Service
    PROVE  /\ Sound(Withdrawn(stub, s))
           /\ Withdrawn(stub, s).ifs \subseteq stub.ifs
<1>. DEFINE i    == s.if
            left == [stub EXCEPT !.ipv4 = IF s.protocol = "INET" THEN @ \ {i} ELSE @,
                                 !.ipv6 = IF s.protocol = "INET6" THEN @ \ {i} ELSE @]
            less == [left EXCEPT !.ifs = @ \ {i}]
<1>1. i \in If
  BY DEF Service
<1>2. /\ left \in Stub /\ left.ifs = stub.ifs
      /\ left.ipv4 \subseteq stub.ipv4 /\ left.ipv6 \subseteq stub.ipv6
  BY <1>1, Zenon DEF Sound, Stub
<1>3. Withdrawn(stub, s) = IF i \in left.ipv4 \cup left.ipv6 THEN left
                           ELSE IF left.ifs \subseteq {i} THEN NoStub ELSE less
  BY DEF Withdrawn
<1>. HIDE DEF left
<1>4. less \in Stub /\ less.ifs = left.ifs \ {i}
  BY <1>1, <1>2 DEF Stub
<1>. HIDE DEF less
<1>5. CASE i \in left.ipv4 \cup left.ipv6
  <2>1. stub.ifs # {}
    BY <1>2, <1>5 DEF Sound, NoStub
  <2>. QED
    BY <1>2, <1>3, <1>5, <2>1 DEF Sound
<1>6. CASE i \notin left.ipv4 \cup left.ipv6 /\ left.ifs \subseteq {i}
  BY <1>3, <1>6, NoStubSound
<1>7. CASE i \notin left.ipv4 \cup left.ipv6 /\ ~(left.ifs \subseteq {i})
  BY <1>2, <1>3, <1>4, <1>7 DEF Sound
<1>. QED
  BY <1>5, <1>6, <1>7

-----------------------------------------------------------------------------
(* What the callbacks do to the stubs and to the listener.                 *)

(* browseCallback gives one node of one query a sound stub, and takes the  *)
(* node from the listener exactly when that stub holds nothing.            *)
LEMMA BrowseCallbackEffect ==
    ASSUME QueryTypes, StubsInv, NEW q \in Node, BrowseCallback(q)
    PROVE  /\ q \in queries
           /\ \E n \in Name, new \in Stub :
                /\ Sound(new)
                /\ queryNodes' = [queryNodes EXCEPT ![q][n] = new]
                /\ nodes' = [nodes EXCEPT ![q] = IF new.ifs = {} THEN nodes[q] \ {n} ELSE nodes[q]]
           /\ resolvers' \in [Node -> [Service -> Nat]]
           /\ \A p \in Node \ {q} : resolvers'[p] = resolvers[p]
           /\ inbox' \in [Node -> Seq(EventType)]
           /\ \A p \in Node \ {q} : inbox'[p] = inbox[p]
<1>. DEFINE e   == Head(inbox[q])
            s   == e.service
            n   == s.name
            new == IF e.new THEN Announced(queryNodes[q][n], s) ELSE Withdrawn(queryNodes[q][n], s)
<1>1. inbox[q] # <<>> /\ inbox[q] \in Seq(EventType)
  BY DEF BrowseCallback, QueryTypes
<1>2. e \in EventType /\ Tail(inbox[q]) \in Seq(EventType)
  BY <1>1
<1>3. s \in Service /\ n \in Name
  BY <1>2 DEF EventType, Service
<1>4. q \in queries
  BY <1>1, Zenon DEF StubsInv
<1>5. /\ inbox' = [inbox EXCEPT ![q] = Tail(inbox[q])]
      /\ queryNodes' = [queryNodes EXCEPT ![q][n] = new]
      /\ nodes' = [nodes EXCEPT ![q] = IF new = NoStub THEN nodes[q] \ {n} ELSE nodes[q]]
      /\ resolvers' = IF e.new THEN [resolvers EXCEPT ![q][s] = resolvers[q][s] + 1] ELSE resolvers
  BY DEF BrowseCallback, QueryRemoved
<1>6. Sound(new)
  <2>1. Sound(queryNodes[q][n])
    BY <1>3 DEF StubsInv
  <2>. QED
    BY <1>3, <2>1, AnnouncedSound, WithdrawnSound
<1>. HIDE DEF new
<1>7. new = NoStub <=> new.ifs = {}
  BY <1>6, NoStubSound DEF Sound
<1>8. nodes' = [nodes EXCEPT ![q] = IF new.ifs = {} THEN nodes[q] \ {n} ELSE nodes[q]]
  BY <1>5, <1>7, Zenon
<1>9. /\ resolvers' \in [Node -> [Service -> Nat]]
      /\ \A p \in Node \ {q} : resolvers'[p] = resolvers[p]
  <2>. HIDE DEF e, s
  <2>1. CASE e.new
    BY <1>3, <1>5, <2>1 DEF QueryTypes
  <2>2. CASE ~ e.new
    BY <1>5, <2>2 DEF QueryTypes
  <2>. QED
    BY <2>1, <2>2
<1>10. /\ inbox' \in [Node -> Seq(EventType)]
       /\ \A p \in Node \ {q} : inbox'[p] = inbox[p]
  BY <1>2, <1>5 DEF QueryTypes
<1>. HIDE DEF n
<1>11. new \in Stub
  BY <1>6 DEF Sound
<1>12. \E n1 \in Name, new1 \in Stub :
          /\ Sound(new1)
          /\ queryNodes' = [queryNodes EXCEPT ![q][n1] = new1]
          /\ nodes' = [nodes EXCEPT ![q] = IF new1.ifs = {} THEN nodes[q] \ {n1} ELSE nodes[q]]
  BY <1>3, <1>5, <1>6, <1>8, <1>11, Zenon
<1>. QED
  BY <1>4, <1>9, <1>10, <1>12, Zenon

(* resolveCallback leaves the interface indices of every stub, and adds at *)
(* most the node it found, which is known.                                 *)
LEMMA ResolveCallbackEffect ==
    ASSUME QueryTypes, StubsInv, NEW q \in Node, NEW s \in Service, NEW found \in BOOLEAN,
           ResolveCallback(q, s, found)
    PROVE  /\ q \in queries
           /\ \E n \in Name, new \in Stub :
                /\ Sound(new)
                /\ new.ifs # {} /\ queryNodes[q][n].ifs # {}
                /\ queryNodes' = [queryNodes EXCEPT ![q][n] = new]
                /\ nodes' = nodes \/ nodes' = [nodes EXCEPT ![q] = nodes[q] \cup {n}]
           /\ resolvers' \in [Node -> [Service -> Nat]]
           /\ \A p \in Node \ {q} : resolvers'[p] = resolvers[p]
           /\ inbox' = inbox
<1>. DEFINE n    == s.name
            stub == queryNodes[q][n]
            new  == [stub EXCEPT !.ipv4 = IF s.protocol = "INET" /\ <<n, s.if>> \in IPv4
                                          THEN @ \cup {s.if} ELSE @,
                                 !.ipv6 = IF s.protocol = "INET6" THEN @ \cup {s.if} ELSE @]
            next == IF found THEN new ELSE stub
<1>1. n \in Name /\ s.if \in If
  BY DEF Service
<1>2. stub \in Stub
  BY <1>1 DEF QueryTypes
<1>3. /\ resolvers[q][s] > 0
      /\ stub.ifs # {}
      /\ resolvers' = [resolvers EXCEPT ![q][s] = resolvers[q][s] - 1]
      /\ queryNodes' = [queryNodes EXCEPT ![q][n] = next]
      /\ nodes' = [nodes EXCEPT ![q] = IF found /\ new.ipv4 # {} THEN nodes[q] \cup {n} ELSE nodes[q]]
      /\ inbox' = inbox
  BY DEF ResolveCallback, QueryFound
<1>4. q \in queries
  BY <1>3 DEF StubsInv
<1>5. new \in Stub /\ new.ifs = stub.ifs
  BY <1>1, <1>2, Zenon DEF Stub
<1>. HIDE DEF stub, new
<1>6. next.ifs # {} /\ Sound(next)
  BY <1>2, <1>3, <1>5 DEF Sound
<1>7. nodes' = nodes \/ nodes' = [nodes EXCEPT ![q] = nodes[q] \cup {n}]
  BY <1>3, Zenon DEF QueryTypes
<1>8. /\ resolvers' \in [Node -> [Service -> Nat]]
      /\ \A p \in Node \ {q} : resolvers'[p] = resolvers[p]
  <2>1. resolvers[q] \in [Service -> Nat] /\ resolvers[q][s] - 1 \in Nat
    BY <1>3 DEF QueryTypes
  <2>. QED
    BY <1>3, <2>1 DEF QueryTypes
<1>9. queryNodes[q][n].ifs # {}
  BY <1>3 DEF stub
<1>. HIDE DEF next, n
<1>10. next \in Stub
  BY <1>6 DEF Sound
<1>11. \E n1 \in Name, new1 \in Stub :
          /\ Sound(new1)
          /\ new1.ifs # {} /\ queryNodes[q][n1].ifs # {}
          /\ queryNodes' = [queryNodes EXCEPT ![q][n1] = new1]
          /\ nodes' = nodes \/ nodes' = [nodes EXCEPT ![q] = nodes[q] \cup {n1}]
  BY <1>1, <1>3, <1>6, <1>7, <1>9, <1>10, Zenon
<1>. QED
  BY <1>3, <1>4, <1>8, <1>11, Zenon

(* Giving one node of one query a new stub changes what that query knows   *)
(* by that node alone.                                                     *)
LEMMA NewStub ==
    ASSUME QueryTypes, StubsInv, NEW q \in Node, NEW n \in Name, NEW new, Sound(new),
           queryNodes' = [queryNodes EXCEPT ![q][n] = new]
    PROVE  /\ queryNodes' \in [Node -> [Name -> Stub]]
           /\ \A p \in Node, m \in Name : Sound(queryNodes'[p][m])
           /\ \A p \in Node \ {q} : queryNodes'[p] = queryNodes[p]
           /\ Known(queryNodes'[q]) = IF new.ifs = {} THEN Known(queryNodes[q]) \ {n}
                                      ELSE Known(queryNodes[q]) \cup {n}
<1>1. new \in Stub
  BY DEF Sound
<1>2. /\ queryNodes' \in [Node -> [Name -> Stub]]
      /\ \A p \in Node \ {q} : queryNodes'[p] = queryNodes[p]
  BY <1>1 DEF QueryTypes
<1>3. \A m \in Name : queryNodes'[q][m] = IF m = n THEN new ELSE queryNodes[q][m]
  BY DEF QueryTypes
<1>4. \A p \in Node, m \in Name : Sound(queryNodes'[p][m])
  BY <1>2, <1>3 DEF StubsInv
<1>5. Known(queryNodes'[q]) = IF new.ifs = {} THEN Known(queryNodes[q]) \ {n}
                              ELSE Known(queryNodes[q]) \cup {n}
  BY <1>3 DEF Known
<1>. QED
  BY <1>2, <1>4, <1>5

-----------------------------------------------------------------------------
(* The steps keep the invariant.                                           *)

LEMMA AnnouncementsType ==
    ASSUME NetworkTypes, NEW events \in Announcements
    PROVE  events \in Seq(EventType)
<1>1. Cardinality(present) \in Nat
  BY FS_CardinalityType DEF NetworkTypes
<1>2. PICK t \in [1 .. Cardinality(present) -> present] :
         events = [k \in 1 .. Cardinality(present) |-> [service |-> t[k], new |-> TRUE]]
  BY DEF Announcements
<1>3. \A k \in 1 .. Cardinality(present) : [service |-> t[k], new |-> TRUE] \in EventType
  BY DEF NetworkTypes, EventType
<1>. QED
  BY <1>1, <1>2, <1>3

LEMMA StartBrowsingInv ==
    ASSUME QueryTypes, NetworkTypes, StubsInv, NEW new \in SUBSET (Node \ queries),
           StartBrowsing(new)
    PROVE  QueryTypes' /\ StubsInv'
<1>1. PICK events \in [new -> Announcements] :
         inbox' = [q \in Node |-> IF q \in new THEN events[q] ELSE inbox[q]]
  BY DEF StartBrowsing
<1>2. \A q \in new : events[q] \in Seq(EventType)
  BY AnnouncementsType
<1>3. inbox' \in [Node -> Seq(EventType)]
  BY <1>1, <1>2 DEF QueryTypes
<1>4. /\ queries' = queries \cup new
      /\ nodes' = [q \in Node |-> IF q \in new THEN {} ELSE nodes[q]]
      /\ queryNodes' = queryNodes
      /\ resolvers' = resolvers
  BY DEF StartBrowsing
<1>5. QueryTypes'
  BY <1>3, <1>4 DEF QueryTypes
<1>6. \A q \in Node \ queries' : inbox'[q] = <<>>
  BY <1>1, <1>4 DEF StubsInv
<1>7. \A q \in queries' : nodes'[q] \subseteq Known(queryNodes'[q])
  BY <1>4 DEF StubsInv, QueryTypes
<1>. QED
  BY <1>4, <1>5, <1>6, <1>7, Zenon DEF StubsInv

LEMMA UnbrowseInv ==
    ASSUME QueryTypes, LocalTypes, StubsInv, NEW q \in Node, Unbrowse(q)
    PROVE  /\ QueryTypes' /\ StubsInv'
           /\ q \in queries
           /\ \A p \in Node \ {q} : Known(queryNodes'[p]) = Known(queryNodes[p])
           /\ Known(queryNodes'[q]) = {}
<1>1. q \in queries
  BY DEF Unbrowse, LocalTypes, nodeClient, queryClient
<1>2. /\ queries' = queries \ {q}
      /\ queryNodes' = [queryNodes EXCEPT ![q] = [n \in Name |-> NoStub]]
      /\ resolvers' = [resolvers EXCEPT ![q] = [s \in Service |-> 0]]
      /\ inbox' = [inbox EXCEPT ![q] = <<>>]
      /\ nodes' = nodes
  BY DEF Unbrowse
<1>3. \A n \in Name : queryNodes'[q][n] = NoStub
  BY <1>2 DEF QueryTypes
<1>4. Known(queryNodes'[q]) = {}
  BY <1>3, NoStubSound DEF Known
<1>5. \A p \in Node \ {q} : queryNodes'[p] = queryNodes[p]
  BY <1>2 DEF QueryTypes
<1>6. QueryTypes'
  <2>1. [n \in Name |-> NoStub] \in [Name -> Stub]
    BY NoStubSound DEF Sound
  <2>2. <<>> \in Seq(EventType)
    OBVIOUS
  <2>3. queryNodes' \in [Node -> [Name -> Stub]] /\ inbox' \in [Node -> Seq(EventType)]
    BY <1>2, <2>1, <2>2 DEF QueryTypes
  <2>4. resolvers' \in [Node -> [Service -> Nat]]
    BY <1>2 DEF QueryTypes
  <2>. QED
    BY <1>2, <2>3, <2>4 DEF QueryTypes
<1>7. \A p \in Node, n \in Name : Sound(queryNodes'[p][n])
  BY <1>3, <1>5, NoStubSound DEF StubsInv
<1>8. \A p \in Node \ queries' :
         Known(queryNodes'[p]) = {} /\ (\A s \in Service : resolvers'[p][s] = 0) /\ inbox'[p] = <<>>
  BY <1>2, <1>4, <1>5, Zenon DEF StubsInv, QueryTypes
<1>9. \A p \in queries' : nodes'[p] \subseteq Known(queryNodes'[p])
  BY <1>2, <1>5 DEF StubsInv, QueryTypes
<1>10. StubsInv'
  BY <1>7, <1>8, <1>9 DEF StubsInv
<1>. QED
  BY <1>1, <1>4, <1>5, <1>6, <1>10

LEMMA BrowseCallbackInv ==
    ASSUME QueryTypes, StubsInv, NEW q \in Node, BrowseCallback(q)
    PROVE  QueryTypes' /\ StubsInv'
<1>1. q \in queries /\ queries' = queries
  BY BrowseCallbackEffect, Zenon DEF BrowseCallback
<1>2. PICK n \in Name, new \in Stub :
        /\ Sound(new)
        /\ queryNodes' = [queryNodes EXCEPT ![q][n] = new]
        /\ nodes' = [nodes EXCEPT ![q] = IF new.ifs = {} THEN nodes[q] \ {n} ELSE nodes[q]]
  BY BrowseCallbackEffect, Zenon
<1>3. /\ queryNodes' \in [Node -> [Name -> Stub]]
      /\ \A p \in Node, m \in Name : Sound(queryNodes'[p][m])
      /\ \A p \in Node \ {q} : queryNodes'[p] = queryNodes[p]
      /\ Known(queryNodes'[q]) = IF new.ifs = {} THEN Known(queryNodes[q]) \ {n}
                                 ELSE Known(queryNodes[q]) \cup {n}
  BY <1>2, NewStub, Zenon
<1>4. nodes' \in [Node -> SUBSET Name]
  BY <1>2 DEF QueryTypes
<1>5. nodes'[q] \subseteq Known(queryNodes'[q])
  BY <1>1, <1>2, <1>3 DEF QueryTypes, StubsInv
<1>6. \A p \in queries' : nodes'[p] \subseteq Known(queryNodes'[p])
  BY <1>1, <1>2, <1>3, <1>5, Zenon DEF QueryTypes, StubsInv
<1>7. QueryTypes'
  BY <1>1, <1>3, <1>4, BrowseCallbackEffect DEF QueryTypes
<1>8. \A p \in Node \ {q} : resolvers'[p] = resolvers[p] /\ inbox'[p] = inbox[p]
  BY BrowseCallbackEffect
<1>9. \A p \in Node \ queries' :
         Known(queryNodes'[p]) = {} /\ (\A s \in Service : resolvers'[p][s] = 0) /\ inbox'[p] = <<>>
  <2>1. TAKE p \in Node \ queries'
  <2>2. p \in Node \ queries /\ p # q
    BY <1>1
  <2>3. queryNodes'[p] = queryNodes[p] /\ resolvers'[p] = resolvers[p] /\ inbox'[p] = inbox[p]
    BY <1>3, <1>8, <2>2
  <2>. QED
    BY <2>2, <2>3 DEF StubsInv
<1>. QED
  BY <1>3, <1>6, <1>7, <1>9 DEF StubsInv

LEMMA ResolveCallbackInv ==
    ASSUME QueryTypes, StubsInv, NEW q \in Node, NEW s \in Service, NEW found \in BOOLEAN,
           ResolveCallback(q, s, found)
    PROVE  QueryTypes' /\ StubsInv'
<1>1. q \in queries /\ queries' = queries
  BY ResolveCallbackEffect, Zenon DEF ResolveCallback
<1>2. PICK n \in Name, new \in Stub :
        /\ Sound(new)
        /\ new.ifs # {} /\ queryNodes[q][n].ifs # {}
        /\ queryNodes' = [queryNodes EXCEPT ![q][n] = new]
        /\ nodes' = nodes \/ nodes' = [nodes EXCEPT ![q] = nodes[q] \cup {n}]
  BY ResolveCallbackEffect
<1>3. /\ queryNodes' \in [Node -> [Name -> Stub]]
      /\ \A p \in Node, m \in Name : Sound(queryNodes'[p][m])
      /\ \A p \in Node \ {q} : queryNodes'[p] = queryNodes[p]
      /\ Known(queryNodes'[q]) = Known(queryNodes[q]) \cup {n}
  BY <1>2, NewStub, Zenon
<1>4. /\ nodes' \in [Node -> SUBSET Name]
      /\ \A p \in Node \ {q} : nodes'[p] = nodes[p]
      /\ nodes'[q] \subseteq nodes[q] \cup {n}
  <2>1. CASE nodes' = nodes
    BY <2>1 DEF QueryTypes
  <2>2. CASE nodes' = [nodes EXCEPT ![q] = nodes[q] \cup {n}]
    BY <2>2 DEF QueryTypes
  <2>. QED
    BY <1>2, <2>1, <2>2
<1>5. nodes'[q] \subseteq Known(queryNodes'[q])
  BY <1>1, <1>3, <1>4 DEF StubsInv
<1>6. \A p \in queries' : nodes'[p] \subseteq Known(queryNodes'[p])
  BY <1>1, <1>3, <1>4, <1>5, Zenon DEF QueryTypes, StubsInv
<1>7. QueryTypes'
  BY <1>1, <1>3, <1>4, ResolveCallbackEffect DEF QueryTypes
<1>8. \A p \in Node \ {q} : resolvers'[p] = resolvers[p] /\ inbox'[p] = inbox[p]
  BY ResolveCallbackEffect
<1>9. \A p \in Node \ queries' :
         Known(queryNodes'[p]) = {} /\ (\A t \in Service : resolvers'[p][t] = 0) /\ inbox'[p] = <<>>
  <2>1. TAKE p \in Node \ queries'
  <2>2. p \in Node \ queries /\ p # q
    BY <1>1, Zenon
  <2>3. queryNodes'[p] = queryNodes[p] /\ resolvers'[p] = resolvers[p] /\ inbox'[p] = inbox[p]
    BY <1>3, <1>8, <2>2
  <2>. QED
    BY <2>2, <2>3 DEF StubsInv
<1>. QED
  BY <1>3, <1>6, <1>7, <1>9 DEF StubsInv

LEMMA TellInv ==
    ASSUME QueryTypes, StubsInv, NEW s \in Service, NEW new \in BOOLEAN, Tell(s, new),
           UNCHANGED <<queries, queryNodes, nodes, resolvers>>
    PROVE  QueryTypes' /\ StubsInv'
<1>1. [service |-> s, new |-> new] \in EventType
  BY DEF EventType
<1>2. inbox' \in [Node -> Seq(EventType)]
  BY <1>1 DEF QueryTypes, Tell
<1>3. \A q \in Node \ queries : inbox'[q] = <<>>
  BY ZenonT(30) DEF Tell, StubsInv
<1>. QED
  BY <1>2, <1>3 DEF QueryTypes, StubsInv

(* The nodes of this process and the clients.                              *)
LEMMA LocalStep ==
    ASSUME QueryTypes, LocalTypes, Next
    PROVE  LocalTypes'
<1>. USE DEF LocalTypes, nodeClient, queryClient
<1>1. ASSUME NEW m \in Node, Add(m)
      PROVE  LocalTypes'
  BY <1>1 DEF Add, Established
<1>2. ASSUME NEW m \in Node, ClientCallback(m)
      PROVE  LocalTypes'
  BY <1>2 DEF ClientCallback
<1>3. ASSUME NEW m \in Node, Remove(m)
      PROVE  LocalTypes'
  BY <1>3 DEF Remove
<1>4. ASSUME NEW q \in Node, Browse(q)
      PROVE  LocalTypes'
  BY <1>4 DEF Browse, StartBrowsing, localVars
<1>5. ASSUME NEW q \in Node, Unbrowse(q)
      PROVE  LocalTypes'
  BY <1>5 DEF Unbrowse, localVars
<1>6. ASSUME NEW q \in Node, BrowseCallback(q)
      PROVE  LocalTypes'
  BY <1>6 DEF BrowseCallback, localVars
<1>7. ASSUME NEW q \in Node, NEW s \in Service, NEW found \in BOOLEAN, ResolveCallback(q, s, found)
      PROVE  LocalTypes'
  BY <1>7 DEF ResolveCallback, localVars
<1>8. ASSUME Suspend
      PROVE  LocalTypes'
  BY <1>8 DEF Suspend
<1>9. ASSUME Resume
      PROVE  LocalTypes'
  BY <1>9, Zenon DEF Resume, StartBrowsing, Established
<1>10. ASSUME NEW s \in Service, Appear(s) \/ Disappear(s)
       PROVE  LocalTypes'
  BY <1>10, Zenon DEF Appear, Disappear, localVars
<1>. QED
  BY <1>1, <1>2, <1>3, <1>4, <1>5, <1>6, <1>7, <1>8, <1>9, <1>10 DEF Next

LEMMA NetworkStep ==
    ASSUME NetworkTypes, Next
    PROVE  NetworkTypes'
<1>. USE DEF NetworkTypes
<1>1. ASSUME NEW s \in Service, Appear(s)
      PROVE  NetworkTypes'
  BY <1>1, FS_AddElement DEF Appear
<1>2. ASSUME NEW s \in Service, Disappear(s)
      PROVE  NetworkTypes'
  BY <1>2, FS_RemoveElement DEF Disappear
<1>3. ASSUME UNCHANGED present
      PROVE  NetworkTypes'
  BY <1>3
<1>4. ASSUME NEW m \in Node, Add(m) \/ ClientCallback(m) \/ Remove(m)
      PROVE  UNCHANGED present
  BY <1>4, Zenon DEF Add, ClientCallback, Remove
<1>5. ASSUME NEW m \in Node, Browse(m) \/ Unbrowse(m)
      PROVE  UNCHANGED present
  BY <1>5, Zenon DEF Browse, Unbrowse
<1>6. ASSUME NEW m \in Node, BrowseCallback(m)
      PROVE  UNCHANGED present
  BY <1>6, Zenon DEF BrowseCallback
<1>7. ASSUME NEW m \in Node, NEW s \in Service, NEW found \in BOOLEAN, ResolveCallback(m, s, found)
      PROVE  UNCHANGED present
  BY <1>7, Zenon DEF ResolveCallback
<1>8. ASSUME Suspend \/ Resume
      PROVE  UNCHANGED present
  BY <1>8, Zenon DEF Suspend, Resume
<1>. HIDE DEF NetworkTypes
<1>. QED
  BY <1>1, <1>2, <1>3, <1>4, <1>5, <1>6, <1>7, <1>8, Zenon DEF Next

LEMMA QueryStep ==
    ASSUME AvahiInv, Next
    PROVE  QueryTypes' /\ StubsInv'
<1>. USE DEF AvahiInv
<1>1. ASSUME UNCHANGED <<queries, queryNodes, nodes, resolvers, inbox>>
      PROVE  QueryTypes' /\ StubsInv'
  BY <1>1 DEF QueryTypes, StubsInv
<1>2. ASSUME NEW m \in Node, Add(m) \/ ClientCallback(m) \/ Remove(m)
      PROVE  QueryTypes' /\ StubsInv'
  BY <1>1, <1>2 DEF Add, ClientCallback, Remove
<1>3. ASSUME Suspend
      PROVE  QueryTypes' /\ StubsInv'
  BY <1>1, <1>3 DEF Suspend
<1>4. ASSUME NEW q \in Node, Browse(q)
      PROVE  QueryTypes' /\ StubsInv'
  BY <1>4, StartBrowsingInv DEF Browse
<1>5. ASSUME Resume
      PROVE  QueryTypes' /\ StubsInv'
  <2>1. suspendedNodes \ queries \in SUBSET (Node \ queries)
    BY DEF LocalTypes
  <2>. QED
    BY <1>5, <2>1, StartBrowsingInv DEF Resume
<1>6. ASSUME NEW q \in Node, Unbrowse(q)
      PROVE  QueryTypes' /\ StubsInv'
  BY <1>6, UnbrowseInv
<1>7. ASSUME NEW q \in Node, BrowseCallback(q)
      PROVE  QueryTypes' /\ StubsInv'
  BY <1>7, BrowseCallbackInv
<1>8. ASSUME NEW q \in Node, NEW s \in Service, NEW found \in BOOLEAN, ResolveCallback(q, s, found)
      PROVE  QueryTypes' /\ StubsInv'
  BY <1>8, ResolveCallbackInv
<1>9. ASSUME NEW s \in Service, Appear(s) \/ Disappear(s)
      PROVE  QueryTypes' /\ StubsInv'
  BY <1>9, TellInv, Zenon DEF Appear, Disappear
<1>. QED
  BY <1>2, <1>3, <1>4, <1>5, <1>6, <1>7, <1>8, <1>9 DEF Next

LEMMA AvahiInit ==
    ASSUME Init
    PROVE  AvahiInv
<1>. USE DEF Init
<1>1. QueryTypes
  BY NoStubSound DEF QueryTypes, Sound
<1>2. LocalTypes
  BY Zenon DEF LocalTypes
<1>3. NetworkTypes
  BY FS_EmptySet DEF NetworkTypes
<1>4. StubsInv
  BY NoStubSound DEF StubsInv, Known
<1>. QED
  BY <1>1, <1>2, <1>3, <1>4 DEF AvahiInv

(* The invariant behind the other results: the clients are those of the    *)
(* nodes and queries, stubs without an interface hold nothing, queries     *)
(* that do not browse hold nothing, and listed nodes are known.            *)
THEOREM AvahiInvariant == Spec => []AvahiInv
<1>1. Init => AvahiInv
  BY AvahiInit
<1>2. AvahiInv /\ [Next]_vars => AvahiInv'
  <2>1. ASSUME AvahiInv, Next
        PROVE  AvahiInv'
    BY <2>1, LocalStep, NetworkStep, QueryStep DEF AvahiInv
  <2>2. ASSUME AvahiInv, UNCHANGED vars
        PROVE  AvahiInv'
    BY <2>2 DEF vars, AvahiInv, QueryTypes, LocalTypes, NetworkTypes, StubsInv
  <2>. QED
    BY <2>1, <2>2
<1>. QED
  BY <1>1, <1>2, PTL DEF Spec

(* The handlers of Avahi discovery keep every variable in its type: stubs  *)
(* name interfaces, and no resolver is freed more often than it was made.  *)
THEOREM AvahiTypeCorrect == Spec => []AvahiTypeOK
<1>1. AvahiInv => AvahiTypeOK
  BY AvahiInvImplies
<1>. QED
  BY <1>1, AvahiInvariant, PTL

(* validateState of AvahiNodeDiscovery holds after every handler, and a    *)
(* query that does not browse holds neither stubs nor resolvers.           *)
THEOREM AvahiStateIsValid == Spec => []AvahiValidateState
<1>1. AvahiInv => AvahiValidateState
  BY AvahiInvImplies, Zenon
<1>. QED
  BY <1>1, AvahiInvariant, PTL

-----------------------------------------------------------------------------
(* Implementation of NodeListing.                                          *)

(* What the abstract variables are.                                        *)
known  == [q \in Node |-> Known(queryNodes[q])]
listed == [q \in Node |-> IF q \in queries THEN nodes[q] ELSE {}]

LEMMA StutterListing ==
    ASSUME \A q \in Node : Known(queryNodes'[q]) = Known(queryNodes[q]),
           \A q \in Node : (IF q \in queries' THEN nodes'[q] ELSE {})
                           = (IF q \in queries THEN nodes[q] ELSE {})
    PROVE  UNCHANGED <<known, listed>>
BY DEF known, listed

LEMMA StartBrowsingStutters ==
    ASSUME QueryTypes, NEW new \in SUBSET (Node \ queries), StartBrowsing(new)
    PROVE  UNCHANGED <<known, listed>>
<1>1. /\ queries' = queries \cup new
      /\ nodes' = [q \in Node |-> IF q \in new THEN {} ELSE nodes[q]]
      /\ queryNodes' = queryNodes
  BY DEF StartBrowsing
<1>2. \A q \in Node : (IF q \in queries' THEN nodes'[q] ELSE {})
                      = (IF q \in queries THEN nodes[q] ELSE {})
  BY <1>1
<1>. QED
  BY <1>1, <1>2, StutterListing

LEMMA UnbrowseWithdraws ==
    ASSUME QueryTypes, LocalTypes, StubsInv, NEW q \in Node, Unbrowse(q)
    PROVE  /\ known' = [known EXCEPT ![q] = {}]
           /\ listed' = [listed EXCEPT ![q] = {}]
<1>1. queries' = queries \ {q} /\ nodes' = nodes
  BY DEF Unbrowse
<1>2. \A p \in Node : Known(queryNodes'[p]) = IF p = q THEN {} ELSE Known(queryNodes[p])
  BY UnbrowseInv
<1>3. known' = [known EXCEPT ![q] = {}]
  BY <1>2, Zenon DEF known
<1>4. listed' = [listed EXCEPT ![q] = {}]
  BY <1>1, Zenon DEF listed
<1>. QED
  BY <1>3, <1>4

(* browseCallback announces a node, withdraws it together with its         *)
(* listing, or changes neither.                                            *)
LEMMA BrowseCallbackListing ==
    ASSUME QueryTypes, StubsInv, NEW q \in Node, BrowseCallback(q)
    PROVE  \/ UNCHANGED <<known, listed>>
           \/ \E n \in Name : Listing!Announce(q, n) \/ Listing!Withdraw(q, n)
<1>1. q \in queries /\ queries' = queries
  BY BrowseCallbackEffect, Zenon DEF BrowseCallback
<1>2. PICK n \in Name, new \in Stub :
        /\ Sound(new)
        /\ queryNodes' = [queryNodes EXCEPT ![q][n] = new]
        /\ nodes' = [nodes EXCEPT ![q] = IF new.ifs = {} THEN nodes[q] \ {n} ELSE nodes[q]]
  BY BrowseCallbackEffect, Zenon
<1>3. /\ \A p \in Node \ {q} : queryNodes'[p] = queryNodes[p]
      /\ Known(queryNodes'[q]) = IF new.ifs = {} THEN Known(queryNodes[q]) \ {n}
                                 ELSE Known(queryNodes[q]) \cup {n}
  BY <1>2, NewStub, Zenon
<1>4. nodes[q] \subseteq Known(queryNodes[q])
  BY <1>1 DEF StubsInv
<1>5. CASE new.ifs = {} /\ n \in Known(queryNodes[q])
  <2>1. known' = [known EXCEPT ![q] = known[q] \ {n}]
    BY <1>3, <1>5, Zenon DEF known
  <2>2. listed' = [listed EXCEPT ![q] = listed[q] \ {n}]
    BY <1>1, <1>2, <1>5, Zenon DEF listed, QueryTypes
  <2>. QED
    BY <1>5, <2>1, <2>2, Zenon DEF Listing!Withdraw, known, listed
<1>6. CASE new.ifs = {} /\ n \notin Known(queryNodes[q])
  <2>1. \A p \in Node : Known(queryNodes'[p]) = Known(queryNodes[p])
    BY <1>3, <1>6, Zenon
  <2>2. nodes' = nodes
    BY <1>2, <1>4, <1>6 DEF QueryTypes
  <2>. QED
    BY <1>1, <2>1, <2>2, StutterListing, Zenon
<1>7. CASE new.ifs # {} /\ n \notin Known(queryNodes[q])
  <2>1. known' = [known EXCEPT ![q] = known[q] \cup {n}]
    BY <1>3, <1>7, Zenon DEF known
  <2>2. listed' = listed
    BY <1>1, <1>2, <1>7, ZenonT(30) DEF listed, QueryTypes
  <2>. QED
    BY <1>7, <2>1, <2>2, Zenon DEF Listing!Announce, known, listed
<1>8. CASE new.ifs # {} /\ n \in Known(queryNodes[q])
  <2>1. \A p \in Node : Known(queryNodes'[p]) = Known(queryNodes[p])
    BY <1>3, <1>8
  <2>2. nodes' = nodes
    BY <1>2, <1>8 DEF QueryTypes
  <2>. QED
    BY <1>1, <2>1, <2>2, StutterListing
<1>. QED
  BY <1>5, <1>6, <1>7, <1>8

(* resolveCallback lists a known node, or changes neither.                 *)
LEMMA ResolveCallbackListing ==
    ASSUME QueryTypes, StubsInv, NEW q \in Node, NEW s \in Service, NEW found \in BOOLEAN,
           ResolveCallback(q, s, found)
    PROVE  \/ UNCHANGED <<known, listed>>
           \/ \E n \in Name : Listing!Added(q, n)
<1>1. q \in queries /\ queries' = queries
  BY ResolveCallbackEffect, Zenon DEF ResolveCallback
<1>2. PICK n \in Name, new \in Stub :
        /\ Sound(new)
        /\ new.ifs # {} /\ queryNodes[q][n].ifs # {}
        /\ queryNodes' = [queryNodes EXCEPT ![q][n] = new]
        /\ nodes' = nodes \/ nodes' = [nodes EXCEPT ![q] = nodes[q] \cup {n}]
  BY ResolveCallbackEffect
<1>3. n \in Known(queryNodes[q])
  BY <1>2 DEF Known
<1>4. /\ \A p \in Node \ {q} : queryNodes'[p] = queryNodes[p]
      /\ Known(queryNodes'[q]) = Known(queryNodes[q]) \cup {n}
  BY <1>2, NewStub, Zenon
<1>5. \A p \in Node : Known(queryNodes'[p]) = Known(queryNodes[p])
  BY <1>3, <1>4, Zenon
<1>6. CASE nodes' = nodes
  BY <1>1, <1>5, <1>6, StutterListing, ZenonT(30)
<1>7. CASE nodes' = [nodes EXCEPT ![q] = nodes[q] \cup {n}] /\ n \in nodes[q]
  <2>1. nodes' = nodes
    BY <1>7 DEF QueryTypes
  <2>. QED
    BY <1>1, <1>5, <2>1, StutterListing
<1>8. CASE nodes' = [nodes EXCEPT ![q] = nodes[q] \cup {n}] /\ n \notin nodes[q]
  <2>1. known' = known
    BY <1>5, Zenon DEF known
  <2>2. listed' = [listed EXCEPT ![q] = listed[q] \cup {n}]
    BY <1>1, <1>8, Zenon DEF listed, QueryTypes
  <2>3. n \in known[q] \ listed[q]
    BY <1>1, <1>3, <1>8 DEF known, listed
  <2>. QED
    BY <2>1, <2>2, <2>3, Zenon DEF Listing!Added, known, listed
<1>. QED
  BY <1>2, <1>6, <1>7, <1>8

(* Avahi discovery implements the safety part of NodeListing: its listener *)
(* is told of a node only while discovery knows it, and of the removal in  *)
(* the very browseCallback that forgets it.                                *)
THEOREM AvahiImplementsListing == Spec => AvahiListing
<1>1. Init => Listing!Init
  <2>1. ASSUME Init
        PROVE  \A q \in Node : Known(queryNodes[q]) = {}
    BY <2>1, NoStubSound DEF Init, Known
  <2>. QED
    BY <2>1, Zenon DEF Init, Listing!Init
<1>2. AvahiInv /\ [Next]_vars => [Listing!Next]_(Listing!listing)
  <2>. SUFFICES ASSUME AvahiInv, [Next]_vars
                PROVE  Listing!Next \/ UNCHANGED <<known, listed>>
    BY DEF Listing!listing, known, listed
  <2>. USE DEF AvahiInv
  <2>1. ASSUME UNCHANGED <<queries, queryNodes, nodes>>
        PROVE  UNCHANGED <<known, listed>>
    BY <2>1, StutterListing
  <2>2. CASE UNCHANGED vars
    BY <2>1, <2>2 DEF vars
  <2>3. ASSUME NEW m \in Node, Add(m) \/ ClientCallback(m) \/ Remove(m)
        PROVE  UNCHANGED <<known, listed>>
    BY <2>1, <2>3 DEF Add, ClientCallback, Remove
  <2>4. CASE Suspend
    BY <2>1, <2>4 DEF Suspend
  <2>5. ASSUME NEW q \in Node, Browse(q)
        PROVE  UNCHANGED <<known, listed>>
    BY <2>5, StartBrowsingStutters DEF Browse
  <2>6. CASE Resume
    <3>1. suspendedNodes \ queries \in SUBSET (Node \ queries)
      BY DEF LocalTypes
    <3>. QED
      BY <2>6, <3>1, StartBrowsingStutters DEF Resume
  <2>7. ASSUME NEW q \in Node, Unbrowse(q)
        PROVE  Listing!Next
    <3>1. Listing!Unbrowse(q)
      BY <2>7, UnbrowseWithdraws, Zenon DEF Listing!Unbrowse, known, listed
    <3>. QED
      BY <3>1 DEF Listing!Next
  <2>8. ASSUME NEW q \in Node, BrowseCallback(q)
        PROVE  Listing!Next \/ UNCHANGED <<known, listed>>
    BY <2>8, BrowseCallbackListing DEF Listing!Next
  <2>9. ASSUME NEW q \in Node, NEW s \in Service, NEW found \in BOOLEAN, ResolveCallback(q, s, found)
        PROVE  Listing!Next \/ UNCHANGED <<known, listed>>
    BY <2>9, ResolveCallbackListing DEF Listing!Next
  <2>10. ASSUME NEW s \in Service, Appear(s) \/ Disappear(s)
         PROVE  UNCHANGED <<known, listed>>
    BY <2>1, <2>10, Zenon DEF Appear, Disappear
  <2>. QED
    BY <2>2, <2>3, <2>4, <2>5, <2>6, <2>7, <2>8, <2>9, <2>10, Zenon DEF Next
<1>. QED
  BY <1>1, <1>2, AvahiInvariant, PTL DEF Spec, AvahiListing, Listing!Safety

====
