------------------------- MODULE WaitForSubscribers -------------------------
(***************************************************************************)
(* ZeroMQPublisher::waitForSubscribers on the publisher's monitor _pubLock.*)
(*                                                                         *)
(* Application threads wait, the reading threads add and remove            *)
(* subscribers and signal.  addedSubscriber and removedSubscriber hold the *)
(* publisher's mutex until signal returns, so one of them signals at a     *)
(* time; waitForSubscribers reads the number of subscribers without it.    *)
(***************************************************************************)
EXTENDS Monitor

CONSTANTS
    count,             \* the number of subscribers every waiter asks for
    MaxSubscribers     \* subscribers added in all

VARIABLES
    size,              \* _subscriptions.size()
    added,             \* subscribers added so far
    caller             \* where a waiter is in waitForSubscribers

waitVars == <<monitorVars, size, added, caller>>

WaitForInit ==
    /\ MonitorInit
    /\ size = 0
    /\ added = 0
    /\ caller = [t \in Waiter |-> "test"]

\* The condition of the loop.
TestCount(t) ==
    /\ caller[t] = "test"
    /\ caller' = [caller EXCEPT ![t] = IF size < count[t] THEN "call" ELSE "returned"]
    /\ UNCHANGED <<monitorVars, size, added>>

CallWait(t) ==
    /\ caller[t] = "call"
    /\ Wait(t)
    /\ caller' = [caller EXCEPT ![t] = "waiting"]
    /\ UNCHANGED <<size, added>>

\* A step inside wait; when it returns the loop tests again.
InWait(t) ==
    /\ caller[t] = "waiting"
    /\ WaitStep(t)
    /\ caller' = [caller EXCEPT ![t] = IF pc'[t] = "idle" THEN "test" ELSE @]
    /\ UNCHANGED <<size, added>>

AddedSubscriber(t) ==
    /\ \A u \in Signaler : pc[u] = "idle"
    /\ added < MaxSubscribers
    /\ added' = added + 1
    /\ size' = size + 1
    /\ Signal(t, 1)
    /\ UNCHANGED caller

RemovedSubscriber(t) ==
    /\ \A u \in Signaler : pc[u] = "idle"
    /\ size > 0
    /\ size' = size - 1
    /\ Signal(t, 1)
    /\ UNCHANGED <<caller, added>>

InSignal(t) == SignalStep(t) /\ UNCHANGED <<size, added, caller>>

WaitForNext ==
    \/ \E t \in Waiter : TestCount(t) \/ CallWait(t) \/ InWait(t)
    \/ \E t \in Signaler : AddedSubscriber(t) \/ RemovedSubscriber(t) \/ InSignal(t)

\* Every thread goes on when it can; subscribers come and go as they like.
WaitForFairness ==
    /\ \A t \in Waiter : WF_waitVars(TestCount(t) \/ CallWait(t) \/ InWait(t))
    /\ \A t \in Signaler : WF_waitVars(InSignal(t))

WaitForSpec == WaitForInit /\ [][WaitForNext]_waitVars /\ WaitForFairness

(* "Block until we have a given number of subscribers" (waitForSubscribers    *)
(* in ZeroMQPublisher.cpp): when the publisher has that many and keeps them,  *)
(* every thread that waits for them returns.                                  *)
WaitersReturn ==
    \A t \in Waiter : <>[](size >= count[t]) => <>(caller[t] = "returned")

=============================================================================
