------------------------- MODULE MCZeroMQPublisher -------------------------
(***************************************************************************)
(* ZeroMQPublisher for TLC.  Every publisher and every subscriber belongs  *)
(* to the nodes of its home.  The initial state chooses a scenario, which  *)
(* says who takes part and has a budget for every call from outside.       *)
(***************************************************************************)
EXTENDS ZeroMQPublisher, Scenario

CONSTANTS
    PubHome,           \* the nodes publishers are added to
    SubHome            \* the nodes subscribers are added to

ASSUME HomeAssumption == PubHome \subseteq Node /\ SubHome \subseteq Node

mcPubSubVars == <<pubSubVars, scenario, budget>>

MCPubSubChannelName == [x \in Pub \cup Sub |-> "chat"]
MCPubSubDomain == [n \in Node |-> "local"]

\* add: addPublisher and addSubscriber, pub: removePublisher, sub:
\* removeSubscriber, node: nodes reported as removed by discovery, suspend:
\* suspend, reconnect: connections of subscribers lost and reestablished.
\* In the first one nothing is ever removed; in the second one everything
\* happens; in the third one a subscriber is removed and added again.
PubSubBudgets ==
    [growing   |-> [add |-> 4, pub |-> 0, sub |-> 0, node |-> 0, suspend |-> 0, reconnect |-> 0],
     changing  |-> [add |-> 3, pub |-> 1, sub |-> 1, node |-> 1, suspend |-> 1, reconnect |-> 1],
     readding  |-> [add |-> 3, pub |-> 0, sub |-> 1, node |-> 0, suspend |-> 0, reconnect |-> 0]]

\* Publishers and subscribers that take part: one of each when they are removed.
Pubs == IF scenario = "growing" THEN Pub ELSE {CHOOSE p \in Pub \ Greeted : TRUE}
Subs == IF scenario = "growing" THEN Sub ELSE {CHOOSE s \in Sub : TRUE}

MCPubSubInit ==
    /\ PubSubInit
    /\ scenario \in Scenarios
    /\ budget = PubSubBudgets[scenario]

MCPSRun(n) == PSRun(n) /\ UNCHANGED budget
MCPSAdded(n, r) == PSAdded(n, r) /\ UNCHANGED budget
MCPSResume(n) == PSResume(n) /\ UNCHANGED budget
MCReadSubscription(p, s) == ReadSubscription(p, s) /\ UNCHANGED budget

MCPubSubNext ==
    /\ UNCHANGED scenario
    /\ \/ \E n \in Node :
              \/ MCPSRun(n)
              \/ \E r \in Node : MCPSAdded(n, r)
              \/ \E r \in Node : PSRemoved(n, r) /\ Spend("node")
              \/ PSSuspend(n) /\ Spend("suspend")
              \/ MCPSResume(n)
       \/ \E n \in SubHome, s \in Subs :
              \/ PSAddSubscriber(n, s) /\ Spend("add")
              \/ PSRemoveSubscriber(n, s) /\ Spend("sub")
       \/ \E n \in PubHome, p \in Pubs :
              \/ PSAddPublisher(n, p) /\ Spend("add")
              \/ PSRemovePublisher(n, p) /\ Spend("pub")
       \/ \E p \in Pub, s \in Sub :
              \/ MCReadSubscription(p, s)
              \/ Reconnect(p, s) /\ Spend("reconnect")

MCPubSubSpec == MCPubSubInit /\ [][MCPubSubNext]_mcPubSubVars

MCPubSubFairSpec == MCPubSubSpec /\ PubSubFairness

-----------------------------------------------------------------------------
(* As long as nothing is removed, suspended or reconnected (addedSubscriber,  *)
(* run of ZeroMQPublisher) ...                                                *)
Growing == scenario = "growing"

(* ... a subscriber is counted only when its subscription and the one of its  *)
(* node have both arrived,                                                    *)
GrowingAreSolid == Growing => EstablishedAreSolid

(* ... publishers count exactly the subscribers of their channel when nothing *)
(* is underway,                                                               *)
GrowingCountsExact == Growing => QuietCountsExact

(* ... and come to count all of them, so that waitForSubscribers returns.     *)
GrowingEventuallyCounted == [](Growing) => EventuallyCounted

=============================================================================
