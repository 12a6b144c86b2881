---------------------------- MODULE MCZeroMQNode ----------------------------
(***************************************************************************)
(* ZeroMQNode for TLC.  The initial state chooses a scenario, which says   *)
(* where publishers and subscribers are added and has a budget for every   *)
(* kind of call from outside: two nodes that also suspend and lose each    *)
(* other (changing), two that hand a publisher over (moving), three that   *)
(* only add and remove subscribers (settling), and two smaller ones.       *)
(* Discovery reporting a node and the reading threads are not limited.     *)
(***************************************************************************)
EXTENDS ZeroMQNode, Scenario

CONSTANT OtherChannel  \* publishers and subscribers of a second channel

mcVars == <<vars, scenario, budget>>

MCChannelName == [x \in Pub \cup Sub |-> IF x \in OtherChannel THEN "other" ELSE "chat"]
MCDomain == [n \in Node |-> "local"]

Budgets ==
    [changing   |-> [add |-> 3, pub |-> 1, sub |-> 1, node |-> 1, suspend |-> 1],
     moving     |-> [add |-> 3, pub |-> 1, sub |-> 1, node |-> 0, suspend |-> 0],
     settling   |-> [add |-> 3, pub |-> 0, sub |-> 1, node |-> 0, suspend |-> 0],
     publishing |-> [add |-> 2, pub |-> 1, sub |-> 0, node |-> 0, suspend |-> 0],
     suspending |-> [add |-> 2, pub |-> 0, sub |-> 0, node |-> 0, suspend |-> 1]]

\* The nodes of a scenario, and what is added to them.
Places ==
    [changing   |-> [nodes |-> {"n1", "n2"}, pubs |-> {"n1"} \X {"p1"},
                     subs |-> {"n1", "n2"} \X {"s1"}],
     moving     |-> [nodes |-> {"n1", "n2"}, pubs |-> {"n1", "n2"} \X {"p1"},
                     subs |-> {"n1", "n2"} \X {"s1"}],
     settling   |-> [nodes |-> {"n1", "n2", "n3"}, pubs |-> {"n1", "n2"} \X {"p1", "p2"},
                     subs |-> {"n2", "n3"} \X {"s1"}],
     publishing |-> [nodes |-> {"n1", "n2", "n3"}, pubs |-> {"n1", "n2", "n3"} \X {"p1", "p2"},
                     subs |-> {}],
     suspending |-> [nodes |-> {"n1", "n2"}, pubs |-> {"n1", "n2"} \X {"p1"},
                     subs |-> {"n1", "n2"} \X {"s1"}]]

ASSUME PlacesAssumption == \A sc \in Scenarios : Places[sc].nodes \subseteq Node

MCInit ==
    /\ scenario \in Scenarios
    /\ Init
    /\ budget = Budgets[scenario]

MCRun(n) == Run(n) /\ UNCHANGED budget
MCAdded(n, r) == Added(n, r) /\ UNCHANGED budget
MCResume(n) == Resume(n) /\ UNCHANGED budget

MCNext ==
    /\ UNCHANGED scenario
    /\ \E n \in Places[scenario].nodes :
          \/ MCRun(n)
          \/ \E r \in Places[scenario].nodes : MCAdded(n, r)
          \/ \E r \in Node : Removed(n, r) /\ Spend("node")
          \/ \E s \in Sub : <<n, s>> \in Places[scenario].subs /\ AddSubscriber(n, s) /\ Spend("add")
          \/ \E s \in Sub : RemoveSubscriber(n, s) /\ Spend("sub")
          \/ \E p \in Pub : <<n, p>> \in Places[scenario].pubs /\ AddPublisher(n, p) /\ Spend("add")
          \/ \E p \in Pub : RemovePublisher(n, p) /\ Spend("pub")
          \/ Suspend(n) /\ Spend("suspend")
          \/ MCResume(n)

MCSpec == MCInit /\ [][MCNext]_mcVars

MCFairSpec == MCSpec /\ Fairness

-----------------------------------------------------------------------------
(* What is only promised when no publisher is removed and no node is lost.    *)

Settling == scenario = "settling"

(* Nodes that neither lost nor suspended each other agree when nothing is     *)
(* underway between them (addRemotePubToLocalSubs, processSubscription).      *)
SettlingInSync == Settling => QuietNodesInSync

(* And they get there when the node threads run and discovery reports.        *)
SettlingEventuallyInSync == [](Settling) => EventuallyInSync

=============================================================================
