---------------------------- MODULE NodeListing ----------------------------
(***************************************************************************)
(* What node discovery promises the listener of a query, whichever of the  *)
(* mDNS libraries it is built on: the listener is told of a node only      *)
(* while the library announces it, loses the node in the very step in      *)
(* which the library withdraws it for good, and is told of every node it   *)
(* can reach that stays announced.                                         *)
(***************************************************************************)
CONSTANTS
    Query,      \* the queries the nodes of this process browse with
    Name,       \* the UUIDs of the nodes to be discovered
    Reachable   \* those with an IPv4 address on every interface

VARIABLES
    known,      \* known[q]: the nodes the library announces to query q
    listed      \* listed[q]: the nodes added and not removed at q's listener

listing == <<known, listed>>

Init ==
    /\ known = [q \in Query |-> {}]
    /\ listed = [q \in Query |-> {}]

Announce(q, n) ==
    /\ n \notin known[q]
    /\ known' = [known EXCEPT ![q] = @ \cup {n}]
    /\ UNCHANGED listed

Added(q, n) ==
    /\ n \in known[q] \ listed[q]
    /\ listed' = [listed EXCEPT ![q] = @ \cup {n}]
    /\ UNCHANGED known

Withdraw(q, n) ==
    /\ n \in known[q]
    /\ known' = [known EXCEPT ![q] = @ \ {n}]
    /\ listed' = [listed EXCEPT ![q] = @ \ {n}]

Unbrowse(q) ==
    /\ known' = [known EXCEPT ![q] = {}]
    /\ listed' = [listed EXCEPT ![q] = {}]

Next ==
    \E q \in Query :
        \/ \E n \in Name : Announce(q, n) \/ Added(q, n) \/ Withdraw(q, n)
        \/ Unbrowse(q)

Safety == Init /\ [][Next]_listing

(* A reachable node does not stay announced and unlisted for ever.         *)
EventuallyListed ==
    \A q \in Query, n \in Reachable : []<>(n \in known[q] => n \in listed[q])

Spec == Safety /\ EventuallyListed
=============================================================================
