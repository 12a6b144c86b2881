-------------------------- MODULE StructuredCache --------------------------
(***************************************************************************)
(* The distances of cache items from the pointers (StructuredCache.cpp),   *)
(* over the graph of items and proxies of NBandCache.  resetDistances sets *)
(* every distance to infinity and propagates zero from every pointer it    *)
(* comes by.                                                               *)
(***************************************************************************)
EXTENDS NBandCache, FiniteSetsExt

CONSTANT Infinity      \* the largest int, larger than any distance

Proxy == Band \X {"up", "down"}

\* getNext of an item and of a proxy.
GetNext(n) ==
    (IF n \in Item
     THEN {left[n], right[n], <<band[n], "up">>, <<band[n], "down">>}
     ELSE {current[n[1]],
           LET b == IF n[2] = "up" THEN above[n[1]] ELSE below[n[1]]
           IN  IF b = Null THEN Null ELSE <<b, IF n[2] = "up" THEN "down" ELSE "up">>})
    \ {Null}

\* Mutant: a proxy counts as a step.
ArrivalCounted(n, distance) == distance

\* A proxy does not count as a step.
Arrival(n, distance) == IF n \in Proxy THEN distance - 1 ELSE distance

\* propagateDistance: dist with what is reached from n at the distance.
RECURSIVE PropagateDistance(_, _, _)
PropagateDistance(dist, n, distance) ==
    LET d == Arrival(n, distance)
    IN  IF dist[n] <= d THEN dist
        ELSE FoldSet(LAMBDA m, acc : PropagateDistance(acc, m, d + 1),
                     [dist EXCEPT ![n] = d], GetNext(n))

\* The items of the pointers the application has, and of those the loop of
\* resetDistances may come by: all of them, unless it erases a weak_ptr that has
\* expired.  It goes on from the erased one, which is undefined: it may step over
\* any of the others.
Pointed == {item[p] : p \in Pointer} \ {Null}
Visited == IF expired THEN SUBSET Pointed ELSE {Pointed}

ResetDistances(visited) ==
    FoldSet(LAMBDA x, acc : PropagateDistance(acc, x, 0),
            [n \in Item \cup Proxy |-> Infinity], visited)

-----------------------------------------------------------------------------
(* Properties.                                                                *)

\* What is reached from the nodes of S without a step, through proxies.
Through(S) ==
    LET next(T) == T \cup UNION {GetNext(n) \cap Proxy : n \in T}
    IN  next(next(S))

\* The nodes within k steps of the items of S.
Within(k, S) ==
    LET reach[i \in 0 .. k] ==
            IF i = 0 THEN Through(S)
            ELSE Through(reach[i - 1] \cup UNION {GetNext(n) \cap Item : n \in reach[i - 1]})
    IN  reach[k]

(* The distance an item gets is the least number of steps to it from any      *)
(* pointer resetDistances has come by, which is every pointer unless one has  *)
(* expired since the last time.  The way through the proxies to the current   *)
(* item of the next band is one step.  The depth-first propagation of several *)
(* pointers leaves no item with a distance that a later visit should have     *)
(* lowered.                                                                   *)
DistancesLeast ==
    \A visited \in Visited :
        LET dist == ResetDistances(visited)
        IN  \A k \in 0 .. Cardinality(linked) :
                {n \in Item \cup Proxy : dist[n] <= k} = Within(k, visited)

=============================================================================
