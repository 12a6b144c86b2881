----------------------------- MODULE MCServices -----------------------------
(***************************************************************************)
(* What is built on the nodes, for TLC: service managers, remote calls,    *)
(* the directory listing service and the structured cache.  They do not    *)
(* meet; the initial state chooses the one that runs, and for the managers *)
(* a scenario with a budget for every call: managers that know each other  *)
(* (settled), that still have to meet (joining), that lose each other and  *)
(* meet again (losing), that look for services with find (finding).  Every *)
(* filter is used for one query.                                           *)
(***************************************************************************)
EXTENDS ServiceManager, ServiceCall, DirectoryListing, StructuredCache

CONSTANTS
    Scenarios,         \* the ones to check
    Joining,           \* the managers that meet in "joining"
    MaxChanges         \* changes of the directory

VARIABLES
    scenario,
    begun,             \* the filters whose query was started
    budget             \* the calls of managers that may still be made

mcVars == <<scenario, begun, budget>>

MCHost == [s \in Service |-> IF s = "ping" THEN "b" ELSE "c"]
\* Two filters of one manager match a service, and one of another.
MCAsker == [f \in Filter |-> IF f = "other" THEN "b" ELSE "a"]
MCMatches == {<<"both", "ping">>, <<"both", "echo">>, <<"echoes", "echo">>, <<"other", "echo">>}

MCStubOf == [c \in Caller |-> IF c = "z" THEN "s2" ELSE "s1"]

\* Items as <<band, name, number>>; two of them have the same name.
MCItem == {<<1, 1, 1>>, <<1, 2, 1>>, <<1, 2, 2>>, <<1, 3, 1>>, <<2, 1, 1>>, <<3, 1, 1>>}
MCName == [x \in Item |-> x[2]]
MCBand == [x \in Item |-> x[1]]

Budgets ==
    [settled |-> [add |-> 3, remove |-> 1, start |-> 2, stop |-> 1, find |-> 0, lose |-> 0],
     joining |-> [add |-> 2, remove |-> 1, start |-> 2, stop |-> 1, find |-> 0, lose |-> 0],
     losing |-> [add |-> 1, remove |-> 0, start |-> 2, stop |-> 1, find |-> 0, lose |-> 1],
     finding |-> [add |-> 2, remove |-> 1, start |-> 0, stop |-> 0, find |-> 2, lose |-> 1],
     calls |-> <<>>, cache |-> <<>>, directory |-> [change |-> MaxChanges]]

\* Where the directory listing does not run it starts in one state.
MCDirInit ==
    /\ DirInit
    /\ scenario # "directory" =>
           dir = [f \in File |-> Absent] /\ dirTime = 0 /\ lastChecked = 0

MCInit ==
    /\ scenario \in Scenarios
    /\ SvcInit
    /\ heardBy = [m \in Manager |-> IF scenario = "joining" THEN {} ELSE Manager \ {m}]
    /\ greeted = heardBy
    /\ begun = {}
    /\ budget = Budgets[scenario]
    /\ CallInit
    /\ MCDirInit
    /\ CacheInit

Spend(kind) ==
    /\ budget[kind] > 0
    /\ budget' = [budget EXCEPT ![kind] = @ - 1]

ManagersNext ==
    \/ \E s \in Service :
           \/ AddService(s) /\ Spend("add") /\ UNCHANGED begun
           \/ RemoveService(s) /\ Spend("remove") /\ UNCHANGED begun
    \/ \E f \in Filter \ begun : StartQuery(f) /\ Spend("start") /\ begun' = begun \cup {f}
    \/ \E f \in Filter : StopQuery(f) /\ Spend("stop") /\ UNCHANGED begun
    \/ \E m \in Manager, f \in Filter, q \in ReqId :
           FindService(m, f, q) /\ Spend("find") /\ UNCHANGED begun
    \/ \E m, r \in Manager : Lose(m, r) /\ Spend("lose") /\ UNCHANGED begun
    \/ /\ \/ \E m, r \in Manager : SvcReceive(m, r) \/ Welcome(m, r)
          \/ \E m, r \in Joining : Hear(m, r)
          \/ \E m \in Manager, f \in Filter, q \in ReqId : SendFind(m, f, q)
          \/ \E q \in ReqId : FindReturns(q)
       /\ UNCHANGED <<begun, budget>>

DirectoryNext ==
    /\ DirNext
    /\ IF dir' = dir THEN UNCHANGED budget ELSE Spend("change")

MCNext ==
    /\ UNCHANGED scenario
    /\ \/ /\ scenario \in {"settled", "joining", "losing", "finding"} /\ ManagersNext
          /\ UNCHANGED <<callVars, dirVars, cacheVars>>
       \/ /\ scenario = "calls" /\ CallNext
          /\ UNCHANGED <<svcVars, begun, budget, dirVars, cacheVars>>
       \/ /\ scenario = "directory" /\ DirectoryNext
          /\ UNCHANGED <<svcVars, begun, callVars, cacheVars>>
       \/ /\ scenario = "cache" /\ CacheNext
          /\ UNCHANGED <<svcVars, begun, budget, callVars, dirVars>>

MCSpec == MCInit /\ [][MCNext]_<<svcVars, callVars, dirVars, cacheVars, mcVars>>

-----------------------------------------------------------------------------
(* The types of the managers, of the directory listing and of the cache.      *)
ServicesTypeOK == SvcTypeOK /\ DirTypeOK /\ CacheTypeOK

(* Among managers that know each other (startQuery, receive, addService,      *)
(* removeService) a listener has the current descriptions of exactly the      *)
(* matching services of the others when nothing is underway, and old ones     *)
(* only of services that two filters of its manager match.                    *)
SettledListed == scenario = "settled" => QuietObjectsListed

(* Where no connection was lost, and a stop with it, a manager has forgotten  *)
(* the queries that were stopped when nothing is underway (stopQuery,         *)
(* receive, welcome), also those of managers that were meeting it.            *)
StoppedForgotten == scenario # "losing" => QuietQueriesForgotten

(* resetDistances may be called after any step of the cache: the distances it *)
(* computes then are the least from the pointers it comes by.                 *)
CacheDistancesLeast == scenario = "cache" => DistancesLeast

=============================================================================
