--------------------------- MODULE ServiceManager ---------------------------
(***************************************************************************)
(* Service managers and their queries (ServiceManager.cpp).                *)
(*                                                                         *)
(* A manager publishes its queries and its answers to all others on one    *)
(* channel.  A query that stays is answered for the services a manager has *)
(* when it hears of it, and again when services come and go.  All handlers *)
(* hold the _mutex of their manager.  A service stands for its channel, a  *)
(* filter for its uuid.                                                    *)
(***************************************************************************)
EXTENDS Naturals, FiniteSets, Sequences, Functions

CONSTANTS
    Manager, Service, Filter,
    ReqId,             \* uuids for requests of find
    host,              \* the manager a service is added to
    asker,             \* the manager a filter is used at
    Matches            \* the pairs of a filter and a service it matches

ASSUME ServiceAssumption ==
    /\ IsFiniteSet(Service) /\ IsFiniteSet(Filter)
    /\ host \in [Service -> Manager]
    /\ asker \in [Filter -> Manager]
    /\ Matches \subseteq Filter \X Service

VARIABLES
    svc,               \* _svc and _localSvcDesc: the services of a manager
    localQueries,      \* _localQueries: the filters it asks for
    remoteQueries,     \* _remoteQueries: the filters it was asked for
    remoteSvcDesc,     \* _remoteSvcDesc: the services it has a description of
    finds,             \* _findRequests and _findResponses, per request
    listed,            \* what the listener of a filter was told of and keeps
    heardBy,           \* the managers that receive what a manager publishes
    greeted,           \* the ones of them its greeter was told of
    net                \* messages underway, in order

svcVars == <<svc, localQueries, remoteQueries, remoteSvcDesc, finds, listed,
             heardBy, greeted, net>>

\* A listener keeps description objects.  The object for a service is the one of
\* _remoteSvcDesc, or an earlier one that the manager has forgotten.
Object == {"known", "forgotten"}

SvcMessage ==
    [type : {"serviceDiscStart", "serviceDiscStop"}, filter : Filter]
    \cup [type : {"serviceDiscFound", "serviceDiscRemoved"}, filter : Filter, svc : Service]
    \cup [type : {"serviceDisc"}, filter : Filter, reqId : ReqId]
    \cup [type : {"response"}, reqId : ReqId, svc : Service]

Find == [state : {"unused", "asleep", "waiting", "signaled", "returned"},
         filter : SUBSET Filter, found : SUBSET Service]

Offered(m, f) == {s \in svc[m] : <<f, s>> \in Matches}

SvcInit ==
    /\ svc = [m \in Manager |-> {}]
    /\ localQueries = [m \in Manager |-> {}]
    /\ remoteQueries = [m \in Manager |-> {}]
    /\ remoteSvcDesc = [m \in Manager |-> {}]
    /\ finds = [q \in ReqId |-> [state |-> "unused", filter |-> {}, found |-> {}]]
    /\ listed = [f \in Filter |-> {}]
    /\ net = [m \in Manager |-> [r \in Manager |-> <<>>]]

-----------------------------------------------------------------------------
(* Publishing (ZeroMQPublisher, ZeroMQSubscriber): what a manager sends       *)
(* reaches the ones that are subscribed, in order.                            *)

\* The elements of a finite set one after the other, as the code iterates over
\* its maps.
InSomeOrder(S) == CHOOSE q \in Bijection(1 .. Cardinality(S), S) : TRUE

\* Manager m sends the messages of a set to the managers of R.
SendTo(n, m, R, msgs) ==
    [n EXCEPT ![m] = [r \in Manager |-> IF r \in R THEN @[r] \o InSomeOrder(msgs) ELSE @[r]]]

Send(n, m, msgs) == SendTo(n, m, heardBy[m], msgs)

\* The next message from r to m, and the network without it.
Arriving(r, m) == Head(net[r][m])
Taken(r, m) == [net EXCEPT ![r][m] = Tail(@)]

-----------------------------------------------------------------------------
(* Services.                                                                  *)

\* The messages that tell of service s what the type says, one per filter of F
\* that matches it.
Tell(type, F, s) ==
    {[type |-> type, filter |-> f, svc |-> s] : f \in {f \in F : <<f, s>> \in Matches}}

AddService(s) ==
    LET m == host[s]
    IN  /\ s \notin svc[m]
        /\ svc' = [svc EXCEPT ![m] = @ \cup {s}]
        /\ net' = Send(net, m, Tell("serviceDiscFound", remoteQueries[m], s))
        /\ UNCHANGED <<localQueries, remoteQueries, remoteSvcDesc, finds, listed, heardBy, greeted>>

RemoveService(s) ==
    LET m == host[s]
    IN  /\ s \in svc[m]
        /\ svc' = [svc EXCEPT ![m] = @ \ {s}]
        /\ net' = Send(net, m, Tell("serviceDiscRemoved", remoteQueries[m], s))
        /\ UNCHANGED <<localQueries, remoteQueries, remoteSvcDesc, finds, listed, heardBy, greeted>>

-----------------------------------------------------------------------------
(* Queries that stay.                                                         *)

Start(f) == [type |-> "serviceDiscStart", filter |-> f]
Stop(f) == [type |-> "serviceDiscStop", filter |-> f]

\* A query starts with an empty listener.
StartQuery(f) ==
    LET m == asker[f]
    IN  /\ localQueries' = [localQueries EXCEPT ![m] = @ \cup {f}]
        /\ listed' = [listed EXCEPT ![f] = {}]
        /\ net' = Send(net, m, {Start(f)})
        /\ UNCHANGED <<svc, remoteQueries, remoteSvcDesc, finds, heardBy, greeted>>

\* The descriptions the manager has received stay in _remoteSvcDesc.
StopQuery(f) ==
    LET m == asker[f]
    IN  /\ f \in localQueries[m]
        /\ localQueries' = [localQueries EXCEPT ![m] = @ \ {f}]
        /\ net' = Send(net, m, {Stop(f)})
        /\ UNCHANGED <<svc, remoteQueries, remoteSvcDesc, finds, listed, heardBy, greeted>>

\* Manager m reads what manager r has sent.
ReceiveStart(m, r) ==
    LET msg == Arriving(r, m)
        found == {[type |-> "serviceDiscFound", filter |-> msg.filter, svc |-> s] :
                     s \in Offered(m, msg.filter)}
    IN  /\ msg.type = "serviceDiscStart"
        /\ remoteQueries' = [remoteQueries EXCEPT ![m] = @ \cup {msg.filter}]
        /\ net' = Send(Taken(r, m), m, found)
        /\ UNCHANGED <<svc, localQueries, remoteSvcDesc, finds, listed, heardBy, greeted>>

\* Mutant: the filter is looked up among the queries of the manager itself.
ReceiveStopOwn(m, r) ==
    LET msg == Arriving(r, m)
    IN  /\ msg.type = "serviceDiscStop"
        /\ remoteQueries' = [remoteQueries EXCEPT ![m] =
               IF msg.filter \in localQueries[m] THEN @ \ {msg.filter} ELSE @]
        /\ net' = Taken(r, m)
        /\ UNCHANGED <<svc, localQueries, remoteSvcDesc, finds, listed, heardBy, greeted>>

ReceiveStop(m, r) ==
    LET msg == Arriving(r, m)
    IN  /\ msg.type = "serviceDiscStop"
        /\ remoteQueries' = [remoteQueries EXCEPT ![m] = @ \ {msg.filter}]
        /\ net' = Taken(r, m)
        /\ UNCHANGED <<svc, localQueries, remoteSvcDesc, finds, listed, heardBy, greeted>>

\* Mutant: the description is not remembered.
ReceiveFoundForgetting(m, r) ==
    LET msg == Arriving(r, m)
        mine == msg.filter \in localQueries[m]
    IN  /\ msg.type = "serviceDiscFound"
        /\ listed' = [listed EXCEPT ![msg.filter] = IF mine THEN @ \cup {<<msg.svc, "known">>} ELSE @]
        /\ net' = Taken(r, m)
        /\ UNCHANGED <<svc, localQueries, remoteQueries, remoteSvcDesc, finds, heardBy, greeted>>

\* Answers go to everyone; the manager with the query tells its listener.
ReceiveFound(m, r) ==
    LET msg == Arriving(r, m)
        mine == msg.filter \in localQueries[m]
    IN  /\ msg.type = "serviceDiscFound"
        /\ remoteSvcDesc' = [remoteSvcDesc EXCEPT ![m] = IF mine THEN @ \cup {msg.svc} ELSE @]
        /\ listed' = [listed EXCEPT ![msg.filter] = IF mine THEN @ \cup {<<msg.svc, "known">>} ELSE @]
        /\ net' = Taken(r, m)
        /\ UNCHANGED <<svc, localQueries, remoteQueries, finds, heardBy, greeted>>

\* Mutant: the description is forgotten before the listener is told of it.
ReceiveRemovedForgetting(m, r) ==
    LET msg == Arriving(r, m)
        mine == msg.filter \in localQueries[m]
        Forget(L) == {IF e[1] = msg.svc THEN <<e[1], "forgotten">> ELSE e : e \in L}
    IN  /\ msg.type = "serviceDiscRemoved"
        /\ remoteSvcDesc' = [remoteSvcDesc EXCEPT ![m] = IF mine THEN @ \ {msg.svc} ELSE @]
        /\ listed' = [f \in Filter |-> IF mine /\ asker[f] = m THEN Forget(listed[f]) ELSE listed[f]]
        /\ net' = Taken(r, m)
        /\ UNCHANGED <<svc, localQueries, remoteQueries, finds, heardBy, greeted>>

\* The listener is told of the object of _remoteSvcDesc, or of a new one when
\* there is none, and the object is forgotten; the listeners of other filters
\* that have it keep it.
ReceiveRemoved(m, r) ==
    LET msg == Arriving(r, m)
        mine == msg.filter \in localQueries[m]
        Forget(L) == {IF e[1] = msg.svc THEN <<e[1], "forgotten">> ELSE e : e \in L}
    IN  /\ msg.type = "serviceDiscRemoved"
        /\ remoteSvcDesc' = [remoteSvcDesc EXCEPT ![m] = IF mine THEN @ \ {msg.svc} ELSE @]
        /\ listed' = [f \in Filter |->
               IF ~mine \/ asker[f] # m THEN listed[f]
               ELSE IF f = msg.filter THEN listed[f] \ {<<msg.svc, "known">>}
               ELSE Forget(listed[f])]
        /\ net' = Taken(r, m)
        /\ UNCHANGED <<svc, localQueries, remoteQueries, finds, heardBy, greeted>>

-----------------------------------------------------------------------------
(* find: one request, the last answer before it returns counts.               *)

\* waitForSubscribers(1) returns, and find sleeps for a second.
FindService(m, f, q) ==
    /\ finds[q].state = "unused"
    /\ asker[f] = m
    /\ greeted[m] # {}
    /\ finds' = [finds EXCEPT ![q] = [state |-> "asleep", filter |-> {f}, found |-> {}]]
    /\ UNCHANGED <<svc, localQueries, remoteQueries, remoteSvcDesc, listed, heardBy, greeted, net>>

\* The request is made and sent, whoever is still there to receive it.
SendFind(m, f, q) ==
    /\ finds[q].state = "asleep" /\ finds[q].filter = {f}
    /\ asker[f] = m
    /\ finds' = [finds EXCEPT ![q].state = "waiting"]
    /\ net' = Send(net, m, {[type |-> "serviceDisc", filter |-> f, reqId |-> q]})
    /\ UNCHANGED <<svc, localQueries, remoteQueries, remoteSvcDesc, listed, heardBy, greeted>>

\* Mutant: the answer is any service.
ReceiveDiscUnfiltered(m, r) ==
    LET msg == Arriving(r, m)
    IN  /\ msg.type = "serviceDisc"
        /\ \/ /\ svc[m] = {}
              /\ net' = Taken(r, m)
           \/ \E s \in svc[m] :
                  net' = Send(Taken(r, m), m, {[type |-> "response", reqId |-> msg.reqId, svc |-> s]})
        /\ UNCHANGED <<svc, localQueries, remoteQueries, remoteSvcDesc, finds, listed, heardBy, greeted>>

\* The answer is the service with the least address.
ReceiveDisc(m, r) ==
    LET msg == Arriving(r, m)
        found == Offered(m, msg.filter)
    IN  /\ msg.type = "serviceDisc"
        /\ \/ /\ found = {}
              /\ net' = Taken(r, m)
           \/ \E s \in found :
                  net' = Send(Taken(r, m), m, {[type |-> "response", reqId |-> msg.reqId, svc |-> s]})
        /\ UNCHANGED <<svc, localQueries, remoteQueries, remoteSvcDesc, finds, listed, heardBy, greeted>>

\* The manager that has the request takes the answer.
Requests(m) ==
    {q \in ReqId : /\ finds[q].state \in {"waiting", "signaled"}
                   /\ \A f \in finds[q].filter : asker[f] = m}

ReceiveResponse(m, r) ==
    LET msg == Arriving(r, m)
    IN  /\ msg.type = "response"
        /\ finds' = IF msg.reqId \in Requests(m)
                    THEN [finds EXCEPT ![msg.reqId].state = "signaled", ![msg.reqId].found = {msg.svc}]
                    ELSE finds
        /\ net' = Taken(r, m)
        /\ UNCHANGED <<svc, localQueries, remoteQueries, remoteSvcDesc, listed, heardBy, greeted>>

FindReturns(q) ==
    /\ finds[q].state = "signaled"
    /\ finds' = [finds EXCEPT ![q].state = "returned"]
    /\ UNCHANGED <<svc, localQueries, remoteQueries, remoteSvcDesc, listed, heardBy, greeted, net>>

-----------------------------------------------------------------------------
(* Managers meet and lose each other.                                         *)

\* The subscriber of r connects to the publisher of m (ZeroMQ).
Hear(m, r) ==
    /\ m # r
    /\ r \notin heardBy[m]
    /\ heardBy' = [heardBy EXCEPT ![m] = @ \cup {r}]
    /\ UNCHANGED <<svc, localQueries, remoteQueries, remoteSvcDesc, finds, listed, greeted, net>>

\* Mutant: the newcomer is not told of the queries.
WelcomeSilent(m, r) ==
    /\ r \in heardBy[m] \ greeted[m]
    /\ greeted' = [greeted EXCEPT ![m] = @ \cup {r}]
    /\ UNCHANGED <<svc, localQueries, remoteQueries, remoteSvcDesc, finds, listed, heardBy, net>>

\* welcome: the queries are sent to the newcomer alone.
Welcome(m, r) ==
    /\ r \in heardBy[m] \ greeted[m]
    /\ greeted' = [greeted EXCEPT ![m] = @ \cup {r}]
    /\ net' = SendTo(net, m, {r}, {Start(f) : f \in localQueries[m]})
    /\ UNCHANGED <<svc, localQueries, remoteQueries, remoteSvcDesc, finds, listed, heardBy>>

\* The connection is lost with what is underway; farewell does nothing.
Lose(m, r) ==
    /\ r \in heardBy[m]
    /\ heardBy' = [heardBy EXCEPT ![m] = @ \ {r}]
    /\ greeted' = [greeted EXCEPT ![m] = @ \ {r}]
    /\ net' = [net EXCEPT ![m][r] = <<>>]
    /\ UNCHANGED <<svc, localQueries, remoteQueries, remoteSvcDesc, finds, listed>>

-----------------------------------------------------------------------------

SvcReceive(m, r) ==
    /\ net[r][m] # <<>>
    /\ \/ ReceiveStart(m, r) \/ ReceiveStop(m, r)
       \/ ReceiveFound(m, r) \/ ReceiveRemoved(m, r)
       \/ ReceiveDisc(m, r) \/ ReceiveResponse(m, r)

SvcNext ==
    \/ \E s \in Service : AddService(s) \/ RemoveService(s)
    \/ \E f \in Filter : StartQuery(f) \/ StopQuery(f)
    \/ \E m \in Manager, f \in Filter, q \in ReqId : FindService(m, f, q) \/ SendFind(m, f, q)
    \/ \E q \in ReqId : FindReturns(q)
    \/ \E m, r \in Manager : SvcReceive(m, r) \/ Hear(m, r) \/ Welcome(m, r) \/ Lose(m, r)

\* The managers start with whatever connections they have.
SvcSpec ==
    /\ SvcInit
    /\ heardBy \in [Manager -> SUBSET Manager] /\ greeted = heardBy
    /\ [][SvcNext]_svcVars

-----------------------------------------------------------------------------
(* Properties.                                                                *)

(* The maps of a manager hold its own services and queries, and only known    *)
(* objects come from _remoteSvcDesc.                                          *)
SvcTypeOK ==
    /\ \A m \in Manager : svc[m] \subseteq {s \in Service : host[s] = m}
    /\ \A m \in Manager : localQueries[m] \subseteq {f \in Filter : asker[f] = m}
    /\ remoteQueries \in [Manager -> SUBSET Filter]
    /\ remoteSvcDesc \in [Manager -> SUBSET Service]
    /\ finds \in [ReqId -> Find]
    /\ listed \in [Filter -> SUBSET (Service \X Object)]
    /\ heardBy \in [Manager -> SUBSET Manager]
    /\ \A m \in Manager : greeted[m] \subseteq heardBy[m]
    /\ \A m, r \in Manager : Range(net[m][r]) \subseteq SvcMessage
    /\ \A f \in Filter, s \in Service : <<s, "known">> \in listed[f] => s \in remoteSvcDesc[asker[f]]

\* Nothing is underway and everyone that hears a manager was greeted.
SvcQuiet ==
    /\ \A m, r \in Manager : net[m][r] = <<>>
    /\ greeted = heardBy

\* The managers that hear m and are heard by it.
Partners(m) == {r \in heardBy[m] : m \in heardBy[r]}

(* When nothing is underway the listener of a query has exactly the services  *)
(* of the other managers that match (the instances test-api.cpp counts after  *)
(* every step).                                                               *)
QuietListed ==
    SvcQuiet =>
        \A f \in Filter : f \in localQueries[asker[f]] =>
            {e[1] : e \in listed[f]} = UNION {Offered(r, f) : r \in Partners(asker[f])}

(* Object by object: the listener of a query has the current description of   *)
(* exactly these services.  A description that the manager has forgotten      *)
(* stays with it only for a service that another filter of the same manager   *)
(* matches too, whose removal has made the manager forget it (receive).       *)
QuietObjectsListed ==
    SvcQuiet =>
        \A f \in Filter : f \in localQueries[asker[f]] =>
            /\ {s \in Service : <<s, "known">> \in listed[f]}
                   = UNION {Offered(r, f) : r \in Partners(asker[f])}
            /\ \A s \in Service : <<s, "forgotten">> \in listed[f] =>
                   \E g \in Filter \ {f} : asker[g] = asker[f] /\ <<g, s>> \in Matches

\* The queries that are running at the managers that m hears.
QueriesHeard(m) == UNION {localQueries[r] : r \in {r \in Manager : m \in heardBy[r]}}

(* When nothing is underway a manager knows every query that is running at a  *)
(* manager it hears, in whatever order managers met, lost and met each other  *)
(* again and queries started (welcome): addService and removeService tell     *)
(* everyone who asked.                                                        *)
QuietQueriesKnown == SvcQuiet => \A m \in Manager : QueriesHeard(m) \subseteq remoteQueries[m]

(* And it knows no other: it has been told of the end of every query it knew. *)
(* A lost connection breaks this, farewell forgets nothing.                   *)
QuietQueriesForgotten == SvcQuiet => \A m \in Manager : remoteQueries[m] \subseteq QueriesHeard(m)

(* What find returns matches what was asked for, whoever answers and however  *)
(* late: an answer never reaches another request.                             *)
FoundMatches == \A q \in ReqId : finds[q].filter \X finds[q].found \subseteq Matches

=============================================================================
