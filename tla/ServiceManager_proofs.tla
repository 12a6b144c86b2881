------------------------ MODULE ServiceManager_proofs ------------------------
(***************************************************************************)
(* For any managers, services, filters and requests: what find returns     *)
(* matches what was asked for, a listener only has objects its manager     *)
(* knows, or has forgotten, and when nothing is underway a manager knows   *)
(* the queries of those that greeted it, and while no connection is lost   *)
(* only these.                                                             *)
(*                                                                         *)
(* What find returns was in a response, and a response answers a message   *)
(* with the filter of the request, which never changes: every message      *)
(* underway fits the request it names (Fitting).  That queries become      *)
(* known and are forgotten needs to know what the messages underway about  *)
(* a query add up to: the last one says whether the query runs (Expects).  *)
(***************************************************************************)
EXTENDS ServiceManager, FiniteSetTheorems, TLAPS

Asked(q) == finds[q].state # "unused"

\* The messages that fit their request.
Fitting ==
    {msg \in SvcMessage :
        /\ msg.type = "serviceDisc" =>
               Asked(msg.reqId) /\ finds[msg.reqId].filter = {msg.filter}
        /\ msg.type = "response" =>
               Asked(msg.reqId) /\ finds[msg.reqId].filter \X {msg.svc} \subseteq Matches}

Nets(F) == [Manager -> [Manager -> Seq(F)]]

SvcTypes ==
    /\ svc \in [Manager -> SUBSET Service]
    /\ \A m \in Manager : \A s \in svc[m] : host[s] = m
    /\ localQueries \in [Manager -> SUBSET Filter]
    /\ \A m \in Manager : \A f \in localQueries[m] : asker[f] = m
    /\ remoteQueries \in [Manager -> SUBSET Filter]
    /\ heardBy \in [Manager -> SUBSET Manager]
    /\ greeted \in [Manager -> SUBSET Manager]
    /\ \A m \in Manager : greeted[m] \subseteq heardBy[m]

\* A known object of a listener is one of its manager.
Descriptions ==
    /\ remoteSvcDesc \in [Manager -> SUBSET Service]
    /\ listed \in [Filter -> SUBSET (Service \X Object)]
    /\ \A f \in Filter, s \in Service : <<s, "known">> \in listed[f] => s \in remoteSvcDesc[asker[f]]

FindTypes == finds \in [ReqId -> Find]

SvcInv ==
    SvcTypes /\ Descriptions /\ FindTypes /\ FoundMatches /\ net \in Nets(Fitting)

-----------------------------------------------------------------------------
(* Sequences and finite sets.                                                 *)

(* InSomeOrder makes a sequence of what is in the set,                        *)
LEMMA OrderType ==
    ASSUME NEW S, IsFiniteSet(S), NEW T, S \subseteq T
    PROVE  InSomeOrder(S) \in Seq(T)
<1>1. Cardinality(S) \in Nat /\ InSomeOrder(S) \in Bijection(1 .. Cardinality(S), S)
  BY FS_CardinalityType DEF ExistsBijection, InSomeOrder
<1>2. InSomeOrder(S) \in [1 .. Cardinality(S) -> T]
  BY <1>1 DEF Bijection, Injection
<1> QED
  BY <1>1, <1>2

(* and leaves out nothing.                                                    *)
LEMMA OrderRange ==
    ASSUME NEW S, IsFiniteSet(S)
    PROVE  /\ \A k \in 1 .. Len(InSomeOrder(S)) : InSomeOrder(S)[k] \in S
           /\ \A x \in S : \E k \in 1 .. Len(InSomeOrder(S)) : InSomeOrder(S)[k] = x
<1>1. Cardinality(S) \in Nat /\ InSomeOrder(S) \in Bijection(1 .. Cardinality(S), S)
  BY FS_CardinalityType DEF ExistsBijection, InSomeOrder
<1>2. InSomeOrder(S) \in [1 .. Cardinality(S) -> S]
  BY <1>1 DEF Bijection, Injection
<1>3. Len(InSomeOrder(S)) = Cardinality(S)
  BY <1>1, <1>2
<1> QED
  BY <1>1, <1>2, <1>3 DEF Bijection, Surjection

(* The values of a function on a finite set are a finite set.                 *)
LEMMA ImageFinite ==
    ASSUME NEW S, IsFiniteSet(S), NEW f, DOMAIN f = S
    PROVE  IsFiniteSet({f[x] : x \in S})
<1>1. [x \in S |-> f[x]] \in Surjection(S, {f[x] : x \in S})
  BY DEF Surjection
<1> QED
  BY <1>1, FS_Surjection DEF ExistsSurjection

(* Sending messages of F (publish and send of the manager's publisher).       *)
LEMMA SendToType ==
    ASSUME NEW F, NEW n \in Nets(F), NEW m \in Manager, NEW R,
           NEW msgs, IsFiniteSet(msgs), msgs \subseteq F
    PROVE  SendTo(n, m, R, msgs) \in Nets(F)
<1>1. InSomeOrder(msgs) \in Seq(F)
  BY OrderType
<1>2. [r \in Manager |-> IF r \in R THEN n[m][r] \o InSomeOrder(msgs) ELSE n[m][r]] \in [Manager -> Seq(F)]
  BY <1>1 DEF Nets
<1> QED
  BY <1>2 DEF SendTo, Nets

(* What arrives is a message of F, and the others stay (receive).             *)
LEMMA TakenType ==
    ASSUME NEW F, net \in Nets(F), NEW m \in Manager, NEW r \in Manager, net[r][m] # <<>>
    PROVE  Arriving(r, m) \in F /\ Taken(r, m) \in Nets(F)
<1>1. net[r][m] \in Seq(F) /\ Tail(net[r][m]) \in Seq(F) /\ Head(net[r][m]) \in F
  BY DEF Nets
<1>2. [net[r] EXCEPT ![m] = Tail(net[r][m])] \in [Manager -> Seq(F)]
  BY <1>1 DEF Nets
<1> QED
  BY <1>1, <1>2 DEF Arriving, Taken, Nets

(* Messages that fit still do after a step that keeps the requests' filters.  *)
LEMMA NetsMonotone ==
    ASSUME NEW F, NEW G, F \subseteq G, NEW n \in Nets(F)
    PROVE  n \in Nets(G)
<1>1. ASSUME NEW m \in Manager, NEW r \in Manager
      PROVE  n[m][r] \in Seq(G)
  <2>1. n[m][r] \in Seq(F)
    BY DEF Nets
  <2>2. Len(n[m][r]) \in Nat /\ n[m][r] \in [1 .. Len(n[m][r]) -> F]
    BY <2>1
  <2>3. n[m][r] \in [1 .. Len(n[m][r]) -> G]
    BY <2>2
  <2> QED
    BY <2>2, <2>3
<1>2. ASSUME NEW m \in Manager
      PROVE  n[m] \in [Manager -> Seq(G)]
  BY <1>1 DEF Nets
<1> QED
  BY <1>2 DEF Nets

-----------------------------------------------------------------------------
(* What the managers send.                                                    *)

(* The messages of addService and removeService name no request.              *)
LEMMA TellFits ==
    ASSUME NEW type \in {"serviceDiscFound", "serviceDiscRemoved"},
           NEW F, F \subseteq Filter, NEW s \in Service
    PROVE  IsFiniteSet(Tell(type, F, s)) /\ Tell(type, F, s) \subseteq Fitting
<1> DEFINE G == {f \in F : <<f, s>> \in Matches}
           g == [f \in G |-> [type |-> type, filter |-> f, svc |-> s]]
<1>1. IsFiniteSet(G)
  BY ServiceAssumption, FS_Subset, Zenon
<1>2. Tell(type, F, s) = {g[f] : f \in G}
  BY DEF Tell
<1>3. IsFiniteSet({g[f] : f \in G})
  <2>1. DOMAIN g = G
    OBVIOUS
  <2> HIDE DEF g, G
  <2> QED
    BY <1>1, <2>1, ImageFinite
<1>4. Tell(type, F, s) \subseteq Fitting
  <2>1. \A f \in Filter : [type |-> type, filter |-> f, svc |-> s] \in SvcMessage
    BY DEF SvcMessage
  <2>2. \A f \in Filter : [type |-> type, filter |-> f, svc |-> s] \in Fitting
    BY <2>1 DEF Fitting
  <2> QED
    BY <2>2, Zenon DEF Tell
<1> QED
  BY <1>2, <1>3, <1>4, Zenon

(* Nor do the answers of receive to a query that stays,                       *)
LEMMA AnswersFit ==
    ASSUME NEW f \in Filter, NEW S, S \subseteq Service
    PROVE  LET A == {[type |-> "serviceDiscFound", filter |-> f, svc |-> s] : s \in S}
           IN  IsFiniteSet(A) /\ A \subseteq Fitting
<1> DEFINE g == [s \in S |-> [type |-> "serviceDiscFound", filter |-> f, svc |-> s]]
           A == {[type |-> "serviceDiscFound", filter |-> f, svc |-> s] : s \in S}
<1>1. IsFiniteSet(S) /\ DOMAIN g = S
  BY ServiceAssumption, FS_Subset
<1>2. A = {g[s] : s \in S}
  OBVIOUS
<1>3. IsFiniteSet({g[s] : s \in S})
  <2> HIDE DEF g
  <2> QED
    BY <1>1, ImageFinite
<1>4. A \subseteq Fitting
  BY DEF Fitting, SvcMessage
<1> QED
  BY <1>2, <1>3, <1>4

(* nor the queries themselves, when they start or stop                        *)
LEMMA QueryFits ==
    ASSUME NEW f \in Filter
    PROVE  Start(f) \in Fitting /\ Stop(f) \in Fitting
BY DEF Start, Stop, Fitting, SvcMessage

(* and in welcome.                                                            *)
LEMMA QueriesFit ==
    ASSUME NEW F, F \subseteq Filter
    PROVE  IsFiniteSet({Start(f) : f \in F}) /\ {Start(f) : f \in F} \subseteq Fitting
<1> DEFINE g == [f \in F |-> Start(f)]
<1>1. IsFiniteSet(F) /\ DOMAIN g = F
  BY ServiceAssumption, FS_Subset
<1>2. {Start(f) : f \in F} = {g[f] : f \in F}
  OBVIOUS
<1>3. IsFiniteSet({g[f] : f \in F})
  <2> HIDE DEF g
  <2> QED
    BY <1>1, ImageFinite
<1>4. \A f \in F : Start(f) \in Fitting
  BY QueryFits
<1> QED
  BY <1>2, <1>3, <1>4

-----------------------------------------------------------------------------
(* The initial states.                                                        *)

LEMMA SvcInitInv ==
    ASSUME SvcInit, heardBy \in [Manager -> SUBSET Manager], greeted = heardBy
    PROVE  SvcInv
<1>1. SvcTypes
  BY DEF SvcInit, SvcTypes
<1>2. Descriptions
  BY DEF SvcInit, Descriptions
<1>3. FindTypes /\ FoundMatches
  BY DEF SvcInit, FindTypes, Find, FoundMatches
<1>4. net \in Nets(Fitting)
  BY DEF SvcInit, Nets
<1> QED
  BY <1>1, <1>2, <1>3, <1>4 DEF SvcInv

(* What fits depends on the requests only.                                    *)
LEMMA FindsKept ==
    ASSUME UNCHANGED finds
    PROVE  Fitting' = Fitting /\ (FindTypes => FindTypes') /\ (FoundMatches => FoundMatches')
BY DEF Fitting, Asked, FindTypes, FoundMatches

(* Services come and go: addService, removeService.                           *)
LEMMA ServiceStep ==
    ASSUME SvcInv, NEW s \in Service, AddService(s) \/ RemoveService(s)
    PROVE  SvcInv'
<1> DEFINE m == host[s]
<1>0. m \in Manager
  BY ServiceAssumption
<1>1. UNCHANGED <<localQueries, remoteQueries, remoteSvcDesc, finds, listed, heardBy, greeted>>
  BY DEF AddService, RemoveService
<1>2. SvcTypes'
  BY <1>0, <1>1 DEF SvcInv, SvcTypes, AddService, RemoveService
<1>3. Descriptions'
  BY <1>1 DEF SvcInv, Descriptions
<1>4. net' \in Nets(Fitting)
  <2>1. PICK type \in {"serviceDiscFound", "serviceDiscRemoved"} :
            net' = SendTo(net, m, heardBy[m], Tell(type, remoteQueries[m], s))
    BY DEF AddService, RemoveService, Send
  <2>2. remoteQueries[m] \subseteq Filter
    BY <1>0 DEF SvcInv, SvcTypes
  <2> HIDE DEF m
  <2> QED
    BY <1>0, <2>1, <2>2, TellFits, SendToType DEF SvcInv
<1> QED
  BY <1>1, <1>2, <1>3, <1>4, FindsKept DEF SvcInv

(* Queries start and stop: startQuery, stopQuery.                             *)
LEMMA QueryStep ==
    ASSUME SvcInv, NEW f \in Filter, StartQuery(f) \/ StopQuery(f)
    PROVE  SvcInv'
<1> DEFINE m == asker[f]
<1>0. m \in Manager
  BY ServiceAssumption
<1>1. UNCHANGED <<svc, remoteQueries, remoteSvcDesc, finds, heardBy, greeted>>
  BY DEF StartQuery, StopQuery
<1>2. SvcTypes'
  BY <1>0, <1>1 DEF SvcInv, SvcTypes, StartQuery, StopQuery
<1>3. Descriptions'
  BY <1>1 DEF SvcInv, Descriptions, StartQuery, StopQuery
<1>4. net' \in Nets(Fitting)
  <2>1. PICK msg \in {Start(f), Stop(f)} : net' = SendTo(net, m, heardBy[m], {msg})
    BY DEF StartQuery, StopQuery, Send
  <2>2. {msg} \subseteq Fitting /\ IsFiniteSet({msg})
    BY QueryFits, FS_Singleton, Zenon
  <2> HIDE DEF m
  <2> QED
    BY <1>0, <2>1, <2>2, SendToType DEF SvcInv
<1> QED
  BY <1>1, <1>2, <1>3, <1>4, FindsKept DEF SvcInv

(* find is called: the request is remembered.                                 *)
LEMMA FindStep ==
    ASSUME SvcInv, NEW m \in Manager, NEW f \in Filter, NEW q \in ReqId, FindService(m, f, q)
    PROVE  SvcInv'
<1>1. /\ finds[q].state = "unused"
      /\ finds' = [finds EXCEPT ![q] = [state |-> "asleep", filter |-> {f}, found |-> {}]]
      /\ UNCHANGED <<svc, localQueries, remoteQueries, remoteSvcDesc, listed, heardBy, greeted, net>>
  BY DEF FindService
<1>2. SvcTypes' /\ Descriptions'
  BY <1>1 DEF SvcInv, SvcTypes, Descriptions
<1>3. FindTypes'
  BY <1>1 DEF SvcInv, FindTypes, Find
<1>4. finds'[q] = [state |-> "asleep", filter |-> {f}, found |-> {}]
  BY <1>1 DEF SvcInv, FindTypes
<1>5. \A o \in ReqId : Asked(o) => finds'[o] = finds[o]
  BY <1>1 DEF SvcInv, FindTypes, Asked
<1>6. FoundMatches'
  BY <1>1, <1>4 DEF SvcInv, FoundMatches, FindTypes
<1>7. Fitting \subseteq Fitting'
  BY <1>5 DEF Fitting, Asked, SvcMessage
<1>8. net' \in Nets(Fitting')
  BY <1>1, <1>7, NetsMonotone DEF SvcInv
<1> QED
  BY <1>2, <1>3, <1>6, <1>8 DEF SvcInv, Nets

(* find sends its request, which fits because it is the one remembered.       *)
LEMMA SendFindStep ==
    ASSUME SvcInv, NEW m \in Manager, NEW f \in Filter, NEW q \in ReqId, SendFind(m, f, q)
    PROVE  SvcInv'
<1> DEFINE msg == [type |-> "serviceDisc", filter |-> f, reqId |-> q]
<1>1. /\ finds[q].state = "asleep" /\ finds[q].filter = {f}
      /\ finds' = [finds EXCEPT ![q].state = "waiting"]
      /\ net' = SendTo(net, m, heardBy[m], {msg})
      /\ UNCHANGED <<svc, localQueries, remoteQueries, remoteSvcDesc, listed, heardBy, greeted>>
  BY DEF SendFind, Send
<1>2. SvcTypes' /\ Descriptions'
  BY <1>1 DEF SvcInv, SvcTypes, Descriptions
<1>3. FindTypes'
  BY <1>1 DEF SvcInv, FindTypes, Find
<1>4. \A o \in ReqId : /\ finds'[o].filter = finds[o].filter
                       /\ finds'[o].found = finds[o].found
                       /\ Asked(o) => Asked(o)'
  BY <1>1 DEF SvcInv, FindTypes, Find, Asked
<1>5. FoundMatches'
  BY <1>1, <1>4 DEF SvcInv, FoundMatches
<1>6. Fitting \subseteq Fitting'
  BY <1>4 DEF Fitting, SvcMessage
<1>7. {msg} \subseteq Fitting' /\ IsFiniteSet({msg})
  <2>1. msg \in SvcMessage
    BY DEF SvcMessage
  <2>2. finds'[q].filter = {f} /\ Asked(q)'
    BY <1>1, <1>4 DEF Asked
  <2>3. msg \in Fitting'
    BY <2>1, <2>2 DEF Fitting
  <2> QED
    BY <2>3, FS_Singleton, Zenon
<1>8. net' \in Nets(Fitting')
  <2>1. net \in Nets(Fitting')
    BY <1>6, NetsMonotone DEF SvcInv
  <2> HIDE DEF msg
  <2> QED
    BY <1>1, <1>7, <2>1, SendToType
<1> QED
  BY <1>2, <1>3, <1>5, <1>8 DEF SvcInv, Nets

(* find returns.                                                              *)
LEMMA ReturnStep ==
    ASSUME SvcInv, NEW q \in ReqId, FindReturns(q)
    PROVE  SvcInv'
<1>1. /\ finds[q].state = "signaled"
      /\ finds' = [finds EXCEPT ![q].state = "returned"]
      /\ UNCHANGED <<svc, localQueries, remoteQueries, remoteSvcDesc, listed, heardBy, greeted, net>>
  BY DEF FindReturns
<1>2. SvcTypes' /\ Descriptions'
  BY <1>1 DEF SvcInv, SvcTypes, Descriptions
<1>3. FindTypes'
  BY <1>1 DEF SvcInv, FindTypes, Find
<1>4. \A o \in ReqId : /\ finds'[o].filter = finds[o].filter
                       /\ finds'[o].found = finds[o].found
                       /\ Asked(o) => Asked(o)'
  BY <1>1 DEF SvcInv, FindTypes, Find, Asked
<1>5. FoundMatches'
  BY <1>4 DEF SvcInv, FoundMatches
<1>6. Fitting \subseteq Fitting'
  BY <1>4 DEF Fitting, SvcMessage
<1>7. net' \in Nets(Fitting')
  BY <1>1, <1>6, NetsMonotone DEF SvcInv
<1> QED
  BY <1>2, <1>3, <1>5, <1>7 DEF SvcInv, Nets

(* Managers meet, greet and lose each other: welcome, farewell.               *)
LEMMA MeetStep ==
    ASSUME SvcInv, NEW m \in Manager, NEW r \in Manager, Hear(m, r) \/ Welcome(m, r) \/ Lose(m, r)
    PROVE  SvcInv'
<1>1. UNCHANGED <<svc, localQueries, remoteQueries, remoteSvcDesc, finds, listed>>
  BY DEF Hear, Welcome, Lose
<1>2. SvcTypes'
  BY <1>1 DEF SvcInv, SvcTypes, Hear, Welcome, Lose
<1>3. Descriptions'
  BY <1>1 DEF SvcInv, Descriptions
<1>4. net' \in Nets(Fitting)
  <2>1. CASE Hear(m, r)
    BY <2>1 DEF Hear, SvcInv
  <2>2. CASE Welcome(m, r)
    <3>1. net' = SendTo(net, m, {r}, {Start(f) : f \in localQueries[m]})
      BY <2>2 DEF Welcome
    <3>2. localQueries[m] \subseteq Filter
      BY DEF SvcInv, SvcTypes
    <3> QED
      BY <3>1, <3>2, QueriesFit, SendToType, Zenon DEF SvcInv
  <2>3. CASE Lose(m, r)
    <3>1. net' = [net EXCEPT ![m] = [net[m] EXCEPT ![r] = <<>>]]
      BY <2>3 DEF Lose
    <3> QED
      BY <3>1 DEF SvcInv, Nets
  <2> QED
    BY <2>1, <2>2, <2>3
<1> QED
  BY <1>1, <1>2, <1>3, <1>4, FindsKept DEF SvcInv

(* The messages of a query that stays: receive, up to the answers.            *)
LEMMA QueryReceived ==
    ASSUME SvcInv, NEW m \in Manager, NEW r \in Manager, net[r][m] # <<>>,
           ReceiveStart(m, r) \/ ReceiveStop(m, r)
    PROVE  SvcInv'
<1> DEFINE f == Arriving(r, m).filter
<1>0. Arriving(r, m) \in Fitting /\ Taken(r, m) \in Nets(Fitting)
  BY TakenType DEF SvcInv
<1>1. f \in Filter
  BY <1>0 DEF Fitting, SvcMessage, ReceiveStart, ReceiveStop
<1>2. UNCHANGED <<svc, localQueries, remoteSvcDesc, finds, listed, heardBy, greeted>>
  BY DEF ReceiveStart, ReceiveStop
<1>3. remoteQueries' \in [Manager -> SUBSET Filter]
  BY <1>1 DEF ReceiveStart, ReceiveStop, SvcInv, SvcTypes
<1>4. SvcTypes' /\ Descriptions'
  BY <1>2, <1>3 DEF SvcInv, SvcTypes, Descriptions
<1>5. net' \in Nets(Fitting)
  <2>1. CASE ReceiveStart(m, r)
    <3> DEFINE A == {[type |-> "serviceDiscFound", filter |-> f, svc |-> s] : s \in Offered(m, f)}
    <3>1. net' = SendTo(Taken(r, m), m, heardBy[m], A)
      BY <2>1 DEF ReceiveStart, Send
    <3>2. Offered(m, f) \subseteq Service
      BY DEF Offered, SvcInv, SvcTypes
    <3>3. IsFiniteSet(A) /\ A \subseteq Fitting
      <4> HIDE DEF f
      <4> QED
        BY <1>1, <3>2, AnswersFit
    <3> HIDE DEF A
    <3> QED
      BY <1>0, <3>1, <3>3, SendToType
  <2>2. CASE ReceiveStop(m, r)
    BY <1>0, <2>2 DEF ReceiveStop
  <2> QED
    BY <2>1, <2>2
<1> QED
  BY <1>2, <1>4, <1>5, FindsKept DEF SvcInv

(* The answers to it: receive tells the listener after it remembered the      *)
(* description, and forgets the description after it told the listener.       *)
LEMMA AnswerReceived ==
    ASSUME SvcInv, NEW m \in Manager, NEW r \in Manager, net[r][m] # <<>>,
           ReceiveFound(m, r) \/ ReceiveRemoved(m, r)
    PROVE  SvcInv'
<1> DEFINE msg == Arriving(r, m)
           mine == msg.filter \in localQueries[m]
<1>0. msg \in Fitting /\ Taken(r, m) \in Nets(Fitting)
  BY TakenType DEF SvcInv
<1>1. msg.filter \in Filter /\ msg.svc \in Service
  BY <1>0 DEF Fitting, SvcMessage, ReceiveFound, ReceiveRemoved
<1>2. net' = Taken(r, m) /\ UNCHANGED <<svc, localQueries, remoteQueries, finds, heardBy, greeted>>
  BY DEF ReceiveFound, ReceiveRemoved
<1>3. SvcTypes'
  BY <1>2 DEF SvcInv, SvcTypes
<1>4. mine => asker[msg.filter] = m
  BY DEF SvcInv, SvcTypes
<1>5. CASE ReceiveFound(m, r)
  <2>1. /\ remoteSvcDesc' = [remoteSvcDesc EXCEPT ![m] = IF mine THEN @ \cup {msg.svc} ELSE @]
        /\ listed' = [listed EXCEPT ![msg.filter] = IF mine THEN @ \cup {<<msg.svc, "known">>} ELSE @]
    BY <1>5 DEF ReceiveFound
  <2> HIDE DEF msg, mine
  <2>2. remoteSvcDesc' \in [Manager -> SUBSET Service]
    BY <1>1, <2>1 DEF SvcInv, Descriptions
  <2>3. listed' \in [Filter -> SUBSET (Service \X Object)]
    BY <1>1, <2>1 DEF SvcInv, Descriptions, Object
  <2>4. ASSUME NEW f \in Filter, NEW s \in Service, <<s, "known">> \in listed'[f]
        PROVE  s \in remoteSvcDesc'[asker[f]]
    BY <1>1, <1>4, <2>1, <2>4, ServiceAssumption DEF SvcInv, Descriptions
  <2> QED
    BY <1>0, <1>2, <1>3, <2>2, <2>3, <2>4, FindsKept DEF SvcInv, Descriptions
<1>6. CASE ReceiveRemoved(m, r)
  <2> DEFINE Forget(L) == {IF e[1] = msg.svc THEN <<e[1], "forgotten">> ELSE e : e \in L}
  <2>1. /\ remoteSvcDesc' = [remoteSvcDesc EXCEPT ![m] = IF mine THEN @ \ {msg.svc} ELSE @]
        /\ listed' = [f \in Filter |->
               IF ~mine \/ asker[f] # m THEN listed[f]
               ELSE IF f = msg.filter THEN listed[f] \ {<<msg.svc, "known">>}
               ELSE Forget(listed[f])]
    BY <1>6 DEF ReceiveRemoved
  <2>2. ASSUME NEW L \in SUBSET (Service \X Object)
        PROVE  /\ Forget(L) \in SUBSET (Service \X Object)
               /\ \A s \in Service : <<s, "known">> \in Forget(L) => s # msg.svc /\ <<s, "known">> \in L
    <3>1. \A e \in L : e = <<e[1], e[2]>> /\ e[1] \in Service /\ e[2] \in Object
      OBVIOUS
    <3>2. ASSUME NEW x \in Forget(L)
          PROVE  x \in Service \X Object /\ ((x \in L /\ x[1] # msg.svc) \/ x[2] = "forgotten")
      <4> HIDE DEF msg
      <4>1. PICK e \in L : x = IF e[1] = msg.svc THEN <<e[1], "forgotten">> ELSE e
        BY <3>2
      <4>2. CASE e[1] = msg.svc
        BY <3>1, <4>1, <4>2 DEF Object
      <4>3. CASE e[1] # msg.svc
        BY <4>1, <4>3
      <4> QED
        BY <4>2, <4>3
    <3>3. ASSUME NEW s \in Service, <<s, "known">> \in Forget(L)
          PROVE  s # msg.svc /\ <<s, "known">> \in L
      <4> HIDE DEF Forget, msg
      <4> QED
        BY <3>2, <3>3
    <3> QED
      BY <3>2, <3>3
  <2> HIDE DEF msg, mine, Forget
  <2>3. remoteSvcDesc' \in [Manager -> SUBSET Service]
    BY <2>1 DEF SvcInv, Descriptions
  <2>4. listed' \in [Filter -> SUBSET (Service \X Object)]
    BY <2>1, <2>2 DEF SvcInv, Descriptions
  <2>5. ASSUME NEW f \in Filter, NEW s \in Service, <<s, "known">> \in listed'[f]
        PROVE  s \in remoteSvcDesc'[asker[f]]
    <3>0. listed[f] \in SUBSET (Service \X Object) /\ asker[f] \in Manager
      BY ServiceAssumption DEF SvcInv, Descriptions
    <3>1. <<s, "known">> \in listed[f]
      BY <2>1, <2>2, <2>5, <3>0
    <3>2. s \in remoteSvcDesc[asker[f]]
      BY <3>1 DEF SvcInv, Descriptions
    <3>3. mine /\ asker[f] = m => s # msg.svc
      BY <2>1, <2>2, <2>5, <3>0
    <3> QED
      BY <2>1, <3>0, <3>2, <3>3 DEF SvcInv, Descriptions
  <2> QED
    BY <1>0, <1>2, <1>3, <2>3, <2>4, <2>5, FindsKept DEF SvcInv, Descriptions
<1> QED
  BY <1>5, <1>6

(* An answer to find goes to the request it names: receive with a reqId.      *)
LEMMA DiscReceived ==
    ASSUME SvcInv, NEW m \in Manager, NEW r \in Manager, net[r][m] # <<>>, ReceiveDisc(m, r)
    PROVE  SvcInv'
<1> DEFINE msg == Arriving(r, m)
<1>0. msg \in Fitting /\ Taken(r, m) \in Nets(Fitting)
  BY TakenType DEF SvcInv
<1>1. UNCHANGED <<svc, localQueries, remoteQueries, remoteSvcDesc, finds, listed, heardBy, greeted>>
  BY DEF ReceiveDisc
<1>2. SvcTypes' /\ Descriptions'
  BY <1>1 DEF SvcInv, SvcTypes, Descriptions
<1>3. net' \in Nets(Fitting)
  <2>1. CASE net' = Taken(r, m)
    BY <1>0, <2>1
  <2>2. ASSUME NEW s \in Offered(m, msg.filter),
               net' = Send(Taken(r, m), m, {[type |-> "response", reqId |-> msg.reqId, svc |-> s]})
        PROVE  net' \in Nets(Fitting)
    <3> DEFINE answer == [type |-> "response", reqId |-> msg.reqId, svc |-> s]
    <3>1. /\ msg.reqId \in ReqId /\ msg.filter \in Filter
          /\ Asked(msg.reqId) /\ finds[msg.reqId].filter = {msg.filter}
      BY <1>0 DEF Fitting, SvcMessage, ReceiveDisc
    <3>2. s \in Service /\ <<msg.filter, s>> \in Matches
      BY <2>2 DEF Offered, SvcInv, SvcTypes
    <3> HIDE DEF msg
    <3>3. answer \in SvcMessage
      BY <3>1, <3>2 DEF SvcMessage
    <3>4. finds[msg.reqId].filter \X {s} \subseteq Matches
      BY <3>1, <3>2
    <3>5. answer \in Fitting
      BY <3>1, <3>3, <3>4 DEF Fitting
    <3>6. net' = SendTo(Taken(r, m), m, heardBy[m], {answer})
      BY <2>2 DEF Send
    <3>7. IsFiniteSet({answer}) /\ {answer} \subseteq Fitting
      BY <3>5, FS_Singleton, Zenon
    <3> HIDE DEF answer
    <3> QED
      BY <1>0, <3>6, <3>7, SendToType, Zenon
  <2> QED
    BY <2>1, <2>2, Zenon DEF ReceiveDisc
<1> QED
  BY <1>1, <1>2, <1>3, FindsKept DEF SvcInv

LEMMA ResponseReceived ==
    ASSUME SvcInv, NEW m \in Manager, NEW r \in Manager, net[r][m] # <<>>, ReceiveResponse(m, r)
    PROVE  SvcInv'
<1> DEFINE msg == Arriving(r, m)
           q == msg.reqId
<1>0. msg \in Fitting /\ Taken(r, m) \in Nets(Fitting)
  BY TakenType DEF SvcInv
<1>1. /\ q \in ReqId /\ msg.svc \in Service
      /\ finds[q].filter \X {msg.svc} \subseteq Matches
  BY <1>0 DEF Fitting, SvcMessage, ReceiveResponse
<1>2. net' = Taken(r, m) /\ UNCHANGED <<svc, localQueries, remoteQueries, remoteSvcDesc, listed, heardBy, greeted>>
  BY DEF ReceiveResponse
<1>3. SvcTypes' /\ Descriptions'
  BY <1>2 DEF SvcInv, SvcTypes, Descriptions
<1>4. \/ finds' = finds
      \/ finds' = [finds EXCEPT ![q] = [state |-> "signaled", filter |-> finds[q].filter, found |-> {msg.svc}]]
  <2>1. finds[q] = [state |-> finds[q].state, filter |-> finds[q].filter, found |-> finds[q].found]
    BY <1>1 DEF SvcInv, FindTypes, Find
  <2>2. \/ finds' = finds
        \/ finds' = [finds EXCEPT ![q].state = "signaled", ![q].found = {msg.svc}]
    BY DEF ReceiveResponse
  <2> HIDE DEF q, msg
  <2> QED
    BY <1>1, <2>1, <2>2, Zenon DEF SvcInv, FindTypes
<1> HIDE DEF q, msg
<1>5. FindTypes'
  BY <1>1, <1>4 DEF SvcInv, FindTypes, Find
<1>6. \A o \in ReqId : /\ finds'[o].filter = finds[o].filter
                       /\ Asked(o) => Asked(o)'
                       /\ finds'[o].found = finds[o].found \/ (o = q /\ finds'[o].found = {msg.svc})
  BY <1>1, <1>4 DEF SvcInv, FindTypes, Find, Asked
<1>7. FoundMatches'
  BY <1>1, <1>6 DEF SvcInv, FoundMatches
<1>8. Fitting \subseteq Fitting'
  BY <1>6 DEF Fitting, SvcMessage
<1>9. net' \in Nets(Fitting')
  BY <1>0, <1>2, <1>8, NetsMonotone
<1> QED
  BY <1>3, <1>5, <1>7, <1>9 DEF SvcInv, Nets

-----------------------------------------------------------------------------
(* The theorems.                                                              *)

LEMMA SvcInvNext == SvcInv /\ [SvcNext]_svcVars => SvcInv'
<1> SUFFICES ASSUME SvcInv, [SvcNext]_svcVars PROVE SvcInv'
  OBVIOUS
<1>1. CASE UNCHANGED svcVars
  <2>1. SvcTypes' /\ Descriptions'
    BY <1>1 DEF svcVars, SvcInv, SvcTypes, Descriptions
  <2>2. Fitting' = Fitting /\ FindTypes' /\ FoundMatches' /\ net' = net
    BY <1>1, FindsKept DEF svcVars, SvcInv
  <2> QED
    BY <2>1, <2>2 DEF SvcInv, Nets
<1>2. ASSUME NEW m \in Manager, NEW r \in Manager, SvcReceive(m, r)
      PROVE  SvcInv'
  BY <1>2, QueryReceived, AnswerReceived, DiscReceived, ResponseReceived DEF SvcReceive
<1> QED
  BY <1>1, <1>2, ServiceStep, QueryStep, FindStep, SendFindStep, ReturnStep, MeetStep
     DEF SvcNext

LEMMA SvcInvAlways == SvcSpec => []SvcInv
<1>1. SvcInit /\ heardBy \in [Manager -> SUBSET Manager] /\ greeted = heardBy => SvcInv
  BY SvcInitInv
<1> QED
  BY <1>1, SvcInvNext, PTL DEF SvcSpec

(* However many managers answer, in whatever order and however late, and      *)
(* whatever connections are lost, find returns a service that matches the     *)
(* filter it was called with (find, receive).                                 *)
THEOREM FindReturnsMatching == SvcSpec => []FoundMatches
<1>1. SvcInv => FoundMatches
  BY Zenon DEF SvcInv
<1> QED
  BY <1>1, SvcInvAlways, PTL

(* Managers keep their own services and queries, and the known objects of a   *)
(* listener are in its manager's _remoteSvcDesc, where receive looks for the  *)
(* object when the service is removed.                                        *)
THEOREM SvcTypeCorrect == SvcSpec => []SvcTypeOK
<1>1. SvcInv => SvcTypeOK
  <2> SUFFICES ASSUME SvcInv PROVE SvcTypeOK
    OBVIOUS
  <2>1. \A m, r \in Manager : Range(net[m][r]) \subseteq SvcMessage
    <3>1. ASSUME NEW m \in Manager, NEW r \in Manager
          PROVE  Range(net[m][r]) \subseteq SvcMessage
      <4>1. net[m][r] \in Seq(Fitting)
        BY DEF SvcInv, Nets
      <4>2. \A i \in DOMAIN net[m][r] : net[m][r][i] \in Fitting
        BY <4>1
      <4> QED
        BY <4>2 DEF Range, Fitting
    <3> QED
      BY <3>1
  <2> QED
    BY <2>1 DEF SvcTypeOK, SvcInv, SvcTypes, Descriptions, FindTypes
<1> QED
  BY <1>1, SvcInvAlways, PTL

-----------------------------------------------------------------------------
(* Which queries a manager knows once it has read what is underway to it.     *)

IsQuery(msg) == msg.type \in {"serviceDiscStart", "serviceDiscStop"}
About(msg, f) == IsQuery(msg) /\ msg.filter = f

\* A manager that knows the queries of K and has read the messages of s knows of
\* f what value says: the last of them about f says so, or there is none and it
\* knows already.
Expects(s, f, K, value) ==
    /\ \A k \in 1 .. Len(s) :
          /\ About(s[k], f)
          /\ \A j \in k + 1 .. Len(s) : ~ About(s[j], f)
          => (s[k].type = "serviceDiscStart" <=> value)
    /\ (\A k \in 1 .. Len(s) : ~ About(s[k], f)) => (f \in K <=> value)

(* Other messages that follow change nothing.                                 *)
LEMMA ExpectsOthers ==
    ASSUME NEW M, NEW s \in Seq(M), NEW t \in Seq(M), NEW f,
           NEW K, NEW value \in BOOLEAN,
           Expects(s, f, K, value),
           \A k \in 1 .. Len(t) : ~ About(t[k], f)
    PROVE  Expects(s \o t, f, K, value)
<1>. DEFINE u == s \o t
<1>1. /\ Len(s) \in Nat /\ Len(t) \in Nat /\ Len(u) = Len(s) + Len(t)
      /\ \A k \in 1 .. Len(s) : u[k] = s[k]
      /\ \A k \in 1 .. Len(u) : k > Len(s) => k - Len(s) \in 1 .. Len(t) /\ u[k] = t[k - Len(s)]
  OBVIOUS
<1>. HIDE DEF u
<1>2. \A k \in 1 .. Len(u) : About(u[k], f) => k \in 1 .. Len(s) /\ u[k] = s[k]
  BY <1>1
<1>3. ASSUME NEW k \in 1 .. Len(u), About(u[k], f), \A j \in k + 1 .. Len(u) : ~ About(u[j], f)
      PROVE  u[k].type = "serviceDiscStart" <=> value
  <2>1. k \in 1 .. Len(s) /\ u[k] = s[k]
    BY <1>2, <1>3
  <2>2. \A j \in k + 1 .. Len(s) : ~ About(s[j], f)
    BY <1>1, <1>3, <2>1
  <2>. QED
    BY <1>3, <2>1, <2>2 DEF Expects
<1>4. (\A k \in 1 .. Len(u) : ~ About(u[k], f)) => (f \in K <=> value)
  BY <1>1 DEF Expects
<1>5. Expects(u, f, K, value)
  BY <1>3, <1>4, Zenon DEF Expects
<1>. QED
  BY <1>5, Zenon DEF u

(* Messages about f that agree decide.                                        *)
LEMMA ExpectsMessages ==
    ASSUME NEW M, NEW s \in Seq(M), NEW t \in Seq(M), NEW f,
           NEW K, NEW value \in BOOLEAN,
           \E k \in 1 .. Len(t) : About(t[k], f),
           \A k \in 1 .. Len(t) : About(t[k], f) => (t[k].type = "serviceDiscStart" <=> value)
    PROVE  Expects(s \o t, f, K, value)
<1>. DEFINE u == s \o t
<1>1. /\ Len(s) \in Nat /\ Len(t) \in Nat /\ Len(u) = Len(s) + Len(t)
      /\ \A k \in 1 .. Len(u) : k > Len(s) => k - Len(s) \in 1 .. Len(t) /\ u[k] = t[k - Len(s)]
      /\ \A k \in 1 .. Len(t) : u[Len(s) + k] = t[k]
  OBVIOUS
<1>. HIDE DEF u
<1>2. PICK i \in 1 .. Len(t) : About(t[i], f)
  OBVIOUS
<1>3. Len(s) + i \in 1 .. Len(u) /\ About(u[Len(s) + i], f)
  BY <1>1, <1>2
<1>4. ASSUME NEW k \in 1 .. Len(u), About(u[k], f), \A j \in k + 1 .. Len(u) : ~ About(u[j], f)
      PROVE  u[k].type = "serviceDiscStart" <=> value
  <2>1. k > Len(s)
    BY <1>1, <1>3, <1>4
  <2>. QED
    BY <1>1, <1>4, <2>1, Zenon
<1>. QED
  BY <1>3, <1>4, Zenon DEF Expects, u

(* The message that is read decides, if it is about f.                        *)
LEMMA ExpectsTail ==
    ASSUME NEW M, NEW s \in Seq(M), s # <<>>, NEW f,
           NEW K, NEW L, NEW value \in BOOLEAN,
           Expects(s, f, K, value),
           IF About(Head(s), f) THEN f \in L <=> Head(s).type = "serviceDiscStart" ELSE f \in L <=> f \in K
    PROVE  Expects(Tail(s), f, L, value)
<1>. DEFINE rest == Tail(s)
<1>1. /\ Len(s) \in Nat \ {0} /\ Len(rest) = Len(s) - 1
      /\ Head(s) = s[1]
      /\ \A k \in 1 .. Len(rest) : rest[k] = s[k + 1]
  OBVIOUS
<1>. HIDE DEF rest
<1>2. \A j \in 2 .. Len(s) : j - 1 \in 1 .. Len(rest) /\ rest[j - 1] = s[j]
  <2>1. TAKE j \in 2 .. Len(s)
  <2>2. j - 1 \in 1 .. Len(rest) /\ (j - 1) + 1 = j
    BY <1>1
  <2>. QED
    BY <1>1, <2>2
<1>3. ASSUME NEW k \in 1 .. Len(rest), About(rest[k], f),
             \A j \in k + 1 .. Len(rest) : ~ About(rest[j], f)
      PROVE  rest[k].type = "serviceDiscStart" <=> value
  <2>1. k + 1 \in 1 .. Len(s) /\ rest[k] = s[k + 1]
    BY <1>1
  <2>2. ASSUME NEW j \in (k + 1) + 1 .. Len(s)
        PROVE  ~ About(s[j], f)
    <3>1. j - 1 \in k + 1 .. Len(rest) /\ rest[j - 1] = s[j]
      BY <1>1, <1>2
    <3>. QED
      BY <1>3, <3>1
  <2>. QED
    BY <1>3, <2>1, <2>2 DEF Expects
<1>4. ASSUME \A k \in 1 .. Len(rest) : ~ About(rest[k], f)
      PROVE  f \in L <=> value
  <2>1. \A j \in 2 .. Len(s) : ~ About(s[j], f)
    BY <1>2, <1>4
  <2>2. CASE About(Head(s), f)
    <3>1. 1 \in 1 .. Len(s) /\ 1 + 1 = 2
      BY <1>1
    <3>. QED
      BY <1>1, <2>1, <2>2, <3>1 DEF Expects
  <2>3. CASE ~ About(Head(s), f)
    <3>1. \A k \in 1 .. Len(s) : ~ About(s[k], f)
      <4>1. TAKE k \in 1 .. Len(s)
      <4>2. k = 1 \/ k \in 2 .. Len(s)
        BY <1>1
      <4>. QED
        BY <1>1, <2>1, <2>3, <4>2
    <3>. QED
      BY <2>3, <3>1 DEF Expects
  <2>. QED
    BY <2>2, <2>3
<1>. QED
  BY <1>3, <1>4, Zenon DEF Expects, rest

\* The same for a filter f and a manager m, with the messages underway in n and
\* the queries known in known.
Told(n, known, f, m, value) == Expects(n[asker[f]][m], f, known[m], value)

\* Only the manager a filter is used at tells of its query.
OwnQueries(n) ==
    \A m, r \in Manager : \A k \in 1 .. Len(n[m][r]) :
        IsQuery(n[m][r][k]) => asker[n[m][r][k].filter] = m

LEMMA SendToAt ==
    ASSUME NEW n \in Nets(SvcMessage), NEW p \in Manager, NEW R, NEW msgs,
           NEW q \in Manager, NEW m \in Manager
    PROVE  SendTo(n, p, R, msgs)[q][m] = IF q = p /\ m \in R THEN n[q][m] \o InSomeOrder(msgs) ELSE n[q][m]
BY DEF SendTo, Nets

LEMMA TakenAt ==
    ASSUME net \in Nets(SvcMessage), NEW r \in Manager, NEW p \in Manager,
           NEW q \in Manager, NEW m \in Manager
    PROVE  Taken(r, p)[q][m] = IF q = r /\ m = p THEN Tail(net[r][p]) ELSE net[q][m]
BY DEF Taken, Nets

(* Messages that are no queries change nothing.                               *)
LEMMA SendOthers ==
    ASSUME NEW n \in Nets(SvcMessage), NEW p \in Manager, NEW R, NEW msgs, IsFiniteSet(msgs),
           msgs \subseteq SvcMessage, \A msg \in msgs : ~ IsQuery(msg), OwnQueries(n)
    PROVE  /\ OwnQueries(SendTo(n, p, R, msgs))
           /\ \A known : \A f \in Filter, m \in Manager, value \in BOOLEAN :
                 Told(n, known, f, m, value) => Told(SendTo(n, p, R, msgs), known, f, m, value)
<1>. DEFINE t == InSomeOrder(msgs)
<1>1. t \in Seq(SvcMessage)
  BY OrderType
<1>2. \A k \in 1 .. Len(t) : ~ IsQuery(t[k])
  BY OrderRange
<1>3. \A q, m \in Manager :
         SendTo(n, p, R, msgs)[q][m] = IF q = p /\ m \in R THEN n[q][m] \o t ELSE n[q][m]
  BY SendToAt
<1>4. \A q, m \in Manager : n[q][m] \in Seq(SvcMessage)
  BY DEF Nets
<1>. HIDE DEF t
<1>5. OwnQueries(SendTo(n, p, R, msgs))
  <2>. SUFFICES ASSUME NEW q \in Manager, NEW m \in Manager,
                       NEW k \in 1 .. Len(SendTo(n, p, R, msgs)[q][m]),
                       IsQuery(SendTo(n, p, R, msgs)[q][m][k])
                PROVE  asker[SendTo(n, p, R, msgs)[q][m][k].filter] = q
    BY DEF OwnQueries
  <2>1. CASE q = p /\ m \in R
    <3>1. SendTo(n, p, R, msgs)[q][m] = n[q][m] \o t
      BY <1>3, <2>1, Zenon
    <3>2. k \in 1 .. Len(n[q][m]) /\ (n[q][m] \o t)[k] = n[q][m][k]
      <4>1. \/ k \in 1 .. Len(n[q][m]) /\ (n[q][m] \o t)[k] = n[q][m][k]
            \/ k - Len(n[q][m]) \in 1 .. Len(t) /\ (n[q][m] \o t)[k] = t[k - Len(n[q][m])]
        BY <1>1, <1>4, <3>1
      <4>. QED
        BY <1>2, <3>1, <4>1, Zenon
    <3>. QED
      BY <3>1, <3>2 DEF OwnQueries
  <2>2. CASE ~ (q = p /\ m \in R)
    BY <1>3, <2>2 DEF OwnQueries
  <2>. QED
    BY <2>1, <2>2, Zenon
<1>6. ASSUME NEW known, NEW f \in Filter, NEW m \in Manager, NEW value \in BOOLEAN,
             Told(n, known, f, m, value)
      PROVE  Told(SendTo(n, p, R, msgs), known, f, m, value)
  <2>1. asker[f] \in Manager
    BY ServiceAssumption
  <2>2. CASE asker[f] = p /\ m \in R
    <3>1. \A k \in 1 .. Len(t) : ~ About(t[k], f)
      BY <1>2 DEF About
    <3>2. Expects(n[p][m], f, known[m], value)
      BY <1>6, <2>2 DEF Told
    <3>3. Expects(n[p][m] \o t, f, known[m], value)
      BY <1>1, <1>4, <3>1, <3>2, ExpectsOthers
    <3>. QED
      BY <1>3, <2>1, <2>2, <3>3, Zenon DEF Told
  <2>3. CASE ~ (asker[f] = p /\ m \in R)
    BY <1>3, <1>6, <2>1, <2>3, Zenon DEF Told
  <2>. QED
    BY <2>2, <2>3
<1>. QED
  BY <1>5, <1>6

(* Queries of manager p that start, or one that stops: those who hear of it   *)
(* expect it to run, or not to, and other queries stay as they are.           *)
LEMMA SendQueries ==
    ASSUME NEW n \in Nets(SvcMessage), NEW p \in Manager, NEW R, NEW F \in SUBSET Filter,
           \A f \in F : asker[f] = p, OwnQueries(n),
           NEW value \in BOOLEAN, NEW msgs, IsFiniteSet(msgs),
           msgs \subseteq SvcMessage,
           \A msg \in msgs : /\ IsQuery(msg) /\ msg.filter \in F
                             /\ msg.type = "serviceDiscStart" <=> value,
           \A f \in F : \E msg \in msgs : About(msg, f)
    PROVE  /\ OwnQueries(SendTo(n, p, R, msgs))
           /\ \A known : \A f \in F, m \in Manager :
                 m \in R => Told(SendTo(n, p, R, msgs), known, f, m, value)
           /\ \A known : \A f \in Filter, m \in Manager, v \in BOOLEAN :
                 (f \notin F \/ m \notin R) /\ Told(n, known, f, m, v)
                     => Told(SendTo(n, p, R, msgs), known, f, m, v)
<1>. DEFINE t == InSomeOrder(msgs)
<1>1. t \in Seq(SvcMessage)
  BY OrderType
<1>2. \A k \in 1 .. Len(t) : t[k] \in msgs
  BY OrderRange
<1>3. \A f \in F : \E k \in 1 .. Len(t) : About(t[k], f)
  <2>1. TAKE f \in F
  <2>2. PICK msg \in msgs : About(msg, f)
    OBVIOUS
  <2>3. PICK k \in 1 .. Len(t) : t[k] = msg
    BY OrderRange
  <2>. QED
    BY <2>2, <2>3
<1>4. \A q, m \in Manager :
         SendTo(n, p, R, msgs)[q][m] = IF q = p /\ m \in R THEN n[q][m] \o t ELSE n[q][m]
  BY SendToAt
<1>5. \A q, m \in Manager : n[q][m] \in Seq(SvcMessage)
  BY Zenon DEF Nets
<1>. HIDE DEF t
<1>6. OwnQueries(SendTo(n, p, R, msgs))
  <2>. SUFFICES ASSUME NEW q \in Manager, NEW m \in Manager,
                       NEW k \in 1 .. Len(SendTo(n, p, R, msgs)[q][m]),
                       IsQuery(SendTo(n, p, R, msgs)[q][m][k])
                PROVE  asker[SendTo(n, p, R, msgs)[q][m][k].filter] = q
    BY Zenon DEF OwnQueries
  <2>1. CASE q = p /\ m \in R
    <3>1. SendTo(n, p, R, msgs)[q][m] = n[q][m] \o t
      BY <1>4, <2>1, ZenonT(30)
    <3>2. \/ k \in 1 .. Len(n[q][m]) /\ (n[q][m] \o t)[k] = n[q][m][k]
          \/ k - Len(n[q][m]) \in 1 .. Len(t) /\ (n[q][m] \o t)[k] = t[k - Len(n[q][m])]
      BY <1>1, <1>5, <3>1
    <3>3. \A j \in 1 .. Len(t) : asker[t[j].filter] = p
      BY <1>2, Zenon
    <3>4. CASE k \in 1 .. Len(n[q][m]) /\ (n[q][m] \o t)[k] = n[q][m][k]
      BY <3>1, <3>4 DEF OwnQueries
    <3>5. CASE k - Len(n[q][m]) \in 1 .. Len(t) /\ (n[q][m] \o t)[k] = t[k - Len(n[q][m])]
      BY <2>1, <3>1, <3>3, <3>5, Zenon
    <3>. QED
      BY <3>2, <3>4, <3>5, Zenon
  <2>2. CASE ~ (q = p /\ m \in R)
    BY <1>4, <2>2 DEF OwnQueries
  <2>. QED
    BY <2>1, <2>2, Zenon
<1>7. ASSUME NEW known, NEW f \in F, NEW m \in Manager, m \in R
       PROVE  Told(SendTo(n, p, R, msgs), known, f, m, value)
  <2>1. \A k \in 1 .. Len(t) : About(t[k], f) => (t[k].type = "serviceDiscStart" <=> value)
    BY <1>2, Zenon
  <2>2. Expects(n[p][m] \o t, f, known[m], value)
    BY <1>1, <1>3, <1>5, <2>1, ExpectsMessages, Zenon
  <2>. QED
    BY <1>4, <1>7, <2>2 DEF Told
<1>8. ASSUME NEW known, NEW f \in Filter, NEW m \in Manager, NEW v \in BOOLEAN,
              f \notin F \/ m \notin R, Told(n, known, f, m, v)
       PROVE  Told(SendTo(n, p, R, msgs), known, f, m, v)
  <2>1. asker[f] \in Manager
    BY ServiceAssumption, Zenon
  <2>2. CASE asker[f] = p /\ m \in R
    <3>1. \A k \in 1 .. Len(t) : ~ About(t[k], f)
      BY <1>2, <1>8, <2>2, Zenon DEF About
    <3>2. Expects(n[p][m], f, known[m], v)
      BY <1>8, <2>2, Zenon DEF Told
    <3>3. Expects(n[p][m] \o t, f, known[m], v)
      BY <1>1, <1>5, <3>1, <3>2, ExpectsOthers, Zenon
    <3>. QED
      BY <1>4, <2>1, <2>2, <3>3 DEF Told
  <2>3. CASE ~ (asker[f] = p /\ m \in R)
    BY <1>4, <1>8, <2>1, <2>3, Zenon DEF Told
  <2>. QED
    BY <2>2, <2>3, Zenon
<1>. QED
  BY <1>6, <1>7, <1>8

(* Manager p reads a message of r, and knows what it says.                    *)
LEMMA TakenTold ==
    ASSUME net \in Nets(SvcMessage), OwnQueries(net), NEW p \in Manager, NEW r \in Manager,
           net[r][p] # <<>>, NEW known,
           \A f \in Filter, m \in Manager :
              IF m = p /\ About(Arriving(r, p), f)
              THEN f \in known[m] <=> Arriving(r, p).type = "serviceDiscStart"
              ELSE f \in known[m] <=> f \in remoteQueries[m]
    PROVE  /\ OwnQueries(Taken(r, p))
           /\ \A f \in Filter, m \in Manager, value \in BOOLEAN :
                 Told(net, remoteQueries, f, m, value) => Told(Taken(r, p), known, f, m, value)
<1>1. \A q, m \in Manager : Taken(r, p)[q][m] = IF q = r /\ m = p THEN Tail(net[r][p]) ELSE net[q][m]
  BY TakenAt
<1>2. net[r][p] \in Seq(SvcMessage)
  BY DEF Nets
<1>3. /\ Len(net[r][p]) \in Nat \ {0} /\ Head(net[r][p]) = net[r][p][1]
      /\ Len(Tail(net[r][p])) = Len(net[r][p]) - 1
      /\ \A k \in 1 .. Len(Tail(net[r][p])) : Tail(net[r][p])[k] = net[r][p][k + 1]
  BY <1>2
<1>4. OwnQueries(Taken(r, p))
  <2>. SUFFICES ASSUME NEW q \in Manager, NEW m \in Manager,
                       NEW k \in 1 .. Len(Taken(r, p)[q][m]), IsQuery(Taken(r, p)[q][m][k])
                PROVE  asker[Taken(r, p)[q][m][k].filter] = q
    BY Zenon DEF OwnQueries
  <2>1. CASE q = r /\ m = p
    <3>1. Taken(r, p)[q][m] = Tail(net[r][p])
      BY <1>1, <2>1, Zenon
    <3>2. k + 1 \in 1 .. Len(net[r][p]) /\ Taken(r, p)[q][m][k] = net[r][p][k + 1]
      BY <1>3, <3>1
    <3>. QED
      BY <2>1, <3>2 DEF OwnQueries
  <2>2. CASE ~ (q = r /\ m = p)
    BY <1>1, <2>2 DEF OwnQueries
  <2>. QED
    BY <2>1, <2>2, Zenon
<1>5. ASSUME NEW f \in Filter, NEW m \in Manager, NEW value \in BOOLEAN,
             Told(net, remoteQueries, f, m, value)
      PROVE  Told(Taken(r, p), known, f, m, value)
  <2>1. asker[f] \in Manager
    BY ServiceAssumption, Zenon
  <2>2. CASE asker[f] = r /\ m = p
    <3>1. IF About(Head(net[r][p]), f) THEN f \in known[p] <=> Head(net[r][p]).type = "serviceDiscStart"
                                        ELSE f \in known[p] <=> f \in remoteQueries[p]
      BY <2>2 DEF Arriving
    <3>2. Expects(net[r][p], f, remoteQueries[p], value)
      BY <1>5, <2>2, Zenon DEF Told
    <3>3. Expects(Tail(net[r][p]), f, known[p], value)
      BY <1>2, <3>1, <3>2, ExpectsTail, Zenon
    <3>. QED
      BY <1>1, <2>1, <2>2, <3>3 DEF Told
  <2>3. CASE ~ (asker[f] = r /\ m = p)
    <3>1. Taken(r, p)[asker[f]][m] = net[asker[f]][m]
      BY <1>1, <2>1, <2>3
    <3>2. About(Arriving(r, p), f) => asker[f] = r
      BY <1>3 DEF OwnQueries, Arriving, About
    <3>3. f \in known[m] <=> f \in remoteQueries[m]
      BY <2>3, <3>2
    <3>. QED
      BY <1>5, <3>1, <3>3, Zenon DEF Told, Expects
  <2>. QED
    BY <2>2, <2>3
<1>. QED
  BY <1>4, <1>5

-----------------------------------------------------------------------------
(* What a step does to the queries that the managers expect.                  *)

\* A step after which everyone expects what they expected before.
Undisturbed ==
    /\ OwnQueries(net')
    /\ \A f \in Filter, m \in Manager, value \in BOOLEAN :
          Told(net, remoteQueries, f, m, value) => Told(net', remoteQueries', f, m, value)

LEMMA FittingMessages ==
    ASSUME SvcInv
    PROVE  Fitting \subseteq SvcMessage /\ net \in Nets(SvcMessage)
<1>1. Fitting \subseteq SvcMessage
  BY Zenon DEF Fitting
<1>. QED
  BY <1>1, NetsMonotone DEF SvcInv

(* addService and removeService.                                              *)
LEMMA ServiceUndisturbed ==
    ASSUME SvcInv, OwnQueries(net), NEW s \in Service, AddService(s) \/ RemoveService(s)
    PROVE  Undisturbed
<1>1. host[s] \in Manager
  BY ServiceAssumption
<1>2. PICK kind \in {"serviceDiscFound", "serviceDiscRemoved"} :
         net' = SendTo(net, host[s], heardBy[host[s]], Tell(kind, remoteQueries[host[s]], s))
  BY DEF AddService, RemoveService, Send
<1>3. remoteQueries' = remoteQueries
  BY DEF AddService, RemoveService
<1>. DEFINE msgs == Tell(kind, remoteQueries[host[s]], s)
<1>4. IsFiniteSet(msgs) /\ msgs \subseteq SvcMessage
  <2>1. remoteQueries[host[s]] \subseteq Filter
    BY <1>1 DEF SvcInv, SvcTypes
  <2>. QED
    BY <2>1, TellFits, FittingMessages
<1>5. \A msg \in msgs : ~ IsQuery(msg)
  <2>1. ASSUME NEW msg \in msgs
        PROVE  msg.type = kind
    <3>1. \E f \in remoteQueries[host[s]] : msg = [type |-> kind, filter |-> f, svc |-> s]
      BY Zenon DEF Tell
    <3>. QED
      BY <3>1
  <2>. QED
    BY <2>1 DEF IsQuery
<1>6. net' = SendTo(net, host[s], heardBy[host[s]], msgs)
  BY <1>2
<1>. HIDE DEF msgs
<1>. QED
  BY <1>1, <1>3, <1>4, <1>5, <1>6, FittingMessages, SendOthers DEF Undisturbed

(* The request of find is no query.                                           *)
LEMMA FindUndisturbed ==
    ASSUME SvcInv, OwnQueries(net), NEW m \in Manager, NEW f \in Filter, NEW q \in ReqId,
           SendFind(m, f, q)
    PROVE  Undisturbed
<1>. DEFINE msgs == {[type |-> "serviceDisc", filter |-> f, reqId |-> q]}
<1>1. net' = SendTo(net, m, heardBy[m], msgs) /\ remoteQueries' = remoteQueries
  BY DEF SendFind, Send
<1>2. IsFiniteSet(msgs) /\ msgs \subseteq SvcMessage
  <2>1. [type |-> "serviceDisc", filter |-> f, reqId |-> q] \in SvcMessage
    BY DEF SvcMessage
  <2>. QED
    BY <2>1, FS_Singleton, Zenon
<1>3. \A msg \in msgs : ~ IsQuery(msg)
  BY DEF IsQuery
<1>. HIDE DEF msgs
<1>. QED
  BY <1>1, <1>2, <1>3, FittingMessages, SendOthers, Zenon DEF Undisturbed

(* receive: the manager knows what it read, and its answers are no queries.   *)
LEMMA ReceiveUndisturbed ==
    ASSUME SvcInv, OwnQueries(net), NEW p \in Manager, NEW r \in Manager, SvcReceive(p, r)
    PROVE  Undisturbed
<1>. DEFINE msg == Arriving(r, p)
<1>1. /\ net[r][p] # <<>> /\ net \in Nets(SvcMessage)
      /\ msg \in SvcMessage /\ Taken(r, p) \in Nets(SvcMessage)
  BY FittingMessages, TakenType DEF SvcReceive
<1>2. \A f \in Filter, m \in Manager :
         IF m = p /\ About(msg, f)
         THEN f \in remoteQueries'[m] <=> msg.type = "serviceDiscStart"
         ELSE f \in remoteQueries'[m] <=> f \in remoteQueries[m]
  <2>1. remoteQueries \in [Manager -> SUBSET Filter]
    BY DEF SvcInv, SvcTypes
  <2>2. CASE ReceiveStart(p, r)
    <3>1. msg.type = "serviceDiscStart" /\ remoteQueries' = [remoteQueries EXCEPT ![p] = @ \cup {msg.filter}]
      BY <2>2 DEF ReceiveStart
    <3>. HIDE DEF msg
    <3>. QED
      BY <2>1, <3>1, Zenon DEF About, IsQuery
  <2>3. CASE ReceiveStop(p, r)
    <3>1. msg.type = "serviceDiscStop" /\ remoteQueries' = [remoteQueries EXCEPT ![p] = @ \ {msg.filter}]
      BY <2>3 DEF ReceiveStop
    <3>. HIDE DEF msg
    <3>. QED
      BY <2>1, <3>1 DEF About, IsQuery
  <2>4. CASE ReceiveFound(p, r) \/ ReceiveRemoved(p, r) \/ ReceiveDisc(p, r) \/ ReceiveResponse(p, r)
    <3>1. /\ msg.type \notin {"serviceDiscStart", "serviceDiscStop"}
          /\ remoteQueries' = remoteQueries
      BY <2>4, ZenonT(30) DEF ReceiveFound, ReceiveRemoved, ReceiveDisc, ReceiveResponse
    <3>. HIDE DEF msg
    <3>. QED
      BY <3>1 DEF About, IsQuery
  <2>. QED
    BY <2>2, <2>3, <2>4, Zenon DEF SvcReceive
<1>3. /\ OwnQueries(Taken(r, p))
      /\ \A f \in Filter, m \in Manager, value \in BOOLEAN :
            Told(net, remoteQueries, f, m, value) => Told(Taken(r, p), remoteQueries', f, m, value)
  BY <1>1, <1>2, TakenTold
<1>4. \/ net' = Taken(r, p)
      \/ \E msgs : /\ IsFiniteSet(msgs) /\ msgs \subseteq SvcMessage
                   /\ \A answer \in msgs : ~ IsQuery(answer)
                   /\ net' = SendTo(Taken(r, p), p, heardBy[p], msgs)
  <2>0. ASSUME NEW f \in Filter
        PROVE  Offered(p, f) \subseteq Service
    BY DEF Offered, SvcInv, SvcTypes
  <2>1. CASE ReceiveStart(p, r)
    <3>. DEFINE f == msg.filter
                A == {[type |-> "serviceDiscFound", filter |-> f, svc |-> s] : s \in Offered(p, f)}
    <3>1. net' = SendTo(Taken(r, p), p, heardBy[p], A)
      BY <2>1, Zenon DEF ReceiveStart, Send
    <3>2. f \in Filter
      BY <1>1, <2>1 DEF SvcMessage, ReceiveStart
    <3>3. IsFiniteSet(A) /\ A \subseteq Fitting
      <4>. HIDE DEF f
      <4>. QED
        BY <2>0, <3>2, AnswersFit
    <3>4. \A answer \in A : ~ IsQuery(answer)
      BY DEF IsQuery
    <3>. HIDE DEF A
    <3>. QED
      BY <3>1, <3>3, <3>4, FittingMessages, Zenon
  <2>2. CASE ReceiveDisc(p, r)
    <3>1. ASSUME NEW s \in Offered(p, msg.filter),
                 net' = Send(Taken(r, p), p, {[type |-> "response", reqId |-> msg.reqId, svc |-> s]})
          PROVE  \E msgs : /\ IsFiniteSet(msgs) /\ msgs \subseteq SvcMessage
                           /\ \A answer \in msgs : ~ IsQuery(answer)
                           /\ net' = SendTo(Taken(r, p), p, heardBy[p], msgs)
      <4>. DEFINE A == {[type |-> "response", reqId |-> msg.reqId, svc |-> s]}
      <4>1. msg.reqId \in ReqId /\ msg.filter \in Filter
        BY <1>1, <2>2 DEF SvcMessage, ReceiveDisc
      <4>2. s \in Service
        BY <2>0, <4>1
      <4>3. IsFiniteSet(A) /\ A \subseteq SvcMessage
        <5>1. [type |-> "response", reqId |-> msg.reqId, svc |-> s] \in SvcMessage
          BY <4>1, <4>2 DEF SvcMessage
        <5>. QED
          BY <5>1, FS_Singleton, Zenon
      <4>4. \A answer \in A : ~ IsQuery(answer)
        BY DEF IsQuery
      <4>5. net' = SendTo(Taken(r, p), p, heardBy[p], A)
        BY <3>1 DEF Send
      <4>. HIDE DEF A
      <4>. QED
        BY <4>3, <4>4, <4>5, Zenon
    <3>. QED
      BY <2>2, <3>1, Zenon DEF ReceiveDisc
  <2>3. CASE ReceiveStop(p, r) \/ ReceiveFound(p, r) \/ ReceiveRemoved(p, r) \/ ReceiveResponse(p, r)
    BY <2>3 DEF ReceiveStop, ReceiveFound, ReceiveRemoved, ReceiveResponse
  <2>. QED
    BY <2>1, <2>2, <2>3, Zenon DEF SvcReceive
<1>5. CASE net' = Taken(r, p)
  BY <1>3, <1>5 DEF Undisturbed
<1>6. ASSUME NEW msgs, IsFiniteSet(msgs), msgs \subseteq SvcMessage,
             \A answer \in msgs : ~ IsQuery(answer),
             net' = SendTo(Taken(r, p), p, heardBy[p], msgs)
      PROVE  Undisturbed
  <2>1. /\ OwnQueries(SendTo(Taken(r, p), p, heardBy[p], msgs))
        /\ \A known : \A f \in Filter, m \in Manager, value \in BOOLEAN :
              Told(Taken(r, p), known, f, m, value)
                  => Told(SendTo(Taken(r, p), p, heardBy[p], msgs), known, f, m, value)
    BY <1>1, <1>3, <1>6, SendOthers
  <2>. QED
    BY <1>3, <1>6, <2>1, ZenonT(30) DEF Undisturbed
<1>. QED
  BY <1>4, <1>5, <1>6

-----------------------------------------------------------------------------
(* The queries that run are known, and the others are forgotten.              *)

\* Who was greeted by the manager of a query expects it to run.
RunningTold ==
    \A f \in Filter, m \in Manager :
        m \in greeted[asker[f]] /\ f \in localQueries[asker[f]] => Told(net, remoteQueries, f, m, TRUE)

\* A query that does not run, or at a manager one does not hear, is expected not to.
StoppedTold ==
    \A f \in Filter, m \in Manager :
        f \notin localQueries[asker[f]] \/ m \notin heardBy[asker[f]]
            => Told(net, remoteQueries, f, m, FALSE)

(* Nobody has been told of anything (ServiceManager).                         *)
LEMMA QueriesInit ==
    ASSUME SvcInit
    PROVE  OwnQueries(net) /\ RunningTold /\ StoppedTold
<1>1. \A m, r \in Manager : net[m][r] = <<>>
  BY DEF SvcInit
<1>2. \A f \in Filter : asker[f] \in Manager
  BY ServiceAssumption
<1>3. OwnQueries(net)
  BY <1>1 DEF OwnQueries
<1>4. RunningTold
  BY <1>2 DEF SvcInit, RunningTold
<1>5. ASSUME NEW f \in Filter, NEW m \in Manager
      PROVE  Told(net, remoteQueries, f, m, FALSE)
  BY <1>1, <1>2 DEF SvcInit, Told, Expects
<1>. QED
  BY <1>3, <1>4, <1>5, Zenon DEF StoppedTold

(* A query starts or stops: everyone who hears its manager is told.           *)
LEMMA QueryTold ==
    ASSUME SvcInv, OwnQueries(net), RunningTold, NEW f \in Filter, StartQuery(f) \/ StopQuery(f)
    PROVE  OwnQueries(net') /\ RunningTold' /\ (StoppedTold => StoppedTold')
<1>. DEFINE p == asker[f]
<1>1. p \in Manager /\ \A g \in Filter : asker[g] \in Manager
  BY ServiceAssumption
<1>2. PICK value \in BOOLEAN :
         /\ net' = SendTo(net, p, heardBy[p], {IF value THEN Start(f) ELSE Stop(f)})
         /\ localQueries' = [localQueries EXCEPT ![p] = IF value THEN @ \cup {f} ELSE @ \ {f}]
  <2>1. CASE StartQuery(f)
    <3>1. /\ net' = SendTo(net, p, heardBy[p], {IF TRUE THEN Start(f) ELSE Stop(f)})
          /\ localQueries' = [localQueries EXCEPT ![p] = IF TRUE THEN @ \cup {f} ELSE @ \ {f}]
      BY <2>1 DEF StartQuery, Send
    <3>. QED
      BY <3>1, Zenon
  <2>2. CASE StopQuery(f)
    <3>1. /\ net' = SendTo(net, p, heardBy[p], {IF FALSE THEN Start(f) ELSE Stop(f)})
          /\ localQueries' = [localQueries EXCEPT ![p] = IF FALSE THEN @ \cup {f} ELSE @ \ {f}]
      BY <2>2 DEF StopQuery, Send
    <3>. QED
      BY <3>1, Zenon
  <2>. QED
    BY <2>1, <2>2, Zenon
<1>3. UNCHANGED <<remoteQueries, heardBy, greeted>>
  BY DEF StartQuery, StopQuery
<1>4. \A m \in Manager : greeted[m] \subseteq heardBy[m]
  BY DEF SvcInv, SvcTypes
<1>. DEFINE msgs == {IF value THEN Start(f) ELSE Stop(f)}
            F == {f}
<1>5. /\ IsFiniteSet(msgs) /\ msgs \subseteq SvcMessage
      /\ \A msg \in msgs : /\ IsQuery(msg) /\ msg.filter \in F
                           /\ msg.type = "serviceDiscStart" <=> value
      /\ \A g \in F : \E msg \in msgs : About(msg, g)
  <2>1. IsFiniteSet(msgs)
    BY FS_Singleton, Zenon
  <2>2. /\ Start(f) \in SvcMessage /\ Stop(f) \in SvcMessage
        /\ Start(f).type = "serviceDiscStart" /\ Stop(f).type = "serviceDiscStop"
        /\ Start(f).filter = f /\ Stop(f).filter = f
    BY Zenon DEF Start, Stop, SvcMessage
  <2>. QED
    BY <2>1, <2>2 DEF About, IsQuery
<1>6. net' = SendTo(net, p, heardBy[p], msgs)
  BY <1>2
<1>7. /\ OwnQueries(SendTo(net, p, heardBy[p], msgs))
      /\ \A known : \A g \in F, m \in Manager :
            m \in heardBy[p] => Told(SendTo(net, p, heardBy[p], msgs), known, g, m, value)
      /\ \A known : \A g \in Filter, m \in Manager, v \in BOOLEAN :
            (g \notin F \/ m \notin heardBy[p]) /\ Told(net, known, g, m, v)
                => Told(SendTo(net, p, heardBy[p], msgs), known, g, m, v)
  <2>1. F \in SUBSET Filter /\ \A g \in F : asker[g] = p
    OBVIOUS
  <2>2. net \in Nets(SvcMessage)
    BY FittingMessages
  <2>. HIDE DEF p, msgs, F
  <2>. QED
    BY <1>1, <1>5, <2>1, <2>2, SendQueries, ZenonT(60)
<1>. HIDE DEF msgs
<1>8. /\ \A m \in Manager : m \in heardBy[p] => Told(net', remoteQueries', f, m, value)
      /\ \A g \in Filter, m \in Manager, v \in BOOLEAN :
            (g # f \/ m \notin heardBy[p]) /\ Told(net, remoteQueries, g, m, v)
                => Told(net', remoteQueries', g, m, v)
  BY <1>3, <1>6, <1>7, Zenon
<1>9. \A g \in Filter : /\ g # f => (g \in localQueries'[asker[g]] <=> g \in localQueries[asker[g]])
                        /\ g = f => (g \in localQueries'[asker[g]] <=> value)
  BY <1>1, <1>2, Zenon DEF SvcInv, SvcTypes
<1>10. ASSUME NEW g \in Filter, NEW m \in Manager,
              m \in greeted'[asker[g]], g \in localQueries'[asker[g]]
       PROVE  Told(net', remoteQueries', g, m, TRUE)
  <2>1. m \in heardBy[asker[g]]
    BY <1>1, <1>3, <1>4, <1>10
  <2>2. CASE g = f
    <3>1. value = TRUE
      BY <1>9, <1>10, <2>2
    <3>. QED
      BY <1>8, <2>1, <2>2, <3>1, Zenon
  <2>3. CASE g # f
    <3>1. Told(net, remoteQueries, g, m, TRUE)
      BY <1>3, <1>9, <1>10, <2>3, Zenon DEF RunningTold
    <3>. QED
      BY <1>8, <2>3, <3>1, Zenon
  <2>. QED
    BY <2>2, <2>3, Zenon
<1>11. ASSUME StoppedTold, NEW g \in Filter, NEW m \in Manager,
              g \notin localQueries'[asker[g]] \/ m \notin heardBy'[asker[g]]
       PROVE  Told(net', remoteQueries', g, m, FALSE)
  <2>1. CASE g = f /\ m \in heardBy[p]
    <3>1. value = FALSE
      BY <1>3, <1>9, <1>11, <2>1
    <3>. QED
      BY <1>8, <2>1, <3>1, Zenon
  <2>2. CASE g # f \/ m \notin heardBy[p]
    <3>1. Told(net, remoteQueries, g, m, FALSE)
      BY <1>3, <1>9, <1>11, <2>2, Zenon DEF StoppedTold
    <3>. QED
      BY <1>8, <2>2, <3>1, Zenon
  <2>. QED
    BY <2>1, <2>2, Zenon
<1>12. OwnQueries(net')
  BY <1>6, <1>7
<1>13. RunningTold'
  BY <1>10, Zenon DEF RunningTold
<1>14. StoppedTold => StoppedTold'
  BY <1>11, Zenon DEF StoppedTold
<1>. QED
  BY <1>12, <1>13, <1>14

(* welcome tells the one that comes of all queries that run.                  *)
LEMMA WelcomeTold ==
    ASSUME SvcInv, OwnQueries(net), RunningTold,
           NEW p \in Manager, NEW r \in Manager, Welcome(p, r)
    PROVE  OwnQueries(net') /\ RunningTold' /\ (StoppedTold => StoppedTold')
<1>. DEFINE F == localQueries[p]
            msgs == {Start(f) : f \in F}
<1>1. /\ net' = SendTo(net, p, {r}, msgs) /\ r \in heardBy[p]
      /\ greeted' = [greeted EXCEPT ![p] = @ \cup {r}]
      /\ UNCHANGED <<localQueries, remoteQueries, heardBy>>
  BY DEF Welcome
<1>2. F \in SUBSET Filter /\ \A f \in F : asker[f] = p
  BY Zenon DEF SvcInv, SvcTypes
<1>3. /\ IsFiniteSet(msgs) /\ msgs \subseteq SvcMessage
      /\ \A msg \in msgs : /\ IsQuery(msg) /\ msg.filter \in F
                           /\ msg.type = "serviceDiscStart" <=> TRUE
      /\ \A f \in F : \E msg \in msgs : About(msg, f)
  <2>1. IsFiniteSet(msgs) /\ msgs \subseteq SvcMessage
    BY <1>2, QueriesFit, FittingMessages
  <2>2. \A f \in F : Start(f).type = "serviceDiscStart" /\ Start(f).filter = f
    BY DEF Start
  <2>3. \A msg \in msgs : IsQuery(msg) /\ msg.filter \in F /\ msg.type = "serviceDiscStart"
    BY <2>2 DEF IsQuery
  <2>4. ASSUME NEW f \in F
        PROVE  \E msg \in msgs : About(msg, f)
    <3>1. Start(f) \in msgs /\ About(Start(f), f)
      BY <2>2 DEF About, IsQuery
    <3>. QED
      BY <3>1
  <2>. QED
    BY <2>1, <2>3, <2>4
<1>4. /\ OwnQueries(SendTo(net, p, {r}, msgs))
      /\ \A known : \A g \in F, m \in Manager :
            m \in {r} => Told(SendTo(net, p, {r}, msgs), known, g, m, TRUE)
      /\ \A known : \A g \in Filter, m \in Manager, v \in BOOLEAN :
            (g \notin F \/ m \notin {r}) /\ Told(net, known, g, m, v)
                => Told(SendTo(net, p, {r}, msgs), known, g, m, v)
  <2>1. net \in Nets(SvcMessage)
    BY FittingMessages
  <2>2. TRUE \in BOOLEAN
    OBVIOUS
  <2>. HIDE DEF F, msgs
  <2>. QED
    BY <1>2, <1>3, <2>1, <2>2, SendQueries, Zenon
<1>. HIDE DEF msgs
<1>5. /\ \A g \in F : Told(net', remoteQueries', g, r, TRUE)
      /\ \A g \in Filter, m \in Manager, v \in BOOLEAN :
            (g \notin F \/ m # r) /\ Told(net, remoteQueries, g, m, v)
                => Told(net', remoteQueries', g, m, v)
  BY <1>1, <1>4, Zenon
<1>6. ASSUME NEW g \in Filter, NEW m \in Manager,
             m \in greeted'[asker[g]], g \in localQueries'[asker[g]]
      PROVE  Told(net', remoteQueries', g, m, TRUE)
  <2>1. CASE asker[g] = p /\ m = r
    BY <1>1, <1>5, <1>6, <2>1, Zenon
  <2>2. CASE ~ (asker[g] = p /\ m = r)
    <3>1. asker[g] \in Manager /\ greeted \in [Manager -> SUBSET Manager]
      BY ServiceAssumption DEF SvcInv, SvcTypes
    <3>2. m \in greeted[asker[g]] /\ g \in localQueries[asker[g]]
      BY <1>1, <1>6, <2>2, <3>1
    <3>3. Told(net, remoteQueries, g, m, TRUE)
      BY <3>2, Zenon DEF RunningTold
    <3>. QED
      BY <1>2, <1>5, <2>2, <3>3, Zenon
  <2>. QED
    BY <2>1, <2>2, Zenon
<1>7. ASSUME StoppedTold, NEW g \in Filter, NEW m \in Manager,
             g \notin localQueries'[asker[g]] \/ m \notin heardBy'[asker[g]]
      PROVE  Told(net', remoteQueries', g, m, FALSE)
  <2>1. Told(net, remoteQueries, g, m, FALSE)
    BY <1>1, <1>7, Zenon DEF StoppedTold
  <2>2. g \notin F \/ m # r
    BY <1>1, <1>2, <1>7, Zenon
  <2>. QED
    BY <1>5, <2>1, <2>2, Zenon
<1>8. OwnQueries(net')
  BY <1>1, <1>4
<1>9. RunningTold'
  BY <1>6, Zenon DEF RunningTold
<1>10. StoppedTold => StoppedTold'
  BY <1>7, Zenon DEF StoppedTold
<1>. QED
  BY <1>8, <1>9, <1>10, Zenon

(* A connection is lost, with the messages underway on it.  What was known of *)
(* the queries at the other end stays known.                                  *)
LEMMA LoseTold ==
    ASSUME SvcInv, OwnQueries(net), RunningTold,
           NEW p \in Manager, NEW r \in Manager, Lose(p, r)
    PROVE  OwnQueries(net') /\ RunningTold'
<1>1. /\ net' = [net EXCEPT ![p] = [net[p] EXCEPT ![r] = <<>>]]
      /\ greeted' = [greeted EXCEPT ![p] = @ \ {r}]
      /\ UNCHANGED <<localQueries, remoteQueries>>
  BY DEF Lose
<1>2. \A q, m \in Manager : net'[q][m] = IF q = p /\ m = r THEN <<>> ELSE net[q][m]
  BY <1>1 DEF SvcInv, Nets
<1>3. OwnQueries(net')
  <2>1. ASSUME NEW q \in Manager, NEW m \in Manager, NEW k \in 1 .. Len(net'[q][m]), IsQuery(net'[q][m][k])
        PROVE  asker[net'[q][m][k].filter] = q
    <3>1. CASE q = p /\ m = r
      <4>1. net'[q][m] = <<>>
        BY <1>2, <3>1
      <4>. QED
        BY <4>1
    <3>2. CASE ~ (q = p /\ m = r)
      <4>1. net'[q][m] = net[q][m]
        BY <1>2, <3>2
      <4>. QED
        BY <2>1, <4>1 DEF OwnQueries
    <3>. QED
      BY <3>1, <3>2
  <2>. QED
    BY <2>1 DEF OwnQueries
<1>4. ASSUME NEW g \in Filter, NEW m \in Manager,
             m \in greeted'[asker[g]], g \in localQueries'[asker[g]]
      PROVE  Told(net', remoteQueries', g, m, TRUE)
  <2>1. asker[g] \in Manager /\ greeted \in [Manager -> SUBSET Manager]
    BY ServiceAssumption DEF SvcInv, SvcTypes
  <2>2. m \in greeted[asker[g]] /\ ~ (asker[g] = p /\ m = r)
    BY <1>1, <1>4, <2>1
  <2>3. Told(net, remoteQueries, g, m, TRUE)
    BY <1>1, <1>4, <2>2, Zenon DEF RunningTold
  <2>4. net'[asker[g]][m] = net[asker[g]][m]
    BY <1>2, <2>1, <2>2, Zenon
  <2>. QED
    BY <1>1, <2>3, <2>4, Zenon DEF Told
<1>. QED
  BY <1>3, <1>4, Zenon DEF RunningTold

(* The steps that disturb nobody.                                             *)
LEMMA UndisturbedTold ==
    ASSUME SvcInv, RunningTold, Undisturbed, UNCHANGED <<localQueries, greeted>>,
           \A m \in Manager : heardBy[m] \subseteq heardBy'[m]
    PROVE  OwnQueries(net') /\ RunningTold' /\ (StoppedTold => StoppedTold')
<1>1. OwnQueries(net')
  BY DEF Undisturbed
<1>2. ASSUME NEW g \in Filter, NEW m \in Manager,
             m \in greeted'[asker[g]], g \in localQueries'[asker[g]]
      PROVE  Told(net', remoteQueries', g, m, TRUE)
  <2>1. Told(net, remoteQueries, g, m, TRUE)
    BY <1>2, Zenon DEF RunningTold
  <2>. QED
    BY <2>1, Zenon DEF Undisturbed
<1>3. ASSUME StoppedTold, NEW g \in Filter, NEW m \in Manager,
             g \notin localQueries'[asker[g]] \/ m \notin heardBy'[asker[g]]
      PROVE  Told(net', remoteQueries', g, m, FALSE)
  <2>1. Told(net, remoteQueries, g, m, FALSE)
    BY <1>3, ServiceAssumption, Zenon DEF StoppedTold
  <2>. QED
    BY <2>1, Zenon DEF Undisturbed
<1>4. RunningTold'
  BY <1>2, Zenon DEF RunningTold
<1>5. StoppedTold => StoppedTold'
  BY <1>3, Zenon DEF StoppedTold
<1>. QED
  BY <1>1, <1>4, <1>5

-----------------------------------------------------------------------------
(* All steps.                                                                 *)

QueriesInv == SvcInv /\ OwnQueries(net) /\ RunningTold

\* A step in which no connection is lost.
SvcNextStaying == SvcNext /\ ~ \E m, r \in Manager : Lose(m, r)

LEMMA QueriesInvNext ==
    ASSUME QueriesInv, [SvcNext]_svcVars
    PROVE  /\ QueriesInv'
           /\ StoppedTold /\ ~ (\E m, r \in Manager : Lose(m, r)) => StoppedTold'
<1>. USE DEF QueriesInv
<1>. DEFINE Goal == /\ OwnQueries(net') /\ RunningTold'
                    /\ StoppedTold /\ ~ (\E m, r \in Manager : Lose(m, r)) => StoppedTold'
<1>1. SvcInv'
  BY SvcInvNext
<1>2. CASE UNCHANGED svcVars
  <2>1. UNCHANGED <<localQueries, remoteQueries, greeted, heardBy, net>>
    BY <1>2 DEF svcVars
  <2>2. Undisturbed
    BY <2>1, Zenon DEF Undisturbed
  <2>. QED
    BY <1>1, <2>1, <2>2, UndisturbedTold
<1>3. ASSUME NEW s \in Service, AddService(s) \/ RemoveService(s)
      PROVE  Goal
  <2>1. UNCHANGED <<localQueries, greeted, heardBy>>
    BY <1>3 DEF AddService, RemoveService
  <2>. QED
    BY <1>3, <2>1, ServiceUndisturbed, UndisturbedTold, Zenon
<1>4. ASSUME NEW f \in Filter, StartQuery(f) \/ StopQuery(f)
      PROVE  Goal
  BY <1>4, QueryTold
<1>5. ASSUME NEW m \in Manager, NEW f \in Filter, NEW q \in ReqId, SendFind(m, f, q)
      PROVE  Goal
  <2>1. UNCHANGED <<localQueries, greeted, heardBy>>
    BY <1>5 DEF SendFind
  <2>. QED
    BY <1>5, <2>1, FindUndisturbed, UndisturbedTold, Zenon
<1>6. ASSUME NEW q \in ReqId,
             FindReturns(q) \/ \E m \in Manager, f \in Filter : FindService(m, f, q)
      PROVE  Goal
  <2>1. UNCHANGED <<localQueries, remoteQueries, greeted, heardBy, net>>
    BY <1>6 DEF FindReturns, FindService
  <2>2. Undisturbed
    BY <2>1 DEF Undisturbed
  <2>. QED
    BY <2>1, <2>2, UndisturbedTold
<1>7. ASSUME NEW m \in Manager, NEW r \in Manager, SvcReceive(m, r)
      PROVE  Goal
  <2>1. UNCHANGED <<localQueries, greeted, heardBy>>
    BY <1>7 DEF SvcReceive, ReceiveStart, ReceiveStop, ReceiveFound, ReceiveRemoved,
                ReceiveDisc, ReceiveResponse
  <2>. QED
    BY <1>7, <2>1, ReceiveUndisturbed, UndisturbedTold
<1>8. ASSUME NEW m \in Manager, NEW r \in Manager, Hear(m, r)
      PROVE  Goal
  <2>1. /\ UNCHANGED <<localQueries, remoteQueries, greeted, net>>
        /\ heardBy' = [heardBy EXCEPT ![m] = @ \cup {r}]
    BY <1>8 DEF Hear
  <2>2. Undisturbed
    BY <2>1 DEF Undisturbed
  <2>3. \A p \in Manager : heardBy[p] \subseteq heardBy'[p]
    BY <2>1 DEF SvcInv, SvcTypes
  <2>. QED
    BY <2>1, <2>2, <2>3, UndisturbedTold
<1>9. ASSUME NEW m \in Manager, NEW r \in Manager, Welcome(m, r)
      PROVE  Goal
  BY <1>9, WelcomeTold
<1>10. ASSUME NEW m \in Manager, NEW r \in Manager, Lose(m, r)
       PROVE  Goal
  BY <1>10, LoseTold
<1>11. CASE SvcNext
  <2>. HIDE DEF Goal, QueriesInv
  <2>1. Goal
    BY <1>3, <1>4, <1>5, <1>6, <1>7, <1>8, <1>9, <1>10, <1>11 DEF SvcNext
  <2>. QED
    BY <1>1, <2>1 DEF Goal, QueriesInv
<1>. QED
  BY <1>2, <1>11

LEMMA QueriesInvAlways == SvcSpec => []QueriesInv
<1>1. SvcInit /\ heardBy \in [Manager -> SUBSET Manager] /\ greeted = heardBy => QueriesInv
  BY SvcInitInv, QueriesInit DEF QueriesInv
<1>2. QueriesInv /\ [SvcNext]_svcVars => QueriesInv'
  BY QueriesInvNext
<1>. QED
  BY <1>1, <1>2, PTL DEF SvcSpec

(* In whatever order managers meet, lose and meet each other again and        *)
(* queries start and stop, once nothing is underway a manager knows every     *)
(* query that runs at a manager it hears: startQuery tells the ones that are  *)
(* there, welcome the ones that come (receive, welcome).                      *)
THEOREM QueriesReachEveryone == SvcSpec => []QuietQueriesKnown
<1>1. QueriesInv => QuietQueriesKnown
  <2>. SUFFICES ASSUME QueriesInv, SvcQuiet, NEW m \in Manager, NEW f \in QueriesHeard(m)
                PROVE  f \in remoteQueries[m]
    BY DEF QuietQueriesKnown
  <2>1. PICK r \in Manager : m \in heardBy[r] /\ f \in localQueries[r]
    BY DEF QueriesHeard
  <2>2. f \in Filter /\ asker[f] = r
    BY <2>1 DEF QueriesInv, SvcInv, SvcTypes
  <2>3. greeted = heardBy /\ net[r][m] = <<>>
    BY DEF SvcQuiet
  <2>4. Told(net, remoteQueries, f, m, TRUE)
    BY <2>1, <2>2, <2>3, Zenon DEF QueriesInv, RunningTold
  <2>5. Expects(<<>>, f, remoteQueries[m], TRUE)
    BY <2>2, <2>3, <2>4, Zenon DEF Told
  <2>. QED
    BY <2>5 DEF Expects
<1>. QED
  BY <1>1, QueriesInvAlways, PTL

\* The specification in which no connection is lost.
SvcStayingSpec ==
    /\ SvcInit
    /\ heardBy \in [Manager -> SUBSET Manager] /\ greeted = heardBy
    /\ [][SvcNextStaying]_svcVars

(* While no connection is lost a manager knows no other query once nothing is *)
(* underway: a query that stopped is forgotten by everyone, also by the ones  *)
(* that came while it ran (stopQuery, receive).                               *)
THEOREM StoppedQueriesForgotten == SvcStayingSpec => []QuietQueriesForgotten
<1>1. SvcInit /\ heardBy \in [Manager -> SUBSET Manager] /\ greeted = heardBy
          => QueriesInv /\ StoppedTold
  BY SvcInitInv, QueriesInit DEF QueriesInv
<1>2. QueriesInv /\ StoppedTold /\ [SvcNextStaying]_svcVars => QueriesInv' /\ StoppedTold'
  <2>1. ASSUME QueriesInv, StoppedTold, SvcNextStaying
        PROVE  QueriesInv' /\ StoppedTold'
    BY <2>1, QueriesInvNext DEF SvcNextStaying
  <2>2. ASSUME QueriesInv, StoppedTold, UNCHANGED svcVars
        PROVE  QueriesInv' /\ StoppedTold'
    <3>1. QueriesInv'
      BY <2>2, QueriesInvNext
    <3>2. UNCHANGED <<localQueries, remoteQueries, greeted, heardBy, net>>
      BY <2>2 DEF svcVars
    <3>3. Undisturbed
      BY <2>2, <3>2 DEF Undisturbed, QueriesInv
    <3>. QED
      BY <2>2, <3>1, <3>2, <3>3, UndisturbedTold DEF QueriesInv
  <2>. QED
    BY <2>1, <2>2
<1>3. QueriesInv /\ StoppedTold => QuietQueriesForgotten
  <2>. SUFFICES ASSUME QueriesInv, StoppedTold, SvcQuiet, NEW m \in Manager, NEW f \in remoteQueries[m]
                PROVE  f \in QueriesHeard(m)
    BY DEF QuietQueriesForgotten
  <2>1. f \in Filter /\ asker[f] \in Manager
    BY ServiceAssumption DEF QueriesInv, SvcInv, SvcTypes
  <2>2. net[asker[f]][m] = <<>>
    BY <2>1 DEF SvcQuiet
  <2>3. ~ Expects(<<>>, f, remoteQueries[m], FALSE)
    BY DEF Expects
  <2>4. ~ Told(net, remoteQueries, f, m, FALSE)
    BY <2>2, <2>3, Zenon DEF Told
  <2>5. f \in localQueries[asker[f]] /\ m \in heardBy[asker[f]]
    BY <2>1, <2>4, Zenon DEF StoppedTold
  <2>. QED
    BY <2>1, <2>5 DEF QueriesHeard
<1>. QED
  BY <1>1, <1>2, <1>3, PTL DEF SvcStayingSpec

=============================================================================
