------------------------- MODULE ZeroMQNode_proofs -------------------------
(***************************************************************************)
(* Type correctness and the safety invariants of the node control          *)
(* protocol, for any finite sets of nodes, publishers and subscribers and  *)
(* behaviours of any length.                                               *)
(*                                                                         *)
(* First the lemmas about maps, messages and the helpers of the handlers,  *)
(* and the type invariant.  ValidateState, PendingOnlyForUndiscovered and  *)
(* MatchedSubscribersConnected are not inductive: each needs to know which *)
(* nodes the keys of the other maps belong to.  IndInv adds that; one      *)
(* lemma per handler shows that it preserves IndInv.                       *)
(*                                                                         *)
(* Then the theorems about settling networks, from the lemmas of           *)
(* ZeroMQSettling_proofs: nodes that neither lost nor suspended each other *)
(* agree on publishers and subscriptions when nothing is underway.         *)
(***************************************************************************)
EXTENDS ZeroMQSettling_proofs, MCZeroMQNode, FiniteSetTheorems

-----------------------------------------------------------------------------
(* Messages and envelopes.                                                    *)

(* The values of a function on a finite set are a finite set.                 *)
LEMMA ImageFinite ==
    ASSUME NEW S, IsFiniteSet(S), NEW f, DOMAIN f = S
    PROVE  IsFiniteSet({f[x] : x \in S})
<1>1. [x \in S |-> f[x]] \in Surjection(S, {f[x] : x \in S})
  BY DEF Surjection
<1> QED
  BY <1>1, FS_Surjection DEF ExistsSurjection

(* There are finitely many messages, so the sets of messages a node sends at  *)
(* once are finite.                                                           *)
LEMMA MessageFinite == IsFiniteSet(Message)
<1> DEFINE Ann == {"PUB_ADDED", "PUB_REMOVED"}
           Snt == {"SUBSCRIBE", "UNSUBSCRIBE"}
           a == [t \in Ann \X Pub |-> [type |-> t[1], pub |-> t[2], sub |-> None]]
           b == [t \in Snt \X (Pub \X Sub) |->
                     [type |-> t[1], pub |-> t[2][1], sub |-> t[2][2]]]
           A == {a[t] : t \in Ann \X Pub}
           B == {b[t] : t \in Snt \X (Pub \X Sub)}
<1>2. IsFiniteSet(Ann) /\ IsFiniteSet(Snt)
  <2>1. IsFiniteSet({"PUB_ADDED"} \cup {"PUB_REMOVED"})
    BY FS_Singleton, FS_AddElement, Zenon
  <2>2. IsFiniteSet({"SUBSCRIBE"} \cup {"UNSUBSCRIBE"})
    BY FS_Singleton, FS_AddElement, Zenon
  <2>3. Ann = {"PUB_ADDED"} \cup {"PUB_REMOVED"} /\ Snt = {"SUBSCRIBE"} \cup {"UNSUBSCRIBE"}
    OBVIOUS
  <2> QED
    BY <2>1, <2>2, <2>3
<1> HIDE DEF Ann, Snt
<1>3. IsFiniteSet(Pub \X Sub)
  BY FS_Product, PubAssumption, SubAssumption
<1>4. IsFiniteSet(Ann \X Pub) /\ IsFiniteSet(Snt \X (Pub \X Sub))
  BY <1>2, <1>3, FS_Product, PubAssumption
<1>5. IsFiniteSet(A) /\ IsFiniteSet(B)
  <2>1. DOMAIN a = Ann \X Pub /\ DOMAIN b = Snt \X (Pub \X Sub)
    OBVIOUS
  <2> HIDE DEF a, b
  <2> QED
    BY <1>4, <2>1, ImageFinite
<1>6. Message \subseteq A \cup B
  <2>1. ASSUME NEW t \in Ann, NEW p \in Pub
        PROVE  [type |-> t, pub |-> p, sub |-> None] \in A
    <3>1. <<t, p>> \in Ann \X Pub /\ a[<<t, p>>] = [type |-> t, pub |-> p, sub |-> None]
      OBVIOUS
    <3> QED
      BY <3>1
  <2>2. ASSUME NEW t \in Snt, NEW p \in Pub, NEW s \in Sub
        PROVE  [type |-> t, pub |-> p, sub |-> s] \in B
    <3>1. /\ <<t, <<p, s>>>> \in Snt \X (Pub \X Sub)
          /\ b[<<t, <<p, s>>>>] = [type |-> t, pub |-> p, sub |-> s]
      OBVIOUS
    <3> QED
      BY <3>1
  <2>3. ASSUME NEW m \in Message
        PROVE  m \in A \cup B
    <3>1. CASE m \in [type : Ann, pub : Pub, sub : {None}]
      <4>1. m = [type |-> m.type, pub |-> m.pub, sub |-> None] /\ m.type \in Ann /\ m.pub \in Pub
        BY <3>1
      <4> HIDE DEF A
      <4> QED
        BY <4>1, <2>1
    <3>2. CASE m \in [type : Snt, pub : Pub, sub : Sub]
      <4>1. /\ m = [type |-> m.type, pub |-> m.pub, sub |-> m.sub]
            /\ m.type \in Snt /\ m.pub \in Pub /\ m.sub \in Sub
        BY <3>2
      <4> HIDE DEF B
      <4> QED
        BY <4>1, <2>2
    <3> QED
      BY <3>1, <3>2, Zenon DEF Message, Ann, Snt
  <2> QED
    BY <2>3
<1> HIDE DEF A, B
<1>7. IsFiniteSet(A \cup B)
  BY <1>5, FS_Union, Zenon
<1> QED
  BY <1>6, <1>7, FS_Subset

(* Every member of a finite set occurs in the sequence of its members.        *)
LEMMA SomeOrderAll ==
    ASSUME NEW S, IsFiniteSet(S)
    PROVE  ListsAll(S)
<1> DEFINE c == Cardinality(S)
           f == InSomeOrder(S)
<1>1. c \in Nat
  BY FS_CardinalityType
<1>2. f \in [1 .. c -> S] /\ IsInjective(f)
  <2>1. \E g \in [1 .. c -> S] : IsInjective(g)
    BY FS_CardinalityType DEF ExistsBijection, Bijection, Injection, IsInjective
  <2> QED
    BY <2>1, Zenon DEF InSomeOrder
<1> HIDE DEF f
<1>3. f \in Injection(1 .. c, S)
  BY <1>2 DEF Injection
<1>4. Cardinality(1 .. c) = Cardinality(S)
  BY <1>1, FS_Interval
<1>5. f \in Surjection(1 .. c, S)
  BY <1>3, <1>4, FS_Injection
<1>6. Len(f) = c
  BY <1>1, <1>2
<1>7. f \in Seq(S)
  BY <1>1, <1>2
<1>8. \A x \in S : \E i \in 1 .. Len(f) : f[i] = x
  BY <1>5, <1>6 DEF Surjection
<1> QED
  BY <1>7, <1>8 DEF ListsAll, f

(* Any messages can be listed, and one envelope for each of them.             *)
LEMMA MessagesListed == ListsMessages
<1> SUFFICES ASSUME NEW msgs, msgs \subseteq Message
             PROVE  ListsAll(msgs) /\ ListsAll({<<m>> : m \in msgs})
  BY DEF ListsMessages
<1>1. IsFiniteSet(msgs)
  BY MessageFinite, FS_Subset
<1> DEFINE one == [m \in msgs |-> <<m>>]
<1>2. {<<m>> : m \in msgs} = {one[m] : m \in msgs} /\ DOMAIN one = msgs
  OBVIOUS
<1>3. IsFiniteSet({one[m] : m \in msgs})
  <2> HIDE DEF one
  <2> QED
    BY <1>1, <1>2, ImageFinite
<1> QED
  BY <1>1, <1>2, <1>3, SomeOrderAll, Zenon

(* One envelope per message of a set of messages.                             *)
LEMMA EnvelopesType ==
    ASSUME NEW msgs, msgs \subseteq Message
    PROVE  Envelopes(msgs) \in Seq(Envelope)
BY EnvelopesOf, MessagesListed, Zenon

(* The list of a node's publishers is a sequence of envelopes.                *)
LEMMA PubListType ==
    ASSUME NEW n, localPubs[n] \subseteq Pub
    PROVE  PubList(n) \in Seq(Envelope)
<1> DEFINE msgs == {PubAdded(p) : p \in localPubs[n]}
<1>1. msgs \subseteq Message
  BY DEF PubAdded, Message
<1>2. InSomeOrder(msgs) \in Seq(Message)
  <2> HIDE DEF msgs
  <2>1. InSomeOrder(msgs) \in Seq(msgs)
    BY <1>1, MessagesListed, Zenon DEF ListsMessages, ListsAll
  <2> QED
    BY <1>1, <2>1, SeqMonotone, Zenon
<1> QED
  BY <1>2 DEF PubList, Envelope

(* Sending envelopes appends to the wires of the sender.                      *)
LEMMA SendType ==
    ASSUME wire \in [Node -> [Node -> Seq(Envelope)]], NEW n \in Node,
           NEW out \in [Node -> Seq(Envelope)], Send(n, out)
    PROVE  wire' \in [Node -> [Node -> Seq(Envelope)]]
<1>1. [r \in Node |-> wire[n][r] \o out[r]] \in [Node -> Seq(Envelope)]
  OBVIOUS
<1> QED
  BY <1>1 DEF Send

-----------------------------------------------------------------------------
(* The type invariant.                                                        *)

(* addRemotePubToLocalSubs keeps the types of what it changes.                *)
LEMMA AddRemotePubType ==
    ASSUME TypeOK, NEW n \in Node, NEW r \in Node, NEW pubs, pubs \subseteq Pub,
           NEW sent \in Seq(Envelope), AddRemotePubToLocalSubs(n, r, pubs, sent)
    PROVE  /\ remotePubs' \in [Node -> Maps(Node, SUBSET Pub)]
           /\ pendingRemotePubs' \in [Node -> Maps(Node, SUBSET Pub)]
           /\ connections' \in [Sub -> SUBSET Pub]
           /\ wire' \in [Node -> [Node -> Seq(Envelope)]]
<1> DEFINE old  == pendingRemotePubs[n]
           pend == IF pubs = {} THEN old ELSE Put(old, r, Get(old, r) \cup pubs)
           news == Get(pend, r)
           out  == Envelopes(SubscribeAll(news, localSubs[n]))
           M == Maps(Node, SUBSET Pub)
<1>1. old \in M /\ remotePubs[n] \in M /\ localSubs[n] \subseteq Sub
  BY Zenon DEF TypeOK
<1>2. pend \in M
  <2>1. Get(old, r) \cup pubs \in SUBSET Pub
    BY <1>1, GetType
  <2> QED
    BY <1>1, <2>1, PutMap, Zenon
<1>3. news \in SUBSET Pub
  <2> HIDE DEF pend
  <2> QED
    BY <1>2, GetType
<1>4. out \in Seq(Envelope)
  BY <1>1, <1>3, SubscribeAllType, EnvelopesType, Zenon
<1>5. CASE r \in nodes'[n] /\ r \in DOMAIN pend
  <2>1. /\ remotePubs' = [remotePubs EXCEPT ![n] =
                IF news = {} THEN remotePubs[n]
                             ELSE Put(remotePubs[n], r, Get(remotePubs[n], r) \cup news)]
        /\ pendingRemotePubs' = [pendingRemotePubs EXCEPT ![n] = Put(pend, r, {})]
        /\ connections' = [s \in Sub |->
                IF s \in localSubs[n] THEN connections[s] \cup Matching(news, s)
                                      ELSE connections[s]]
        /\ Send(n, [q \in Node |-> IF q = r THEN sent \o out ELSE <<>>])
    BY <1>5, Zenon DEF AddRemotePubToLocalSubs
  <2> HIDE DEF old, pend, news, out
  <2>2. remotePubs' \in [Node -> M]
    <3>1. Get(remotePubs[n], r) \cup news \in SUBSET Pub
      BY <1>1, <1>3, GetType
    <3>2. Put(remotePubs[n], r, Get(remotePubs[n], r) \cup news) \in M
      BY <1>1, <3>1, PutMap, Zenon
    <3> QED
      BY <1>1, <2>1, <3>2, Zenon DEF TypeOK
  <2>3. pendingRemotePubs' \in [Node -> M]
    <3>1. Put(pend, r, {}) \in M
      BY <1>2, PutMap, Zenon
    <3> QED
      BY <2>1, <3>1, Zenon DEF TypeOK
  <2>4. connections' \in [Sub -> SUBSET Pub]
    BY <1>3, <2>1 DEF TypeOK, Matching
  <2>5. wire' \in [Node -> [Node -> Seq(Envelope)]]
    <3>1. [q \in Node |-> IF q = r THEN sent \o out ELSE <<>>] \in [Node -> Seq(Envelope)]
      BY <1>4
    <3> QED
      BY <2>1, <3>1, SendType, Zenon DEF TypeOK
  <2> QED
    BY <2>2, <2>3, <2>4, <2>5, Zenon
<1>6. CASE ~(r \in nodes'[n] /\ r \in DOMAIN pend)
  <2>1. /\ pendingRemotePubs' = [pendingRemotePubs EXCEPT ![n] = pend]
        /\ Send(n, [q \in Node |-> IF q = r THEN sent ELSE <<>>])
        /\ UNCHANGED <<remotePubs, connections>>
    BY <1>6 DEF AddRemotePubToLocalSubs
  <2> HIDE DEF old, pend, news, out
  <2>2. pendingRemotePubs' \in [Node -> M]
    BY <1>2, <2>1, Zenon DEF TypeOK
  <2>3. wire' \in [Node -> [Node -> Seq(Envelope)]]
    <3>1. [q \in Node |-> IF q = r THEN sent ELSE <<>>] \in [Node -> Seq(Envelope)]
      OBVIOUS
    <3> QED
      BY <2>1, <3>1, SendType, Zenon DEF TypeOK
  <2> QED
    BY <2>1, <2>2, <2>3, Zenon DEF TypeOK
<1> QED
  BY <1>5, <1>6, Zenon

(* The part being read is a message, and its sender is known by remoteId.     *)
LEMMA PartType ==
    ASSUME TypeOK, NEW n \in Node, envelope[n].parts # <<>>
    PROVE  /\ Part(n) \in Message
           /\ remoteId[n] \in Node
           /\ Part(n).pub \in Pub
           /\ Part(n).type \in {"SUBSCRIBE", "UNSUBSCRIBE"} => Part(n).sub \in Sub
<1>1. envelope[n].parts \in Seq(Message) /\ remoteId[n] \in Node
  BY DEF TypeOK, Envelope
<1>2. Part(n) \in Message
  BY <1>1 DEF Part
<1> QED
  BY <1>1, <1>2 DEF Message

(* Reading on leaves a well-formed rest of the envelope, and remoteId stays   *)
(* as long as parts are left.                                                 *)
LEMMA ConsumePartType ==
    ASSUME TypeOK, NEW n \in Node, envelope[n].parts # <<>>, ConsumePart(n)
    PROVE  /\ envelope' \in [Node -> [from : Node \cup {None}, parts : Envelope]]
           /\ envelope'[n].parts # <<>> => Len(envelope[n].parts) # 1
           /\ \A m \in Node : m # n => envelope'[m] = envelope[m]
<1> DEFINE E == [from : Node \cup {None}, parts : Envelope]
           rest == IF Len(envelope[n].parts) = 1 THEN NoEnvelope
                   ELSE [from |-> envelope[n].from, parts |-> Tail(envelope[n].parts)]
<1>1. envelope[n] \in E /\ envelope[n].parts \in Seq(Message)
  BY DEF TypeOK, Envelope
<1>2. Tail(envelope[n].parts) \in Seq(Message)
  BY <1>1
<1>3. rest \in E /\ (rest.parts # <<>> => Len(envelope[n].parts) # 1)
  BY <1>1, <1>2 DEF NoEnvelope, Envelope
<1>4. envelope' = [envelope EXCEPT ![n] = rest]
  BY DEF ConsumePart
<1> HIDE DEF rest
<1> QED
  BY <1>3, <1>4 DEF TypeOK

(* Ending a part keeps the types of the reading thread's variables.           *)
LEMMA EndOfPartType ==
    ASSUME TypeOK, NEW n \in Node, envelope[n].parts # <<>>, EndOfPart(n)
    PROVE  /\ envelope' \in [Node -> [from : Node \cup {None}, parts : Envelope]]
           /\ remoteId' \in [Node -> Node \cup {None}]
           /\ \A m \in Node : envelope'[m].parts # <<>> => remoteId'[m] # None
<1>1. ConsumePart(n)
  BY DEF EndOfPart
<1>2. remoteId' = [remoteId EXCEPT ![n] =
                      IF Len(envelope[n].parts) = 1 THEN None ELSE remoteId[n]]
  BY DEF EndOfPart
<1>3. remoteId \in [Node -> Node \cup {None}]
  BY DEF TypeOK
<1>4. \A m \in Node : envelope[m].parts # <<>> => remoteId[m] # None
  BY DEF TypeOK
<1>5. /\ envelope' \in [Node -> [from : Node \cup {None}, parts : Envelope]]
      /\ envelope'[n].parts # <<>> => Len(envelope[n].parts) # 1
      /\ \A m \in Node : m # n => envelope'[m] = envelope[m]
  BY <1>1, ConsumePartType
<1>6. remoteId' \in [Node -> Node \cup {None}]
  BY <1>2, <1>3
<1>7. ASSUME NEW m \in Node, envelope'[m].parts # <<>>
      PROVE  remoteId'[m] # None
  <2>1. CASE m = n
    BY <1>2, <1>3, <1>4, <1>5, <1>7, <2>1
  <2>2. CASE m # n
    BY <1>2, <1>3, <1>4, <1>5, <1>7, <2>2
  <2> QED
    BY <2>1, <2>2
<1> QED
  BY <1>5, <1>6, <1>7

(* The initial state is well-typed.                                           *)
LEMMA InitType == Init => TypeOK
<1> SUFFICES ASSUME Init PROVE TypeOK
  OBVIOUS
<1>1. EmptyMap \in Maps(Node, SUBSET Pub) /\ EmptyMap \in Maps(Node, Maps(Pub, SUBSET Sub))
  BY EmptyMapType
<1>2. NoEnvelope \in [from : Node \cup {None}, parts : Envelope] /\ NoEnvelope.parts = <<>>
  BY DEF NoEnvelope, Envelope
<1>3. wire \in [Node -> [Node -> Seq(Envelope)]]
  BY DEF Init
<1> QED
  BY <1>1, <1>2, <1>3, Zenon DEF Init, TypeOK

(* Discovery events are well-typed.                                           *)
LEMMA AddedType ==
    ASSUME TypeOK, NEW n \in Node, NEW r \in Node, Added(n, r)
    PROVE  TypeOK'
<1>1. PubList(n) \in Seq(Envelope)
  BY PubListType DEF TypeOK
<1>2. AddRemotePubToLocalSubs(n, r, {}, PubList(n))
  BY DEF Added
<1>3. /\ remotePubs' \in [Node -> Maps(Node, SUBSET Pub)]
      /\ pendingRemotePubs' \in [Node -> Maps(Node, SUBSET Pub)]
      /\ connections' \in [Sub -> SUBSET Pub]
      /\ wire' \in [Node -> [Node -> Seq(Envelope)]]
  BY <1>1, <1>2, AddRemotePubType, Zenon
<1> QED
  BY <1>3, Zenon DEF Added, TypeOK, pubVars, readVars

(* removed(): a node is forgotten with all its subscriptions.                 *)
LEMMA RemovedType ==
    ASSUME TypeOK, NEW n \in Node, NEW r \in Node, Removed(n, r)
    PROVE  TypeOK'
<1>1. /\ remotePubs[n] \in Maps(Node, SUBSET Pub)
      /\ pendingRemotePubs[n] \in Maps(Node, SUBSET Pub)
      /\ subscriptions[n] \in Maps(Node, Maps(Pub, SUBSET Sub))
  BY Zenon DEF TypeOK
<1>2. /\ Erase(remotePubs[n], {r}) \in Maps(Node, SUBSET Pub)
      /\ Erase(pendingRemotePubs[n], {r}) \in Maps(Node, SUBSET Pub)
      /\ Erase(subscriptions[n], {r}) \in Maps(Node, Maps(Pub, SUBSET Sub))
  BY <1>1, EraseMap, Zenon
<1> QED
  BY <1>2, Zenon DEF Removed, TypeOK, pubVars, readVars

(* The calls of the application are well-typed.                               *)
LEMMA AddSubscriberType ==
    ASSUME TypeOK, NEW n \in Node, NEW s \in Sub, AddSubscriber(n, s)
    PROVE  TypeOK'
<1> DEFINE matching(r) == Matching(Get(remotePubs[n], r), s)
           out == [r \in Node |-> Envelopes({Subscribe(p, s) : p \in matching(r)})]
<1>1. \A r \in Node : matching(r) \in SUBSET Pub
  <2>1. remotePubs[n] \in Maps(Node, SUBSET Pub)
    BY Zenon DEF TypeOK
  <2> QED
    BY <2>1, GetType DEF Matching
<1>2. /\ Send(n, out)
      /\ localSubs' = [localSubs EXCEPT ![n] = @ \cup {s}]
      /\ connections' = [connections EXCEPT ![s] = @ \cup UNION {matching(r) : r \in Node}]
  BY DEF AddSubscriber
<1> HIDE DEF matching
<1>3. out \in [Node -> Seq(Envelope)]
  <2>1. ASSUME NEW r \in Node
        PROVE  {Subscribe(p, s) : p \in matching(r)} \subseteq Message
    BY <1>1 DEF Subscribe, Message
  <2> QED
    BY <2>1, EnvelopesType
<1>4. wire' \in [Node -> [Node -> Seq(Envelope)]]
  <2> HIDE DEF out
  <2> QED
    BY <1>2, <1>3, SendType DEF TypeOK
<1>5. localSubs' \in [Node -> SUBSET Sub] /\ connections' \in [Sub -> SUBSET Pub]
  BY <1>1, <1>2 DEF TypeOK
<1> QED
  BY <1>4, <1>5, Zenon DEF AddSubscriber, TypeOK, nodeVars, pubVars, readVars

(* removeSubscriber() erases a subscriber and tells the nodes it had          *)
(* subscribed at.                                                             *)
LEMMA RemoveSubscriberType ==
    ASSUME TypeOK, NEW n \in Node, NEW s \in Sub, RemoveSubscriber(n, s)
    PROVE  TypeOK'
<1> DEFINE matching(r) == Matching(Get(remotePubs[n], r), s)
           out == [r \in Node |-> Envelopes({Unsubscribe(p, s) : p \in matching(r)})]
<1>1. \A r \in Node : matching(r) \in SUBSET Pub
  <2>1. remotePubs[n] \in Maps(Node, SUBSET Pub)
    BY Zenon DEF TypeOK
  <2> QED
    BY <2>1, GetType DEF Matching
<1>2. Send(n, out)
  BY DEF RemoveSubscriber
<1> HIDE DEF matching
<1>3. out \in [Node -> Seq(Envelope)]
  <2>1. ASSUME NEW r \in Node
        PROVE  {Unsubscribe(p, s) : p \in matching(r)} \subseteq Message
    BY <1>1 DEF Unsubscribe, Message
  <2> QED
    BY <2>1, EnvelopesType
<1>4. wire' \in [Node -> [Node -> Seq(Envelope)]]
  <2> HIDE DEF out
  <2> QED
    BY <1>2, <1>3, SendType DEF TypeOK
<1> QED
  BY <1>4, Zenon DEF RemoveSubscriber, TypeOK, nodeVars, pubVars, readVars

(* addPublisher() stores a publisher and announces it.                        *)
LEMMA AddPublisherType ==
    ASSUME TypeOK, NEW n \in Node, NEW p \in Pub, AddPublisher(n, p)
    PROVE  TypeOK'
<1> DEFINE out == [r \in Node |-> IF r \in sockets[n] THEN << <<PubAdded(p)>> >> ELSE <<>>]
<1>1. out \in [Node -> Seq(Envelope)]
  <2>1. PubAdded(p) \in Message
    BY DEF PubAdded, Message
  <2>2. << <<PubAdded(p)>> >> \in Seq(Envelope)
    BY <2>1 DEF Envelope
  <2> QED
    BY <2>2
<1>2. wire' \in [Node -> [Node -> Seq(Envelope)]]
  <2>1. Send(n, out)
    BY DEF AddPublisher
  <2> HIDE DEF out
  <2> QED
    BY <1>1, <2>1, SendType DEF TypeOK
<1> QED
  BY <1>2, Zenon DEF AddPublisher, TypeOK, nodeVars, readVars

(* removePublisher() erases a publisher and tells every node.                 *)
LEMMA RemovePublisherType ==
    ASSUME TypeOK, NEW n \in Node, NEW p \in Pub, RemovePublisher(n, p)
    PROVE  TypeOK'
<1> DEFINE out == [r \in Node |-> IF r \in sockets[n] THEN << <<PubRemoved(p)>> >> ELSE <<>>]
<1>1. out \in [Node -> Seq(Envelope)]
  <2>1. PubRemoved(p) \in Message
    BY DEF PubRemoved, Message
  <2>2. << <<PubRemoved(p)>> >> \in Seq(Envelope)
    BY <2>1 DEF Envelope
  <2> QED
    BY <2>2
<1>2. wire' \in [Node -> [Node -> Seq(Envelope)]]
  <2>1. Send(n, out)
    BY Zenon DEF RemovePublisher
  <2> HIDE DEF out
  <2> QED
    BY <1>1, <2>1, SendType DEF TypeOK
<1> QED
  BY <1>2, Zenon DEF RemovePublisher, TypeOK, nodeVars, readVars

\* Dropping the first k elements of a queue leaves a queue of the same elements,
\* as when a suspending node closes its ROUTER socket on unread envelopes.
LEMMA TailType ==
    ASSUME NEW S, NEW s \in Seq(S), NEW k \in Nat
    PROVE  SubSeq(s, k + 1, Len(s)) \in Seq(S)
<1>1. Len(s) \in Nat /\ \A i \in 1 .. Len(s) : s[i] \in S
  OBVIOUS
<1>2. \A i \in k + 1 .. Len(s) : i \in 1 .. Len(s)
  BY <1>1
<1>3. \A i \in k + 1 .. Len(s) : s[i] \in S
  BY <1>1, <1>2, Zenon
<1>4. k + 1 \in Int /\ Len(s) \in Int
  BY <1>1
<1> QED
  BY <1>3, <1>4, QueueSuffix

(* suspend() withdraws the publishers and forgets the nodes.                  *)
LEMMA SuspendType ==
    ASSUME TypeOK, NEW n \in Node, Suspend(n)
    PROVE  TypeOK'
<1>1. /\ remotePubs[n] \in Maps(Node, SUBSET Pub)
      /\ pendingRemotePubs[n] \in Maps(Node, SUBSET Pub)
      /\ subscriptions[n] \in Maps(Node, Maps(Pub, SUBSET Sub))
  BY Zenon DEF TypeOK
<1>2. /\ Erase(remotePubs[n], nodes[n]) \in Maps(Node, SUBSET Pub)
      /\ Erase(pendingRemotePubs[n], nodes[n]) \in Maps(Node, SUBSET Pub)
      /\ Erase(subscriptions[n], nodes[n]) \in Maps(Node, Maps(Pub, SUBSET Sub))
  BY <1>1, EraseMap, Zenon
<1>3. wire' \in [Node -> [Node -> Seq(Envelope)]]
  <2> DEFINE out == Envelopes({PubRemoved(p) : p \in localPubs[n]})
  <2>1. PICK lost \in [Node -> UNION {0 .. Len(wire[q][n]) : q \in Node}] :
            wire' = [q \in Node |-> [r \in Node |->
                  IF r = n
                  THEN SubSeq(wire[q][n], lost[q] + 1, Len(wire[q][n]))
                  ELSE IF q = n /\ r \in sockets[n] THEN wire[n][r] \o out
                       ELSE wire[q][r]]]
    BY Zenon DEF Suspend
  <2>2. out \in Seq(Envelope)
    <3>1. {PubRemoved(p) : p \in localPubs[n]} \subseteq Message
      BY DEF TypeOK, PubRemoved, Message
    <3> QED
      BY <3>1, EnvelopesType
  <2> HIDE DEF out
  <2>3. \A q, r \in Node : wire[q][r] \in Seq(Envelope) /\ Len(wire[q][r]) \in Nat
    BY DEF TypeOK
  <2>4. \A q \in Node : SubSeq(wire[q][n], lost[q] + 1, Len(wire[q][n])) \in Seq(Envelope)
    <3> TAKE q \in Node
    <3>1. lost[q] \in Nat
      BY <2>3
    <3> QED
      BY <2>3, <3>1, TailType, Zenon
  <2> DEFINE at(q, r) == IF r = n
                         THEN SubSeq(wire[q][n], lost[q] + 1, Len(wire[q][n]))
                         ELSE IF q = n /\ r \in sockets[n] THEN wire[n][r] \o out
                              ELSE wire[q][r]
  <2>5. ASSUME NEW q \in Node, NEW r \in Node
        PROVE  at(q, r) \in Seq(Envelope)
    <3>0. wire[n][r] \in Seq(Envelope)
      BY <2>3, Zenon
    <3>1. wire[n][r] \o out \in Seq(Envelope)
      BY <2>2, <3>0, QueueConcat, Zenon
    <3> QED
      BY <2>3, <2>4, <3>1, Zenon
  <2>6. wire' = [q \in Node |-> [r \in Node |-> at(q, r)]]
    BY <2>1
  <2> HIDE DEF at
  <2> QED
    BY <2>5, <2>6
<1>4. NoEnvelope \in [from : Node \cup {None}, parts : Envelope] /\ NoEnvelope.parts = <<>>
  BY DEF NoEnvelope, Envelope
<1>5. /\ envelope' = [envelope EXCEPT ![n] = NoEnvelope]
      /\ remoteId' = [remoteId EXCEPT ![n] = None]
  BY Zenon DEF Suspend
<1>6. /\ envelope' \in [Node -> [from : Node \cup {None}, parts : Envelope]]
      /\ remoteId' \in [Node -> Node \cup {None}]
      /\ \A m \in Node : envelope'[m].parts # <<>> => remoteId'[m] # None
  BY <1>4, <1>5 DEF TypeOK
<1>7. /\ nodes' \in [Node -> SUBSET Node]
      /\ sockets' \in [Node -> SUBSET Node]
      /\ localPubs' \in [Node -> SUBSET Pub]
      /\ localSubs' \in [Node -> SUBSET Sub]
      /\ isSuspended' \in [Node -> BOOLEAN]
      /\ suspendedLocalPubs' \in [Node -> SUBSET Pub]
      /\ connections' \in [Sub -> SUBSET Pub]
  BY Zenon DEF Suspend, TypeOK
<1>8. /\ remotePubs' \in [Node -> Maps(Node, SUBSET Pub)]
      /\ pendingRemotePubs' \in [Node -> Maps(Node, SUBSET Pub)]
      /\ subscriptions' \in [Node -> Maps(Node, Maps(Pub, SUBSET Sub))]
  BY <1>2, Zenon DEF Suspend, TypeOK
<1> QED
  BY <1>3, <1>6, <1>7, <1>8, Zenon DEF TypeOK

(* resume() takes the suspended publishers as local ones again.               *)
LEMMA ResumeType ==
    ASSUME TypeOK, NEW n \in Node, Resume(n)
    PROVE  TypeOK'
BY Zenon DEF Resume, TypeOK, nodeVars, readVars

(* The steps of the reading thread are well-typed.                            *)
LEMMA ReadRemoteIdType ==
    ASSUME TypeOK, NEW n \in Node, NEW r \in Node, ReadRemoteId(n, r)
    PROVE  TypeOK'
<1>1. wire[r][n] \in Seq(Envelope) /\ wire[r][n] # <<>> /\ wire[r] \in [Node -> Seq(Envelope)]
  BY DEF TypeOK, ReadRemoteId
<1>2. Head(wire[r][n]) \in Envelope /\ Tail(wire[r][n]) \in Seq(Envelope)
  BY <1>1
<1>3. wire' = [wire EXCEPT ![r] = [wire[r] EXCEPT ![n] = Tail(wire[r][n])]]
  BY Zenon DEF ReadRemoteId
<1>4. wire' \in [Node -> [Node -> Seq(Envelope)]]
  BY <1>1, <1>2, <1>3 DEF TypeOK
<1>5. /\ envelope' = [envelope EXCEPT ![n] = [from |-> r, parts |-> Head(wire[r][n])]]
      /\ remoteId' = [remoteId EXCEPT ![n] = IF remoteId[n] = None THEN r ELSE remoteId[n]]
  BY Zenon DEF ReadRemoteId
<1>6. /\ envelope' \in [Node -> [from : Node \cup {None}, parts : Envelope]]
      /\ remoteId' \in [Node -> Node \cup {None}]
      /\ \A m \in Node : envelope'[m].parts # <<>> => remoteId'[m] # None
  BY <1>2, <1>5, NodeAssumption DEF TypeOK
<1> QED
  BY <1>4, <1>6, Zenon DEF ReadRemoteId, TypeOK, nodeVars, pubVars

(* A message the handlers return from early only leaves the queue.            *)
LEMMA IgnoreMessageType ==
    ASSUME TypeOK, NEW n \in Node, IgnoreMessage(n)
    PROVE  TypeOK'
<1>1. envelope[n].parts # <<>> /\ ConsumePart(n) /\ remoteId' = remoteId
  BY Zenon DEF IgnoreMessage
<1>2. /\ envelope' \in [Node -> [from : Node \cup {None}, parts : Envelope]]
      /\ \A m \in Node : m # n => envelope'[m] = envelope[m]
  BY <1>1, ConsumePartType
<1>3. \A m \in Node : envelope'[m].parts # <<>> => remoteId'[m] # None
  BY <1>1, <1>2, Zenon DEF TypeOK
<1> QED
  BY <1>1, <1>2, <1>3, Zenon DEF IgnoreMessage, TypeOK, nodeVars, pubVars

(* Dispatching a part is well-typed as far as the reading thread's variables  *)
(* are concerned.                                                             *)
LEMMA DispatchType ==
    ASSUME TypeOK, NEW n \in Node, NEW type, Dispatch(n, type)
    PROVE  /\ envelope' \in [Node -> [from : Node \cup {None}, parts : Envelope]]
           /\ remoteId' \in [Node -> Node \cup {None}]
           /\ \A m \in Node : envelope'[m].parts # <<>> => remoteId'[m] # None
           /\ remoteId[n] \in Node
           /\ Part(n).pub \in Pub
           /\ type \in {"SUBSCRIBE", "UNSUBSCRIBE"} => Part(n).sub \in Sub
           /\ type # "PUB_ADDED" => remoteId[n] \in nodes[n]
<1>1. envelope[n].parts # <<>> /\ EndOfPart(n) /\ Part(n).type = type
  BY Zenon DEF Dispatch
<1>2. type # "PUB_ADDED" => remoteId[n] \in nodes[n]
  BY <1>1 DEF Dispatch, Accepted
<1> QED
  BY <1>1, <1>2, EndOfPartType, PartType

(* processPubAdded() keeps the announcement, or confirms it and subscribes.   *)
LEMMA ProcessPubAddedType ==
    ASSUME TypeOK, NEW n \in Node, ProcessPubAdded(n)
    PROVE  TypeOK'
<1>1. /\ envelope' \in [Node -> [from : Node \cup {None}, parts : Envelope]]
      /\ remoteId' \in [Node -> Node \cup {None}]
      /\ \A m \in Node : envelope'[m].parts # <<>> => remoteId'[m] # None
      /\ remoteId[n] \in Node /\ {Part(n).pub} \subseteq Pub
  BY DispatchType DEF ProcessPubAdded
<1>2. <<>> \in Seq(Envelope)
  OBVIOUS
<1>3. AddRemotePubToLocalSubs(n, remoteId[n], {Part(n).pub}, <<>>)
  BY DEF ProcessPubAdded
<1>4. /\ remotePubs' \in [Node -> Maps(Node, SUBSET Pub)]
      /\ pendingRemotePubs' \in [Node -> Maps(Node, SUBSET Pub)]
      /\ connections' \in [Sub -> SUBSET Pub]
      /\ wire' \in [Node -> [Node -> Seq(Envelope)]]
  BY <1>1, <1>2, <1>3, AddRemotePubType, Zenon
<1> QED
  BY <1>1, <1>4, Zenon DEF ProcessPubAdded, TypeOK, nodeVars, pubVars

(* processPubRemoval() forgets a remote publisher.                            *)
LEMMA ProcessPubRemovedType ==
    ASSUME TypeOK, NEW n \in Node, ProcessPubRemoved(n)
    PROVE  TypeOK'
<1> DEFINE r == remoteId[n]
           M == Maps(Node, SUBSET Pub)
           left == IF r \in DOMAIN remotePubs[n]
                   THEN Put(remotePubs[n], r, remotePubs[n][r] \ {Part(n).pub})
                   ELSE remotePubs[n]
<1>1. /\ envelope' \in [Node -> [from : Node \cup {None}, parts : Envelope]]
      /\ remoteId' \in [Node -> Node \cup {None}]
      /\ \A m \in Node : envelope'[m].parts # <<>> => remoteId'[m] # None
      /\ r \in Node
  BY DispatchType DEF ProcessPubRemoved
<1>2. remotePubs[n] \in M
  BY Zenon DEF TypeOK
<1>3. left \in M
  <2>1. CASE r \in DOMAIN remotePubs[n]
    <3>1. remotePubs[n][r] \ {Part(n).pub} \in SUBSET Pub
      BY <1>2, <2>1, MapsMember
    <3>2. Put(remotePubs[n], r, remotePubs[n][r] \ {Part(n).pub}) \in M
      <4> HIDE DEF r
      <4> QED
        BY <1>1, <1>2, <3>1, PutMap, Zenon
    <3> QED
      BY <2>1, <3>2, Zenon
  <2>2. CASE r \notin DOMAIN remotePubs[n]
    BY <1>2, <2>2, Zenon
  <2> QED
    BY <2>1, <2>2
<1>4. remotePubs' = [remotePubs EXCEPT ![n] = left]
  BY DEF ProcessPubRemoved
<1> HIDE DEF left
<1>5. remotePubs' \in [Node -> M]
  BY <1>3, <1>4, Zenon DEF TypeOK
<1>6. UNCHANGED <<nodes, sockets, localPubs, localSubs, pendingRemotePubs, subscriptions,
                  isSuspended, suspendedLocalPubs, connections, wire>>
  BY Zenon DEF ProcessPubRemoved, nodeVars, pubVars
<1> QED
  BY <1>1, <1>5, <1>6, Zenon DEF TypeOK

(* Adding a subscription keeps the maps well-typed.                           *)
LEMMA WithSubscriptionMap ==
    ASSUME NEW S \in Maps(Node, Maps(Pub, SUBSET Sub)),
           NEW r \in Node, NEW p \in Pub, NEW s \in Sub
    PROVE  WithSubscription(S, r, p, s) \in Maps(Node, Maps(Pub, SUBSET Sub))
<1> DEFINE M == Maps(Pub, SUBSET Sub)
           old == GetMap(S, r)
           all == Get(old, p) \cup {s}
           new == Put(old, p, all)
<1>0. S \in Maps(Node, M)
  OBVIOUS
<1>1. old \in M
  BY GetMapType
<1>2. all \in SUBSET Sub
  <2> HIDE DEF old
  <2> QED
    BY <1>1, GetType
<1>3. new \in M
  <2> HIDE DEF old, all
  <2> QED
    BY <1>1, <1>2, PutMap, Zenon
<1>4. WithSubscription(S, r, p, s) = Put(S, r, new)
  BY DEF WithSubscription
<1> HIDE DEF new
<1>5. Put(S, r, new) \in Maps(Node, M)
  <2> HIDE DEF M
  <2> QED
    BY <1>0, <1>3, PutMap, Zenon
<1> QED
  BY <1>4, <1>5

(* So does removing a known one.                                              *)
LEMMA WithoutSubscriptionMap ==
    ASSUME NEW S \in Maps(Node, Maps(Pub, SUBSET Sub)),
           NEW r \in Node, NEW p \in Pub, NEW s \in Sub, Known(S, r, p, s)
    PROVE  WithoutSubscription(S, r, p, s) \in Maps(Node, Maps(Pub, SUBSET Sub))
<1> DEFINE M == Maps(Pub, SUBSET Sub)
           left == S[r][p] \ {s}
           ofNode == IF left = {} THEN Erase(S[r], {p}) ELSE Put(S[r], p, left)
<1>0. S \in Maps(Node, M)
  OBVIOUS
<1>1. r \in DOMAIN S /\ p \in DOMAIN S[r]
  BY DEF Known, Get, GetMap, EmptyMap
<1>2. S[r] \in M
  BY <1>1, MapsMember
<1>3. left \in SUBSET Sub
  BY <1>1, <1>2, MapsMember
<1>4. ofNode \in M
  <2> HIDE DEF left
  <2>1. Erase(S[r], {p}) \in M
    BY <1>2, EraseMap, Zenon
  <2>2. Put(S[r], p, left) \in M
    BY <1>2, <1>3, PutMap, Zenon
  <2> QED
    BY <2>1, <2>2
<1>5. WithoutSubscription(S, r, p, s) =
          IF DOMAIN ofNode = {} THEN Erase(S, {r}) ELSE Put(S, r, ofNode)
  BY DEF WithoutSubscription
<1> HIDE DEF ofNode
<1>6. Erase(S, {r}) \in Maps(Node, M)
  BY <1>0, EraseMap, Zenon
<1>7. Put(S, r, ofNode) \in Maps(Node, M)
  <2> HIDE DEF M
  <2> QED
    BY <1>0, <1>4, PutMap, Zenon
<1> QED
  BY <1>5, <1>6, <1>7

(* processSubscription() of a subscribe request notes a remote subscriber.    *)
LEMMA ProcessSubscribeType ==
    ASSUME TypeOK, NEW n \in Node, ProcessSubscribe(n)
    PROVE  TypeOK'
<1> DEFINE M == Maps(Node, Maps(Pub, SUBSET Sub))
           new == IF Part(n).pub \in localPubs[n]
                  THEN WithSubscription(subscriptions[n], remoteId[n], Part(n).pub, Part(n).sub)
                  ELSE subscriptions[n]
<1>1. /\ envelope' \in [Node -> [from : Node \cup {None}, parts : Envelope]]
      /\ remoteId' \in [Node -> Node \cup {None}]
      /\ \A m \in Node : envelope'[m].parts # <<>> => remoteId'[m] # None
      /\ remoteId[n] \in Node /\ Part(n).pub \in Pub /\ Part(n).sub \in Sub
  BY DispatchType DEF ProcessSubscribe
<1>2. subscriptions[n] \in M
  BY Zenon DEF TypeOK
<1>3. new \in M
  BY <1>1, <1>2, WithSubscriptionMap, Zenon
<1>4. subscriptions' = [subscriptions EXCEPT ![n] = new]
  BY DEF ProcessSubscribe
<1> HIDE DEF new
<1>5. subscriptions' \in [Node -> M]
  BY <1>3, <1>4, Zenon DEF TypeOK
<1>6. UNCHANGED <<nodes, sockets, localPubs, localSubs, remotePubs, pendingRemotePubs,
                  isSuspended, suspendedLocalPubs, connections, wire>>
  BY DEF ProcessSubscribe, nodeVars, pubVars
<1> QED
  BY <1>1, <1>5, <1>6, Zenon DEF TypeOK

(* processSubscription() of an unsubscribe request forgets it.                *)
LEMMA ProcessUnsubscribeType ==
    ASSUME TypeOK, NEW n \in Node, ProcessUnsubscribe(n)
    PROVE  TypeOK'
<1> DEFINE M == Maps(Node, Maps(Pub, SUBSET Sub))
           old == subscriptions[n]
           r == remoteId[n]
           p == Part(n).pub
           s == Part(n).sub
           new == IF p \in localPubs[n] /\ Known(old, r, p, s)
                  THEN WithoutSubscription(old, r, p, s) ELSE old
<1>1. /\ envelope' \in [Node -> [from : Node \cup {None}, parts : Envelope]]
      /\ remoteId' \in [Node -> Node \cup {None}]
      /\ \A m \in Node : envelope'[m].parts # <<>> => remoteId'[m] # None
      /\ r \in Node /\ p \in Pub /\ s \in Sub
  BY DispatchType, Zenon DEF ProcessUnsubscribe
<1>2. old \in M
  BY Zenon DEF TypeOK
<1>3. new \in M
  <2> HIDE DEF old, r, p, s
  <2> QED
    BY <1>1, <1>2, WithoutSubscriptionMap, Zenon
<1>4. subscriptions' = [subscriptions EXCEPT ![n] = new]
  BY DEF ProcessUnsubscribe
<1> HIDE DEF new
<1>5. subscriptions' \in [Node -> M]
  BY <1>3, <1>4, Zenon DEF TypeOK
<1>6. UNCHANGED <<nodes, sockets, localPubs, localSubs, remotePubs, pendingRemotePubs,
                  isSuspended, suspendedLocalPubs, connections, wire>>
  BY DEF ProcessUnsubscribe, nodeVars, pubVars
<1> QED
  BY <1>1, <1>5, <1>6, Zenon DEF TypeOK

(* Every step is well-typed.                                                  *)
LEMMA NextType == TypeOK /\ [Next]_vars => TypeOK'
<1> SUFFICES ASSUME TypeOK, [Next]_vars PROVE TypeOK'
  OBVIOUS
<1>1. CASE UNCHANGED vars
  BY <1>1, Zenon DEF vars, TypeOK
<1>2. ASSUME NEW n \in Node, Run(n)
      PROVE  TypeOK'
  BY <1>2, ReadRemoteIdType, IgnoreMessageType, ProcessPubAddedType, ProcessPubRemovedType,
     ProcessSubscribeType, ProcessUnsubscribeType DEF Run
<1>3. ASSUME NEW n \in Node, NEW r \in Node, Added(n, r) \/ Removed(n, r)
      PROVE  TypeOK'
  BY <1>3, AddedType, RemovedType
<1>4. ASSUME NEW n \in Node, NEW s \in Sub, AddSubscriber(n, s) \/ RemoveSubscriber(n, s)
      PROVE  TypeOK'
  BY <1>4, AddSubscriberType, RemoveSubscriberType
<1>5. ASSUME NEW n \in Node, NEW p \in Pub, AddPublisher(n, p) \/ RemovePublisher(n, p)
      PROVE  TypeOK'
  BY <1>5, AddPublisherType, RemovePublisherType
<1>6. ASSUME NEW n \in Node, Suspend(n) \/ Resume(n)
      PROVE  TypeOK'
  BY <1>6, SuspendType, ResumeType
<1> QED
  BY <1>1, <1>2, <1>3, <1>4, <1>5, <1>6 DEF Next

(* Type correctness: in every behaviour of the protocol all state keeps its   *)
(* type; in particular a part is only ever dispatched with a remoteId, which  *)
(* run asserts before it looks at the message.                                *)
THEOREM TypeCorrect == Spec => []TypeOK
<1>1. Init => TypeOK
  BY InitType
<1>2. TypeOK /\ [Next]_vars => TypeOK'
  BY NextType
<1> QED
  BY <1>1, <1>2, PTL DEF Spec

-----------------------------------------------------------------------------
(* The safety invariants.                                                    *)

\* The part of IndInv that is about remote publishers.
PublishersInv == RemotePubsOfNodes /\ PendingOnlyForUndiscovered /\ MatchedSubscribersConnected

\* The part of IndInv that is about subscriptions.
SubscriptionsInv == SubscriptionsOfNodes /\ NoEmptySubscriptions

-----------------------------------------------------------------------------

(* addRemotePubToLocalSubs moves everything pending for a discovered node to  *)
(* the remote publishers and connects the matching subscribers, in whichever  *)
(* order the node and its publishers became known.                            *)
LEMMA AddRemotePubInv ==
    ASSUME TypeOK, PublishersInv, NEW n \in Node, NEW r \in Node,
           NEW pubs, pubs \subseteq Pub, NEW sent,
           AddRemotePubToLocalSubs(n, r, pubs, sent), localSubs' = localSubs,
           nodes' \in [Node -> SUBSET Node],
           \A m \in Node : nodes[m] \subseteq nodes'[m],
           \A m, q \in Node : q \in nodes'[m] /\ q \notin nodes[m] => m = n /\ q = r
    PROVE  PublishersInv'
<1> DEFINE old  == pendingRemotePubs[n]
           pend == IF pubs = {} THEN old ELSE Put(old, r, Get(old, r) \cup pubs)
           news == Get(pend, r)
           all  == Get(remotePubs[n], r) \cup news
<1>1. /\ old \in Maps(Node, SUBSET Pub) /\ remotePubs[n] \in Maps(Node, SUBSET Pub)
      /\ remotePubs \in [Node -> Maps(Node, SUBSET Pub)]
      /\ pendingRemotePubs \in [Node -> Maps(Node, SUBSET Pub)]
      /\ localSubs \in [Node -> SUBSET Sub] /\ connections \in [Sub -> SUBSET Pub]
  BY Zenon DEF TypeOK
<1>2. \A q : q # r => Get(pend, q) = Get(old, q)
  BY DEF Get, Put
<1>3. CASE r \in nodes'[n] /\ r \in DOMAIN pend
  <2>1. /\ remotePubs' = [remotePubs EXCEPT ![n] =
                IF news = {} THEN remotePubs[n] ELSE Put(remotePubs[n], r, all)]
        /\ pendingRemotePubs' = [pendingRemotePubs EXCEPT ![n] = Put(pend, r, {})]
        /\ connections' = [s \in Sub |->
                IF s \in localSubs[n] THEN connections[s] \cup Matching(news, s)
                                      ELSE connections[s]]
    BY <1>3, Zenon DEF AddRemotePubToLocalSubs
  <2> HIDE DEF old, pend, news
  <2>2. RemotePubsOfNodes'
    BY <1>1, <1>3, <2>1 DEF PublishersInv, RemotePubsOfNodes, Put
  <2>3. PendingOnlyForUndiscovered'
    <3> SUFFICES ASSUME NEW m \in Node, NEW q \in nodes'[m]
                 PROVE  Get(pendingRemotePubs'[m], q) = {}
      BY DEF PendingOnlyForUndiscovered
    <3>1. CASE m = n /\ q = r
      BY <1>1, <2>1, <3>1 DEF Get, Put
    <3>2. CASE ~(m = n /\ q = r)
      <4>1. q \in nodes[m]
        BY <3>2
      <4>2. Get(pendingRemotePubs[m], q) = {}
        BY <4>1, Zenon DEF PublishersInv, PendingOnlyForUndiscovered
      <4>3. CASE m = n
        <5>1. Get(Put(pend, r, {}), q) = Get(pend, q)
          BY <3>2, <4>3, Zenon DEF Get, Put
        <5> QED
          BY <1>1, <1>2, <2>1, <3>2, <4>2, <4>3, <5>1 DEF old
      <4>4. CASE m # n
        BY <1>1, <2>1, <4>2, <4>4
      <4> QED
        BY <4>3, <4>4
    <3> QED
      BY <3>1, <3>2
  <2>4. MatchedSubscribersConnected'
    <3> SUFFICES ASSUME NEW m \in Node, NEW q \in DOMAIN remotePubs'[m], NEW s \in localSubs[m],
                        NEW p \in Matching(remotePubs'[m][q], s)
                 PROVE  p \in connections'[s]
      BY Zenon DEF MatchedSubscribersConnected
    <3>1. s \in Sub /\ connections[s] \subseteq connections'[s]
      BY <1>1, <2>1
    <3>2. CASE q \in DOMAIN remotePubs[m] /\ p \in remotePubs[m][q]
      <4>1. p \in connections[s]
        BY <3>2 DEF PublishersInv, MatchedSubscribersConnected, Matching
      <4> QED
        BY <3>1, <4>1
    <3>3. CASE ~(q \in DOMAIN remotePubs[m] /\ p \in remotePubs[m][q])
      <4>1. p \in remotePubs'[m][q] /\ channelName[p] = channelName[s]
        BY Zenon DEF Matching
      <4>2. m = n /\ news # {} /\ q = r /\ p \in all
        BY <1>1, <2>1, <3>3, <4>1 DEF Put
      <4>3. p \in news
        BY <3>3, <4>2 DEF Get
      <4> QED
        BY <2>1, <3>1, <4>1, <4>2, <4>3, Zenon DEF Matching
    <3> QED
      BY <3>2, <3>3
  <2> QED
    BY <2>2, <2>3, <2>4 DEF PublishersInv
<1>4. CASE ~(r \in nodes'[n] /\ r \in DOMAIN pend)
  <2>1. /\ pendingRemotePubs' = [pendingRemotePubs EXCEPT ![n] = pend]
        /\ remotePubs' = remotePubs /\ connections' = connections
    BY <1>4 DEF AddRemotePubToLocalSubs
  <2> HIDE DEF old, pend, news
  <2>2. PendingOnlyForUndiscovered'
    <3> SUFFICES ASSUME NEW m \in Node, NEW q \in nodes'[m]
                 PROVE  Get(pendingRemotePubs'[m], q) = {}
      BY DEF PendingOnlyForUndiscovered
    <3>1. CASE m = n /\ q = r
      BY <1>1, <1>4, <2>1, <3>1 DEF Get
    <3>2. CASE ~(m = n /\ q = r)
      <4>1. Get(pendingRemotePubs[m], q) = {}
        BY <3>2, Zenon DEF PublishersInv, PendingOnlyForUndiscovered
      <4> QED
        BY <1>1, <1>2, <2>1, <3>2, <4>1 DEF old
    <3> QED
      BY <3>1, <3>2
  <2>3. RemotePubsOfNodes' /\ MatchedSubscribersConnected'
    BY <2>1 DEF PublishersInv, RemotePubsOfNodes, MatchedSubscribersConnected
  <2> QED
    BY <2>2, <2>3, Zenon DEF PublishersInv
<1> QED
  BY <1>3, <1>4

-----------------------------------------------------------------------------
(* One lemma per handler.                                                     *)

\* IndInv without the type invariant.
SafetyInv == NodesHaveSockets /\ PublishersInv /\ SubscriptionsInv

(* A newly discovered node brings no keys but its own.                        *)
LEMMA AddedInv ==
    ASSUME TypeOK, SafetyInv, NEW n \in Node, NEW r \in Node, Added(n, r)
    PROVE  SafetyInv'
<1>1. /\ nodes' = [nodes EXCEPT ![n] = @ \cup {r}]
      /\ sockets' = [sockets EXCEPT ![n] = @ \cup {r}]
      /\ AddRemotePubToLocalSubs(n, r, {}, PubList(n))
      /\ localSubs' = localSubs /\ subscriptions' = subscriptions
  BY DEF Added
<1>2. nodes \in [Node -> SUBSET Node]
  BY DEF TypeOK
<1>3. /\ nodes' \in [Node -> SUBSET Node]
      /\ \A m \in Node : nodes[m] \subseteq nodes'[m]
      /\ \A m, q \in Node : q \in nodes'[m] /\ q \notin nodes[m] => m = n /\ q = r
  BY <1>1, <1>2
<1>4. NodesHaveSockets'
  BY <1>1, <1>2 DEF SafetyInv, NodesHaveSockets
<1>5. PublishersInv'
  BY <1>1, <1>3, AddRemotePubInv DEF SafetyInv
<1>6. SubscriptionsInv'
  BY <1>1, <1>3 DEF SafetyInv, SubscriptionsInv, SubscriptionsOfNodes, NoEmptySubscriptions
<1> QED
  BY <1>4, <1>5, <1>6 DEF SafetyInv

(* Forgetting nodes K of node n, as removed does for one node and suspend for *)
(* all, leaves no key of them behind.                                         *)
LEMMA ForgetInv ==
    ASSUME TypeOK, SafetyInv, NEW n \in Node, NEW K,
           nodes' = [nodes EXCEPT ![n] = @ \ K],
           sockets' = [sockets EXCEPT ![n] = @ \ K],
           remotePubs' = [remotePubs EXCEPT ![n] = Erase(@, K)],
           pendingRemotePubs' = [pendingRemotePubs EXCEPT ![n] = Erase(@, K)],
           subscriptions' = [subscriptions EXCEPT ![n] = Erase(@, K)],
           localSubs' = localSubs, connections' = connections
    PROVE  SafetyInv'
<1>1. /\ nodes \in [Node -> SUBSET Node]
      /\ remotePubs \in [Node -> Maps(Node, SUBSET Pub)]
      /\ pendingRemotePubs \in [Node -> Maps(Node, SUBSET Pub)]
      /\ subscriptions \in [Node -> Maps(Node, Maps(Pub, SUBSET Sub))]
  BY Zenon DEF TypeOK
<1>2. NodesHaveSockets'
  BY <1>1 DEF SafetyInv, NodesHaveSockets
<1>3. RemotePubsOfNodes'
  BY <1>1 DEF SafetyInv, PublishersInv, RemotePubsOfNodes, Erase, Restrict
<1>4. PendingOnlyForUndiscovered'
  <2> SUFFICES ASSUME NEW m \in Node, NEW q \in nodes'[m]
               PROVE  Get(pendingRemotePubs'[m], q) = {}
    BY DEF PendingOnlyForUndiscovered
  <2>1. q \in nodes[m] /\ Get(pendingRemotePubs[m], q) = {}
    BY <1>1 DEF SafetyInv, PublishersInv, PendingOnlyForUndiscovered
  <2>2. CASE m = n
    <3>1. q \notin K /\ pendingRemotePubs'[m] = Erase(pendingRemotePubs[m], K)
      BY <1>1, <2>2
    <3> QED
      BY <2>1, <3>1 DEF Get, Erase, Restrict
  <2>3. CASE m # n
    BY <1>1, <2>1, <2>3
  <2> QED
    BY <2>2, <2>3
<1>5. MatchedSubscribersConnected'
  <2> SUFFICES ASSUME NEW m \in Node, NEW q \in DOMAIN remotePubs'[m], NEW s \in localSubs[m]
               PROVE  Matching(remotePubs'[m][q], s) \subseteq connections[s]
    BY DEF MatchedSubscribersConnected
  <2>1. q \in DOMAIN remotePubs[m] /\ remotePubs'[m][q] = remotePubs[m][q]
    BY <1>1 DEF Erase, Restrict
  <2> QED
    BY <2>1 DEF SafetyInv, PublishersInv, MatchedSubscribersConnected
<1>6. \A m \in Node : \A q \in DOMAIN subscriptions'[m] :
          /\ q \in DOMAIN subscriptions[m] /\ subscriptions'[m][q] = subscriptions[m][q]
          /\ m = n => q \notin K
  BY <1>1 DEF Erase, Restrict
<1>7. SubscriptionsInv'
  <2>1. SubscriptionsOfNodes'
    BY <1>1, <1>6 DEF SafetyInv, SubscriptionsInv, SubscriptionsOfNodes
  <2>2. NoEmptySubscriptions'
    BY <1>6 DEF SafetyInv, SubscriptionsInv, NoEmptySubscriptions
  <2> QED
    BY <2>1, <2>2 DEF SubscriptionsInv
<1> QED
  BY <1>2, <1>3, <1>4, <1>5, <1>7 DEF SafetyInv, PublishersInv

(* removed() erases a node from all the maps that are keyed by nodes.         *)
LEMMA RemovedInv ==
    ASSUME TypeOK, SafetyInv, NEW n \in Node, NEW r \in Node, Removed(n, r)
    PROVE  SafetyInv'
BY ForgetInv, Zenon DEF Removed

(* suspend() erases the known nodes from these maps.                          *)
LEMMA SuspendInv ==
    ASSUME TypeOK, SafetyInv, NEW n \in Node, Suspend(n)
    PROVE  SafetyInv'
<1>1. /\ nodes' = [nodes EXCEPT ![n] = @ \ nodes[n]]
      /\ sockets' = [sockets EXCEPT ![n] = @ \ nodes[n]]
  BY Zenon DEF Suspend, SafetyInv, NodesHaveSockets, TypeOK
<1>2. /\ remotePubs' = [remotePubs EXCEPT ![n] = Erase(@, nodes[n])]
      /\ pendingRemotePubs' = [pendingRemotePubs EXCEPT ![n] = Erase(@, nodes[n])]
      /\ subscriptions' = [subscriptions EXCEPT ![n] = Erase(@, nodes[n])]
      /\ localSubs' = localSubs /\ connections' = connections
  BY DEF Suspend
<1> QED
  BY <1>1, <1>2, ForgetInv, Zenon

(* A new local subscriber is connected to all known publishers of its channel.*)
LEMMA AddSubscriberInv ==
    ASSUME TypeOK, SafetyInv, NEW n \in Node, NEW s \in Sub, AddSubscriber(n, s)
    PROVE  SafetyInv'
<1> DEFINE matching(r) == Matching(Get(remotePubs[n], r), s)
<1>1. /\ localSubs' = [localSubs EXCEPT ![n] = @ \cup {s}]
      /\ connections' = [connections EXCEPT ![s] = @ \cup UNION {matching(r) : r \in Node}]
      /\ UNCHANGED <<remotePubs, pendingRemotePubs, subscriptions, nodes, sockets>>
  BY DEF AddSubscriber, nodeVars
<1>2. /\ localSubs \in [Node -> SUBSET Sub] /\ connections \in [Sub -> SUBSET Pub]
      /\ remotePubs \in [Node -> Maps(Node, SUBSET Pub)]
  BY Zenon DEF TypeOK
<1>3. MatchedSubscribersConnected'
  <2> SUFFICES ASSUME NEW m \in Node, NEW q \in DOMAIN remotePubs[m], NEW t \in localSubs'[m],
                      NEW p \in Matching(remotePubs[m][q], t)
               PROVE  p \in connections'[t]
    BY <1>1 DEF MatchedSubscribersConnected
  <2>1. CASE t \in localSubs[m]
    <3>1. t \in Sub /\ p \in connections[t]
      BY <1>2, <2>1 DEF SafetyInv, PublishersInv, MatchedSubscribersConnected
    <3> QED
      BY <1>1, <1>2, <3>1
  <2>2. CASE t \notin localSubs[m]
    <3>1. m = n /\ t = s
      BY <1>1, <1>2, <2>2
    <3>2. q \in Node
      BY <1>2, MapsMember, Zenon
    <3>3. p \in matching(q)
      BY <3>1, Zenon DEF Get
    <3> HIDE DEF matching
    <3> QED
      BY <1>1, <1>2, <3>1, <3>2, <3>3
  <2> QED
    BY <2>1, <2>2
<1>4. NodesHaveSockets' /\ RemotePubsOfNodes' /\ PendingOnlyForUndiscovered' /\ SubscriptionsInv'
  BY <1>1, Zenon DEF SafetyInv, NodesHaveSockets, PublishersInv, RemotePubsOfNodes,
     PendingOnlyForUndiscovered, SubscriptionsInv, SubscriptionsOfNodes, NoEmptySubscriptions
<1> QED
  BY <1>3, <1>4 DEF SafetyInv, PublishersInv

(* The handlers that touch none of this state but local subscribers.          *)
LEMMA FrameInv ==
    ASSUME SafetyInv,
           UNCHANGED <<nodes, sockets, remotePubs, pendingRemotePubs, subscriptions, connections>>,
           \A m \in Node : localSubs'[m] \subseteq localSubs[m]
    PROVE  SafetyInv'
BY ZenonT(30) DEF SafetyInv, NodesHaveSockets, PublishersInv, RemotePubsOfNodes, PendingOnlyForUndiscovered,
   MatchedSubscribersConnected, SubscriptionsInv, SubscriptionsOfNodes, NoEmptySubscriptions

(* removeSubscriber() takes a subscriber from the local ones only.            *)
LEMMA RemoveSubscriberInv ==
    ASSUME TypeOK, SafetyInv, NEW n \in Node, NEW s \in Sub, RemoveSubscriber(n, s)
    PROVE  SafetyInv'
<1>1. \A m \in Node : localSubs'[m] \subseteq localSubs[m]
  BY DEF RemoveSubscriber, TypeOK
<1> QED
  BY <1>1, FrameInv, Zenon DEF RemoveSubscriber, nodeVars

(* The handlers that leave all of this state alone.                           *)
LEMMA UntouchedInv ==
    ASSUME TypeOK, SafetyInv, NEW n \in Node,
           \/ \E p \in Pub : AddPublisher(n, p) \/ RemovePublisher(n, p)
           \/ Resume(n) \/ IgnoreMessage(n)
           \/ \E r \in Node : ReadRemoteId(n, r)
    PROVE  SafetyInv'
<1>1. UNCHANGED <<nodes, sockets, remotePubs, pendingRemotePubs, subscriptions, connections>>
  BY Zenon DEF AddPublisher, RemovePublisher, Resume, IgnoreMessage, ReadRemoteId, nodeVars
<1>2. localSubs' = localSubs
  BY Zenon DEF AddPublisher, RemovePublisher, Resume, IgnoreMessage, ReadRemoteId
<1> QED
  BY <1>1, <1>2, FrameInv, Zenon

(* processPubAdded() connects the local subscribers of the channel to the     *)
(* publisher it stores.                                                       *)
LEMMA ProcessPubAddedInv ==
    ASSUME TypeOK, SafetyInv, NEW n \in Node, ProcessPubAdded(n)
    PROVE  SafetyInv'
<1>1. remoteId[n] \in Node /\ {Part(n).pub} \subseteq Pub
  BY DispatchType DEF ProcessPubAdded
<1>2. /\ AddRemotePubToLocalSubs(n, remoteId[n], {Part(n).pub}, <<>>)
      /\ localSubs' = localSubs /\ subscriptions' = subscriptions
      /\ nodes' = nodes /\ sockets' = sockets
  BY Zenon DEF ProcessPubAdded, nodeVars
<1>3. nodes \in [Node -> SUBSET Node]
  BY DEF TypeOK
<1>4. PublishersInv'
  BY <1>1, <1>2, <1>3, AddRemotePubInv, Zenon DEF SafetyInv
<1>5. NodesHaveSockets' /\ SubscriptionsInv'
  BY <1>2 DEF SafetyInv, NodesHaveSockets, SubscriptionsInv, SubscriptionsOfNodes,
     NoEmptySubscriptions
<1> QED
  BY <1>4, <1>5, Zenon DEF SafetyInv

(* A publisher is removed from the node it is known of; no key is added.      *)
LEMMA ProcessPubRemovedInv ==
    ASSUME TypeOK, SafetyInv, NEW n \in Node, ProcessPubRemoved(n)
    PROVE  SafetyInv'
<1> DEFINE r == remoteId[n]
<1>1. /\ remotePubs' = [remotePubs EXCEPT ![n] =
             IF r \in DOMAIN remotePubs[n]
             THEN Put(remotePubs[n], r, remotePubs[n][r] \ {Part(n).pub}) ELSE remotePubs[n]]
      /\ UNCHANGED <<localSubs, pendingRemotePubs, subscriptions, connections, nodes, sockets>>
  BY DEF ProcessPubRemoved, nodeVars
<1>2. remotePubs \in [Node -> Maps(Node, SUBSET Pub)]
  BY Zenon DEF TypeOK
<1> HIDE DEF r
<1>3. \A m \in Node :
          /\ DOMAIN remotePubs'[m] = DOMAIN remotePubs[m]
          /\ \A q \in DOMAIN remotePubs[m] : remotePubs'[m][q] \subseteq remotePubs[m][q]
  BY <1>1, <1>2, Zenon DEF Put
<1>4. RemotePubsOfNodes'
  BY <1>1, <1>3, Zenon DEF SafetyInv, PublishersInv, RemotePubsOfNodes
<1>5. MatchedSubscribersConnected'
  BY <1>1, <1>3, Zenon DEF SafetyInv, PublishersInv, MatchedSubscribersConnected, Matching
<1>6. NodesHaveSockets' /\ PendingOnlyForUndiscovered' /\ SubscriptionsInv'
  BY <1>1 DEF SafetyInv, NodesHaveSockets, PublishersInv, PendingOnlyForUndiscovered,
     SubscriptionsInv, SubscriptionsOfNodes, NoEmptySubscriptions
<1> QED
  BY <1>4, <1>5, <1>6, Zenon DEF SafetyInv, PublishersInv

\* The subscriptions S of one node satisfy the invariant, N being its nodes.
WellFormed(S, N) ==
    /\ DOMAIN S \subseteq N
    /\ \A q \in DOMAIN S : DOMAIN S[q] # {} /\ \A p \in DOMAIN S[q] : S[q][p] # {}

(* A subscription adds no empty map, and no key but its own node.             *)
LEMMA WithSubscriptionWF ==
    ASSUME NEW S, NEW N, NEW r \in N, NEW p, NEW s, WellFormed(S, N)
    PROVE  WellFormed(WithSubscription(S, r, p, s), N)
<1> DEFINE old == GetMap(S, r)
           all == Get(old, p) \cup {s}
           new == Put(old, p, all)
<1>1. \A x \in DOMAIN old : old[x] # {}
  BY DEF GetMap, EmptyMap, WellFormed
<1>2. all # {}
  BY Zenon
<1> HIDE DEF old, all
<1>3. DOMAIN new # {} /\ \A x \in DOMAIN new : new[x] # {}
  BY <1>1, <1>2 DEF Put
<1> HIDE DEF new
<1>4. WellFormed(Put(S, r, new), N)
  BY <1>3 DEF Put, WellFormed
<1> QED
  BY <1>4 DEF WithSubscription, old, all, new

(* Removing the last subscription removes the maps it leaves empty.           *)
LEMMA WithoutSubscriptionWF ==
    ASSUME NEW S, NEW N, NEW r, NEW p, NEW s, Known(S, r, p, s), WellFormed(S, N)
    PROVE  WellFormed(WithoutSubscription(S, r, p, s), N)
<1> DEFINE left == S[r][p] \ {s}
           ofNode == IF left = {} THEN Erase(S[r], {p}) ELSE Put(S[r], p, left)
<1>1. r \in DOMAIN S
  BY DEF Known, Get, GetMap, EmptyMap
<1>2. r \in N /\ \A x \in DOMAIN S[r] : S[r][x] # {}
  BY <1>1, Zenon DEF WellFormed
<1> HIDE DEF left
<1>3. \A x \in DOMAIN ofNode : ofNode[x] # {}
  BY <1>2 DEF Put, Erase, Restrict
<1> HIDE DEF ofNode
<1>4. CASE DOMAIN ofNode = {}
  <2>1. WellFormed(Erase(S, {r}), N)
    BY DEF WellFormed, Erase, Restrict
  <2> QED
    BY <1>4, <2>1, Zenon DEF WithoutSubscription, left, ofNode
<1>5. CASE DOMAIN ofNode # {}
  <2>1. WellFormed(Put(S, r, ofNode), N)
    BY <1>2, <1>3, <1>5 DEF WellFormed, Put
  <2> QED
    BY <1>5, <2>1, Zenon DEF WithoutSubscription, left, ofNode
<1> QED
  BY <1>4, <1>5, Zenon

(* When the subscriptions of node n become new, and those satisfy the         *)
(* invariant, all do.                                                         *)
LEMMA NewSubscriptionsInv ==
    ASSUME TypeOK, SafetyInv, NEW n \in Node, NEW new,
           subscriptions' = [subscriptions EXCEPT ![n] = new], WellFormed(new, nodes[n]),
           UNCHANGED <<nodes, sockets, remotePubs, pendingRemotePubs, connections, localSubs>>
    PROVE  SafetyInv'
<1>1. subscriptions \in [Node -> Maps(Node, Maps(Pub, SUBSET Sub))]
  BY Zenon DEF TypeOK
<1>2. \A m \in Node : subscriptions'[m] = IF m = n THEN new ELSE subscriptions[m]
  BY <1>1
<1>3. \A m \in Node : WellFormed(subscriptions'[m], nodes[m])
  BY <1>2 DEF SafetyInv, SubscriptionsInv, SubscriptionsOfNodes, NoEmptySubscriptions, WellFormed
<1>4. SubscriptionsInv'
  BY <1>3, Zenon DEF WellFormed, SubscriptionsInv, SubscriptionsOfNodes, NoEmptySubscriptions
<1>5. NodesHaveSockets' /\ PublishersInv'
  BY DEF SafetyInv, NodesHaveSockets, PublishersInv, RemotePubsOfNodes,
     PendingOnlyForUndiscovered, MatchedSubscribersConnected
<1> QED
  BY <1>4, <1>5 DEF SafetyInv

(* A subscription is only remembered for a discovered node.                   *)
LEMMA ProcessSubscribeInv ==
    ASSUME TypeOK, SafetyInv, NEW n \in Node, ProcessSubscribe(n)
    PROVE  SafetyInv'
<1> DEFINE S == subscriptions[n]
           r == remoteId[n]
           p == Part(n).pub
           s == Part(n).sub
           new == IF p \in localPubs[n] THEN WithSubscription(S, r, p, s) ELSE S
<1>1. r \in nodes[n] /\ r \in Node /\ p \in Pub /\ s \in Sub
  BY DispatchType DEF ProcessSubscribe
<1>2. /\ subscriptions' = [subscriptions EXCEPT ![n] = new]
      /\ UNCHANGED <<nodes, sockets, remotePubs, pendingRemotePubs, connections, localSubs>>
  BY DEF ProcessSubscribe, nodeVars
<1>3. S \in Maps(Node, Maps(Pub, SUBSET Sub)) /\ WellFormed(S, nodes[n])
  BY Zenon DEF TypeOK, SafetyInv, SubscriptionsInv, SubscriptionsOfNodes, NoEmptySubscriptions,
     WellFormed
<1>4. WellFormed(new, nodes[n])
  <2> HIDE DEF S, r, p, s
  <2> QED
    BY <1>1, <1>3, WithSubscriptionWF
<1> HIDE DEF new
<1> QED
  BY <1>2, <1>4, NewSubscriptionsInv, Zenon

(* processSubscription() erases subscriptions, and adds none.                 *)
LEMMA ProcessUnsubscribeInv ==
    ASSUME TypeOK, SafetyInv, NEW n \in Node, ProcessUnsubscribe(n)
    PROVE  SafetyInv'
<1> DEFINE S == subscriptions[n]
           r == remoteId[n]
           p == Part(n).pub
           s == Part(n).sub
           new == IF p \in localPubs[n] /\ Known(S, r, p, s)
                  THEN WithoutSubscription(S, r, p, s) ELSE S
<1>1. r \in Node /\ p \in Pub /\ s \in Sub
  BY DispatchType, Zenon DEF ProcessUnsubscribe
<1>2. /\ subscriptions' = [subscriptions EXCEPT ![n] = new]
      /\ UNCHANGED <<nodes, sockets, remotePubs, pendingRemotePubs, connections, localSubs>>
  BY Zenon DEF ProcessUnsubscribe, nodeVars
<1>3. S \in Maps(Node, Maps(Pub, SUBSET Sub)) /\ WellFormed(S, nodes[n])
  BY Zenon DEF TypeOK, SafetyInv, SubscriptionsInv, SubscriptionsOfNodes, NoEmptySubscriptions,
     WellFormed
<1>4. WellFormed(new, nodes[n])
  <2> HIDE DEF S, r, p, s
  <2> QED
    BY <1>1, <1>3, WithoutSubscriptionWF
<1> HIDE DEF new
<1> QED
  BY <1>2, <1>4, NewSubscriptionsInv, Zenon

-----------------------------------------------------------------------------
(* The theorems.                                                              *)

(* A new node knows nobody.                                                   *)
LEMMA InitInv ==
    Init => SafetyInv
<1> SUFFICES ASSUME Init PROVE SafetyInv
  OBVIOUS
<1>1. \A n \in Node : /\ DOMAIN remotePubs[n] = {} /\ DOMAIN pendingRemotePubs[n] = {}
                     /\ DOMAIN subscriptions[n] = {}
  BY DEF Init, EmptyMap
<1>2. NodesHaveSockets
  BY DEF Init, NodesHaveSockets
<1>3. PublishersInv
  BY <1>1, ZenonT(30) DEF PublishersInv, RemotePubsOfNodes, PendingOnlyForUndiscovered,
     MatchedSubscribersConnected, Get
<1>4. SubscriptionsInv
  BY <1>1 DEF SubscriptionsInv, SubscriptionsOfNodes, NoEmptySubscriptions
<1> QED
  BY <1>2, <1>3, <1>4 DEF SafetyInv

(* Every step preserves the inductive invariant.                              *)
LEMMA NextInv ==
    ASSUME TypeOK, SafetyInv, [Next]_vars
    PROVE  SafetyInv'
<1>1. CASE UNCHANGED vars
  BY <1>1, FrameInv DEF vars
<1>2. CASE Next
  <2>1. PICK n \in Node :
            \/ Run(n)
            \/ \E r \in Node : Added(n, r) \/ Removed(n, r)
            \/ \E s \in Sub : AddSubscriber(n, s) \/ RemoveSubscriber(n, s)
            \/ \E p \in Pub : AddPublisher(n, p) \/ RemovePublisher(n, p)
            \/ Suspend(n) \/ Resume(n)
    BY <1>2 DEF Next
  <2>2. CASE Run(n)
    BY <2>2, UntouchedInv, ProcessPubAddedInv, ProcessPubRemovedInv, ProcessSubscribeInv,
       ProcessUnsubscribeInv DEF Run
  <2>3. CASE \E r \in Node : Added(n, r) \/ Removed(n, r)
    BY <2>3, AddedInv, RemovedInv
  <2>4. CASE \E s \in Sub : AddSubscriber(n, s) \/ RemoveSubscriber(n, s)
    BY <2>4, AddSubscriberInv, RemoveSubscriberInv
  <2>5. CASE (\E p \in Pub : AddPublisher(n, p) \/ RemovePublisher(n, p)) \/ Resume(n)
    BY <2>5, UntouchedInv
  <2>6. CASE Suspend(n)
    BY <2>6, SuspendInv
  <2> QED
    BY <2>1, <2>2, <2>3, <2>4, <2>5, <2>6
<1> QED
  BY <1>1, <1>2

(* The inductive invariant holds in every reachable state.                    *)
THEOREM InductiveInvariant == Spec => []IndInv
<1>1. Init => TypeOK /\ SafetyInv
  BY InitType, InitInv
<1>2. (TypeOK /\ SafetyInv) /\ [Next]_vars => (TypeOK /\ SafetyInv)'
  BY NextType, NextInv
<1>3. TypeOK /\ SafetyInv => IndInv
  BY DEF SafetyInv, PublishersInv, SubscriptionsInv, IndInv
<1> QED
  BY <1>1, <1>2, <1>3, PTL DEF Spec

(* validateState never fails: whatever order discovery events, control        *)
(* messages and calls of the application come in, nodes and sockets           *)
(* correspond, remote publishers and subscriptions belong to nodes with a     *)
(* socket, and no empty map of subscriptions is left behind.                  *)
THEOREM StateIsValid == Spec => []ValidateState
<1>1. ASSUME IndInv
      PROVE  ValidateState
  <2> SUFFICES ASSUME NEW n \in Node
               PROVE  /\ nodes[n] = sockets[n]
                      /\ DOMAIN remotePubs[n] \subseteq nodes[n]
                      /\ Cardinality(DOMAIN remotePubs[n]) <= Cardinality(nodes[n])
                      /\ DOMAIN subscriptions[n] \subseteq nodes[n]
                      /\ \A r \in DOMAIN subscriptions[n] :
                             /\ DOMAIN subscriptions[n][r] # {}
                             /\ \A p \in DOMAIN subscriptions[n][r] :
                                    subscriptions[n][r][p] # {}
    BY DEF ValidateState
  <2>1. nodes[n] = sockets[n] /\ DOMAIN remotePubs[n] \subseteq nodes[n]
    BY <1>1 DEF IndInv, NodesHaveSockets, RemotePubsOfNodes
  <2>2. IsFiniteSet(nodes[n])
    BY <1>1, NodeAssumption, FS_Subset, Zenon DEF IndInv, TypeOK
  <2>3. Cardinality(DOMAIN remotePubs[n]) <= Cardinality(nodes[n])
    BY <2>1, <2>2, FS_Subset, Zenon
  <2>4. /\ DOMAIN subscriptions[n] \subseteq nodes[n]
        /\ \A r \in DOMAIN subscriptions[n] :
               /\ DOMAIN subscriptions[n][r] # {}
               /\ \A p \in DOMAIN subscriptions[n][r] : subscriptions[n][r][p] # {}
    BY <1>1 DEF IndInv, SubscriptionsOfNodes, NoEmptySubscriptions
  <2> QED
    BY <2>1, <2>3, <2>4
<1> QED
  BY <1>1, InductiveInvariant, PTL

(* Nothing stays pending for a discovered node: the publishers that arrived   *)
(* before the node was discovered are never forgotten.                        *)
THEOREM NothingPending == Spec => []PendingOnlyForUndiscovered
<1>1. IndInv => PendingOnlyForUndiscovered
  BY DEF IndInv
<1> QED
  BY <1>1, InductiveInvariant, PTL

(* Every local subscriber is connected to every known remote publisher of its *)
(* channel, in every order of adding subscriber, publisher and node.          *)
THEOREM SubscribersConnected == Spec => []MatchedSubscribersConnected
<1>1. IndInv => MatchedSubscribersConnected
  BY DEF IndInv
<1> QED
  BY <1>1, InductiveInvariant, PTL

-----------------------------------------------------------------------------
(* Settling networks.                                                         *)

(* A settling network starts with nothing there.                              *)
LEMMA SettlingStart ==
    ASSUME Init
    PROVE  SettleInv
<1>1. IndInv
  BY InitType, InitInv, Zenon DEF SafetyInv, PublishersInv, SubscriptionsInv, IndInv
<1> QED
  BY <1>1, InitSettles, Zenon

(* Every step of a settling network keeps the settling invariant.             *)
LEMMA SettlingStep ==
    ASSUME SettleInv, [SettlingNext]_vars
    PROVE  SettleInv'
<1>1. SettlingNext => Next
  BY Zenon DEF SettlingNext, Next
<1>2. TypeOK /\ SafetyInv
  BY Zenon DEF SettleInv, SafetyInv, PublishersInv, SubscriptionsInv, IndInv
<1>3. TypeOK' /\ SafetyInv'
  BY <1>1, <1>2, NextType, NextInv, Zenon
<1>4. IndInv'
  BY <1>3, Zenon DEF SafetyInv, PublishersInv, SubscriptionsInv, IndInv
<1> QED
  BY <1>4, MessagesListed, NextSettles, Zenon

(* The settling invariant holds in every reachable state.                     *)
THEOREM SettlingInvariant == SettlingSpec => []SettleInv
<1>1. Init => SettleInv
  BY SettlingStart
<1>2. SettleInv /\ [SettlingNext]_vars => SettleInv'
  BY SettlingStep
<1> QED
  BY <1>1, <1>2, PTL DEF SettlingSpec

(* As long as no node is lost or suspended, the thread of run dispatches      *)
(* every part for the node that sent it: remoteId never goes stale.           *)
THEOREM SettlingPartsAttributed == SettlingSpec => []PartsAttributedToSender
<1>1. SettleInv => PartsAttributedToSender
  BY ReadsFrom, Zenon DEF PartsAttributedToSender
<1> QED
  BY <1>1, SettlingInvariant, PTL

(* As long as no node is lost or suspended and no publisher is removed, two   *)
(* nodes that discovered each other agree whenever no control message is      *)
(* underway: whatever order nodes, publishers and subscribers came in, each   *)
(* knows exactly the publishers of the other, and the other exactly the       *)
(* matching subscriptions.                                                    *)
THEOREM SettlingNodesInSync == SettlingSpec => []QuietNodesInSync
<1>1. SettleInv => QuietNodesInSync
  BY SettledInSync
<1> QED
  BY <1>1, SettlingInvariant, PTL

(* The promise of the introduction: once nothing is underway, a publisher     *)
(* knows of every subscriber of its channel on a connected node, and that     *)
(* subscriber is connected to it.                                             *)
THEOREM SettlingPairsSubscribed == SettlingSpec => []MatchingPairsSubscribed
<1>1. QuietNodesInSync => MatchingPairsSubscribed
  BY Zenon DEF QuietNodesInSync, MatchingPairsSubscribed, InSync
<1> QED
  BY <1>1, SettlingNodesInSync, PTL

-----------------------------------------------------------------------------
(* The settling scenario that TLC runs through is such a network: its budget  *)
(* leaves no call that loses or suspends a node or removes a publisher.       *)

Kinds == {"add", "pub", "sub", "node", "suspend"}

SettlingBudget ==
    /\ budget \in [Kinds -> Int]
    /\ budget["pub"] = 0 /\ budget["node"] = 0 /\ budget["suspend"] = 0

ScenarioInv == scenario \in Scenarios /\ (Settling => SettleInv /\ SettlingBudget)

(* A call the budget allows leaves the budget of the other kinds alone.       *)
LEMMA SpendSettling ==
    ASSUME SettlingBudget, NEW kind \in Kinds, Spend(kind)
    PROVE  kind \in {"add", "sub"} /\ SettlingBudget'
<1>1. kind \in {"add", "sub"}
  BY DEF SettlingBudget, Spend, Kinds
<1>2. budget' = [budget EXCEPT ![kind] = budget[kind] - 1] /\ budget[kind] \in Int
  BY DEF SettlingBudget, Spend
<1>3. budget' \in [Kinds -> Int]
  BY <1>2 DEF SettlingBudget
<1>4. budget'["pub"] = budget["pub"] /\ budget'["node"] = budget["node"]
      /\ budget'["suspend"] = budget["suspend"]
  BY <1>1, <1>2 DEF SettlingBudget, Kinds
<1> QED
  BY <1>1, <1>3, <1>4 DEF SettlingBudget

(* Every step of the scenario is a step of a settling network.                *)
LEMMA ScenarioStep ==
    ASSUME ScenarioInv, Settling, MCNext
    PROVE  SettlingNext /\ SettlingBudget'
<1>1. PICK n \in Places[scenario].nodes :
          \/ MCRun(n)
          \/ \E r \in Places[scenario].nodes : MCAdded(n, r)
          \/ \E r \in Node : Removed(n, r) /\ Spend("node")
          \/ \E s \in Sub : <<n, s>> \in Places[scenario].subs /\ AddSubscriber(n, s) /\ Spend("add")
          \/ \E s \in Sub : RemoveSubscriber(n, s) /\ Spend("sub")
          \/ \E p \in Pub : <<n, p>> \in Places[scenario].pubs /\ AddPublisher(n, p) /\ Spend("add")
          \/ \E p \in Pub : RemovePublisher(n, p) /\ Spend("pub")
          \/ Suspend(n) /\ Spend("suspend")
          \/ MCResume(n)
  BY Zenon DEF MCNext
<1>2. Places[scenario].nodes \subseteq Node /\ SettleInv /\ SettlingBudget
  BY PlacesAssumption, Zenon DEF ScenarioInv
<1>3. n \in Node
  BY <1>2, Zenon
<1>4. UNCHANGED budget => SettlingBudget'
  BY <1>2, Zenon DEF SettlingBudget
<1>5. /\ Spend("add") \/ Spend("sub") => SettlingBudget'
      /\ ~ Spend("node") /\ ~ Spend("pub") /\ ~ Spend("suspend")
  BY <1>2, SpendSettling DEF Kinds
<1>6. ~ MCResume(n)
  BY <1>2, <1>3, Zenon DEF SettleInv, NoneSuspended, MCResume, Resume
<1> QED
  BY <1>1, <1>2, <1>3, <1>4, <1>5, <1>6, Zenon DEF SettlingNext, MCRun, MCAdded

(* In the settling scenario, with any nodes, publishers, subscribers and      *)
(* channels, two nodes that discovered each other agree whenever no control   *)
(* message is underway (addRemotePubToLocalSubs, processSubscription).        *)
THEOREM SettlingScenarioInSync == MCSpec => []SettlingInSync
<1>1. ASSUME MCInit
      PROVE  ScenarioInv
  <2>1. scenario \in Scenarios /\ SettleInv
    BY <1>1, SettlingStart, Zenon DEF MCInit
  <2>2. ASSUME Settling
        PROVE  SettlingBudget
    <3>1. budget = [add |-> 3, pub |-> 0, sub |-> 1, node |-> 0, suspend |-> 0]
      BY <1>1, <2>2 DEF MCInit, Settling, Budgets
    <3> QED
      BY <3>1 DEF SettlingBudget, Kinds
  <2> QED
    BY <2>1, <2>2, Zenon DEF ScenarioInv
<1>2. ASSUME ScenarioInv, [MCNext]_mcVars
      PROVE  ScenarioInv'
  <2>1. scenario' = scenario
    BY <1>2, Zenon DEF MCNext, mcVars
  <2>2. ASSUME Settling
        PROVE  SettleInv' /\ SettlingBudget'
    <3>1. CASE MCNext
      BY <1>2, <2>2, <3>1, ScenarioStep, SettlingStep, Zenon DEF ScenarioInv
    <3>2. CASE UNCHANGED mcVars
      <4>1. UNCHANGED vars /\ UNCHANGED budget
        BY <3>2 DEF mcVars
      <4> QED
        BY <1>2, <2>2, <4>1, SettlingStep, Zenon DEF ScenarioInv, SettlingBudget
    <3> QED
      BY <1>2, <3>1, <3>2, Zenon
  <2> QED
    BY <1>2, <2>1, <2>2, Zenon DEF ScenarioInv, Settling
<1>3. ScenarioInv => SettlingInSync
  BY SettledInSync, Zenon DEF ScenarioInv, SettlingInSync
<1> QED
  BY <1>1, <1>2, <1>3, PTL DEF MCSpec

=============================================================================
