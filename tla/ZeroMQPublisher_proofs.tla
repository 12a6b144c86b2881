----------------------- MODULE ZeroMQPublisher_proofs -----------------------
(***************************************************************************)
(* Publishers on top of the nodes: they only watch what their nodes do     *)
(* (PublishersRefineNodes), so everything proved of the nodes holds with   *)
(* them, and their maps stay well typed.                                   *)
(*                                                                         *)
(* For a growing network, in which publishers, subscribers and nodes are   *)
(* added and nothing is removed, suspended or reconnected, the count of    *)
(* subscribers is right.  That counts are exact when nothing is underway   *)
(* is not inductive; GrowInv adds to SettleInv what a publisher knows      *)
(* meanwhile: that it has heard of a subscriber from its node exactly when *)
(* the node holds the subscription, and from the XPUB socket exactly when  *)
(* the subscription there was read, and that who has been heard of from    *)
(* both sides is counted.                                                  *)
(***************************************************************************)
EXTENDS ZeroMQNode_proofs, MCZeroMQPublisher

-----------------------------------------------------------------------------
(* Publishers only watch what their nodes do.                                 *)

(* Every step of nodes and publishers is a step of the nodes, or leaves them  *)
(* alone.                                                                     *)
LEMMA PubSubStep ==
    ASSUME [PubSubNext]_pubSubVars
    PROVE  [Next]_vars
<1>1. CASE UNCHANGED pubSubVars
  BY <1>1 DEF pubSubVars
<1>2. ASSUME NEW p \in Pub, NEW s \in Sub, ReadSubscription(p, s) \/ Reconnect(p, s)
      PROVE  UNCHANGED vars
  BY <1>2 DEF ReadSubscription, Reconnect
<1>3. ASSUME NEW n \in Node, PSRun(n)
      PROVE  Run(n)
  BY <1>3, Zenon DEF PSRun, Run, PubProcessSubscribe, PubProcessUnsubscribe
<1>4. ASSUME NEW n \in Node,
             \/ PSRun(n)
             \/ \E r \in Node : PSAdded(n, r) \/ PSRemoved(n, r)
             \/ \E s \in Sub : PSAddSubscriber(n, s) \/ PSRemoveSubscriber(n, s)
             \/ \E p \in Pub : PSAddPublisher(n, p) \/ PSRemovePublisher(n, p)
             \/ PSSuspend(n)
             \/ PSResume(n)
      PROVE  Next
  BY <1>3, <1>4, Zenon
     DEF Next, PSAdded, PSRemoved, PSAddSubscriber, PSRemoveSubscriber, PSAddPublisher,
         PSRemovePublisher, PSSuspend, PSResume
<1> QED
  BY <1>1, <1>2, <1>4, Zenon DEF PubSubNext

(* The nodes of a network with publishers behave as ZeroMQNode says, so that  *)
(* all that holds of them holds whatever the publishers and the XPUB sockets  *)
(* do.                                                                        *)
THEOREM PublishersRefineNodes == PubSubSpec => Spec
<1>1. PubSubInit => Init
  BY DEF PubSubInit
<1>2. [PubSubNext]_pubSubVars => [Next]_vars
  BY PubSubStep
<1> QED
  BY <1>1, <1>2, PTL DEF PubSubSpec, Spec

-----------------------------------------------------------------------------
(* addedSubscriber and removedSubscriber.                                     *)

\* The subscribers a publisher in state h has heard of from its node, and the
\* ones whose subscription arrived at its XPUB socket.
OfNodes(h) == DOMAIN h.pending \cup DOMAIN h.subs
OfSocket(h) == h.pendingZMQ \cup DOMAIN h.subs

(* What it takes to be the state of a publisher (its three maps and the flag  *)
(* of suspend).                                                               *)
LEMMA PublisherFields ==
    ASSUME NEW h
    PROVE  h \in PublisherState <=>
               /\ h = [pending |-> h.pending, pendingZMQ |-> h.pendingZMQ, subs |-> h.subs,
                       isSuspended |-> h.isSuspended]
               /\ h.pending \in Maps(Sub, Node \cup {None})
               /\ h.pendingZMQ \in SUBSET Sub
               /\ h.subs \in Maps(Sub, Node \cup {None})
               /\ h.isSuspended \in BOOLEAN
BY DEF PublisherState

(* Assignment to and erasing from the maps of a publisher.                    *)
LEMMA PublisherPut ==
    ASSUME NEW f \in Maps(Sub, Node \cup {None}), NEW s \in Sub, NEW v \in Node \cup {None}
    PROVE  /\ Put(f, s, v) \in Maps(Sub, Node \cup {None})
           /\ DOMAIN Put(f, s, v) = DOMAIN f \cup {s}
<1>1. DOMAIN f \subseteq Sub /\ f \in [DOMAIN f -> Node \cup {None}]
  BY MapsMember
<1>2. Put(f, s, v) \in [DOMAIN f \cup {s} -> Node \cup {None}]
  BY <1>1 DEF Put
<1> QED
  BY <1>1, <1>2, MapsMember DEF Put

(* erase() on one of its maps.                                                *)
LEMMA PublisherErase ==
    ASSUME NEW f \in Maps(Sub, Node \cup {None}), NEW K
    PROVE  /\ Erase(f, K) \in Maps(Sub, Node \cup {None})
           /\ DOMAIN Erase(f, K) = DOMAIN f \ K
<1> DEFINE T == Node \cup {None}
<1>1. f \in Maps(Sub, T)
  OBVIOUS
<1> HIDE DEF T
<1>2. Erase(f, K) \in Maps(Sub, T) /\ DOMAIN Erase(f, K) = DOMAIN f \ K
  BY <1>1, EraseMap
<1> QED
  BY <1>2 DEF T

(* Asking the greeter keeps the entries there are and adds some of S.         *)
LEMMA AskGreeterMap ==
    ASSUME NEW p, NEW f \in Maps(Sub, Node \cup {None}), NEW S, S \subseteq Sub
    PROVE  /\ AskGreeter(p, f, S) \in Maps(Sub, Node \cup {None})
           /\ DOMAIN f \subseteq DOMAIN AskGreeter(p, f, S)
           /\ DOMAIN AskGreeter(p, f, S) \subseteq DOMAIN f \cup S
<1>1. DOMAIN f \subseteq Sub /\ f \in [DOMAIN f -> Node \cup {None}]
  BY MapsMember
<1>2. CASE p \in Greeted
  <2> DEFINE g == [s \in DOMAIN f \cup S |-> IF s \in DOMAIN f THEN f[s] ELSE None]
  <2>1. g \in [DOMAIN f \cup S -> Node \cup {None}] /\ DOMAIN g = DOMAIN f \cup S
    BY <1>1
  <2>2. AskGreeter(p, f, S) = g
    BY <1>2 DEF AskGreeter
  <2> HIDE DEF g
  <2>3. g \in Maps(Sub, Node \cup {None})
    BY <1>1, <2>1, MapsMember
  <2> QED
    BY <2>1, <2>2, <2>3
<1>3. CASE p \notin Greeted
  BY <1>3 DEF AskGreeter
<1> QED
  BY <1>2, <1>3

\* Publisher state g follows h: what it heard of from its nodes grew by S, and
\* if at most subscribers of T had been left waiting, none is.
HasHeard(g, h, S, T) ==
    /\ g \in PublisherState
    /\ g.isSuspended = h.isSuspended
    /\ OfSocket(g) = OfSocket(h)
    /\ OfNodes(g) = OfNodes(h) \cup S
    /\ h.pendingZMQ \cap DOMAIN h.pending \subseteq T => g.pendingZMQ \cap DOMAIN g.pending = {}

(* A subscriber counts once it was heard of from both sides: addedSubscriber  *)
(* loses none it heard of from either side, adds none it did not hear of, and *)
(* leaves none waiting that both have told it of.                             *)
LEMMA AddedSubscriberEffect ==
    ASSUME NEW p \in Pub, NEW h \in PublisherState, NEW r, r \in Node \/ r = None,
           NEW s \in Sub, NEW g, g = AddedSubscriber(p, h, r, s)
    PROVE  HasHeard(g, h, IF r = None THEN {} ELSE {s}, IF r = None THEN {s} ELSE {})
<1> USE DEF HasHeard
<1> DEFINE pending == IF r = None THEN h.pending ELSE Put(h.pending, s, r)
<1>1. /\ h.pending \in Maps(Sub, Node \cup {None}) /\ h.pendingZMQ \in SUBSET Sub
      /\ h.subs \in Maps(Sub, Node \cup {None}) /\ h.isSuspended \in BOOLEAN
  BY PublisherFields, Zenon
<1>2. CASE r # None /\ s \in DOMAIN h.pending
  <2>1. g = h
    BY <1>2 DEF AddedSubscriber
  <2> QED
    BY <1>2, <2>1 DEF OfNodes
<1>3. CASE ~ (r # None /\ s \in DOMAIN h.pending)
  <2>1. /\ pending \in Maps(Sub, Node \cup {None})
        /\ DOMAIN pending = DOMAIN h.pending \cup (IF r = None THEN {} ELSE {s})
    <3>1. CASE r = None
      BY <1>1, <3>1
    <3>2. CASE r # None
      <4>1. /\ Put(h.pending, s, r) \in Maps(Sub, Node \cup {None})
            /\ DOMAIN Put(h.pending, s, r) = DOMAIN h.pending \cup {s}
        BY <1>1, PublisherPut, Zenon
      <4> QED
        BY <3>2, <4>1
    <3> QED
      BY <3>1, <3>2
  <2>2. g = IF s \in DOMAIN pending /\ s \in h.pendingZMQ THEN Establish(p, h, pending, s)
            ELSE [h EXCEPT !.pending = pending]
    BY <1>3, Zenon DEF AddedSubscriber
  <2> HIDE DEF pending
  <2>3. CASE s \in DOMAIN pending /\ s \in h.pendingZMQ
    <3> DEFINE subs == Put(h.subs, s, pending[s])
               left == Erase(pending, {s})
               asked == AskGreeter(p, left, {s})
    <3>1. g = [h EXCEPT !.subs = subs, !.pending = asked, !.pendingZMQ = h.pendingZMQ \ {s}]
      BY <2>2, <2>3 DEF Establish
    <3>2. pending[s] \in Node \cup {None}
      BY <2>1, <2>3, MapsMember
    <3>3. subs \in Maps(Sub, Node \cup {None}) /\ DOMAIN subs = DOMAIN h.subs \cup {s}
      BY <1>1, <3>2, PublisherPut, Zenon
    <3>4. left \in Maps(Sub, Node \cup {None}) /\ DOMAIN left = DOMAIN pending \ {s}
      BY <2>1, PublisherErase, Zenon
    <3> HIDE DEF left, subs
    <3>0. {s} \subseteq Sub
      OBVIOUS
    <3>5. /\ asked \in Maps(Sub, Node \cup {None})
          /\ DOMAIN left \subseteq DOMAIN asked /\ DOMAIN asked \subseteq DOMAIN left \cup {s}
      BY <3>0, <3>4, AskGreeterMap, Zenon
    <3> HIDE DEF asked
    <3>6. /\ g.subs = subs /\ g.pending = asked /\ g.pendingZMQ = h.pendingZMQ \ {s}
          /\ g.isSuspended = h.isSuspended
          /\ g \in PublisherState
      BY <1>1, <3>1, <3>3, <3>5, Zenon DEF PublisherState
    <3>7. OfSocket(g) = OfSocket(h)
      BY <2>3, <3>3, <3>6 DEF OfSocket
    <3>8. OfNodes(g) = OfNodes(h) \cup (IF r = None THEN {} ELSE {s})
      BY <2>1, <2>3, <3>3, <3>4, <3>5, <3>6 DEF OfNodes
    <3>9. g.pendingZMQ \cap DOMAIN g.pending \subseteq (h.pendingZMQ \cap DOMAIN h.pending) \ {s}
      BY <2>1, <3>4, <3>5, <3>6
    <3> QED
      BY <3>6, <3>7, <3>8, <3>9
  <2>4. CASE ~ (s \in DOMAIN pending /\ s \in h.pendingZMQ)
    <3>1. g = [h EXCEPT !.pending = pending]
      BY <2>2, <2>4
    <3>2. /\ g.subs = h.subs /\ g.pending = pending /\ g.pendingZMQ = h.pendingZMQ
          /\ g.isSuspended = h.isSuspended
          /\ g \in PublisherState
      BY <1>1, <2>1, <3>1 DEF PublisherState
    <3> QED
      BY <2>1, <2>4, <3>2 DEF OfSocket, OfNodes
  <2> QED
    BY <2>3, <2>4
<1> QED
  BY <1>2, <1>3

(* The same, told by a node and told by the socket.                           *)
LEMMA AddedByNode ==
    ASSUME NEW p \in Pub, NEW h \in PublisherState, NEW r \in Node, NEW s \in Sub
    PROVE  HasHeard(AddedSubscriber(p, h, r, s), h, {s}, {})
<1>1. r # None
  BY NodeAssumption
<1>2. HasHeard(AddedSubscriber(p, h, r, s), h, IF r = None THEN {} ELSE {s},
                                               IF r = None THEN {s} ELSE {})
  BY AddedSubscriberEffect, Zenon
<1> QED
  BY <1>1, <1>2

(* addedSubscriber() as run() calls it for a subscription read from the XPUB  *)
(* socket.                                                                    *)
LEMMA AddedBySocket ==
    ASSUME NEW p \in Pub, NEW h \in PublisherState, NEW s \in Sub
    PROVE  HasHeard(AddedSubscriber(p, h, None, s), h, {}, {s})
<1>1. ASSUME NEW r, r = None
      PROVE  HasHeard(AddedSubscriber(p, h, r, s), h, IF r = None THEN {} ELSE {s},
                                                      IF r = None THEN {s} ELSE {})
  BY <1>1, AddedSubscriberEffect, Zenon
<1> QED
  BY <1>1

(* removedSubscriber forgets the subscribers S as far as they are counted.    *)
LEMMA RemovedSubscribersEffect ==
    ASSUME NEW p \in Pub, NEW h \in PublisherState, NEW S, S \subseteq Sub,
           NEW g, g = RemovedSubscribers(p, h, S)
    PROVE  /\ g \in PublisherState
           /\ g.isSuspended = h.isSuspended
           /\ OfNodes(h) \ S \subseteq OfNodes(g)
<1> DEFINE subs == Erase(h.subs, S)
           asked == AskGreeter(p, h.pending, S)
<1>1. /\ h.pending \in Maps(Sub, Node \cup {None}) /\ h.pendingZMQ \in SUBSET Sub
      /\ h.subs \in Maps(Sub, Node \cup {None}) /\ h.isSuspended \in BOOLEAN
  BY PublisherFields
<1>2. g = [h EXCEPT !.subs = subs, !.pending = asked]
  BY DEF RemovedSubscribers
<1>3. subs \in Maps(Sub, Node \cup {None}) /\ DOMAIN subs = DOMAIN h.subs \ S
  BY <1>1, PublisherErase, Zenon
<1>4. asked \in Maps(Sub, Node \cup {None}) /\ DOMAIN h.pending \subseteq DOMAIN asked
  BY <1>1, AskGreeterMap, Zenon
<1> HIDE DEF subs, asked
<1>5. /\ g.subs = subs /\ g.pending = asked /\ g.isSuspended = h.isSuspended
      /\ g \in PublisherState
  BY <1>1, <1>2, <1>3, <1>4, Zenon DEF PublisherState
<1> QED
  BY <1>3, <1>4, <1>5 DEF OfNodes

-----------------------------------------------------------------------------
(* Type correctness.                                                          *)

(* Every step of nodes and publishers is well-typed.                          *)
LEMMA PubSubNextType ==
    ASSUME TypeOK, PubSubTypeOK, [PubSubNext]_pubSubVars
    PROVE  PubSubTypeOK'
<1>0. publisher \in [Pub -> PublisherState] /\ xpub \subseteq Pub \X Sub
  BY DEF PubSubTypeOK
<1>1. CASE UNCHANGED pubSubVars
  BY <1>0, <1>1 DEF pubSubVars, PubSubTypeOK
<1>2. ASSUME Connect, UNCHANGED publisher
      PROVE  PubSubTypeOK'
  BY <1>0, <1>2 DEF Connect, PubSubTypeOK
<1>3. ASSUME UNCHANGED <<publisher, xpub>>
      PROVE  PubSubTypeOK'
  BY <1>0, <1>3 DEF PubSubTypeOK
<1>4. ASSUME NEW p \in Pub, NEW g \in PublisherState, publisher' = [publisher EXCEPT ![p] = g],
             xpub' \subseteq xpub
      PROVE  PubSubTypeOK'
  BY <1>0, <1>4 DEF PubSubTypeOK
<1>5. ASSUME publisher' \in [Pub -> PublisherState], xpub' \subseteq Pub \X Sub
      PROVE  PubSubTypeOK'
  BY <1>5 DEF PubSubTypeOK
<1>6. ASSUME NEW n \in Node, PSRun(n)
      PROVE  PubSubTypeOK'
  <2>1. CASE PubProcessSubscribe(n)
    <3> DEFINE p == Part(n).pub
               g == AddedSubscriber(p, publisher[p], remoteId[n], Part(n).sub)
    <3>1. Dispatch(n, "SUBSCRIBE") /\ UNCHANGED xpub
          /\ publisher' = IF p \in localPubs[n] /\ ~KnownSubscription(n)
                          THEN [publisher EXCEPT ![p] = g] ELSE publisher
      BY <2>1 DEF PubProcessSubscribe, ProcessSubscribe
    <3>2. p \in Pub /\ remoteId[n] \in Node /\ Part(n).sub \in Sub
      BY <3>1, DispatchType
    <3>3. g \in PublisherState
      BY <1>0, <3>2, AddedByNode DEF HasHeard
    <3> HIDE DEF g, p
    <3> QED
      BY <1>3, <1>4, <3>1, <3>2, <3>3
  <2>2. CASE PubProcessUnsubscribe(n)
    <3> DEFINE p == Part(n).pub
               g == RemovedSubscribers(p, publisher[p], {Part(n).sub})
    <3>1. Dispatch(n, "UNSUBSCRIBE") /\ UNCHANGED xpub
          /\ publisher' = IF p \in localPubs[n] /\ KnownSubscription(n)
                          THEN [publisher EXCEPT ![p] = g] ELSE publisher
      BY <2>2 DEF PubProcessUnsubscribe, ProcessUnsubscribe
    <3>2. p \in Pub /\ {Part(n).sub} \subseteq Sub
      BY <3>1, DispatchType
    <3>3. g \in PublisherState
      BY <1>0, <3>2, RemovedSubscribersEffect
    <3> HIDE DEF g, p
    <3> QED
      BY <1>3, <1>4, <3>1, <3>2, <3>3
  <2> QED
    BY <1>2, <1>3, <1>6, <2>1, <2>2 DEF PSRun
<1>7. ASSUME NEW n \in Node, NEW r \in Node, PSRemoved(n, r)
      PROVE  PubSubTypeOK'
  <2>1. \A p \in Pub : SubscriptionsOf(n, r, p) \subseteq Sub
    <3> TAKE p \in Pub
    <3>1. subscriptions[n] \in Maps(Node, Maps(Pub, SUBSET Sub))
      BY Zenon DEF TypeOK
    <3>2. GetMap(subscriptions[n], r) \in Maps(Pub, SUBSET Sub)
      BY <3>1, GetMapType
    <3> QED
      BY <3>2, GetType DEF SubscriptionsOf
  <2>2. \A p \in Pub : RemovedSubscribers(p, publisher[p], SubscriptionsOf(n, r, p)) \in PublisherState
    BY <1>0, <2>1, RemovedSubscribersEffect
  <2> QED
    BY <1>0, <1>5, <1>7, <2>2 DEF PSRemoved
<1>8. ASSUME NEW n \in Node, PSSuspend(n) \/ PSResume(n)
      PROVE  PubSubTypeOK'
  <2>1. \A p \in Pub, b \in BOOLEAN :
            [publisher[p] EXCEPT !.isSuspended = b] \in PublisherState
    BY <1>0, Zenon DEF PublisherState
  <2>2. \A p \in Pub : publisher[p].isSuspended \in BOOLEAN
    BY <1>0 DEF PublisherState
  <2>3. CASE PSSuspend(n)
    BY <1>0, <1>5, <2>1, <2>2, <2>3, Zenon DEF PSSuspend
  <2>4. CASE PSResume(n)
    BY <1>0, <1>5, <2>1, <2>2, <2>4, Zenon DEF PSResume
  <2> QED
    BY <1>8, <2>3, <2>4
<1>9. ASSUME NEW p \in Pub, NEW s \in Sub, ReadSubscription(p, s) \/ Reconnect(p, s)
      PROVE  PubSubTypeOK'
  <2>1. CASE Reconnect(p, s)
    BY <1>0, <1>5, <2>1 DEF Reconnect
  <2>2. CASE ReadSubscription(p, s)
    <3> DEFINE h == [publisher[p] EXCEPT !.pendingZMQ = @ \cup {s}]
               g == AddedSubscriber(p, h, None, s)
    <3>1. h \in PublisherState
      BY <1>0, Zenon DEF PublisherState
    <3>2. publisher' = [publisher EXCEPT ![p] = g] /\ xpub' = xpub \ {<<p, s>>}
      BY <2>2, Zenon DEF ReadSubscription
    <3>3. g \in PublisherState
      BY <3>1, AddedBySocket DEF HasHeard
    <3> HIDE DEF g
    <3> QED
      BY <1>4, <3>2, <3>3, Zenon
  <2> QED
    BY <1>9, <2>1, <2>2
<1> QED
  BY <1>1, <1>2, <1>3, <1>6, <1>7, <1>8, <1>9, Zenon
     DEF PubSubNext, PSAdded, PSAddSubscriber, PSRemoveSubscriber, PSAddPublisher, PSRemovePublisher

(* The maps of every publisher hold nothing but subscriber uuids, with the    *)
(* uuid of a node or none (addedSubscriber, removedSubscriber, and the        *)
(* operator[] that greets).                                                   *)
THEOREM PubSubTypeCorrect == PubSubSpec => []PubSubTypeOK
<1>1. ASSUME PubSubInit
      PROVE  PubSubTypeOK
  <2>1. EmptyMap \in Maps(Sub, Node \cup {None})
    BY EmptyMapType
  <2> QED
    BY <1>1, <2>1 DEF PubSubInit, PubSubTypeOK, PublisherState
<1>2. TypeOK /\ PubSubTypeOK /\ [PubSubNext]_pubSubVars => PubSubTypeOK'
  BY PubSubNextType
<1> QED
  BY <1>1, <1>2, PublishersRefineNodes, TypeCorrect, PTL DEF PubSubSpec

-----------------------------------------------------------------------------
(* A growing network: nodes, publishers and subscribers come, and none goes.  *)

GrowingNext ==
    \/ \E n \in Node :
           \/ PSRun(n)
           \/ \E r \in Node : PSAdded(n, r)
           \/ \E s \in Sub : PSAddSubscriber(n, s)
           \/ \E p \in Pub : PSAddPublisher(n, p)
    \/ \E p \in Pub, s \in Sub : ReadSubscription(p, s)

GrowingSpec == PubSubInit /\ [][GrowingNext]_pubSubVars

\* Nobody unsubscribes.
Grows(e) == \A j \in DOMAIN e : e[j].type # "UNSUBSCRIBE"
AllGrow(w) == \A i \in 1 .. Len(w) : Grows(w[i])
NoUnsubscribe ==
    /\ \A q, k \in Node : AllGrow(wire[q][k])
    /\ \A n \in Node : Grows(envelope[n].parts)

\* A node of publisher p knows of a subscription of s to it.
Requested(p, s) == \E n, r \in Node : s \in SubscriptionsOf(n, r, p)

\* A publisher has heard from its nodes exactly of the subscribers they know of.
ToldByNodes ==
    \A p \in Pub, s \in Sub : s \in OfNodes(publisher[p]) <=> Requested(p, s)

\* The subscription of a connected subscriber, and of no other, is underway to
\* the XPUB socket or has been read from it, and not both.
ToldBySocket ==
    \A p \in Pub, s \in Sub :
        /\ p \in connections[s] <=> <<p, s>> \in xpub \/ s \in OfSocket(publisher[p])
        /\ ~ (<<p, s>> \in xpub /\ s \in OfSocket(publisher[p]))

\* No subscriber waits to be counted that was heard of from both sides.
NoneForgotten ==
    \A p \in Pub : /\ publisher[p].pendingZMQ \cap DOMAIN publisher[p].pending = {}
                   /\ ~ publisher[p].isSuspended

\* The inductive invariant of a growing network.
GrowInv ==
    /\ SettleInv
    /\ PubSubTypeOK
    /\ NoUnsubscribe
    /\ ToldByNodes
    /\ ToldBySocket
    /\ NoneForgotten

(* Every step of a growing network is one of a settling network.              *)
LEMMA GrowingStep ==
    ASSUME [GrowingNext]_pubSubVars
    PROVE  [SettlingNext]_vars /\ [PubSubNext]_pubSubVars
<1>1. [PubSubNext]_pubSubVars
  BY Zenon DEF GrowingNext, PubSubNext
<1>2. CASE UNCHANGED pubSubVars
  BY <1>1, <1>2 DEF pubSubVars
<1>3. ASSUME NEW p \in Pub, NEW s \in Sub, ReadSubscription(p, s)
      PROVE  UNCHANGED vars
  BY <1>3 DEF ReadSubscription
<1>4. ASSUME NEW n \in Node, PSRun(n)
      PROVE  Run(n)
  BY <1>4, Zenon DEF PSRun, Run, PubProcessSubscribe, PubProcessUnsubscribe
<1>5. ASSUME NEW n \in Node,
             \/ PSRun(n)
             \/ \E r \in Node : PSAdded(n, r)
             \/ \E s \in Sub : PSAddSubscriber(n, s)
             \/ \E p \in Pub : PSAddPublisher(n, p)
      PROVE  SettlingNext
  BY <1>4, <1>5, Zenon DEF SettlingNext, PSAdded, PSAddSubscriber, PSAddPublisher
<1> QED
  BY <1>1, <1>2, <1>3, <1>5, Zenon DEF GrowingNext

(* Sending no UNSUBSCRIBE.                                                    *)
LEMMA GrowingEnvelopes ==
    ASSUME NEW msgs, msgs \subseteq Message, \A m \in msgs : m.type = "SUBSCRIBE"
    PROVE  Envelopes(msgs) \in Seq(Envelope) /\ AllGrow(Envelopes(msgs))
<1>1. \A m \in msgs : Grows(<<m>>)
  BY DEF Grows
<1> QED
  <2>1. /\ Envelopes(msgs) \in Seq(Envelope)
        /\ \A i \in 1 .. Len(Envelopes(msgs)) : \E m \in msgs : Envelopes(msgs)[i] = <<m>>
    BY EnvelopesOf, MessagesListed, Zenon
  <2> QED
    BY <1>1, <2>1, Zenon DEF AllGrow

(* Nothing that leaves is appended when nothing that leaves is sent.          *)
LEMMA GrowingConcat ==
    ASSUME NEW w \in Seq(Envelope), NEW x \in Seq(Envelope), AllGrow(w), AllGrow(x)
    PROVE  AllGrow(w \o x)
<1>1. /\ Len(w \o x) = Len(w) + Len(x) /\ Len(w) \in Nat /\ Len(x) \in Nat
      /\ \A i \in 1 .. Len(w \o x) : i \notin 1 .. Len(w) => i - Len(w) \in 1 .. Len(x)
      /\ \A i \in 1 .. Len(w \o x) :
             (w \o x)[i] = IF i \in 1 .. Len(w) THEN w[i] ELSE x[i - Len(w)]
  OBVIOUS
<1> QED
  BY <1>1 DEF AllGrow

(* So sending such messages keeps the wire free of requests to leave.         *)
LEMMA GrowingSend ==
    ASSUME TypeOK, \A q, k \in Node : AllGrow(wire[q][k]), NEW n \in Node, NEW out,
           Send(n, out), \A r \in Node : out[r] \in Seq(Envelope) /\ AllGrow(out[r])
    PROVE  \A q, k \in Node : AllGrow(wire'[q][k])
<1>1. wire \in [Node -> [Node -> Seq(Envelope)]]
  BY DEF TypeOK
<1>2. /\ \A r \in Node : wire'[n][r] = wire[n][r] \o out[r]
      /\ \A q, r \in Node : q # n => wire'[q][r] = wire[q][r]
  BY <1>1, SendEffect, Zenon
<1>3. \A r \in Node : AllGrow(wire[n][r] \o out[r])
  BY <1>1, GrowingConcat
<1> QED
  BY <1>2, <1>3, Zenon

(* Reading on in an envelope without UNSUBSCRIBE.                             *)
LEMMA GrowingEndOfPart ==
    ASSUME TypeOK, \A k \in Node : Grows(envelope[k].parts),
           NEW n \in Node, envelope[n].parts # <<>>, EndOfPart(n)
    PROVE  \A k \in Node : Grows(envelope'[k].parts)
<1> DEFINE e == envelope[n].parts
<1>1. e \in Seq(Message) /\ e # <<>>
  BY DEF TypeOK, Envelope
<1>2. /\ envelope'[n].parts = <<>> \/ envelope'[n].parts = Tail(e)
      /\ \A k \in Node : k # n => envelope'[k].parts = envelope[k].parts
  BY EndOfPartEffect, Zenon
<1>3. Grows(e)
  OBVIOUS
<1> HIDE DEF e
<1>4. Grows(<<>>)
  BY DEF Grows
<1>5. Grows(Tail(e))
  BY <1>1, <1>3 DEF Grows
<1> QED
  BY <1>2, <1>4, <1>5, Zenon

(* New connections tell the XPUB sockets, and no node anything.               *)
LEMMA ConnectGrows ==
    ASSUME GrowInv, Connect, UNCHANGED <<publisher, subscriptions>>,
           \A s \in Sub : connections[s] \subseteq connections'[s]
    PROVE  ToldByNodes' /\ ToldBySocket' /\ NoneForgotten'
<1>1. /\ ToldByNodes /\ ToldBySocket /\ NoneForgotten
      /\ publisher' = publisher /\ subscriptions' = subscriptions
  BY DEF GrowInv
<1>2. ToldByNodes' /\ NoneForgotten'
  BY <1>1, Zenon DEF ToldByNodes, NoneForgotten, Requested, SubscriptionsOf
<1>3. ASSUME NEW p \in Pub, NEW s \in Sub
      PROVE  <<p, s>> \in xpub' <=> <<p, s>> \in xpub \/ p \in connections'[s] \ connections[s]
  BY <1>1 DEF Connect, NoneForgotten
<1>4. ToldBySocket'
  BY <1>1, <1>3, Zenon DEF ToldBySocket
<1> QED
  BY <1>2, <1>4

(* Nothing changes for the publishers.                                        *)
LEMMA SameForPublishers ==
    ASSUME GrowInv, UNCHANGED <<publisher, xpub, subscriptions, connections>>
    PROVE  ToldByNodes' /\ ToldBySocket' /\ NoneForgotten'
BY DEF GrowInv, ToldByNodes, ToldBySocket, NoneForgotten, Requested, SubscriptionsOf

(* addRemotePubToLocalSubs only connects, and only subscribes.                *)
LEMMA AddRemotePubGrows ==
    ASSUME TypeOK, \A q, k \in Node : AllGrow(wire[q][k]), NEW n \in Node, NEW r \in Node,
           NEW pubs, pubs \subseteq Pub, NEW sent \in Seq(Envelope), AllGrow(sent),
           AddRemotePubToLocalSubs(n, r, pubs, sent)
    PROVE  /\ \A s \in Sub : connections[s] \subseteq connections'[s]
           /\ \A q, k \in Node : AllGrow(wire'[q][k])
<1>1. \A s \in Sub : connections[s] \subseteq connections'[s]
  BY Zenon DEF AddRemotePubToLocalSubs
<1>2. PICK moved \in SUBSET Pub :
          /\ Get(remotePubs'[n], r) = Get(remotePubs[n], r) \cup moved
          /\ Get(remotePubs'[n], r) \cup Get(pendingRemotePubs'[n], r) = Heard(n, r) \cup pubs
          /\ moved # {} => r \in nodes'[n]
          /\ Send(n, [q \in Node |->
              IF q = r THEN sent \o Envelopes(SubscribeAll(moved, localSubs[n])) ELSE <<>>])
  BY AddRemotePubEffect, MessagesListed, Zenon
<1> DEFINE msgs == SubscribeAll(moved, localSubs[n])
           out == [q \in Node |-> IF q = r THEN sent \o Envelopes(msgs) ELSE <<>>]
<1>3. localSubs[n] \subseteq Sub
  BY Zenon DEF TypeOK
<1>4. msgs \subseteq Message /\ \A m \in msgs : m.type = "SUBSCRIBE"
  BY <1>3, SubscribeAllType DEF SubscribeAll, Subscribe
<1> HIDE DEF msgs
<1>5. Envelopes(msgs) \in Seq(Envelope) /\ AllGrow(Envelopes(msgs))
  BY <1>4, GrowingEnvelopes
<1>6. sent \o Envelopes(msgs) \in Seq(Envelope) /\ AllGrow(sent \o Envelopes(msgs))
  BY <1>5, GrowingConcat
<1>7. <<>> \in Seq(Envelope) /\ AllGrow(<<>>)
  BY DEF AllGrow
<1>8. \A q \in Node : out[q] \in Seq(Envelope) /\ AllGrow(out[q])
  BY <1>6, <1>7
<1>9. Send(n, out)
  BY <1>2 DEF msgs
<1> HIDE DEF out
<1> QED
  BY <1>1, <1>8, <1>9, GrowingSend, Zenon

(* added(): a node is connected to and greeted with its publishers.           *)
LEMMA AddedGrows ==
    ASSUME GrowInv, NEW n \in Node, NEW r \in Node, PSAdded(n, r)
    PROVE  NoUnsubscribe' /\ ToldByNodes' /\ ToldBySocket' /\ NoneForgotten'
<1>1. /\ TypeOK /\ NoUnsubscribe /\ AddRemotePubToLocalSubs(n, r, {}, PubList(n))
      /\ UNCHANGED <<publisher, subscriptions, envelope>> /\ Connect
  BY DEF GrowInv, SettleInv, IndInv, PSAdded, Added, readVars
<1>2. PubList(n) \in Seq(Envelope) /\ AllGrow(PubList(n))
  <2>1. \A e \in Seq(Announcement(n)) : Grows(e)
    BY DEF Announcement, Grows, PubAdded
  <2> QED
    BY <1>1, <2>1, PubListAll, MessagesListed, Zenon DEF AllGrow
<1>3. /\ \A s \in Sub : connections[s] \subseteq connections'[s]
      /\ \A q, k \in Node : AllGrow(wire'[q][k])
  BY <1>1, <1>2, AddRemotePubGrows, Zenon DEF NoUnsubscribe
<1>4. NoUnsubscribe'
  BY <1>1, <1>3, Zenon DEF NoUnsubscribe
<1> QED
  BY <1>1, <1>3, <1>4, ConnectGrows

(* processPubAdded(): subscribers connect, and the publisher has yet to hear  *)
(* of them.                                                                   *)
LEMMA ProcessPubAddedGrows ==
    ASSUME GrowInv, NEW n \in Node, ProcessPubAdded(n), Connect, UNCHANGED publisher
    PROVE  NoUnsubscribe' /\ ToldByNodes' /\ ToldBySocket' /\ NoneForgotten'
<1>1. /\ TypeOK /\ NoUnsubscribe /\ AddRemotePubToLocalSubs(n, remoteId[n], {Part(n).pub}, <<>>)
      /\ UNCHANGED <<publisher, subscriptions>> /\ Dispatch(n, "PUB_ADDED")
  BY Zenon DEF GrowInv, SettleInv, IndInv, ProcessPubAdded
<1>2. remoteId[n] \in Node /\ {Part(n).pub} \subseteq Pub
  BY <1>1, DispatchType
<1>3. <<>> \in Seq(Envelope) /\ AllGrow(<<>>)
  BY DEF AllGrow
<1>4. /\ \A s \in Sub : connections[s] \subseteq connections'[s]
      /\ \A q, k \in Node : AllGrow(wire'[q][k])
  BY <1>1, <1>2, <1>3, AddRemotePubGrows, Zenon DEF NoUnsubscribe
<1>5. \A k \in Node : Grows(envelope'[k].parts)
  BY <1>1, GrowingEndOfPart DEF NoUnsubscribe, Dispatch
<1>6. NoUnsubscribe'
  BY <1>4, <1>5, Zenon DEF NoUnsubscribe
<1> QED
  BY <1>1, <1>4, <1>6, ConnectGrows

(* addSubscriber(): the requests go to the publishers known by then.          *)
LEMMA AddSubscriberGrows ==
    ASSUME GrowInv, NEW n \in Node, NEW s \in Sub, PSAddSubscriber(n, s)
    PROVE  NoUnsubscribe' /\ ToldByNodes' /\ ToldBySocket' /\ NoneForgotten'
<1> DEFINE msgs(r) == {Subscribe(p, s) : p \in Matching(Get(remotePubs[n], r), s)}
           out == [r \in Node |-> Envelopes(msgs(r))]
<1>1. /\ TypeOK /\ NoUnsubscribe /\ Send(n, out) /\ Connect
      /\ UNCHANGED <<publisher, subscriptions, envelope>>
  BY Zenon DEF GrowInv, SettleInv, IndInv, PSAddSubscriber, AddSubscriber, readVars
<1>2. \A t \in Sub : connections[t] \subseteq connections'[t]
  BY <1>1, Zenon DEF PSAddSubscriber, AddSubscriber, TypeOK
<1>3. ASSUME NEW r \in Node
      PROVE  Envelopes(msgs(r)) \in Seq(Envelope) /\ AllGrow(Envelopes(msgs(r)))
  <2>1. remotePubs[n] \in Maps(Node, SUBSET Pub)
    BY <1>1, Zenon DEF TypeOK
  <2>2. Get(remotePubs[n], r) \in SUBSET Pub
    BY <2>1, GetType
  <2>3. msgs(r) \subseteq Message /\ \A m \in msgs(r) : m.type = "SUBSCRIBE"
    BY <2>2 DEF Message, Subscribe, Matching
  <2> QED
    BY <2>3, GrowingEnvelopes, Zenon
<1> HIDE DEF msgs
<1>4. \A r \in Node : out[r] \in Seq(Envelope) /\ AllGrow(out[r])
  BY <1>3
<1> HIDE DEF out
<1>5. \A q, k \in Node : AllGrow(wire'[q][k])
  BY <1>1, <1>4, GrowingSend DEF NoUnsubscribe
<1>6. NoUnsubscribe'
  BY <1>1, <1>5, Zenon DEF NoUnsubscribe
<1> QED
  BY <1>1, <1>2, <1>6, ConnectGrows

(* addPublisher(): a new publisher has neither subscribers nor connections.   *)
LEMMA AddPublisherGrows ==
    ASSUME GrowInv, NEW n \in Node, NEW p \in Pub, PSAddPublisher(n, p)
    PROVE  NoUnsubscribe' /\ ToldByNodes' /\ ToldBySocket' /\ NoneForgotten'
<1> DEFINE out == [r \in Node |-> IF r \in sockets[n] THEN << <<PubAdded(p)>> >> ELSE <<>>]
<1>1. /\ TypeOK /\ NoUnsubscribe /\ Send(n, out)
      /\ UNCHANGED <<publisher, xpub, subscriptions, connections, envelope>>
  BY Zenon DEF GrowInv, SettleInv, IndInv, PSAddPublisher, AddPublisher, readVars
<1>2. /\ <<>> \in Seq(Envelope) /\ AllGrow(<<>>)
      /\ << <<PubAdded(p)>> >> \in Seq(Envelope) /\ AllGrow(<< <<PubAdded(p)>> >>)
  <2>1. PubAdded(p) \in Message /\ PubAdded(p).type # "UNSUBSCRIBE"
    BY DEF Message, PubAdded
  <2> QED
    BY <2>1 DEF Envelope, AllGrow, Grows
<1>3. \A r \in Node : out[r] \in Seq(Envelope) /\ AllGrow(out[r])
  BY <1>2, Zenon
<1> HIDE DEF out
<1>4. \A q, k \in Node : AllGrow(wire'[q][k])
  BY <1>1, <1>3, GrowingSend DEF NoUnsubscribe
<1>5. NoUnsubscribe'
  BY <1>1, <1>4, Zenon DEF NoUnsubscribe
<1> QED
  BY <1>1, <1>5, SameForPublishers, Zenon

(* A node that reads the uuid of another one tells its publishers nothing     *)
(* yet.                                                                       *)
LEMMA ReadRemoteIdGrows ==
    ASSUME GrowInv, NEW n \in Node, NEW r \in Node, ReadRemoteId(n, r), UNCHANGED <<publisher, xpub>>
    PROVE  NoUnsubscribe' /\ ToldByNodes' /\ ToldBySocket' /\ NoneForgotten'
<1> DEFINE w == wire[r][n]
<1>1. /\ TypeOK /\ NoUnsubscribe /\ UNCHANGED <<publisher, xpub, subscriptions, connections>>
      /\ w # <<>> /\ w \in Seq(Envelope)
      /\ envelope' = [envelope EXCEPT ![n] = [from |-> r, parts |-> Head(w)]]
      /\ wire' = [wire EXCEPT ![r][n] = Tail(@)]
  <2>1. TypeOK /\ NoUnsubscribe
    BY Zenon DEF GrowInv, SettleInv, IndInv
  <2>2. w \in Seq(Envelope)
    BY <2>1 DEF TypeOK
  <2> QED
    BY <2>1, <2>2 DEF ReadRemoteId
<1>2. AllGrow(w)
  BY <1>1, Zenon DEF NoUnsubscribe
<1>3. /\ envelope'[n].parts = Head(w) /\ wire'[r][n] = Tail(w)
      /\ \A k \in Node : k # n => envelope'[k] = envelope[k]
      /\ \A q, k \in Node : q # r \/ k # n => wire'[q][k] = wire[q][k]
  BY <1>1 DEF TypeOK
<1> HIDE DEF w
<1>4. Grows(Head(w)) /\ AllGrow(Tail(w))
  <2>1. Len(w) \in Nat \ {0}
    BY <1>1, QueueEmpty, Zenon
  <2>2. /\ Head(w) = w[1] /\ Len(Tail(w)) = Len(w) - 1
        /\ \A i \in 1 .. Len(Tail(w)) : Tail(w)[i] = w[i + 1]
    BY <1>1, QueueHeadTail
  <2> QED
    BY <1>2, <2>1, <2>2 DEF AllGrow
<1>5. NoUnsubscribe'
  BY <1>1, <1>3, <1>4, Zenon DEF NoUnsubscribe
<1> QED
  BY <1>1, <1>5, SameForPublishers, Zenon

(* The publisher is told of exactly the subscription that is new.             *)
LEMMA ProcessSubscribeGrows ==
    ASSUME GrowInv, NEW n \in Node, PubProcessSubscribe(n)
    PROVE  NoUnsubscribe' /\ ToldByNodes' /\ ToldBySocket' /\ NoneForgotten'
<1> DEFINE p == Part(n).pub
           s == Part(n).sub
           r == remoteId[n]
           g == AddedSubscriber(p, publisher[p], r, s)
<1>1. /\ SettleInv /\ TypeOK /\ PubSubTypeOK /\ NoUnsubscribe
      /\ ToldByNodes /\ ToldBySocket /\ NoneForgotten
  BY Zenon DEF GrowInv, SettleInv, IndInv
<1>2. /\ Dispatch(n, "SUBSCRIBE") /\ envelope[n].parts # <<>> /\ Part(n).type = "SUBSCRIBE"
      /\ EndOfPart(n) /\ UNCHANGED <<connections, wire, xpub>>
  BY DEF PubProcessSubscribe, ProcessSubscribe, Dispatch
<1>3. p \in localPubs[n] /\ p \in Pub /\ s \in Sub /\ r \in Node
  <2>1. r \in Node /\ p \in Pub /\ s \in Sub
    BY <1>1, <1>2, DispatchType
  <2>2. \/ \E pp \in localPubs[remoteId[n]] : Part(n) = PubAdded(pp)
        \/ \E pp \in localPubs[n], ss \in Sub :
               Part(n) = Subscribe(pp, ss) \/ Part(n) = Unsubscribe(pp, ss)
    BY <1>1, <1>2, PartsRead, Zenon
  <2>3. \A pp, ss : /\ PubAdded(pp).type # "SUBSCRIBE"
                    /\ Subscribe(pp, ss).pub = pp
                    /\ Unsubscribe(pp, ss).pub = pp
    BY Zenon DEF PubAdded, Subscribe, Unsubscribe
  <2>4. p \in localPubs[n]
    <3>1. ASSUME NEW pp, Part(n) = PubAdded(pp)
          PROVE  FALSE
      BY <1>2, <2>3, <3>1
    <3>2. ASSUME NEW pp \in localPubs[n], NEW ss,
                 Part(n) = Subscribe(pp, ss) \/ Part(n) = Unsubscribe(pp, ss)
          PROVE  p \in localPubs[n]
      BY <2>3, <3>2
    <3> QED
      BY <2>2, <3>1, <3>2, Zenon
  <2> QED
    BY <2>1, <2>4
<1>4. subscriptions' = [subscriptions EXCEPT ![n] = WithSubscription(@, r, p, s)]
  BY <1>3 DEF PubProcessSubscribe, ProcessSubscribe
<1>5. publisher' = IF KnownSubscription(n) THEN publisher ELSE [publisher EXCEPT ![p] = g]
  BY <1>3, Zenon DEF PubProcessSubscribe
<1>6. KnownSubscription(n) <=> s \in SubscriptionsOf(n, r, p)
  BY Zenon DEF KnownSubscription, Known, SubscriptionsOf
<1>7. ASSUME NEW k \in Node, NEW q \in Node, NEW pp \in Pub, NEW ss \in Sub
      PROVE  ss \in SubscriptionsOf(k, q, pp)' <=>
                 ss \in SubscriptionsOf(k, q, pp) \/ (k = n /\ q = r /\ pp = p /\ ss = s)
  <2>1. subscriptions \in [Node -> Maps(Node, Maps(Pub, SUBSET Sub))]
    BY <1>1, Zenon DEF TypeOK
  <2>2. CASE k # n
    <3>1. subscriptions'[k] = subscriptions[k]
      BY <1>4, <2>1, <2>2
    <3> QED
      BY <2>2, <3>1 DEF SubscriptionsOf
  <2>3. CASE k = n
    <3>1. subscriptions'[n] = WithSubscription(subscriptions[n], r, p, s)
      BY <1>4, <2>1, Zenon
    <3> HIDE DEF p, s, r
    <3>2. ss \in Get(GetMap(subscriptions'[n], q), pp) <=>
              IF q = r /\ pp = p /\ ss = s THEN TRUE ELSE ss \in Get(GetMap(subscriptions[n], q), pp)
      BY <3>1, WithSubscriptionGet, Zenon
    <3> QED
      BY <2>3, <3>2 DEF SubscriptionsOf
  <2> QED
    BY <2>2, <2>3
<1>8. \A k \in Node : Grows(envelope'[k].parts)
  BY <1>1, <1>2, GrowingEndOfPart DEF NoUnsubscribe
<1>9. NoUnsubscribe'
  BY <1>1, <1>2, <1>8, Zenon DEF NoUnsubscribe
<1> HIDE DEF p, s, r
<1>10. ASSUME NEW pp \in Pub, NEW ss \in Sub
       PROVE  Requested(pp, ss)' <=> Requested(pp, ss) \/ (pp = p /\ ss = s)
  <2>1. ASSUME Requested(pp, ss)'
        PROVE  Requested(pp, ss) \/ (pp = p /\ ss = s)
    BY <1>7, <2>1, Zenon DEF Requested
  <2>2. ASSUME Requested(pp, ss)
        PROVE  Requested(pp, ss)'
    BY <1>7, <2>2, Zenon DEF Requested
  <2>3. ASSUME pp = p, ss = s
        PROVE  Requested(pp, ss)'
    BY <1>3, <1>7, <2>3, Zenon DEF Requested
  <2> QED
    BY <2>1, <2>2, <2>3
<1>11. CASE KnownSubscription(n)
  <2>1. publisher' = publisher /\ Requested(p, s)
    BY <1>3, <1>5, <1>6, <1>11 DEF Requested
  <2>2. ToldByNodes'
    BY <1>1, <1>10, <2>1, Zenon DEF ToldByNodes
  <2> QED
    BY <1>1, <1>2, <1>9, <2>1, <2>2 DEF ToldBySocket, NoneForgotten
<1>12. CASE ~ KnownSubscription(n)
  <2>1. publisher \in [Pub -> PublisherState] /\ publisher[p] \in PublisherState
    BY <1>1, <1>3, Zenon DEF PubSubTypeOK
  <2>2. r # None /\ r \in Node \cup {None}
    BY <1>3, NodeAssumption, Zenon
  <2>3. /\ g.isSuspended = publisher[p].isSuspended
        /\ OfSocket(g) = OfSocket(publisher[p])
        /\ OfNodes(g) = OfNodes(publisher[p]) \cup {s}
        /\ publisher[p].pendingZMQ \cap DOMAIN publisher[p].pending = {}
           => g.pendingZMQ \cap DOMAIN g.pending = {}
    BY <1>3, <2>1, AddedByNode DEF HasHeard
  <2> HIDE DEF g
  <2>4. publisher'[p] = g /\ \A pp \in Pub : pp # p => publisher'[pp] = publisher[pp]
    BY <1>3, <1>5, <1>12, <2>1, Zenon
  <2>5. NoneForgotten'
    BY <1>1, <1>3, <2>3, <2>4, Zenon DEF NoneForgotten
  <2>6. ToldBySocket'
    BY <1>1, <1>2, <1>3, <2>3, <2>4, Zenon DEF ToldBySocket
  <2>7. ToldByNodes'
    BY <1>1, <1>3, <1>10, <2>3, <2>4 DEF ToldByNodes
  <2> QED
    BY <1>9, <2>5, <2>6, <2>7, Zenon
<1> QED
  BY <1>11, <1>12

(* run() of a publisher: the XPUB socket reports a subscription, the other    *)
(* half of what addedSubscriber() waits for.                                  *)
LEMMA ReadSubscriptionGrows ==
    ASSUME GrowInv, NEW p \in Pub, NEW s \in Sub, ReadSubscription(p, s)
    PROVE  NoUnsubscribe' /\ ToldByNodes' /\ ToldBySocket' /\ NoneForgotten'
<1> DEFINE h == [publisher[p] EXCEPT !.pendingZMQ = @ \cup {s}]
           g == AddedSubscriber(p, h, None, s)
<1>1. /\ PubSubTypeOK /\ NoUnsubscribe /\ ToldByNodes /\ ToldBySocket /\ NoneForgotten
      /\ publisher' = [publisher EXCEPT ![p] = g] /\ xpub' = xpub \ {<<p, s>>}
      /\ <<p, s>> \in xpub /\ UNCHANGED <<wire, envelope, connections, subscriptions>>
  BY Zenon DEF GrowInv, ReadSubscription, vars
<1>2. publisher \in [Pub -> PublisherState] /\ publisher[p] \in PublisherState
  BY <1>1 DEF PubSubTypeOK
<1>3. /\ h \in PublisherState /\ h.isSuspended = publisher[p].isSuspended
      /\ h.pending = publisher[p].pending /\ h.subs = publisher[p].subs
      /\ h.pendingZMQ = publisher[p].pendingZMQ \cup {s}
  BY <1>2, Zenon DEF PublisherState
<1> HIDE DEF h
<1>4. /\ g.isSuspended = h.isSuspended /\ OfSocket(g) = OfSocket(h) /\ OfNodes(g) = OfNodes(h)
      /\ h.pendingZMQ \cap DOMAIN h.pending \subseteq {s} => g.pendingZMQ \cap DOMAIN g.pending = {}
  BY <1>3, AddedBySocket DEF HasHeard
<1> HIDE DEF g
<1>5. publisher'[p] = g /\ \A pp \in Pub : pp # p => publisher'[pp] = publisher[pp]
  BY <1>1, <1>2, Zenon
<1>6. OfNodes(g) = OfNodes(publisher[p]) /\ OfSocket(g) = OfSocket(publisher[p]) \cup {s}
  BY <1>3, <1>4, Zenon DEF OfNodes, OfSocket
<1>7. NoneForgotten'
  BY <1>1, <1>3, <1>4, <1>5, Zenon DEF NoneForgotten
<1>8. ToldBySocket'
  <2>1. ASSUME NEW pp \in Pub, NEW ss \in Sub
        PROVE  <<pp, ss>> \in xpub' <=> <<pp, ss>> \in xpub /\ ~ (pp = p /\ ss = s)
    BY <1>1
  <2> QED
    BY <1>1, <1>5, <1>6, <2>1, Zenon DEF ToldBySocket
<1>9. ToldByNodes'
  BY <1>1, <1>5, <1>6, Zenon DEF ToldByNodes, Requested, SubscriptionsOf
<1>10. NoUnsubscribe'
  BY <1>1 DEF NoUnsubscribe
<1> QED
  BY <1>7, <1>8, <1>9, <1>10

(* The invariant holds initially and every step keeps it.                     *)
LEMMA GrowingInit ==
    ASSUME PubSubInit
    PROVE  GrowInv
<1>1. SettleInv /\ Init
  BY SettlingStart DEF PubSubInit
<1>2. EmptyMap \in Maps(Sub, Node \cup {None}) /\ DOMAIN EmptyMap = {}
  BY EmptyMapType, Zenon
<1>3. PubSubTypeOK
  BY <1>2, Zenon DEF PubSubInit, PubSubTypeOK, PublisherState
<1>4. NoUnsubscribe
  BY <1>1 DEF Init, NoUnsubscribe, AllGrow, Grows, NoEnvelope
<1>5. \A p \in Pub, s \in Sub : ~ Requested(p, s)
  BY <1>1, Zenon DEF Init, Requested, SubscriptionsOf, Get, GetMap, EmptyMap
<1>6. \A p \in Pub : OfNodes(publisher[p]) = {} /\ OfSocket(publisher[p]) = {}
  BY <1>2 DEF PubSubInit, OfNodes, OfSocket
<1>7. ToldByNodes /\ ToldBySocket
  BY <1>1, <1>5, <1>6, Zenon DEF ToldByNodes, ToldBySocket, PubSubInit, Init
<1>8. NoneForgotten
  BY <1>2 DEF PubSubInit, NoneForgotten
<1> QED
  BY <1>1, <1>3, <1>4, <1>7, <1>8 DEF GrowInv

(* Every step of a growing network keeps the invariant.                       *)
LEMMA GrowingKeeps ==
    ASSUME GrowInv, [GrowingNext]_pubSubVars
    PROVE  GrowInv'
<1>1. SettleInv /\ PubSubTypeOK /\ TypeOK
  BY DEF GrowInv, SettleInv, IndInv
<1>2. SettleInv'
  BY <1>1, GrowingStep, SettlingStep
<1>3. PubSubTypeOK'
  BY <1>1, GrowingStep, PubSubNextType
<1>4. NoUnsubscribe' /\ ToldByNodes' /\ ToldBySocket' /\ NoneForgotten'
  <2>1. CASE UNCHANGED pubSubVars
    <3>1. UNCHANGED <<publisher, xpub, subscriptions, connections, wire, envelope>>
      BY <2>1, Zenon DEF pubSubVars, vars, readVars
    <3>2. NoUnsubscribe'
      BY <3>1 DEF GrowInv, NoUnsubscribe
    <3> QED
      BY <3>1, <3>2, SameForPublishers, Zenon
  <2>2. ASSUME NEW n \in Node, PSRun(n)
        PROVE  NoUnsubscribe' /\ ToldByNodes' /\ ToldBySocket' /\ NoneForgotten'
    <3>1. ~ IgnoreMessage(n) /\ ~ ProcessPubRemoved(n)
      BY <1>1, NothingIgnored
    <3>2. ~ PubProcessUnsubscribe(n)
      <4>1. SUFFICES ASSUME PubProcessUnsubscribe(n)
                     PROVE  FALSE
        BY Zenon
      <4>2. envelope[n].parts # <<>> /\ Part(n).type = "UNSUBSCRIBE"
        BY <4>1, Zenon DEF PubProcessUnsubscribe, ProcessUnsubscribe, Dispatch
      <4>3. envelope[n].parts \in Seq(Message) /\ Grows(envelope[n].parts)
        BY <1>1 DEF GrowInv, NoUnsubscribe, TypeOK, Envelope
      <4> QED
        BY <4>2, <4>3 DEF Part, Grows
    <3> QED
      BY <2>2, <3>1, <3>2, ReadRemoteIdGrows, ProcessSubscribeGrows, ProcessPubAddedGrows, Zenon
         DEF PSRun
  <2>3. ASSUME NEW p \in Pub, NEW s \in Sub, ReadSubscription(p, s)
        PROVE  NoUnsubscribe' /\ ToldByNodes' /\ ToldBySocket' /\ NoneForgotten'
    BY <2>3, ReadSubscriptionGrows
  <2> QED
    BY <2>1, <2>2, <2>3, AddedGrows, AddSubscriberGrows, AddPublisherGrows, Zenon DEF GrowingNext
<1> QED
  BY <1>2, <1>3, <1>4 DEF GrowInv

-----------------------------------------------------------------------------
(* What follows for a growing network.                                        *)

(* In a network from which nothing is removed a publisher has heard of a      *)
(* subscriber from its node exactly when the node holds the subscription,     *)
(* from the socket exactly when it was read, and forgets neither              *)
(* (addedSubscriber, processSubscription, run).                               *)
THEOREM GrowingInvariant == GrowingSpec => []GrowInv
BY GrowingInit, GrowingKeeps, PTL DEF GrowingSpec

(* Who is counted was reported twice.                                         *)
LEMMA GrownSolid ==
    ASSUME GrowInv
    PROVE  EstablishedAreSolid
<1> SUFFICES ASSUME NEW p \in Pub, NEW s \in Established(p)
             PROVE  /\ p \in connections[s]
                    /\ <<p, s>> \notin xpub
                    /\ \E n, r \in Node : s \in SubscriptionsOf(n, r, p)
  BY Zenon DEF EstablishedAreSolid
<1>1. publisher[p] \in PublisherState /\ ToldByNodes /\ ToldBySocket
  BY Zenon DEF GrowInv, PubSubTypeOK
<1>2. s \in Sub
  BY <1>1, PublisherFields, MapsMember DEF Established
<1>3. s \in OfNodes(publisher[p]) /\ s \in OfSocket(publisher[p])
  BY Zenon DEF Established, OfNodes, OfSocket
<1> QED
  BY <1>1, <1>2, <1>3, Zenon DEF ToldByNodes, ToldBySocket, Requested

(* The subscriptions a node holds are of subscribers.                         *)
LEMMA SubscriptionsOfType ==
    ASSUME TypeOK, NEW n \in Node, NEW r, NEW p
    PROVE  SubscriptionsOf(n, r, p) \in SUBSET Sub
<1>1. subscriptions[n] \in Maps(Node, Maps(Pub, SUBSET Sub))
  BY Zenon DEF TypeOK
<1>2. GetMap(subscriptions[n], r) \in Maps(Pub, SUBSET Sub)
  BY <1>1, GetMapType, Zenon
<1> QED
  BY <1>2, GetType DEF SubscriptionsOf

(* Who is reported by a node is known to the publisher.                       *)
LEMMA GrownTracked ==
    ASSUME GrowInv
    PROVE  SubscriptionsTracked
<1> SUFFICES ASSUME NEW n \in Node, NEW r \in Node, NEW p \in localPubs[n],
                    NEW s \in SubscriptionsOf(n, r, p)
             PROVE  s \in Established(p) \cup DOMAIN publisher[p].pending
  BY Zenon DEF SubscriptionsTracked
<1>1. TypeOK /\ ToldByNodes
  BY DEF GrowInv, SettleInv, IndInv
<1>2. p \in Pub /\ s \in Sub
  BY <1>1, SubscriptionsOfType, Zenon DEF TypeOK
<1> QED
  BY <1>1, <1>2 DEF ToldByNodes, Requested, OfNodes, Established

(* With nothing underway a request a node knows of is one of a subscriber    *)
(* that is still there, at a node that is connected.                         *)
LEMMA QuietRequests ==
    ASSUME SettleInv, Quiet, NEW n \in Node, NEW r \in Node, NEW p \in Pub, NEW s \in Sub,
           s \in SubscriptionsOf(n, r, p)
    PROVE  s \in Interested(r, p) /\ Connected(r, n) /\ p \in localPubs[n]
<1>1. TypeOK /\ RemotePubsOfNodes /\ SubscriptionsOfNodes /\ Learnt /\ Subscribed
  BY Zenon DEF SettleInv, IndInv
<1>2. wire[r][n] = <<>> /\ envelope[n].parts = <<>>
  BY Zenon DEF Quiet
<1>3. s \in KnownSoon(n, r, p)
  <2>1. <<Unsubscribe(p, s)>> # <<>>
    BY Zenon
  <2> QED
    BY <1>2, <2>1, KnownSoonMember
<1>4. Agrees(wire[r][n], p, s, KnownSoon(n, r, p), Wants(r, n, p))
  BY <1>1, Zenon DEF Subscribed
<1>5. s \in Wants(r, n, p)
  BY <1>2, <1>3, <1>4 DEF Agrees
<1>6. s \in Interested(r, p) /\ p \in Get(remotePubs[r], n)
  BY <1>5, Zenon DEF Wants
<1>7. n \in nodes[r]
  BY <1>1, <1>6, Zenon DEF Get, RemotePubsOfNodes
<1>8. p \in localPubs[n] /\ r \in nodes[n]
  BY <1>1, <1>6, Zenon DEF Learnt, Heard
<1> QED
  BY <1>6, <1>7, <1>8 DEF Connected

(* In a quiet network the two reports have arrived for all who match.         *)
LEMMA GrownExact ==
    ASSUME GrowInv
    PROVE  QuietCountsExact
<1> SUFFICES ASSUME Quiet, xpub = {}, NEW p \in Pub
             PROVE  Established(p) = UNION {Interested(n, p) : n \in {n \in Node :
                        \E r \in Node : Connected(n, r) /\ p \in localPubs[r]}}
  BY Zenon DEF QuietCountsExact
<1>1. /\ SettleInv /\ TypeOK /\ PubSubTypeOK /\ ToldByNodes /\ ToldBySocket /\ NoneForgotten
      /\ publisher[p] \in PublisherState
  BY Zenon DEF GrowInv, SettleInv, IndInv, PubSubTypeOK
<1>2. ASSUME NEW s \in Established(p)
      PROVE  \E n \in Node : /\ s \in Interested(n, p)
                             /\ \E r \in Node : Connected(n, r) /\ p \in localPubs[r]
  <2>1. s \in Sub
    BY <1>1, PublisherFields, MapsMember, Zenon DEF Established
  <2>2. PICK n \in Node, r \in Node : s \in SubscriptionsOf(n, r, p)
    BY GrownSolid DEF EstablishedAreSolid
  <2> QED
    BY <1>1, <2>1, <2>2, QuietRequests
<1>3. ASSUME NEW n \in Node, NEW r \in Node, Connected(n, r), p \in localPubs[r],
             NEW s \in Interested(n, p)
      PROVE  s \in Established(p)
  <2>1. InSync(n, r)
    BY <1>1, <1>3, SettledInSync, Zenon DEF QuietNodesInSync
  <2>2. s \in SubscriptionsOf(r, n, p) /\ p \in connections[s]
    BY <1>3, <2>1, Zenon DEF InSync
  <2>3. s \in Sub
    BY <1>1 DEF Interested, TypeOK
  <2>4. s \in OfNodes(publisher[p])
    BY <1>1, <2>2, <2>3, Zenon DEF ToldByNodes, Requested
  <2>5. s \in OfSocket(publisher[p])
    BY <1>1, <2>2, <2>3 DEF ToldBySocket
  <2> QED
    BY <1>1, <2>4, <2>5 DEF NoneForgotten, OfNodes, OfSocket, Established
<1> QED
  BY <1>2, <1>3

(* A publisher counts a subscriber only when both its subscription at the     *)
(* XPUB socket and the request of its node have arrived (addedSubscriber),    *)
(* for as long as nothing is removed.                                         *)
THEOREM GrowingSolid == GrowingSpec => []EstablishedAreSolid
BY GrowingInvariant, GrownSolid, PTL

(* And every subscription a node holds for a publisher is pending or counted  *)
(* at that publisher (processSubscription calls addedSubscriber).             *)
THEOREM GrowingTracked == GrowingSpec => []SubscriptionsTracked
BY GrowingInvariant, GrownTracked, PTL

(* When nothing is underway a publisher counts exactly the subscribers of its *)
(* channel at the nodes its own nodes are connected to: waitForSubscribers    *)
(* then returns neither too early nor too late.                               *)
THEOREM GrowingExact == GrowingSpec => []QuietCountsExact
BY GrowingInvariant, GrownExact, PTL

-----------------------------------------------------------------------------
(* The scenario of the runs in which nothing is ever removed.                 *)

\* The budget of the scenario allows additions only.
PubSubKinds == {"add", "pub", "sub", "node", "suspend", "reconnect"}

GrowingBudget ==
    /\ budget \in [PubSubKinds -> Int]
    /\ \A kind \in PubSubKinds \ {"add"} : budget[kind] = 0

GrowingScenarioInv == Growing => GrowInv /\ GrowingBudget

(* A budget without removals can only be spent on additions.                  *)
LEMMA SpendGrowing ==
    ASSUME GrowingBudget, NEW kind \in PubSubKinds, Spend(kind)
    PROVE  kind = "add" /\ GrowingBudget'
<1>1. kind = "add"
  BY DEF GrowingBudget, Spend
<1>2. budget' = [budget EXCEPT !["add"] = budget["add"] - 1] /\ budget["add"] \in Int
  BY <1>1 DEF GrowingBudget, Spend
<1> QED
  BY <1>1, <1>2 DEF GrowingBudget

(* The scenario starts as a growing network does.                             *)
LEMMA GrowingScenarioInit ==
    ASSUME MCPubSubInit
    PROVE  GrowingScenarioInv
<1>1. PubSubInit /\ budget = PubSubBudgets[scenario]
  BY Zenon DEF MCPubSubInit
<1>2. Growing => GrowingBudget
  BY <1>1 DEF GrowingBudget, Growing, PubSubBudgets, PubSubKinds
<1> QED
  BY <1>1, <1>2, GrowingInit DEF GrowingScenarioInv

(* Its steps are those of a growing network.                                  *)
LEMMA GrowingScenarioStep ==
    ASSUME GrowingScenarioInv, [MCPubSubNext]_mcPubSubVars
    PROVE  GrowingScenarioInv'
<1>1. scenario' = scenario
  BY DEF MCPubSubNext, mcPubSubVars
<1> SUFFICES ASSUME Growing
             PROVE  GrowInv' /\ GrowingBudget'
  BY <1>1 DEF GrowingScenarioInv, Growing
<1>2. GrowInv /\ GrowingBudget /\ NoneSuspended
  BY DEF GrowingScenarioInv, GrowInv, SettleInv
<1>3. UNCHANGED budget => GrowingBudget'
  BY <1>2 DEF GrowingBudget
<1>4. \A kind \in PubSubKinds : Spend(kind) => kind = "add" /\ GrowingBudget'
  BY <1>2, SpendGrowing, Zenon
<1>5. /\ ~ Spend("pub") /\ ~ Spend("sub") /\ ~ Spend("node") /\ ~ Spend("suspend")
      /\ ~ Spend("reconnect") /\ (Spend("add") => GrowingBudget')
  BY <1>4 DEF PubSubKinds
<1>6. \A n \in Node : ~ PSResume(n)
  BY <1>2 DEF NoneSuspended, PSResume, Resume
<1>7. [GrowingNext]_pubSubVars /\ GrowingBudget'
  <2>1. CASE UNCHANGED mcPubSubVars
    BY <1>3, <2>1 DEF mcPubSubVars
  <2>2. CASE MCPubSubNext
    <3>1. ASSUME NEW n \in Node,
                 \/ MCPSRun(n)
                 \/ \E r \in Node : MCPSAdded(n, r)
          PROVE  GrowingNext /\ GrowingBudget'
      BY <1>3, <3>1, Zenon DEF GrowingNext, MCPSRun, MCPSAdded
    <3>2. ASSUME NEW n \in SubHome, NEW s \in Subs, PSAddSubscriber(n, s), Spend("add")
          PROVE  GrowingNext /\ GrowingBudget'
      <4>1. n \in Node /\ s \in Sub
        BY HomeAssumption DEF Subs, Growing
      <4> QED
        BY <1>5, <3>2, <4>1, Zenon DEF GrowingNext
    <3>3. ASSUME NEW n \in PubHome, NEW p \in Pubs, PSAddPublisher(n, p), Spend("add")
          PROVE  GrowingNext /\ GrowingBudget'
      <4>1. n \in Node /\ p \in Pub
        BY HomeAssumption DEF Pubs, Growing
      <4> QED
        BY <1>5, <3>3, <4>1, Zenon DEF GrowingNext
    <3>4. ASSUME NEW p \in Pub, NEW s \in Sub, MCReadSubscription(p, s)
          PROVE  GrowingNext /\ GrowingBudget'
      BY <1>3, <3>4, Zenon DEF GrowingNext, MCReadSubscription
    <3>5. GrowingNext /\ GrowingBudget'
      BY <1>6, <2>2, <1>5, <3>1, <3>2, <3>3, <3>4, Zenon DEF MCPubSubNext, MCPSResume
    <3> QED
      BY <3>5
  <2> QED
    BY <2>1, <2>2
<1>8. GrowInv'
  BY <1>2, <1>7, GrowingKeeps
<1> QED
  BY <1>7, <1>8, Zenon

(* What the runs check of addedSubscriber: in the growing scenario, whatever  *)
(* its constants, counted subscribers have been reported twice.               *)
THEOREM GrowingScenarioSolid == MCPubSubSpec => []GrowingAreSolid
<1>1. GrowingScenarioInv => GrowingAreSolid
  BY GrownSolid DEF GrowingScenarioInv, GrowingAreSolid
<1> QED
  BY <1>1, GrowingScenarioInit, GrowingScenarioStep, PTL DEF MCPubSubSpec

(* And a quiet network counts exactly who subscribed.                         *)
THEOREM GrowingScenarioExact == MCPubSubSpec => []GrowingCountsExact
<1>1. GrowingScenarioInv => GrowingCountsExact
  BY GrownExact DEF GrowingScenarioInv, GrowingCountsExact
<1> QED
  BY <1>1, GrowingScenarioInit, GrowingScenarioStep, PTL DEF MCPubSubSpec

=============================================================================
