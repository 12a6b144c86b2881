----------------------- MODULE ZeroMQSettling_proofs -----------------------
(***************************************************************************)
(* A settling network: nodes, publishers and subscribers come, subscribers *)
(* also go, but no node is lost or suspended and no publisher is removed.  *)
(* For such a network the handlers of the control protocol keep every two  *)
(* nodes in step, up to what is still underway between them.               *)
(*                                                                         *)
(* "In sync when quiet" is not inductive: it says nothing while a message  *)
(* is underway.  SettleInv says what the messages underway are, for whom,  *)
(* and what they will change: a publisher of a known node has been heard   *)
(* of or is being announced, and the last request about a subscription     *)
(* agrees with what the subscriber's node wants.  One lemma per handler    *)
(* shows that it keeps SettleInv; SettledInSync that SettleInv gives what  *)
(* is claimed of a quiet network.                                          *)
(*                                                                         *)
(* The lemmas take IndInv in both states and ListsMessages as hypotheses;  *)
(* ZeroMQNode_proofs proves both and concludes.                            *)
(***************************************************************************)
EXTENDS ZeroMQNode, TLAPS

-----------------------------------------------------------------------------
(* Maps.                                                                      *)

(* What it takes to be a map.                                                 *)
LEMMA MapsMember ==
    ASSUME NEW S, NEW T, NEW f
    PROVE  f \in Maps(S, T) <=> DOMAIN f \subseteq S /\ f \in [DOMAIN f -> T]
BY DEF Maps

(* The empty map is a map of any type.                                        *)
LEMMA EmptyMapType ==
    ASSUME NEW S, NEW T
    PROVE  EmptyMap \in Maps(S, T) /\ DOMAIN EmptyMap = {}
BY MapsMember, Zenon DEF EmptyMap

(* Assignment through operator[] sets one key and keeps the others.           *)
LEMMA PutMap ==
    ASSUME NEW S, NEW T, NEW f \in Maps(S, T), NEW k \in S, NEW v \in T
    PROVE  /\ Put(f, k, v) \in Maps(S, T)
           /\ DOMAIN Put(f, k, v) = DOMAIN f \cup {k}
           /\ Put(f, k, v)[k] = v
           /\ \A x \in DOMAIN f : x # k => Put(f, k, v)[x] = f[x]
<1>1. DOMAIN f \subseteq S /\ f \in [DOMAIN f -> T]
  BY MapsMember
<1>2. Put(f, k, v) \in [DOMAIN f \cup {k} -> T]
  BY <1>1 DEF Put
<1> QED
  BY <1>1, <1>2, MapsMember DEF Put

(* erase drops the keys K and keeps the others.                               *)
LEMMA EraseMap ==
    ASSUME NEW S, NEW T, NEW f \in Maps(S, T), NEW K
    PROVE  /\ Erase(f, K) \in Maps(S, T)
           /\ DOMAIN Erase(f, K) = DOMAIN f \ K
           /\ \A x \in DOMAIN f \ K : Erase(f, K)[x] = f[x]
<1>1. DOMAIN f \subseteq S /\ f \in [DOMAIN f -> T]
  BY MapsMember
<1>2. Erase(f, K) \in [DOMAIN f \ K -> T]
  BY <1>1 DEF Erase, Restrict
<1> QED
  BY <1>1, <1>2, MapsMember DEF Erase, Restrict

(* Reading a map of sets gives a set, of a map of maps a map.                 *)
LEMMA GetType ==
    ASSUME NEW S, NEW U, NEW f \in Maps(S, SUBSET U), NEW k
    PROVE  Get(f, k) \in SUBSET U
BY MapsMember DEF Get

(* The same for a map of maps, whose missing entries are empty maps           *)
(* (operator[] on them).                                                      *)
LEMMA GetMapType ==
    ASSUME NEW S, NEW A, NEW B, NEW f \in Maps(S, Maps(A, B)), NEW k
    PROVE  GetMap(f, k) \in Maps(A, B)
<1>1. CASE k \in DOMAIN f
  BY <1>1, MapsMember DEF GetMap
<1>2. CASE k \notin DOMAIN f
  BY <1>2, EmptyMapType DEF GetMap
<1> QED
  BY <1>1, <1>2

-----------------------------------------------------------------------------
(* Queues.                                                                    *)

(* The empty queue; a queue that is not empty has a length.                  *)
LEMMA QueueEmpty ==
    ASSUME NEW S
    PROVE  /\ <<>> \in Seq(S) /\ Len(<<>>) = 0
           /\ \A q \in Seq(S) : q # <<>> => Len(q) \in Nat \ {0}
OBVIOUS

(* What is left of a queue whose first element was read.                      *)
LEMMA QueueHeadTail ==
    ASSUME NEW S, NEW q \in Seq(S), q # <<>>
    PROVE  /\ Head(q) \in S /\ Head(q) = q[1]
           /\ Tail(q) \in Seq(S) /\ Len(Tail(q)) = Len(q) - 1
           /\ \A i \in 1 .. Len(Tail(q)) : Tail(q)[i] = q[i + 1]
OBVIOUS

(* Appending to a queue.                                                      *)
LEMMA QueueConcat ==
    ASSUME NEW S, NEW q \in Seq(S), NEW w \in Seq(S)
    PROVE  q \o w \in Seq(S)
OBVIOUS

(* A part of a queue.                                                         *)
LEMMA QueueSuffix ==
    ASSUME NEW S, NEW q, NEW m \in Int, NEW n \in Int,
           \A i \in m .. n : q[i] \in S
    PROVE  SubSeq(q, m, n) \in Seq(S)
OBVIOUS

-----------------------------------------------------------------------------
(* A settling network: nodes, publishers and subscribers come, subscribers    *)
(* also go, but no node is lost or suspended and no publisher is removed.     *)

\* The steps of nodes that neither lose nor suspend each other and keep their
\* publishers.
SettlingNext ==
    \E n \in Node :
        \/ Run(n)
        \/ \E r \in Node : Added(n, r)
        \/ \E s \in Sub : AddSubscriber(n, s) \/ RemoveSubscriber(n, s)
        \/ \E p \in Pub : AddPublisher(n, p)

SettlingSpec == Init /\ [][SettlingNext]_vars

\* What node n may send to r: announcements of its publishers, one or several in
\* an envelope, and if r has discovered n, a subscription to a publisher of r.
Announcement(n) == {PubAdded(p) : p \in localPubs[n]}
Request(r) == {Subscribe(p, s) : p \in localPubs[r], s \in Sub}
              \cup {Unsubscribe(p, s) : p \in localPubs[r], s \in Sub}

Allowed(n, r) ==
    {e \in Seq(Announcement(n)) : e # <<>>}
    \cup {e \in {<<m>> : m \in Request(r)} : n \in nodes[r]}

\* Only such envelopes are underway, and only to discovered nodes.
Sent ==
    \A n, r \in Node :
        /\ wire[n][r] \in Seq(Allowed(n, r))
        /\ wire[n][r] # <<>> => r \in nodes[n]

\* A node reads what such an envelope leaves, as coming from its sender.
Read ==
    \A r \in Node :
        \/ remoteId[r] = None /\ envelope[r].parts = <<>>
        \/ \E n \in Node : /\ remoteId[r] = n /\ envelope[r].from = n
                           /\ envelope[r].parts \in Allowed(n, r)
                           /\ r \in nodes[n]

\* The publishers of r that node n has heard of, used or pending.
Heard(n, r) == Get(remotePubs[n], r) \cup Get(pendingRemotePubs[n], r)

\* A node has heard only of publishers that are there, from nodes that know it.
Learnt ==
    \A n, r \in Node :
        Heard(n, r) \subseteq localPubs[r] /\ (Heard(n, r) # {} => n \in nodes[r])

\* A publisher of r is being announced to node n.
Announced(r, n, p) ==
    \/ \E i \in DOMAIN wire[r][n] : \E j \in DOMAIN wire[r][n][i] : wire[r][n][i][j] = PubAdded(p)
    \/ remoteId[n] = r /\ \E j \in DOMAIN envelope[n].parts : envelope[n].parts[j] = PubAdded(p)

\* A node has heard, or is hearing, of all publishers of a node that knows it.
AllAnnounced ==
    \A n, r \in Node : n \in nodes[r] =>
        \A p \in localPubs[r] : p \in Heard(n, r) \/ Announced(r, n, p)

About(e, p, s) == e = <<Subscribe(p, s)>> \/ e = <<Unsubscribe(p, s)>>

\* The last envelope about s and p says whether s is among the subscribers W that
\* want p; without one, whether s is known, that is among K, says so.
Agrees(q, p, s, K, W) ==
    /\ \A k \in 1 .. Len(q) :
           /\ About(q[k], p, s)
           /\ \A j \in k + 1 .. Len(q) : ~ About(q[j], p, s)
           => (q[k] = <<Subscribe(p, s)>> <=> s \in W)
    /\ (\A k \in 1 .. Len(q) : ~ About(q[k], p, s)) => (s \in K <=> s \in W)

\* The subscriptions of n to p that r knows of when it has read the part it is
\* reading.
KnownSoon(r, n, p) ==
    {s \in Sub :
        \/ remoteId[r] = n /\ envelope[r].parts = <<Subscribe(p, s)>>
        \/ /\ s \in SubscriptionsOf(r, n, p)
           /\ ~ (remoteId[r] = n /\ envelope[r].parts = <<Unsubscribe(p, s)>>)}

\* The subscribers of n that are subscribed to p of r as far as n knows.
Wants(n, r, p) == {s \in Interested(n, p) : p \in Get(remotePubs[n], r)}

Subscribed ==
    \A n, r \in Node, p \in Pub, s \in Sub :
        Agrees(wire[n][r], p, s, KnownSoon(r, n, p), Wants(n, r, p))

NoneSuspended == \A n \in Node : ~ isSuspended[n]

\* The inductive invariant of a settling network.
SettleInv ==
    /\ IndInv
    /\ NoneSuspended
    /\ Sent
    /\ Read
    /\ Learnt
    /\ AllAnnounced
    /\ Subscribed

\* All members of S are in the sequence that lists them.
ListsAll(S) ==
    /\ InSomeOrder(S) \in Seq(S)
    /\ \A x \in S : \E i \in 1 .. Len(InSomeOrder(S)) : InSomeOrder(S)[i] = x

\* A node can list any messages, and one envelope for each of them.  That holds
\* because there are finitely many (MessagesListed in ZeroMQNode_proofs).
ListsMessages ==
    \A msgs \in SUBSET Message : ListsAll(msgs) /\ ListsAll({<<m>> : m \in msgs})

-----------------------------------------------------------------------------
(* Envelopes.                                                                 *)

(* A sequence over a subset is a sequence over the set.                       *)
LEMMA SeqMonotone ==
    ASSUME NEW S, NEW T, S \subseteq T, NEW q \in Seq(S)
    PROVE  q \in Seq(T)
<1>1. q \in [1 .. Len(q) -> S] /\ Len(q) \in Nat
  OBVIOUS
<1>2. q \in [1 .. Len(q) -> T]
  BY <1>1
<1> QED
  BY <1>1, <1>2

(* The subscriptions to matching publishers are messages.                     *)
LEMMA SubscribeAllType ==
    ASSUME NEW pubs, pubs \subseteq Pub, NEW subs, subs \subseteq Sub
    PROVE  SubscribeAll(pubs, subs) \subseteq Message
BY DEF SubscribeAll, Subscribe, Matching, Message

(* The envelopes of a set of messages: one for each of them, and no other.    *)
LEMMA EnvelopesOf ==
    ASSUME ListsMessages, NEW msgs, msgs \subseteq Message
    PROVE  /\ Envelopes(msgs) \in Seq(Envelope)
           /\ \A i \in 1 .. Len(Envelopes(msgs)) : \E m \in msgs : Envelopes(msgs)[i] = <<m>>
           /\ \A m \in msgs : \E i \in 1 .. Len(Envelopes(msgs)) : Envelopes(msgs)[i] = <<m>>
           /\ msgs = {} => Envelopes(msgs) = <<>>
<1> DEFINE S == {<<m>> : m \in msgs}
<1>1. ListsAll(S)
  BY DEF ListsMessages
<1>2. /\ Envelopes(msgs) \in Seq(S)
      /\ \A m \in msgs : \E i \in 1 .. Len(Envelopes(msgs)) : Envelopes(msgs)[i] = <<m>>
  BY <1>1, Zenon DEF ListsAll, Envelopes
<1>3. S \subseteq Envelope
  <2>1. ASSUME NEW m \in msgs
        PROVE  <<m>> \in Seq(Message)
    OBVIOUS
  <2> QED
    BY <2>1, Zenon DEF Envelope
<1>4. \A x \in S : \E m \in msgs : x = <<m>>
  OBVIOUS
<1> HIDE DEF S
<1>5. Envelopes(msgs) \in Seq(Envelope)
  BY <1>2, <1>3, SeqMonotone, Zenon
<1>6. \A i \in 1 .. Len(Envelopes(msgs)) : Envelopes(msgs)[i] \in S
  BY <1>2
<1>7. \A i \in 1 .. Len(Envelopes(msgs)) : \E m \in msgs : Envelopes(msgs)[i] = <<m>>
  BY <1>4, <1>6, Zenon
<1>8. ASSUME msgs = {}
      PROVE  Envelopes(msgs) = <<>>
  <2>1. \A i \in 1 .. Len(Envelopes(msgs)) : FALSE
    BY <1>7, <1>8, Zenon
  <2>2. Len(Envelopes(msgs)) = 0
    BY <1>5, <2>1
  <2> QED
    BY <1>5, <2>2, QueueEmpty
<1> QED
  BY <1>2, <1>5, <1>7, <1>8, Zenon

(* A send appends to the wires of the sender and leaves the others alone.     *)
LEMMA SendEffect ==
    ASSUME wire \in [Node -> [Node -> Seq(Envelope)]], NEW n \in Node,
           NEW out, Send(n, out)
    PROVE  /\ \A r \in Node : wire'[n][r] = wire[n][r] \o out[r]
           /\ \A q, r \in Node : q # n => wire'[q][r] = wire[q][r]
BY Zenon DEF Send

(* What may be sent grows with the nodes and publishers that are known.       *)
LEMMA AllowedGrows ==
    ASSUME \A q \in Node : nodes[q] \subseteq nodes'[q] /\ localPubs[q] \subseteq localPubs'[q],
           NEW n \in Node, NEW r \in Node
    PROVE  Allowed(n, r) \subseteq Allowed(n, r)'
<1>1. Announcement(n) \subseteq Announcement(n)' /\ Request(r) \subseteq Request(r)'
  BY DEF Announcement, Request
<1>2. ASSUME NEW e \in Seq(Announcement(n))
      PROVE  e \in Seq(Announcement(n)')
  BY <1>1, SeqMonotone
<1>3. \A e \in {<<m>> : m \in Request(r)} : e \in {<<m>> : m \in Request(r)'}
  BY <1>1
<1> HIDE DEF Announcement, Request
<1> QED
  BY <1>2, <1>3, Zenon DEF Allowed

(* An envelope of announcements is about no subscription.                     *)
LEMMA AnnouncementParts ==
    ASSUME TypeOK, NEW n \in Node, NEW e \in Seq(Announcement(n)), e # <<>>
    PROVE  /\ e \in Envelope
           /\ \A i \in 1 .. Len(e) : \E p \in localPubs[n] : e[i] = PubAdded(p)
           /\ \A p, s : ~ About(e, p, s)
<1>1. localPubs[n] \subseteq Pub
  BY DEF TypeOK
<1>2. \A i \in 1 .. Len(e) : \E p \in localPubs[n] : e[i] = PubAdded(p)
  BY DEF Announcement
<1>3. e[1].type = "PUB_ADDED"
  <2>1. 1 \in 1 .. Len(e)
    OBVIOUS
  <2>2. PICK p \in localPubs[n] : e[1] = PubAdded(p)
    BY <1>2, <2>1
  <2> QED
    BY <2>2 DEF PubAdded
<1>4. \A p, s : ~ About(e, p, s)
  BY <1>3 DEF About, Subscribe, Unsubscribe
<1>5. Announcement(n) \subseteq Message
  BY <1>1 DEF Announcement, PubAdded, Message
<1>6. e \in Envelope
  BY <1>5, SeqMonotone, Zenon DEF Envelope
<1> QED
  BY <1>2, <1>4, <1>6, Zenon

(* An allowed envelope has a first part.  That part announces a publisher of  *)
(* the sender, and so do the others, or it is the only one and asks for a     *)
(* publisher of the receiver.                                                 *)
LEMMA AllowedParts ==
    ASSUME TypeOK, NEW n \in Node, NEW r \in Node, NEW e \in Allowed(n, r)
    PROVE  /\ e \in Envelope /\ e # <<>>
           /\ \/ e \in Seq(Announcement(n))
              \/ /\ n \in nodes[r]
                 /\ \E p \in localPubs[r], s \in Sub :
                        e = <<Subscribe(p, s)>> \/ e = <<Unsubscribe(p, s)>>
<1>1. localPubs[n] \subseteq Pub /\ localPubs[r] \subseteq Pub
  BY DEF TypeOK
<1>2. CASE e \in Seq(Announcement(n)) /\ e # <<>>
  BY <1>2, AnnouncementParts, Zenon
<1>3. CASE e \in {<<m>> : m \in Request(r)} /\ n \in nodes[r]
  <2>1. PICK m \in Request(r) : e = <<m>>
    BY <1>3
  <2>2. m \in Message
    BY <1>1, <2>1 DEF Request, Message, Subscribe, Unsubscribe
  <2>3. e \in Envelope /\ e # <<>>
    BY <2>1, <2>2 DEF Envelope
  <2>4. \E p \in localPubs[r], s \in Sub : m = Subscribe(p, s) \/ m = Unsubscribe(p, s)
    BY <2>1 DEF Request
  <2> QED
    BY <1>3, <2>1, <2>3, <2>4, Zenon
<1> QED
  BY <1>2, <1>3, Zenon DEF Allowed

(* A subscription is about its own publisher and subscriber only.             *)
LEMMA AboutOne ==
    ASSUME NEW p, NEW s, NEW p2, NEW s2
    PROVE  /\ About(<<Subscribe(p, s)>>, p2, s2) <=> p = p2 /\ s = s2
           /\ About(<<Unsubscribe(p, s)>>, p2, s2) <=> p = p2 /\ s = s2
           /\ <<Subscribe(p, s)>> # <<Unsubscribe(p2, s2)>>
           /\ <<Subscribe(p, s)>> = <<Subscribe(p2, s2)>> <=> p = p2 /\ s = s2
           /\ <<Unsubscribe(p, s)>> = <<Unsubscribe(p2, s2)>> <=> p = p2 /\ s = s2
BY DEF About, Subscribe, Unsubscribe

-----------------------------------------------------------------------------
(* The envelopes about a publisher and a subscriber.                          *)

\* Envelopes x, sent while the subscribers that want p change from W to W2, tell
\* whether s is among the new ones; if none is about p and s, nothing changed.
Answers(x, p, s, W, W2) ==
    /\ \A k \in 1 .. Len(x) : About(x[k], p, s) => (x[k] = <<Subscribe(p, s)>> <=> s \in W2)
    /\ (\A k \in 1 .. Len(x) : ~ About(x[k], p, s)) => (s \in W <=> s \in W2)

(* Answers keep the agreement.                                                *)
LEMMA AgreesAppend ==
    ASSUME NEW S, NEW q \in Seq(S), NEW x \in Seq(S), NEW p, NEW s, NEW K, NEW W, NEW W2,
           Agrees(q, p, s, K, W), Answers(x, p, s, W, W2)
    PROVE  Agrees(q \o x, p, s, K, W2)
<1> DEFINE a == Len(q)
           b == Len(x)
           z == q \o x
<1>1. /\ a \in Nat /\ b \in Nat /\ Len(z) = a + b
      /\ \A i \in 1 .. a : z[i] = q[i]
      /\ \A i \in 1 .. b : z[a + i] = x[i]
  OBVIOUS
<1>2. \A i \in 1 .. a + b : i <= a \/ (i - a \in 1 .. b /\ z[i] = x[i - a])
  BY <1>1
<1> HIDE DEF z, a, b
<1>3. ASSUME NEW k \in 1 .. Len(z), About(z[k], p, s),
             \A j \in k + 1 .. Len(z) : ~ About(z[j], p, s)
      PROVE  z[k] = <<Subscribe(p, s)>> <=> s \in W2
  <2>1. CASE k <= a
    <3>1. k \in 1 .. a /\ z[k] = q[k]
      BY <1>1, <2>1
    <3>2. ASSUME NEW j \in k + 1 .. a
          PROVE  ~ About(q[j], p, s)
      <4>1. j \in 1 .. a /\ j \in k + 1 .. Len(z)
        BY <1>1, <3>1
      <4> QED
        BY <1>1, <1>3, <4>1
    <3>3. ASSUME NEW j \in 1 .. b
          PROVE  ~ About(x[j], p, s)
      <4>1. a + j \in k + 1 .. Len(z)
        BY <1>1, <3>1
      <4> QED
        BY <1>1, <1>3, <4>1
    <3>4. q[k] = <<Subscribe(p, s)>> <=> s \in W
      BY <1>3, <3>1, <3>2 DEF Agrees, a
    <3>5. s \in W <=> s \in W2
      BY <3>3 DEF Answers, b
    <3> QED
      BY <3>1, <3>4, <3>5
  <2>2. CASE ~ (k <= a)
    <3>1. k - a \in 1 .. b /\ z[k] = x[k - a]
      BY <1>1, <1>2, <2>2
    <3> QED
      BY <1>3, <3>1 DEF Answers, b
  <2> QED
    BY <2>1, <2>2
<1>4. ASSUME \A k \in 1 .. Len(z) : ~ About(z[k], p, s)
      PROVE  s \in K <=> s \in W2
  <2>1. \A k \in 1 .. a : ~ About(q[k], p, s)
    BY <1>1, <1>4
  <2>2. ASSUME NEW k \in 1 .. b
        PROVE  ~ About(x[k], p, s)
    <3>1. a + k \in 1 .. Len(z)
      BY <1>1
    <3> QED
      BY <1>1, <1>4, <3>1
  <2> QED
    BY <2>1, <2>2 DEF Agrees, Answers, a, b
<1> QED
  BY <1>3, <1>4, Zenon DEF Agrees, z

(* Reading the first envelope keeps the agreement, with what it says in the   *)
(* place of what was known.                                                   *)
LEMMA AgreesTail ==
    ASSUME NEW S, NEW q \in Seq(S), q # <<>>, NEW p, NEW s, NEW K, NEW K2, NEW W,
           Agrees(q, p, s, K, W),
           Head(q) = <<Subscribe(p, s)>> => s \in K2,
           Head(q) = <<Unsubscribe(p, s)>> => s \notin K2,
           ~ About(Head(q), p, s) => (s \in K <=> s \in K2)
    PROVE  Agrees(Tail(q), p, s, K2, W)
<1> DEFINE a == Len(q)
           t == Tail(q)
<1>1. /\ a \in Nat \ {0} /\ Len(t) = a - 1 /\ Head(q) = q[1]
      /\ \A i \in 1 .. Len(t) : t[i] = q[i + 1]
  BY QueueHeadTail
<1> HIDE DEF a, t
<1>2. ASSUME NEW k \in 1 .. Len(t), About(t[k], p, s),
             \A j \in k + 1 .. Len(t) : ~ About(t[j], p, s)
      PROVE  t[k] = <<Subscribe(p, s)>> <=> s \in W
  <2>1. k + 1 \in 1 .. a /\ t[k] = q[k + 1]
    BY <1>1
  <2>2. ASSUME NEW j \in k + 1 + 1 .. a
        PROVE  ~ About(q[j], p, s)
    <3>1. j - 1 \in k + 1 .. Len(t) /\ j - 1 \in 1 .. Len(t) /\ (j - 1) + 1 = j
      BY <1>1, <2>1
    <3>2. t[j - 1] = q[j]
      BY <1>1, <3>1
    <3> QED
      BY <1>2, <3>1, <3>2
  <2> QED
    BY <1>2, <2>1, <2>2 DEF Agrees, a
<1>3. ASSUME \A k \in 1 .. Len(t) : ~ About(t[k], p, s)
      PROVE  s \in K2 <=> s \in W
  <2>1. ASSUME NEW j \in 2 .. a
        PROVE  ~ About(q[j], p, s)
    <3>1. j - 1 \in 1 .. Len(t) /\ (j - 1) + 1 = j
      BY <1>1
    <3>2. t[j - 1] = q[j]
      BY <1>1, <3>1
    <3> QED
      BY <1>3, <3>1, <3>2
  <2>2. CASE About(q[1], p, s)
    <3>1. 1 \in 1 .. a /\ \A j \in 1 + 1 .. a : ~ About(q[j], p, s)
      BY <1>1, <2>1
    <3>2. q[1] = <<Subscribe(p, s)>> <=> s \in W
      BY <2>2, <3>1 DEF Agrees, a
    <3> QED
      BY <1>1, <2>2, <3>2, AboutOne DEF About
  <2>3. CASE ~ About(q[1], p, s)
    <3>1. \A j \in 1 .. a : ~ About(q[j], p, s)
      <4>1. \A j \in 1 .. a : j = 1 \/ j \in 2 .. a
        BY <1>1
      <4> QED
        BY <2>1, <2>3, <4>1
    <3> QED
      BY <1>1, <2>3, <3>1 DEF Agrees, a
  <2> QED
    BY <2>2, <2>3
<1> QED
  BY <1>2, <1>3 DEF Agrees, t

-----------------------------------------------------------------------------
(* What a handler that sends out keeps, when the nodes and publishers grow    *)
(* and the reading thread does nothing.                                       *)

(* What is underway stays allowed.                                            *)
LEMMA SentKept ==
    ASSUME TypeOK, Sent, NEW n \in Node, NEW out \in [Node -> Seq(Envelope)], Send(n, out),
           \A q \in Node : nodes[q] \subseteq nodes'[q] /\ localPubs[q] \subseteq localPubs'[q],
           \A r \in Node : \A i \in 1 .. Len(out[r]) :
               out[r][i] \in Allowed(n, r)' /\ r \in nodes'[n]
    PROVE  Sent'
<1>1. wire \in [Node -> [Node -> Seq(Envelope)]]
  BY DEF TypeOK
<1>2. /\ \A r \in Node : wire'[n][r] = wire[n][r] \o out[r]
      /\ \A q, r \in Node : q # n => wire'[q][r] = wire[q][r]
  BY <1>1, SendEffect, Zenon
<1>3. \A q, r \in Node : wire[q][r] \in Seq(Allowed(q, r)')
  BY AllowedGrows, SeqMonotone, Zenon DEF Sent
<1>4. \A q, r \in Node : wire[q][r] # <<>> => r \in nodes'[q]
  BY DEF Sent
<1>5. ASSUME NEW r \in Node
      PROVE  out[r] \in Seq(Allowed(n, r)') /\ (out[r] # <<>> => r \in nodes'[n])
  <2>1. out[r] \in Seq(Envelope)
    OBVIOUS
  <2> HIDE DEF Allowed
  <2>2. out[r] \in [1 .. Len(out[r]) -> Allowed(n, r)'] /\ Len(out[r]) \in Nat
    BY <2>1
  <2>3. out[r] # <<>> => 1 \in 1 .. Len(out[r])
    BY <2>1
  <2> QED
    BY <2>2, <2>3
<1>6. ASSUME NEW q \in Node, NEW r \in Node
      PROVE  wire'[q][r] \in Seq(Allowed(q, r)') /\ (wire'[q][r] # <<>> => r \in nodes'[q])
  <2>1. CASE q = n
    <3>1. wire[n][r] \o out[r] \in Seq(Allowed(n, r)')
      BY <1>3, <1>5, QueueConcat, Zenon
    <3>2. wire[n][r] = <<>> /\ out[r] = <<>> => wire[n][r] \o out[r] = <<>>
      OBVIOUS
    <3> QED
      BY <1>2, <1>4, <1>5, <2>1, <3>1, <3>2, Zenon
  <2>2. CASE q # n
    BY <1>2, <1>3, <1>4, <2>2, Zenon
  <2> QED
    BY <2>1, <2>2
<1> QED
  BY <1>6, Zenon DEF Sent

(* What is being read stays allowed.                                          *)
LEMMA ReadKept ==
    ASSUME Read, UNCHANGED readVars,
           \A q \in Node : nodes[q] \subseteq nodes'[q] /\ localPubs[q] \subseteq localPubs'[q]
    PROVE  Read'
<1>1. \A n, r \in Node : Allowed(n, r) \subseteq Allowed(n, r)' /\ nodes[n] \subseteq nodes'[n]
  BY AllowedGrows, Zenon
<1> QED
  BY <1>1, Zenon DEF Read, readVars

(* What is underway keeps its place.                                          *)
LEMMA WireKept ==
    ASSUME TypeOK, NEW n \in Node, NEW out \in [Node -> Seq(Envelope)], Send(n, out),
           NEW q \in Node, NEW r \in Node
    PROVE  \A i \in DOMAIN wire[q][r] : i \in DOMAIN wire'[q][r] /\ wire'[q][r][i] = wire[q][r][i]
<1>1. wire \in [Node -> [Node -> Seq(Envelope)]]
  BY DEF TypeOK
<1>2. \/ q = n /\ wire'[n][r] = wire[n][r] \o out[r]
      \/ q # n /\ wire'[q][r] = wire[q][r]
  BY <1>1, SendEffect, Zenon
<1>3. wire[q][r] \in Seq(Envelope) /\ out[r] \in Seq(Envelope)
  BY <1>1
<1>4. \A w, x \in Seq(Envelope) : \A i \in DOMAIN w : i \in DOMAIN (w \o x) /\ (w \o x)[i] = w[i]
  OBVIOUS
<1>5. CASE q = n /\ wire'[q][r] = wire[q][r] \o out[r]
  <2>1. \A i \in DOMAIN wire[q][r] : /\ i \in DOMAIN (wire[q][r] \o out[r])
                                      /\ (wire[q][r] \o out[r])[i] = wire[q][r][i]
    BY <1>3, <1>4, Zenon
  <2> QED
    BY <1>5, <2>1, Zenon
<1>6. CASE wire'[q][r] = wire[q][r]
  BY <1>6
<1> QED
  BY <1>2, <1>5, <1>6, Zenon

(* An announcement stays underway until it is read.                           *)
LEMMA AnnouncedKept ==
    ASSUME TypeOK, NEW n \in Node, NEW out \in [Node -> Seq(Envelope)], Send(n, out),
           UNCHANGED readVars, NEW q \in Node, NEW r \in Node, NEW p, Announced(q, r, p)
    PROVE  Announced(q, r, p)'
<1>1. \A i \in DOMAIN wire[q][r] : i \in DOMAIN wire'[q][r] /\ wire'[q][r][i] = wire[q][r][i]
  BY WireKept, Zenon
<1> QED
  BY <1>1, Zenon DEF Announced, readVars

(* An announcement that is sent is underway.                                  *)
LEMMA AnnouncedSent ==
    ASSUME TypeOK, NEW n \in Node, NEW out \in [Node -> Seq(Envelope)], Send(n, out),
           NEW r \in Node, NEW p,
           \E i \in DOMAIN out[r] : \E j \in DOMAIN out[r][i] : out[r][i][j] = PubAdded(p)
    PROVE  Announced(n, r, p)'
<1>1. wire \in [Node -> [Node -> Seq(Envelope)]]
  BY DEF TypeOK
<1>2. wire'[n][r] = wire[n][r] \o out[r]
  BY <1>1, SendEffect, Zenon
<1> DEFINE w == wire[n][r]
           x == out[r]
<1>3. w \in Seq(Envelope) /\ x \in Seq(Envelope) /\ wire'[n][r] = w \o x
  BY <1>1, <1>2
<1> HIDE DEF w, x
<1>4. \A i \in DOMAIN x : Len(w) + i \in DOMAIN (w \o x) /\ (w \o x)[Len(w) + i] = x[i]
  BY <1>3
<1> QED
  BY <1>3, <1>4, Zenon DEF Announced, x

(* Both sides stay in agreement when the envelopes sent answer the change.    *)
LEMMA SubscribedKept ==
    ASSUME TypeOK, Subscribed, NEW n \in Node, NEW out \in [Node -> Seq(Envelope)], Send(n, out),
           \A q, r \in Node, p \in Pub : KnownSoon(q, r, p)' = KnownSoon(q, r, p),
           \A q, r \in Node, p \in Pub : q # n => Wants(q, r, p)' = Wants(q, r, p),
           \A r \in Node, p \in Pub, s \in Sub :
               Answers(out[r], p, s, Wants(n, r, p), Wants(n, r, p)')
    PROVE  Subscribed'
<1>1. wire \in [Node -> [Node -> Seq(Envelope)]]
  BY DEF TypeOK
<1>2. /\ \A r \in Node : wire'[n][r] = wire[n][r] \o out[r]
      /\ \A q, r \in Node : q # n => wire'[q][r] = wire[q][r]
  BY <1>1, SendEffect, Zenon
<1>3. ASSUME NEW q \in Node, NEW r \in Node, NEW p \in Pub, NEW s \in Sub
      PROVE  Agrees(wire'[q][r], p, s, KnownSoon(r, q, p)', Wants(q, r, p)')
  <2>1. Agrees(wire[q][r], p, s, KnownSoon(r, q, p), Wants(q, r, p))
    BY Zenon DEF Subscribed
  <2>2. KnownSoon(r, q, p)' = KnownSoon(r, q, p)
    OBVIOUS
  <2>3. CASE q = n
    <3>1. Answers(out[r], p, s, Wants(n, r, p), Wants(n, r, p)')
      OBVIOUS
    <3>2. wire[n][r] \in Seq(Envelope) /\ out[r] \in Seq(Envelope)
      BY <1>1
    <3>3. Agrees(wire[n][r] \o out[r], p, s, KnownSoon(r, n, p), Wants(n, r, p)')
      BY <2>1, <2>3, <3>1, <3>2, AgreesAppend, Zenon
    <3> QED
      BY <1>2, <2>2, <2>3, <3>3, Zenon
  <2>4. CASE q # n
    BY <1>2, <2>1, <2>2, <2>4, Zenon
  <2> QED
    BY <2>3, <2>4
<1> QED
  BY <1>3, Zenon DEF Subscribed, Agrees

(* The subscriptions known soon depend on the subscriptions and on what is    *)
(* being read.                                                                *)
LEMMA KnownSoonKept ==
    ASSUME UNCHANGED <<subscriptions, remoteId, envelope>>
    PROVE  \A q, r \in Node, p \in Pub : KnownSoon(q, r, p)' = KnownSoon(q, r, p)
BY Zenon DEF KnownSoon, SubscriptionsOf

-----------------------------------------------------------------------------
(* addRemotePubToLocalSubs.                                                   *)

(* Reading a map after an assignment.                                         *)
LEMMA GetPut ==
    ASSUME NEW f, NEW k, NEW v, NEW x
    PROVE  Get(Put(f, k, v), x) = IF x = k THEN v ELSE Get(f, x)
BY DEF Get, Put

(* The publishers of r that are pending, with pubs, move to the remote ones   *)
(* if r is discovered, and the subscriptions of the local subscribers to what *)
(* moved are sent to r behind what was already sent.                          *)
LEMMA AddRemotePubEffect ==
    ASSUME ListsMessages, TypeOK, NEW n \in Node, NEW r \in Node, NEW pubs, pubs \subseteq Pub,
           NEW sent \in Seq(Envelope), AddRemotePubToLocalSubs(n, r, pubs, sent)
    PROVE  /\ \A q \in Node, k \in Node : q # n \/ k # r =>
                  /\ Get(remotePubs'[q], k) = Get(remotePubs[q], k)
                  /\ Get(pendingRemotePubs'[q], k) = Get(pendingRemotePubs[q], k)
           /\ \E moved \in SUBSET Pub :
                  /\ Get(remotePubs'[n], r) = Get(remotePubs[n], r) \cup moved
                  /\ Get(remotePubs'[n], r) \cup Get(pendingRemotePubs'[n], r) = Heard(n, r) \cup pubs
                  /\ moved # {} => r \in nodes'[n]
                  /\ Send(n, [q \in Node |->
                        IF q = r THEN sent \o Envelopes(SubscribeAll(moved, localSubs[n])) ELSE <<>>])
<1> DEFINE old  == pendingRemotePubs[n]
           pend == IF pubs = {} THEN old ELSE Put(old, r, Get(old, r) \cup pubs)
           news == Get(pend, r)
           out  == Envelopes(SubscribeAll(news, localSubs[n]))
           M == Maps(Node, SUBSET Pub)
<1>1. /\ old \in M /\ localSubs[n] \subseteq Sub
      /\ remotePubs \in [Node -> M] /\ pendingRemotePubs \in [Node -> M]
  BY Zenon DEF TypeOK
<1>2. news = Get(old, r) \cup pubs
  BY GetPut
<1>3. \A k \in Node : k # r => Get(pend, k) = Get(old, k)
  BY GetPut
<1>4. news \in SUBSET Pub
  <2>1. Get(old, r) \in SUBSET Pub
    BY <1>1, GetType
  <2> HIDE DEF news, old
  <2> QED
    BY <1>2, <2>1
<1>5. Heard(n, r) = Get(remotePubs[n], r) \cup Get(old, r)
  BY Zenon DEF Heard
<1>6. CASE r \in nodes'[n] /\ r \in DOMAIN pend
  <2>1. /\ remotePubs' = [remotePubs EXCEPT ![n] =
                IF news = {} THEN remotePubs[n]
                             ELSE Put(remotePubs[n], r, Get(remotePubs[n], r) \cup news)]
        /\ pendingRemotePubs' = [pendingRemotePubs EXCEPT ![n] = Put(pend, r, {})]
        /\ Send(n, [q \in Node |-> IF q = r THEN sent \o out ELSE <<>>])
    BY <1>6, Zenon DEF AddRemotePubToLocalSubs
  <2> HIDE DEF pend, news
  <2>2. /\ \A q \in Node : q # n => /\ remotePubs'[q] = remotePubs[q]
                                     /\ pendingRemotePubs'[q] = pendingRemotePubs[q]
        /\ remotePubs'[n] = IF news = {} THEN remotePubs[n]
                            ELSE Put(remotePubs[n], r, Get(remotePubs[n], r) \cup news)
        /\ pendingRemotePubs'[n] = Put(pend, r, {})
    BY <1>1, <2>1, Zenon
  <2>3. /\ Get(remotePubs'[n], r) = Get(remotePubs[n], r) \cup news
        /\ \A k \in Node : k # r => Get(remotePubs'[n], k) = Get(remotePubs[n], k)
    BY <2>2, GetPut
  <2>4. /\ Get(pendingRemotePubs'[n], r) = {}
        /\ \A k \in Node : k # r => Get(pendingRemotePubs'[n], k) = Get(pendingRemotePubs[n], k)
    BY <1>3, <2>2, GetPut
  <2>5. Get(remotePubs'[n], r) \cup Get(pendingRemotePubs'[n], r) = Heard(n, r) \cup pubs
    BY <1>2, <1>5, <2>3, <2>4
  <2>6. \A q \in Node, k \in Node : q # n \/ k # r =>
                  /\ Get(remotePubs'[q], k) = Get(remotePubs[q], k)
                  /\ Get(pendingRemotePubs'[q], k) = Get(pendingRemotePubs[q], k)
    BY <2>2, <2>3, <2>4, Zenon
  <2> QED
    BY <1>4, <1>6, <2>1, <2>3, <2>5, <2>6, Zenon
<1>7. CASE ~(r \in nodes'[n] /\ r \in DOMAIN pend)
  <2>1. /\ pendingRemotePubs' = [pendingRemotePubs EXCEPT ![n] = pend]
        /\ Send(n, [q \in Node |-> IF q = r THEN sent ELSE <<>>])
        /\ UNCHANGED <<remotePubs, connections>>
    BY <1>7 DEF AddRemotePubToLocalSubs
  <2>2. SubscribeAll({}, localSubs[n]) = {}
    BY DEF SubscribeAll, Matching
  <2>3. Envelopes({}) = <<>>
    BY EnvelopesOf
  <2>4. sent \o Envelopes(SubscribeAll({}, localSubs[n])) = sent
    <3>1. Envelopes(SubscribeAll({}, localSubs[n])) = <<>>
      BY <2>2, <2>3, Zenon
    <3> QED
      BY <3>1
  <2> HIDE DEF pend, news
  <2>5. /\ \A q \in Node : q # n => pendingRemotePubs'[q] = pendingRemotePubs[q]
        /\ pendingRemotePubs'[n] = pend
    BY <1>1, <2>1, Zenon
  <2>6. Get(remotePubs'[n], r) \cup Get(pendingRemotePubs'[n], r) = Heard(n, r) \cup pubs
    BY <1>2, <1>5, <2>1, <2>5 DEF news
  <2>7. \A q \in Node, k \in Node : q # n \/ k # r =>
                  /\ Get(remotePubs'[q], k) = Get(remotePubs[q], k)
                  /\ Get(pendingRemotePubs'[q], k) = Get(pendingRemotePubs[q], k)
    BY <1>3, <2>1, <2>5, Zenon
  <2>8. Send(n, [q \in Node |->
            IF q = r THEN sent \o Envelopes(SubscribeAll({}, localSubs[n])) ELSE <<>>])
    BY <2>1, <2>4, Zenon
  <2>9. {} \in SUBSET Pub /\ Get(remotePubs'[n], r) = Get(remotePubs[n], r) \cup {}
    BY <2>1
  <2> QED
    BY <2>6, <2>7, <2>8, <2>9, Zenon
<1> QED
  BY <1>6, <1>7, Zenon

(* It sends what is allowed and answers the change of what the node wants,    *)
(* and nothing that was heard is lost.                                        *)
LEMMA AddRemotePubSettles ==
    ASSUME ListsMessages, SettleInv, NEW n \in Node, NEW r \in Node, NEW pubs, pubs \subseteq localPubs[r],
           pubs # {} => n \in nodes[r],
           NEW sent \in Seq(Envelope), AddRemotePubToLocalSubs(n, r, pubs, sent),
           UNCHANGED <<localPubs, localSubs>>,
           \A q \in Node : nodes[q] \subseteq nodes'[q],
           \A i \in 1 .. Len(sent) :
               /\ sent[i] \in Allowed(n, r)' /\ r \in nodes'[n]
               /\ \A p \in Pub, s \in Sub : ~ About(sent[i], p, s)
    PROVE  /\ Learnt'
           /\ \A q, k \in Node : Heard(q, k) \subseteq Heard(q, k)'
           /\ pubs \subseteq Heard(n, r)'
           /\ \A q, k \in Node, p \in Pub : q # n => Wants(q, k, p)' = Wants(q, k, p)
           /\ \E out \in [Node -> Seq(Envelope)] :
                  /\ Send(n, out)
                  /\ \A i \in 1 .. Len(sent) : i \in 1 .. Len(out[r]) /\ out[r][i] = sent[i]
                  /\ \A k \in Node : \A i \in 1 .. Len(out[k]) :
                         out[k][i] \in Allowed(n, k)' /\ k \in nodes'[n]
                  /\ \A k \in Node, p \in Pub, s \in Sub :
                         Answers(out[k], p, s, Wants(n, k, p), Wants(n, k, p)')
<1>1. TypeOK /\ localPubs[r] \subseteq Pub /\ localSubs[n] \subseteq Sub
  BY Zenon DEF SettleInv, IndInv, TypeOK
<1>2. pubs \subseteq Pub
  BY <1>1, Zenon
<1>3. \A q \in Node, k \in Node : q # n \/ k # r =>
                  /\ Get(remotePubs'[q], k) = Get(remotePubs[q], k)
                  /\ Get(pendingRemotePubs'[q], k) = Get(pendingRemotePubs[q], k)
  BY <1>1, <1>2, AddRemotePubEffect, Zenon
<1>4. PICK moved \in SUBSET Pub :
                  /\ Get(remotePubs'[n], r) = Get(remotePubs[n], r) \cup moved
                  /\ Get(remotePubs'[n], r) \cup Get(pendingRemotePubs'[n], r) = Heard(n, r) \cup pubs
                  /\ moved # {} => r \in nodes'[n]
                  /\ Send(n, [q \in Node |->
                        IF q = r THEN sent \o Envelopes(SubscribeAll(moved, localSubs[n])) ELSE <<>>])
  BY <1>1, <1>2, AddRemotePubEffect, Zenon
<1> DEFINE msgs == SubscribeAll(moved, localSubs[n])
           env  == Envelopes(msgs)
           out  == [q \in Node |-> IF q = r THEN sent \o env ELSE <<>>]
<1>5. \A q, k \in Node : Heard(q, k)' = IF q = n /\ k = r THEN Heard(n, r) \cup pubs ELSE Heard(q, k)
  BY <1>3, <1>4, Zenon DEF Heard
<1>6. Learnt'
  <2>1. \A q, k \in Node :
            Heard(q, k) \subseteq localPubs[k] /\ (Heard(q, k) # {} => q \in nodes[k])
    BY Zenon DEF SettleInv, Learnt
  <2>2. localPubs' = localPubs
    OBVIOUS
  <2> QED
    BY <1>5, <2>1, <2>2 DEF Learnt
<1>7. msgs \subseteq Message
  BY <1>1, SubscribeAllType
<1>8. \A m \in msgs : \E p \in moved, s \in localSubs[n] :
          m = Subscribe(p, s) /\ channelName[p] = channelName[s]
  BY DEF SubscribeAll, Matching
<1>9. \A p \in moved, s \in localSubs[n] :
          channelName[p] = channelName[s] => Subscribe(p, s) \in msgs
  BY DEF SubscribeAll, Matching
<1> HIDE DEF msgs
<1>10. /\ env \in Seq(Envelope)
       /\ \A i \in 1 .. Len(env) : \E m \in msgs : env[i] = <<m>>
       /\ \A m \in msgs : \E i \in 1 .. Len(env) : env[i] = <<m>>
  BY <1>7, EnvelopesOf, Zenon
<1> HIDE DEF env
<1>11. \A i \in 1 .. Len(env) : \E p \in moved, s \in localSubs[n] :
          env[i] = <<Subscribe(p, s)>> /\ channelName[p] = channelName[s]
  <2> SUFFICES ASSUME NEW i \in 1 .. Len(env)
               PROVE  \E p \in moved, s \in localSubs[n] :
                          env[i] = <<Subscribe(p, s)>> /\ channelName[p] = channelName[s]
    OBVIOUS
  <2>1. PICK m \in msgs : env[i] = <<m>>
    BY <1>10, Zenon
  <2>2. PICK p \in moved, s \in localSubs[n] : m = Subscribe(p, s) /\ channelName[p] = channelName[s]
    BY <1>8, <2>1, Zenon
  <2> QED
    BY <2>1, <2>2, Zenon
<1>12. \A p \in moved, s \in localSubs[n] : channelName[p] = channelName[s] =>
          \E i \in 1 .. Len(env) : env[i] = <<Subscribe(p, s)>>
  BY <1>9, <1>10, Zenon
<1>13. /\ out \in [Node -> Seq(Envelope)]
       /\ out[r] = sent \o env
       /\ \A k \in Node : k # r => out[k] = <<>>
  BY <1>10
<1>14. Send(n, out)
  BY <1>4 DEF env, msgs
<1> HIDE DEF out
<1>15. /\ Len(out[r]) = Len(sent) + Len(env)
       /\ Len(sent) \in Nat /\ Len(env) \in Nat
       /\ \A i \in 1 .. Len(sent) : out[r][i] = sent[i]
       /\ \A i \in 1 .. Len(env) : out[r][Len(sent) + i] = env[i]
  BY <1>10, <1>13
<1>16. \A i \in 1 .. Len(out[r]) :
          \/ i \in 1 .. Len(sent) /\ out[r][i] = sent[i]
          \/ \E j \in 1 .. Len(env) : out[r][i] = env[j]
  <2>1. ASSUME NEW i \in 1 .. Len(out[r]), i \notin 1 .. Len(sent)
        PROVE  i - Len(sent) \in 1 .. Len(env) /\ Len(sent) + (i - Len(sent)) = i
    BY <1>15, <2>1
  <2> QED
    BY <1>15, <2>1, Zenon
<1>17. \A i \in 1 .. Len(env) : \E j \in 1 .. Len(out[r]) : out[r][j] = env[i]
  <2>1. ASSUME NEW i \in 1 .. Len(env)
        PROVE  Len(sent) + i \in 1 .. Len(out[r])
    BY <1>15
  <2> QED
    BY <1>15, <2>1
<1>18. ASSUME NEW j \in 1 .. Len(env)
       PROVE  env[j] \in Allowed(n, r)' /\ r \in nodes'[n]
  <2>1. PICK p \in moved, s \in localSubs[n] : env[j] = <<Subscribe(p, s)>>
    BY <1>11, Zenon
  <2>2. p \in Heard(n, r)'
    BY <1>4, <2>1 DEF Heard
  <2>3. p \in localPubs'[r] /\ n \in nodes'[r]
    BY <1>6, <2>2 DEF Learnt
  <2>4. Subscribe(p, s) \in Request(r)'
    BY <1>1, <2>3 DEF Request
  <2>5. env[j] \in Allowed(n, r)'
    BY <2>1, <2>3, <2>4, Zenon DEF Allowed
  <2> QED
    BY <1>4, <2>1, <2>5
<1>19. ASSUME NEW k \in Node, NEW i \in 1 .. Len(out[k])
       PROVE  out[k][i] \in Allowed(n, k)' /\ k \in nodes'[n]
  <2>1. k = r
    <3>1. k # r => Len(out[k]) = 0
      BY <1>13
    <3> QED
      BY <3>1, <1>19
  <2> QED
    BY <1>16, <1>18, <2>1, Zenon
<1>20. ASSUME NEW q \in Node, NEW k \in Node, NEW p \in Pub, NEW s
       PROVE  s \in Wants(q, k, p)' <=> s \in Interested(q, p) /\ p \in Get(remotePubs'[q], k)
  BY Zenon DEF Wants, Interested
<1>21. \A q, k \in Node, p \in Pub : q # n \/ k # r => Wants(q, k, p)' = Wants(q, k, p)
  <2>1. ASSUME NEW q \in Node, NEW k \in Node, NEW p \in Pub, q # n \/ k # r, NEW s
        PROVE  s \in Wants(q, k, p)' <=> s \in Wants(q, k, p)
    <3>1. Get(remotePubs'[q], k) = Get(remotePubs[q], k)
      BY <1>3, <2>1, Zenon
    <3> QED
      BY <1>20, <3>1, Zenon DEF Wants
  <2> QED
    BY <2>1, Zenon
<1>22. ASSUME NEW k \in Node, NEW p \in Pub, NEW s \in Sub
       PROVE  Answers(out[k], p, s, Wants(n, k, p), Wants(n, k, p)')
  <2>1. CASE k # r
    <3>1. Len(out[k]) = 0
      BY <1>13, <2>1
    <3>2. 1 .. Len(out[k]) = {}
      BY <3>1
    <3> QED
      BY <1>21, <2>1, <3>2, Zenon DEF Answers
  <2>2. CASE k = r
    <3>1. ASSUME NEW i \in 1 .. Len(out[r]), About(out[r][i], p, s)
          PROVE  out[r][i] = <<Subscribe(p, s)>> /\ s \in Wants(n, r, p)'
      <4>1. PICK j \in 1 .. Len(env) : out[r][i] = env[j]
        BY <1>16, <3>1, Zenon
      <4>2. PICK p2 \in moved, s2 \in localSubs[n] :
                env[j] = <<Subscribe(p2, s2)>> /\ channelName[p2] = channelName[s2]
        BY <1>11, Zenon
      <4>3. p2 = p /\ s2 = s
        <5>1. About(<<Subscribe(p2, s2)>>, p, s)
          BY <3>1, <4>1, <4>2, Zenon
        <5> QED
          BY <5>1, AboutOne, Zenon
      <4>4. s \in Interested(n, p)
        BY <4>2, <4>3 DEF Interested
      <4>5. p \in Get(remotePubs'[n], r)
        BY <1>4, <4>2, <4>3
      <4> QED
        BY <1>20, <4>1, <4>2, <4>3, <4>4, <4>5, Zenon
    <3>2. ASSUME \A i \in 1 .. Len(out[r]) : ~ About(out[r][i], p, s)
          PROVE  s \in Wants(n, r, p) <=> s \in Wants(n, r, p)'
      <4>1. ~ (p \in moved /\ s \in Interested(n, p))
        <5> SUFFICES ASSUME p \in moved, s \in Interested(n, p) PROVE FALSE
          OBVIOUS
        <5>1. s \in localSubs[n] /\ channelName[p] = channelName[s]
          BY DEF Interested
        <5>2. PICK i \in 1 .. Len(env) : env[i] = <<Subscribe(p, s)>>
          BY <1>12, <5>1, Zenon
        <5>3. PICK j \in 1 .. Len(out[r]) : out[r][j] = env[i]
          BY <1>17, Zenon
        <5> QED
          BY <3>2, <5>2, <5>3, Zenon DEF About
      <4>2. s \in Wants(n, r, p)' <=> s \in Interested(n, p) /\ p \in Get(remotePubs'[n], r)
        BY <1>20, Zenon
      <4>3. s \in Wants(n, r, p) <=> s \in Interested(n, p) /\ p \in Get(remotePubs[n], r)
        BY Zenon DEF Wants
      <4> QED
        BY <1>4, <4>1, <4>2, <4>3
    <3> QED
      BY <2>2, <3>1, <3>2, Zenon DEF Answers
  <2> QED
    BY <2>1, <2>2
<1>23. \A i \in 1 .. Len(sent) : i \in 1 .. Len(out[r]) /\ out[r][i] = sent[i]
  BY <1>15
<1>24. \A q, k \in Node : Heard(q, k) \subseteq Heard(q, k)'
  BY <1>5
<1>25. pubs \subseteq Heard(n, r)'
  BY <1>5
<1> QED
  BY <1>6, <1>13, <1>14, <1>19, <1>21, <1>22, <1>23, <1>24, <1>25, Zenon

-----------------------------------------------------------------------------
(* Every handler keeps the settling invariant.                                *)

(* The list for a newcomer announces all publishers and nothing else.         *)
LEMMA PubListAll ==
    ASSUME ListsMessages, TypeOK, NEW n \in Node
    PROVE  /\ PubList(n) \in Seq(Envelope)
           /\ \A i \in 1 .. Len(PubList(n)) :
                  PubList(n)[i] \in Seq(Announcement(n)) /\ PubList(n)[i] # <<>>
           /\ \A p \in localPubs[n] : \E i \in 1 .. Len(PubList(n)) :
                  \E j \in DOMAIN PubList(n)[i] : PubList(n)[i][j] = PubAdded(p)
<1> DEFINE e == InSomeOrder(Announcement(n))
<1>1. localPubs[n] \subseteq Pub
  BY DEF TypeOK
<1>2. Announcement(n) \subseteq Message
  BY <1>1 DEF Announcement, PubAdded, Message
<1>3. CASE localPubs[n] = {}
  BY <1>3 DEF PubList
<1>4. CASE localPubs[n] # {}
  <2>1. /\ e \in Seq(Announcement(n))
        /\ \A m \in Announcement(n) : \E j \in 1 .. Len(e) : e[j] = m
    BY <1>2, Zenon DEF ListsMessages, ListsAll
  <2>2. e \in Seq(Message)
    <3> HIDE DEF e
    <3> QED
      BY <1>2, <2>1, SeqMonotone, Zenon
  <2>3. PubList(n) = <<e>>
    BY <1>4 DEF PubList, Announcement
  <2> HIDE DEF e
  <2>4. DOMAIN e = 1 .. Len(e)
    BY <2>1
  <2>5. ASSUME NEW p \in localPubs[n]
        PROVE  \E j \in DOMAIN e : e[j] = PubAdded(p)
    <3>1. PubAdded(p) \in Announcement(n)
      BY DEF Announcement
    <3> QED
      BY <2>1, <2>4, <3>1, Zenon
  <2>6. e # <<>>
    <3>1. PICK p \in localPubs[n] : TRUE
      BY <1>4
    <3>2. PICK j \in DOMAIN e : e[j] = PubAdded(p)
      BY <2>5
    <3>3. j \in 1 .. Len(e)
      BY <2>4, <3>2
    <3>4. Len(e) # 0
      BY <2>1, <3>3
    <3> QED
      BY <3>4
  <2>7. /\ Len(PubList(n)) = 1
        /\ PubList(n)[1] = e
    BY <2>3
  <2>8. \A i \in 1 .. Len(PubList(n)) : PubList(n)[i] = e
    BY <2>7
  <2>9. 1 \in 1 .. Len(PubList(n))
    BY <2>7
  <2>10. PubList(n) \in Seq(Envelope)
    BY <2>2, <2>3 DEF Envelope
  <2> QED
    BY <2>1, <2>5, <2>6, <2>8, <2>9, <2>10, Zenon
<1> QED
  BY <1>3, <1>4

(* Discovery reports a node: it gets the list of publishers, and what was     *)
(* pending for it is subscribed to.                                           *)
LEMMA AddedSettles ==
    ASSUME ListsMessages, SettleInv, NEW n \in Node, NEW r \in Node, Added(n, r)
    PROVE  NoneSuspended' /\ Sent' /\ Read' /\ Learnt' /\ AllAnnounced' /\ Subscribed'
<1> DEFINE list == PubList(n)
<1>1. /\ TypeOK /\ IndInv /\ NoneSuspended /\ Sent /\ Read /\ AllAnnounced /\ Subscribed
  BY Zenon DEF SettleInv, IndInv
<1>2. /\ nodes' = [nodes EXCEPT ![n] = @ \cup {r}]
      /\ AddRemotePubToLocalSubs(n, r, {}, list)
      /\ UNCHANGED <<localPubs, localSubs, subscriptions, isSuspended, remoteId, envelope>>
      /\ UNCHANGED readVars
  BY Zenon DEF Added, pubVars, readVars
<1>3. \A q, k \in Node : k \in nodes'[q] <=> k \in nodes[q] \/ (q = n /\ k = r)
  BY <1>1, <1>2 DEF TypeOK
<1>4. \A q \in Node : nodes[q] \subseteq nodes'[q] /\ localPubs[q] \subseteq localPubs'[q]
  BY <1>1, <1>2 DEF TypeOK
<1>5. /\ list \in Seq(Envelope)
      /\ \A i \in 1 .. Len(list) : list[i] \in Seq(Announcement(n)) /\ list[i] # <<>>
      /\ \A p \in localPubs[n] : \E i \in 1 .. Len(list) :
             \E j \in DOMAIN list[i] : list[i][j] = PubAdded(p)
  BY <1>1, PubListAll, Zenon
<1> HIDE DEF list
<1>6. ASSUME NEW i \in 1 .. Len(list)
      PROVE  /\ list[i] \in Allowed(n, r)' /\ r \in nodes'[n]
             /\ \A p \in Pub, s \in Sub : ~ About(list[i], p, s)
  <2>1. list[i] \in Allowed(n, r)
    BY <1>5, Zenon DEF Allowed
  <2>2. list[i] \in Allowed(n, r)'
    BY <1>4, <2>1, AllowedGrows, Zenon
  <2>3. \A p, s : ~ About(list[i], p, s)
    BY <1>1, <1>5, AnnouncementParts, Zenon
  <2> QED
    BY <1>3, <2>2, <2>3, Zenon
<1>7. /\ Learnt'
      /\ \A q, k \in Node : Heard(q, k) \subseteq Heard(q, k)'
      /\ \A q, k \in Node, p \in Pub : q # n => Wants(q, k, p)' = Wants(q, k, p)
      /\ \E out \in [Node -> Seq(Envelope)] :
             /\ Send(n, out)
             /\ \A i \in 1 .. Len(list) : i \in 1 .. Len(out[r]) /\ out[r][i] = list[i]
             /\ \A k \in Node : \A i \in 1 .. Len(out[k]) :
                    out[k][i] \in Allowed(n, k)' /\ k \in nodes'[n]
             /\ \A k \in Node, p \in Pub, s \in Sub :
                    Answers(out[k], p, s, Wants(n, k, p), Wants(n, k, p)')
  <2>1. {} \subseteq localPubs[r] /\ ({} # {} => n \in nodes[r])
    OBVIOUS
  <2>2. UNCHANGED <<localPubs, localSubs>>
    BY <1>2
  <2>3. list \in Seq(Envelope) /\ AddRemotePubToLocalSubs(n, r, {}, list)
    BY <1>2, <1>5
  <2>4. \A q \in Node : nodes[q] \subseteq nodes'[q]
    BY <1>4
  <2>5. \A i \in 1 .. Len(list) :
            /\ list[i] \in Allowed(n, r)' /\ r \in nodes'[n]
            /\ \A p \in Pub, s \in Sub : ~ About(list[i], p, s)
    BY <1>6, Zenon
  <2> QED
    BY <2>1, <2>2, <2>3, <2>4, <2>5, AddRemotePubSettles, Zenon
<1>8. PICK out \in [Node -> Seq(Envelope)] :
             /\ Send(n, out)
             /\ \A i \in 1 .. Len(list) : i \in 1 .. Len(out[r]) /\ out[r][i] = list[i]
             /\ \A k \in Node : \A i \in 1 .. Len(out[k]) :
                    out[k][i] \in Allowed(n, k)' /\ k \in nodes'[n]
             /\ \A k \in Node, p \in Pub, s \in Sub :
                    Answers(out[k], p, s, Wants(n, k, p), Wants(n, k, p)')
  BY <1>7, Zenon
<1>9. NoneSuspended'
  BY <1>1, <1>2, Zenon DEF NoneSuspended
<1>10. Sent'
  BY <1>1, <1>4, <1>8, SentKept, Zenon
<1>11. Read'
  BY <1>1, <1>2, <1>4, ReadKept, Zenon
<1>12. ASSUME NEW k \in Node, NEW q \in Node, k \in nodes'[q], NEW p \in localPubs'[q]
       PROVE  p \in Heard(k, q)' \/ Announced(q, k, p)'
  <2>1. p \in localPubs[q]
    BY <1>2
  <2>2. CASE k \in nodes[q]
    <3>1. p \in Heard(k, q) \/ Announced(q, k, p)
      BY <1>1, <2>1, <2>2, Zenon DEF AllAnnounced
    <3>2. Announced(q, k, p) => Announced(q, k, p)'
      BY <1>1, <1>2, <1>8, AnnouncedKept, Zenon
    <3> QED
      BY <1>7, <3>1, <3>2, Zenon
  <2>3. CASE k \notin nodes[q]
    <3>1. q = n /\ k = r
      BY <1>3, <1>12, <2>3, Zenon
    <3>2. PICK i \in 1 .. Len(list) : \E j \in DOMAIN list[i] : list[i][j] = PubAdded(p)
      BY <1>5, <2>1, <3>1, Zenon
    <3>3. i \in 1 .. Len(out[r]) /\ out[r][i] = list[i]
      BY <1>8, Zenon
    <3>4. i \in DOMAIN out[r]
      <4>1. out[r] \in Seq(Envelope)
        OBVIOUS
      <4> QED
        BY <3>3, <4>1
    <3>5. \E a \in DOMAIN out[r] : \E j \in DOMAIN out[r][a] : out[r][a][j] = PubAdded(p)
      BY <3>2, <3>3, <3>4, Zenon
    <3> QED
      BY <1>1, <1>8, <3>1, <3>5, AnnouncedSent, Zenon
  <2> QED
    BY <2>2, <2>3
<1>13. AllAnnounced'
  BY <1>12, Zenon DEF AllAnnounced
<1>14. \A q, k \in Node, p \in Pub : KnownSoon(q, k, p)' = KnownSoon(q, k, p)
  BY <1>2, KnownSoonKept, Zenon
<1>15. Subscribed'
  BY <1>1, <1>7, <1>8, <1>14, SubscribedKept, Zenon
<1> QED
  BY <1>7, <1>9, <1>10, <1>11, <1>13, <1>15, Zenon

(* The application adds a publisher: all discovered nodes are told.           *)
LEMMA AddPublisherSettles ==
    ASSUME SettleInv, NEW n \in Node, NEW new \in Pub, AddPublisher(n, new)
    PROVE  NoneSuspended' /\ Sent' /\ Read' /\ Learnt' /\ AllAnnounced' /\ Subscribed'
<1> DEFINE e == <<PubAdded(new)>>
           out == [r \in Node |-> IF r \in sockets[n] THEN <<e>> ELSE <<>>]
<1>1. /\ TypeOK /\ sockets = nodes
      /\ NoneSuspended /\ Sent /\ Read /\ Learnt /\ AllAnnounced /\ Subscribed
  BY Zenon DEF SettleInv, IndInv, NodesHaveSockets
<1>2. /\ localPubs' = [localPubs EXCEPT ![n] = @ \cup {new}]
      /\ Send(n, out)
      /\ UNCHANGED <<nodes, localSubs, remotePubs, pendingRemotePubs, subscriptions, isSuspended>>
      /\ UNCHANGED <<remoteId, envelope>> /\ UNCHANGED readVars
  BY Zenon DEF AddPublisher, nodeVars, readVars
<1>3. \A q \in Node, p \in Pub : p \in localPubs'[q] <=> p \in localPubs[q] \/ (q = n /\ p = new)
  BY <1>1, <1>2 DEF TypeOK
<1>4. \A q \in Node : nodes[q] \subseteq nodes'[q] /\ localPubs[q] \subseteq localPubs'[q]
  BY <1>1, <1>2 DEF TypeOK
<1>5. PubAdded(new) \in Announcement(n)'
  BY <1>3 DEF Announcement
<1>6. e \in Seq(Announcement(n)') /\ e # <<>> /\ 1 \in DOMAIN e /\ e[1] = PubAdded(new)
  <2> HIDE DEF PubAdded, Announcement
  <2> QED
    BY <1>5
<1>7. e \in Envelope
  <2>1. PubAdded(new) \in Message
    BY DEF PubAdded, Message
  <2> HIDE DEF PubAdded, Message
  <2> QED
    BY <2>1 DEF Envelope
<1>8. \A p, s : ~ About(e, p, s)
  BY DEF About, Subscribe, Unsubscribe, PubAdded
<1> HIDE DEF e
<1>9. /\ out \in [Node -> Seq(Envelope)]
      /\ \A r \in Node : r \in sockets[n] => Len(out[r]) = 1 /\ 1 \in DOMAIN out[r] /\ out[r][1] = e
      /\ \A r \in Node : r \notin sockets[n] => Len(out[r]) = 0
  BY <1>7
<1> HIDE DEF out
<1>10. ASSUME NEW r \in Node, NEW i \in 1 .. Len(out[r])
       PROVE  out[r][i] = e /\ r \in nodes'[n]
  BY <1>1, <1>2, <1>9
<1>11. NoneSuspended'
  BY <1>1, <1>2, Zenon DEF NoneSuspended
<1>12. Sent'
  <2>1. \A r \in Node : e \in Allowed(n, r)'
    BY <1>6, Zenon DEF Allowed
  <2>2. \A r \in Node : \A i \in 1 .. Len(out[r]) : out[r][i] \in Allowed(n, r)' /\ r \in nodes'[n]
    BY <1>10, <2>1, Zenon
  <2> QED
    BY <1>1, <1>2, <1>4, <1>9, <2>2, SentKept, Zenon
<1>13. Read'
  BY <1>1, <1>2, <1>4, ReadKept, Zenon
<1>14. \A q, r \in Node : Heard(q, r)' = Heard(q, r)
  BY <1>2, Zenon DEF Heard
<1>15. Learnt'
  BY <1>1, <1>4, <1>14 DEF Learnt
<1>16. ASSUME NEW k \in Node, NEW q \in Node, k \in nodes'[q], NEW p \in localPubs'[q]
       PROVE  p \in Heard(k, q)' \/ Announced(q, k, p)'
  <2>1. k \in nodes[q] /\ (p \in localPubs[q] \/ (q = n /\ p = new))
    BY <1>1, <1>2, <1>16 DEF TypeOK
  <2>2. CASE p \in localPubs[q]
    <3>1. p \in Heard(k, q) \/ Announced(q, k, p)
      BY <1>1, <2>1, <2>2, Zenon DEF AllAnnounced
    <3>2. Announced(q, k, p) => Announced(q, k, p)'
      BY <1>1, <1>2, <1>9, AnnouncedKept, Zenon
    <3> QED
      BY <1>14, <3>1, <3>2, Zenon
  <2>3. CASE q = n /\ p = new
    <3>1. 1 \in DOMAIN out[k] /\ out[k][1] = e
      BY <1>1, <1>9, <2>1, <2>3, Zenon
    <3>2. \E i \in DOMAIN out[k] : \E j \in DOMAIN out[k][i] : out[k][i][j] = PubAdded(p)
      BY <1>6, <2>3, <3>1, Zenon
    <3> QED
      BY <1>1, <1>2, <1>9, <2>3, <3>2, AnnouncedSent, Zenon
  <2> QED
    BY <2>1, <2>2, <2>3
<1>17. AllAnnounced'
  BY <1>16, Zenon DEF AllAnnounced
<1>18. \A q, r \in Node, p \in Pub : KnownSoon(q, r, p)' = KnownSoon(q, r, p)
  BY <1>2, KnownSoonKept, Zenon
<1>19. \A q, r \in Node, p \in Pub : Wants(q, r, p)' = Wants(q, r, p)
  BY <1>2, Zenon DEF Wants, Interested
<1>20. \A r \in Node, p \in Pub, s \in Sub : Answers(out[r], p, s, Wants(n, r, p), Wants(n, r, p)')
  BY <1>8, <1>10, <1>19, Zenon DEF Answers
<1>21. Subscribed'
  BY <1>1, <1>2, <1>9, <1>18, <1>19, <1>20, SubscribedKept, Zenon
<1> QED
  BY <1>11, <1>12, <1>13, <1>15, <1>17, <1>21, Zenon

\* The messages m[p] for every publisher p in P.
Each(m, P) == {m[p] : p \in P}

\* Subscriber s comes to node n or leaves it, and n tells so, with the message
\* m[p], to the node of every publisher p that s is interested in.
Notify(n, s, m) ==
    /\ \A q \in Node, t \in Sub : q # n \/ t # s => (t \in localSubs'[q] <=> t \in localSubs[q])
    /\ localSubs' \in [Node -> SUBSET Sub]
    /\ m \in [Pub -> Message]
    /\ \A p \in Pub : m[p] = Subscribe(p, s) \/ m[p] = Unsubscribe(p, s)
    /\ \A p \in Pub : m[p] = Subscribe(p, s) <=> s \in localSubs'[n]
    /\ Send(n, [r \in Node |-> Envelopes(Each(m, Matching(Get(remotePubs[n], r), s)))])

\* Envelopes x hold the message m[p], about p and s, for every p in P.
Tells(x, m, P, s) ==
    /\ \A p \in P : m[p] = Subscribe(p, s) \/ m[p] = Unsubscribe(p, s)
    /\ \A i \in 1 .. Len(x) : \E p \in P : x[i] = <<m[p]>>
    /\ \A p \in P : \E i \in 1 .. Len(x) : x[i] = <<m[p]>>

(* The envelopes of these messages.                                           *)
LEMMA EnvelopesEach ==
    ASSUME ListsMessages, NEW m \in [Pub -> Message], NEW P \in SUBSET Pub, NEW s,
           \A p \in P : m[p] = Subscribe(p, s) \/ m[p] = Unsubscribe(p, s)
    PROVE  /\ Envelopes(Each(m, P)) \in Seq(Envelope)
           /\ Tells(Envelopes(Each(m, P)), m, P, s)
<1> DEFINE msgs == Each(m, P)
           x == Envelopes(msgs)
<1>1. msgs \subseteq Message
  BY DEF Each
<1>2. \A y \in msgs : \E p \in P : y = m[p]
  BY DEF Each
<1>3. \A p \in P : m[p] \in msgs
  BY DEF Each
<1> HIDE DEF msgs
<1>4. /\ x \in Seq(Envelope)
      /\ \A i \in 1 .. Len(x) : \E y \in msgs : x[i] = <<y>>
      /\ \A y \in msgs : \E i \in 1 .. Len(x) : x[i] = <<y>>
  BY <1>1, EnvelopesOf, Zenon
<1> HIDE DEF x
<1>5. ASSUME NEW i \in 1 .. Len(x)
      PROVE  \E p \in P : x[i] = <<m[p]>>
  <2>1. PICK y \in msgs : x[i] = <<y>>
    BY <1>4, Zenon
  <2> QED
    BY <1>2, <2>1, Zenon
<1>6. x \in Seq(Envelope) /\ Tells(x, m, P, s)
  BY <1>3, <1>4, <1>5, Zenon DEF Tells
<1> QED
  BY <1>6 DEF x, msgs

(* They answer that s wants the publishers in P, or wants them no more.       *)
LEMMA AnswersEach ==
    ASSUME NEW x, NEW m, NEW P, NEW s, Tells(x, m, P, s), NEW p, NEW t, NEW W, NEW W2,
           p \in P => (m[p] = Subscribe(p, s) <=> s \in W2),
           t # s \/ p \notin P => (t \in W <=> t \in W2)
    PROVE  Answers(x, p, t, W, W2)
<1>1. /\ \A k \in P : m[k] = Subscribe(k, s) \/ m[k] = Unsubscribe(k, s)
      /\ \A i \in 1 .. Len(x) : \E k \in P : x[i] = <<m[k]>>
      /\ \A k \in P : \E i \in 1 .. Len(x) : x[i] = <<m[k]>>
  BY Zenon DEF Tells
<1>2. ASSUME NEW i \in 1 .. Len(x), About(x[i], p, t)
      PROVE  x[i] = <<Subscribe(p, t)>> <=> t \in W2
  <2>1. PICK k \in P : x[i] = <<m[k]>>
    BY <1>1, Zenon
  <2>2. m[k] = Subscribe(k, s) \/ m[k] = Unsubscribe(k, s)
    BY <1>1, Zenon
  <2>3. k = p /\ s = t
    BY <1>2, <2>1, <2>2 DEF About, Subscribe, Unsubscribe
  <2>4. <<m[p]>> = <<Subscribe(p, s)>> <=> m[p] = Subscribe(p, s)
    OBVIOUS
  <2> QED
    BY <2>1, <2>3, <2>4, Zenon
<1>3. ASSUME \A i \in 1 .. Len(x) : ~ About(x[i], p, t)
      PROVE  t # s \/ p \notin P
  <2> SUFFICES ASSUME t = s, p \in P PROVE FALSE
    OBVIOUS
  <2>1. PICK i \in 1 .. Len(x) : x[i] = <<m[p]>>
    BY <1>1, Zenon
  <2>2. m[p] = Subscribe(p, t) \/ m[p] = Unsubscribe(p, t)
    BY <1>1, Zenon
  <2> QED
    BY <1>3, <2>1, <2>2, Zenon DEF About
<1> QED
  BY <1>2, <1>3, Zenon DEF Answers

(* What the two handlers for subscribers share: they send one envelope about  *)
(* s and every matching publisher, and change what s wants accordingly.       *)
LEMMA SubscriberSettles ==
    ASSUME ListsMessages, SettleInv, NEW n \in Node, NEW s \in Sub,
           UNCHANGED <<nodes, localPubs, remotePubs, pendingRemotePubs, subscriptions,
                       isSuspended, remoteId, envelope>>,
           NEW m, Notify(n, s, m)
    PROVE  NoneSuspended' /\ Sent' /\ Read' /\ Learnt' /\ AllAnnounced' /\ Subscribed'
<1> DEFINE match(r) == Matching(Get(remotePubs[n], r), s)
           out == [r \in Node |-> Envelopes(Each(m, match(r)))]
<1>1. /\ TypeOK /\ RemotePubsOfNodes
      /\ NoneSuspended /\ Sent /\ Read /\ Learnt /\ AllAnnounced /\ Subscribed
  BY Zenon DEF SettleInv, IndInv
<1>2. /\ UNCHANGED readVars /\ Send(n, out)
      /\ localSubs' \in [Node -> SUBSET Sub]
      /\ m \in [Pub -> Message]
      /\ \A p \in Pub : m[p] = Subscribe(p, s) \/ m[p] = Unsubscribe(p, s)
      /\ \A p \in Pub : m[p] = Subscribe(p, s) <=> s \in localSubs'[n]
      /\ \A q \in Node, t \in Sub : q # n \/ t # s => (t \in localSubs'[q] <=> t \in localSubs[q])
  BY DEF readVars, Notify
<1>3. ASSUME NEW r \in Node
      PROVE  match(r) \subseteq Pub
  <2>1. remotePubs[n] \in Maps(Node, SUBSET Pub)
    BY <1>1, Zenon DEF TypeOK
  <2>2. Get(remotePubs[n], r) \in SUBSET Pub
    BY <2>1, GetType
  <2> QED
    BY <2>2 DEF Matching
<1>4. ASSUME NEW r \in Node, NEW p \in match(r)
      PROVE  p \in localPubs[r] /\ n \in nodes[r] /\ r \in nodes[n]
  <2>1. p \in Get(remotePubs[n], r)
    BY <1>4 DEF Matching
  <2>2. p \in Heard(n, r)
    BY <2>1 DEF Heard
  <2>3. r \in DOMAIN remotePubs[n]
    BY <2>1 DEF Get
  <2> QED
    BY <1>1, <2>2, <2>3 DEF Learnt, RemotePubsOfNodes
<1>5. \A r \in Node : \A p \in Pub :
          p \in match(r) <=> p \in Get(remotePubs[n], r) /\ channelName[p] = channelName[s]
  BY DEF Matching
<1> HIDE DEF match
<1>6. ASSUME NEW r \in Node
      PROVE  out[r] \in Seq(Envelope) /\ Tells(out[r], m, match(r), s)
  <2>1. out[r] = Envelopes(Each(m, match(r)))
    OBVIOUS
  <2> HIDE DEF out
  <2>2. match(r) \in SUBSET Pub
    BY <1>3, Zenon
  <2>3. \A p \in match(r) : m[p] = Subscribe(p, s) \/ m[p] = Unsubscribe(p, s)
    BY <1>2, <2>2, Zenon
  <2> QED
    BY <1>2, <2>1, <2>2, <2>3, EnvelopesEach, Zenon
<1>7. out \in [Node -> Seq(Envelope)]
  <2>1. out = [r \in Node |-> out[r]]
    OBVIOUS
  <2> HIDE DEF out
  <2> QED
    BY <1>6, <2>1, Zenon
<1> HIDE DEF out
<1>8. \A q \in Node : nodes[q] \subseteq nodes'[q] /\ localPubs[q] \subseteq localPubs'[q]
  OBVIOUS
<1>9. NoneSuspended'
  BY <1>1, Zenon DEF NoneSuspended
<1>10. ASSUME NEW r \in Node, NEW i \in 1 .. Len(out[r])
       PROVE  out[r][i] \in Allowed(n, r)' /\ r \in nodes'[n]
  <2>1. PICK p \in match(r) : out[r][i] = <<m[p]>>
    BY <1>6, Zenon DEF Tells
  <2>2. p \in localPubs[r] /\ n \in nodes[r] /\ r \in nodes[n] /\ p \in Pub
    BY <1>3, <1>4, Zenon
  <2>3. m[p] \in Request(r)
    BY <1>2, <2>2 DEF Request
  <2>4. out[r][i] \in Allowed(n, r)
    BY <2>1, <2>2, <2>3, Zenon DEF Allowed
  <2>5. out[r][i] \in Allowed(n, r)'
    BY <1>8, <2>4, AllowedGrows, Zenon
  <2> QED
    BY <2>2, <2>5
<1>11. Sent'
  BY <1>1, <1>2, <1>7, <1>8, <1>10, SentKept, Zenon
<1>12. Read'
  BY <1>1, <1>2, <1>8, ReadKept, Zenon
<1>13. \A q, r \in Node : Heard(q, r)' = Heard(q, r)
  BY Zenon DEF Heard
<1>14. Learnt'
  BY <1>1, <1>13 DEF Learnt
<1>15. AllAnnounced'
  <2>1. \A q, k \in Node : \A p : Announced(q, k, p) => Announced(q, k, p)'
    BY <1>1, <1>2, <1>7, AnnouncedKept, Zenon
  <2> QED
    BY <1>1, <1>13, <2>1, Zenon DEF AllAnnounced
<1>16. \A q, r \in Node, p \in Pub : KnownSoon(q, r, p)' = KnownSoon(q, r, p)
  BY KnownSoonKept, Zenon
<1>17. ASSUME NEW q \in Node, NEW r \in Node, NEW p \in Pub, NEW t
       PROVE  /\ t \in Wants(q, r, p) <=>
                    /\ t \in localSubs[q] /\ channelName[t] = channelName[p]
                    /\ p \in Get(remotePubs[q], r)
              /\ t \in Wants(q, r, p)' <=>
                    /\ t \in localSubs'[q] /\ channelName[t] = channelName[p]
                    /\ p \in Get(remotePubs[q], r)
  BY Zenon DEF Wants, Interested
<1>18. ASSUME NEW q \in Node, NEW r \in Node, NEW p \in Pub, q # n
       PROVE  Wants(q, r, p)' = Wants(q, r, p)
  <2>1. localSubs[q] \subseteq Sub /\ localSubs'[q] \subseteq Sub
    BY <1>1, <1>2 DEF TypeOK
  <2>2. localSubs'[q] = localSubs[q]
    BY <1>2, <1>18, <2>1, Zenon
  <2> QED
    <3>1. ASSUME NEW t
          PROVE  t \in Wants(q, r, p)' <=> t \in Wants(q, r, p)
      BY <1>17, <2>2, Zenon
    <3> QED
      BY <3>1, Zenon
<1>19. ASSUME NEW r \in Node, NEW p \in Pub, NEW t \in Sub
       PROVE  Answers(out[r], p, t, Wants(n, r, p), Wants(n, r, p)')
  <2>1. Tells(out[r], m, match(r), s)
    BY <1>6, Zenon
  <2>2. /\ s \in Wants(n, r, p) <=> s \in localSubs[n] /\ p \in match(r)
        /\ s \in Wants(n, r, p)' <=> s \in localSubs'[n] /\ p \in match(r)
    <3>1. /\ s \in Wants(n, r, p) <=>
                 s \in localSubs[n] /\ channelName[s] = channelName[p] /\ p \in Get(remotePubs[n], r)
          /\ s \in Wants(n, r, p)' <=>
                 s \in localSubs'[n] /\ channelName[s] = channelName[p] /\ p \in Get(remotePubs[n], r)
      BY <1>17, Zenon
    <3>2. p \in match(r) <=> p \in Get(remotePubs[n], r) /\ channelName[p] = channelName[s]
      BY <1>5, Zenon
    <3> QED
      BY <3>1, <3>2, Zenon
  <2>3. p \in match(r) => (m[p] = Subscribe(p, s) <=> s \in Wants(n, r, p)')
    BY <1>2, <2>2, Zenon
  <2>4. t # s => (t \in Wants(n, r, p) <=> t \in Wants(n, r, p)')
    BY <1>2, <1>17, Zenon
  <2>5. t # s \/ p \notin match(r) => (t \in Wants(n, r, p) <=> t \in Wants(n, r, p)')
    BY <2>2, <2>4, Zenon
  <2> QED
    BY <2>1, <2>3, <2>5, AnswersEach, Zenon
<1>20. Subscribed'
  BY <1>1, <1>2, <1>7, <1>16, <1>18, <1>19, SubscribedKept, Zenon
<1> QED
  BY <1>9, <1>11, <1>12, <1>14, <1>15, <1>20, Zenon

(* The application adds a subscriber: every known publisher of its channel is *)
(* subscribed to.                                                             *)
LEMMA AddSubscriberSettles ==
    ASSUME ListsMessages, SettleInv, NEW n \in Node, NEW s \in Sub, AddSubscriber(n, s)
    PROVE  NoneSuspended' /\ Sent' /\ Read' /\ Learnt' /\ AllAnnounced' /\ Subscribed'
<1> DEFINE match(r) == Matching(Get(remotePubs[n], r), s)
           m == [p \in Pub |-> Subscribe(p, s)]
<1>1. /\ localSubs \in [Node -> SUBSET Sub]
      /\ remotePubs[n] \in Maps(Node, SUBSET Pub)
  BY Zenon DEF SettleInv, IndInv, TypeOK
<1>2. /\ localSubs' = [localSubs EXCEPT ![n] = @ \cup {s}]
      /\ Send(n, [r \in Node |-> Envelopes({Subscribe(p, s) : p \in match(r)})])
      /\ UNCHANGED <<nodes, localPubs, remotePubs, pendingRemotePubs, subscriptions,
                     isSuspended, remoteId, envelope>>
  BY Zenon DEF AddSubscriber, nodeVars, pubVars, readVars
<1>3. ASSUME NEW r \in Node
      PROVE  {Subscribe(p, s) : p \in match(r)} = Each(m, match(r))
  <2>1. Get(remotePubs[n], r) \in SUBSET Pub
    BY <1>1, GetType
  <2>2. match(r) \subseteq Pub
    BY <2>1 DEF Matching
  <2> HIDE DEF match
  <2> QED
    BY <2>2, Zenon DEF Each
<1> HIDE DEF match
<1>4. Send(n, [r \in Node |-> Envelopes(Each(m, match(r)))])
  BY <1>2, <1>3, ZenonT(30)
<1>5. /\ m \in [Pub -> Message]
      /\ \A p \in Pub : m[p] = Subscribe(p, s)
  BY DEF Subscribe, Message
<1>6. /\ localSubs' \in [Node -> SUBSET Sub]
      /\ s \in localSubs'[n]
      /\ \A q \in Node, t \in Sub : q # n \/ t # s => (t \in localSubs'[q] <=> t \in localSubs[q])
  BY <1>1, <1>2
<1> HIDE DEF m
<1>7. Notify(n, s, m)
  BY <1>4, <1>5, <1>6, Zenon DEF Notify, match
<1> QED
  BY <1>2, <1>7, SubscriberSettles, Zenon

(* The application removes a subscriber: its subscriptions are ended.         *)
LEMMA RemoveSubscriberSettles ==
    ASSUME ListsMessages, SettleInv, NEW n \in Node, NEW s \in Sub, RemoveSubscriber(n, s)
    PROVE  NoneSuspended' /\ Sent' /\ Read' /\ Learnt' /\ AllAnnounced' /\ Subscribed'
<1> DEFINE match(r) == Matching(Get(remotePubs[n], r), s)
           m == [p \in Pub |-> Unsubscribe(p, s)]
<1>1. /\ localSubs \in [Node -> SUBSET Sub]
      /\ remotePubs[n] \in Maps(Node, SUBSET Pub)
  BY Zenon DEF SettleInv, IndInv, TypeOK
<1>2. /\ localSubs' = [localSubs EXCEPT ![n] = @ \ {s}]
      /\ Send(n, [r \in Node |-> Envelopes({Unsubscribe(p, s) : p \in match(r)})])
      /\ UNCHANGED <<nodes, localPubs, remotePubs, pendingRemotePubs, subscriptions,
                     isSuspended, remoteId, envelope>>
  BY Zenon DEF RemoveSubscriber, nodeVars, pubVars, readVars
<1>3. ASSUME NEW r \in Node
      PROVE  {Unsubscribe(p, s) : p \in match(r)} = Each(m, match(r))
  <2>1. Get(remotePubs[n], r) \in SUBSET Pub
    BY <1>1, GetType
  <2>2. match(r) \subseteq Pub
    BY <2>1 DEF Matching
  <2> HIDE DEF match
  <2> QED
    BY <2>2, Zenon DEF Each
<1> HIDE DEF match
<1>4. Send(n, [r \in Node |-> Envelopes(Each(m, match(r)))])
  BY <1>2, <1>3, Zenon
<1>5. /\ m \in [Pub -> Message]
      /\ \A p \in Pub : m[p] = Unsubscribe(p, s)
      /\ \A p \in Pub : m[p] # Subscribe(p, s)
  BY DEF Subscribe, Unsubscribe, Message
<1>6. /\ localSubs' \in [Node -> SUBSET Sub]
      /\ s \notin localSubs'[n]
      /\ \A q \in Node, t \in Sub : q # n \/ t # s => (t \in localSubs'[q] <=> t \in localSubs[q])
  BY <1>1, <1>2
<1> HIDE DEF m
<1>7. Notify(n, s, m)
  BY <1>4, <1>5, <1>6, Zenon DEF Notify, match
<1> QED
  BY <1>2, <1>7, SubscriberSettles, Zenon

-----------------------------------------------------------------------------
(* The reading thread.                                                        *)

(* A node that reads parts reads them from a node that knows it, and one that *)
(* reads none has reset remoteId.                                             *)
LEMMA ReadsFrom ==
    ASSUME SettleInv, NEW n \in Node
    PROVE  /\ envelope[n].parts = <<>> => remoteId[n] = None
           /\ envelope[n].parts # <<>> =>
                 /\ remoteId[n] \in Node /\ envelope[n].from = remoteId[n]
                 /\ envelope[n].parts \in Allowed(remoteId[n], n)
                 /\ n \in nodes[remoteId[n]]
<1>1. TypeOK
  BY Zenon DEF SettleInv, IndInv
<1>2. CASE remoteId[n] = None /\ envelope[n].parts = <<>>
  BY <1>2
<1>3. CASE \E r \in Node : /\ remoteId[n] = r /\ envelope[n].from = r
                           /\ envelope[n].parts \in Allowed(r, n) /\ n \in nodes[r]
  <2>1. PICK r \in Node : /\ remoteId[n] = r /\ envelope[n].from = r
                          /\ envelope[n].parts \in Allowed(r, n) /\ n \in nodes[r]
    BY <1>3, Zenon
  <2>2. envelope[n].parts # <<>>
    BY <1>1, <2>1, AllowedParts, Zenon
  <2> QED
    BY <2>1, <2>2, Zenon
<1> QED
  BY <1>2, <1>3, Zenon DEF SettleInv, Read

(* Who is known soon, said of one subscriber.                                 *)
LEMMA KnownSoonMember ==
    ASSUME NEW r, NEW n, NEW p, NEW s \in Sub
    PROVE  s \in KnownSoon(r, n, p) <=>
               \/ remoteId[r] = n /\ envelope[r].parts = <<Subscribe(p, s)>>
               \/ /\ s \in SubscriptionsOf(r, n, p)
                  /\ ~ (remoteId[r] = n /\ envelope[r].parts = <<Unsubscribe(p, s)>>)
BY Zenon DEF KnownSoon

(* The next envelope is taken off the wire.                                   *)
LEMMA ReadRemoteIdSettles ==
    ASSUME SettleInv, NEW n \in Node, NEW r \in Node, ReadRemoteId(n, r)
    PROVE  NoneSuspended' /\ Sent' /\ Read' /\ Learnt' /\ AllAnnounced' /\ Subscribed'
<1> DEFINE w == wire[r][n]
<1>1. /\ TypeOK
      /\ NoneSuspended /\ Sent /\ Read /\ Learnt /\ AllAnnounced /\ Subscribed
  BY Zenon DEF SettleInv, IndInv
<1>2. /\ envelope[n].parts = <<>> /\ w # <<>>
      /\ envelope' = [envelope EXCEPT ![n] = [from |-> r, parts |-> Head(w)]]
      /\ wire' = [wire EXCEPT ![r][n] = Tail(w)]
      /\ remoteId' = [remoteId EXCEPT ![n] = IF remoteId[n] = None THEN r ELSE remoteId[n]]
      /\ UNCHANGED <<nodes, localPubs, localSubs, remotePubs, pendingRemotePubs, subscriptions,
                     isSuspended>>
  BY DEF ReadRemoteId, nodeVars, pubVars
<1>3. /\ wire \in [Node -> [Node -> Seq(Envelope)]]
      /\ remoteId \in [Node -> Node \cup {None}]
      /\ envelope \in [Node -> [from : Node \cup {None}, parts : Envelope]]
      /\ None \notin Node
  BY <1>1, NodeAssumption DEF TypeOK
<1>4. remoteId[n] = None
  BY <1>2, ReadsFrom, Zenon
<1>5. /\ w \in Seq(Allowed(r, n)) /\ n \in nodes[r] /\ w \in Seq(Envelope)
  BY <1>1, <1>2, <1>3 DEF Sent
<1>6. /\ remoteId'[n] = r /\ envelope'[n].from = r /\ envelope'[n].parts = Head(w)
      /\ \A k \in Node : k # n => remoteId'[k] = remoteId[k] /\ envelope'[k] = envelope[k]
  BY <1>2, <1>3, <1>4
<1>7. /\ wire'[r][n] = Tail(w)
      /\ \A q, k \in Node : q # r \/ k # n => wire'[q][k] = wire[q][k]
  BY <1>2, <1>3
<1> HIDE DEF w
<1>8. Head(w) \in Allowed(r, n) /\ Tail(w) \in Seq(Allowed(r, n))
  BY <1>2, <1>5, QueueHeadTail, Zenon
<1>9. \A q, k \in Node : Allowed(q, k) \subseteq Allowed(q, k)'
  BY <1>2, AllowedGrows
<1>10. NoneSuspended'
  BY <1>1, <1>2, Zenon DEF NoneSuspended
<1>11. Sent'
  <2>1. ASSUME NEW q \in Node, NEW k \in Node
        PROVE  wire'[q][k] \in Seq(Allowed(q, k)) /\ (wire'[q][k] # <<>> => k \in nodes'[q])
    <3>1. CASE q = r /\ k = n
      BY <1>2, <1>5, <1>7, <1>8, <3>1, Zenon
    <3>2. CASE ~ (q = r /\ k = n)
      BY <1>1, <1>2, <1>7, <3>2, Zenon DEF Sent
    <3> QED
      BY <3>1, <3>2
  <2>2. ASSUME NEW q \in Node, NEW k \in Node
        PROVE  wire'[q][k] \in Seq(Allowed(q, k)')
    BY <1>9, <2>1, SeqMonotone
  <2> QED
    BY <2>1, <2>2, Zenon DEF Sent
<1>12. Read'
  <2>1. ASSUME NEW k \in Node
        PROVE  \/ remoteId'[k] = None /\ envelope'[k].parts = <<>>
               \/ \E q \in Node : /\ remoteId'[k] = q /\ envelope'[k].from = q
                                  /\ envelope'[k].parts \in Allowed(q, k)'
                                  /\ k \in nodes'[q]
    <3>1. CASE k = n
      BY <1>2, <1>5, <1>6, <1>8, <1>9, <3>1, Zenon
    <3>2. CASE k # n
      <4>1. \/ remoteId[k] = None /\ envelope[k].parts = <<>>
            \/ \E q \in Node : /\ remoteId[k] = q /\ envelope[k].from = q
                               /\ envelope[k].parts \in Allowed(q, k)
                               /\ k \in nodes[q]
        BY <1>1, Zenon DEF Read
      <4> QED
        BY <1>2, <1>6, <1>9, <3>2, <4>1, Zenon
    <3> QED
      BY <3>1, <3>2
  <2> QED
    BY <2>1, Zenon DEF Read
<1>13. \A q, k \in Node : Heard(q, k)' = Heard(q, k)
  BY <1>2, Zenon DEF Heard
<1>14. Learnt'
  BY <1>1, <1>2, <1>13, Zenon DEF Learnt
<1>15. ASSUME NEW q \in Node, NEW k \in Node, NEW p, Announced(q, k, p)
       PROVE  Announced(q, k, p)'
  <2>1. CASE \E i \in DOMAIN wire[q][k] : \E j \in DOMAIN wire[q][k][i] :
                 wire[q][k][i][j] = PubAdded(p)
    <3>1. PICK i \in DOMAIN wire[q][k] : \E j \in DOMAIN wire[q][k][i] :
                 wire[q][k][i][j] = PubAdded(p)
      BY <2>1, Zenon
    <3>2. CASE q = r /\ k = n
      <4>1. i \in 1 .. Len(w) /\ \E j \in DOMAIN w[i] : w[i][j] = PubAdded(p)
        BY <1>5, <3>1, <3>2 DEF w
      <4>2. CASE i = 1
        <5>1. w[i] = Head(w)
          BY <1>2, <1>5, <4>2
        <5> QED
          BY <1>6, <3>2, <4>1, <5>1, Zenon DEF Announced
      <4>3. CASE i # 1
        <5>1. i - 1 \in DOMAIN Tail(w) /\ Tail(w)[i - 1] = w[i]
          BY <1>2, <1>5, <4>1, <4>3
        <5>2. \E a \in DOMAIN Tail(w) : \E j \in DOMAIN Tail(w)[a] : Tail(w)[a][j] = PubAdded(p)
          BY <4>1, <5>1, Zenon
        <5>3. wire'[q][k] = Tail(w)
          BY <1>7, <3>2
        <5> QED
          BY <5>2, <5>3, Zenon DEF Announced
      <4> QED
        BY <4>2, <4>3
    <3>3. CASE ~ (q = r /\ k = n)
      BY <1>7, <3>1, <3>3, Zenon DEF Announced
    <3> QED
      BY <3>2, <3>3
  <2>2. CASE remoteId[k] = q /\ \E j \in DOMAIN envelope[k].parts :
                 envelope[k].parts[j] = PubAdded(p)
    <3>1. k # n
      BY <1>3, <1>4, <2>2
    <3> QED
      BY <1>6, <2>2, <3>1, Zenon DEF Announced
  <2> QED
    BY <1>15, <2>1, <2>2, Zenon DEF Announced
<1>16. AllAnnounced'
  BY <1>1, <1>2, <1>13, <1>15, Zenon DEF AllAnnounced
<1>17. \A q, k \in Node, p \in Pub : Wants(q, k, p)' = Wants(q, k, p)
  BY <1>2, Zenon DEF Wants, Interested
<1>18. \A q, k \in Node, p \in Pub : SubscriptionsOf(q, k, p)' = SubscriptionsOf(q, k, p)
  BY <1>2, Zenon DEF SubscriptionsOf
<1>19. ASSUME NEW q \in Node, NEW k \in Node, NEW p \in Pub, NEW s \in Sub
       PROVE  s \in KnownSoon(k, q, p)' <=>
               \/ remoteId'[k] = q /\ envelope'[k].parts = <<Subscribe(p, s)>>
               \/ /\ s \in SubscriptionsOf(k, q, p)
                  /\ ~ (remoteId'[k] = q /\ envelope'[k].parts = <<Unsubscribe(p, s)>>)
  BY <1>18, Zenon DEF KnownSoon
<1>20. ASSUME NEW q \in Node, NEW k \in Node, NEW p \in Pub, NEW s \in Sub
       PROVE  Agrees(wire'[q][k], p, s, KnownSoon(k, q, p)', Wants(q, k, p)')
  <2>1. Agrees(wire[q][k], p, s, KnownSoon(k, q, p), Wants(q, k, p))
    BY <1>1, Zenon DEF Subscribed
  <2>2. CASE q = r /\ k = n
    <3>1. s \in KnownSoon(n, r, p) <=> s \in SubscriptionsOf(n, r, p)
      <4>1. remoteId[n] # r
        BY <1>3, <1>4
      <4> QED
        BY <4>1, KnownSoonMember, Zenon
    <3>2. s \in KnownSoon(n, r, p)' <=>
               \/ Head(w) = <<Subscribe(p, s)>>
               \/ s \in SubscriptionsOf(n, r, p) /\ Head(w) # <<Unsubscribe(p, s)>>
      BY <1>6, <1>19, Zenon
    <3>3. <<Subscribe(p, s)>> # <<Unsubscribe(p, s)>>
      BY DEF Subscribe, Unsubscribe
    <3>4. /\ Head(w) = <<Subscribe(p, s)>> => s \in KnownSoon(n, r, p)'
          /\ Head(w) = <<Unsubscribe(p, s)>> => s \notin KnownSoon(n, r, p)'
          /\ ~ About(Head(w), p, s) => (s \in KnownSoon(n, r, p) <=> s \in KnownSoon(n, r, p)')
      BY <3>1, <3>2, <3>3, Zenon DEF About
    <3>5. Agrees(Tail(w), p, s, KnownSoon(n, r, p)', Wants(r, n, p))
      <4>1. Agrees(w, p, s, KnownSoon(n, r, p), Wants(r, n, p))
        BY <2>1, <2>2 DEF w
      <4> QED
        BY <1>2, <1>5, <3>4, <4>1, AgreesTail, Zenon
    <3> QED
      BY <1>7, <1>17, <2>2, <3>5, Zenon
  <2>3. CASE ~ (q = r /\ k = n)
    <3>1. wire'[q][k] = wire[q][k] /\ Wants(q, k, p)' = Wants(q, k, p)
      BY <1>7, <1>17, <2>3, Zenon
    <3>2. s \in KnownSoon(k, q, p)' <=> s \in KnownSoon(k, q, p)
      <4>1. CASE k # n
        <5>1. s \in KnownSoon(k, q, p) <=>
               \/ remoteId[k] = q /\ envelope[k].parts = <<Subscribe(p, s)>>
               \/ /\ s \in SubscriptionsOf(k, q, p)
                  /\ ~ (remoteId[k] = q /\ envelope[k].parts = <<Unsubscribe(p, s)>>)
          BY KnownSoonMember, Zenon
        <5>2. remoteId'[k] = remoteId[k] /\ envelope'[k] = envelope[k]
          BY <1>6, <4>1, Zenon
        <5> QED
          BY <1>19, <5>1, <5>2, Zenon
      <4>2. CASE k = n
        <5>1. remoteId[n] # q /\ remoteId'[n] # q
          BY <1>3, <1>4, <1>6, <2>3, <4>2
        <5> QED
          BY <1>19, <4>2, <5>1, KnownSoonMember, Zenon
      <4> QED
        BY <4>1, <4>2
    <3> QED
      BY <2>1, <3>1, <3>2, Zenon DEF Agrees
  <2> QED
    BY <2>2, <2>3
<1>21. Subscribed'
  BY <1>20, Zenon DEF Subscribed, Agrees
<1> QED
  BY <1>10, <1>11, <1>12, <1>14, <1>16, <1>21, Zenon

(* The parts being read: announcements of the sender, or one request of a     *)
(* discovered sender for a publisher of the reader.                           *)
LEMMA PartsRead ==
    ASSUME SettleInv, NEW n \in Node, envelope[n].parts # <<>>
    PROVE  /\ remoteId[n] \in Node /\ n \in nodes[remoteId[n]]
           /\ envelope[n].parts \in Seq(Message)
           /\ \/ /\ envelope[n].parts \in Seq(Announcement(remoteId[n]))
                 /\ \E p \in localPubs[remoteId[n]] : Part(n) = PubAdded(p)
              \/ /\ remoteId[n] \in nodes[n]
                 /\ \E p \in localPubs[n], s \in Sub :
                       /\ Part(n) = Subscribe(p, s) \/ Part(n) = Unsubscribe(p, s)
                       /\ envelope[n].parts = <<Part(n)>>
<1> DEFINE e == envelope[n].parts
<1>1. TypeOK
  BY Zenon DEF SettleInv, IndInv
<1>2. PICK r \in Node : r = remoteId[n] /\ e \in Allowed(r, n) /\ n \in nodes[r]
  BY ReadsFrom, Zenon
<1> HIDE DEF e
<1>3. /\ e \in Envelope /\ e # <<>>
      /\ \/ e \in Seq(Announcement(r))
         \/ /\ r \in nodes[n]
            /\ \E p \in localPubs[n], s \in Sub : e = <<Subscribe(p, s)>> \/ e = <<Unsubscribe(p, s)>>
  BY <1>1, <1>2, AllowedParts, Zenon
<1>4. CASE e \in Seq(Announcement(r))
  <2>1. \A i \in 1 .. Len(e) : \E p \in localPubs[r] : e[i] = PubAdded(p)
    BY <1>1, <1>3, <1>4, AnnouncementParts, Zenon
  <2>2. 1 \in 1 .. Len(e) /\ Head(e) = e[1]
    BY <1>3, <1>4
  <2>3. \E p \in localPubs[r] : Head(e) = PubAdded(p)
    BY <2>1, <2>2, Zenon
  <2> QED
    BY <1>2, <1>3, <1>4, <2>3, Zenon DEF Part, e, Envelope
<1>5. CASE /\ r \in nodes[n]
           /\ \E p \in localPubs[n], s \in Sub : e = <<Subscribe(p, s)>> \/ e = <<Unsubscribe(p, s)>>
  <2>1. PICK p \in localPubs[n], s \in Sub : e = <<Subscribe(p, s)>> \/ e = <<Unsubscribe(p, s)>>
    BY <1>5, Zenon
  <2>2. /\ Head(e) = Subscribe(p, s) \/ Head(e) = Unsubscribe(p, s)
        /\ e = <<Head(e)>>
    BY <2>1
  <2> QED
    BY <1>2, <1>3, <1>5, <2>2, Zenon DEF Part, e, Envelope
<1> QED
  BY <1>3, <1>4, <1>5, Zenon

(* After the last part the thread reads nothing, before that the rest.        *)
LEMMA EndOfPartEffect ==
    ASSUME TypeOK, NEW n \in Node, EndOfPart(n)
    PROVE  /\ Len(envelope[n].parts) = 1 => remoteId'[n] = None /\ envelope'[n].parts = <<>>
           /\ Len(envelope[n].parts) # 1 =>
                 /\ remoteId'[n] = remoteId[n]
                 /\ envelope'[n].from = envelope[n].from
                 /\ envelope'[n].parts = Tail(envelope[n].parts)
           /\ \A k \in Node : k # n => remoteId'[k] = remoteId[k] /\ envelope'[k] = envelope[k]
<1>1. /\ remoteId \in [Node -> Node \cup {None}]
      /\ envelope \in [Node -> [from : Node \cup {None}, parts : Envelope]]
  BY DEF TypeOK
<1>2. /\ envelope' = [envelope EXCEPT ![n] =
             IF Len(envelope[n].parts) = 1 THEN NoEnvelope
             ELSE [from |-> envelope[n].from, parts |-> Tail(envelope[n].parts)]]
      /\ remoteId' = [remoteId EXCEPT ![n] = IF Len(envelope[n].parts) = 1 THEN None ELSE @]
  BY DEF EndOfPart, ConsumePart
<1> QED
  BY <1>1, <1>2 DEF NoEnvelope

(* What is underway may still be there if neither nodes nor publishers change. *)
LEMMA SentSame ==
    ASSUME Sent, UNCHANGED <<nodes, localPubs, wire>>
    PROVE  Sent'
<1>1. ASSUME NEW q \in Node, NEW k \in Node
      PROVE  wire[q][k] \in Seq(Allowed(q, k)') /\ (wire[q][k] # <<>> => k \in nodes[q])
  <2>1. wire[q][k] \in Seq(Allowed(q, k)) /\ (wire[q][k] # <<>> => k \in nodes[q])
    BY Zenon DEF Sent
  <2>2. Allowed(q, k) \subseteq Allowed(q, k)'
    BY AllowedGrows
  <2> QED
    BY <2>1, <2>2, SeqMonotone
<1> QED
  BY <1>1, Zenon DEF Sent

\* Node n reads a request of s0 about p0, and its subscriptions follow it.
Follows(n, p0, s0) ==
    /\ Part(n) = Subscribe(p0, s0) \/ Part(n) = Unsubscribe(p0, s0)
    /\ envelope[n].parts = <<Part(n)>>
    /\ EndOfPart(n)
    /\ UNCHANGED <<nodes, localPubs, localSubs, remotePubs, pendingRemotePubs, isSuspended, wire>>
    /\ \A q, k \in Node, p \in Pub, s \in Sub :
           s \in SubscriptionsOf(q, k, p)' <=>
               IF q = n /\ k = remoteId[n] /\ p = p0 /\ s = s0
               THEN Part(n) = Subscribe(p0, s0) ELSE s \in SubscriptionsOf(q, k, p)

(* A request that is read becomes known as it was known to become.            *)
LEMMA RequestSettles ==
    ASSUME SettleInv, NEW n \in Node, NEW p0, NEW s0, Follows(n, p0, s0)
    PROVE  NoneSuspended' /\ Sent' /\ Read' /\ Learnt' /\ AllAnnounced' /\ Subscribed'
<1>0. /\ Part(n) = Subscribe(p0, s0) \/ Part(n) = Unsubscribe(p0, s0)
      /\ envelope[n].parts = <<Part(n)>>
      /\ EndOfPart(n)
      /\ UNCHANGED <<nodes, localPubs, localSubs, remotePubs, pendingRemotePubs, isSuspended, wire>>
  BY Zenon DEF Follows
<1>1. /\ TypeOK
      /\ NoneSuspended /\ Sent /\ Read /\ Learnt /\ AllAnnounced /\ Subscribed
  BY Zenon DEF SettleInv, IndInv
<1>2. Len(envelope[n].parts) = 1
  BY <1>0
<1>3. /\ remoteId'[n] = None /\ envelope'[n].parts = <<>>
      /\ \A k \in Node : k # n => remoteId'[k] = remoteId[k] /\ envelope'[k] = envelope[k]
  BY <1>0, <1>1, <1>2, EndOfPartEffect, Zenon
<1>4. \A q, k \in Node : Allowed(q, k) \subseteq Allowed(q, k)'
  BY <1>0, AllowedGrows
<1>5. NoneSuspended'
  BY <1>0, <1>1, Zenon DEF NoneSuspended
<1>6. Sent'
  BY <1>0, <1>1, SentSame, Zenon
<1>7. Read'
  BY <1>0, <1>1, <1>3, <1>4, Zenon DEF Read
<1>8. \A q, k \in Node : Heard(q, k)' = Heard(q, k)
  BY <1>0, Zenon DEF Heard
<1>9. Learnt'
  BY <1>0, <1>1, <1>8, Zenon DEF Learnt
<1>10. ASSUME NEW q \in Node, NEW k \in Node, NEW p, Announced(q, k, p)
       PROVE  Announced(q, k, p)'
  <2>1. CASE k # n
    BY <1>0, <1>3, <1>10, <2>1, Zenon DEF Announced
  <2>2. CASE k = n
    <3>1. \A j \in DOMAIN envelope[n].parts : envelope[n].parts[j] # PubAdded(p)
      <4>1. \A j \in DOMAIN <<Part(n)>> : <<Part(n)>>[j] = Part(n)
        OBVIOUS
      <4>2. Part(n) # PubAdded(p)
        BY <1>0 DEF Subscribe, Unsubscribe, PubAdded
      <4> QED
        BY <1>0, <4>1, <4>2, Zenon
    <3> QED
      BY <1>0, <1>10, <2>2, <3>1, Zenon DEF Announced
  <2> QED
    BY <2>1, <2>2
<1>11. AllAnnounced'
  BY <1>0, <1>1, <1>8, <1>10, Zenon DEF AllAnnounced
<1>12. \A q, k \in Node, p \in Pub : Wants(q, k, p)' = Wants(q, k, p)
  BY <1>0, Zenon DEF Wants, Interested
<1>13. ASSUME NEW q \in Node, NEW k \in Node, NEW p \in Pub, NEW s \in Sub
       PROVE  s \in KnownSoon(k, q, p)' <=> s \in KnownSoon(k, q, p)
  <2>1. /\ s \in KnownSoon(k, q, p) <=>
               \/ remoteId[k] = q /\ envelope[k].parts = <<Subscribe(p, s)>>
               \/ /\ s \in SubscriptionsOf(k, q, p)
                  /\ ~ (remoteId[k] = q /\ envelope[k].parts = <<Unsubscribe(p, s)>>)
    BY KnownSoonMember, Zenon
  <2>2. /\ s \in KnownSoon(k, q, p)' <=>
               \/ remoteId'[k] = q /\ envelope'[k].parts = <<Subscribe(p, s)>>
               \/ /\ s \in SubscriptionsOf(k, q, p)'
                  /\ ~ (remoteId'[k] = q /\ envelope'[k].parts = <<Unsubscribe(p, s)>>)
    BY Zenon DEF KnownSoon
  <2>3. s \in SubscriptionsOf(k, q, p)' <=>
            IF k = n /\ q = remoteId[n] /\ p = p0 /\ s = s0
            THEN Part(n) = Subscribe(p0, s0) ELSE s \in SubscriptionsOf(k, q, p)
    BY Zenon DEF Follows
  <2>4. CASE k # n
    BY <1>3, <2>1, <2>2, <2>3, <2>4, Zenon
  <2>5. CASE k = n /\ q # remoteId[n]
    <3>1. remoteId'[n] # q
      BY <1>3, NodeAssumption
    <3> QED
      BY <2>1, <2>2, <2>3, <2>5, <3>1, Zenon
  <2>6. CASE k = n /\ q = remoteId[n]
    <3>1. remoteId'[n] # q
      BY <1>3, NodeAssumption
    <3>2. /\ envelope[n].parts = <<Subscribe(p, s)>> <=> Part(n) = Subscribe(p, s)
          /\ envelope[n].parts = <<Unsubscribe(p, s)>> <=> Part(n) = Unsubscribe(p, s)
      BY <1>0
    <3>3. /\ Part(n) = Subscribe(p, s) => p = p0 /\ s = s0
          /\ Part(n) = Unsubscribe(p, s) => p = p0 /\ s = s0
          /\ ~ (Part(n) = Subscribe(p, s) /\ Part(n) = Unsubscribe(p, s))
      BY <1>0 DEF Subscribe, Unsubscribe
    <3> QED
      <4>1. CASE p = p0 /\ s = s0
        BY <1>0, <2>1, <2>2, <2>3, <2>6, <3>1, <3>2, <3>3, <4>1, Zenon
      <4>2. CASE ~ (p = p0 /\ s = s0)
        BY <2>1, <2>2, <2>3, <2>6, <3>1, <3>2, <3>3, <4>2, Zenon
      <4> QED
        BY <4>1, <4>2
  <2> QED
    BY <2>4, <2>5, <2>6
<1>14. ASSUME NEW q \in Node, NEW k \in Node, NEW p \in Pub, NEW s \in Sub
       PROVE  Agrees(wire[q][k], p, s, KnownSoon(k, q, p)', Wants(q, k, p)')
  <2>1. Agrees(wire[q][k], p, s, KnownSoon(k, q, p), Wants(q, k, p))
    BY <1>1, Zenon DEF Subscribed
  <2>2. s \in KnownSoon(k, q, p)' <=> s \in KnownSoon(k, q, p)
    BY <1>13, Zenon
  <2>3. Agrees(wire[q][k], p, s, KnownSoon(k, q, p)', Wants(q, k, p))
    BY <2>1, <2>2, Zenon DEF Agrees
  <2> QED
    BY <1>12, <2>3, Zenon
<1>15. Subscribed'
  BY <1>0, <1>14, Zenon DEF Subscribed
<1> QED
  BY <1>5, <1>6, <1>7, <1>9, <1>11, <1>15, Zenon

(* A subscription is added to those of its node and publisher only.           *)
LEMMA WithSubscriptionGet ==
    ASSUME NEW S, NEW r, NEW p, NEW s, NEW k, NEW q, NEW t
    PROVE  t \in Get(GetMap(WithSubscription(S, r, p, s), k), q) <=>
               IF k = r /\ q = p /\ t = s THEN TRUE ELSE t \in Get(GetMap(S, k), q)
<1> DEFINE old == GetMap(S, r)
           new == Put(old, p, Get(old, p) \cup {s})
<1>1. WithSubscription(S, r, p, s) = Put(S, r, new)
  BY DEF WithSubscription
<1>2. Get(new, q) = IF q = p THEN Get(old, p) \cup {s} ELSE Get(old, q)
  <2> HIDE DEF old
  <2> QED
    BY GetPut
<1> HIDE DEF new
<1>3. GetMap(Put(S, r, new), k) = IF k = r THEN new ELSE GetMap(S, k)
  BY DEF GetMap, Put
<1> QED
  BY <1>1, <1>2, <1>3 DEF old

(* A known subscription is taken from those of its node and publisher only,   *)
(* although the entries it leaves empty are erased.                           *)
LEMMA WithoutSubscriptionGet ==
    ASSUME NEW S, NEW r, NEW p, NEW s, Known(S, r, p, s), NEW k, NEW q, NEW t
    PROVE  t \in Get(GetMap(WithoutSubscription(S, r, p, s), k), q) <=>
               IF k = r /\ q = p /\ t = s THEN FALSE ELSE t \in Get(GetMap(S, k), q)
<1> DEFINE left == S[r][p] \ {s}
           ofNode == IF left = {} THEN Erase(S[r], {p}) ELSE Put(S[r], p, left)
           new == IF DOMAIN ofNode = {} THEN Erase(S, {r}) ELSE Put(S, r, ofNode)
<1>1. WithoutSubscription(S, r, p, s) = new
  BY DEF WithoutSubscription
<1>2. r \in DOMAIN S /\ p \in DOMAIN S[r]
  BY DEF Known, Get, GetMap, EmptyMap
<1>3. GetMap(S, r) = S[r] /\ Get(S[r], p) = S[r][p]
  BY <1>2, Zenon DEF GetMap, Get
<1>4. Get(ofNode, q) = IF q = p THEN left ELSE Get(S[r], q)
  <2>1. CASE left = {}
    BY <2>1 DEF Erase, Restrict, Get
  <2>2. CASE left # {}
    <3> HIDE DEF left
    <3> QED
      BY <2>2, GetPut DEF ofNode
  <2> QED
    BY <2>1, <2>2, Zenon
<1> HIDE DEF ofNode
<1>5. DOMAIN ofNode = {} => Get(ofNode, q) = {}
  BY DEF Get
<1>6. Get(GetMap(new, k), q) = IF k = r THEN Get(ofNode, q) ELSE Get(GetMap(S, k), q)
  <2>1. CASE DOMAIN ofNode = {}
    <3>1. GetMap(new, k) = IF k = r THEN EmptyMap ELSE GetMap(S, k)
      BY <2>1 DEF GetMap, Erase, Restrict
    <3>2. Get(EmptyMap, q) = {}
      BY DEF Get, EmptyMap
    <3> QED
      BY <1>5, <2>1, <3>1, <3>2, Zenon
  <2>2. CASE DOMAIN ofNode # {}
    <3>1. GetMap(new, k) = IF k = r THEN ofNode ELSE GetMap(S, k)
      BY <2>2 DEF GetMap, Put
    <3> QED
      BY <3>1
  <2> QED
    BY <2>1, <2>2
<1> HIDE DEF new
<1> QED
  BY <1>1, <1>3, <1>4, <1>6 DEF left

(* processSubscription with subscribe = true.                                 *)
LEMMA ProcessSubscribeSettles ==
    ASSUME SettleInv, NEW n \in Node, ProcessSubscribe(n)
    PROVE  NoneSuspended' /\ Sent' /\ Read' /\ Learnt' /\ AllAnnounced' /\ Subscribed'
<1>1. TypeOK /\ subscriptions \in [Node -> Maps(Node, Maps(Pub, SUBSET Sub))]
  BY Zenon DEF SettleInv, IndInv, TypeOK
<1>2. /\ envelope[n].parts # <<>> /\ Part(n).type = "SUBSCRIBE" /\ EndOfPart(n)
      /\ UNCHANGED <<nodes, localPubs, localSubs, remotePubs, pendingRemotePubs, isSuspended, wire>>
      /\ subscriptions' = [subscriptions EXCEPT ![n] =
             IF Part(n).pub \in localPubs[n]
             THEN WithSubscription(subscriptions[n], remoteId[n], Part(n).pub, Part(n).sub)
             ELSE subscriptions[n]]
  BY Zenon DEF ProcessSubscribe, Dispatch, nodeVars, pubVars
<1>3. PICK p0 \in localPubs[n], s0 \in Sub :
          Part(n) = Subscribe(p0, s0) /\ envelope[n].parts = <<Part(n)>>
  <2>1. \A p, s : Part(n) # PubAdded(p) /\ Part(n) # Unsubscribe(p, s)
    BY <1>2 DEF PubAdded, Unsubscribe
  <2>2. \E p \in localPubs[n], s \in Sub :
            /\ Part(n) = Subscribe(p, s) \/ Part(n) = Unsubscribe(p, s)
            /\ envelope[n].parts = <<Part(n)>>
    BY <1>2, <2>1, PartsRead, Zenon
  <2> QED
    BY <2>1, <2>2, Zenon
<1>4. Part(n).pub = p0 /\ Part(n).sub = s0
  BY <1>3 DEF Subscribe
<1>5. /\ subscriptions'[n] = WithSubscription(subscriptions[n], remoteId[n], p0, s0)
      /\ \A q \in Node : q # n => subscriptions'[q] = subscriptions[q]
  BY <1>1, <1>2, <1>4, Zenon
<1>6. ASSUME NEW q \in Node, NEW k \in Node, NEW p \in Pub, NEW s \in Sub
      PROVE  s \in SubscriptionsOf(q, k, p)' <=>
                 IF q = n /\ k = remoteId[n] /\ p = p0 /\ s = s0
                 THEN Part(n) = Subscribe(p0, s0) ELSE s \in SubscriptionsOf(q, k, p)
  <2>1. CASE q = n
    <3>1. s \in Get(GetMap(subscriptions'[n], k), p) <=>
              IF k = remoteId[n] /\ p = p0 /\ s = s0 THEN TRUE
              ELSE s \in Get(GetMap(subscriptions[n], k), p)
      BY <1>5, WithSubscriptionGet
    <3> QED
      BY <1>3, <2>1, <3>1 DEF SubscriptionsOf
  <2>2. CASE q # n
    BY <1>5, <2>2 DEF SubscriptionsOf
  <2> QED
    BY <2>1, <2>2, Zenon
<1>7. Follows(n, p0, s0)
  BY <1>2, <1>3, <1>6, Zenon DEF Follows
<1> QED
  BY <1>7, RequestSettles, Zenon

(* processSubscription with subscribe = false.                                *)
LEMMA ProcessUnsubscribeSettles ==
    ASSUME SettleInv, NEW n \in Node, ProcessUnsubscribe(n)
    PROVE  NoneSuspended' /\ Sent' /\ Read' /\ Learnt' /\ AllAnnounced' /\ Subscribed'
<1>1. TypeOK /\ subscriptions \in [Node -> Maps(Node, Maps(Pub, SUBSET Sub))]
  BY Zenon DEF SettleInv, IndInv, TypeOK
<1>2. /\ envelope[n].parts # <<>> /\ Part(n).type = "UNSUBSCRIBE" /\ EndOfPart(n)
      /\ UNCHANGED <<nodes, localPubs, localSubs, remotePubs, pendingRemotePubs, isSuspended, wire>>
      /\ subscriptions' = [subscriptions EXCEPT ![n] =
             IF /\ Part(n).pub \in localPubs[n]
                /\ Known(subscriptions[n], remoteId[n], Part(n).pub, Part(n).sub)
             THEN WithoutSubscription(subscriptions[n], remoteId[n], Part(n).pub, Part(n).sub)
             ELSE subscriptions[n]]
  BY Zenon DEF ProcessUnsubscribe, Dispatch, nodeVars, pubVars
<1>3. PICK p0 \in localPubs[n], s0 \in Sub :
          Part(n) = Unsubscribe(p0, s0) /\ envelope[n].parts = <<Part(n)>>
  <2>1. \A p, s : Part(n) # PubAdded(p) /\ Part(n) # Subscribe(p, s)
    BY <1>2 DEF PubAdded, Subscribe
  <2>2. \E p \in localPubs[n], s \in Sub :
            /\ Part(n) = Subscribe(p, s) \/ Part(n) = Unsubscribe(p, s)
            /\ envelope[n].parts = <<Part(n)>>
    BY <1>2, <2>1, PartsRead, Zenon
  <2> QED
    BY <2>1, <2>2, ZenonT(30)
<1>4. Part(n).pub = p0 /\ Part(n).sub = s0 /\ Part(n) # Subscribe(p0, s0)
  BY <1>3 DEF Subscribe, Unsubscribe
<1>5. /\ Known(subscriptions[n], remoteId[n], p0, s0) =>
             subscriptions'[n] = WithoutSubscription(subscriptions[n], remoteId[n], p0, s0)
      /\ ~ Known(subscriptions[n], remoteId[n], p0, s0) => subscriptions'[n] = subscriptions[n]
      /\ \A q \in Node : q # n => subscriptions'[q] = subscriptions[q]
  BY <1>1, <1>2, <1>4, Zenon
<1>6. ASSUME NEW q \in Node, NEW k \in Node, NEW p \in Pub, NEW s \in Sub
      PROVE  s \in SubscriptionsOf(q, k, p)' <=>
                 IF q = n /\ k = remoteId[n] /\ p = p0 /\ s = s0
                 THEN Part(n) = Subscribe(p0, s0) ELSE s \in SubscriptionsOf(q, k, p)
  <2>1. CASE q = n /\ Known(subscriptions[n], remoteId[n], p0, s0)
    <3>1. s \in Get(GetMap(subscriptions'[n], k), p) <=>
              IF k = remoteId[n] /\ p = p0 /\ s = s0 THEN FALSE
              ELSE s \in Get(GetMap(subscriptions[n], k), p)
      BY <1>5, <2>1, WithoutSubscriptionGet
    <3> QED
      BY <1>4, <2>1, <3>1, Zenon DEF SubscriptionsOf
  <2>2. CASE q = n /\ ~ Known(subscriptions[n], remoteId[n], p0, s0)
    <3>1. k = remoteId[n] /\ p = p0 /\ s = s0 => s \notin Get(GetMap(subscriptions[n], k), p)
      BY <2>2, ZenonT(30) DEF Known
    <3> QED
      BY <1>4, <1>5, <2>2, <3>1, Zenon DEF SubscriptionsOf
  <2>3. CASE q # n
    BY <1>5, <2>3 DEF SubscriptionsOf
  <2> QED
    BY <2>1, <2>2, <2>3, Zenon
<1>7. Follows(n, p0, s0)
  BY <1>2, <1>3, <1>6, Zenon DEF Follows
<1> QED
  BY <1>7, RequestSettles, Zenon

(* processPubAdded: the part that was read is heard of, and the rest of the   *)
(* envelope still announces what it announced.                                *)
LEMMA ProcessPubAddedSettles ==
    ASSUME ListsMessages, SettleInv, NEW n \in Node, ProcessPubAdded(n)
    PROVE  NoneSuspended' /\ Sent' /\ Read' /\ Learnt' /\ AllAnnounced' /\ Subscribed'
<1> DEFINE e == envelope[n].parts
<1>1. /\ TypeOK
      /\ NoneSuspended /\ Sent /\ Read /\ Learnt /\ AllAnnounced /\ Subscribed
  BY Zenon DEF SettleInv, IndInv
<1>2. /\ e # <<>> /\ Part(n).type = "PUB_ADDED" /\ EndOfPart(n)
      /\ UNCHANGED <<nodes, localPubs, localSubs, subscriptions, isSuspended>>
      /\ AddRemotePubToLocalSubs(n, remoteId[n], {Part(n).pub}, <<>>)
  BY DEF ProcessPubAdded, Dispatch, nodeVars, pubVars
<1>3. PICK r \in Node : r = remoteId[n]
  BY <1>2, PartsRead, Zenon
<1>4. PICK p0 \in localPubs[r] : Part(n) = PubAdded(p0) /\ e \in Seq(Announcement(r))
  <2>1. \A p, s : Part(n) # Subscribe(p, s) /\ Part(n) # Unsubscribe(p, s)
    BY <1>2 DEF Subscribe, Unsubscribe
  <2> QED
    BY <1>2, <1>3, <2>1, PartsRead, Zenon
<1>5. n \in nodes[r] /\ envelope[n].from = r
  BY <1>2, <1>3, ReadsFrom, Zenon
<1>6. Part(n).pub = p0
  BY <1>4 DEF PubAdded
<1>7. AddRemotePubToLocalSubs(n, r, {p0}, <<>>)
  BY <1>2, <1>3, <1>6, Zenon
<1>8. \A q \in Node : nodes[q] \subseteq nodes'[q] /\ localPubs[q] \subseteq localPubs'[q]
  BY <1>2
<1>9. /\ Learnt'
      /\ \A q, k \in Node : Heard(q, k) \subseteq Heard(q, k)'
      /\ p0 \in Heard(n, r)'
      /\ \A q, k \in Node, p \in Pub : q # n => Wants(q, k, p)' = Wants(q, k, p)
      /\ \E out \in [Node -> Seq(Envelope)] :
             /\ Send(n, out)
             /\ \A k \in Node : \A i \in 1 .. Len(out[k]) :
                    out[k][i] \in Allowed(n, k)' /\ k \in nodes'[n]
             /\ \A k \in Node, p \in Pub, s \in Sub :
                    Answers(out[k], p, s, Wants(n, k, p), Wants(n, k, p)')
  <2> DEFINE pubs == {p0}
             none == <<>>
  <2>1. pubs \subseteq localPubs[r] /\ p0 \in pubs
    BY Zenon
  <2>2. none \in Seq(Envelope) /\ \A i \in 1 .. Len(none) : FALSE
    OBVIOUS
  <2>3. AddRemotePubToLocalSubs(n, r, pubs, none)
    BY <1>7, Zenon
  <2>4. UNCHANGED <<localPubs, localSubs>> /\ \A q \in Node : nodes[q] \subseteq nodes'[q]
    BY <1>2, <1>8, Zenon
  <2> HIDE DEF pubs, none
  <2>5. \A i \in 1 .. Len(none) :
               /\ none[i] \in Allowed(n, r)' /\ r \in nodes'[n]
               /\ \A p \in Pub, s \in Sub : ~ About(none[i], p, s)
    BY <2>2, Zenon
  <2> QED
    BY <1>5, <2>1, <2>2, <2>3, <2>4, <2>5, AddRemotePubSettles, Zenon
<1>10. PICK out \in [Node -> Seq(Envelope)] :
             /\ Send(n, out)
             /\ \A k \in Node : \A i \in 1 .. Len(out[k]) :
                    out[k][i] \in Allowed(n, k)' /\ k \in nodes'[n]
             /\ \A k \in Node, p \in Pub, s \in Sub :
                    Answers(out[k], p, s, Wants(n, k, p), Wants(n, k, p)')
  BY <1>9, Zenon
<1>11. /\ Len(e) = 1 => remoteId'[n] = None /\ envelope'[n].parts = <<>>
       /\ Len(e) # 1 => /\ remoteId'[n] = r /\ envelope'[n].from = r
                        /\ envelope'[n].parts = Tail(e)
       /\ \A k \in Node : k # n => remoteId'[k] = remoteId[k] /\ envelope'[k] = envelope[k]
  BY <1>1, <1>2, <1>3, <1>5, EndOfPartEffect, Zenon
<1> HIDE DEF e
<1>12. /\ Len(e) # 1 => Tail(e) \in Seq(Announcement(r)) /\ Tail(e) # <<>>
       /\ e[1] = PubAdded(p0)
       /\ \A j \in DOMAIN e : \/ j = 1
                              \/ /\ Len(e) # 1
                                 /\ \E i \in DOMAIN Tail(e) : Tail(e)[i] = e[j]
  <2>1. e[1] = PubAdded(p0)
    BY <1>2, <1>4 DEF Part, e
  <2>2. \A j \in DOMAIN e : j # 1 => /\ Len(e) # 1
                                     /\ j - 1 \in DOMAIN Tail(e) /\ Tail(e)[j - 1] = e[j]
    BY <1>2, <1>4
  <2>3. \A S : \A w \in Seq(S) : w # <<>> /\ Len(w) # 1 => Tail(w) \in Seq(S) /\ Tail(w) # <<>>
    <3> SUFFICES ASSUME NEW S, NEW w \in Seq(S), w # <<>>, Len(w) # 1
                 PROVE  Tail(w) \in Seq(S) /\ Tail(w) # <<>>
      BY Zenon
    <3>1. Tail(w) \in Seq(S) /\ Len(Tail(w)) = Len(w) - 1 /\ Len(w) \in Nat /\ Len(w) # 0
      BY QueueHeadTail, QueueEmpty
    <3>2. Len(w) - 1 # 0
      BY <3>1
    <3>3. Len(<<>>) = 0
      BY QueueEmpty, Zenon
    <3> QED
      BY <3>1, <3>2, <3>3, Zenon
  <2> QED
    BY <1>2, <1>4, <2>1, <2>2, <2>3, Zenon
<1>13. NoneSuspended'
  BY <1>1, <1>2, Zenon DEF NoneSuspended
<1>14. Sent'
  BY <1>1, <1>8, <1>10, SentKept, Zenon
<1>15. Read'
  <2>1. ASSUME NEW k \in Node, k # n
        PROVE  \/ remoteId'[k] = None /\ envelope'[k].parts = <<>>
               \/ \E q \in Node : /\ remoteId'[k] = q /\ envelope'[k].from = q
                                  /\ envelope'[k].parts \in Allowed(q, k)'
                                  /\ k \in nodes'[q]
    <3>1. \A q \in Node : Allowed(q, k) \subseteq Allowed(q, k)'
      BY <1>8, AllowedGrows, Zenon
    <3> QED
      BY <1>1, <1>8, <1>11, <2>1, <3>1, Zenon DEF Read
  <2>2. \/ remoteId'[n] = None /\ envelope'[n].parts = <<>>
        \/ \E q \in Node : /\ remoteId'[n] = q /\ envelope'[n].from = q
                           /\ envelope'[n].parts \in Allowed(q, n)'
                           /\ n \in nodes'[q]
    <3>1. CASE Len(e) = 1
      BY <1>11, <3>1, Zenon
    <3>2. CASE Len(e) # 1
      <4>1. Tail(e) \in Allowed(r, n)
        BY <1>12, <3>2, Zenon DEF Allowed
      <4>2. Tail(e) \in Allowed(r, n)'
        BY <1>8, <4>1, AllowedGrows, Zenon
      <4> QED
        BY <1>5, <1>8, <1>11, <3>2, <4>2, Zenon
    <3> QED
      BY <3>1, <3>2, Zenon
  <2> QED
    BY <2>1, <2>2, Zenon DEF Read
<1>16. AllAnnounced'
  <2>1. ASSUME NEW q \in Node, NEW k \in Node, NEW p, Announced(q, k, p)
        PROVE  p \in Heard(k, q)' \/ Announced(q, k, p)'
    <3>1. CASE \E i \in DOMAIN wire[q][k] : \E j \in DOMAIN wire[q][k][i] :
                   wire[q][k][i][j] = PubAdded(p)
      <4>1. \A i \in DOMAIN wire[q][k] : i \in DOMAIN wire'[q][k] /\ wire'[q][k][i] = wire[q][k][i]
        BY <1>1, <1>10, WireKept, Zenon
      <4> QED
        BY <3>1, <4>1, Zenon DEF Announced
    <3>2. CASE /\ remoteId[k] = q /\ k # n
               /\ \E j \in DOMAIN envelope[k].parts : envelope[k].parts[j] = PubAdded(p)
      BY <1>11, <3>2, Zenon DEF Announced
    <3>3. CASE /\ remoteId[n] = q /\ k = n
               /\ \E j \in DOMAIN e : e[j] = PubAdded(p)
      <4>1. PICK j \in DOMAIN e : e[j] = PubAdded(p)
        BY <3>3, Zenon
      <4>2. CASE j = 1
        <5>1. p = p0
          BY <1>12, <4>1, <4>2 DEF PubAdded
        <5> QED
          BY <1>3, <1>9, <3>3, <5>1, Zenon
      <4>3. CASE Len(e) # 1 /\ \E i \in DOMAIN Tail(e) : Tail(e)[i] = e[j]
        BY <1>3, <1>11, <3>3, <4>1, <4>3, Zenon DEF Announced
      <4> QED
        BY <1>12, <4>2, <4>3, Zenon
    <3> QED
      BY <2>1, <3>1, <3>2, <3>3, Zenon DEF Announced, e
  <2> QED
    BY <1>1, <1>2, <1>9, <2>1, Zenon DEF AllAnnounced
<1>17. ASSUME NEW k \in Node, NEW q \in Node, NEW p \in Pub
       PROVE  KnownSoon(k, q, p)' = KnownSoon(k, q, p)
  <2>1. ASSUME NEW s \in Sub
        PROVE  s \in KnownSoon(k, q, p)' <=> s \in KnownSoon(k, q, p)
    <3>1. s \in KnownSoon(k, q, p) <=>
               \/ remoteId[k] = q /\ envelope[k].parts = <<Subscribe(p, s)>>
               \/ /\ s \in SubscriptionsOf(k, q, p)
                  /\ ~ (remoteId[k] = q /\ envelope[k].parts = <<Unsubscribe(p, s)>>)
      BY KnownSoonMember, Zenon
    <3>2. s \in KnownSoon(k, q, p)' <=>
               \/ remoteId'[k] = q /\ envelope'[k].parts = <<Subscribe(p, s)>>
               \/ /\ s \in SubscriptionsOf(k, q, p)'
                  /\ ~ (remoteId'[k] = q /\ envelope'[k].parts = <<Unsubscribe(p, s)>>)
      BY Zenon DEF KnownSoon
    <3>3. SubscriptionsOf(k, q, p)' = SubscriptionsOf(k, q, p)
      BY <1>2, Zenon DEF SubscriptionsOf
    <3>4. CASE k # n
      BY <1>11, <3>1, <3>2, <3>3, <3>4, Zenon
    <3>5. CASE k = n
      <4>1. e # <<Subscribe(p, s)>> /\ e # <<Unsubscribe(p, s)>>
        BY <1>1, <1>2, <1>4, AnnouncementParts, Zenon DEF About, e
      <4>2. envelope'[n].parts # <<Subscribe(p, s)>> /\ envelope'[n].parts # <<Unsubscribe(p, s)>>
        <5>1. CASE Len(e) = 1
          <6>1. \A m : <<m>> # <<>>
            OBVIOUS
          <6> QED
            BY <1>11, <5>1, <6>1, Zenon
        <5>2. CASE Len(e) # 1
          <6>1. Tail(e) # <<Subscribe(p, s)>> /\ Tail(e) # <<Unsubscribe(p, s)>>
            <7> DEFINE w == Tail(e)
            <7>1. w \in Seq(Announcement(r)) /\ w # <<>>
              BY <1>12, <5>2, Zenon
            <7> HIDE DEF w
            <7>2. ~ About(w, p, s)
              BY <1>1, <7>1, AnnouncementParts, Zenon
            <7> QED
              BY <7>2, Zenon DEF About, w
          <6> QED
            BY <1>11, <5>2, <6>1, Zenon
        <5> QED
          BY <5>1, <5>2, Zenon
      <4> QED
        BY <3>1, <3>2, <3>3, <3>5, <4>1, <4>2, Zenon DEF e
    <3> QED
      BY <3>4, <3>5, Zenon
  <2>2. KnownSoon(k, q, p) \subseteq Sub /\ KnownSoon(k, q, p)' \subseteq Sub
    BY Zenon DEF KnownSoon
  <2> QED
    BY <2>1, <2>2, Zenon
<1>18. Subscribed'
  BY <1>1, <1>9, <1>10, <1>17, SubscribedKept, Zenon
<1> QED
  BY <1>9, <1>13, <1>14, <1>15, <1>16, <1>18, Zenon

(* Nothing is there at first.                                                 *)
LEMMA InitSettles ==
    ASSUME Init, IndInv
    PROVE  SettleInv
<1>2. \A n \in Node : /\ nodes[n] = {} /\ localPubs[n] = {} /\ localSubs[n] = {}
                      /\ remotePubs[n] = EmptyMap /\ pendingRemotePubs[n] = EmptyMap
                      /\ subscriptions[n] = EmptyMap
                      /\ ~ isSuspended[n] /\ remoteId[n] = None
                      /\ envelope[n].parts = <<>>
                      /\ \A r \in Node : wire[n][r] = <<>>
  BY DEF Init, NoEnvelope
<1>3. \A k : Get(EmptyMap, k) = {} /\ GetMap(EmptyMap, k) = EmptyMap
  BY DEF Get, GetMap, EmptyMap
<1>4. \A n, r \in Node : Heard(n, r) = {}
  BY <1>2, <1>3 DEF Heard
<1>5. NoneSuspended /\ Read /\ Learnt /\ AllAnnounced
  BY <1>2, <1>4, Zenon DEF NoneSuspended, Read, Learnt, AllAnnounced
<1>6. Sent
  <2>1. \A S : <<>> \in Seq(S)
    OBVIOUS
  <2> QED
    BY <1>2, <2>1, Zenon DEF Sent
<1>7. ASSUME NEW n \in Node, NEW r \in Node, NEW p \in Pub, NEW s \in Sub
      PROVE  Agrees(wire[n][r], p, s, KnownSoon(r, n, p), Wants(n, r, p))
  <2>1. s \notin Wants(n, r, p)
    BY <1>2, Zenon DEF Wants, Interested
  <2>2. \A m : <<m>> # <<>>
    OBVIOUS
  <2>3. s \notin SubscriptionsOf(r, n, p)
    BY <1>2, <1>3, Zenon DEF SubscriptionsOf
  <2>4. s \notin KnownSoon(r, n, p)
    BY <1>2, <2>2, <2>3, KnownSoonMember, Zenon
  <2>5. \A k : k \notin 1 .. Len(<<>>)
    OBVIOUS
  <2> QED
    BY <1>2, <2>1, <2>4, <2>5, Zenon DEF Agrees
<1>8. Subscribed
  BY <1>7, Zenon DEF Subscribed
<1> QED
  BY <1>5, <1>6, <1>8, Zenon DEF SettleInv

(* A part of an envelope always comes from a node the reader may answer, so   *)
(* none is ignored, and no publisher is reported as removed.                  *)
LEMMA NothingIgnored ==
    ASSUME SettleInv, NEW n \in Node
    PROVE  ~ IgnoreMessage(n) /\ ~ ProcessPubRemoved(n)
<1>1. SUFFICES ASSUME envelope[n].parts # <<>>
               PROVE  Accepted(n) /\ Part(n).type # "PUB_REMOVED"
  BY Zenon DEF IgnoreMessage, ProcessPubRemoved, Dispatch
<1>2. \/ \E p : Part(n) = PubAdded(p)
      \/ /\ remoteId[n] \in nodes[n]
         /\ \E p, s : Part(n) = Subscribe(p, s) \/ Part(n) = Unsubscribe(p, s)
  BY <1>1, PartsRead, Zenon
<1> QED
  BY <1>2 DEF Accepted, PubAdded, Subscribe, Unsubscribe

(* Every step of a settling network preserves the invariant.                  *)
LEMMA NextSettles ==
    ASSUME ListsMessages, SettleInv, IndInv', [SettlingNext]_vars
    PROVE  SettleInv'
<1> DEFINE Rest == NoneSuspended /\ Sent /\ Read /\ Learnt /\ AllAnnounced /\ Subscribed
<1>3. CASE UNCHANGED vars
  <2>1. UNCHANGED <<nodes, localPubs, localSubs, remotePubs, pendingRemotePubs, subscriptions,
                    isSuspended, remoteId, envelope, wire>>
    BY <1>3 DEF vars
  <2>2. Rest
    BY Zenon DEF SettleInv
  <2>3. \A q, k \in Node : Allowed(q, k) \subseteq Allowed(q, k)'
    BY <2>1, AllowedGrows
  <2>4. \A q, k \in Node, p \in Pub : /\ KnownSoon(q, k, p)' = KnownSoon(q, k, p)
                                      /\ Wants(q, k, p)' = Wants(q, k, p)
    BY <2>1, KnownSoonKept, Zenon DEF Wants, Interested
  <2>5. NoneSuspended' /\ Sent' /\ Read'
    <3>1. Sent'
      BY <2>1, <2>2, SentSame, Zenon
    <3>2. NoneSuspended'
      BY <2>1, <2>2, Zenon DEF NoneSuspended
    <3>3. Read'
      BY <2>1, <2>2, <2>3, Zenon DEF Read
    <3> QED
      BY <3>1, <3>2, <3>3, Zenon
  <2>6. Learnt' /\ AllAnnounced'
    <3>1. \A q, k \in Node : Heard(q, k)' = Heard(q, k)
      BY <2>1, Zenon DEF Heard
    <3>2. \A q, k \in Node : \A p : Announced(q, k, p)' <=> Announced(q, k, p)
      BY <2>1, Zenon DEF Announced
    <3>3. Learnt'
      BY <2>1, <2>2, <3>1, Zenon DEF Learnt
    <3>4. AllAnnounced'
      BY <2>1, <2>2, <3>1, <3>2, Zenon DEF AllAnnounced
    <3> QED
      BY <3>3, <3>4, Zenon
  <2>7. ASSUME NEW n \in Node, NEW r \in Node, NEW p \in Pub, NEW s \in Sub
        PROVE  Agrees(wire'[n][r], p, s, KnownSoon(r, n, p)', Wants(n, r, p)')
    BY <2>1, <2>2, <2>4, Zenon DEF Subscribed
  <2> QED
    BY <2>5, <2>6, <2>7, Zenon DEF SettleInv, Subscribed
<1>4. ASSUME NEW n \in Node, Run(n)
      PROVE  Rest'
  BY <1>4, NothingIgnored, ReadRemoteIdSettles, ProcessPubAddedSettles, ProcessSubscribeSettles,
     ProcessUnsubscribeSettles, Zenon DEF Run
<1>5. CASE SettlingNext
  <2>1. PICK n \in Node :
            \/ Run(n)
            \/ \E r \in Node : Added(n, r)
            \/ \E s \in Sub : AddSubscriber(n, s) \/ RemoveSubscriber(n, s)
            \/ \E p \in Pub : AddPublisher(n, p)
    BY <1>5, Zenon DEF SettlingNext
  <2>2. Rest'
    <3>1. CASE Run(n)
      BY <1>4, <3>1, Zenon
    <3>2. CASE \E r \in Node : Added(n, r)
      BY <3>2, AddedSettles, Zenon
    <3>3. CASE \E s \in Sub : AddSubscriber(n, s) \/ RemoveSubscriber(n, s)
      BY <3>3, AddSubscriberSettles, RemoveSubscriberSettles, Zenon
    <3>4. CASE \E p \in Pub : AddPublisher(n, p)
      BY <3>4, AddPublisherSettles, Zenon
    <3> QED
      BY <2>1, <3>1, <3>2, <3>3, <3>4, Zenon
  <2> QED
    BY <2>2, Zenon DEF SettleInv
<1> QED
  BY <1>3, <1>5, Zenon

(* When nothing is underway, two nodes that discovered each other agree.      *)
LEMMA SettledInSync ==
    ASSUME SettleInv
    PROVE  QuietNodesInSync
<1>1. SUFFICES ASSUME Quiet, NEW n \in Node, NEW r \in Node, Connected(n, r)
               PROVE  InSync(n, r)
  BY Zenon DEF QuietNodesInSync
<1>2. /\ TypeOK /\ PendingOnlyForUndiscovered /\ MatchedSubscribersConnected
      /\ Learnt /\ AllAnnounced /\ Subscribed
  BY Zenon DEF SettleInv, IndInv
<1>3. /\ envelope[n].parts = <<>> /\ envelope[r].parts = <<>>
      /\ wire[n][r] = <<>> /\ wire[r][n] = <<>>
      /\ r \in nodes[n] /\ n \in nodes[r]
  BY <1>1, Zenon DEF Quiet, Connected
<1>4. \A i : i \notin DOMAIN <<>> /\ i \notin 1 .. Len(<<>>)
  OBVIOUS
<1>5. Get(remotePubs[n], r) = localPubs[r]
  <2>1. Heard(n, r) = Get(remotePubs[n], r)
    <3>1. Get(pendingRemotePubs[n], r) = {}
      BY <1>2, <1>3, Zenon DEF PendingOnlyForUndiscovered
    <3> QED
      BY <3>1 DEF Heard
  <2>2. Heard(n, r) \subseteq localPubs[r]
    BY <1>2, Zenon DEF Learnt
  <2>3. \A p : ~ Announced(r, n, p)
    BY <1>3, <1>4, Zenon DEF Announced
  <2>4. localPubs[r] \subseteq Heard(n, r)
    BY <1>2, <1>3, <2>3, Zenon DEF AllAnnounced
  <2> QED
    BY <2>1, <2>2, <2>4, Zenon
<1>6. ASSUME NEW p \in localPubs[r]
      PROVE  /\ SubscriptionsOf(r, n, p) = Interested(n, p)
             /\ \A s \in Interested(n, p) : p \in connections[s]
  <2>1. /\ p \in Pub /\ localSubs[n] \subseteq Sub
        /\ subscriptions[r] \in Maps(Node, Maps(Pub, SUBSET Sub))
        /\ remotePubs[n] \in Maps(Node, SUBSET Pub)
    BY <1>2, Zenon DEF TypeOK
  <2>2. SubscriptionsOf(r, n, p) \subseteq Sub
    <3>1. GetMap(subscriptions[r], n) \in Maps(Pub, SUBSET Sub)
      BY <2>1, GetMapType
    <3>2. Get(GetMap(subscriptions[r], n), p) \in SUBSET Sub
      BY <3>1, GetType
    <3> QED
      BY <3>2, Zenon DEF SubscriptionsOf
  <2>3. ASSUME NEW s \in Sub
        PROVE  s \in SubscriptionsOf(r, n, p) <=> s \in Interested(n, p)
    <3>1. Agrees(<<>>, p, s, KnownSoon(r, n, p), Wants(n, r, p))
      BY <1>2, <1>3, <2>1, Zenon DEF Subscribed
    <3>2. s \in KnownSoon(r, n, p) <=> s \in Wants(n, r, p)
      BY <1>4, <3>1, Zenon DEF Agrees
    <3>3. \A m : <<m>> # <<>>
      OBVIOUS
    <3>4. s \in KnownSoon(r, n, p) <=> s \in SubscriptionsOf(r, n, p)
      BY <1>3, <3>3, KnownSoonMember, Zenon
    <3>5. s \in Wants(n, r, p) <=> s \in Interested(n, p)
      BY <1>5, Zenon DEF Wants
    <3> QED
      BY <3>2, <3>4, <3>5, Zenon
  <2>4. Interested(n, p) \subseteq localSubs[n]
    BY Zenon DEF Interested
  <2>5. ASSUME NEW s \in Interested(n, p)
        PROVE  p \in connections[s]
    <3>1. r \in DOMAIN remotePubs[n] /\ p \in remotePubs[n][r]
      BY <1>5 DEF Get
    <3>2. s \in localSubs[n] /\ p \in Matching(remotePubs[n][r], s)
      BY <3>1 DEF Interested, Matching
    <3> QED
      BY <1>2, <3>1, <3>2, Zenon DEF MatchedSubscribersConnected
  <2> QED
    BY <2>1, <2>2, <2>3, <2>4, <2>5, Zenon
<1> QED
  BY <1>5, <1>6, Zenon DEF InSync

=============================================================================
