----------------------------- MODULE ZeroMQNode -----------------------------
(***************************************************************************)
(* The node control protocol of uMundo (ZeroMQNode.cpp).                   *)
(*                                                                         *)
(* Every node owns a ROUTER socket, read by one thread (run), and one      *)
(* DEALER socket per discovered node.  Nodes tell each other about their   *)
(* publishers (PUB_ADDED, PUB_REMOVED) and about the subscriptions of      *)
(* their subscribers to the publishers of the other side (SUBSCRIBE,       *)
(* UNSUBSCRIBE).  The discovery thread calls added / removed, the          *)
(* application calls addPublisher, removePublisher, addSubscriber,         *)
(* removeSubscriber, suspend and resume.                                   *)
(*                                                                         *)
(* Every handler holds the node's _mutex for its whole body, so a handler  *)
(* is one action.  The reading thread takes the mutex per message part,    *)
(* so an envelope of several parts is read in several steps.               *)
(*                                                                         *)
(* Identities (node, publisher and subscriber uuids) are the members of    *)
(* Node, Pub and Sub.  The C++ maps keep their keys: a map is a function   *)
(* whose DOMAIN is the set of keys present.                                *)
(***************************************************************************)
EXTENDS Naturals, FiniteSets, Sequences, Functions

CONSTANTS
    Node,          \* uuids of nodes
    Pub,           \* uuids of publishers
    Sub,           \* uuids of subscribers
    channelName,   \* the channel of every publisher and subscriber
    domain,        \* the domain of every node
    None           \* NULL, and the subscriber of a message without one

ASSUME NodeAssumption == IsFiniteSet(Node) /\ None \notin Node
ASSUME PubAssumption  == IsFiniteSet(Pub)
ASSUME SubAssumption  == IsFiniteSet(Sub) /\ None \notin Sub

VARIABLES
    nodes,               \* _nodes: the remote nodes discovered, per node
    sockets,             \* _sockets: the remote nodes we hold a DEALER socket to
    localPubs,           \* _localPubs
    localSubs,           \* _localSubs
    remotePubs,          \* _remotePubs: remote node -> its publishers
    pendingRemotePubs,   \* _pendingRemotePubs: publishers of undiscovered nodes
    subscriptions,       \* _subscriptions: remote node -> local pub -> remote subs
    isSuspended,         \* _isSuspended
    suspendedLocalPubs   \* _suspendedLocalPubs

VARIABLES
    connections,         \* ZeroMQSubscriber::_connections, per subscriber
    remoteId,            \* the local variable remoteId of run
    envelope,            \* the parts of the envelope run is reading, and its sender
    wire                 \* envelopes between a DEALER and a ROUTER socket, in order

nodeVars == <<nodes, sockets>>
pubVars  == <<localPubs, suspendedLocalPubs, isSuspended>>
readVars == <<remoteId, envelope>>
vars == <<nodes, sockets, localPubs, localSubs, remotePubs, pendingRemotePubs,
          subscriptions, isSuspended, suspendedLocalPubs, connections, remoteId,
          envelope, wire>>

-----------------------------------------------------------------------------
(* std::map: assignment through operator[], reading through operator[] (an   *)
(* absent key reads as the empty value), and erase.                          *)

EmptyMap == [x \in {} |-> {}]
Put(f, k, v) == [x \in DOMAIN f \cup {k} |-> IF x = k THEN v ELSE f[x]]
Get(f, k) == IF k \in DOMAIN f THEN f[k] ELSE {}
GetMap(f, k) == IF k \in DOMAIN f THEN f[k] ELSE EmptyMap
Erase(f, K) == Restrict(f, DOMAIN f \ K)

\* The members of S in some order: the order an iteration meets them in.
InSomeOrder(S) == CHOOSE f \in [1 .. Cardinality(S) -> S] : IsInjective(f)

\* The set of all maps with keys from S and values in T.
Maps(S, T) == UNION {[D -> T] : D \in SUBSET S}

-----------------------------------------------------------------------------
(* Messages.  The publisher info (channel, uuid, port) is its uuid: channel  *)
(* and port are fixed for a publisher.                                       *)

Message == [type : {"PUB_ADDED", "PUB_REMOVED"}, pub : Pub, sub : {None}]
           \cup [type : {"SUBSCRIBE", "UNSUBSCRIBE"}, pub : Pub, sub : Sub]

PubAdded(p)       == [type |-> "PUB_ADDED",   pub |-> p, sub |-> None]
PubRemoved(p)     == [type |-> "PUB_REMOVED", pub |-> p, sub |-> None]
Subscribe(p, s)   == [type |-> "SUBSCRIBE",   pub |-> p, sub |-> s]
Unsubscribe(p, s) == [type |-> "UNSUBSCRIBE", pub |-> p, sub |-> s]

\* An envelope is a sequence of message parts behind the sender's identity.
Envelope == Seq(Message)

\* One envelope per message, in the iteration order of the map they come from.
Envelopes(msgs) == InSomeOrder({<<m>> : m \in msgs})

\* Node n sends the envelopes out[r] to every node r.
Send(n, out) ==
    wire' = [wire EXCEPT ![n] = [r \in Node |-> wire[n][r] \o out[r]]]

NoEnvelope == [from |-> None, parts |-> <<>>]

\* The publishers of pubs that subscriber s is interested in.
Matching(pubs, s) == {p \in pubs : channelName[p] = channelName[s]}

\* The SUBSCRIBE messages for subscribers subs and publishers pubs.
SubscribeAll(pubs, subs) ==
    UNION {{Subscribe(p, s) : p \in Matching(pubs, s)} : s \in subs}

Init ==
    /\ nodes = [n \in Node |-> {}]
    /\ sockets = [n \in Node |-> {}]
    /\ localPubs = [n \in Node |-> {}]
    /\ localSubs = [n \in Node |-> {}]
    /\ remotePubs = [n \in Node |-> EmptyMap]
    /\ pendingRemotePubs = [n \in Node |-> EmptyMap]
    /\ subscriptions = [n \in Node |-> EmptyMap]
    /\ isSuspended = [n \in Node |-> FALSE]
    /\ suspendedLocalPubs = [n \in Node |-> {}]
    /\ connections = [s \in Sub |-> {}]
    /\ remoteId = [n \in Node |-> None]
    /\ envelope = [n \in Node |-> NoEnvelope]
    /\ wire = [n \in Node |-> [r \in Node |-> <<>>]]

-----------------------------------------------------------------------------
(* addRemotePubToLocalSubs: remember pubs as pending publishers of r; if r   *)
(* is discovered, move everything pending for r to the remote publishers,    *)
(* connect the interested subscribers and notify r of their subscriptions.   *)
(* sent: the envelopes the caller has already sent to r.                     *)

AddRemotePubToLocalSubs(n, r, pubs, sent) ==
    LET old  == pendingRemotePubs[n]
        pend == IF pubs = {} THEN old ELSE Put(old, r, Get(old, r) \cup pubs)
        news == Get(pend, r)
        out  == Envelopes(SubscribeAll(news, localSubs[n]))
    IN  \/ /\ r \in nodes'[n] /\ r \in DOMAIN pend
           /\ remotePubs' = [remotePubs EXCEPT ![n] =
                    IF news = {} THEN @ ELSE Put(@, r, Get(@, r) \cup news)]
           /\ pendingRemotePubs' = [pendingRemotePubs EXCEPT ![n] = Put(pend, r, {})]
           /\ connections' = [s \in Sub |->
                    IF s \in localSubs[n] THEN connections[s] \cup Matching(news, s)
                                          ELSE connections[s]]
           /\ Send(n, [q \in Node |-> IF q = r THEN sent \o out ELSE <<>>])
        \/ /\ ~(r \in nodes'[n] /\ r \in DOMAIN pend)
           /\ pendingRemotePubs' = [pendingRemotePubs EXCEPT ![n] = pend]
           /\ Send(n, [q \in Node |-> IF q = r THEN sent ELSE <<>>])
           /\ UNCHANGED <<remotePubs, connections>>

-----------------------------------------------------------------------------
(* Callbacks from discovery.  NodeQuery reports a node as added once, until   *)
(* it reports it as removed, and only nodes of its own domain; the node       *)
(* itself is skipped.                                                         *)

\* Mutant: a newcomer is not told of our publishers.
NoPubList(n) == <<>>

\* The list of all our publishers for a newcomer: one envelope, no envelope
\* if there are none.
PubList(n) ==
    IF localPubs[n] = {} THEN <<>>
    ELSE <<InSomeOrder({PubAdded(p) : p \in localPubs[n]})>>

\* Mutant: what arrived before the node was discovered is not looked at.
AddedForgettingPending(n, r) ==
    /\ r # n /\ domain[r] = domain[n]
    /\ ~isSuspended[n]
    /\ r \notin nodes[n]
    /\ nodes' = [nodes EXCEPT ![n] = @ \cup {r}]
    /\ sockets' = [sockets EXCEPT ![n] = @ \cup {r}]
    /\ Send(n, [q \in Node |-> IF q = r THEN PubList(n) ELSE <<>>])
    /\ UNCHANGED <<localSubs, subscriptions, pubVars, readVars, remotePubs,
                   pendingRemotePubs, connections>>

Added(n, r) ==
    /\ r # n /\ domain[r] = domain[n]
    /\ ~isSuspended[n]
    /\ r \notin nodes[n]
    /\ nodes' = [nodes EXCEPT ![n] = @ \cup {r}]
    /\ sockets' = [sockets EXCEPT ![n] = @ \cup {r}]
    /\ AddRemotePubToLocalSubs(n, r, {}, PubList(n))
    /\ UNCHANGED <<localSubs, subscriptions, pubVars, readVars>>

\* A node that was never added leaves the handler early, with nothing changed.
Removed(n, r) ==
    /\ ~isSuspended[n]
    /\ r \in sockets[n]
    /\ sockets' = [sockets EXCEPT ![n] = @ \ {r}]
    /\ remotePubs' = [remotePubs EXCEPT ![n] = Erase(@, {r})]
    /\ subscriptions' = [subscriptions EXCEPT ![n] = Erase(@, {r})]
    /\ nodes' = [nodes EXCEPT ![n] = @ \ {r}]
    /\ pendingRemotePubs' = [pendingRemotePubs EXCEPT ![n] = Erase(@, {r})]
    /\ UNCHANGED <<localSubs, connections, wire, pubVars, readVars>>

-----------------------------------------------------------------------------
(* Calls of the application.                                                  *)

\* Mutant: the subscriber is not connected to the publishers we know.
AddSubscriberUnconnected(n, s) ==
    LET matching(r) == Matching(Get(remotePubs[n], r), s)
    IN  /\ localSubs' = [localSubs EXCEPT ![n] = @ \cup {s}]
        /\ Send(n, [r \in Node |-> Envelopes({Subscribe(p, s) : p \in matching(r)})])
        /\ UNCHANGED <<remotePubs, pendingRemotePubs, subscriptions, connections, nodeVars,
                       pubVars, readVars>>

AddSubscriber(n, s) ==
    LET matching(r) == Matching(Get(remotePubs[n], r), s)
    IN  /\ localSubs' = [localSubs EXCEPT ![n] = @ \cup {s}]
        /\ connections' = [connections EXCEPT ![s] = @ \cup UNION {matching(r) : r \in Node}]
        /\ Send(n, [r \in Node |-> Envelopes({Subscribe(p, s) : p \in matching(r)})])
        /\ UNCHANGED <<remotePubs, pendingRemotePubs, subscriptions, nodeVars, pubVars,
                       readVars>>

\* ZeroMQSubscriber::removed keeps the connection, so connections is unchanged.
RemoveSubscriber(n, s) ==
    LET matching(r) == Matching(Get(remotePubs[n], r), s)
    IN  /\ s \in localSubs[n]
        /\ Send(n, [r \in Node |-> Envelopes({Unsubscribe(p, s) : p \in matching(r)})])
        /\ localSubs' = [localSubs EXCEPT ![n] = @ \ {s}]
        /\ UNCHANGED <<remotePubs, pendingRemotePubs, subscriptions, connections,
                       nodeVars, pubVars, readVars>>

AddPublisher(n, p) ==
    /\ p \notin localPubs[n]
    /\ localPubs' = [localPubs EXCEPT ![n] = @ \cup {p}]
    /\ Send(n, [r \in Node |-> IF r \in sockets[n] THEN << <<PubAdded(p)>> >> ELSE <<>>])
    /\ UNCHANGED <<localSubs, remotePubs, pendingRemotePubs, subscriptions, isSuspended,
                   suspendedLocalPubs, connections, nodeVars, readVars>>

\* Only for a publisher that was added: the code asserts it is known.
RemovePublisher(n, p) ==
    /\ p \in localPubs[n]
    /\ Send(n, [r \in Node |-> IF r \in sockets[n] THEN << <<PubRemoved(p)>> >> ELSE <<>>])
    /\ localPubs' = [localPubs EXCEPT ![n] = @ \ {p}]
    /\ UNCHANGED <<localSubs, remotePubs, pendingRemotePubs, subscriptions, isSuspended,
                   suspendedLocalPubs, connections, nodeVars, readVars>>

-----------------------------------------------------------------------------
(* suspend removes all publishers, drops all nodes, ends the reading thread   *)
(* and closes the ROUTER socket: a prefix of what was underway to it is lost, *)
(* the rest waits at the senders.  resume adds the publishers again (there    *)
(* are no sockets to announce them on) and starts a new thread and query.     *)

Suspend(n) ==
    /\ ~isSuspended[n]
    /\ isSuspended' = [isSuspended EXCEPT ![n] = TRUE]
    /\ suspendedLocalPubs' = [suspendedLocalPubs EXCEPT ![n] = localPubs[n]]
    /\ localPubs' = [localPubs EXCEPT ![n] = {}]
    /\ nodes' = [nodes EXCEPT ![n] = {}]
    /\ sockets' = [sockets EXCEPT ![n] = {}]
    /\ remotePubs' = [remotePubs EXCEPT ![n] = Erase(@, nodes[n])]
    /\ subscriptions' = [subscriptions EXCEPT ![n] = Erase(@, nodes[n])]
    /\ pendingRemotePubs' = [pendingRemotePubs EXCEPT ![n] = Erase(@, nodes[n])]
    /\ remoteId' = [remoteId EXCEPT ![n] = None]
    /\ envelope' = [envelope EXCEPT ![n] = NoEnvelope]
    /\ \E lost \in [Node -> UNION {0 .. Len(wire[q][n]) : q \in Node}] :
           /\ \A q \in Node : lost[q] <= Len(wire[q][n])
           /\ wire' = [q \in Node |-> [r \in Node |->
                  IF r = n
                  THEN SubSeq(wire[q][n], lost[q] + 1, Len(wire[q][n]))
                  ELSE IF q = n /\ r \in sockets[n]
                       THEN wire[n][r] \o Envelopes({PubRemoved(p) : p \in localPubs[n]})
                       ELSE wire[q][r]]]
    /\ UNCHANGED <<localSubs, connections>>

Resume(n) ==
    /\ isSuspended[n]
    /\ isSuspended' = [isSuspended EXCEPT ![n] = FALSE]
    /\ localPubs' = [localPubs EXCEPT ![n] = @ \cup suspendedLocalPubs[n]]
    /\ suspendedLocalPubs' = [suspendedLocalPubs EXCEPT ![n] = {}]
    /\ UNCHANGED <<localSubs, remotePubs, pendingRemotePubs, subscriptions, connections,
                   wire, nodeVars, readVars>>

-----------------------------------------------------------------------------
(* The reading thread.  The first frame of an envelope is the identity of     *)
(* the sender.  It is taken as remoteId only if remoteId is NULL; otherwise   *)
(* it is looked at as a message of no known type and skipped.                 *)

\* Mutant: the identity of an undiscovered node is not taken.
ReadKnownRemoteId(n, r) ==
    /\ ~isSuspended[n]
    /\ envelope[n].parts = <<>>
    /\ wire[r][n] # <<>>
    /\ envelope' = [envelope EXCEPT ![n] = [from |-> r, parts |-> Head(wire[r][n])]]
    /\ wire' = [wire EXCEPT ![r][n] = Tail(@)]
    /\ remoteId' = [remoteId EXCEPT ![n] = IF @ = None /\ r \in nodes[n] THEN r ELSE @]
    /\ UNCHANGED <<localSubs, remotePubs, pendingRemotePubs, subscriptions, connections,
                   nodeVars, pubVars>>

ReadRemoteId(n, r) ==
    /\ ~isSuspended[n]
    /\ envelope[n].parts = <<>>
    /\ wire[r][n] # <<>>
    /\ envelope' = [envelope EXCEPT ![n] = [from |-> r, parts |-> Head(wire[r][n])]]
    /\ wire' = [wire EXCEPT ![r][n] = Tail(@)]
    /\ remoteId' = [remoteId EXCEPT ![n] = IF @ = None THEN r ELSE @]
    /\ UNCHANGED <<localSubs, remotePubs, pendingRemotePubs, subscriptions, connections,
                   nodeVars, pubVars>>

\* The next part of the envelope run reads at node n.
Part(n) == Head(envelope[n].parts)

\* The guard of the dispatch: anything but PUB_ADDED needs a discovered sender.
Accepted(n) == Part(n).type = "PUB_ADDED" \/ remoteId[n] \in nodes[n]

\* The part is consumed.
ConsumePart(n) ==
    envelope' = [envelope EXCEPT ![n] =
        IF Len(@.parts) = 1 THEN NoEnvelope
        ELSE [from |-> @.from, parts |-> Tail(@.parts)]]

\* Mutant: remoteId is not reset.
EndOfPartKeepingId(n) ==
    /\ ConsumePart(n)
    /\ UNCHANGED remoteId

\* The end of the loop body: after the last part remoteId is reset to NULL.
EndOfPart(n) ==
    /\ ConsumePart(n)
    /\ remoteId' = [remoteId EXCEPT ![n] = IF Len(envelope[n].parts) = 1 THEN None ELSE @]

\* A message from an undiscovered node: the loop continues before the test for
\* the last part, so remoteId is not reset.
IgnoreMessage(n) ==
    /\ ~isSuspended[n]
    /\ envelope[n].parts # <<>>
    /\ ~Accepted(n)
    /\ ConsumePart(n)
    /\ UNCHANGED <<localSubs, remotePubs, pendingRemotePubs, subscriptions, connections,
                   remoteId, wire, nodeVars, pubVars>>

\* The thread dispatches a part of the given type.
Dispatch(n, type) ==
    /\ ~isSuspended[n]
    /\ envelope[n].parts # <<>>
    /\ Part(n).type = type
    /\ Accepted(n)
    /\ EndOfPart(n)

ProcessPubAdded(n) ==
    /\ Dispatch(n, "PUB_ADDED")
    /\ UNCHANGED <<localSubs, subscriptions, nodeVars, pubVars>>
    /\ AddRemotePubToLocalSubs(n, remoteId[n], {Part(n).pub}, <<>>)

ProcessPubRemoved(n) ==
    LET r == remoteId[n]
    IN  /\ Dispatch(n, "PUB_REMOVED")
        /\ remotePubs' = [remotePubs EXCEPT ![n] =
               IF r \in DOMAIN @ THEN Put(@, r, @[r] \ {Part(n).pub}) ELSE @]
        /\ UNCHANGED <<localSubs, pendingRemotePubs, subscriptions, connections, wire,
                       nodeVars, pubVars>>

\* processSubscription with subscribe = true: a subscription to an unknown
\* publisher is dropped.
WithSubscription(subs, r, p, s) ==
    Put(subs, r, Put(GetMap(subs, r), p, Get(GetMap(subs, r), p) \cup {s}))

ProcessSubscribe(n) ==
    LET m == Part(n)
    IN  /\ Dispatch(n, "SUBSCRIBE")
        /\ subscriptions' = [subscriptions EXCEPT ![n] =
               IF m.pub \in localPubs[n]
               THEN WithSubscription(@, remoteId[n], m.pub, m.sub) ELSE @]
        /\ UNCHANGED <<localSubs, remotePubs, pendingRemotePubs, connections, wire,
                       nodeVars, pubVars>>

\* processSubscription with subscribe = false: entries that become empty are
\* erased, innermost first.
Known(subs, r, p, s) == s \in Get(GetMap(subs, r), p)

\* Mutant: the entries left empty stay.
WithoutSubscriptionLeavingEmpty(subs, r, p, s) ==
    Put(subs, r, Put(subs[r], p, subs[r][p] \ {s}))

WithoutSubscription(subs, r, p, s) ==
    LET left   == subs[r][p] \ {s}
        ofNode == IF left = {} THEN Erase(subs[r], {p}) ELSE Put(subs[r], p, left)
    IN  IF DOMAIN ofNode = {} THEN Erase(subs, {r}) ELSE Put(subs, r, ofNode)

ProcessUnsubscribe(n) ==
    LET m == Part(n)
        r == remoteId[n]
    IN  /\ Dispatch(n, "UNSUBSCRIBE")
        /\ subscriptions' = [subscriptions EXCEPT ![n] =
               IF m.pub \in localPubs[n] /\ Known(@, r, m.pub, m.sub)
               THEN WithoutSubscription(@, r, m.pub, m.sub) ELSE @]
        /\ UNCHANGED <<localSubs, remotePubs, pendingRemotePubs, connections, wire,
                       nodeVars, pubVars>>

-----------------------------------------------------------------------------

\* The steps of the reading thread of node n.
Run(n) ==
    \/ \E r \in Node : ReadRemoteId(n, r)
    \/ IgnoreMessage(n)
    \/ ProcessPubAdded(n)
    \/ ProcessPubRemoved(n)
    \/ ProcessSubscribe(n)
    \/ ProcessUnsubscribe(n)

Next ==
    \E n \in Node :
        \/ Run(n)
        \/ \E r \in Node : Added(n, r) \/ Removed(n, r)
        \/ \E s \in Sub : AddSubscriber(n, s) \/ RemoveSubscriber(n, s)
        \/ \E p \in Pub : AddPublisher(n, p) \/ RemovePublisher(n, p)
        \/ Suspend(n)
        \/ Resume(n)

Spec == Init /\ [][Next]_vars

-----------------------------------------------------------------------------
(* Properties.                                                                *)

(* Every piece of state has its type; in particular a map holds no key but    *)
(* node and publisher uuids, and the reading thread never dispatches a part   *)
(* without a remoteId.                                                        *)
TypeOK ==
    /\ nodes \in [Node -> SUBSET Node]
    /\ sockets \in [Node -> SUBSET Node]
    /\ localPubs \in [Node -> SUBSET Pub]
    /\ localSubs \in [Node -> SUBSET Sub]
    /\ remotePubs \in [Node -> Maps(Node, SUBSET Pub)]
    /\ pendingRemotePubs \in [Node -> Maps(Node, SUBSET Pub)]
    /\ subscriptions \in [Node -> Maps(Node, Maps(Pub, SUBSET Sub))]
    /\ isSuspended \in [Node -> BOOLEAN]
    /\ suspendedLocalPubs \in [Node -> SUBSET Pub]
    /\ connections \in [Sub -> SUBSET Pub]
    /\ remoteId \in [Node -> Node \cup {None}]
    /\ envelope \in [Node -> [from : Node \cup {None}, parts : Envelope]]
    /\ wire \in [Node -> [Node -> Seq(Envelope)]]
    /\ \A n \in Node : envelope[n].parts # <<>> => remoteId[n] # None

(* validateState (ZeroMQNode.cpp), which every handler asserts as it returns: *)
(* nodes and sockets correspond, remote publishers and subscriptions belong   *)
(* to nodes we hold a socket to, and no map of subscriptions is left empty.   *)
ValidateState ==
    \A n \in Node :
        /\ nodes[n] \subseteq sockets[n]
        /\ Cardinality(nodes[n]) = Cardinality(sockets[n])
        /\ \A r \in DOMAIN remotePubs[n] \ DOMAIN pendingRemotePubs[n] :
               r \in sockets[n] /\ r \in nodes[n]
        /\ Cardinality(DOMAIN remotePubs[n]) <= Cardinality(nodes[n])
        /\ \A r \in DOMAIN subscriptions[n] :
               /\ r \in nodes[n]
               /\ DOMAIN subscriptions[n][r] # {}
               /\ \A p \in DOMAIN subscriptions[n][r] : subscriptions[n][r][p] # {}

(* _pendingRemotePubs holds "publishers of yet undiscovered nodes"            *)
(* (ZeroMQNode.h): once a node is discovered nothing stays pending for it, in  *)
(* whatever order PUB_ADDED messages and discovery events come in.            *)
PendingOnlyForUndiscovered ==
    \A n \in Node : \A r \in nodes[n] : Get(pendingRemotePubs[n], r) = {}

(* A local subscriber is connected to every known remote publisher of its     *)
(* channel, whichever came first: the subscriber, the publisher or the node.  *)
MatchedSubscribersConnected ==
    \A n \in Node : \A r \in DOMAIN remotePubs[n] : \A s \in localSubs[n] :
        Matching(remotePubs[n][r], s) \subseteq connections[s]

\* The inductive invariant behind the four properties above: nodes and sockets
\* are the same, remote publishers and subscriptions belong to discovered nodes,
\* and no map of subscriptions is empty.
NodesHaveSockets == nodes = sockets

RemotePubsOfNodes == \A n \in Node : DOMAIN remotePubs[n] \subseteq nodes[n]

SubscriptionsOfNodes == \A n \in Node : DOMAIN subscriptions[n] \subseteq nodes[n]

NoEmptySubscriptions ==
    \A n \in Node : \A r \in DOMAIN subscriptions[n] :
        /\ DOMAIN subscriptions[n][r] # {}
        /\ \A p \in DOMAIN subscriptions[n][r] : subscriptions[n][r][p] # {}

IndInv ==
    /\ TypeOK
    /\ NodesHaveSockets
    /\ RemotePubsOfNodes
    /\ SubscriptionsOfNodes
    /\ NoEmptySubscriptions
    /\ PendingOnlyForUndiscovered
    /\ MatchedSubscribersConnected

\* No control message is underway or being read.
Quiet ==
    \A n \in Node : envelope[n].parts = <<>> /\ \A r \in Node : wire[n][r] = <<>>

\* Nodes n and r have discovered each other.
Connected(n, r) == r \in nodes[n] /\ n \in nodes[r]

\* The subscriptions of node n to publisher p that node r knows of.
SubscriptionsOf(r, n, p) == Get(GetMap(subscriptions[r], n), p)

\* The subscribers of node n that want publisher p.
Interested(n, p) == {s \in localSubs[n] : channelName[s] = channelName[p]}

\* Node n knows the publishers of r, and r the subscriptions of n to them.
InSync(n, r) ==
    /\ Get(remotePubs[n], r) = localPubs[r]
    /\ \A p \in localPubs[r] :
           /\ SubscriptionsOf(r, n, p) = Interested(n, p)
           /\ \A s \in Interested(n, p) : p \in connections[s]

(* When no control message is underway, two nodes that have discovered each   *)
(* other agree: each knows exactly the publishers of the other, its matching  *)
(* subscribers are connected to them, and the other one knows exactly these   *)
(* subscriptions.                                                             *)
QuietNodesInSync ==
    Quiet => \A n, r \in Node : Connected(n, r) => InSync(n, r)

(* "A publisher will send messages to a subscriber if they have the same      *)
(* channel name and were added to at least one pair of nodes within the same  *)
(* domain" (docs/GETTING_STARTED.md): once the nodes have discovered each     *)
(* other and no control message is underway, every matching pair is connected *)
(* and known to the publisher's node.                                         *)
MatchingPairsSubscribed ==
    Quiet => \A n, r \in Node : Connected(n, r) =>
        \A p \in localPubs[r] : \A s \in Interested(n, p) :
            p \in connections[s] /\ s \in SubscriptionsOf(r, n, p)

(* "every envelope starts with the remote uuid we read above" (run in         *)
(* ZeroMQNode.cpp): a part is dispatched for the node that sent it.           *)
PartsAttributedToSender ==
    \A n \in Node : envelope[n].parts # <<>> => remoteId[n] = envelope[n].from

-----------------------------------------------------------------------------
(* Fairness: the reading thread keeps reading, and discovery reports every    *)
(* node of the domain that it has not reported yet.                           *)
Fairness ==
    /\ \A n \in Node : WF_vars(Run(n))
    /\ \A n, r \in Node : WF_vars(Added(n, r))

FairSpec == Spec /\ Fairness

(* Once the application makes no more calls, all nodes of a domain discover   *)
(* each other and come to agree on publishers and subscriptions, and it       *)
(* stays like that: no message is left unread and none is dropped for good.   *)
EventuallyInSync ==
    <>[](\A n, r \in Node :
            n # r /\ domain[n] = domain[r] => Connected(n, r) /\ InSync(n, r))

=============================================================================
