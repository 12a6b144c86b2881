-------------------------- MODULE ZeroMQPublisher --------------------------
(***************************************************************************)
(* Publishers and their subscribers (ZeroMQPublisher.cpp), composed with   *)
(* the nodes of ZeroMQNode that report subscriptions to them.              *)
(*                                                                         *)
(* A publisher hears of a subscriber twice: from its node, which received  *)
(* a SUBSCRIBE message, and from its XPUB socket, to which the subscriber  *)
(* connected.  Only when it has heard both does it count the subscriber    *)
(* and tell its greeter.                                                   *)
(*                                                                         *)
(* All handlers of a publisher hold its _mutex.  A handler of the node     *)
(* calls addedSubscriber and removedSubscriber as part of its own action.  *)
(* The empty uuid is None.                                                 *)
(***************************************************************************)
EXTENDS ZeroMQNode

CONSTANT Greeted       \* the publishers with a greeter

ASSUME GreetedAssumption == Greeted \subseteq Pub

VARIABLES
    publisher,         \* the state of every publisher
    xpub               \* subscriptions underway to XPUB sockets: <<pub, sub>>

pubSubVars == <<vars, publisher, xpub>>

\* pending: _pendingSubscriptions; pendingZMQ: _pendingZMQSubscriptions;
\* subs: _subscriptions.
PublisherState ==
    [pending     : Maps(Sub, Node \cup {None}),
     pendingZMQ  : SUBSET Sub,
     subs        : Maps(Sub, Node \cup {None}),
     isSuspended : BOOLEAN]

PubSubInit ==
    /\ Init
    /\ publisher = [p \in Pub |-> [pending |-> EmptyMap, pendingZMQ |-> {},
                                   subs |-> EmptyMap, isSuspended |-> FALSE]]
    /\ xpub = {}

-----------------------------------------------------------------------------
(* addedSubscriber and removedSubscriber of publisher p in state h.           *)

\* The call of a greeter reads _pendingSubscriptions[subId] through operator[],
\* which inserts an empty uuid if there is no entry.
AskGreeter(p, pending, S) ==
    IF p \in Greeted
    THEN [s \in DOMAIN pending \cup S |-> IF s \in DOMAIN pending THEN pending[s] ELSE None]
    ELSE pending

\* Both messages have been received: the subscriber counts.  The pending entry
\* is erased before the greeter is asked.
Establish(p, h, pending, s) ==
    [h EXCEPT !.subs = Put(@, s, pending[s]),
              !.pending = AskGreeter(p, Erase(pending, {s}), {s}),
              !.pendingZMQ = @ \ {s}]

\* Mutant: the uuids of node and subscriber are mixed up.
AddedSubscriberMixedUp(p, h, r, s) ==
    LET pending == IF r = None THEN h.pending ELSE Put(h.pending, r, s)
    IN  IF r # None /\ s \in DOMAIN h.pending THEN h
        ELSE IF s \in DOMAIN pending /\ s \in h.pendingZMQ THEN Establish(p, h, pending, s)
        ELSE [h EXCEPT !.pending = pending]

\* Mutant: the message of the node is enough.
AddedSubscriberUnconfirmed(p, h, r, s) ==
    LET pending == IF r = None THEN h.pending ELSE Put(h.pending, s, r)
    IN  IF r # None /\ s \in DOMAIN h.pending THEN h
        ELSE IF s \in DOMAIN pending THEN Establish(p, h, pending, s)
        ELSE [h EXCEPT !.pending = pending]

\* Mutant: known subscriptions are looked up among those of the XPUB socket.
AddedSubscriberWrongMap(p, h, r, s) ==
    LET pending == IF r = None THEN h.pending ELSE Put(h.pending, s, r)
    IN  IF r # None /\ s \in h.pendingZMQ THEN h
        ELSE IF s \in DOMAIN pending /\ s \in h.pendingZMQ THEN Establish(p, h, pending, s)
        ELSE [h EXCEPT !.pending = pending]

AddedSubscriber(p, h, r, s) ==
    LET pending == IF r = None THEN h.pending ELSE Put(h.pending, s, r)
    IN  IF r # None /\ s \in DOMAIN h.pending THEN h
        ELSE IF s \in DOMAIN pending /\ s \in h.pendingZMQ THEN Establish(p, h, pending, s)
        ELSE [h EXCEPT !.pending = pending]

\* removedSubscriber for every subscriber of S.
RemovedSubscribers(p, h, S) ==
    [h EXCEPT !.subs = Erase(@, S), !.pending = AskGreeter(p, @, S)]

-----------------------------------------------------------------------------
(* The XPUB socket (ZeroMQ): a subscriber that connects, or whose connection  *)
(* is reestablished, sends its uuid as a subscription.                        *)

Connect ==
    xpub' = xpub \cup {m \in Pub \X Sub :
        m[1] \in connections'[m[2]] \ connections[m[2]] /\ ~publisher[m[1]].isSuspended}

Reconnect(p, s) ==
    /\ p \in connections[s]
    /\ ~publisher[p].isSuspended
    /\ xpub' = xpub \cup {<<p, s>>}
    /\ UNCHANGED <<vars, publisher>>

\* Mutant: the subscription is remembered, but nobody looks for its counterpart.
ReadSubscriptionOnly(p, s) ==
    /\ <<p, s>> \in xpub
    /\ xpub' = xpub \ {<<p, s>>}
    /\ publisher' = [publisher EXCEPT ![p].pendingZMQ = @ \cup {s}]
    /\ UNCHANGED vars

\* run: read a subscription from the XPUB socket.
ReadSubscription(p, s) ==
    LET h == [publisher[p] EXCEPT !.pendingZMQ = @ \cup {s}]
    IN  /\ <<p, s>> \in xpub
        /\ xpub' = xpub \ {<<p, s>>}
        /\ publisher' = [publisher EXCEPT ![p] = AddedSubscriber(p, h, None, s)]
        /\ UNCHANGED vars

-----------------------------------------------------------------------------
(* The actions of the nodes with what they do to publishers and connections.  *)

\* The subscription in the message node n reads is one it knows of.
KnownSubscription(n) ==
    Known(subscriptions[n], remoteId[n], Part(n).pub, Part(n).sub)

\* Mutant: the publisher is not told of the subscription.
ProcessSubscribeUntold(n) == ProcessSubscribe(n) /\ UNCHANGED <<publisher, xpub>>

PubProcessSubscribe(n) ==
    LET p == Part(n).pub
    IN  /\ ProcessSubscribe(n)
        /\ publisher' =
               IF p \in localPubs[n] /\ ~KnownSubscription(n)
               THEN [publisher EXCEPT ![p] =
                        AddedSubscriber(p, @, remoteId[n], Part(n).sub)]
               ELSE publisher
        /\ UNCHANGED xpub

PubProcessUnsubscribe(n) ==
    LET p == Part(n).pub
    IN  /\ ProcessUnsubscribe(n)
        /\ publisher' =
               IF p \in localPubs[n] /\ KnownSubscription(n)
               THEN [publisher EXCEPT ![p] = RemovedSubscribers(p, @, {Part(n).sub})]
               ELSE publisher
        /\ UNCHANGED xpub

\* The reading thread of node n.
PSRun(n) ==
    \/ PubProcessSubscribe(n)
    \/ PubProcessUnsubscribe(n)
    \/ ProcessPubAdded(n) /\ Connect /\ UNCHANGED publisher
    \/ /\ (\E r \in Node : ReadRemoteId(n, r)) \/ IgnoreMessage(n) \/ ProcessPubRemoved(n)
       /\ UNCHANGED <<publisher, xpub>>

PSAdded(n, r) == Added(n, r) /\ Connect /\ UNCHANGED publisher

\* removed: only publishers that are still local are told.
PSRemoved(n, r) ==
    /\ Removed(n, r)
    /\ publisher' = [p \in Pub |->
           IF p \in localPubs[n]
           THEN RemovedSubscribers(p, publisher[p], SubscriptionsOf(n, r, p))
           ELSE publisher[p]]
    /\ UNCHANGED xpub

PSAddSubscriber(n, s) == AddSubscriber(n, s) /\ Connect /\ UNCHANGED publisher
PSRemoveSubscriber(n, s) == RemoveSubscriber(n, s) /\ UNCHANGED <<publisher, xpub>>

\* removePublisher does not tell the publisher of the subscribers it loses.
PSAddPublisher(n, p) == AddPublisher(n, p) /\ UNCHANGED <<publisher, xpub>>
PSRemovePublisher(n, p) == RemovePublisher(n, p) /\ UNCHANGED <<publisher, xpub>>

\* suspend closes the XPUB sockets of the local publishers; their removal comes
\* before that of the nodes, so no publisher is told of a subscriber that left.
PSSuspend(n) ==
    /\ Suspend(n)
    /\ publisher' = [p \in Pub |-> [publisher[p] EXCEPT !.isSuspended =
                        @ \/ p \in localPubs[n]]]
    /\ xpub' = {m \in xpub : m[1] \notin localPubs[n]}

\* resume opens them again, and the subscribers' sockets reconnect.
PSResume(n) ==
    /\ Resume(n)
    /\ publisher' = [p \in Pub |-> [publisher[p] EXCEPT !.isSuspended =
                        @ /\ p \notin suspendedLocalPubs[n]]]
    /\ xpub' = xpub \cup {m \in Pub \X Sub :
                   /\ publisher[m[1]].isSuspended /\ m[1] \in suspendedLocalPubs[n]
                   /\ m[1] \in connections[m[2]]}

PubSubNext ==
    \/ \E n \in Node :
           \/ PSRun(n)
           \/ \E r \in Node : PSAdded(n, r) \/ PSRemoved(n, r)
           \/ \E s \in Sub : PSAddSubscriber(n, s) \/ PSRemoveSubscriber(n, s)
           \/ \E p \in Pub : PSAddPublisher(n, p) \/ PSRemovePublisher(n, p)
           \/ PSSuspend(n)
           \/ PSResume(n)
    \/ \E p \in Pub, s \in Sub : ReadSubscription(p, s) \/ Reconnect(p, s)

PubSubSpec == PubSubInit /\ [][PubSubNext]_pubSubVars

-----------------------------------------------------------------------------
(* Properties.                                                                *)

(* The publishers' maps hold nothing but subscriber uuids.                    *)
PubSubTypeOK ==
    /\ publisher \in [Pub -> PublisherState]
    /\ xpub \subseteq Pub \X Sub

\* The subscribers publisher p counts.
Established(p) == DOMAIN publisher[p].subs

(* "only when both have been received do we signal the greeters"              *)
(* (ZeroMQPublisher.h): a counted subscriber has its connection, its          *)
(* subscription has arrived at the XPUB socket and its node's at our node, so *)
(* what is published from now on reaches it.                                  *)
EstablishedAreSolid ==
    \A p \in Pub : \A s \in Established(p) :
        /\ p \in connections[s]
        /\ <<p, s>> \notin xpub
        /\ \E n, r \in Node : s \in SubscriptionsOf(n, r, p)

(* A subscription the node of a publisher knows of is not lost on the         *)
(* publisher: it is counted or it still waits for the XPUB socket.            *)
SubscriptionsTracked ==
    \A n, r \in Node : \A p \in localPubs[n] :
        SubscriptionsOf(n, r, p) \subseteq Established(p) \cup DOMAIN publisher[p].pending

(* When nothing is underway a publisher counts exactly the subscribers of its *)
(* channel at the nodes its own nodes are connected to.                       *)
QuietCountsExact ==
    Quiet /\ xpub = {} =>
        \A p \in Pub : Established(p) =
            UNION {Interested(n, p) : n \in {n \in Node :
                \E r \in Node : Connected(n, r) /\ p \in localPubs[r]}}

-----------------------------------------------------------------------------
(* Fairness: the nodes' and the publishers' reading threads keep reading, and *)
(* discovery reports every node of the domain.                                *)
PubSubFairness ==
    /\ \A n \in Node : WF_pubSubVars(PSRun(n))
    /\ \A n, r \in Node : WF_pubSubVars(PSAdded(n, r))
    /\ \A p \in Pub, s \in Sub : WF_pubSubVars(ReadSubscription(p, s))

\* The subscribers waiting for publisher p anywhere in its domains.
Wanted(p) ==
    UNION {Interested(n, p) : n \in {n \in Node :
        \E r \in Node : r # n /\ domain[r] = domain[n] /\ p \in localPubs[r]}}

(* Once the application makes no more calls, every publisher comes to count   *)
(* every subscriber of its channel, so that waitForSubscribers returns.       *)
EventuallyCounted == \A p \in Pub : <>[](Wanted(p) \subseteq Established(p))

=============================================================================
