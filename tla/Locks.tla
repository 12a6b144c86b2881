------------------------------- MODULE Locks -------------------------------
(***************************************************************************)
(* The mutexes and the threads of a process with one node, the publisher   *)
(* and the subscriber of a service manager, and node discovery.            *)
(*                                                                         *)
(* Every object has a recursive mutex.  Discovery, node, publisher and     *)
(* subscriber are also threads, which read replies or messages and call    *)
(* the handlers of other objects with their own mutex held.  An operation  *)
(* is the sequence of what it does to mutexes and threads, put together    *)
(* from the operations it calls; what it does to other state is in the     *)
(* modules of the components.                                              *)
(***************************************************************************)
EXTENDS Naturals, Sequences

CONSTANTS
    Application,   \* threads of the application
    Calls          \* the operations each of them calls

VARIABLES
    holder,        \* the thread that holds a mutex
    depth,         \* how often it has locked it
    code,          \* what a thread has still to do in its call or handler
    started,       \* Thread::_isStarted
    alive,         \* the thread exists
    woken,         \* a message that ends the blocking receive is underway
    suspended,     \* ZeroMQNode::_isSuspended
    destroyed      \* an object was deleted, the application makes no more calls

lockVars == <<holder, depth, code, started, alive, woken, suspended, destroyed>>

Mutex == {"discovery", "query", "node", "publisher", "subscriber", "manager"}
Reader == {"discovery", "node", "publisher", "subscriber"}
Actor == Application \cup Reader
Free == "free"

-----------------------------------------------------------------------------
(* The steps an operation consists of.                                        *)

Instruction == [do : {"lock", "unlock"}, on : Mutex]
               \cup [do : {"stop", "wake", "join", "start"}, on : Reader]
               \cup [do : {"suspended", "resumed"}, on : {"node"}]

Do(what, on) == [do |-> what, on |-> on]

\* A body between lock and unlock, as ScopeLock and UMUNDO_LOCK have it.
Locked(m, body) == <<Do("lock", m)>> \o body \o <<Do("unlock", m)>>

-----------------------------------------------------------------------------
(* Operations called by other operations.                                     *)

SubscriberAdded == Locked("subscriber", <<>>)
SubscriberRemoved == Locked("subscriber", <<>>)
Welcome == Locked("manager", <<>>)

\* The greeter is called with the mutex of the publisher held; farewell does
\* nothing.
AddedSubscriber == Locked("publisher", Welcome)
RemovedSubscriber == Locked("publisher", <<>>)

AddRemotePubToLocalSubs == Locked("node", SubscriberAdded)
RemoveRemotePubFromLocalSubs == Locked("node", SubscriberRemoved)

NodeAdded == Locked("node", AddRemotePubToLocalSubs)

\* The subscriptions of a lost node end, at publishers the node still has.
NodeRemoved(unsubscribe) == Locked("node", RemoveRemotePubFromLocalSubs \o unsubscribe)

Browse == Locked("discovery", <<>>)
Unbrowse == Locked("discovery", <<>>)

PublisherJoin ==
    Locked("publisher",
           <<Do("stop", "publisher"), Do("wake", "publisher"), Do("join", "publisher")>>)

SubscriberJoin ==
    Locked("subscriber",
           <<Do("stop", "subscriber"), Do("wake", "subscriber"), Do("join", "subscriber")>>)

\* Mutant: the packet that unblocks the thread is not sent.
NodeJoinUnwoken == <<Do("join", "node")>>

NodeJoin == <<Do("wake", "node"), Do("join", "node")>>

PublisherSuspend == <<Do("stop", "publisher")>> \o PublisherJoin

-----------------------------------------------------------------------------
(* Operations of the application.                                             *)

\* Mutant: the subscriber is locked before the node.
AddSubscriberReversed == Locked("subscriber", Locked("node", <<>>))

AddSubscriber == Locked("node", SubscriberAdded)

RemoveSubscriber == Locked("node", SubscriberRemoved)
AddPublisher == Locked("node", <<>>)
RemovePublisher == Locked("node", <<>>)
StartQuery == Locked("manager", <<>>)

DestroyNode == Unbrowse \o <<Do("stop", "node")>> \o NodeJoin
DestroySubscriber == SubscriberJoin
DestroyPublisher == PublisherSuspend

\* The service brings a subscriber and a publisher of its own.
AddService == Locked("manager", Locked("node", <<>>) \o AddPublisher)

Suspend ==
    Locked("node",
           <<Do("suspended", "node")>> \o Unbrowse \o PublisherSuspend \o RemovePublisher
           \o NodeRemoved(<<>>) \o <<Do("stop", "node")>> \o NodeJoin)

Resume ==
    Locked("node",
           <<Do("resumed", "node"), Do("start", "publisher")>> \o AddPublisher
           \o Locked("subscriber", <<>>) \o <<Do("start", "node")>> \o Browse)

Operation ==
    [addSubscriber |-> AddSubscriber, removeSubscriber |-> RemoveSubscriber,
     addPublisher |-> AddPublisher, removePublisher |-> RemovePublisher,
     startQuery |-> StartQuery, addService |-> AddService,
     suspend |-> Suspend, resume |-> Resume, destroyNode |-> DestroyNode,
     destroySubscriber |-> DestroySubscriber, destroyPublisher |-> DestroyPublisher]

Destructors == {"destroyNode", "destroySubscriber", "destroyPublisher"}

ASSUME CallerAssumption ==
    /\ Application \cap (Reader \cup {Free}) = {}
    /\ \A a \in Application : Calls[a] \subseteq DOMAIN Operation

-----------------------------------------------------------------------------
(* Handlers of the reading threads.                                           *)

BonjourRun ==
    {Locked("discovery", Locked("query", NodeAdded)),
     Locked("discovery", Locked("query", NodeRemoved(RemovedSubscriber)))}

ProcessPubAdded == Locked("node", AddRemotePubToLocalSubs)
ProcessPubRemoved == Locked("node", RemoveRemotePubFromLocalSubs)
ProcessSubscription(inform) == Locked("node", inform)

\* run unlocks the mutex after every frame, and after the one with the identity
\* of the sender it has not locked it.
NodeRun ==
    {<<Do("unlock", "node")>>,
     Locked("node", ProcessPubAdded),
     Locked("node", ProcessPubRemoved),
     Locked("node", ProcessSubscription(AddedSubscriber)),
     Locked("node", ProcessSubscription(RemovedSubscriber))}

PublisherRun == {Locked("publisher", AddedSubscriber)}

\* ServiceManager::receive.
SubscriberRun == {Locked("manager", <<>>)}

Handlers == [discovery |-> BonjourRun, node |-> NodeRun,
             publisher |-> PublisherRun, subscriber |-> SubscriberRun]

-----------------------------------------------------------------------------

LockInit ==
    /\ holder = [m \in Mutex |-> Free]
    /\ depth = [m \in Mutex |-> 0]
    /\ code = [t \in Actor |-> <<>>]
    /\ started = [r \in Reader |-> TRUE]
    /\ alive = [r \in Reader |-> TRUE]
    /\ woken = [r \in Reader |-> FALSE]
    /\ suspended = FALSE
    /\ destroyed = FALSE

\* A thread of the application calls an operation.  An object is only deleted
\* when nobody else is using it.
Call(a, c) ==
    /\ code[a] = <<>>
    /\ ~destroyed
    /\ c \in Destructors => \A b \in Application : code[b] = <<>>
    /\ code' = [code EXCEPT ![a] = Operation[c]]
    /\ destroyed' = (c \in Destructors)
    /\ UNCHANGED <<holder, depth, started, alive, woken, suspended>>

\* A message or reply arrives; the thread tests that it is started and goes on
\* to its handler.
Receive(r) ==
    /\ alive[r] /\ started[r]
    /\ code[r] = <<>>
    /\ \E h \in Handlers[r] : code' = [code EXCEPT ![r] = h]
    /\ UNCHANGED <<holder, depth, started, alive, woken, suspended, destroyed>>

\* The receive ends and the thread finds that it was stopped.
Exit(r) ==
    /\ alive[r] /\ ~started[r] /\ woken[r]
    /\ code[r] = <<>>
    /\ alive' = [alive EXCEPT ![r] = FALSE]
    /\ woken' = [woken EXCEPT ![r] = FALSE]
    /\ UNCHANGED <<holder, depth, code, started, suspended, destroyed>>

\* The instruction thread t comes to next, and what is left after it.
Current(t) == Head(code[t])
Goes(t) == code' = [code EXCEPT ![t] = Tail(@)]

LockMutex(t) ==
    LET m == Current(t).on
    IN  /\ Current(t).do = "lock"
        /\ holder[m] \in {Free, t}
        /\ holder' = [holder EXCEPT ![m] = t]
        /\ depth' = [depth EXCEPT ![m] = @ + 1]
        /\ Goes(t)
        /\ UNCHANGED <<started, alive, woken, suspended, destroyed>>

\* Mutant: a mutex that does not know its owner.
UnlockUnowned(t) ==
    LET m == Current(t).on
    IN  /\ Current(t).do = "unlock"
        /\ holder' = [holder EXCEPT ![m] = IF depth[m] = 1 THEN Free ELSE @]
        /\ depth' = [depth EXCEPT ![m] = @ - 1]
        /\ Goes(t)
        /\ UNCHANGED <<started, alive, woken, suspended, destroyed>>

\* Unlocking a recursive mutex that another thread holds fails without effect.
UnlockMutex(t) ==
    LET m == Current(t).on
    IN  /\ Current(t).do = "unlock"
        /\ holder' = [holder EXCEPT ![m] = IF @ = t /\ depth[m] = 1 THEN Free ELSE @]
        /\ depth' = [depth EXCEPT ![m] = IF holder[m] = t THEN @ - 1 ELSE @]
        /\ Goes(t)
        /\ UNCHANGED <<started, alive, woken, suspended, destroyed>>

StopThread(t) ==
    /\ Current(t).do = "stop"
    /\ started' = [started EXCEPT ![Current(t).on] = FALSE]
    /\ Goes(t)
    /\ UNCHANGED <<holder, depth, alive, woken, suspended, destroyed>>

WakeThread(t) ==
    /\ Current(t).do = "wake"
    /\ woken' = [woken EXCEPT ![Current(t).on] = TRUE]
    /\ Goes(t)
    /\ UNCHANGED <<holder, depth, started, alive, suspended, destroyed>>

JoinThread(t) ==
    /\ Current(t).do = "join"
    /\ ~alive[Current(t).on]
    /\ Goes(t)
    /\ UNCHANGED <<holder, depth, started, alive, woken, suspended, destroyed>>

StartThread(t) ==
    /\ Current(t).do = "start"
    /\ started' = [started EXCEPT ![Current(t).on] = TRUE]
    /\ alive' = [alive EXCEPT ![Current(t).on] = TRUE]
    /\ Goes(t)
    /\ UNCHANGED <<holder, depth, woken, suspended, destroyed>>

\* suspend and resume test _isSuspended and return at once if it is set already.
TestSuspended(t) ==
    LET set == Current(t).do = "suspended"
    IN  /\ Current(t).do \in {"suspended", "resumed"}
        /\ suspended' = set
        /\ code' = [code EXCEPT ![t] = IF suspended = set THEN <<Do("unlock", "node")>> ELSE Tail(@)]
        /\ UNCHANGED <<holder, depth, started, alive, woken, destroyed>>

ThreadStep(t) ==
    /\ code[t] # <<>>
    /\ \/ LockMutex(t) \/ UnlockMutex(t)
       \/ StopThread(t) \/ WakeThread(t) \/ JoinThread(t) \/ StartThread(t)
       \/ TestSuspended(t)

LockNext ==
    \/ \E a \in Application : \E c \in Calls[a] : Call(a, c)
    \/ \E r \in Reader : Receive(r) \/ Exit(r)
    \/ \E t \in Actor : ThreadStep(t)

LockSpec == LockInit /\ [][LockNext]_lockVars

-----------------------------------------------------------------------------
(* Properties.                                                                *)

(* A mutex is held by one thread, as often as it was locked.                  *)
LocksTypeOK ==
    /\ holder \in [Mutex -> Actor \cup {Free}]
    /\ depth \in [Mutex -> Nat]
    /\ code \in [Actor -> Seq(Instruction)]
    /\ started \in [Reader -> BOOLEAN]
    /\ alive \in [Reader -> BOOLEAN]
    /\ woken \in [Reader -> BOOLEAN]
    /\ suspended \in BOOLEAN
    /\ destroyed \in BOOLEAN
    /\ \A m \in Mutex : holder[m] = Free <=> depth[m] = 0

\* The threads that t waits for: the one with the mutex, or the one it joins.
WaitsFor(t) ==
    IF code[t] = <<>> THEN {}
    ELSE CASE Current(t).do = "lock" -> {holder[Current(t).on]} \ {Free, t}
           [] Current(t).do = "join" -> {r \in {Current(t).on} : alive[r]}
           [] OTHER -> {}

\* Threads that wait for each other in a circle.
Circle(S) ==
    /\ S # {}
    /\ \A t \in S : WaitsFor(t) # {} /\ WaitsFor(t) \subseteq S

Holds(t, m) == holder[m] = t

\* The places where the code goes against the order discovery, query, node,
\* publisher and subscriber, manager: suspend and resume call discovery with
\* the node locked, addService connects to the node with the manager locked,
\* and suspend and ~ZeroMQPublisher join a thread with a mutex locked it takes.
AgainstOrder(t) ==
    \/ Current(t) = Do("lock", "discovery") /\ Holds(t, "node")
    \/ Current(t) = Do("lock", "node") /\ Holds(t, "manager")
    \/ Current(t) = Do("join", "node") /\ Holds(t, "node")
    \/ Current(t) = Do("join", "publisher") /\ Holds(t, "publisher")

(* Threads wait for each other in a circle only where the code goes against   *)
(* the order of the mutexes in one of the four places AgainstOrder lists:     *)
(* whatever the discovery thread, the reading threads and the application do  *)
(* at the same time, all other calls and handlers cannot block each other.    *)
OnlyKnownCircles ==
    \A S \in SUBSET Actor : Circle(S) => \E t \in S \cap Application : AgainstOrder(t)

(* "We connect to our node socket and send a simple packet to unblock         *)
(* zmq_recvmsg after having stopped the thread" (ZeroMQNode::join): the       *)
(* reading thread of a node that is stopped and joined can end, it does not   *)
(* wait for a mutex of the thread that joins it.                              *)
JoinedNodeCanEnd ==
    \A t \in Actor :
        code[t] # <<>> /\ Current(t) = Do("join", "node") => t \notin WaitsFor("node")

(* A thread that is being joined was stopped, and has ended or will find a    *)
(* message that ends its receive, also after suspend and resume followed each *)
(* other.                                                                     *)
JoinedIsWoken ==
    \A t \in Actor, r \in Reader :
        code[t] # <<>> /\ Current(t) = Do("join", r) => ~started[r] /\ (woken[r] \/ ~alive[r])

=============================================================================
