# A verification of uMundo in TLA+

uMundo is a publish/subscribe middleware in C++. Nodes find each other with
zero-configuration discovery (Bonjour or Avahi), exchange lists of their
publishers over ZeroMQ sockets and connect subscribers to the publishers of the
same channel; services, directory listings and a cache are built on top. This
directory holds TLA+ modules that model its concurrent and
distributed parts, TLC configurations that model-check them on small instances,
and proofs, checked by TLAPS, of their most important invariants for every
instance.

Paths below are relative to the root of the repository; a file name without a
path is under `core/src/umundo/`.

## 1. The system

| Part | Where | State | Operations |
|---|---|---|---|
| Node | `connection/zeromq/ZeroMQNode` | `_nodes`, `_sockets`, `_localPubs`, `_localSubs`, `_remotePubs`, `_pendingRemotePubs`, `_subscriptions`, `_isSuspended`, `_suspendedLocalPubs` | discovery callbacks `added`/`removed`; calls `addPublisher`, `removePublisher`, `addSubscriber`, `removeSubscriber`, `suspend`, `resume`; the reading thread `run` with `processPubAdded`, `processPubRemoved`, `processSubscription` |
| Publisher | `connection/zeromq/ZeroMQPublisher` | `_pendingSubscriptions`, `_pendingZMQSubscriptions`, `_subscriptions` | `addedSubscriber`, `removedSubscriber`, the XPUB reading thread, `waitForSubscribers`, `suspend`, `resume`, `send` |
| Subscriber | `connection/zeromq/ZeroMQSubscriber` | `_connections`, the SUB socket | `added`, `removed`, the reading thread, `suspend`, `resume` |
| Threads | `thread/Thread` | `_isStarted`, `_thread`; recursive mutexes; `Monitor` with `_waiters` and `_signaled` | `start`, `stop`, `join`; `wait`, `signal`, `broadcast` |
| Discovery | `discovery/Discovery`, `discovery/NodeQuery` | queries, the nodes each has reported | `browse`, `unbrowse`, `found`, `removed`, `notifyResultSet` |
| Bonjour, Avahi | `discovery/bonjour`, `discovery/avahi` | local nodes, queries, nodes seen per query | `add`, `remove`, `browse`, `unbrowse`, callbacks of the mDNS library, `suspend`, `resume` |
| Factory, facades | `common/Factory`, `connection/Node` | prototypes and instances | `create`, `suspendInstances`, `resumeInstances`, `connect`, `disconnect` |
| RPC | `rpc/src/umundo/rpc` | services, requests, remote services, queries | `find`, `startQuery`, `stopQuery`, `addService`, `removeService`, `callStubMethod`, `receive` |
| Typed messages | `s11n/src` | types and prototypes | `sendObj`, `receive` |
| Utilities | `util/src` | the structured cache, directory listings, Base64, regular expressions, MD5 | `insert`, `updateEntries`, ... |
| Tools, bindings, generators | `core/tools`, `core/bindings`, `apps`, `rpc/src/umundo/protoc-rpc` | | |

How they interact: every node has a ROUTER socket and one DEALER socket per
discovered node. When discovery reports a node, the node connects to it and
lists its publishers (`PUB_ADDED`). A node that learns of a publisher connects
its matching subscribers to it and tells the publisher's node (`SUBSCRIBE`).
The publisher hears of a subscriber from its node and from its XPUB socket, and
counts it when it has heard both. Removals travel as `PUB_REMOVED` and
`UNSUBSCRIBE`. A service manager is a publisher and a subscriber on a channel of
all managers: it sends its queries to the others and answers theirs, and a
greeter at its publisher repeats the queries to a manager that comes late. A
stub and its service are a publisher and a subscriber each on the channel of the
service. The directory listing service is such a service with a further
publisher for notifications.

What makes it hard: each node is driven by three kinds of threads
(application, discovery, its own reading thread); discovery of two nodes is not
simultaneous, so messages of a node may arrive before the node is discovered;
one side may lose the other and find it again unnoticed; suspending closes
sockets with messages underway; the two halves of a subscription arrive on
different sockets in any order; the monitor's counters are written without the
lock; handlers call each other with their mutexes held; a query may be answered
before the answer can be heard. `PROJECT.json` lists the hazards line by line.

What should hold: the assertions of `validateState`; pending publishers only for
undiscovered nodes; subscribers connected to all publishers they want; agreement
of connected nodes once the messages are delivered, and that this state is
reached; a counted subscriber is solidly subscribed, and all are counted; no
thread sleeps while a signal is set and nobody is about to wake it; every waiting
thread returns; calls and handlers do not block each other; a query reports exactly the nodes, or services, that are there; an
RPC call gets its own reply; a changed directory is read again; the lists of the
cache stay in order.

## 2. Modules

| Module | Models | Kind |
|---|---|---|
| `ZeroMQNode` | the nodes and the control messages between them | core component |
| `ZeroMQPublisher` | publishers and subscribers, composed with the nodes of `ZeroMQNode` | composition |
| `Monitor` | `Monitor` of `thread/Thread.cpp` (pthread) | component |
| `WaitForSubscribers` | `waitForSubscribers` on a `Monitor` | composition |
| `NodeListing` | what discovery promises the listener of a query | abstract specification |
| `BonjourNodeDiscovery`, `AvahiNodeDiscovery` | the two implementations of discovery, with `NodeQuery` | components |
| `Locks` | the mutexes and threads of a process, across all components | composition |
| `ServiceManager` | service managers, their queries and `find` | component |
| `ServiceCall` | the stubs of a service and the service | component |
| `DirectoryListing` | the directory listing service and a client | component |
| `NBandCache` | items, bands and pointers of the cache | component |
| `StructuredCache` | the distances of items from pointers, over `NBandCache` | recursive function |
| `MCZeroMQNode`, `MCZeroMQPublisher`, `MCThreads`, `MCWaitForSubscribers`, `MCDiscovery`, `MCServices` | scenarios and bounds for TLC | |
| `Scenario` | the budget of a scenario, shared by the two MC modules of nodes and publishers | |
| `ZeroMQSettling_proofs` | the lemmas on settling networks, one per handler | lemmas |
| `ZeroMQNode_proofs`, `ZeroMQPublisher_proofs`, `Locks_proofs`, `BonjourNodeDiscovery_proofs`, `ServiceManager_proofs`, `Services_proofs` (of `ServiceCall`, `DirectoryListing` and `NBandCache`), `AvahiMonitor_proofs` (of `AvahiNodeDiscovery` and `Monitor`) | theorems | |

### ZeroMQNode

The variables are the fields of `ZeroMQNode`, one function over nodes per field;
a `std::map` is a function whose domain is the set of its keys, so that an empty
entry and an absent one are different, as they are for `validateState`.
`connections` is `ZeroMQSubscriber::_connections`, `wire[q][r]` holds the
envelopes sent from `q` and not yet read by `r`, `envelope[n]` and `remoteId[n]`
are the state of the loop in `run`.

Every handler holds the recursive `_mutex` for its whole body and is one action.
The reading thread takes the mutex for each part, so it makes one step per part:
`ReadRemoteId` reads the identity frame, `ProcessPubAdded` and its siblings one
part each. `IgnoreMessage` is the `continue` for a message of an undiscovered
node, which leaves `remoteId` set.

What is abstracted: uuids, channel names and ports are identities; malformed
messages (an error path that changes nothing) do not occur; assertions are taken
to be compiled out, so a handler goes on where one would fail. Of `validateState`
the comparisons of the maps are kept; that the endpoints in them have an address,
a port and a transport is left out, as an endpoint is an identity here.

What is assumed of the environment:
- ZeroMQ delivers the envelopes of one node to another in order, also over a
  reconnection (the sockets linger when closed). Nothing is assumed of the order
  of envelopes of different senders.
- Closing the ROUTER socket in `suspend` loses any prefix of what is underway to
  it; the rest is delivered after `resume`. The port is the same after `resume`.
- Discovery reports a node as added once until it reports it as removed, only
  nodes of the own domain, and never to a suspended node (`NodeQuery::found`,
  `Discovery::unbrowse`). `removed` of a node that was never added returns early
  and changes nothing. A suspended node stays advertised, as the code does.
- All nodes run on one host, so an endpoint identifies a publisher.

### ZeroMQPublisher

Extends the node model by the state of each publisher and by `xpub`, the
subscriptions underway to XPUB sockets. Each node action is conjoined with what
it does to publishers: `processSubscription` calls `addedSubscriber` or
`removedSubscriber`, connecting a subscriber puts its subscription into `xpub`,
`suspend` closes the XPUB sockets. `Reconnect` is ZeroMQ's own reestablishing of
a connection. The greeter's peculiarity is kept: `addedSubscriber` and
`removedSubscriber` read `_pendingSubscriptions[subId]` after it was erased,
which inserts an empty entry.

### Monitor and WaitForSubscribers

`signal` reads `_waiters` and writes `_signaled` without the mutex, so the steps
of `Monitor` are single accesses to these variables, `_signaled--` is a load
and a store, and `SetSignaled` chooses whether `_waiters` is read again or kept
in a register. Spurious wake-ups and timeouts happen at any time. `misread`
remembers whether a broadcast found nobody waiting, or a signal used two different
values of `_waiters`; after that the assertions on `_signaled` may fail, before it
they hold (`SignalsAsserted`).
`WaitForSubscribers` runs the loop of `waitForSubscribers` around `Wait` and lets
a reading thread change the number of subscribers and signal.

### NodeListing, BonjourNodeDiscovery and AvahiNodeDiscovery

`NodeListing` has two variables, the nodes the mDNS library announces to a query
and the nodes the query's listener was told of. Each implementation contains an
instance of it: `known` are the nodes with a stub, `listed` is
`NodeQuery::_nodes` while the query browses.

Every operation and callback holds the mutex of the discovery singleton from
beginning to end (`run` of Bonjour holds it around the dispatch), and is one
action. `queryToNodes` is total, with `NoStub` for an absent entry; a stub
exists exactly while it has an interface. `activeFDs` holds the open operations
instead of their descriptors. `inbox[q]` is what the daemon has to say to a
browsing query. A node browses with one query at a time and with a new one
whenever it is initialised or resumed, so a query is named by its node. `Resume`
includes `ZeroMQNodeImpl::resume`, which browses again.

What is assumed of the daemons: a browse operation first hears of what is on the
network, in any order, and then of every change in order; Bonjour sets
`MoreComing` only when another reply follows, resolves a node only where it is
announced, and answers with an address or with its absence for each family, or
with an error; an Avahi resolver answers once, at any time before its client is
freed; calls of the daemon succeed. Domains are abstracted to one.

### Locks

A process with one node, the publisher and the subscriber of a service manager,
and Bonjour discovery: six recursive mutexes and four reading threads. An
operation is the sequence of what it does to mutexes and threads, put together
from the operations it calls, as `Suspend` from `Unbrowse`, `PublisherSuspend`,
`RemovePublisher`, `NodeRemoved` and `NodeJoin`; the threads interleave between
any two steps. Which handler a message leads to is chosen freely. Kept are the
unlock of `ZeroMQNode::run` after the identity frame, when it has not locked,
and that `join` of a publisher and of a subscriber holds the mutex. Not
interleaved are `_isStarted` and the message that ends a receive: a thread tests
that it is started when a message has arrived. Objects are deleted only when the
application does nothing else with them.

### ServiceManager and ServiceCall

A handler of a manager holds its `_mutex` and is one action. `net[m][r]` is what
`m` has sent and `r` has not read, `heardBy[m]` who is subscribed to `m`; the
subscription and the call of the greeter are two steps (`Hear`, `Welcome`), which
may happen in either order for the two directions of a pair. `Lose` drops a
connection with what is underway; `farewell` is empty in the code. A listener
keeps description objects, and whether an object is the one in `_remoteSvcDesc`
or an earlier one is kept apart, because `receive` forgets it with the first of
several filters. A filter is the set of services it matches. `find` is three
steps: it is called when there is a subscriber and sleeps a second (`FindService`),
sends its request to those who are there by then (`SendFind`), and returns; an
answer overwrites an earlier one as `_findResponses` does. The publisher of a
manager is not suspended, so the early return of `ZeroMQPublisher::send` is left
out.

`ServiceCall` has the stubs of one service and the threads that call them.
A stub publishes on the channel all stubs and the service subscribe to, so
`waitForSubscribers(1)` of the constructor may be satisfied by another stub
(`counted`), and says nothing of whether the stub hears the service (`hearing`).

### DirectoryListing

`updateEntries` holds a mutex, but not over the file system, so the steps are
single entries of `readdir` and of the loop that removes entries, with changes
of files and of the clock in between. `list` reads `_knownEntries` without the
mutex. `_lastChecked` starts with any value, as the constructor does not set it.
The loop that removes entries goes on from an iterator after its element was
erased, which is undefined: from then on the loop may step over entries
(`erased`, `UpdateDone`). The service watches from when it is made, and a client
comes at any time later (`Connect`): what was notified before is lost to it.
Notifications reach it in order. Two history variables say which files a
statement is not about: `overlooked` those whose coming or going the comparison
of times is not bound to show, `unheard` those known before the client came.

### NBandCache and StructuredCache

The links are functions from items to items and from bands to bands. The two
proxies of a band always get the same `_currentItem`, which is `current`. An
item whose name its band already has is kept but not linked. `getPointer` with
an element id is a choice among the items of the band, and `ElementIdsInverse`
relates ids and items. `ResetDistances` is the depth-first propagation of
`StructuredCache.cpp` as a recursive function, compared with the number of steps
of a search level by level. `_cachePointers` holds weak pointers: one the
application has let go of (`Release`) stays until `resetDistances` erases it
(`EraseExpired`), and the loop then goes on from the erased iterator, which is
undefined, so it may visit any subset of the other pointers (`Visited`). Nothing
in the repository calls `resetDistances`; the distances are stated of every state
it can be called in. An element id beyond the end of a band, with which
`getPointer` follows the null link of the last item, is left out.

## 3. Runs

An MC module chooses a scenario in its initial state, which says what takes part
and gives every kind of call from outside a budget; one run checks several
scenarios. Properties whose name begins with one (`Settling...`, `Growing...`,
`Settled...`) are about that scenario.

| Run | Scenarios | Shows |
|---|---|---|
| `node` | changing and moving: 2 nodes, 1 publisher, 1 subscriber that is added to both; 3 additions, one removal of each kind, and in the first a lost node and a suspension. Settling: 3 nodes, 2 publishers, 1 subscriber, 3 additions, one removed subscriber | `TypeOK`, `ValidateState`, `PendingOnlyForUndiscovered`, `MatchedSubscribersConnected`, `PartsAttributedToSender` in all; `SettlingInSync`, and `SettlingEventuallyInSync` under fairness |
| `publisher` | growing: 2 nodes, 2 publishers (one with a greeter), 2 subscribers. Changing: one of each, all removals, a suspension, a reconnection | `PubSubTypeOK`, `SubscriptionsTracked` in both; `GrowingAreSolid`, `GrowingCountsExact`, and `GrowingEventuallyCounted` under fairness |
| `threads` | monitor: 3 waiters (one timed), 2 signalers, 3 waits, 3 signals or broadcasts, one spurious wake-up or timeout. Locks: one thread that suspends, resumes and deletes, one that uses the objects, four reading threads; no bound on calls | `ThreadsTypeOK` (of both); `NoLostWakeup`, `WaitersCounted`, `SignalsAsserted`, and `SignalTaken` under fairness; `OnlyKnownCircles`, `JoinedIsWoken` |
| `discovery` | 1 local node, 2 remote ones (one that stays where it appears), 2 interfaces; 4 changes of the network with Bonjour, 3 with Avahi | `ValidateState`, `StubsOfQueries`, `QuietStubsPresent`, `AvahiTypeOK`, `AvahiValidateState`; the refinements `BonjourListing` and `AvahiListing`; `BonjourEventuallyListed` under fairness |
| `services` | managers: 3, with 3 services and 3 filters, two of them at one manager, that know each other (settled), meet (joining), lose each other (losing) or use `find` (finding). Calls: 2 stubs, 3 threads, 2 calls each, one of a method without result. Directory: 2 files, 4 seconds, 3 changes, a client that comes at any time. Cache: 6 items in 3 bands, two of them with the same name, 2 pointers that come and go | `ServicesTypeOK`; `SettledListed`, `QuietQueriesKnown`, `StoppedForgotten`, `FoundMatches`; `OwnReply`, `QuietCallsReturned`; `RescanDue`, `ListenerMirrors`; `ListsInOrder`, `ElementIdsInverse`, `CurrentInBand`, `CacheDistancesLeast` |
| `wrong_sender` | 3 nodes, a publisher is removed before its node is discovered | violates `PartsAttributedToSender` |
| `resume_unsubscribed` | 2 nodes, one suspension | violates `MatchingPairsSubscribed` |
| `readded_uncounted` | a subscriber is removed and added again | violates `EventuallyCounted` |
| `two_waiters` | two threads wait for one and two subscribers | violates `WaitersReturn` |
| `listed_address` | Bonjour, one remote node on two interfaces | violates `ListedHaveAddress` |
| `suspend_deadlock` | the locks as in `threads` | violates `JoinedNodeCanEnd` |
| `query_unanswered` | two managers meet | violates `QuietListed` |

`OnlyKnownCircles` says of every set of threads: if each of them waits for
another one of the set, one of them is a thread of the application at one of the
four places `AgainstOrder` lists. All four do occur (removing any of them from
the list makes TLC find the circle): `suspend` and `resume` calling discovery
with the node locked, `addService` calling the node with the manager locked, and
the joins of a node and of a publisher with their own mutex locked. Everything
else keeps to the order discovery, query, node, publisher or subscriber, manager.

Bounds. The systems run forever; the budgets limit calls from outside, while the
reading threads, discovery's additions and the threads inside a monitor are
unbounded. Two nodes are enough for the properties of a pair of nodes; the third
one in settling lets envelopes of two senders interleave at one ROUTER socket,
and two publishers make envelopes of two parts. Two waiters and two signalers
suffice for the races on the monitor's counters, the third waiter makes
`signal(2)` leave someone behind. A discovery implementation treats queries
independently, so one query is enough; two interfaces let a node lose one and
keep the other, and four changes let it appear on both, lose one and find it
again while the second node is resolved. `MCDiscovery` chooses the implementation
in its initial state, as the build does. Three managers let an answer reach a
manager that did not ask. Two filters of one manager match the same service, so
that one listener is told of a removal after the other, and so does a filter of
another manager; requests of `find` use different ones. A service that no filter
matches makes wrong answers possible. Two threads share a stub and a third one uses
another. Two files let an erased entry hide the other one; four seconds let a
change fall before, into and after the second of a check. Three bands and three
names are enough for an item and a band to be inserted first, last and between.

The scenarios of agreement leave out the calls whose effect the violated
properties describe: settling those that remove publishers before their node is
discovered, lose a node on one side or suspend; growing adding a subscriber
again; settled managers that still have to meet. The other scenarios include all
of them.

Deadlock is checked only in `discovery`: with the budgets used up and all
messages read the other systems rightly stop. Threads that block each other are
the subject of `OnlyKnownCircles`.

Fairness: a reading thread that has something to read reads it (it blocks in
`zmq_recvmsg` only on an empty socket), discovery eventually reports every node
of the domain, a thread inside `wait` or `signal` goes on when the mutex is
free. Weak fairness is enough: the budgets end every contention for the mutex.
For discovery: `run` dispatches what the daemon has to say, and the daemon
answers the operations that stay open, ending every burst of `MoreComing`.
Nothing is assumed of the application. The reading thread of a node is fair only
while it does not wait for `suspend`, which the node model does not show: with
`suspend_deadlock` in mind, settling has no suspension.

### Disagreements

The seven violated properties are what a comment, an assertion or a test says.

- `wrong_sender`: a message of an undiscovered node is skipped with `continue`,
  which also skips resetting `remoteId`, so the next envelope is taken to come
  from the same node.
- `resume_unsubscribed`: remote nodes do not list their publishers again to a
  node that was suspended and resumed. Losing a node on one side only and finding
  it again has the same effect.
- `readded_uncounted`: a subscriber keeps its connections when it is removed, so
  its XPUB subscription is not sent a second time.
- `two_waiters`: one signal may release the wrong thread.
- `listed_address`: a node that loses the only interface it was resolved on stays
  listed, and `BonjourNodeStub::getIP` asserts that it has an address.
- `suspend_deadlock`: `ZeroMQNode::suspend` joins the reading thread with the
  mutex locked that the thread needs for the part it has received.
- `query_unanswered`: the manager that is asked answers before the asking one is
  subscribed to it. Nothing repeats the answer; `welcome` repeats only queries.

Others are not runs.

- `AvahiNodesPresent` of `MCDiscovery` does not hold: a node known already does
  not remember the further interfaces it is announced on, and vanishes with the
  first one.
- `Factory::resumeInstances` begins with `return`, so it resumes nothing, whatever
  its comment says.
- `SignalsAsserted` without its exception does not hold: `broadcast` with nobody
  waiting, overtaken by a thread that begins to wait, stores 0 into `_signaled`,
  and so may a signal that reads `_waiters` again after the last one has left. If
  a thread has tested `_signaled` just before, it stores -1: the assertions at
  `thread/Thread.cpp` 552, 573 and 595 fail, and with them compiled out every
  `wait` returns at once from then on. In the library only the destructor of
  `Monitor` calls `broadcast`.
- `QuietListed` fails also in settled if two filters of one manager match a
  service: the first `serviceDiscRemoved` erases its description
  (`rpc/src/umundo/rpc/ServiceManager.cpp` 242), and the second listener is told of
  the removal of a new object (236-241) and keeps the one it has. `SettledListed`
  says that this is the only way to hold a stale object: the listener knows
  exactly the services that are offered, and what else it holds is of a service
  that another filter of its manager matches.
- A client made after files were found hears of them only through `list`: its
  listener is never told that they were added, and if `list` was not called a
  change or removal of one is logged as an error
  (`util/src/umundo/util/filesystem/DirectoryListingClient.cpp` 80, 87).
  `ListenerMirrors` leaves out exactly the files known when it came.
- `_lastChecked` of the listing service is not initialised. With a value in the
  future no file is ever found; `RescanDue` names the files this concerns.

## 4. Proofs

For any finite sets of nodes, publishers and subscribers and any assignment of
channels and domains (`ZeroMQNode_proofs`):

- `TypeCorrect`: `Spec => []TypeOK`.
- `InductiveInvariant`: `Spec => []IndInv`.
- `StateIsValid`, `NothingPending`, `SubscribersConnected`: `ValidateState`,
  `PendingOnlyForUndiscovered` and `MatchedSubscribersConnected` always hold.

`ValidateState` compares cardinalities and skips remote publishers of nodes that
have a pending entry, so it is not inductive. `IndInv` says instead that `_nodes`
and `_sockets` have the same keys, that those of `_remotePubs` and
`_subscriptions` are among them, and that no map of subscriptions is empty. It
includes the other two properties: moving pending publishers keeps subscribers
connected only because nothing of the node was left pending before. There is one
lemma per handler, and `AddRemotePubInv` serves the two that share
`addRemotePubToLocalSubs`. The type invariant is proved first; that a `std::map`
stays one is a lemma per operation (`Put`, `Erase`, ...).

`SettlingSpec` is `Spec` without `Removed`, `RemovePublisher` and `Suspend`: nodes,
publishers and subscribers come, and subscribers go. For the same constants
(`ZeroMQSettling_proofs`, concluded in `ZeroMQNode_proofs`):

- `SettlingInvariant`: `SettlingSpec => []SettleInv`;
- `SettlingPartsAttributed`: `SettlingSpec => []PartsAttributedToSender`;
- `SettlingNodesInSync`: `SettlingSpec => []QuietNodesInSync`, and from it
  `SettlingPairsSubscribed`: `SettlingSpec => []MatchingPairsSubscribed`, the
  property `resume_unsubscribed` shows to fail with suspensions;
- `SettlingScenarioInSync`: `MCSpec => []SettlingInSync`, the property the run
  `node` checks.

That nodes agree when nothing is underway says nothing while something is.
`SettleInv` adds what is: only announcements and requests, and those between
nodes that may exchange them (`Sent`, `Read`); a node has learnt only of
publishers that exist (`Learnt`) and has heard or is being told of all of them
(`AllAnnounced`); and for every pair of publisher and subscriber the last request
underway between two nodes says whether the subscriber is wanted there, or,
without one, the subscriptions of the receiver do (`Subscribed`). It follows
that a reader accepts every part, so `continue` never leaves a stale `remoteId`
behind: that is where the two networks, this one and the one of `wrong_sender`,
part. The handlers send their messages in the order in which they iterate over a
map (`InSomeOrder`). The lemmas need of it only that it lists all of them
(`ListsMessages`), which `MessagesListed` proves from the sets being finite.

For publishers on top of the nodes (`ZeroMQPublisher_proofs`):

- `PublishersRefineNodes`: `PubSubSpec => Spec`;
- `PubSubTypeCorrect`: `PubSubSpec => []PubSubTypeOK`;
- `GrowingInvariant`: `GrowingSpec => []GrowInv`, where `GrowingSpec` is
  `PubSubSpec` with additions and the reading threads only;
- `GrowingSolid`, `GrowingTracked`, `GrowingExact`: `EstablishedAreSolid`,
  `SubscriptionsTracked` and `QuietCountsExact` always hold of `GrowingSpec`;
- `GrowingScenarioSolid`, `GrowingScenarioExact`: `MCPubSubSpec` implies
  `[]GrowingAreSolid` and `[]GrowingCountsExact`, which the run `publisher` checks.

`GrowInv` is `SettleInv` for the nodes, and for the publishers: who was reported
by a node is exactly who has a subscription there (`ToldByNodes`), who was
reported by the XPUB socket is exactly who is connected and has nothing underway
to the socket (`ToldBySocket`), and who was reported by both is counted
(`NoneForgotten`). It needs that no request to unsubscribe is underway
(`NoUnsubscribe`). Exact counts then follow from the agreement of the nodes.

For any finite set of waiters and any signalers (`AvahiMonitor_proofs`):

- `NoWakeupIsLost`: `MonitorSpec => []NoLostWakeup`;
- `WaitersAreCounted`: `MonitorSpec => []WaitersCounted`;
- `SignalsAreAsserted`: `MonitorSpec => []SignalsAsserted`;
- `MonitorTypeCorrect`: `MonitorSpec => []MonitorTypeOK`.

`NoLostWakeup` needs that a thread between lock and unlock holds the mutex, and
that it also holds for the value a thread has loaded and is about to store
(`NoLostStore`). `SignalsAsserted` needs the same of its own: what a thread has
loaded under the mutex, and the number of threads a signal is for, is positive
(`StoresAsserted`).

For any threads of the application and any calls they make, among the operations
of the module (`Locks_proofs`; `CallerAssumption` says no more than that):

- `NoOtherCircles`: `LockSpec => []OnlyKnownCircles`;
- `JoinedThreadsWoken`: `LockSpec => []JoinedIsWoken`;
- `LocksTypeCorrect`: `LockSpec => []LocksTypeOK`.

The invariant `LockInv` looks at what each thread has still to do: the
instructions lead from the mutexes it holds now, counted as often as it locked
them, to holding none, and every instruction on the way takes a mutex or joins a
thread later in the order than all that is held, or is at one of the four known
places (`Path`). That each operation is such a path is a lemma per operation,
put together along the calls. A circle of threads, none of them at a known
place, would need each to wait for something later than the one before it, so
the one that waits for the last in the order waits for nobody.

For any sets of local and remote nodes and interfaces, the latter two finite
(`BonjourNodeDiscovery_proofs`):

- `BonjourStubs`, `BonjourListed`: `Spec => []StubsOfQueries` and
  `Spec => []ListedAreKnown`;
- `BonjourImplementsListing`: `Spec => BonjourListing`, the safety part of
  `NodeListing`;
- `BonjourStateIsValid`: `Spec => []ValidateState`, the descriptors are exactly
  those of the open operations;
- `BonjourFollowsNetwork`: `Spec => []QuietStubsPresent`.

The invariant `ListingInv` joins the types with these two. The refinement needs
it twice: a reply on the addresses of a node is `Added` only if the node is
known, which follows from the interface the reply is accepted on, and
withdrawing a node that is not known changes nothing only because it is not
listed either. A lemma for each callback says what it does to the stubs of one
query; the invariant and the refinement both rest on these. `ValidateState` is
proved kind by kind of operation (`OpenAreActive`), as a callback opens or closes
operations of its own kinds only. For `QuietStubsPresent` the invariant says what
the unread replies add up to: the last one on a node and an interface agrees with
the network, and without one the stub does (`Mirrors`).

For the same sets and Avahi (`AvahiMonitor_proofs`):

- `AvahiTypeCorrect`: `Spec => []AvahiTypeOK`;
- `AvahiStateIsValid`: `Spec => []AvahiValidateState`;
- `AvahiImplementsListing`: `Spec => AvahiListing`.

The invariant `AvahiInv` is the counterpart of `ListingInv`; it includes that
stubs and resolvers exist for browsing queries only.

For any managers, finite sets of services and filters, and any connections
between the managers, lost and found at any time (`ServiceManager_proofs`):

- `FindReturnsMatching`: `SvcSpec => []FoundMatches`;
- `SvcTypeCorrect`: `SvcSpec => []SvcTypeOK`;
- `QueriesReachEveryone`: `SvcSpec => []QuietQueriesKnown`;
- `StoppedQueriesForgotten`: `SvcStayingSpec => []QuietQueriesForgotten`, where
  `SvcStayingSpec` is `SvcSpec` without `Lose`: a stop that is lost with the
  connection leaves the query behind. `StoppedForgotten` of the run is the same
  for the scenarios without loss.

`FoundMatches` depends on what is underway: the invariant adds that every request
and every answer on the network fits the request it names (`Fitting`), that is,
a `serviceDisc` carries the filter its request was made with and a `response` a
service that filter matches. A request is named only once it was made, and keeps
its filter (`FindsKept`); it is sent only after it was remembered.
`SvcTypeCorrect` adds that a listener holds the object in `_remoteSvcDesc` only
while it is there. The two on queries need what is
underway to add up: the last message on a query to a manager that was greeted
says whether the query runs, and if there is none the manager knows it exactly
then (`Expects`, `RunningTold`, `StoppedTold`). Only the manager that asks sends
messages on its query (`OwnQueries`).

For any stubs, threads and number of calls (`Services_proofs`):

- `CallsReturnOwnReply`: `CallSpec => []OwnReply`;
- `LinkedCallsReturn`: `CallSpec => []QuietCallsReturned`.

The first rests on a thread having one request at a time, named by its number;
the second on a request that was made over a link in both directions being in
the inbox, among the replies of its stub, or replied to, because links are never
taken back.

For any files and any length of time (`Services_proofs`):

- `RescanAlwaysDue`: `DirSpec => []RescanDue`, from any first `_lastChecked`.
  During an update, what was read and no longer agrees with the directory has
  changed in this very second, unless the clock went on (`ReadOrNow`); that is why
  `updateEntries` must compare with `>=`.
- `ListenerAlwaysMirrors`: `DirSpec => []ListenerMirrors`, for a client that comes
  at any time. The invariant says for each file that the last notification
  underway on it decides whether the service knows it and the client was there to
  hear of it (`LastNote`).
- `DirTypeCorrect`: `DirSpec => []DirTypeOK`.

For any items, names and bands (`Services_proofs`):

- `ListsAlwaysInOrder`, `CurrentAlwaysInBand`, `CacheTypeCorrect`: the two
  properties and the type invariant of the cache always hold. That the neighbours
  found in the map are the ones to link needs that names within a band differ.

Only model-checked: all liveness properties, what listeners of a service query
have (`SettledListed`), `ElementIdsInverse`, the distances, and
`WaitForSubscribers`. Liveness under fairness and `ENABLED` are out of reach of
the prover, and so is what a recursive function computes for every input, which
`ElementIdsInverse` and `CacheDistancesLeast` are about. `AvahiTypeOK`,
`AvahiValidateState`, `ThreadsTypeOK`, `ServicesTypeOK` and `StoppedForgotten` of the MC modules
put the properties proved above of the components into the scenarios of the
runs. `SubscriptionsTracked` beyond growing networks is not proved: it holds there
for a subscriber at one remote node only, as a second node's subscription of the
same subscriber shares the entry of the first, and the run `publisher` has its
subscribers at one node. `PartsAttributedToSender` beyond settling networks is what
`wrong_sender` refutes; the run `node` checks it for scenarios of two nodes too,
where there is no other sender to mistake.

## 5. Not modelled

- The format of published messages, strings in a multipart message, and a `send`
  while suspended, which returns at once. `suspend` and `resume` of a subscriber on its own.
- Data races: lookups or insertions without the mutex that others hold in
  `ZeroMQNode::removeSubscriber`, `ServiceManager::find` and
  `ServiceStub::callStubMethod` are taken as one step; a race on a `std::map` has
  no outcome to state a property about. Reuse of descriptor numbers in Bonjour's
  `run`.
- Typed publishers and subscribers: serialisation with protobuf, sequential.
- The string operators of `ServiceFilter`; `addedToNode` and `removedFromNode` of
  a manager, which repeat `connect` for every service.
- `DirectoryListingService::get` reads one file. `SCache::run` and `pressure`
  call back into the application; `NBandCache::remove` is empty.
- `Node` and `Discovery` forward to what is modelled; `Factory` keeps prototypes.
- Base64, regular expressions and MD5: pure functions of strings, or wrappers of
  libraries.
- Code generators, language bindings, tools and the Java rendition of RPC, which
  sends the same messages as the C++ one.
- The Windows variants, logging, message formatting, and the vendored libraries,
  among them the Boost headers, which are by far most of the lines under the
  source directory. ZeroMQ, mDNSResponder, Avahi, the file system and the clock
  are modelled as far as the code uses them.
