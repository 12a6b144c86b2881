------------------------ MODULE BonjourNodeDiscovery ------------------------
(***************************************************************************)
(* Node discovery on top of Bonjour.  The discovery singleton registers    *)
(* the nodes of this process with the mDNS daemon and browses for remote   *)
(* nodes on their behalf.  A node that was announced is resolved to a host *)
(* and port, then to the addresses of that host on each network interface, *)
(* and handed to the listener of the query once it has an IPv4 address.    *)
(*                                                                         *)
(* Every handler holds the discovery mutex from its first to its last      *)
(* line, and the thread that dispatches the daemon's replies holds it      *)
(* around them, so each is one step.  The daemon is external: it queues    *)
(* what it has to say on each browse operation, may answer the other       *)
(* operations whenever they are open, and sets the MoreComing flag only on *)
(* a reply that another one follows.                                       *)
(*                                                                         *)
(* A node browses with one NodeQuery at a time, a new one whenever it is   *)
(* initialised or resumed, so queries are named by their node.             *)
(***************************************************************************)
EXTENDS Integers, Sequences, FiniteSets

CONSTANTS
    Node,       \* the nodes of this process
    Name,       \* the UUIDs of the remote nodes
    If,         \* the network interfaces
    IPv4        \* the pairs of a remote node and an interface it has an
                \* IPv4 address on

ASSUME InterfaceAssumption == IsFiniteSet(Name \X If) /\ IPv4 \subseteq Name \X If

VARIABLES
    localNodes,     \* the nodes registered with the daemon
    suspendedNodes, \* those to register again on resume
    isSuspended,
    queries,        \* the nodes that browse
    queryToNodes,   \* queryToNodes[q][n]: the BonjourNodeStub of n
    nodes,          \* nodes[q]: the _nodes of the query, those listed
    activeFDs,      \* the operations whose sockets are polled
    present,        \* the nodes on the network, by interface
    inbox           \* inbox[q]: the replies to q's browse operation

localVars == <<localNodes, suspendedNodes, isSuspended>>
vars == <<localNodes, suspendedNodes, isSuspended, queries, queryToNodes, nodes,
          activeFDs, present, inbox>>

(* The operations open at the daemon, each with a socket of its own.       *)
registerClient(m)      == <<"register", m>>
queryClient(q)         == <<"browse", q>>
resolveClient(q, n)    == <<"resolve", q, n>>
addrInfoClient(q, n, i) == <<"addrinfo", q, n, i>>

(* A stub knows the interfaces the node is announced on, those for which   *)
(* an answer on its IPv4 or IPv6 address arrived (the address, or that     *)
(* there is none), and its open operations.  It exists while it has an     *)
(* interface.                                                              *)
Stub == [ifs : SUBSET If, ipv4 : SUBSET If, ipv6 : SUBSET If,
         resolving : BOOLEAN, addrInfo : SUBSET If]

NoStub == [ifs |-> {}, ipv4 |-> {}, ipv6 |-> {}, resolving |-> FALSE, addrInfo |-> {}]

Known(stubs) == {n \in Name : stubs[n].ifs # {}}

(* The operations forgetRemoteNodesFDs closes for a stub.                  *)
Clients(q, n, stub) ==
    {c \in {resolveClient(q, n)} : stub.resolving}
        \cup {addrInfoClient(q, n, i) : i \in stub.addrInfo}

(* The replies the daemon has for a new browse operation: what is on the   *)
(* network, in any order.                                                  *)
Announcements ==
    {[k \in 1 .. Cardinality(present) |-> [name |-> s[k][1], if |-> s[k][2], add |-> TRUE]] :
        s \in {t \in [1 .. Cardinality(present) -> present] : \A j, k \in DOMAIN t : t[j] = t[k] => j = k}}

(* NodeQuery: the listener is told of a found node that is not listed, and *)
(* of a removed one.  No query of this system defers its notifications.    *)
QueryFound(q, n) == nodes[q] \cup {n}

(* Mutant: the node stays listed.                                          *)
QueryRemovedSilently(q, n) == nodes[q]

QueryRemoved(q, n) == nodes[q] \ {n}

Init ==
    /\ localNodes = {}
    /\ suspendedNodes = {}
    /\ isSuspended = FALSE
    /\ queries = {}
    /\ queryToNodes = [q \in Node |-> [n \in Name |-> NoStub]]
    /\ nodes = [q \in Node |-> {}]
    /\ activeFDs = {}
    /\ present = {}
    /\ inbox = [q \in Node |-> <<>>]

-----------------------------------------------------------------------------
(* The nodes of this process.                                              *)

Add(m) ==
    /\ m \notin localNodes
    /\ localNodes' = localNodes \cup {m}
    /\ activeFDs' = activeFDs \cup {registerClient(m)}
    /\ UNCHANGED <<suspendedNodes, isSuspended, queries, queryToNodes, nodes, present, inbox>>

Remove(m) ==
    /\ m \in localNodes
    /\ localNodes' = localNodes \ {m}
    /\ activeFDs' = activeFDs \ {registerClient(m)}
    /\ UNCHANGED <<suspendedNodes, isSuspended, queries, queryToNodes, nodes, present, inbox>>

Suspend ==
    /\ ~ isSuspended
    /\ isSuspended' = TRUE
    /\ suspendedNodes' = localNodes
    /\ localNodes' = {}
    /\ activeFDs' = activeFDs \ {registerClient(m) : m \in localNodes}
    /\ UNCHANGED <<queries, queryToNodes, nodes, present, inbox>>

(* The queries in new start to browse.                                     *)
StartBrowsing(new) ==
    /\ queries' = queries \cup new
    /\ nodes' = [q \in Node |-> IF q \in new THEN {} ELSE nodes[q]]
    /\ \E replies \in [new -> Announcements] :
            inbox' = [q \in Node |-> IF q \in new THEN replies[q] ELSE inbox[q]]
    /\ UNCHANGED queryToNodes

Browse(q) ==
    /\ q \notin queries
    /\ StartBrowsing({q})
    /\ activeFDs' = activeFDs \cup {queryClient(q)}
    /\ UNCHANGED <<localVars, present>>

(* Discovery resumes every node before it registers it again.  A node that *)
(* is suspended stopped browsing, and browses again.                       *)
Resume ==
    /\ isSuspended
    /\ isSuspended' = FALSE
    /\ suspendedNodes' = {}
    /\ localNodes' = localNodes \cup suspendedNodes
    /\ StartBrowsing(suspendedNodes \ queries)
    /\ activeFDs' = activeFDs \cup {registerClient(m) : m \in suspendedNodes}
                              \cup {queryClient(m) : m \in suspendedNodes}
    /\ UNCHANGED present

(* Mutant: the operations of the stubs stay in the set of descriptors.     *)
UnbrowseKeepingClients(q) ==
    /\ q \in queries
    /\ queries' = queries \ {q}
    /\ queryToNodes' = [queryToNodes EXCEPT ![q] = [n \in Name |-> NoStub]]
    /\ activeFDs' = activeFDs \ {queryClient(q)}
    /\ inbox' = [inbox EXCEPT ![q] = <<>>]
    /\ UNCHANGED <<localVars, nodes, present>>

Unbrowse(q) ==
    /\ q \in queries
    /\ queries' = queries \ {q}
    /\ queryToNodes' = [queryToNodes EXCEPT ![q] = [n \in Name |-> NoStub]]
    /\ activeFDs' = activeFDs
          \ ({queryClient(q)} \cup UNION {Clients(q, n, queryToNodes[q][n]) : n \in Name})
    /\ inbox' = [inbox EXCEPT ![q] = <<>>]
    /\ UNCHANGED <<localVars, nodes, present>>

-----------------------------------------------------------------------------
(* The callbacks.                                                          *)

(* The stub of a node announced on interface i.                            *)
(* Mutant: only the first interface is remembered.                         *)
AnnouncedFirst(stub, i) == IF stub.ifs = {} THEN [stub EXCEPT !.ifs = {i}] ELSE stub

Announced(stub, i) == [stub EXCEPT !.ifs = @ \cup {i}]

(* The stub of a node withdrawn from interface i.                          *)
(* Mutant: its addresses on the interface are kept.                        *)
WithoutInterfaceIndex(stub, i) ==
    LET left == [stub EXCEPT !.ifs = @ \ {i}]
    IN  IF left.ifs = {} THEN NoStub ELSE left

WithoutInterface(stub, i) ==
    LET left == [stub EXCEPT !.ifs = @ \ {i}, !.ipv4 = @ \ {i}, !.ipv6 = @ \ {i}]
    IN  IF left.ifs = {} THEN NoStub ELSE left

(* The stubs once those without a resolve client got one.                  *)
Resolving(stubs) ==
    [n \in Name |-> IF stubs[n].ifs # {} THEN [stubs[n] EXCEPT !.resolving = TRUE]
                                         ELSE stubs[n]]

BrowseReply(q, more) ==
    /\ inbox[q] # <<>>
    /\ more => Len(inbox[q]) > 1
    /\ inbox' = [inbox EXCEPT ![q] = Tail(@)]
    /\ LET reply == Head(inbox[q])
           n     == reply.name
           old   == queryToNodes[q][n]
           new   == IF reply.add THEN Announced(old, reply.if)
                                 ELSE WithoutInterface(old, reply.if)
           stubs == [queryToNodes[q] EXCEPT ![n] = new]
           after == IF more THEN stubs ELSE Resolving(stubs)
       IN  /\ queryToNodes' = [queryToNodes EXCEPT ![q] = after]
           /\ nodes' = [nodes EXCEPT ![q] = IF new = NoStub THEN QueryRemoved(q, n) ELSE @]
           /\ activeFDs' = (activeFDs \ {c \in Clients(q, n, old) : new = NoStub})
                 \cup {resolveClient(q, m) : m \in {m \in Name : after[m].resolving}}
    /\ UNCHANGED <<localVars, queries, present>>

(* The host of node n is known on interface i: ask for its addresses.  A   *)
(* client asking already is replaced.  The resolver has served its purpose *)
(* when no other reply follows.                                            *)
ServiceResolveReply(q, n, i, more) ==
    /\ queryToNodes[q][n].resolving
    /\ <<n, i>> \in present
    /\ more => \E j \in If \ {i} : <<n, j>> \in present
    /\ queryToNodes' = [queryToNodes EXCEPT ![q][n].addrInfo = @ \cup {i},
                                            ![q][n].resolving = more]
    /\ activeFDs' = (activeFDs \cup {addrInfoClient(q, n, i)})
                    \ {c \in {resolveClient(q, n)} : ~ more}
    /\ UNCHANGED <<localVars, queries, nodes, present, inbox>>

(* An answer on the addresses of n at interface i: its IPv4 or its IPv6    *)
(* address or that there is none, or an error.  The client is dropped once *)
(* both are known, and the query told of the node for every IPv4 address   *)
(* there is.  Answers on an interface the stub does not have are ignored.  *)
(* Mutant: the client is dropped when either is known.                     *)
AddrInfoReplyOnce(q, n, i, family) ==
    LET stub == queryToNodes[q][n]
        new  == [stub EXCEPT !.ipv4 = IF family = "IPv4" THEN @ \cup {i} ELSE @,
                             !.ipv6 = IF family = "IPv6" THEN @ \cup {i} ELSE @]
        both == i \in new.ipv4 \cup new.ipv6
    IN  /\ i \in stub.addrInfo
        /\ i \in stub.ifs
        /\ queryToNodes' = [queryToNodes EXCEPT ![q][n] =
                               IF both THEN [new EXCEPT !.addrInfo = @ \ {i}] ELSE new]
        /\ activeFDs' = activeFDs \ {c \in {addrInfoClient(q, n, i)} : both}
        /\ nodes' = [nodes EXCEPT ![q] =
                        IF \E j \in new.ipv4 : <<n, j>> \in IPv4 THEN QueryFound(q, n) ELSE @]
        /\ UNCHANGED <<localVars, queries, present, inbox>>

AddrInfoReply(q, n, i, family) ==
    LET stub == queryToNodes[q][n]
        new  == [stub EXCEPT !.ipv4 = IF family = "IPv4" THEN @ \cup {i} ELSE @,
                             !.ipv6 = IF family = "IPv6" THEN @ \cup {i} ELSE @]
        both == i \in new.ipv4 \cap new.ipv6
    IN  /\ i \in stub.addrInfo
        /\ i \in stub.ifs
        /\ queryToNodes' = [queryToNodes EXCEPT ![q][n] =
                               IF both THEN [new EXCEPT !.addrInfo = @ \ {i}] ELSE new]
        /\ activeFDs' = activeFDs \ {c \in {addrInfoClient(q, n, i)} : both}
        /\ nodes' = [nodes EXCEPT ![q] =
                        IF \E j \in new.ipv4 : <<n, j>> \in IPv4 THEN QueryFound(q, n) ELSE @]
        /\ UNCHANGED <<localVars, queries, present, inbox>>

-----------------------------------------------------------------------------
(* The network and the daemon.                                             *)

Tell(n, i, add) ==
    inbox' = [q \in Node |-> IF q \in queries
                             THEN Append(inbox[q], [name |-> n, if |-> i, add |-> add])
                             ELSE inbox[q]]

Appear(n, i) ==
    /\ <<n, i>> \notin present
    /\ present' = present \cup {<<n, i>>}
    /\ Tell(n, i, TRUE)
    /\ UNCHANGED <<localVars, queries, queryToNodes, nodes, activeFDs>>

Disappear(n, i) ==
    /\ <<n, i>> \in present
    /\ present' = present \ {<<n, i>>}
    /\ Tell(n, i, FALSE)
    /\ UNCHANGED <<localVars, queries, queryToNodes, nodes, activeFDs>>

Reply(q) ==
    \/ \E more \in BOOLEAN : BrowseReply(q, more)
    \/ \E n \in Name, i \in If :
          \/ \E more \in BOOLEAN : ServiceResolveReply(q, n, i, more)
          \/ \E family \in {"IPv4", "IPv6", "error"} : AddrInfoReply(q, n, i, family)

Next ==
    \/ \E m \in Node : Add(m) \/ Remove(m) \/ Browse(m) \/ Unbrowse(m) \/ Reply(m)
    \/ Suspend
    \/ Resume
    \/ \E n \in Name, i \in If : Appear(n, i) \/ Disappear(n, i)

Spec == Init /\ [][Next]_vars

(* The daemon answers what stays open, and ends what it announced with     *)
(* MoreComing; run() dispatches on every descriptor that is readable.      *)
Fairness ==
    \A q \in Node :
        /\ WF_vars(\E more \in BOOLEAN : BrowseReply(q, more))
        /\ \A n \in Name :
              /\ WF_vars(\E i \in If : ServiceResolveReply(q, n, i, FALSE))
              /\ \A i \in If : WF_vars(AddrInfoReply(q, n, i, "IPv4"))

-----------------------------------------------------------------------------
(* Properties.                                                             *)

BonjourTypeOK ==
    /\ localNodes \subseteq Node
    /\ suspendedNodes \subseteq Node
    /\ isSuspended \in BOOLEAN
    /\ queries \subseteq Node
    /\ queryToNodes \in [Node -> [Name -> Stub]]
    /\ nodes \in [Node -> SUBSET Name]
    /\ present \subseteq Name \X If
    /\ inbox \in [Node -> Seq([name : Name, if : If, add : BOOLEAN])]

(* validateState(): the descriptors that run() polls are exactly those of  *)
(* the open operations.  No operation of a forgotten stub, query or node   *)
(* is left in the set, where its callback would be handed a dangling       *)
(* address, and none is missing, which would never be answered.            *)
ValidateState ==
    activeFDs = {registerClient(m) : m \in localNodes}
        \cup {queryClient(q) : q \in queries}
        \cup UNION {Clients(q, n, queryToNodes[q][n]) : q \in Node, n \in Name}

(* serviceResolveReply, addrInfoReply and browseReply: stubs are held and  *)
(* answers awaited only for a query that browses, a stub is forgotten with *)
(* its last interface, and its addresses are of interfaces it has.         *)
StubsOfQueries ==
    \A q \in Node, n \in Name :
        LET stub == queryToNodes[q][n]
        IN  /\ q \notin queries => stub = NoStub /\ inbox[q] = <<>>
            /\ stub.ifs = {} => stub = NoStub
            /\ stub.ipv4 \cup stub.ipv6 \subseteq stub.ifs

(* NodeQuery::found and removed: the listener holds a node only while the  *)
(* stub it was handed is the one discovery still maintains.                *)
ListedAreKnown ==
    \A q \in queries : nodes[q] \subseteq Known(queryToNodes[q])

(* browseReply: when the daemon has nothing more to tell a query, the stubs *)
(* it holds are of the nodes on the network, each on its interfaces, even  *)
(* if they came and went while earlier replies were waiting.               *)
QuietStubsPresent ==
    \A q \in queries : inbox[q] = <<>> =>
        \A n \in Name : queryToNodes[q][n].ifs = {i \in If : <<n, i>> \in present}

(* BonjourNodeStub::getIP asserts that an IPv4 address was resolved.  The  *)
(* listener calls it on any node it was handed and not told to drop, when  *)
(* a publisher of that node is announced.                                  *)
ListedHaveAddress ==
    \A q \in queries : \A n \in nodes[q] : queryToNodes[q][n].ipv4 # {}

Reachable == {n \in Name : \A i \in If : <<n, i>> \in IPv4}

Listing == INSTANCE NodeListing WITH
    Query  <- Node,
    known  <- [q \in Node |-> Known(queryToNodes[q])],
    listed <- [q \in Node |-> IF q \in queries THEN nodes[q] ELSE {}]

(* browseReply, addrInfoReply and unbrowse, on behalf of NodeQuery: a      *)
(* listener is told of a node only while the daemon announces it, and      *)
(* loses it in the step that withdraws its last interface.                 *)
BonjourListing == Listing!Safety

(* A node with an IPv4 address on every interface does not stay announced  *)
(* to a query without the listener being told of it.                       *)
BonjourEventuallyListed == Listing!EventuallyListed
=============================================================================
