------------------------- MODULE AvahiNodeDiscovery -------------------------
(***************************************************************************)
(* Node discovery on top of Avahi.  The nodes of this process and their    *)
(* queries each have a client at the Avahi daemon.  A service is announced *)
(* and withdrawn for every interface and protocol by itself, and resolved  *)
(* to an address by a resolver of its own; the listener of the query is    *)
(* handed the node once it has an IPv4 address.                            *)
(*                                                                         *)
(* As with Bonjour every handler is one step under the discovery mutex,    *)
(* and a query is named by the node that browses with it.                  *)
(***************************************************************************)
EXTENDS Integers, Sequences, FiniteSets

CONSTANTS
    Node,       \* the nodes of this process
    Name,       \* the UUIDs of the remote nodes
    If,         \* the network interfaces
    IPv4        \* the pairs of a remote node and an interface it has an
                \* IPv4 address on

VARIABLES
    localNodes,     \* _nodes, the nodes added to discovery
    suspendedNodes, \* those to add again on resume
    isSuspended,
    avahiClients,   \* the clients of nodes and queries
    avahiGroups,    \* the nodes whose entry group was established
    queries,        \* _browsers, the nodes that browse
    queryNodes,     \* queryNodes[q][n]: the AvahiNodeStub of n
    nodes,          \* nodes[q]: the _nodes of the query, those listed
    resolvers,      \* resolvers[q][s]: the resolvers for announcement s
    present,        \* what is announced on the network
    inbox           \* inbox[q]: the events for q's service browser

localVars == <<localNodes, suspendedNodes, isSuspended, avahiGroups>>
vars == <<localNodes, suspendedNodes, isSuspended, avahiClients, avahiGroups, queries,
          queryNodes, nodes, resolvers, present, inbox>>

nodeClient(m)  == <<"node", m>>
queryClient(q) == <<"query", q>>

Protocol == {"INET", "INET6"}
Service  == [name : Name, if : If, protocol : Protocol]

(* A stub exists while it has an interface index.                          *)
Stub == [ifs : SUBSET If, ipv4 : SUBSET If, ipv6 : SUBSET If]

NoStub == [ifs |-> {}, ipv4 |-> {}, ipv6 |-> {}]

Known(stubs) == {n \in Name : stubs[n].ifs # {}}

(* The events for a new service browser: what is announced, in any order.  *)
Announcements ==
    {[k \in 1 .. Cardinality(present) |-> [service |-> s[k], new |-> TRUE]] :
        s \in {t \in [1 .. Cardinality(present) -> present] : \A j, k \in DOMAIN t : t[j] = t[k] => j = k}}

(* NodeQuery: the listener is told of a found node that is not listed, and *)
(* of a removed one.  No query of this system defers its notifications.    *)
QueryFound(q, n) == nodes[q] \cup {n}

(* Mutant: the node stays listed.                                          *)
QueryRemovedSilently(q, n) == nodes[q]

QueryRemoved(q, n) == nodes[q] \ {n}

Init ==
    /\ localNodes = {}
    /\ suspendedNodes = {}
    /\ isSuspended = FALSE
    /\ avahiClients = {}
    /\ avahiGroups = {}
    /\ queries = {}
    /\ queryNodes = [q \in Node |-> [n \in Name |-> NoStub]]
    /\ nodes = [q \in Node |-> {}]
    /\ resolvers = [q \in Node |-> [s \in Service |-> 0]]
    /\ present = {}
    /\ inbox = [q \in Node |-> <<>>]

-----------------------------------------------------------------------------
(* The nodes of this process.                                              *)

(* avahi_client_new calls clientCallback right away: the entry groups of   *)
(* the new clients are established if the server is running by then.       *)
Established(new) == \E running \in BOOLEAN : avahiGroups' = IF running THEN avahiGroups \cup new
                                                                       ELSE avahiGroups

Add(m) ==
    /\ m \notin localNodes
    /\ localNodes' = localNodes \cup {m}
    /\ avahiClients' = avahiClients \cup {nodeClient(m)}
    /\ Established({m})
    /\ UNCHANGED <<suspendedNodes, isSuspended, queries, queryNodes, nodes, resolvers, present, inbox>>

(* The server is running: establish the entry group.                       *)
ClientCallback(m) ==
    /\ m \in localNodes \ avahiGroups
    /\ avahiGroups' = avahiGroups \cup {m}
    /\ UNCHANGED <<localNodes, suspendedNodes, isSuspended, avahiClients, queries, queryNodes,
                   nodes, resolvers, present, inbox>>

Remove(m) ==
    /\ nodeClient(m) \in avahiClients
    /\ avahiClients' = avahiClients \ {nodeClient(m)}
    /\ avahiGroups' = avahiGroups \ {m}
    /\ localNodes' = localNodes \ {m}
    /\ UNCHANGED <<suspendedNodes, isSuspended, queries, queryNodes, nodes, resolvers, present, inbox>>

Suspend ==
    /\ ~ isSuspended
    /\ isSuspended' = TRUE
    /\ suspendedNodes' = localNodes
    /\ localNodes' = {}
    /\ avahiClients' = avahiClients \ {nodeClient(m) : m \in localNodes}
    /\ avahiGroups' = avahiGroups \ localNodes
    /\ UNCHANGED <<queries, queryNodes, nodes, resolvers, present, inbox>>

(* The queries in new start to browse.                                     *)
StartBrowsing(new) ==
    /\ queries' = queries \cup new
    /\ nodes' = [q \in Node |-> IF q \in new THEN {} ELSE nodes[q]]
    /\ \E events \in [new -> Announcements] :
            inbox' = [q \in Node |-> IF q \in new THEN events[q] ELSE inbox[q]]
    /\ UNCHANGED <<queryNodes, resolvers>>

Browse(q) ==
    /\ q \notin queries
    /\ StartBrowsing({q})
    /\ avahiClients' = avahiClients \cup {queryClient(q)}
    /\ UNCHANGED <<localVars, present>>

(* A node that is suspended stopped browsing, and browses again before it  *)
(* is added.                                                               *)
Resume ==
    /\ isSuspended
    /\ isSuspended' = FALSE
    /\ suspendedNodes' = {}
    /\ localNodes' = localNodes \cup suspendedNodes
    /\ StartBrowsing(suspendedNodes \ queries)
    /\ avahiClients' = avahiClients \cup {nodeClient(m) : m \in suspendedNodes}
                                    \cup {queryClient(m) : m \in suspendedNodes}
    /\ Established(suspendedNodes \ localNodes)
    /\ UNCHANGED present

(* Freeing the client frees its resolvers.                                 *)
(* Mutant: the stubs found for the query stay.                             *)
UnbrowseKeepingNodes(q) ==
    /\ queryClient(q) \in avahiClients
    /\ avahiClients' = avahiClients \ {queryClient(q)}
    /\ queries' = queries \ {q}
    /\ resolvers' = [resolvers EXCEPT ![q] = [s \in Service |-> 0]]
    /\ inbox' = [inbox EXCEPT ![q] = <<>>]
    /\ UNCHANGED <<localVars, queryNodes, nodes, present>>

Unbrowse(q) ==
    /\ queryClient(q) \in avahiClients
    /\ avahiClients' = avahiClients \ {queryClient(q)}
    /\ queries' = queries \ {q}
    /\ queryNodes' = [queryNodes EXCEPT ![q] = [n \in Name |-> NoStub]]
    /\ resolvers' = [resolvers EXCEPT ![q] = [s \in Service |-> 0]]
    /\ inbox' = [inbox EXCEPT ![q] = <<>>]
    /\ UNCHANGED <<localVars, nodes, present>>

-----------------------------------------------------------------------------
(* The callbacks.                                                          *)

(* Only the interface a node is first announced on is remembered.          *)
Announced(stub, s) == IF stub.ifs = {} THEN [stub EXCEPT !.ifs = {s.if}] ELSE stub

Withdrawn(stub, s) ==
    LET i    == s.if
        left == [stub EXCEPT !.ipv4 = IF s.protocol = "INET" THEN @ \ {i} ELSE @,
                             !.ipv6 = IF s.protocol = "INET6" THEN @ \ {i} ELSE @]
    IN  IF i \in left.ipv4 \cup left.ipv6 THEN left
        ELSE IF left.ifs \subseteq {i} THEN NoStub
        ELSE [left EXCEPT !.ifs = @ \ {i}]

BrowseCallback(q) ==
    /\ inbox[q] # <<>>
    /\ inbox' = [inbox EXCEPT ![q] = Tail(@)]
    /\ LET s   == Head(inbox[q]).service
           n   == s.name
           new == IF Head(inbox[q]).new THEN Announced(queryNodes[q][n], s)
                                        ELSE Withdrawn(queryNodes[q][n], s)
       IN  /\ queryNodes' = [queryNodes EXCEPT ![q][n] = new]
           /\ nodes' = [nodes EXCEPT ![q] = IF new = NoStub THEN QueryRemoved(q, n) ELSE @]
           /\ resolvers' = IF Head(inbox[q]).new
                           THEN [resolvers EXCEPT ![q][s] = @ + 1] ELSE resolvers
    /\ UNCHANGED <<localVars, avahiClients, queries, present>>

(* The resolver for s found an address or failed.  What it finds for a     *)
(* node that vanished in between is ignored, and the resolver kept.  An    *)
(* IPv6 address reported for the IPv4 protocol is not recorded.            *)
(* Mutant: a resolver is called back and freed again.                      *)
ResolveCallbackAgain(q, s, found) ==
    LET n    == s.name
        stub == queryNodes[q][n]
        new  == [stub EXCEPT !.ipv4 = IF s.protocol = "INET" /\ <<n, s.if>> \in IPv4
                                      THEN @ \cup {s.if} ELSE @,
                             !.ipv6 = IF s.protocol = "INET6" THEN @ \cup {s.if} ELSE @]
    IN  /\ stub.ifs # {}
        /\ resolvers' = [resolvers EXCEPT ![q][s] = @ - 1]
        /\ queryNodes' = [queryNodes EXCEPT ![q][n] = IF found THEN new ELSE stub]
        /\ nodes' = [nodes EXCEPT ![q] = IF found /\ new.ipv4 # {} THEN QueryFound(q, n) ELSE @]
        /\ UNCHANGED <<localVars, avahiClients, queries, present, inbox>>

ResolveCallback(q, s, found) ==
    LET n    == s.name
        stub == queryNodes[q][n]
        new  == [stub EXCEPT !.ipv4 = IF s.protocol = "INET" /\ <<n, s.if>> \in IPv4
                                      THEN @ \cup {s.if} ELSE @,
                             !.ipv6 = IF s.protocol = "INET6" THEN @ \cup {s.if} ELSE @]
    IN  /\ resolvers[q][s] > 0
        /\ stub.ifs # {}
        /\ resolvers' = [resolvers EXCEPT ![q][s] = @ - 1]
        /\ queryNodes' = [queryNodes EXCEPT ![q][n] = IF found THEN new ELSE stub]
        /\ nodes' = [nodes EXCEPT ![q] = IF found /\ new.ipv4 # {} THEN QueryFound(q, n) ELSE @]
        /\ UNCHANGED <<localVars, avahiClients, queries, present, inbox>>

-----------------------------------------------------------------------------
(* The network and the daemon.                                             *)

Tell(s, new) ==
    inbox' = [q \in Node |-> IF q \in queries
                             THEN Append(inbox[q], [service |-> s, new |-> new])
                             ELSE inbox[q]]

Appear(s) ==
    /\ s \notin present
    /\ present' = present \cup {s}
    /\ Tell(s, TRUE)
    /\ UNCHANGED <<localVars, avahiClients, queries, queryNodes, nodes, resolvers>>

Disappear(s) ==
    /\ s \in present
    /\ present' = present \ {s}
    /\ Tell(s, FALSE)
    /\ UNCHANGED <<localVars, avahiClients, queries, queryNodes, nodes, resolvers>>

Next ==
    \/ \E m \in Node :
          \/ Add(m) \/ ClientCallback(m) \/ Remove(m)
          \/ Browse(m) \/ Unbrowse(m) \/ BrowseCallback(m)
          \/ \E s \in Service, found \in BOOLEAN : ResolveCallback(m, s, found)
    \/ Suspend
    \/ Resume
    \/ \E s \in Service : Appear(s) \/ Disappear(s)

Spec == Init /\ [][Next]_vars

-----------------------------------------------------------------------------
(* Properties.                                                             *)

AvahiTypeOK ==
    /\ localNodes \subseteq Node
    /\ suspendedNodes \subseteq Node
    /\ isSuspended \in BOOLEAN
    /\ avahiGroups \subseteq Node
    /\ queries \subseteq Node
    /\ queryNodes \in [Node -> [Name -> Stub]]
    /\ nodes \in [Node -> SUBSET Name]
    /\ resolvers \in [Node -> [Service -> Nat]]
    /\ present \subseteq Service
    /\ inbox \in [Node -> Seq([service : Service, new : BOOLEAN])]

(* validateState(): the clients are those of the nodes and queries, and    *)
(* every entry group belongs to a node.  Beyond what the code asserts, a   *)
(* query that does not browse holds neither stubs nor resolvers, whose     *)
(* callbacks look the query up by its address.                             *)
AvahiValidateState ==
    /\ avahiClients = {nodeClient(m) : m \in localNodes} \cup {queryClient(q) : q \in queries}
    /\ avahiGroups \subseteq localNodes
    /\ \A q \in Node \ queries :
          Known(queryNodes[q]) = {} /\ \A s \in Service : resolvers[q][s] = 0

(* browseCallback: when the daemon has nothing more to tell a query, the   *)
(* nodes it knows are those on the network: a node vanishes with its last  *)
(* announcement, not before.                                               *)
QuietNodesPresent ==
    \A q \in queries : inbox[q] = <<>> =>
        Known(queryNodes[q]) = {s.name : s \in present}

Listing == INSTANCE NodeListing WITH
    Query     <- Node,
    Reachable <- {},
    known     <- [q \in Node |-> Known(queryNodes[q])],
    listed    <- [q \in Node |-> IF q \in queries THEN nodes[q] ELSE {}]

(* browseCallback, resolveCallback and unbrowse, on behalf of NodeQuery: a *)
(* listener is told of a node only while discovery knows it, and loses it  *)
(* in the step that forgets it.                                            *)
AvahiListing == Listing!Safety
=============================================================================
