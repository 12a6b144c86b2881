--------------------- MODULE BonjourNodeDiscovery_proofs ---------------------
(***************************************************************************)
(* Bonjour discovery keeps the listener of a query in step with the stubs  *)
(* it maintains, for any number of nodes, queries and interfaces, and so   *)
(* implements the safety part of NodeListing.  The client of a node stays  *)
(* active while operations on it are open (OpenAreActive), and the replies *)
(* a query has not read add up to the services on the network (Mirrors).   *)
(***************************************************************************)
EXTENDS BonjourNodeDiscovery, FiniteSetTheorems, TLAPS

ReplyType == [name : Name, if : If, add : BOOLEAN]

(* What StubsOfQueries says of one stub.                                   *)
Sound(stub) ==
    /\ stub \in Stub
    /\ stub.ifs = {} => stub = NoStub
    /\ stub.ipv4 \cup stub.ipv6 \subseteq stub.ifs

(* The inductive invariant: the types, sound stubs only for queries that   *)
(* browse, and listed nodes only among the known ones.                     *)
ListingInv ==
    /\ BonjourTypeOK
    /\ StubsOfQueries
    /\ ListedAreKnown

-----------------------------------------------------------------------------
(* Stubs.                                                                  *)

LEMMA NoStubSound == Sound(NoStub)
BY DEF Sound, NoStub, Stub

LEMMA SoundStubs ==
    ASSUME ListingInv, NEW q \in Node, NEW n \in Name
    PROVE  Sound(queryToNodes[q][n])
BY DEF ListingInv, BonjourTypeOK, StubsOfQueries, Sound

LEMMA AnnouncedSound ==
    ASSUME NEW stub, Sound(stub), NEW i \in If
    PROVE  /\ Sound(Announced(stub, i))
           /\ Announced(stub, i).ifs = stub.ifs \cup {i}
BY DEF Sound, Stub, Announced, NoStub

LEMMA WithoutInterfaceSound ==
    ASSUME NEW stub, Sound(stub), NEW i \in If
    PROVE  /\ Sound(WithoutInterface(stub, i))
           /\ WithoutInterface(stub, i).ifs = stub.ifs \ {i}
<1> DEFINE left == [stub EXCEPT !.ifs = @ \ {i}, !.ipv4 = @ \ {i}, !.ipv6 = @ \ {i}]
<1>1. /\ left \in Stub
      /\ left.ifs = stub.ifs \ {i} /\ left.ipv4 = stub.ipv4 \ {i} /\ left.ipv6 = stub.ipv6 \ {i}
  BY Zenon DEF Sound, Stub
<1> HIDE DEF left
<1>2. WithoutInterface(stub, i) = IF left.ifs = {} THEN NoStub ELSE left
  BY DEF WithoutInterface, left
<1>3. CASE left.ifs = {}
  BY <1>1, <1>2, <1>3, NoStubSound DEF NoStub
<1>4. CASE left.ifs # {}
  BY <1>1, <1>2, <1>4 DEF Sound
<1> QED
  BY <1>3, <1>4

LEMMA ResolvingSound ==
    ASSUME NEW stubs, \A n \in Name : Sound(stubs[n]), NEW n \in Name
    PROVE  /\ Sound(Resolving(stubs)[n])
           /\ Resolving(stubs)[n].ifs = stubs[n].ifs
BY Zenon DEF Sound, Stub, Resolving

(* What the invariant asks of the next state, for the stubs of one query.  *)
LEMMA NewStubs ==
    ASSUME ListingInv, NEW q \in queries, NEW stubs, stubs \in [Name -> Stub],
           \A n \in Name : Sound(stubs[n]),
           queryToNodes' = [queryToNodes EXCEPT ![q] = stubs],
           nodes' \in [Node -> SUBSET Name], nodes'[q] \subseteq Known(stubs),
           \A r \in Node \ {q} : nodes'[r] = nodes[r] /\ inbox'[r] = inbox[r],
           inbox' \in [Node -> Seq(ReplyType)],
           UNCHANGED <<localNodes, suspendedNodes, isSuspended, queries, present>>
    PROVE  ListingInv'
<1>1. BonjourTypeOK'
  BY Zenon DEF ListingInv, BonjourTypeOK, ReplyType
<1>2. \A r \in Node : queryToNodes'[r] = IF r = q THEN stubs ELSE queryToNodes[r]
  BY DEF ListingInv, BonjourTypeOK
<1>3. StubsOfQueries'
  BY <1>2 DEF ListingInv, StubsOfQueries, Sound
<1>4. ListedAreKnown'
  <2> SUFFICES ASSUME NEW r \in queries PROVE nodes'[r] \subseteq Known(queryToNodes'[r])
    BY DEF ListedAreKnown
  <2>1. r \in Node
    BY DEF ListingInv, BonjourTypeOK
  <2> QED
    BY <1>2, <2>1 DEF ListingInv, ListedAreKnown
<1> QED
  BY <1>1, <1>3, <1>4 DEF ListingInv

-----------------------------------------------------------------------------
(* Each action preserves the invariant.                                    *)

(* Registering and unregistering the nodes of this process does not touch  *)
(* the queries.                                                            *)
LEMMA LocalInv ==
    ASSUME ListingInv,
           \/ \E m \in Node : Add(m) \/ Remove(m)
           \/ Suspend
           \/ UNCHANGED vars
    PROVE  ListingInv'
<1>1. /\ UNCHANGED <<queries, queryToNodes, nodes, present, inbox>>
      /\ localNodes' \subseteq Node /\ suspendedNodes' \subseteq Node /\ isSuspended' \in BOOLEAN
  BY Zenon DEF ListingInv, BonjourTypeOK, Add, Remove, Suspend, vars
<1> QED
  BY <1>1, Zenon DEF ListingInv, BonjourTypeOK, StubsOfQueries, ListedAreKnown

LEMMA AnnouncementsType ==
    ASSUME BonjourTypeOK
    PROVE  Announcements \subseteq Seq(ReplyType)
<1> SUFFICES ASSUME NEW r \in Announcements PROVE r \in Seq(ReplyType)
  OBVIOUS
<1>1. IsFiniteSet(present)
  BY InterfaceAssumption, FS_Subset DEF BonjourTypeOK
<1>2. Cardinality(present) \in Nat
  BY <1>1, FS_CardinalityType
<1>3. PICK s \in [1 .. Cardinality(present) -> present] :
          r = [k \in 1 .. Cardinality(present) |-> [name |-> s[k][1], if |-> s[k][2], add |-> TRUE]]
  BY DEF Announcements
<1>4. \A k \in 1 .. Cardinality(present) : [name |-> s[k][1], if |-> s[k][2], add |-> TRUE] \in ReplyType
  BY DEF ReplyType, BonjourTypeOK
<1> QED
  BY <1>2, <1>3, <1>4

LEMMA StartBrowsingInv ==
    ASSUME ListingInv, NEW new \in SUBSET (Node \ queries), StartBrowsing(new),
           localNodes' \subseteq Node, suspendedNodes' \subseteq Node, isSuspended' \in BOOLEAN,
           UNCHANGED present
    PROVE  ListingInv'
<1>1. PICK replies \in [new -> Announcements] :
          inbox' = [q \in Node |-> IF q \in new THEN replies[q] ELSE inbox[q]]
  BY DEF StartBrowsing
<1>2. inbox' \in [Node -> Seq(ReplyType)]
  BY <1>1, AnnouncementsType, Zenon DEF ListingInv, BonjourTypeOK, ReplyType
<1>3. BonjourTypeOK'
  BY <1>2, Zenon DEF ListingInv, BonjourTypeOK, StartBrowsing, ReplyType
<1>4. StubsOfQueries'
  BY <1>1 DEF ListingInv, StubsOfQueries, StartBrowsing
<1>5. ListedAreKnown'
  BY DEF ListingInv, BonjourTypeOK, ListedAreKnown, StartBrowsing
<1> QED
  BY <1>3, <1>4, <1>5 DEF ListingInv

LEMMA BrowseInv ==
    ASSUME ListingInv, \/ \E q \in Node : Browse(q)
                       \/ Resume
    PROVE  ListingInv'
<1>1. CASE \E q \in Node : Browse(q)
  <2>1. PICK q \in Node : Browse(q)
    BY <1>1
  <2>2. /\ {q} \in SUBSET (Node \ queries)
        /\ localNodes' \subseteq Node /\ suspendedNodes' \subseteq Node /\ isSuspended' \in BOOLEAN
    BY <2>1 DEF Browse, ListingInv, BonjourTypeOK, localVars
  <2> QED
    BY <2>1, <2>2, StartBrowsingInv DEF Browse
<1>2. CASE Resume
  <2>1. /\ suspendedNodes \ queries \in SUBSET (Node \ queries)
        /\ localNodes' \subseteq Node /\ suspendedNodes' \subseteq Node /\ isSuspended' \in BOOLEAN
    BY <1>2, Zenon DEF Resume, ListingInv, BonjourTypeOK
  <2> QED
    BY <1>2, <2>1, StartBrowsingInv DEF Resume
<1> QED
  BY <1>1, <1>2

LEMMA UnbrowseInv ==
    ASSUME ListingInv, NEW q \in Node, Unbrowse(q)
    PROVE  ListingInv'
<1>1. /\ queries' = queries \ {q}
      /\ queryToNodes' = [queryToNodes EXCEPT ![q] = [n \in Name |-> NoStub]]
      /\ inbox' = [inbox EXCEPT ![q] = <<>>]
      /\ UNCHANGED <<localNodes, suspendedNodes, isSuspended, nodes, present>>
  BY DEF Unbrowse, localVars
<1>2. NoStub \in Stub
  BY NoStubSound DEF Sound
<1>3. BonjourTypeOK'
  <2>1. [n \in Name |-> NoStub] \in [Name -> Stub]
    BY <1>2
  <2>2. queryToNodes' \in [Node -> [Name -> Stub]]
    BY <1>1, <2>1 DEF ListingInv, BonjourTypeOK
  <2>3. <<>> \in Seq([name : Name, if : If, add : BOOLEAN])
    OBVIOUS
  <2>4. inbox' \in [Node -> Seq([name : Name, if : If, add : BOOLEAN])]
    BY <1>1, <2>3, Zenon DEF ListingInv, BonjourTypeOK
  <2> QED
    BY <1>1, <2>2, <2>4, Zenon DEF ListingInv, BonjourTypeOK
<1>4. StubsOfQueries'
  BY <1>1, NoStubSound DEF ListingInv, BonjourTypeOK, StubsOfQueries, Sound
<1>5. ListedAreKnown'
  BY <1>1 DEF ListingInv, BonjourTypeOK, ListedAreKnown
<1> QED
  BY <1>3, <1>4, <1>5 DEF ListingInv

LEMMA NetworkInv ==
    ASSUME ListingInv, NEW n \in Name, NEW i \in If, Appear(n, i) \/ Disappear(n, i)
    PROVE  ListingInv'
<1>1. PICK add \in BOOLEAN : Tell(n, i, add)
  BY Zenon DEF Appear, Disappear
<1>2. inbox' \in [Node -> Seq(ReplyType)]
  <2>1. [name |-> n, if |-> i, add |-> add] \in ReplyType
    BY DEF ReplyType
  <2>2. inbox \in [Node -> Seq(ReplyType)]
    BY Zenon DEF ListingInv, BonjourTypeOK, ReplyType
  <2>3. \A q \in Node : Append(inbox[q], [name |-> n, if |-> i, add |-> add]) \in Seq(ReplyType)
    BY <2>1, <2>2
  <2> QED
    BY <1>1, <2>2, <2>3 DEF Tell
<1>3. /\ present' \subseteq Name \X If
      /\ UNCHANGED <<localNodes, suspendedNodes, isSuspended, queries, queryToNodes, nodes>>
  <2>1. /\ present' = present \cup {<<n, i>>} \/ present' = present \ {<<n, i>>}
        /\ UNCHANGED <<localVars, queries, queryToNodes, nodes>>
    BY Zenon DEF Appear, Disappear
  <2>2. <<n, i>> \in Name \X If /\ present \subseteq Name \X If
    BY DEF ListingInv, BonjourTypeOK
  <2>3. present' \subseteq Name \X If
    BY <2>1, <2>2, Zenon
  <2> QED
    BY <2>1, <2>3 DEF localVars
<1>4. BonjourTypeOK'
  BY <1>2, <1>3, Zenon DEF ListingInv, BonjourTypeOK, ReplyType
<1>5. StubsOfQueries'
  BY <1>1, <1>3 DEF ListingInv, StubsOfQueries, Tell
<1>6. ListedAreKnown'
  BY <1>3 DEF ListingInv, ListedAreKnown
<1> QED
  BY <1>4, <1>5, <1>6 DEF ListingInv

(* The reply at the head of a query's inbox, and the stubs browseReply     *)
(* makes of it: only the node of the reply changes its interfaces.         *)
BrowsedStub(q) ==
    LET reply == Head(inbox[q])
    IN  IF reply.add THEN Announced(queryToNodes[q][reply.name], reply.if)
                     ELSE WithoutInterface(queryToNodes[q][reply.name], reply.if)

BrowsedStubs(q, more) ==
    LET stubs == [queryToNodes[q] EXCEPT ![Head(inbox[q]).name] = BrowsedStub(q)]
    IN  IF more THEN stubs ELSE Resolving(stubs)

LEMMA BrowseReplyFacts ==
    ASSUME ListingInv, NEW q \in Node, NEW more \in BOOLEAN, BrowseReply(q, more)
    PROVE  /\ q \in queries
           /\ Head(inbox[q]) \in ReplyType
           /\ inbox' \in [Node -> Seq(ReplyType)]
           /\ \A r \in Node \ {q} : inbox'[r] = inbox[r]
<1>1. inbox[q] \in Seq(ReplyType) /\ inbox[q] # <<>>
  BY Zenon DEF ListingInv, BonjourTypeOK, ReplyType, BrowseReply
<1>2. Head(inbox[q]) \in ReplyType /\ Tail(inbox[q]) \in Seq(ReplyType)
  BY <1>1
<1>3. q \in queries
  <2>1. Head(inbox[q]).name \in Name
    BY <1>2 DEF ReplyType
  <2> QED
    BY <1>1, <2>1 DEF ListingInv, StubsOfQueries
<1>4. inbox' = [inbox EXCEPT ![q] = Tail(inbox[q])]
  BY Zenon DEF BrowseReply
<1>5. inbox \in [Node -> Seq(ReplyType)]
  BY Zenon DEF ListingInv, BonjourTypeOK, ReplyType
<1> QED
  BY <1>2, <1>3, <1>4, <1>5

LEMMA BrowsedStubFacts ==
    ASSUME ListingInv, NEW q \in Node, Head(inbox[q]) \in ReplyType
    PROVE  LET reply == Head(inbox[q])
               old   == queryToNodes[q][reply.name].ifs
           IN  /\ Sound(BrowsedStub(q))
               /\ BrowsedStub(q).ifs = IF reply.add THEN old \cup {reply.if} ELSE old \ {reply.if}
               /\ BrowsedStub(q) = NoStub <=> BrowsedStub(q).ifs = {}
<1> DEFINE reply == Head(inbox[q])
<1>1. reply.name \in Name /\ reply.if \in If /\ reply.add \in BOOLEAN
  BY DEF ReplyType
<1> HIDE DEF reply
<1>2. Sound(queryToNodes[q][reply.name])
  BY <1>1, SoundStubs
<1>3. BrowsedStub(q) = IF reply.add THEN Announced(queryToNodes[q][reply.name], reply.if)
                                    ELSE WithoutInterface(queryToNodes[q][reply.name], reply.if)
  BY DEF BrowsedStub, reply
<1>4. /\ Sound(BrowsedStub(q))
      /\ BrowsedStub(q).ifs = IF reply.add THEN queryToNodes[q][reply.name].ifs \cup {reply.if}
                                           ELSE queryToNodes[q][reply.name].ifs \ {reply.if}
  <2>1. CASE reply.add
    <3>1. BrowsedStub(q) = Announced(queryToNodes[q][reply.name], reply.if)
      BY <1>3, <2>1
    <3> QED
      BY <1>1, <1>2, <2>1, <3>1, AnnouncedSound
  <2>2. CASE ~ reply.add
    <3>1. BrowsedStub(q) = WithoutInterface(queryToNodes[q][reply.name], reply.if)
      BY <1>3, <2>2
    <3> QED
      BY <1>1, <1>2, <2>2, <3>1, WithoutInterfaceSound
  <2> QED
    BY <2>1, <2>2
<1>5. BrowsedStub(q) = NoStub <=> BrowsedStub(q).ifs = {}
  BY <1>4 DEF Sound, NoStub
<1> QED
  BY <1>4, <1>5, Zenon DEF reply

LEMMA BrowsedStubsFacts ==
    ASSUME ListingInv, NEW q \in Node, NEW more \in BOOLEAN, Head(inbox[q]) \in ReplyType
    PROVE  /\ BrowsedStubs(q, more) \in [Name -> Stub]
           /\ \A n \in Name :
                 /\ Sound(BrowsedStubs(q, more)[n])
                 /\ BrowsedStubs(q, more)[n].ifs =
                      IF n = Head(inbox[q]).name THEN BrowsedStub(q).ifs ELSE queryToNodes[q][n].ifs
<1> DEFINE stubs == [queryToNodes[q] EXCEPT ![Head(inbox[q]).name] = BrowsedStub(q)]
<1>1. Sound(BrowsedStub(q)) /\ BrowsedStub(q) \in Stub
  BY BrowsedStubFacts, Zenon DEF Sound
<1>2. queryToNodes[q] \in [Name -> Stub]
  BY DEF ListingInv, BonjourTypeOK
<1>3. stubs \in [Name -> Stub]
  BY <1>1, <1>2, Zenon
<1>4. \A n \in Name : stubs[n] = IF n = Head(inbox[q]).name THEN BrowsedStub(q) ELSE queryToNodes[q][n]
  BY <1>2
<1> HIDE DEF stubs
<1>5. \A n \in Name : Sound(stubs[n])
  BY <1>1, <1>4, SoundStubs
<1>6. BrowsedStubs(q, more) = IF more THEN stubs ELSE Resolving(stubs)
  BY DEF BrowsedStubs, stubs
<1>7. CASE more
  BY <1>3, <1>4, <1>5, <1>6, <1>7
<1>8. CASE ~ more
  <2>1. \A n \in Name : Sound(Resolving(stubs)[n]) /\ Resolving(stubs)[n].ifs = stubs[n].ifs
    BY <1>5, ResolvingSound
  <2>2. Resolving(stubs) \in [Name -> Stub]
    <3>1. \A n \in Name : Resolving(stubs)[n] \in Stub
      BY <2>1 DEF Sound
    <3> QED
      BY <3>1 DEF Resolving
  <2> QED
    BY <1>4, <1>6, <1>8, <2>1, <2>2
<1> QED
  BY <1>7, <1>8

LEMMA BrowseReplyEffect ==
    ASSUME ListingInv, NEW q \in Node, NEW more \in BOOLEAN, BrowseReply(q, more)
    PROVE  /\ queryToNodes' = [queryToNodes EXCEPT ![q] = BrowsedStubs(q, more)]
           /\ nodes' = [nodes EXCEPT ![q] = IF BrowsedStub(q).ifs = {}
                                            THEN nodes[q] \ {Head(inbox[q]).name} ELSE nodes[q]]
           /\ UNCHANGED <<localNodes, suspendedNodes, isSuspended, queries, present>>
<1>1. Head(inbox[q]) \in ReplyType
  BY BrowseReplyFacts
<1>2. BrowsedStub(q) = NoStub <=> BrowsedStub(q).ifs = {}
  BY <1>1, BrowsedStubFacts, Zenon
<1>3. nodes' = [nodes EXCEPT ![q] = IF BrowsedStub(q) = NoStub
                                    THEN nodes[q] \ {Head(inbox[q]).name} ELSE nodes[q]]
  BY Zenon DEF BrowseReply, BrowsedStub, QueryRemoved
<1>4. queryToNodes' = [queryToNodes EXCEPT ![q] = BrowsedStubs(q, more)]
  BY Zenon DEF BrowseReply, BrowsedStub, BrowsedStubs
<1>5. UNCHANGED <<localNodes, suspendedNodes, isSuspended, queries, present>>
  BY Zenon DEF BrowseReply, localVars
<1> QED
  BY <1>2, <1>3, <1>4, <1>5, Zenon

LEMMA BrowseReplyInv ==
    ASSUME ListingInv, NEW q \in Node, NEW more \in BOOLEAN, BrowseReply(q, more)
    PROVE  ListingInv'
<1> DEFINE n == Head(inbox[q]).name
<1>1. /\ q \in queries /\ Head(inbox[q]) \in ReplyType
      /\ inbox' \in [Node -> Seq(ReplyType)]
      /\ \A r \in Node \ {q} : inbox'[r] = inbox[r]
  BY BrowseReplyFacts
<1>2. /\ BrowsedStubs(q, more) \in [Name -> Stub]
      /\ \A m \in Name :
            /\ Sound(BrowsedStubs(q, more)[m])
            /\ BrowsedStubs(q, more)[m].ifs = IF m = n THEN BrowsedStub(q).ifs ELSE queryToNodes[q][m].ifs
  BY <1>1, BrowsedStubsFacts
<1> HIDE DEF n
<1>3. nodes' = [nodes EXCEPT ![q] = IF BrowsedStub(q).ifs = {} THEN nodes[q] \ {n} ELSE nodes[q]]
  BY BrowseReplyEffect DEF n
<1>4. /\ queryToNodes' = [queryToNodes EXCEPT ![q] = BrowsedStubs(q, more)]
      /\ UNCHANGED <<localNodes, suspendedNodes, isSuspended, queries, present>>
  BY BrowseReplyEffect
<1>5. nodes \in [Node -> SUBSET Name]
  BY DEF ListingInv, BonjourTypeOK
<1>6. /\ nodes' \in [Node -> SUBSET Name]
      /\ \A r \in Node \ {q} : nodes'[r] = nodes[r]
      /\ nodes'[q] = IF BrowsedStub(q).ifs = {} THEN nodes[q] \ {n} ELSE nodes[q]
  BY <1>3, <1>5
<1>7. nodes[q] \subseteq {m \in Name : queryToNodes[q][m].ifs # {}}
  BY <1>1 DEF ListingInv, ListedAreKnown, Known
<1>8. nodes'[q] \subseteq Known(BrowsedStubs(q, more))
  BY <1>2, <1>6, <1>7 DEF Known
<1> QED
  BY <1>1, <1>2, <1>4, <1>6, <1>8, NewStubs, Zenon

(* A resolver's or an address's reply changes one stub, and not the        *)
(* interfaces of it.                                                       *)
ResolvedStub(q, n, new) ==
    /\ q \in queries
    /\ Sound(new)
    /\ new.ifs = queryToNodes[q][n].ifs
    /\ new.ifs # {}
    /\ queryToNodes' = [queryToNodes EXCEPT ![q] = [queryToNodes[q] EXCEPT ![n] = new]]
    /\ UNCHANGED <<localNodes, suspendedNodes, isSuspended, queries, present, inbox>>

LEMMA ServiceResolveReplyEffect ==
    ASSUME ListingInv, NEW q \in Node, NEW n \in Name, NEW i \in If, NEW more \in BOOLEAN,
           ServiceResolveReply(q, n, i, more)
    PROVE  nodes' = nodes /\ \E new \in Stub : ResolvedStub(q, n, new)
<1> DEFINE stub == queryToNodes[q][n]
           new  == [stub EXCEPT !.addrInfo = stub.addrInfo \cup {i}, !.resolving = more]
<1>1. Sound(stub) /\ stub.resolving
  BY SoundStubs DEF ServiceResolveReply
<1>2. stub # NoStub
  BY <1>1 DEF NoStub
<1>3. q \in queries /\ stub.ifs # {}
  BY <1>1, <1>2 DEF ListingInv, StubsOfQueries, Sound
<1>4. new \in Stub /\ Sound(new) /\ new.ifs = stub.ifs
  BY <1>1, <1>3, Zenon DEF Sound, Stub
<1>5. queryToNodes' = [queryToNodes EXCEPT ![q] = [queryToNodes[q] EXCEPT ![n] = new]]
  BY Zenon DEF ServiceResolveReply, ListingInv, BonjourTypeOK, Stub
<1>6. UNCHANGED <<localNodes, suspendedNodes, isSuspended, queries, nodes, present, inbox>>
  BY DEF ServiceResolveReply, localVars
<1>7. ResolvedStub(q, n, new)
  BY <1>3, <1>4, <1>5, <1>6 DEF ResolvedStub
<1> QED
  BY <1>4, <1>6, <1>7

LEMMA AddrInfoReplyEffect ==
    ASSUME ListingInv, NEW q \in Node, NEW n \in Name, NEW i \in If,
           NEW family \in {"IPv4", "IPv6", "error"}, AddrInfoReply(q, n, i, family)
    PROVE  /\ \/ nodes' = nodes
              \/ nodes' = [nodes EXCEPT ![q] = nodes[q] \cup {n}]
           /\ \E new \in Stub : ResolvedStub(q, n, new)
<1> DEFINE stub == queryToNodes[q][n]
           heard == [stub EXCEPT !.ipv4 = IF family = "IPv4" THEN stub.ipv4 \cup {i} ELSE stub.ipv4,
                                 !.ipv6 = IF family = "IPv6" THEN stub.ipv6 \cup {i} ELSE stub.ipv6]
           new == IF i \in heard.ipv4 \cap heard.ipv6 THEN [heard EXCEPT !.addrInfo = heard.addrInfo \ {i}]
                                                     ELSE heard
<1>1. Sound(stub) /\ i \in stub.ifs
  BY SoundStubs DEF AddrInfoReply
<1>2. stub # NoStub
  BY <1>1 DEF NoStub
<1>3. q \in queries
  BY <1>2 DEF ListingInv, StubsOfQueries
<1>4. Sound(heard) /\ heard.ifs = stub.ifs
  BY <1>1, Zenon DEF Sound, Stub
<1>5. queryToNodes' = [queryToNodes EXCEPT ![q] = [queryToNodes[q] EXCEPT ![n] = new]]
  BY DEF AddrInfoReply
<1>6. UNCHANGED <<localNodes, suspendedNodes, isSuspended, queries, present, inbox>>
  BY DEF AddrInfoReply, localVars
<1>7. nodes' = nodes \/ nodes' = [nodes EXCEPT ![q] = nodes[q] \cup {n}]
  BY Zenon DEF AddrInfoReply, QueryFound, ListingInv, BonjourTypeOK
<1> HIDE DEF heard
<1>8. Sound(new) /\ new.ifs = stub.ifs /\ new \in Stub
  BY <1>1, <1>4 DEF Sound, Stub
<1>9. ResolvedStub(q, n, new)
  BY <1>1, <1>3, <1>5, <1>6, <1>8 DEF ResolvedStub
<1> QED
  BY <1>7, <1>8, <1>9

LEMMA ResolvedInv ==
    ASSUME ListingInv, NEW q \in Node, NEW n \in Name, NEW new \in Stub, ResolvedStub(q, n, new),
           nodes' = nodes \/ nodes' = [nodes EXCEPT ![q] = nodes[q] \cup {n}]
    PROVE  ListingInv'
<1> DEFINE stubs == [queryToNodes[q] EXCEPT ![n] = new]
<1>1. queryToNodes[q] \in [Name -> Stub] /\ nodes \in [Node -> SUBSET Name]
      /\ inbox \in [Node -> Seq(ReplyType)]
  BY Zenon DEF ListingInv, BonjourTypeOK, ReplyType
<1>2. /\ stubs \in [Name -> Stub]
      /\ \A m \in Name : stubs[m] = IF m = n THEN new ELSE queryToNodes[q][m]
  BY <1>1
<1>3. /\ q \in queries /\ Sound(new) /\ new.ifs = queryToNodes[q][n].ifs /\ new.ifs # {}
      /\ queryToNodes' = [queryToNodes EXCEPT ![q] = stubs]
      /\ UNCHANGED <<localNodes, suspendedNodes, isSuspended, queries, present, inbox>>
  BY DEF ResolvedStub
<1> HIDE DEF stubs
<1>4. \A m \in Name : Sound(stubs[m])
  BY <1>2, <1>3, SoundStubs
<1>5. /\ nodes' \in [Node -> SUBSET Name]
      /\ \A r \in Node \ {q} : nodes'[r] = nodes[r]
      /\ nodes'[q] \subseteq nodes[q] \cup {n}
  BY <1>1, Zenon
<1>6. nodes[q] \subseteq {m \in Name : queryToNodes[q][m].ifs # {}}
  BY <1>3 DEF ListingInv, ListedAreKnown, Known
<1>7. nodes'[q] \subseteq Known(stubs)
  BY <1>2, <1>3, <1>5, <1>6 DEF Known
<1> QED
  BY <1>1, <1>2, <1>3, <1>4, <1>5, <1>7, NewStubs, Zenon

LEMMA ListingInit == Init => ListingInv
<1> SUFFICES ASSUME Init PROVE ListingInv
  OBVIOUS
<1>1. NoStub \in Stub
  BY NoStubSound DEF Sound
<1>2. BonjourTypeOK
  <2>1. queryToNodes \in [Node -> [Name -> Stub]]
    BY <1>1 DEF Init
  <2>2. inbox \in [Node -> Seq([name : Name, if : If, add : BOOLEAN])]
    <3>1. <<>> \in Seq([name : Name, if : If, add : BOOLEAN])
      OBVIOUS
    <3> QED
      BY <3>1 DEF Init
  <2>3. nodes \in [Node -> SUBSET Name] /\ isSuspended \in BOOLEAN
    BY Zenon DEF Init
  <2> QED
    BY <2>1, <2>2, <2>3 DEF Init, BonjourTypeOK
<1>3. StubsOfQueries
  BY NoStubSound DEF Init, StubsOfQueries, Sound
<1>4. ListedAreKnown
  BY DEF Init, ListedAreKnown
<1> QED
  BY <1>2, <1>3, <1>4 DEF ListingInv

LEMMA ListingStep == ListingInv /\ [Next]_vars => ListingInv'
<1> SUFFICES ASSUME ListingInv, [Next]_vars PROVE ListingInv'
  OBVIOUS
<1>1. CASE (\E m \in Node : Add(m) \/ Remove(m)) \/ Suspend \/ UNCHANGED vars
  BY <1>1, LocalInv
<1>2. CASE (\E m \in Node : Browse(m)) \/ Resume
  BY <1>2, BrowseInv
<1>3. ASSUME NEW m \in Node, Unbrowse(m) PROVE ListingInv'
  BY <1>3, UnbrowseInv
<1>4. ASSUME NEW n \in Name, NEW i \in If, Appear(n, i) \/ Disappear(n, i) PROVE ListingInv'
  BY <1>4, NetworkInv
<1>5. ASSUME NEW q \in Node, NEW more \in BOOLEAN, BrowseReply(q, more) PROVE ListingInv'
  BY <1>5, BrowseReplyInv
<1>6. ASSUME NEW q \in Node, NEW n \in Name, NEW i \in If, NEW more \in BOOLEAN,
             ServiceResolveReply(q, n, i, more)
      PROVE  ListingInv'
  BY <1>6, ServiceResolveReplyEffect, ResolvedInv
<1>7. ASSUME NEW q \in Node, NEW n \in Name, NEW i \in If,
             NEW family \in {"IPv4", "IPv6", "error"}, AddrInfoReply(q, n, i, family)
      PROVE  ListingInv'
  BY <1>7, AddrInfoReplyEffect, ResolvedInv
<1> QED
  BY <1>1, <1>2, <1>3, <1>4, <1>5, <1>6, <1>7 DEF Next, Reply

(* The types, and ListingInv itself, hold of every behaviour of Bonjour    *)
(* discovery.                                                              *)
THEOREM ListingInvariant == Spec => []ListingInv
BY ListingInit, ListingStep, PTL DEF Spec

(* Whatever the daemon announces, withdraws and answers, and in whichever  *)
(* order: a query that does not browse holds no stub, and a stub holds     *)
(* addresses only of interfaces its node is announced on.                  *)
THEOREM BonjourStubs == Spec => []StubsOfQueries
<1>1. ListingInv => StubsOfQueries
  BY DEF ListingInv
<1> QED
  BY <1>1, ListingInvariant, PTL

(* The listener of a query holds only nodes whose stub is maintained.      *)
THEOREM BonjourListed == Spec => []ListedAreKnown
<1>1. ListingInv => ListedAreKnown
  BY DEF ListingInv
<1> QED
  BY <1>1, ListingInvariant, PTL

-----------------------------------------------------------------------------
(* Bonjour discovery implements NodeListing: every step is a step of the   *)
(* listing, or leaves it alone.                                            *)

knownNow == [q \in Node |-> Known(queryToNodes[q])]
listedNow == [q \in Node |-> IF q \in queries THEN nodes[q] ELSE {}]

(* A reply in answer to a query's browse operation.                        *)
LEMMA BrowseReplyListing ==
    ASSUME ListingInv, NEW q \in Node, NEW more \in BOOLEAN, BrowseReply(q, more)
    PROVE  \E n \in Name : \/ Listing!Announce(q, n)
                           \/ Listing!Withdraw(q, n)
                           \/ UNCHANGED <<knownNow, listedNow>>
<1> DEFINE n == Head(inbox[q]).name
           was == Known(queryToNodes[q])
<1>1. q \in queries /\ Head(inbox[q]) \in ReplyType
  BY BrowseReplyFacts
<1>2. n \in Name
  BY <1>1 DEF ReplyType
<1>3. \A m \in Name : BrowsedStubs(q, more)[m].ifs = IF m = n THEN BrowsedStub(q).ifs ELSE queryToNodes[q][m].ifs
  BY <1>1, BrowsedStubsFacts
<1> HIDE DEF n
<1>4. /\ nodes' = [nodes EXCEPT ![q] = IF BrowsedStub(q).ifs = {} THEN nodes[q] \ {n} ELSE nodes[q]]
      /\ queryToNodes' = [queryToNodes EXCEPT ![q] = BrowsedStubs(q, more)]
      /\ queries' = queries
  BY BrowseReplyEffect DEF n
<1>5. /\ nodes \in [Node -> SUBSET Name] /\ nodes[q] \subseteq was
      /\ queryToNodes \in [Node -> [Name -> Stub]]
  BY <1>1 DEF ListingInv, ListedAreKnown, BonjourTypeOK
<1>6. Known(BrowsedStubs(q, more)) = IF BrowsedStub(q).ifs = {} THEN was \ {n} ELSE was \cup {n}
  BY <1>2, <1>3 DEF Known
<1>7. knownNow' = [knownNow EXCEPT ![q] = Known(BrowsedStubs(q, more))]
  BY <1>4, <1>5, Zenon DEF knownNow
<1>8. listedNow' = [listedNow EXCEPT ![q] = nodes'[q]]
  BY <1>1, <1>4, <1>5, Zenon DEF listedNow
<1>9. knownNow[q] = was /\ listedNow[q] = nodes[q]
  BY <1>1 DEF knownNow, listedNow
<1>10. nodes'[q] = IF BrowsedStub(q).ifs = {} THEN nodes[q] \ {n} ELSE nodes[q]
  BY <1>4, <1>5
<1> HIDE DEF was
<1>11. CASE BrowsedStub(q).ifs # {} /\ n \notin was
  <2>1. knownNow' = [knownNow EXCEPT ![q] = knownNow[q] \cup {n}]
    BY <1>6, <1>7, <1>9, <1>11, Zenon
  <2>2. listedNow' = listedNow
    BY <1>8, <1>9, <1>10, <1>11, Zenon DEF listedNow
  <2> QED
    BY <1>2, <1>9, <1>11, <2>1, <2>2, Zenon DEF Listing!Announce, knownNow, listedNow
<1>12. CASE BrowsedStub(q).ifs = {} /\ n \in was
  <2>1. knownNow' = [knownNow EXCEPT ![q] = knownNow[q] \ {n}]
    BY <1>6, <1>7, <1>9, <1>12
  <2>2. listedNow' = [listedNow EXCEPT ![q] = listedNow[q] \ {n}]
    BY <1>8, <1>9, <1>10, <1>12
  <2> QED
    BY <1>2, <1>9, <1>12, <2>1, <2>2, Zenon DEF Listing!Withdraw, knownNow, listedNow
<1>13. CASE BrowsedStub(q).ifs = {} <=> n \notin was
  <2>1. Known(BrowsedStubs(q, more)) = was /\ nodes'[q] = nodes[q]
    BY <1>5, <1>6, <1>10, <1>13
  <2>2. knownNow' = knownNow
    BY <1>7, <1>9, <2>1, Zenon DEF knownNow
  <2>3. listedNow' = listedNow
    BY <1>8, <1>9, <2>1, Zenon DEF listedNow
  <2> QED
    BY <1>2, <2>2, <2>3
<1> QED
  BY <1>11, <1>12, <1>13

(* A reply on the host or the addresses of a node.                         *)
LEMMA ResolvedListing ==
    ASSUME ListingInv, NEW q \in Node, NEW n \in Name, NEW new \in Stub, ResolvedStub(q, n, new),
           nodes' = nodes \/ nodes' = [nodes EXCEPT ![q] = nodes[q] \cup {n}]
    PROVE  Listing!Added(q, n) \/ UNCHANGED <<knownNow, listedNow>>
<1>1. /\ q \in queries /\ queries' = queries
      /\ new.ifs = queryToNodes[q][n].ifs /\ new.ifs # {}
      /\ queryToNodes' = [queryToNodes EXCEPT ![q] = [queryToNodes[q] EXCEPT ![n] = new]]
  BY DEF ResolvedStub
<1>2. nodes \in [Node -> SUBSET Name] /\ queryToNodes \in [Node -> [Name -> Stub]]
  BY DEF ListingInv, BonjourTypeOK
<1>3. knownNow' = knownNow
  <2>1. \A r \in Node : \A m \in Name : queryToNodes'[r][m].ifs = queryToNodes[r][m].ifs
    BY <1>1, <1>2
  <2> QED
    BY <2>1 DEF knownNow, Known
<1>4. n \in knownNow[q] /\ listedNow[q] = nodes[q]
  BY <1>1 DEF knownNow, listedNow, Known
<1>5. CASE nodes' = nodes
  BY <1>1, <1>3, <1>5 DEF listedNow
<1>6. CASE nodes' = [nodes EXCEPT ![q] = nodes[q] \cup {n}]
  <2>1. listedNow' = [listedNow EXCEPT ![q] = listedNow[q] \cup {n}]
    BY <1>1, <1>2, <1>4, <1>6, Zenon DEF listedNow
  <2>2. CASE n \in listedNow[q]
    <3>1. listedNow' = listedNow
      <4>1. listedNow[q] \cup {n} = listedNow[q]
        BY <2>2
      <4>2. listedNow' = [listedNow EXCEPT ![q] = listedNow[q]]
        BY <2>1, <4>1, Zenon
      <4> QED
        BY <4>2, Zenon DEF listedNow
    <3> QED
      BY <1>3, <3>1
  <2>3. CASE n \notin listedNow[q]
    BY <1>3, <1>4, <2>1, <2>3 DEF Listing!Added, knownNow, listedNow
  <2> QED
    BY <2>2, <2>3
<1> QED
  BY <1>5, <1>6

(* A query that starts to browse has no stubs and lists nothing.           *)
LEMMA StartBrowsingListing ==
    ASSUME ListingInv, NEW new \in SUBSET (Node \ queries), StartBrowsing(new)
    PROVE  UNCHANGED <<knownNow, listedNow>>
<1>1. knownNow' = knownNow
  BY DEF StartBrowsing, knownNow
<1>2. \A q \in Node : (IF q \in queries' THEN nodes'[q] ELSE {}) = IF q \in queries THEN nodes[q] ELSE {}
  BY DEF StartBrowsing
<1>3. listedNow' = listedNow
  BY <1>2 DEF listedNow
<1> QED
  BY <1>1, <1>3

LEMMA UnbrowseListing ==
    ASSUME ListingInv, NEW q \in Node, Unbrowse(q)
    PROVE  Listing!Unbrowse(q)
<1>1. /\ queries' = queries \ {q}
      /\ queryToNodes' = [queryToNodes EXCEPT ![q] = [n \in Name |-> NoStub]]
      /\ nodes' = nodes
  BY DEF Unbrowse
<1>2. queryToNodes \in [Node -> [Name -> Stub]]
  BY DEF ListingInv, BonjourTypeOK
<1>3. Known([n \in Name |-> NoStub]) = {}
  BY DEF Known, NoStub
<1>4. knownNow' = [knownNow EXCEPT ![q] = {}]
  BY <1>1, <1>2, <1>3, Zenon DEF knownNow
<1>5. listedNow' = [listedNow EXCEPT ![q] = {}]
  BY <1>1, Zenon DEF listedNow
<1> QED
  BY <1>4, <1>5 DEF Listing!Unbrowse, knownNow, listedNow

LEMMA ListingRefines == ListingInv /\ [Next]_vars => [Listing!Next]_(Listing!listing)
<1> SUFFICES ASSUME ListingInv, [Next]_vars PROVE Listing!Next \/ UNCHANGED Listing!listing
  OBVIOUS
<1>1. UNCHANGED <<knownNow, listedNow>> => UNCHANGED Listing!listing
  BY DEF Listing!listing, knownNow, listedNow
<1>2. CASE \/ \E m \in Node : Add(m) \/ Remove(m)
           \/ \E n \in Name, i \in If : Appear(n, i) \/ Disappear(n, i)
           \/ Suspend
           \/ UNCHANGED vars
  <2>1. UNCHANGED <<queries, queryToNodes, nodes>>
    BY <1>2, Zenon DEF Add, Remove, Appear, Disappear, Suspend, vars
  <2> QED
    BY <1>1, <2>1 DEF knownNow, listedNow
<1>3. CASE (\E m \in Node : Browse(m)) \/ Resume
  <2>1. PICK new \in SUBSET (Node \ queries) : StartBrowsing(new)
    <3>1. CASE Resume
      <4>1. suspendedNodes \ queries \in SUBSET (Node \ queries)
        BY DEF ListingInv, BonjourTypeOK
      <4> QED
        BY <3>1, <4>1 DEF Resume
    <3>2. ASSUME NEW m \in Node, Browse(m) PROVE StartBrowsing({m}) /\ {m} \in SUBSET (Node \ queries)
      BY <3>2 DEF Browse
    <3> QED
      BY <1>3, <3>1, <3>2, Zenon
  <2> QED
    BY <1>1, <2>1, StartBrowsingListing
<1>4. ASSUME NEW m \in Node, Unbrowse(m) PROVE Listing!Next
  BY <1>4, UnbrowseListing DEF Listing!Next
<1>5. ASSUME NEW q \in Node, NEW more \in BOOLEAN, BrowseReply(q, more)
      PROVE  Listing!Next \/ UNCHANGED Listing!listing
  BY <1>1, <1>5, BrowseReplyListing DEF Listing!Next
<1>6. ASSUME NEW q \in Node, NEW n \in Name, NEW new \in Stub, ResolvedStub(q, n, new),
             nodes' = nodes \/ nodes' = [nodes EXCEPT ![q] = nodes[q] \cup {n}]
      PROVE  Listing!Next \/ UNCHANGED Listing!listing
  BY <1>1, <1>6, ResolvedListing DEF Listing!Next
<1>7. ASSUME NEW q \in Node, NEW n \in Name, NEW i \in If, NEW more \in BOOLEAN,
             ServiceResolveReply(q, n, i, more)
      PROVE  Listing!Next \/ UNCHANGED Listing!listing
  BY <1>6, <1>7, ServiceResolveReplyEffect
<1>8. ASSUME NEW q \in Node, NEW n \in Name, NEW i \in If,
             NEW family \in {"IPv4", "IPv6", "error"}, AddrInfoReply(q, n, i, family)
      PROVE  Listing!Next \/ UNCHANGED Listing!listing
  BY <1>6, <1>8, AddrInfoReplyEffect
<1> QED
  BY <1>2, <1>3, <1>4, <1>5, <1>7, <1>8 DEF Next, Reply

(* Bonjour discovery implements the listing's safety: a listener is told   *)
(* of a node only while the daemon announces it on some interface, and     *)
(* loses it in the very step that withdraws the last one.                  *)
THEOREM BonjourImplementsListing == Spec => BonjourListing
<1>1. Init => Listing!Init
  BY DEF Init, Listing!Init, Known, NoStub
<1> QED
  BY <1>1, ListingInvariant, ListingRefines, PTL DEF Spec, BonjourListing, Listing!Safety

-----------------------------------------------------------------------------
(* The descriptors that run() polls are those of the open operations.      *)

Client ==
    {registerClient(m) : m \in Node} \cup {queryClient(q) : q \in Node}
        \cup {resolveClient(q, n) : q \in Node, n \in Name}
        \cup {addrInfoClient(q, n, i) : q \in Node, n \in Name, i \in If}

(* validateState, told for each kind of operation.                         *)
OpenAreActive ==
    /\ activeFDs \subseteq Client
    /\ \A m \in Node : registerClient(m) \in activeFDs <=> m \in localNodes
    /\ \A q \in Node : queryClient(q) \in activeFDs <=> q \in queries
    /\ \A q \in Node, n \in Name :
          /\ resolveClient(q, n) \in activeFDs <=> queryToNodes[q][n].resolving
          /\ \A i \in If : addrInfoClient(q, n, i) \in activeFDs <=> i \in queryToNodes[q][n].addrInfo

(* Two operations share a socket only if they are the same operation.      *)
LEMMA ClientsDiffer ==
    /\ \A m, p : registerClient(m) = registerClient(p) <=> m = p
    /\ \A q, r : queryClient(q) = queryClient(r) <=> q = r
    /\ \A q, n, r, p : resolveClient(q, n) = resolveClient(r, p) <=> q = r /\ n = p
    /\ \A q, n, i, r, p, j :
          addrInfoClient(q, n, i) = addrInfoClient(r, p, j) <=> q = r /\ n = p /\ i = j
    /\ \A m, q : registerClient(m) # queryClient(q)
    /\ \A m, q, n : registerClient(m) # resolveClient(q, n)
    /\ \A m, q, n, i : registerClient(m) # addrInfoClient(q, n, i)
    /\ \A m, q, n : queryClient(m) # resolveClient(q, n)
    /\ \A m, q, n, i : queryClient(m) # addrInfoClient(q, n, i)
    /\ \A q, n, r, p, i : resolveClient(q, n) # addrInfoClient(r, p, i)
BY DEF registerClient, queryClient, resolveClient, addrInfoClient

LEMMA ClientsOfStub ==
    ASSUME NEW q, NEW n, NEW stub, NEW c
    PROVE  c \in Clients(q, n, stub) <=>
              \/ c = resolveClient(q, n) /\ stub.resolving
              \/ \E i \in stub.addrInfo : c = addrInfoClient(q, n, i)
BY DEF Clients

LEMMA OpenAreActiveImplies ==
    ASSUME BonjourTypeOK, OpenAreActive
    PROVE  ValidateState
<1>. DEFINE open == {registerClient(m) : m \in localNodes}
                       \cup {queryClient(q) : q \in queries}
                       \cup UNION {Clients(q, n, queryToNodes[q][n]) : q \in Node, n \in Name}
<1>1. \A q \in Node, n \in Name : queryToNodes[q][n].addrInfo \subseteq If
  BY DEF BonjourTypeOK, Stub
<1>2. ASSUME NEW c \in activeFDs
      PROVE  c \in open
  <2>1. CASE \E m \in Node : c = registerClient(m)
    BY <2>1 DEF OpenAreActive
  <2>2. CASE \E q \in Node : c = queryClient(q)
    BY <2>2 DEF OpenAreActive
  <2>3. CASE \E q \in Node, n \in Name : c = resolveClient(q, n)
    <3>1. PICK q \in Node, n \in Name : c = resolveClient(q, n)
      BY <2>3
    <3>2. c \in Clients(q, n, queryToNodes[q][n])
      BY <3>1, ClientsOfStub DEF OpenAreActive
    <3>. QED
      BY <3>2
  <2>4. CASE \E q \in Node, n \in Name, i \in If : c = addrInfoClient(q, n, i)
    <3>1. PICK q \in Node, n \in Name, i \in If : c = addrInfoClient(q, n, i)
      BY <2>4
    <3>2. c \in Clients(q, n, queryToNodes[q][n])
      BY <3>1, ClientsOfStub DEF OpenAreActive
    <3>. QED
      BY <3>2
  <2>. QED
    BY <2>1, <2>2, <2>3, <2>4 DEF OpenAreActive, Client
<1>3. ASSUME NEW c \in open
      PROVE  c \in activeFDs
  <2>1. CASE c \in {registerClient(m) : m \in localNodes} \cup {queryClient(q) : q \in queries}
    BY <2>1 DEF OpenAreActive, BonjourTypeOK
  <2>2. CASE \E q \in Node, n \in Name : c \in Clients(q, n, queryToNodes[q][n])
    BY <1>1, <2>2, ClientsOfStub DEF OpenAreActive
  <2>. QED
    BY <2>1, <2>2
<1>. QED
  BY <1>2, <1>3 DEF ValidateState

(* Registering, unregistering and browsing.                                *)
LEMMA LocalActive ==
    ASSUME ListingInv, OpenAreActive,
           \/ \E m \in Node : Add(m) \/ Remove(m) \/ Browse(m)
           \/ Suspend \/ Resume
    PROVE  OpenAreActive'
<1>. USE ClientsDiffer DEF OpenAreActive
<1>1. localNodes \subseteq Node /\ suspendedNodes \subseteq Node
  BY DEF ListingInv, BonjourTypeOK
<1>2. ASSUME NEW m \in Node, Add(m) \/ Remove(m)
      PROVE  OpenAreActive'
  BY <1>2 DEF Add, Remove, Client
<1>3. ASSUME NEW q \in Node, Browse(q)
      PROVE  OpenAreActive'
  BY <1>3 DEF Browse, StartBrowsing, localVars, Client
<1>4. ASSUME Suspend
      PROVE  OpenAreActive'
  BY <1>4 DEF Suspend, Client
<1>5. ASSUME Resume
      PROVE  OpenAreActive'
  BY <1>1, <1>5 DEF Resume, StartBrowsing, Client
<1>. QED
  BY <1>2, <1>3, <1>4, <1>5, Zenon

LEMMA UnbrowseActive ==
    ASSUME ListingInv, OpenAreActive, NEW q \in Node, Unbrowse(q)
    PROVE  OpenAreActive'
<1>1. /\ queries' = queries \ {q} /\ localNodes' = localNodes
      /\ \A r \in Node, n \in Name :
            queryToNodes'[r][n] = IF r = q THEN NoStub ELSE queryToNodes[r][n]
  BY DEF Unbrowse, localVars, ListingInv, BonjourTypeOK
<1>2. \A c : c \in activeFDs' <=>
         /\ c \in activeFDs
         /\ c # queryClient(q)
         /\ ~ \E n \in Name : c \in Clients(q, n, queryToNodes[q][n])
  BY DEF Unbrowse
<1>3. \A c : c \in activeFDs' <=>
         /\ c \in activeFDs
         /\ c # queryClient(q)
         /\ ~ \E n \in Name : c = resolveClient(q, n) /\ queryToNodes[q][n].resolving
         /\ ~ \E n \in Name : \E i \in queryToNodes[q][n].addrInfo : c = addrInfoClient(q, n, i)
  BY <1>2, ClientsOfStub
<1>4. NoStub.resolving = FALSE /\ NoStub.addrInfo = {}
  BY DEF NoStub
<1>5. \A n \in Name : queryToNodes[q][n].addrInfo \subseteq If
  BY DEF ListingInv, BonjourTypeOK, Stub
<1>6. activeFDs' \subseteq Client
  BY <1>3, Zenon DEF OpenAreActive
<1>7. /\ \A m \in Node : registerClient(m) \in activeFDs' <=> m \in localNodes'
      /\ \A r \in Node : queryClient(r) \in activeFDs' <=> r \in queries'
  BY <1>1, <1>3, ClientsDiffer DEF OpenAreActive
<1>8. ASSUME NEW r \in Node, NEW n \in Name
      PROVE  /\ resolveClient(r, n) \in activeFDs' <=> queryToNodes'[r][n].resolving
             /\ \A i \in If : addrInfoClient(r, n, i) \in activeFDs' <=> i \in queryToNodes'[r][n].addrInfo
  BY <1>1, <1>3, <1>4, <1>5, ClientsDiffer DEF OpenAreActive
<1>. QED
  BY <1>6, <1>7, <1>8 DEF OpenAreActive

(* Replies change the operations of one query's stubs.                     *)
LEMMA RepliedActive ==
    ASSUME ListingInv, OpenAreActive, NEW q \in Node, NEW stubs,
           queryToNodes' = [queryToNodes EXCEPT ![q] = stubs],
           UNCHANGED <<localNodes, queries>>,
           activeFDs' \subseteq Client,
           \A m \in Node : registerClient(m) \in activeFDs' <=> registerClient(m) \in activeFDs,
           \A r \in Node : queryClient(r) \in activeFDs' <=> queryClient(r) \in activeFDs,
           \A r \in Node \ {q}, n \in Name :
              /\ resolveClient(r, n) \in activeFDs' <=> resolveClient(r, n) \in activeFDs
              /\ \A i \in If : addrInfoClient(r, n, i) \in activeFDs' <=> addrInfoClient(r, n, i) \in activeFDs,
           \A n \in Name :
              /\ resolveClient(q, n) \in activeFDs' <=> stubs[n].resolving
              /\ \A i \in If : addrInfoClient(q, n, i) \in activeFDs' <=> i \in stubs[n].addrInfo
    PROVE  OpenAreActive'
<1>1. \A r \in Node : queryToNodes'[r] = IF r = q THEN stubs ELSE queryToNodes[r]
  BY Zenon DEF ListingInv, BonjourTypeOK
<1>. QED
  BY <1>1 DEF OpenAreActive

(* The operations of the stub that browseReply makes.                      *)
LEMMA BrowsedOperations ==
    ASSUME ListingInv, NEW q \in Node, Head(inbox[q]) \in ReplyType
    PROVE  LET old == queryToNodes[q][Head(inbox[q]).name]
               new == BrowsedStub(q)
           IN  /\ new = NoStub => ~ new.resolving /\ new.addrInfo = {}
               /\ new # NoStub => new.resolving = old.resolving /\ new.addrInfo = old.addrInfo
<1>. DEFINE reply == Head(inbox[q])
            old   == queryToNodes[q][reply.name]
            left  == [old EXCEPT !.ifs = @ \ {reply.if}, !.ipv4 = @ \ {reply.if}, !.ipv6 = @ \ {reply.if}]
<1>1. old \in Stub
  BY DEF ListingInv, BonjourTypeOK, ReplyType
<1>2. /\ Announced(old, reply.if).resolving = old.resolving
      /\ Announced(old, reply.if).addrInfo = old.addrInfo
  BY <1>1 DEF Announced, Stub
<1>3. left.resolving = old.resolving /\ left.addrInfo = old.addrInfo
  BY <1>1 DEF Stub
<1>4. WithoutInterface(old, reply.if) = IF left.ifs = {} THEN NoStub ELSE left
  BY DEF WithoutInterface
<1>5. BrowsedStub(q) \in {Announced(old, reply.if), NoStub, left}
  BY <1>4, Zenon DEF BrowsedStub
<1>6. ~ NoStub.resolving /\ NoStub.addrInfo = {}
  BY DEF NoStub
<1>. HIDE DEF old, reply, left
<1>7. /\ BrowsedStub(q) = NoStub => ~ BrowsedStub(q).resolving /\ BrowsedStub(q).addrInfo = {}
      /\ BrowsedStub(q) # NoStub => BrowsedStub(q).resolving = old.resolving
                                    /\ BrowsedStub(q).addrInfo = old.addrInfo
  BY <1>2, <1>3, <1>5, <1>6
<1>. QED
  BY <1>7 DEF old, reply

LEMMA BrowsedStubsOperations ==
    ASSUME ListingInv, NEW q \in Node, NEW more \in BOOLEAN, Head(inbox[q]) \in ReplyType,
           NEW n \in Name
    PROVE  LET stub == IF n = Head(inbox[q]).name THEN BrowsedStub(q) ELSE queryToNodes[q][n]
           IN  /\ BrowsedStubs(q, more)[n].addrInfo = stub.addrInfo
               /\ stub.resolving => BrowsedStubs(q, more)[n].resolving
<1>. DEFINE stubs == [queryToNodes[q] EXCEPT ![Head(inbox[q]).name] = BrowsedStub(q)]
            stub == IF n = Head(inbox[q]).name THEN BrowsedStub(q) ELSE queryToNodes[q][n]
<1>1. stubs[n] = stub /\ stub \in Stub
  <2>1. BrowsedStub(q) \in Stub
    BY BrowsedStubFacts, Zenon DEF Sound
  <2>. QED
    BY <2>1 DEF ListingInv, BonjourTypeOK
<1>2. BrowsedStubs(q, more) = IF more THEN stubs ELSE Resolving(stubs)
  BY DEF BrowsedStubs
<1>. HIDE DEF stubs, stub
<1>3. /\ Resolving(stubs)[n].addrInfo = stub.addrInfo
      /\ stub.resolving => Resolving(stubs)[n].resolving
  BY <1>1 DEF Resolving, Stub
<1>4. CASE more
  BY <1>1, <1>2, <1>4 DEF stub
<1>5. CASE ~ more
  BY <1>2, <1>3, <1>5 DEF stub
<1>. QED
  BY <1>4, <1>5

(* browseReply drops the operations of a stub that goes, and none other.   *)
LEMMA BrowseReplyActive ==
    ASSUME ListingInv, OpenAreActive, NEW q \in Node, NEW more \in BOOLEAN, BrowseReply(q, more)
    PROVE  OpenAreActive'
<1>. DEFINE n == Head(inbox[q]).name
            old == queryToNodes[q][n]
            new == BrowsedStub(q)
            after == BrowsedStubs(q, more)
<1>1. Head(inbox[q]) \in ReplyType
  BY BrowseReplyFacts
<1>2. n \in Name
  BY <1>1 DEF ReplyType
<1>3. activeFDs' = (activeFDs \ {c \in Clients(q, n, old) : new = NoStub})
                     \cup {resolveClient(q, m) : m \in {m \in Name : after[m].resolving}}
  BY Zenon DEF BrowseReply, BrowsedStub, BrowsedStubs
<1>4. /\ new = NoStub => ~ new.resolving /\ new.addrInfo = {}
      /\ new # NoStub => new.resolving = old.resolving /\ new.addrInfo = old.addrInfo
  BY <1>1, BrowsedOperations
<1>5. \A m \in Name :
         /\ after[m].addrInfo = IF m = n THEN new.addrInfo ELSE queryToNodes[q][m].addrInfo
         /\ m # n /\ queryToNodes[q][m].resolving => after[m].resolving
         /\ m = n /\ new.resolving => after[m].resolving
  BY <1>1, BrowsedStubsOperations
<1>. HIDE DEF n, old, new, after
<1>6. \A c : c \in activeFDs' <=>
         \/ /\ c \in activeFDs
            /\ ~ (/\ new = NoStub
                  /\ \/ c = resolveClient(q, n) /\ old.resolving
                     \/ \E i \in old.addrInfo : c = addrInfoClient(q, n, i))
         \/ \E m \in Name : after[m].resolving /\ c = resolveClient(q, m)
  BY <1>3, ClientsOfStub
<1>7. activeFDs' \subseteq Client
  BY <1>6 DEF OpenAreActive, Client
<1>8. /\ \A m \in Node : registerClient(m) \in activeFDs' <=> registerClient(m) \in activeFDs
      /\ \A r \in Node : queryClient(r) \in activeFDs' <=> queryClient(r) \in activeFDs
      /\ \A r \in Node \ {q}, m \in Name :
            /\ resolveClient(r, m) \in activeFDs' <=> resolveClient(r, m) \in activeFDs
            /\ \A i \in If : addrInfoClient(r, m, i) \in activeFDs' <=> addrInfoClient(r, m, i) \in activeFDs
  BY <1>6, ClientsDiffer
<1>9. ASSUME NEW m \in Name
      PROVE  resolveClient(q, m) \in activeFDs' <=> after[m].resolving
  <2>1. resolveClient(q, m) \in activeFDs <=> queryToNodes[q][m].resolving
    BY Zenon DEF OpenAreActive
  <2>2. resolveClient(q, m) \in activeFDs' <=>
           \/ queryToNodes[q][m].resolving /\ ~ (new = NoStub /\ m = n /\ old.resolving)
           \/ after[m].resolving
    BY <1>6, <2>1, ClientsDiffer
  <2>3. m = n => queryToNodes[q][m] = old
    BY Zenon DEF old
  <2>. QED
    BY <1>4, <1>5, <2>2, <2>3
<1>10. ASSUME NEW m \in Name, NEW i \in If
       PROVE  addrInfoClient(q, m, i) \in activeFDs' <=> i \in after[m].addrInfo
  <2>1. addrInfoClient(q, m, i) \in activeFDs <=> i \in queryToNodes[q][m].addrInfo
    BY Zenon DEF OpenAreActive
  <2>2. addrInfoClient(q, m, i) \in activeFDs' <=>
           i \in queryToNodes[q][m].addrInfo /\ ~ (new = NoStub /\ m = n /\ i \in old.addrInfo)
    BY <1>6, <2>1, ClientsDiffer
  <2>3. m = n => queryToNodes[q][m] = old
    BY DEF old
  <2>. QED
    BY <1>4, <1>5, <2>2, <2>3
<1>11. queryToNodes' = [queryToNodes EXCEPT ![q] = after] /\ UNCHANGED <<localNodes, queries>>
  BY BrowseReplyEffect, Zenon DEF after
<1>. QED
  BY <1>7, <1>8, <1>9, <1>10, <1>11, RepliedActive, Zenon

LEMMA ServiceResolveReplyActive ==
    ASSUME ListingInv, OpenAreActive, NEW q \in Node, NEW n \in Name, NEW i \in If,
           NEW more \in BOOLEAN, ServiceResolveReply(q, n, i, more)
    PROVE  OpenAreActive'
<1>. DEFINE stub == queryToNodes[q][n]
            new  == [stub EXCEPT !.addrInfo = stub.addrInfo \cup {i}, !.resolving = more]
            stubs == [queryToNodes[q] EXCEPT ![n] = new]
<1>1. stub \in Stub /\ queryToNodes[q] \in [Name -> Stub]
  BY DEF ListingInv, BonjourTypeOK
<1>2. new.addrInfo = stub.addrInfo \cup {i} /\ new.resolving = more
  BY <1>1 DEF Stub
<1>3. queryToNodes' = [queryToNodes EXCEPT ![q] = stubs]
  BY Zenon DEF ServiceResolveReply, ListingInv, BonjourTypeOK, Stub
<1>4. UNCHANGED <<localNodes, queries>> /\ stub.resolving
  BY DEF ServiceResolveReply, localVars
<1>. HIDE DEF new
<1>5. \A m \in Name : stubs[m] = IF m = n THEN new ELSE queryToNodes[q][m]
  BY <1>1
<1>. HIDE DEF stubs
<1>6. \A c : c \in activeFDs' <=>
         /\ c \in activeFDs \/ c = addrInfoClient(q, n, i)
         /\ ~ (c = resolveClient(q, n) /\ ~ more)
  BY DEF ServiceResolveReply
<1>7. activeFDs' \subseteq Client
  BY <1>6 DEF OpenAreActive, Client
<1>8. /\ \A m \in Node : registerClient(m) \in activeFDs' <=> registerClient(m) \in activeFDs
      /\ \A r \in Node : queryClient(r) \in activeFDs' <=> queryClient(r) \in activeFDs
      /\ \A r \in Node \ {q}, m \in Name :
            /\ resolveClient(r, m) \in activeFDs' <=> resolveClient(r, m) \in activeFDs
            /\ \A j \in If : addrInfoClient(r, m, j) \in activeFDs' <=> addrInfoClient(r, m, j) \in activeFDs
  BY <1>6, ClientsDiffer
<1>9. \A m \in Name :
         /\ resolveClient(q, m) \in activeFDs' <=> stubs[m].resolving
         /\ \A j \in If : addrInfoClient(q, m, j) \in activeFDs' <=> j \in stubs[m].addrInfo
  BY <1>2, <1>4, <1>5, <1>6, ClientsDiffer DEF OpenAreActive
<1>. QED
  BY <1>3, <1>4, <1>7, <1>8, <1>9, RepliedActive, Zenon

LEMMA AddrInfoReplyActive ==
    ASSUME ListingInv, OpenAreActive, NEW q \in Node, NEW n \in Name, NEW i \in If,
           NEW family \in {"IPv4", "IPv6", "error"}, AddrInfoReply(q, n, i, family)
    PROVE  OpenAreActive'
<1>. DEFINE stub == queryToNodes[q][n]
            heard == [stub EXCEPT !.ipv4 = IF family = "IPv4" THEN stub.ipv4 \cup {i} ELSE stub.ipv4,
                                  !.ipv6 = IF family = "IPv6" THEN stub.ipv6 \cup {i} ELSE stub.ipv6]
            both == i \in heard.ipv4 \cap heard.ipv6
            new == IF both THEN [heard EXCEPT !.addrInfo = heard.addrInfo \ {i}] ELSE heard
            stubs == [queryToNodes[q] EXCEPT ![n] = new]
<1>1. stub \in Stub /\ queryToNodes[q] \in [Name -> Stub]
  BY DEF ListingInv, BonjourTypeOK
<1>2. heard \in Stub /\ heard.addrInfo = stub.addrInfo /\ heard.resolving = stub.resolving
  BY <1>1, Zenon DEF Stub
<1>3. queryToNodes' = [queryToNodes EXCEPT ![q] = stubs]
  BY DEF AddrInfoReply
<1>4. UNCHANGED <<localNodes, queries>>
  BY DEF AddrInfoReply, localVars
<1>5. activeFDs' = activeFDs \ {c \in {addrInfoClient(q, n, i)} : both}
  BY DEF AddrInfoReply
<1>. HIDE DEF heard, both
<1>6. /\ new.addrInfo = IF both THEN stub.addrInfo \ {i} ELSE stub.addrInfo
      /\ new.resolving = stub.resolving
  BY <1>2 DEF Stub
<1>. HIDE DEF new
<1>7. \A m \in Name : stubs[m] = IF m = n THEN new ELSE queryToNodes[q][m]
  BY <1>1
<1>. HIDE DEF stubs
<1>8. \A c : c \in activeFDs' <=> c \in activeFDs /\ ~ (c = addrInfoClient(q, n, i) /\ both)
  BY <1>5
<1>9. activeFDs' \subseteq Client
  BY <1>5 DEF OpenAreActive
<1>10. /\ \A m \in Node : registerClient(m) \in activeFDs' <=> registerClient(m) \in activeFDs
       /\ \A r \in Node : queryClient(r) \in activeFDs' <=> queryClient(r) \in activeFDs
       /\ \A r \in Node \ {q}, m \in Name :
             /\ resolveClient(r, m) \in activeFDs' <=> resolveClient(r, m) \in activeFDs
             /\ \A j \in If : addrInfoClient(r, m, j) \in activeFDs' <=> addrInfoClient(r, m, j) \in activeFDs
  BY <1>8, ClientsDiffer
<1>11. \A m \in Name :
          /\ resolveClient(q, m) \in activeFDs' <=> stubs[m].resolving
          /\ \A j \in If : addrInfoClient(q, m, j) \in activeFDs' <=> j \in stubs[m].addrInfo
  BY <1>6, <1>7, <1>8, ClientsDiffer DEF OpenAreActive
<1>. QED
  BY <1>3, <1>4, <1>9, <1>10, <1>11, RepliedActive, Zenon

LEMMA ActiveStep ==
    ASSUME ListingInv, OpenAreActive, [Next]_vars
    PROVE  OpenAreActive'
<1>1. ASSUME UNCHANGED <<localNodes, queries, queryToNodes, activeFDs>>
      PROVE  OpenAreActive'
  BY <1>1 DEF OpenAreActive
<1>2. CASE UNCHANGED vars
  BY <1>1, <1>2 DEF vars
<1>3. ASSUME NEW n \in Name, NEW i \in If, Appear(n, i) \/ Disappear(n, i)
      PROVE  OpenAreActive'
  BY <1>1, <1>3, Zenon DEF Appear, Disappear, localVars
<1>. QED
  BY <1>2, <1>3, LocalActive, UnbrowseActive, BrowseReplyActive, ServiceResolveReplyActive,
     AddrInfoReplyActive DEF Next, Reply

(* validateState: whatever is registered, browsed, suspended and replied,  *)
(* run() polls the sockets of exactly the open operations.  None belongs   *)
(* to a stub, query or node that is gone, and none is missing.             *)
THEOREM BonjourStateIsValid == Spec => []ValidateState
<1>1. Init => OpenAreActive
  BY DEF Init, OpenAreActive, NoStub
<1>2. ListingInv /\ OpenAreActive => ValidateState
  BY OpenAreActiveImplies DEF ListingInv
<1>3. ListingInv /\ OpenAreActive /\ [Next]_vars => OpenAreActive'
  BY ActiveStep
<1>. QED
  BY <1>1, <1>2, <1>3, ListingInvariant, PTL DEF Spec

-----------------------------------------------------------------------------
(* The stubs follow the network, with the replies that wait in between.    *)

About(reply, n, i) == reply.name = n /\ reply.if = i

(* For a node on an interface: the last reply that waits says whether it   *)
(* is there, and if none waits, whether it is held says so.                *)
Mirrors(replies, n, i, held, there) ==
    /\ \A k \in 1 .. Len(replies) :
          /\ About(replies[k], n, i)
          /\ \A j \in k + 1 .. Len(replies) : ~ About(replies[j], n, i)
          => (replies[k].add <=> there)
    /\ (\A k \in 1 .. Len(replies) : ~ About(replies[k], n, i)) => (held <=> there)

InboxesMirror ==
    \A q \in queries, n \in Name, i \in If :
        Mirrors(inbox[q], n, i, i \in queryToNodes[q][n].ifs, <<n, i>> \in present)

(* A reply that comes in is the last one about its node and interface.     *)
LEMMA MirrorsAppend ==
    ASSUME NEW replies \in Seq(ReplyType), NEW r \in ReplyType, NEW n, NEW i,
           NEW held \in BOOLEAN, NEW was \in BOOLEAN, NEW there \in BOOLEAN,
           Mirrors(replies, n, i, held, was),
           IF About(r, n, i) THEN there = r.add ELSE there = was
    PROVE  Mirrors(Append(replies, r), n, i, held, there)
<1>. DEFINE more == Append(replies, r)
<1>1. /\ Len(replies) \in Nat /\ Len(more) = Len(replies) + 1
      /\ more[Len(more)] = r
      /\ \A k \in 1 .. Len(replies) : more[k] = replies[k]
  OBVIOUS
<1>. HIDE DEF more
<1>2. CASE About(r, n, i)
  <2>1. ASSUME NEW k \in 1 .. Len(more), About(more[k], n, i),
               \A j \in k + 1 .. Len(more) : ~ About(more[j], n, i)
        PROVE  more[k].add <=> there
    <3>1. k = Len(more)
      BY <1>1, <1>2, <2>1
    <3>. QED
      BY <1>1, <1>2, <3>1
  <2>2. ~ \A k \in 1 .. Len(more) : ~ About(more[k], n, i)
    BY <1>1, <1>2
  <2>. QED
    BY <2>1, <2>2 DEF Mirrors, more
<1>3. CASE ~ About(r, n, i)
  <2>1. ASSUME NEW k \in 1 .. Len(more), About(more[k], n, i),
               \A j \in k + 1 .. Len(more) : ~ About(more[j], n, i)
        PROVE  more[k].add <=> there
    <3>1. k \in 1 .. Len(replies) /\ more[k] = replies[k]
      BY <1>1, <1>3, <2>1
    <3>2. \A j \in k + 1 .. Len(replies) : ~ About(replies[j], n, i)
      BY <1>1, <2>1, <3>1
    <3>. QED
      BY <1>3, <2>1, <3>1, <3>2 DEF Mirrors
  <2>2. (\A k \in 1 .. Len(more) : ~ About(more[k], n, i)) => (held <=> there)
    BY <1>1, <1>3 DEF Mirrors
  <2>. QED
    BY <2>1, <2>2 DEF Mirrors, more
<1>. QED
  BY <1>2, <1>3

(* A reply that is taken decides whether the node is held.                 *)
LEMMA MirrorsTail ==
    ASSUME NEW replies \in Seq(ReplyType), replies # <<>>, NEW n, NEW i,
           NEW held \in BOOLEAN, NEW now \in BOOLEAN, NEW there \in BOOLEAN,
           Mirrors(replies, n, i, held, there),
           IF About(Head(replies), n, i) THEN now = Head(replies).add ELSE now = held
    PROVE  Mirrors(Tail(replies), n, i, now, there)
<1>. DEFINE rest == Tail(replies)
<1>1. /\ Len(replies) \in Nat \ {0} /\ Len(rest) = Len(replies) - 1
      /\ Head(replies) = replies[1]
      /\ \A k \in 1 .. Len(rest) : rest[k] = replies[k + 1]
  OBVIOUS
<1>. HIDE DEF rest
<1>2. ASSUME NEW k \in 1 .. Len(rest), About(rest[k], n, i),
             \A j \in k + 1 .. Len(rest) : ~ About(rest[j], n, i)
      PROVE  rest[k].add <=> there
  <2>1. k + 1 \in 1 .. Len(replies) /\ rest[k] = replies[k + 1]
    BY <1>1
  <2>2. ASSUME NEW j \in (k + 1) + 1 .. Len(replies)
        PROVE  ~ About(replies[j], n, i)
    <3>1. j - 1 \in k + 1 .. Len(rest) /\ rest[j - 1] = replies[(j - 1) + 1] /\ (j - 1) + 1 = j
      BY <1>1
    <3>. QED
      BY <1>2, <3>1
  <2>. QED
    BY <1>2, <2>1, <2>2 DEF Mirrors
<1>3. ASSUME \A k \in 1 .. Len(rest) : ~ About(rest[k], n, i)
      PROVE  now <=> there
  <2>1. ASSUME NEW j \in 2 .. Len(replies)
        PROVE  ~ About(replies[j], n, i)
    <3>1. j - 1 \in 1 .. Len(rest) /\ rest[j - 1] = replies[(j - 1) + 1] /\ (j - 1) + 1 = j
      BY <1>1
    <3>. QED
      BY <1>3, <3>1
  <2>2. CASE About(Head(replies), n, i)
    <3>1. 1 \in 1 .. Len(replies) /\ 1 + 1 = 2
      BY <1>1
    <3>. QED
      BY <1>1, <2>1, <2>2, <3>1 DEF Mirrors
  <2>3. CASE ~ About(Head(replies), n, i)
    <3>1. \A k \in 1 .. Len(replies) : ~ About(replies[k], n, i)
      <4>1. TAKE k \in 1 .. Len(replies)
      <4>2. k = 1 \/ k \in 2 .. Len(replies)
        BY <1>1
      <4>. QED
        BY <1>1, <2>1, <2>3, <4>2
    <3>. QED
      BY <2>3, <3>1 DEF Mirrors
  <2>. QED
    BY <2>2, <2>3
<1>. QED
  BY <1>2, <1>3 DEF Mirrors, rest

(* The replies to a new browse operation name all that is there.           *)
LEMMA MirrorsAnnouncements ==
    ASSUME BonjourTypeOK, NEW replies \in Announcements, NEW n \in Name, NEW i \in If
    PROVE  Mirrors(replies, n, i, FALSE, <<n, i>> \in present)
<1>. DEFINE c == Cardinality(present)
<1>1. IsFiniteSet(present)
  BY InterfaceAssumption, FS_Subset DEF BonjourTypeOK
<1>2. c \in Nat
  BY <1>1, FS_CardinalityType
<1>3. PICK s \in [1 .. c -> present] :
         /\ replies = [k \in 1 .. c |-> [name |-> s[k][1], if |-> s[k][2], add |-> TRUE]]
         /\ \A j, k \in DOMAIN s : s[j] = s[k] => j = k
  BY DEF Announcements
<1>4. Cardinality(1 .. c) = c
  BY <1>2, FS_Interval
<1>5. s \in Surjection(1 .. c, present)
  <2>1. s \in Injection(1 .. c, present)
    BY <1>3 DEF Injection, IsInjective
  <2>. QED
    BY <1>1, <1>4, <2>1, FS_Injection
<1>. HIDE DEF c
<1>6. Len(replies) = c /\ \A k \in 1 .. c :
         replies[k].name = s[k][1] /\ replies[k].if = s[k][2] /\ replies[k].add = TRUE
  BY <1>2, <1>3
<1>7. \A k \in 1 .. c : About(replies[k], n, i) <=> s[k] = <<n, i>>
  <2>1. TAKE k \in 1 .. c
  <2>2. s[k] \in Name \X If
    BY DEF BonjourTypeOK
  <2>. QED
    BY <1>6, <2>2 DEF About
<1>8. \A k \in 1 .. c : About(replies[k], n, i) => <<n, i>> \in present
  BY <1>7
<1>9. <<n, i>> \in present => \E k \in 1 .. c : About(replies[k], n, i)
  BY <1>5, <1>7, Zenon DEF Surjection
<1>. QED
  BY <1>6, <1>8, <1>9 DEF Mirrors

LEMMA StartBrowsingMirrors ==
    ASSUME ListingInv, InboxesMirror, NEW new \in SUBSET (Node \ queries), StartBrowsing(new),
           UNCHANGED present
    PROVE  InboxesMirror'
<1>1. PICK replies \in [new -> Announcements] :
         inbox' = [q \in Node |-> IF q \in new THEN replies[q] ELSE inbox[q]]
  BY DEF StartBrowsing
<1>2. queries' = queries \cup new /\ queryToNodes' = queryToNodes /\ queries \subseteq Node
  BY DEF StartBrowsing, ListingInv, BonjourTypeOK
<1>. SUFFICES ASSUME NEW q \in queries', NEW n \in Name, NEW i \in If
              PROVE  Mirrors(inbox'[q], n, i, i \in queryToNodes[q][n].ifs, <<n, i>> \in present)
  BY <1>2, Zenon DEF InboxesMirror
<1>3. CASE q \in new
  <2>1. inbox'[q] = replies[q] /\ replies[q] \in Announcements
    BY <1>1, <1>3
  <2>2. queryToNodes[q][n].ifs = {}
    BY <1>3 DEF ListingInv, StubsOfQueries, NoStub
  <2>3. Mirrors(replies[q], n, i, FALSE, <<n, i>> \in present)
    BY <2>1, MirrorsAnnouncements, Zenon DEF ListingInv
  <2>. QED
    BY <2>1, <2>2, <2>3, Zenon DEF Mirrors
<1>4. CASE q \notin new
  <2>1. q \in queries /\ inbox'[q] = inbox[q]
    BY <1>1, <1>2, <1>4
  <2>. QED
    BY <2>1, Zenon DEF InboxesMirror
<1>. QED
  BY <1>3, <1>4

LEMMA UnbrowseMirrors ==
    ASSUME ListingInv, InboxesMirror, NEW q \in Node, Unbrowse(q)
    PROVE  InboxesMirror'
<1>1. /\ queries' = queries \ {q} /\ present' = present
      /\ \A r \in Node \ {q} : queryToNodes'[r] = queryToNodes[r] /\ inbox'[r] = inbox[r]
  BY DEF Unbrowse, ListingInv, BonjourTypeOK
<1>. SUFFICES ASSUME NEW r \in queries', NEW n \in Name, NEW i \in If
              PROVE  Mirrors(inbox'[r], n, i, i \in queryToNodes'[r][n].ifs, <<n, i>> \in present)
  BY <1>1, Zenon DEF InboxesMirror
<1>2. r \in queries /\ queryToNodes'[r] = queryToNodes[r] /\ inbox'[r] = inbox[r]
  BY <1>1, Zenon DEF ListingInv, BonjourTypeOK
<1>. QED
  BY <1>2 DEF InboxesMirror

LEMMA BrowseReplyMirrors ==
    ASSUME ListingInv, InboxesMirror, NEW q \in Node, NEW more \in BOOLEAN, BrowseReply(q, more)
    PROVE  InboxesMirror'
<1>. DEFINE reply == Head(inbox[q])
<1>1. /\ inbox[q] \in Seq(ReplyType) /\ inbox[q] # <<>>
      /\ q \in queries /\ reply \in ReplyType
      /\ inbox' = [inbox EXCEPT ![q] = Tail(inbox[q])]
      /\ inbox \in [Node -> Seq(ReplyType)]
  BY BrowseReplyFacts, Zenon DEF BrowseReply, ListingInv, BonjourTypeOK, ReplyType
<1>2. /\ queryToNodes' = [queryToNodes EXCEPT ![q] = BrowsedStubs(q, more)]
      /\ queries' = queries /\ present' = present
  BY BrowseReplyEffect, Zenon
<1>3. \A n \in Name : BrowsedStubs(q, more)[n].ifs =
         IF n = reply.name THEN BrowsedStub(q).ifs ELSE queryToNodes[q][n].ifs
  BY <1>1, BrowsedStubsFacts, Zenon
<1>4. BrowsedStub(q).ifs = IF reply.add THEN queryToNodes[q][reply.name].ifs \cup {reply.if}
                                        ELSE queryToNodes[q][reply.name].ifs \ {reply.if}
  BY <1>1, BrowsedStubFacts, Zenon
<1>5. queryToNodes \in [Node -> [Name -> Stub]] /\ queries \subseteq Node
  BY DEF ListingInv, BonjourTypeOK
<1>. SUFFICES ASSUME NEW r \in queries, NEW n \in Name, NEW i \in If
              PROVE  Mirrors(inbox'[r], n, i, i \in queryToNodes'[r][n].ifs, <<n, i>> \in present)
  BY <1>2, Zenon DEF InboxesMirror
<1>6. Mirrors(inbox[r], n, i, i \in queryToNodes[r][n].ifs, <<n, i>> \in present)
  BY DEF InboxesMirror
<1>7. CASE r = q
  <2>. DEFINE held == i \in queryToNodes[q][n].ifs
              now == i \in BrowsedStubs(q, more)[n].ifs
  <2>. HIDE DEF reply
  <2>1. reply.add \in BOOLEAN
    BY <1>1 DEF ReplyType
  <2>2. IF About(reply, n, i) THEN now = reply.add ELSE now = held
    BY <1>3, <1>4, <2>1 DEF About
  <2>3. Mirrors(Tail(inbox[q]), n, i, now, <<n, i>> \in present)
    <3>1. Mirrors(inbox[q], n, i, held, <<n, i>> \in present)
      BY <1>6, <1>7
    <3>2. held \in BOOLEAN /\ now \in BOOLEAN /\ (<<n, i>> \in present) \in BOOLEAN
      OBVIOUS
    <3>. HIDE DEF held, now
    <3>. QED
      BY <1>1, <2>2, <3>1, <3>2, MirrorsTail, Zenon DEF reply
  <2>4. inbox'[r] = Tail(inbox[q]) /\ queryToNodes'[r] = BrowsedStubs(q, more)
    BY <1>1, <1>2, <1>5, <1>7
  <2>. QED
    BY <2>3, <2>4
<1>8. CASE r # q
  <2>1. inbox'[r] = inbox[r] /\ queryToNodes'[r] = queryToNodes[r]
    BY <1>1, <1>2, <1>5, <1>8, Zenon
  <2>. QED
    BY <1>6, <2>1
<1>. QED
  BY <1>7, <1>8

(* The answers on hosts and addresses leave the interfaces of a stub.      *)
LEMMA ResolvedMirrors ==
    ASSUME ListingInv, InboxesMirror, NEW q \in Node, NEW n \in Name, NEW new \in Stub,
           ResolvedStub(q, n, new)
    PROVE  InboxesMirror'
<1>1. /\ UNCHANGED <<queries, present, inbox>>
      /\ \A r \in Node, m \in Name : queryToNodes'[r][m].ifs = queryToNodes[r][m].ifs
  BY DEF ResolvedStub, ListingInv, BonjourTypeOK
<1>. SUFFICES ASSUME NEW r \in queries, NEW m \in Name, NEW i \in If
              PROVE  Mirrors(inbox[r], m, i, i \in queryToNodes'[r][m].ifs, <<m, i>> \in present)
  BY <1>1, Zenon DEF InboxesMirror
<1>2. r \in Node
  BY Zenon DEF ListingInv, BonjourTypeOK
<1>. QED
  BY <1>1, <1>2, Zenon DEF InboxesMirror

LEMMA NetworkMirrors ==
    ASSUME ListingInv, InboxesMirror, NEW n \in Name, NEW i \in If, Appear(n, i) \/ Disappear(n, i)
    PROVE  InboxesMirror'
<1>1. PICK add \in BOOLEAN :
         /\ Tell(n, i, add)
         /\ present' = IF add THEN present \cup {<<n, i>>} ELSE present \ {<<n, i>>}
         /\ UNCHANGED <<queries, queryToNodes>>
  BY Zenon DEF Appear, Disappear
<1>. DEFINE reply == [name |-> n, if |-> i, add |-> add]
<1>2. reply \in ReplyType /\ inbox \in [Node -> Seq(ReplyType)] /\ queries \subseteq Node
  BY Zenon DEF ReplyType, ListingInv, BonjourTypeOK
<1>. SUFFICES ASSUME NEW q \in queries, NEW m \in Name, NEW j \in If
              PROVE  Mirrors(inbox'[q], m, j, j \in queryToNodes[q][m].ifs, <<m, j>> \in present')
  BY <1>1, Zenon DEF InboxesMirror
<1>. DEFINE held == j \in queryToNodes[q][m].ifs
            was == <<m, j>> \in present
            there == <<m, j>> \in present'
<1>3. inbox'[q] = Append(inbox[q], reply)
  BY <1>1, <1>2 DEF Tell
<1>4. Mirrors(inbox[q], m, j, held, was)
  BY DEF InboxesMirror
<1>5. IF About(reply, m, j) THEN there = reply.add ELSE there = was
  <2>1. <<m, j>> = <<n, i>> <=> m = n /\ j = i
    OBVIOUS
  <2>2. there <=> IF m = n /\ j = i THEN add ELSE was
    BY <1>1, <2>1
  <2>. QED
    BY <2>2 DEF About
<1>6. held \in BOOLEAN /\ was \in BOOLEAN /\ there \in BOOLEAN
  OBVIOUS
<1>7. Mirrors(Append(inbox[q], reply), m, j, held, there)
  <2>. HIDE DEF held, was, there, reply
  <2>. QED
    BY <1>2, <1>4, <1>5, <1>6, MirrorsAppend
<1>. QED
  BY <1>3, <1>7

LEMMA MirrorStep ==
    ASSUME ListingInv, InboxesMirror, [Next]_vars
    PROVE  InboxesMirror'
<1>1. ASSUME UNCHANGED <<queries, queryToNodes, present, inbox>>
      PROVE  InboxesMirror'
  BY <1>1, Zenon DEF InboxesMirror
<1>2. CASE UNCHANGED vars
  BY <1>1, <1>2 DEF vars
<1>3. ASSUME NEW m \in Node, Add(m) \/ Remove(m)
      PROVE  InboxesMirror'
  BY <1>1, <1>3 DEF Add, Remove
<1>4. CASE Suspend
  BY <1>1, <1>4 DEF Suspend
<1>5. ASSUME NEW q \in Node, Browse(q)
      PROVE  InboxesMirror'
  BY <1>5, StartBrowsingMirrors DEF Browse
<1>6. CASE Resume
  <2>1. suspendedNodes \ queries \in SUBSET (Node \ queries)
    BY DEF ListingInv, BonjourTypeOK
  <2>. QED
    BY <1>6, <2>1, StartBrowsingMirrors DEF Resume
<1>7. ASSUME NEW q \in Node, NEW n \in Name, NEW i \in If, NEW more \in BOOLEAN,
             ServiceResolveReply(q, n, i, more)
      PROVE  InboxesMirror'
  BY <1>7, ServiceResolveReplyEffect, ResolvedMirrors
<1>8. ASSUME NEW q \in Node, NEW n \in Name, NEW i \in If,
             NEW family \in {"IPv4", "IPv6", "error"}, AddrInfoReply(q, n, i, family)
      PROVE  InboxesMirror'
  BY <1>8, AddrInfoReplyEffect, ResolvedMirrors
<1>. QED
  BY <1>2, <1>3, <1>4, <1>5, <1>6, <1>7, <1>8, UnbrowseMirrors, BrowseReplyMirrors,
     NetworkMirrors DEF Next, Reply

(* browseReply keeps up with the network: once the daemon has nothing more *)
(* to tell a query, its stubs are those of the nodes that are there, each  *)
(* on its interfaces, however often they came and went before.             *)
THEOREM BonjourFollowsNetwork == Spec => []QuietStubsPresent
<1>1. Init => InboxesMirror
  BY DEF Init, InboxesMirror
<1>2. ListingInv /\ InboxesMirror /\ [Next]_vars => InboxesMirror'
  BY MirrorStep
<1>3. ListingInv /\ InboxesMirror => QuietStubsPresent
  <2>. SUFFICES ASSUME ListingInv, InboxesMirror, NEW q \in queries, inbox[q] = <<>>, NEW n \in Name
                PROVE  queryToNodes[q][n].ifs = {i \in If : <<n, i>> \in present}
    BY DEF QuietStubsPresent
  <2>1. \A i \in If : i \in queryToNodes[q][n].ifs <=> <<n, i>> \in present
    BY DEF InboxesMirror, Mirrors
  <2>2. queryToNodes[q][n].ifs \subseteq If
    BY DEF ListingInv, BonjourTypeOK, Stub
  <2>. QED
    BY <2>1, <2>2
<1>. QED
  BY <1>1, <1>2, <1>3, ListingInvariant, PTL DEF Spec
=============================================================================
