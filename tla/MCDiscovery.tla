---------------------------- MODULE MCDiscovery ----------------------------
(***************************************************************************)
(* Node discovery with a bounded number of changes of the network.  A      *)
(* build contains one of the two implementations, chosen here in the       *)
(* initial state; the variables of the other one are never changed.        *)
(***************************************************************************)
EXTENDS BonjourNodeDiscovery

CONSTANTS
    Backend,        \* the implementations checked
    MaxChanges,     \* how often a service appears or disappears, in all,
    MaxAvChanges,   \* with Bonjour and with Avahi
    Steady,         \* the nodes that appear on one interface, and stay
    OnlyIPv6        \* the nodes without an IPv4 address on any interface

MCIPv4 == (Name \ OnlyIPv6) \X If

VARIABLES
    backend, changes,
    (* the variables of AvahiNodeDiscovery *)
    avLocalNodes, avSuspendedNodes, avIsSuspended, avahiClients, avahiGroups, avQueries,
    queryNodes, avNodes, resolvers, avPresent, avInbox

Avahi == INSTANCE AvahiNodeDiscovery WITH
    localNodes <- avLocalNodes, suspendedNodes <- avSuspendedNodes,
    isSuspended <- avIsSuspended, queries <- avQueries, nodes <- avNodes,
    present <- avPresent, inbox <- avInbox

avahiVars == <<avLocalNodes, avSuspendedNodes, avIsSuspended, avahiClients, avahiGroups,
               avQueries, queryNodes, avNodes, resolvers, avPresent, avInbox>>

mcVars == <<vars, avahiVars, backend, changes>>

MCInit ==
    /\ Init
    /\ Avahi!Init
    /\ backend \in Backend
    /\ changes = 0

Change(max) == changes < max /\ changes' = changes + 1

BonjourNext ==
    \/ /\ \E m \in Node : Add(m) \/ Remove(m) \/ Browse(m) \/ Unbrowse(m) \/ Reply(m)
       /\ UNCHANGED changes
    \/ Suspend /\ UNCHANGED changes
    \/ Resume /\ UNCHANGED changes
    \/ \E n \in Name, i \in If :
          /\ Change(MaxChanges)
          /\ n \in Steady => \A j \in If : <<n, j>> \notin present
          /\ Appear(n, i) \/ Disappear(n, i)

AvahiNext ==
    \/ /\ \E m \in Node :
             \/ Avahi!Add(m) \/ Avahi!ClientCallback(m) \/ Avahi!Remove(m)
             \/ Avahi!Browse(m) \/ Avahi!Unbrowse(m) \/ Avahi!BrowseCallback(m)
             \/ \E s \in Avahi!Service, found \in BOOLEAN : Avahi!ResolveCallback(m, s, found)
       /\ UNCHANGED changes
    \/ Avahi!Suspend /\ UNCHANGED changes
    \/ Avahi!Resume /\ UNCHANGED changes
    \/ \E s \in Avahi!Service :
          /\ Change(MaxAvChanges)
          /\ s.name \in Steady => \A t \in avPresent : t.name # s.name
          /\ Avahi!Appear(s) \/ Avahi!Disappear(s)

MCNext ==
    \/ backend = "bonjour" /\ BonjourNext /\ UNCHANGED <<avahiVars, backend>>
    \/ backend = "avahi" /\ AvahiNext /\ UNCHANGED <<vars, backend>>

MCSpec == MCInit /\ [][MCNext]_mcVars

MCFairSpec == MCSpec /\ Fairness

-----------------------------------------------------------------------------
(* Properties of the Avahi implementation.                                 *)

AvahiTypeOK == Avahi!AvahiTypeOK

(* What validateState() of AvahiNodeDiscovery asserts.                     *)
AvahiValidateState == Avahi!AvahiValidateState

(* A node that is known to a query vanishes with its last announcement.    *)
AvahiNodesPresent == Avahi!QuietNodesPresent

(* The Avahi implementation too tells a listener of a node only while it    *)
(* knows the node, and of its removal when it forgets it.                  *)
AvahiListing == Avahi!AvahiListing
=============================================================================
