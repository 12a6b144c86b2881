----------------------------- MODULE NBandCache -----------------------------
(***************************************************************************)
(* A cache of items in bands (NBandCache.cpp).  The items of a band are a  *)
(* doubly linked list in the order of their names, the bands a list in the *)
(* order of theirs, and every band has a current item through which the    *)
(* neighbouring bands are left.  Pointers walk over the items.             *)
(*                                                                         *)
(* The two proxies of a band, for the band above and the band below, get   *)
(* the same _currentItem wherever it is set; it is current[b].  Names are  *)
(* numbers.  All operations hold the _mutex of the cache.                  *)
(***************************************************************************)
EXTENDS Integers, FiniteSets

CONSTANTS
    Item, Pointer,
    name, band,        \* _name and _band of an item
    Null

Band == {band[x] : x \in Item}

ASSUME CacheAssumption ==
    /\ name \in [Item -> Int]
    /\ band \in [Item -> Int]
    /\ Null \notin Item \cup Int

VARIABLES
    cacheItems,        \* _cacheItems: all items, linked or not
    linked,            \* the items in _bands
    left, right,       \* _left and _right of an item
    above, below,      \* the band behind the _otherBand of the two proxies
    current,           \* _currentItem of the proxies of a band
    item,              \* _item of a pointer, Null when the application has none
    expired            \* _cachePointers holds a weak_ptr to a pointer that is gone

cacheVars == <<cacheItems, linked, left, right, above, below, current, item, expired>>

CacheInit ==
    /\ cacheItems = {}
    /\ linked = {}
    /\ left = [x \in Item |-> Null]
    /\ right = [x \in Item |-> Null]
    /\ above = [b \in Band |-> Null]
    /\ below = [b \in Band |-> Null]
    /\ current = [b \in Band |-> Null]
    /\ item = [p \in Pointer |-> Null]
    /\ expired = FALSE

InBand(b) == {x \in linked : band[x] = b}

\* The bands that have proxies: a band comes with its first item.
Bands == {band[x] : x \in linked}

-----------------------------------------------------------------------------
(* The neighbours of a key in a map, as its iterators find them: Null before  *)
(* begin and at end.                                                          *)

ItemBefore(l, x) ==
    LET before == {z \in InBand(band[x]) : name[z] < name[x]}
    IN  IF before = {} THEN l = Null
        ELSE l \in before /\ \A z \in before : name[z] <= name[l]

ItemAfter(r, x) ==
    LET after == {z \in InBand(band[x]) : name[z] > name[x]}
    IN  IF after = {} THEN r = Null
        ELSE r \in after /\ \A z \in after : name[r] <= name[z]

BandBefore(a, b) ==
    LET before == {c \in Bands : c < b}
    IN  IF before = {} THEN a = Null
        ELSE a \in before /\ \A c \in before : c <= a

BandAfter(d, b) ==
    LET after == {c \in Bands : c > b}
    IN  IF after = {} THEN d = Null
        ELSE d \in after /\ \A c \in after : d <= c

-----------------------------------------------------------------------------
(* insert.                                                                    *)

\* Mutant: the proxies get no item.
InsertBandEmpty(x) ==
    LET b == band[x]
    IN  \E a, d \in Band \cup {Null} :
            /\ BandBefore(a, b) /\ BandAfter(d, b)
            /\ above' = [c \in Band |-> IF c = b THEN a ELSE IF c = d THEN b ELSE above[c]]
            /\ below' = [c \in Band |-> IF c = b THEN d ELSE IF c = a THEN b ELSE below[c]]
            /\ UNCHANGED current

\* A new band gets its proxies, between the band above and the band below.
InsertBand(x) ==
    LET b == band[x]
    IN  \E a, d \in Band \cup {Null} :
            /\ BandBefore(a, b) /\ BandAfter(d, b)
            /\ above' = [c \in Band |-> IF c = b THEN a ELSE IF c = d THEN b ELSE above[c]]
            /\ below' = [c \in Band |-> IF c = b THEN d ELSE IF c = a THEN b ELSE below[c]]
            /\ current' = [current EXCEPT ![b] = x]

\* Mutant: the item after the new one is not told.
LinkItemOneWay(x) ==
    \E l, r \in Item \cup {Null} :
        /\ ItemBefore(l, x) /\ ItemAfter(r, x)
        /\ left' = [left EXCEPT ![x] = l]
        /\ right' = [y \in Item |-> IF y = x THEN r ELSE IF y = l THEN x ELSE right[y]]

LinkItem(x) ==
    \E l, r \in Item \cup {Null} :
        /\ ItemBefore(l, x) /\ ItemAfter(r, x)
        /\ left' = [y \in Item |-> IF y = x THEN l ELSE IF y = r THEN x ELSE left[y]]
        /\ right' = [y \in Item |-> IF y = x THEN r ELSE IF y = l THEN x ELSE right[y]]

\* An item with a name that its band already has is kept, but not linked.
Insert(x) ==
    /\ x \notin cacheItems
    /\ cacheItems' = cacheItems \cup {x}
    /\ \/ band[x] \notin Bands /\ InsertBand(x)
       \/ band[x] \in Bands /\ UNCHANGED <<above, below, current>>
    /\ \/ /\ \E y \in InBand(band[x]) : name[y] = name[x]
          /\ UNCHANGED <<linked, left, right>>
       \/ /\ \A y \in InBand(band[x]) : name[y] # name[x]
          /\ linked' = linked \cup {x}
          /\ LinkItem(x)
    /\ UNCHANGED <<item, expired>>

-----------------------------------------------------------------------------
(* Pointers.                                                                  *)

\* The element elemId steps to the right of the first one.
Element(b, elemId) ==
    LET first == CHOOSE x \in InBand(b) : \A y \in InBand(b) : name[x] <= name[y]
        walk[i \in 0 .. elemId] == IF i = 0 THEN first ELSE right[walk[i - 1]]
    IN  walk[elemId]

\* The current item of a band, or the element with an id, which may be any item
\* of the band (ElementIdsInverse); no pointer for a band that does not exist.
\* It takes the place of the one the application had.
GetPointer(p, b) ==
    /\ b \in Bands
    /\ expired' = (expired \/ item[p] # Null)
    /\ \/ item' = [item EXCEPT ![p] = current[b]]
       \/ \E x \in InBand(b) : item' = [item EXCEPT ![p] = x]
    /\ UNCHANGED <<cacheItems, linked, left, right, above, below, current>>

\* The application lets go of a pointer; the cache keeps a weak_ptr to it.
Release(p) ==
    /\ item[p] # Null
    /\ item' = [item EXCEPT ![p] = Null]
    /\ expired' = TRUE
    /\ UNCHANGED <<cacheItems, linked, left, right, above, below, current>>

\* resetDistances erases them, or steps over some, which leaves expired as it is
\* (what it computes is in StructuredCache).
EraseExpired ==
    /\ expired
    /\ expired' = FALSE
    /\ UNCHANGED <<cacheItems, linked, left, right, above, below, current, item>>

\* Mutant: the item itself is counted.
GetElementIdFromOne(x) ==
    LET count[y \in linked] == IF left[y] = Null THEN 1 ELSE count[left[y]] + 1
    IN  count[x]

\* The number of steps to the left end of the band.
GetElementId(x) ==
    LET count[y \in linked] == IF left[y] = Null THEN 0 ELSE count[left[y]] + 1
    IN  count[x]

\* left and right: nothing happens at the end of the band; with moveBand the
\* current item of the band follows.
Step(p, y, moveBand) ==
    /\ y # Null
    /\ item' = [item EXCEPT ![p] = y]
    /\ current' = IF moveBand THEN [current EXCEPT ![band[item[p]]] = y] ELSE current
    /\ UNCHANGED <<cacheItems, linked, left, right, above, below, expired>>

Left(p, moveBand) == item[p] # Null /\ Step(p, left[item[p]], moveBand)
Right(p, moveBand) == item[p] # Null /\ Step(p, right[item[p]], moveBand)

\* up and down: the pointer goes to the current item of the neighbouring band.
ChangeBand(p, b) ==
    /\ b # Null
    /\ item' = [item EXCEPT ![p] = current[b]]
    /\ UNCHANGED <<cacheItems, linked, left, right, above, below, current, expired>>

Up(p) == item[p] # Null /\ ChangeBand(p, above[band[item[p]]])
Down(p) == item[p] # Null /\ ChangeBand(p, below[band[item[p]]])

CacheNext ==
    \/ \E x \in Item : Insert(x)
    \/ \E p \in Pointer :
           \/ \E b \in Band : GetPointer(p, b)
           \/ \E moveBand \in BOOLEAN : Left(p, moveBand) \/ Right(p, moveBand)
           \/ Up(p) \/ Down(p)
           \/ Release(p)
    \/ EraseExpired

CacheSpec == CacheInit /\ [][CacheNext]_cacheVars

-----------------------------------------------------------------------------
(* Properties.                                                                *)

CacheTypeOK ==
    /\ cacheItems \subseteq Item
    /\ linked \subseteq cacheItems
    /\ left \in [Item -> Item \cup {Null}]
    /\ right \in [Item -> Item \cup {Null}]
    /\ above \in [Band -> Band \cup {Null}]
    /\ below \in [Band -> Band \cup {Null}]
    /\ current \in [Band -> Item \cup {Null}]
    /\ item \in [Pointer -> Item \cup {Null}]
    /\ expired \in BOOLEAN

(* The lists are in order, in both directions (insert): the neighbours of an  *)
(* item are the items of its band with the next smaller and the next larger   *)
(* name, and the neighbours of a band the next bands.                         *)
ListsInOrder ==
    /\ \A x \in linked : ItemBefore(left[x], x) /\ ItemAfter(right[x], x)
    /\ \A b \in Bands : BandBefore(above[b], b) /\ BandAfter(below[b], b)

(* getElementId and getPointer are inverse: the element with the id of an     *)
(* item is the item, whatever was inserted around it.                         *)
ElementIdsInverse ==
    \A x \in linked :
        /\ GetElementId(x) \in 0 .. Cardinality(InBand(band[x])) - 1
        /\ Element(band[x], GetElementId(x)) = x

(* The current item of a band belongs to the band, however pointers have      *)
(* moved it, so a pointer that goes up and down arrives at an item of the     *)
(* neighbouring band (asserted in up and down).                               *)
CurrentInBand ==
    /\ \A b \in Bands : current[b] \in InBand(b)
    /\ \A p \in Pointer : item[p] \in linked \cup {Null}

=============================================================================
