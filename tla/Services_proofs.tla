-------------------------- MODULE Services_proofs ---------------------------
(***************************************************************************)
(* What holds of the calls of a service, of the directory listing service  *)
(* and of the lists of NBandCache, for any number of stubs, files and      *)
(* items.                                                                  *)
(*                                                                         *)
(* Calls of any number of threads return their own result, and a reply     *)
(* that was sent is not lost.  What follows a request from the call to its *)
(* return: until the reply is there it is underway, to the service or back *)
(* to its stub (Underway), and its stub was linked when it was made and so *)
(* is for good (LinkedWhenMade).                                           *)
(*                                                                         *)
(* updateEntries is due whenever files came or went unnoticed, but for the *)
(* files it stepped over. The listener of a client, from when it connects, *)
(* ends up with the files the service knows, but for those reported before *)
(* it came. The first needs to know, while updateEntries runs, that the    *)
(* directory is as it was read unless it changed in this very second       *)
(* (ReadOrNow). The second needs to know what the notifications underway   *)
(* add up to: the last one about a file says whether the service knows it  *)
(* (LastNote), once the client is connected.                               *)
(*                                                                         *)
(* The lists of NBandCache stay in order, for any items, and the current   *)
(* item of a band stays one of its items.                                  *)
(*                                                                         *)
(* ListsInOrder is not inductive alone: that the new item becomes the      *)
(* neighbour of no item but the two it is linked to needs that the names   *)
(* in a band are different.  That a pointer moves within the lists needs   *)
(* that they are in order.                                                 *)
(***************************************************************************)
EXTENDS NBandCache, ServiceCall, DirectoryListing, TLAPS

NamesDiffer == \A x, y \in linked : band[x] = band[y] /\ name[x] = name[y] => x = y

CacheInv == CacheTypeOK /\ ListsInOrder /\ CurrentInBand /\ NamesDiffer

LEMMA ItemFacts ==
    ASSUME NEW x \in Item
    PROVE  name[x] \in Int /\ band[x] \in Int /\ band[x] \in Band /\ x # Null
BY CacheAssumption DEF Band

LEMMA BandFacts ==
    ASSUME NEW b \in Band
    PROVE  b \in Int /\ b # Null
BY CacheAssumption DEF Band

LEMMA InitInv == CacheInit => CacheInv
BY Zenon DEF CacheInit, CacheInv, CacheTypeOK, ListsInOrder, CurrentInBand, NamesDiffer, Bands, InBand

-----------------------------------------------------------------------------
(* insert.                                                                    *)

\* A new item between its neighbours keeps the list of its band in order.
LEMMA LinkedInOrder ==
    ASSUME CacheInv, NEW x \in Item, x \notin linked,
           \A y \in InBand(band[x]) : name[y] # name[x],
           linked' = linked \cup {x}, LinkItem(x)
    PROVE  /\ left' \in [Item -> Item \cup {Null}] /\ right' \in [Item -> Item \cup {Null}]
           /\ \A y \in linked' : ItemBefore(left[y], y)' /\ ItemAfter(right[y], y)'
<1>1. PICK l, r \in Item \cup {Null} :
          /\ ItemBefore(l, x) /\ ItemAfter(r, x)
          /\ left' = [y \in Item |-> IF y = x THEN l ELSE IF y = r THEN x ELSE left[y]]
          /\ right' = [y \in Item |-> IF y = x THEN r ELSE IF y = l THEN x ELSE right[y]]
  BY DEF LinkItem
<1>2. /\ left' \in [Item -> Item \cup {Null}] /\ right' \in [Item -> Item \cup {Null}]
  BY <1>1 DEF CacheInv, CacheTypeOK
<1>3. linked \subseteq Item /\ \A y \in Item : name[y] \in Int /\ y # Null
  BY ItemFacts DEF CacheInv, CacheTypeOK
<1>4. ASSUME NEW y \in linked' PROVE ItemBefore(left[y], y)' /\ ItemAfter(right[y], y)'
  <2>1. y \in Item
    BY <1>3
  <2>2. CASE y = x
    <3>1. /\ left'[y] = l /\ right'[y] = r
          /\ \A z : z \in InBand(band[y])' /\ name[z] # name[x] <=> z \in InBand(band[x])
      BY <1>1, <2>1, <2>2 DEF InBand
    <3> QED
      BY <1>1, <1>3, <2>2, <3>1 DEF ItemBefore, ItemAfter, InBand
  <2>3. CASE y # x /\ band[y] # band[x]
    <3>1. y # l /\ y # r
      BY <1>1, <1>3, <2>1, <2>3 DEF ItemBefore, ItemAfter, InBand
    <3>2. left'[y] = left[y] /\ right'[y] = right[y]
      BY <1>1, <2>1, <2>3, <3>1
    <3>3. InBand(band[y])' = InBand(band[y])
      BY <2>3 DEF InBand
    <3>4. y \in linked
      BY <2>3
    <3> QED
      BY <3>2, <3>3, <3>4 DEF CacheInv, ListsInOrder, ItemBefore, ItemAfter
  <2>4. CASE y # x /\ band[y] = band[x]
    <3>1. y \in linked /\ InBand(band[y])' = InBand(band[x]) \cup {x}
      BY <2>4 DEF InBand
    <3>2. ItemBefore(left[y], y) /\ ItemAfter(right[y], y) /\ name[y] # name[x]
      BY <2>4, <3>1 DEF CacheInv, ListsInOrder, InBand
    <3>3. \A z \in InBand(band[x]) : z \in Item /\ name[z] \in Int /\ (name[z] = name[y] => z = y)
      BY <1>3, <2>4, <3>1 DEF CacheInv, NamesDiffer, InBand
    <3>4. y \in InBand(band[x])
      BY <2>4, <3>1 DEF InBand
    <3>5. ItemBefore(left[y], y)'
      <4>1. CASE y = r
        <5>1. left'[y] = x
          BY <1>1, <2>1, <2>4, <4>1
        <5> QED
          BY <1>1, <1>3, <2>4, <3>1, <3>3, <3>4, <4>1, <5>1 DEF ItemBefore, ItemAfter
      <4>2. CASE y # r
        <5>1. left'[y] = left[y]
          BY <1>1, <2>1, <2>4, <4>2
        <5>2. CASE name[y] < name[x]
          BY <1>3, <2>1, <2>4, <3>1, <3>2, <3>3, <5>1, <5>2 DEF ItemBefore
        <5>3. CASE name[x] < name[y]
          <6>1. r \in InBand(band[x]) /\ name[x] < name[r] /\ name[r] < name[y]
            BY <1>1, <1>3, <2>1, <3>3, <3>4, <4>2, <5>3 DEF ItemAfter
          <6>2. left[y] \in InBand(band[x]) /\ name[left[y]] < name[y] /\ name[r] <= name[left[y]]
                /\ \A z \in InBand(band[x]) : name[z] < name[y] => name[z] <= name[left[y]]
            BY <2>4, <3>2, <3>3, <6>1 DEF ItemBefore
          <6>3. name[x] <= name[left[y]]
            BY <1>3, <3>3, <6>1, <6>2
          <6> QED
            BY <2>4, <3>1, <5>1, <5>3, <6>2, <6>3 DEF ItemBefore
        <5> QED
          BY <1>3, <2>1, <3>2, <5>2, <5>3
      <4> QED
        BY <4>1, <4>2
    <3>6. ItemAfter(right[y], y)'
      <4>1. CASE y = l
        <5>1. right'[y] = x
          BY <1>1, <2>1, <2>4, <4>1
        <5> QED
          BY <1>1, <1>3, <2>4, <3>1, <3>3, <3>4, <4>1, <5>1 DEF ItemBefore, ItemAfter
      <4>2. CASE y # l
        <5>1. right'[y] = right[y]
          BY <1>1, <2>1, <2>4, <4>2
        <5>2. CASE name[y] > name[x]
          BY <1>3, <2>1, <2>4, <3>1, <3>2, <3>3, <5>1, <5>2 DEF ItemAfter
        <5>3. CASE name[x] > name[y]
          <6>1. l \in InBand(band[x]) /\ name[x] > name[l] /\ name[l] > name[y]
            BY <1>1, <1>3, <2>1, <3>3, <3>4, <4>2, <5>3 DEF ItemBefore
          <6>2. right[y] \in InBand(band[x]) /\ name[right[y]] > name[y] /\ name[l] >= name[right[y]]
                /\ \A z \in InBand(band[x]) : name[z] > name[y] => name[right[y]] <= name[z]
            BY <2>4, <3>2, <3>3, <6>1 DEF ItemAfter
          <6>3. name[right[y]] <= name[x]
            BY <1>3, <3>3, <6>1, <6>2
          <6> QED
            BY <2>4, <3>1, <5>1, <5>3, <6>2, <6>3 DEF ItemAfter
        <5> QED
          BY <1>3, <2>1, <3>2, <5>2, <5>3
      <4> QED
        BY <4>1, <4>2
    <3> QED
      BY <3>5, <3>6
  <2> QED
    BY <2>2, <2>3, <2>4
<1> QED
  BY <1>2, <1>4

\* A new band between its neighbours keeps the list of the bands in order.
LEMMA BandsInOrder ==
    ASSUME CacheInv, NEW x \in Item, band[x] \notin Bands,
           linked' = linked \cup {x}, InsertBand(x)
    PROVE  /\ above' \in [Band -> Band \cup {Null}] /\ below' \in [Band -> Band \cup {Null}]
           /\ \A c \in Bands' : BandBefore(above[c], c)' /\ BandAfter(below[c], c)'
           /\ current' = [current EXCEPT ![band[x]] = x]
<1> DEFINE b == band[x]
<1>1. PICK a, d \in Band \cup {Null} :
          /\ BandBefore(a, b) /\ BandAfter(d, b)
          /\ above' = [c \in Band |-> IF c = b THEN a ELSE IF c = d THEN b ELSE above[c]]
          /\ below' = [c \in Band |-> IF c = b THEN d ELSE IF c = a THEN b ELSE below[c]]
          /\ current' = [current EXCEPT ![b] = x]
  BY DEF InsertBand
<1>2. b \in Band /\ b \notin Bands
  BY ItemFacts
<1>3. Bands' = Bands \cup {b}
  BY DEF Bands
<1>4. Bands \subseteq Band /\ \A c \in Band : c \in Int /\ c # Null
  BY BandFacts DEF Bands, Band, CacheInv, CacheTypeOK
<1> HIDE DEF b
<1>5. above' \in [Band -> Band \cup {Null}] /\ below' \in [Band -> Band \cup {Null}]
  BY <1>1, <1>2 DEF CacheInv, CacheTypeOK
<1>6. ASSUME NEW c \in Bands' PROVE BandBefore(above[c], c)' /\ BandAfter(below[c], c)'
  <2>1. CASE c = b
    <3>1. above'[c] = a /\ below'[c] = d
      BY <1>1, <1>2, <2>1
    <3> QED
      BY <1>1, <1>2, <1>3, <1>4, <2>1, <3>1 DEF BandBefore, BandAfter
  <2>2. CASE c # b
    <3>1. c \in Bands /\ c \in Band
      BY <1>3, <1>4, <2>2
    <3>2. BandBefore(above[c], c) /\ BandAfter(below[c], c)
      BY <3>1 DEF CacheInv, ListsInOrder
    <3>3. BandBefore(above[c], c)'
      <4>1. CASE c = d
        <5>1. above'[c] = b
          BY <1>1, <2>2, <3>1, <4>1
        <5> QED
          BY <1>1, <1>2, <1>3, <1>4, <3>1, <4>1, <5>1 DEF BandBefore, BandAfter
      <4>2. CASE c # d
        <5>1. above'[c] = above[c]
          BY <1>1, <2>2, <3>1, <4>2
        <5>2. CASE c < b
          BY <1>2, <1>3, <1>4, <3>1, <3>2, <5>1, <5>2 DEF BandBefore
        <5>3. CASE b < c
          <6>1. d \in Bands /\ b < d /\ d < c
            BY <1>1, <1>2, <1>4, <3>1, <4>2, <5>3 DEF BandAfter
          <6> QED
            BY <1>2, <1>3, <1>4, <3>1, <3>2, <5>1, <5>3, <6>1 DEF BandBefore
        <5> QED
          BY <1>2, <1>4, <2>2, <3>1, <5>2, <5>3
      <4> QED
        BY <4>1, <4>2
    <3>4. BandAfter(below[c], c)'
      <4>1. CASE c = a
        <5>1. below'[c] = b
          BY <1>1, <2>2, <3>1, <4>1
        <5> QED
          BY <1>1, <1>2, <1>3, <1>4, <3>1, <4>1, <5>1 DEF BandBefore, BandAfter
      <4>2. CASE c # a
        <5>1. below'[c] = below[c]
          BY <1>1, <2>2, <3>1, <4>2
        <5>2. CASE c > b
          BY <1>2, <1>3, <1>4, <3>1, <3>2, <5>1, <5>2 DEF BandAfter
        <5>3. CASE b > c
          <6>1. a \in Bands /\ b > a /\ a > c
            BY <1>1, <1>2, <1>4, <3>1, <4>2, <5>3 DEF BandBefore
          <6> QED
            BY <1>2, <1>3, <1>4, <3>1, <3>2, <5>1, <5>3, <6>1 DEF BandAfter
        <5> QED
          BY <1>2, <1>4, <2>2, <3>1, <5>2, <5>3
      <4> QED
        BY <4>1, <4>2
    <3> QED
      BY <3>3, <3>4
  <2> QED
    BY <2>1, <2>2
<1> QED
  BY <1>1, <1>5, <1>6 DEF b

LEMMA InsertInv ==
    ASSUME CacheInv, NEW x \in Item, Insert(x)
    PROVE  CacheInv'
<1>1. cacheItems' = cacheItems \cup {x} /\ item' = item /\ expired' = expired /\ x \notin linked
  BY DEF Insert, CacheInv, CacheTypeOK
<1>2. x # Null /\ band[x] \in Band
  BY ItemFacts
<1>3. CASE \E y \in InBand(band[x]) : name[y] = name[x]
  <2>1. band[x] \in Bands
    BY <1>3 DEF InBand, Bands
  <2>2. UNCHANGED <<linked, left, right, above, below, current, item>>
    BY <1>1, <1>3, <2>1 DEF Insert
  <2>3. CacheTypeOK'
    BY <1>1, <2>2 DEF CacheInv, CacheTypeOK
  <2> QED
    BY <2>2, <2>3 DEF CacheInv, ListsInOrder, CurrentInBand, NamesDiffer, ItemBefore, ItemAfter,
        BandBefore, BandAfter, InBand, Bands
<1>4. CASE \A y \in InBand(band[x]) : name[y] # name[x]
  <2>1. linked' = linked \cup {x} /\ LinkItem(x)
    BY <1>4 DEF Insert
  <2>2. /\ left' \in [Item -> Item \cup {Null}] /\ right' \in [Item -> Item \cup {Null}]
        /\ \A y \in linked' : ItemBefore(left[y], y)' /\ ItemAfter(right[y], y)'
    BY <1>1, <1>4, <2>1, LinkedInOrder
  <2>3. NamesDiffer'
    BY <1>4, <2>1 DEF CacheInv, NamesDiffer, InBand
  <2>4. /\ above' \in [Band -> Band \cup {Null}] /\ below' \in [Band -> Band \cup {Null}]
        /\ \A c \in Bands' : BandBefore(above[c], c)' /\ BandAfter(below[c], c)'
        /\ current' \in [Band -> Item \cup {Null}]
        /\ \A c \in Bands' : current'[c] \in InBand(c)'
    <3>1. CASE band[x] \notin Bands
      <4>1. InsertBand(x)
        BY <3>1 DEF Insert
      <4>2. current' = [current EXCEPT ![band[x]] = x]
        BY <2>1, <3>1, <4>1, BandsInOrder
      <4>3. current' \in [Band -> Item \cup {Null}]
        BY <4>2, Zenon DEF CacheInv, CacheTypeOK
      <4>4. ASSUME NEW c \in Bands' PROVE current'[c] \in InBand(c)'
        <5>1. c \in Band /\ (c = band[x] \/ c \in Bands)
          BY <2>1, ItemFacts DEF Bands, CacheInv, CacheTypeOK
        <5>2. CASE c = band[x]
          BY <1>2, <2>1, <4>2, <5>2 DEF InBand, CacheInv, CacheTypeOK
        <5>3. CASE c # band[x]
          BY <2>1, <4>2, <5>1, <5>3 DEF InBand, CacheInv, CacheTypeOK, CurrentInBand
        <5> QED
          BY <5>2, <5>3
      <4> QED
        BY <2>1, <3>1, <4>1, <4>3, <4>4, BandsInOrder
    <3>2. CASE band[x] \in Bands
      <4>1. UNCHANGED <<above, below, current>>
        BY <3>2 DEF Insert
      <4>2. Bands' = Bands
        BY <2>1, <3>2 DEF Bands
      <4>3. \A c : InBand(c) \subseteq InBand(c)'
        BY <2>1 DEF InBand
      <4> QED
        BY <4>1, <4>2, <4>3 DEF CacheInv, CacheTypeOK, ListsInOrder, CurrentInBand, BandBefore, BandAfter
    <3> QED
      BY <3>1, <3>2
  <2>5. CacheTypeOK'
    BY <1>1, <2>1, <2>2, <2>4 DEF CacheInv, CacheTypeOK
  <2>6. CurrentInBand'
    BY <1>1, <2>1, <2>4 DEF CacheInv, CurrentInBand
  <2> QED
    BY <2>2, <2>3, <2>4, <2>5, <2>6 DEF CacheInv, ListsInOrder
<1> QED
  BY <1>3, <1>4

-----------------------------------------------------------------------------
(* Pointers.                                                                  *)

\* A pointer and the current item of its band move, the lists do not.
LEMMA MoveInv ==
    ASSUME CacheInv, UNCHANGED <<cacheItems, linked, left, right, above, below>>,
           current' \in [Band -> Item \cup {Null}],
           \A b \in Bands : current'[b] \in InBand(b),
           NEW p \in Pointer, NEW y \in linked \cup {Null}, item' = [item EXCEPT ![p] = y],
           expired' \in BOOLEAN
    PROVE  CacheInv'
<1>1. CacheTypeOK'
  BY DEF CacheInv, CacheTypeOK
<1>2. ListsInOrder' /\ NamesDiffer'
  BY DEF CacheInv, ListsInOrder, NamesDiffer, ItemBefore, ItemAfter, BandBefore, BandAfter, InBand, Bands
<1>3. CurrentInBand'
  BY DEF CacheInv, CacheTypeOK, CurrentInBand, InBand, Bands
<1> QED
  BY <1>1, <1>2, <1>3 DEF CacheInv

\* What a pointer is moved to along the lists is linked.
LEMMA Neighbours ==
    ASSUME CacheInv, NEW x \in linked
    PROVE  /\ band[x] \in Bands /\ band[x] \in Band
           /\ left[x] # Null => left[x] \in InBand(band[x])
           /\ right[x] # Null => right[x] \in InBand(band[x])
           /\ above[band[x]] # Null => above[band[x]] \in Bands
           /\ below[band[x]] # Null => below[band[x]] \in Bands
BY ItemFacts DEF CacheInv, CacheTypeOK, ListsInOrder, ItemBefore, ItemAfter, BandBefore, BandAfter,
    InBand, Bands

LEMMA StepInv ==
    ASSUME CacheInv, NEW p \in Pointer, NEW moveBand \in BOOLEAN, NEW y \in Item \cup {Null},
           item[p] # Null, y # Null => y \in InBand(band[item[p]]), Step(p, y, moveBand)
    PROVE  CacheInv'
<1>1. item[p] \in linked /\ y \in InBand(band[item[p]]) /\ y \in linked
  BY DEF CacheInv, CurrentInBand, Step, InBand
<1>2. band[item[p]] \in Band
  BY <1>1, Neighbours
<1>3. current' \in [Band -> Item \cup {Null}] /\ \A b \in Bands : current'[b] \in InBand(b)
  <2>1. CASE moveBand
    <3>1. current' = [current EXCEPT ![band[item[p]]] = y]
      BY <2>1 DEF Step
    <3> QED
      BY <1>1, <1>2, <3>1 DEF CacheInv, CacheTypeOK, CurrentInBand
  <2>2. CASE ~moveBand
    BY <2>2 DEF CacheInv, CacheTypeOK, CurrentInBand, Step
  <2> QED
    BY <2>1, <2>2
<1>4. expired' \in BOOLEAN
  BY DEF Step, CacheInv, CacheTypeOK
<1> QED
  BY <1>1, <1>3, <1>4, MoveInv, Zenon DEF Step

LEMMA ChangeBandInv ==
    ASSUME CacheInv, NEW p \in Pointer, NEW b, b # Null => b \in Bands, ChangeBand(p, b)
    PROVE  CacheInv'
<1>1. b \in Bands /\ current[b] \in linked
  BY DEF CacheInv, CurrentInBand, ChangeBand, InBand
<1> QED
  BY <1>1, MoveInv, Zenon DEF ChangeBand, CacheInv, CacheTypeOK, CurrentInBand

LEMMA GetPointerInv ==
    ASSUME CacheInv, NEW p \in Pointer, NEW b \in Band, GetPointer(p, b)
    PROVE  CacheInv'
<1>1. \E y \in linked : item' = [item EXCEPT ![p] = y]
  BY DEF CacheInv, CurrentInBand, GetPointer, InBand
<1> QED
  BY <1>1, MoveInv, Zenon DEF GetPointer, CacheInv, CacheTypeOK, CurrentInBand

LEMMA ReleaseInv ==
    ASSUME CacheInv, NEW p \in Pointer, Release(p)
    PROVE  CacheInv'
BY MoveInv, Zenon DEF Release, CacheInv, CacheTypeOK, CurrentInBand

LEMMA NextInv ==
    ASSUME CacheInv, [CacheNext]_cacheVars
    PROVE  CacheInv'
<1>1. CASE \E x \in Item : Insert(x)
  BY <1>1, InsertInv
<1>2. ASSUME NEW p \in Pointer, NEW b \in Band, GetPointer(p, b) PROVE CacheInv'
  BY <1>2, GetPointerInv
<1>3. ASSUME NEW p \in Pointer, NEW moveBand \in BOOLEAN, Left(p, moveBand) \/ Right(p, moveBand)
      PROVE  CacheInv'
  <2>1. item[p] \in linked /\ item[p] # Null
    BY <1>3 DEF CacheInv, CurrentInBand, Left, Right
  <2>2. /\ left[item[p]] \in Item \cup {Null} /\ right[item[p]] \in Item \cup {Null}
    BY <2>1, Zenon DEF CacheInv, CacheTypeOK
  <2> QED
    BY <1>3, <2>1, <2>2, Neighbours, StepInv DEF Left, Right
<1>4. ASSUME NEW p \in Pointer, Up(p) \/ Down(p) PROVE CacheInv'
  <2>1. item[p] \in linked
    BY <1>4, Zenon DEF CacheInv, CurrentInBand, Up, Down
  <2> QED
    BY <1>4, <2>1, Neighbours, ChangeBandInv DEF Up, Down
<1>5. CASE UNCHANGED cacheVars \/ EraseExpired
  BY <1>5, Zenon DEF cacheVars, EraseExpired, CacheInv, CacheTypeOK, ListsInOrder, CurrentInBand, NamesDiffer,
      ItemBefore, ItemAfter, BandBefore, BandAfter, InBand, Bands
<1>6. ASSUME NEW p \in Pointer, Release(p) PROVE CacheInv'
  BY <1>6, ReleaseInv
<1> QED
  BY <1>1, <1>2, <1>3, <1>4, <1>5, <1>6 DEF CacheNext

-----------------------------------------------------------------------------

(* For any items and pointers, in any order of insert, getPointer, left,      *)
(* right, up and down, the lists of NBandCache stay in order in both          *)
(* directions.                                                                *)
THEOREM ListsAlwaysInOrder == CacheSpec => []ListsInOrder
<1>1. CacheSpec => []CacheInv
  BY InitInv, NextInv, PTL DEF CacheSpec
<1>2. CacheInv => ListsInOrder
  BY DEF CacheInv
<1> QED
  BY <1>1, <1>2, PTL

(* And the current item of a band belongs to it: the assertions of up, down   *)
(* and getPointer hold.                                                       *)
THEOREM CurrentAlwaysInBand == CacheSpec => []CurrentInBand
<1>1. CacheSpec => []CacheInv
  BY InitInv, NextInv, PTL DEF CacheSpec
<1>2. CacheInv => CurrentInBand
  BY DEF CacheInv
<1> QED
  BY <1>1, <1>2, PTL

(* The cache keeps every item it links, and the lists stay within the items   *)
(* and bands of insert.                                                       *)
THEOREM CacheTypeCorrect == CacheSpec => []CacheTypeOK
<1>1. CacheSpec => []CacheInv
  BY InitInv, NextInv, PTL DEF CacheSpec
<1>2. CacheInv => CacheTypeOK
  BY DEF CacheInv
<1> QED
  BY <1>1, <1>2, PTL


-----------------------------------------------------------------------------
(* Calls of a service (ServiceCall).                                          *)

CallTypes ==
    /\ counted \in [Stub -> SUBSET ({"service"} \cup Stub)]
    /\ hearing \subseteq Stub
    /\ number \in [Caller -> Nat]
    /\ DOMAIN requests \subseteq Caller \X Nat
    /\ requests = [q \in DOMAIN requests |-> requests[q]]
    /\ returned \in [Caller -> (Caller \X Nat) \cup {NoReply}]
    /\ inbox \in Seq(Caller \X Nat)
    /\ replies \in [Stub -> Seq(Caller \X Nat)]

LinkedWhenMade == \A q \in DOMAIN requests : q \notin early => Linked(q[1])

InInbox(q) == \E i \in DOMAIN inbox : inbox[i] = q
InReplies(s, q) == \E i \in DOMAIN replies[s] : replies[s][i] = q

Underway ==
    \A q \in DOMAIN requests :
        requests[q] = NoReply /\ q[1] \notin Void /\ q \notin early
            => InInbox(q) \/ InReplies(stubOf[q[1]], q)

CallInv == CallTypes /\ OwnReply /\ LinkedWhenMade /\ Underway

LEMMA InvImplies == CallInv => OwnReply /\ QuietCallsReturned
BY DEF CallInv, Underway, QuietCallsReturned, InInbox, InReplies

LEMMA CallInitInv == CallInit => CallInv
BY DEF CallInit, CallInv, CallTypes, OwnReply, LinkedWhenMade, Underway, Waiting

LEMMA AppendKeeps ==
    ASSUME NEW S, NEW t \in Seq(S), NEW x \in S
    PROVE  /\ \A i \in DOMAIN t : i \in DOMAIN Append(t, x) /\ Append(t, x)[i] = t[i]
           /\ Len(t) + 1 \in DOMAIN Append(t, x) /\ Append(t, x)[Len(t) + 1] = x
OBVIOUS

\* What is in a queue is its head or in its tail.
LEMMA HeadOrTail ==
    ASSUME NEW S, NEW t \in Seq(S), NEW i \in DOMAIN t
    PROVE  /\ t # <<>>
           /\ t[i] = Head(t) \/ \E j \in DOMAIN Tail(t) : Tail(t)[j] = t[i]
<1>1. t # <<>> /\ Len(t) \in Nat /\ i \in 1 .. Len(t)
  OBVIOUS
<1>2. CASE i = 1
  BY <1>1, <1>2
<1>3. CASE i > 1
  <2>1. i - 1 \in DOMAIN Tail(t) /\ Tail(t)[i - 1] = t[i]
    BY <1>1, <1>3
  <2> QED
    BY <1>1, <2>1
<1> QED
  BY <1>1, <1>2, <1>3

\* The links only become more.
LEMMA LinkInv ==
    ASSUME CallInv, counted' \in [Stub -> SUBSET ({"service"} \cup Stub)],
           \A s \in Stub : counted[s] \subseteq counted'[s],
           hearing \subseteq hearing', hearing' \subseteq Stub,
           UNCHANGED <<requests, number, returned, inbox, replies, early>>
    PROVE  CallInv'
<1>1. CallTypes' /\ OwnReply' /\ Underway'
  BY DEF CallInv, CallTypes, OwnReply, Underway, Waiting, InInbox, InReplies
<1>2. LinkedWhenMade'
  BY CallAssumption DEF CallInv, CallTypes, LinkedWhenMade, Linked
<1> QED
  BY <1>1, <1>2 DEF CallInv

LEMMA CallInvStep ==
    ASSUME CallInv, NEW c \in Caller, CallStubMethod(c)
    PROVE  CallInv'
<1> DEFINE s == stubOf[c]
           q == <<c, number[c] + 1>>
<1>0. s \in Stub /\ number[c] \in Nat /\ q \in Caller \X Nat
  BY CallAssumption DEF CallInv, CallTypes
<1>1. /\ number' = [number EXCEPT ![c] = number[c] + 1]
      /\ requests' = [r \in DOMAIN requests \cup {q} |-> IF r = q THEN NoReply ELSE requests[r]]
      /\ inbox' = IF "service" \in counted[s] THEN Append(inbox, q) ELSE inbox
      /\ early' = IF Linked(c) THEN early ELSE early \cup {q}
      /\ ~Waiting(c)
      /\ UNCHANGED <<counted, hearing, made, returned, replies>>
  BY Zenon DEF CallStubMethod
<1>2. DOMAIN requests' = DOMAIN requests \cup {q} /\ q[1] = c
  BY <1>1
<1>3. \A r \in DOMAIN requests : r \in Caller \X Nat /\ r[1] # c /\ r # q /\ requests'[r] = requests[r]
  BY <1>1 DEF Waiting, CallInv, CallTypes
<1>4. requests'[q] = NoReply
  BY <1>1
<1> HIDE DEF q, s
<1>5. CallTypes'
  BY <1>0, <1>1, <1>2 DEF CallInv, CallTypes
<1>6. OwnReply'
  <2>1. q = <<q[1], number'[q[1]]>>
    BY <1>0, <1>1, <1>2 DEF q, CallInv, CallTypes
  <2>2. \A r \in DOMAIN requests : number'[r[1]] = number[r[1]]
    BY <1>1, <1>3 DEF CallInv, CallTypes
  <2>3. \A r \in DOMAIN requests' : r = <<r[1], number'[r[1]]>> /\ requests'[r] \in {NoReply, r}
    BY <1>2, <1>3, <1>4, <2>1, <2>2 DEF CallInv, OwnReply
  <2>4. ASSUME NEW d \in Caller, ~Waiting(d)', number'[d] > 0
        PROVE  returned'[d] = <<d, number'[d]>>
    <3>1. d # c /\ ~Waiting(d)
      BY <1>2, <2>4 DEF Waiting
    <3> QED
      BY <1>1, <2>4, <3>1 DEF CallInv, CallTypes, OwnReply
  <2> QED
    BY <2>3, <2>4 DEF OwnReply
<1>7. LinkedWhenMade'
  BY <1>1, <1>2, <1>3 DEF CallInv, LinkedWhenMade, Linked
<1>8. Underway'
  <2> SUFFICES ASSUME NEW r \in DOMAIN requests', requests'[r] = NoReply, r[1] \notin Void, r \notin early'
               PROVE  InInbox(r)' \/ InReplies(stubOf[r[1]], r)'
    BY DEF Underway
  <2>1. inbox \in Seq(Caller \X Nat) /\ inbox' \in Seq(Caller \X Nat)
    BY <1>5 DEF CallInv, CallTypes
  <2>2. ASSUME InInbox(r) PROVE InInbox(r)'
    <3>1. CASE inbox' = Append(inbox, q)
      BY <1>0, <2>1, <2>2, <3>1, AppendKeeps DEF InInbox
    <3>2. CASE inbox' = inbox
      BY <2>2, <3>2 DEF InInbox
    <3> QED
      BY <1>1, <3>1, <3>2
  <2>3. CASE r = q
    <3>1. "service" \in counted[s]
      BY <1>1, <2>3 DEF Linked, s
    <3>2. inbox' = Append(inbox, q)
      BY <1>1, <3>1, Zenon
    <3> QED
      BY <1>0, <2>1, <2>3, <3>2, AppendKeeps DEF InInbox
  <2>4. CASE r # q
    <3>1. r \in DOMAIN requests /\ requests[r] = NoReply /\ r \notin early
      BY <1>1, <1>2, <1>3, <2>4
    <3> QED
      BY <1>1, <2>2, <3>1 DEF CallInv, Underway, InReplies
  <2> QED
    BY <2>3, <2>4
<1> QED
  BY <1>5, <1>6, <1>7, <1>8 DEF CallInv

LEMMA ReturnInv ==
    ASSUME CallInv, NEW c \in Caller, CallReturns(c)
    PROVE  CallInv'
<1>1. PICK q \in DOMAIN requests :
          /\ q[1] = c /\ requests[q] # NoReply
          /\ returned' = [returned EXCEPT ![c] = requests[q]]
          /\ requests' = [r \in DOMAIN requests \ {q} |-> requests[r]]
          /\ UNCHANGED <<counted, hearing, made, number, inbox, replies, early>>
  BY Zenon DEF CallReturns
<1>2. q \in Caller \X Nat /\ q = <<c, number[c]>> /\ requests[q] = q
  BY <1>1 DEF CallInv, CallTypes, OwnReply
<1>3. DOMAIN requests' = DOMAIN requests \ {q} /\ \A r \in DOMAIN requests' : requests'[r] = requests[r]
  BY <1>1
<1>4. CallTypes'
  BY <1>1, <1>2, <1>3 DEF CallInv, CallTypes
<1>5. OwnReply'
  <2>1. ASSUME NEW d \in Caller, ~Waiting(d)', number'[d] > 0
        PROVE  returned'[d] = <<d, number'[d]>>
    <3>1. CASE d = c
      BY <1>1, <1>2, <3>1 DEF CallInv, CallTypes
    <3>2. CASE d # c
      <4>1. ~Waiting(d)
        BY <1>1, <1>3, <2>1, <3>2 DEF Waiting
      <4> QED
        BY <1>1, <2>1, <3>2, <4>1 DEF CallInv, CallTypes, OwnReply
    <3> QED
      BY <3>1, <3>2
  <2>2. \A r \in DOMAIN requests' : r = <<r[1], number'[r[1]]>> /\ requests'[r] \in {NoReply, r}
    BY <1>1, <1>3, Zenon DEF CallInv, OwnReply
  <2> QED
    BY <2>1, <2>2 DEF OwnReply
<1>6. LinkedWhenMade' /\ Underway'
  BY <1>1, <1>3 DEF CallInv, LinkedWhenMade, Linked, Underway, InInbox, InReplies
<1> QED
  BY <1>4, <1>5, <1>6 DEF CallInv

LEMMA ServiceInv ==
    ASSUME CallInv, ServiceReceive
    PROVE  CallInv'
<1>1. /\ inbox # <<>> /\ inbox' = Tail(inbox)
      /\ replies' = [s \in Stub |-> IF Head(inbox)[1] \notin Void /\ s \in hearing
                                    THEN Append(replies[s], Head(inbox)) ELSE replies[s]]
      /\ UNCHANGED <<counted, hearing, made, requests, number, returned, early>>
  BY DEF ServiceReceive
<1>2. inbox \in Seq(Caller \X Nat) /\ replies \in [Stub -> Seq(Caller \X Nat)]
  BY DEF CallInv, CallTypes
<1>3. Head(inbox) \in Caller \X Nat /\ inbox' \in Seq(Caller \X Nat)
  BY <1>1, <1>2
<1>4. replies' \in [Stub -> Seq(Caller \X Nat)]
  BY <1>1, <1>2, <1>3
<1>5. CallTypes'
  BY <1>1, <1>3, <1>4 DEF CallInv, CallTypes
<1>6. OwnReply' /\ LinkedWhenMade'
  BY <1>1 DEF CallInv, OwnReply, LinkedWhenMade, Linked, Waiting
<1>7. Underway'
  <2> SUFFICES ASSUME NEW q \in DOMAIN requests, requests[q] = NoReply, q[1] \notin Void, q \notin early
               PROVE  InInbox(q)' \/ InReplies(stubOf[q[1]], q)'
    BY <1>1 DEF Underway
  <2> DEFINE s == stubOf[q[1]]
  <2>1. s \in Stub /\ s \in hearing
    BY CallAssumption DEF CallInv, CallTypes, LinkedWhenMade, Linked
  <2>2. replies[s] \in Seq(Caller \X Nat)
    BY <1>2, <2>1, Zenon
  <2>3. CASE InReplies(s, q)
    <3>1. CASE replies'[s] = Append(replies[s], Head(inbox))
      BY <1>3, <2>2, <2>3, <3>1, AppendKeeps DEF InReplies
    <3>2. CASE replies'[s] = replies[s]
      BY <2>3, <3>2 DEF InReplies
    <3> QED
      BY <1>1, <2>1, <3>1, <3>2, Zenon
  <2>4. CASE InInbox(q)
    <3>1. PICK i \in DOMAIN inbox : inbox[i] = q
      BY <2>4 DEF InInbox
    <3>2. CASE q = Head(inbox)
      <4>1. replies'[s] = Append(replies[s], q)
        BY <1>1, <2>1, <3>2
      <4>2. \E j \in DOMAIN Append(replies[s], q) : Append(replies[s], q)[j] = q
        <5> HIDE DEF s
        <5>1. q \in Caller \X Nat
          BY <1>3, <3>2
        <5>2. Len(replies[s]) + 1 \in DOMAIN Append(replies[s], q)
          BY <2>2, <5>1
        <5>3. Append(replies[s], q)[Len(replies[s]) + 1] = q
          BY <2>2, <5>1
        <5> QED
          BY <5>2, <5>3
      <4> QED
        BY <4>1, <4>2, ZenonT(30) DEF InReplies
    <3>3. CASE q # Head(inbox)
      BY <1>1, <1>2, <3>1, <3>3, HeadOrTail, Zenon DEF InInbox
    <3> QED
      BY <3>2, <3>3
  <2> QED
    BY <2>3, <2>4 DEF CallInv, Underway
<1> QED
  BY <1>5, <1>6, <1>7, Zenon DEF CallInv

LEMMA StubInv ==
    ASSUME CallInv, NEW s \in Stub, StubReceive(s)
    PROVE  CallInv'
<1> DEFINE q == Head(replies[s])
<1>1. /\ replies[s] # <<>>
      /\ replies' = [replies EXCEPT ![s] = Tail(replies[s])]
      /\ requests' = IF q \in DOMAIN requests /\ stubOf[q[1]] = s
                     THEN [requests EXCEPT ![q] = q] ELSE requests
      /\ UNCHANGED <<counted, hearing, made, number, returned, inbox, early>>
  BY DEF StubReceive
<1>2. replies \in [Stub -> Seq(Caller \X Nat)] /\ replies[s] \in Seq(Caller \X Nat)
  BY DEF CallInv, CallTypes
<1>3. q \in Caller \X Nat
  BY <1>1, <1>2
<1> HIDE DEF q
<1>4. /\ DOMAIN requests' = DOMAIN requests
      /\ requests' = [r \in DOMAIN requests' |-> requests'[r]]
      /\ \A r \in DOMAIN requests : requests'[r] = requests[r] \/ (r = q /\ requests'[r] = q)
      /\ q \in DOMAIN requests /\ stubOf[q[1]] = s => requests'[q] = q
  BY <1>1, Zenon DEF CallInv, CallTypes
<1>5. replies' \in [Stub -> Seq(Caller \X Nat)]
  BY <1>1, <1>2
<1>6. CallTypes'
  BY <1>1, <1>4, <1>5 DEF CallInv, CallTypes
<1>7. OwnReply' /\ LinkedWhenMade'
  BY <1>1, <1>4, Zenon DEF CallInv, OwnReply, LinkedWhenMade, Linked, Waiting
<1>8. Underway'
  <2> SUFFICES ASSUME NEW r \in DOMAIN requests', requests'[r] = NoReply, r[1] \notin Void, r \notin early'
               PROVE  InInbox(r)' \/ InReplies(stubOf[r[1]], r)'
    BY DEF Underway
  <2>1. q # NoReply
    BY <1>3 DEF NoReply
  <2>2. requests[r] = NoReply /\ ~(r = q /\ stubOf[r[1]] = s)
    BY <1>4, <2>1
  <2>3. InInbox(r) \/ InReplies(stubOf[r[1]], r)
    BY <1>1, <1>4, <2>2 DEF CallInv, Underway
  <2>4. CASE InInbox(r)
    BY <1>1, <2>4 DEF InInbox
  <2>5. CASE InReplies(stubOf[r[1]], r) /\ stubOf[r[1]] # s
    <3>1. stubOf[r[1]] \in Stub
      BY <1>4, CallAssumption DEF CallInv, CallTypes
    <3> QED
      BY <1>1, <1>2, <2>5, <3>1 DEF InReplies
  <2>6. CASE InReplies(stubOf[r[1]], r) /\ stubOf[r[1]] = s
    <3>1. PICK i \in DOMAIN replies[s] : replies[s][i] = r
      BY <2>6 DEF InReplies
    <3>2. r # Head(replies[s])
      BY <2>2, <2>6 DEF q
    <3>3. replies'[s] = Tail(replies[s])
      BY <1>1, <1>2
    <3>4. \E j \in DOMAIN Tail(replies[s]) : Tail(replies[s])[j] = r
      BY <1>2, <3>1, <3>2, HeadOrTail, Zenon
    <3> QED
      BY <2>6, <3>3, <3>4 DEF InReplies
  <2> QED
    BY <2>3, <2>4, <2>5, <2>6
<1> QED
  BY <1>6, <1>7, <1>8 DEF CallInv

LEMMA CallNextInv ==
    ASSUME CallInv, [CallNext]_callVars
    PROVE  CallInv'
<1>1. ASSUME NEW s \in Stub, NEW x, CountSubscriber(s, x) PROVE CallInv'
  BY <1>1, LinkInv DEF CountSubscriber, CallInv, CallTypes
<1>2. ASSUME NEW s \in Stub, HearService(s) PROVE CallInv'
  BY <1>2, LinkInv DEF HearService, CallInv, CallTypes
<1>3. ASSUME NEW s \in Stub, MakeStub(s) PROVE CallInv'
  BY <1>3, LinkInv DEF MakeStub, CallInv, CallTypes
<1>4. CASE UNCHANGED callVars
  BY <1>4, LinkInv DEF callVars, CallInv, CallTypes
<1> QED
  BY <1>1, <1>2, <1>3, <1>4, CallInvStep, ReturnInv, ServiceInv, StubInv DEF CallNext

-----------------------------------------------------------------------------

(* A call of callStubMethod returns the reply to its own request, however     *)
(* many stubs read the replies of the service and threads share a stub.       *)
THEOREM CallsReturnOwnReply == CallSpec => []OwnReply
<1>1. CallSpec => []CallInv
  BY CallInitInv, CallNextInv, PTL DEF CallSpec
<1> QED
  BY <1>1, InvImplies, PTL

(* A call that waits with nothing underway was made too early or has no       *)
(* result: the reply to any other call reaches the thread that waits for it.  *)
THEOREM LinkedCallsReturn == CallSpec => []QuietCallsReturned
<1>1. CallSpec => []CallInv
  BY CallInitInv, CallNextInv, PTL DEF CallSpec
<1> QED
  BY <1>1, InvImplies, PTL

-----------------------------------------------------------------------------
(* The directory listing service (DirectoryListing).                          *)

NoteType == [operation : {"added", "modified", "removed"}, file : File]

Types ==
    /\ now \in Int /\ dirTime \in Int /\ lastChecked \in Int
    /\ dir \in [File -> Time \cup {Absent}]
    /\ knownEntries \in [File -> Time \cup {Absent}]
    /\ updating \in BOOLEAN /\ connected \in BOOLEAN
    /\ unread \subseteq File /\ currEntries \subseteq File
    /\ notes \in Seq(NoteType)
    /\ shown \subseteq clientEntries /\ clientEntries \subseteq File
    /\ overlooked \subseteq File /\ unheard \subseteq Names(knownEntries)

LEMMA TypesInit == DirInit => Types
<1> SUFFICES ASSUME DirInit PROVE Types
  OBVIOUS
<1>1. 0 \in Time /\ Time \subseteq Int
  BY ClockAssumption DEF Time
<1>2. dir \in [File -> Time \cup {Absent}]
  BY <1>1 DEF DirInit
<1>3. knownEntries \in [File -> Time \cup {Absent}]
  BY DEF DirInit
<1>4. now \in Int /\ dirTime \in Int /\ lastChecked \in Int
  BY <1>1 DEF DirInit
<1>5. /\ updating \in BOOLEAN /\ connected \in BOOLEAN
      /\ unread \subseteq File /\ currEntries \subseteq File
      /\ shown \subseteq clientEntries /\ clientEntries \subseteq File
      /\ overlooked \subseteq File /\ unheard \subseteq Names(knownEntries)
  BY Zenon DEF DirInit, Names
<1>6. notes \in Seq(NoteType)
  BY DEF DirInit
<1> QED
  BY <1>2, <1>3, <1>4, <1>5, <1>6 DEF Types

LEMMA TypesNext ==
    ASSUME Types, [DirNext]_dirVars
    PROVE  Types'
<1>. USE DEF clientVars
<1>1. CASE Tick
  BY <1>1 DEF Tick, Outdated, Types, Names
<1>2. ASSUME NEW f \in File, NEW time \in Time \cup {Absent}, Change(f, time) PROVE Types'
  BY <1>2 DEF Change, Types, Names
<1>3. CASE UpdateStart
  BY <1>3, Zenon DEF UpdateStart, Types, Names
<1>4. ASSUME NEW f \in File, ReadEntry(f) PROVE Types'
  <2>1. dir[f] \in Time \cup {Absent} /\ Note("added", f) \in NoteType /\ Note("modified", f) \in NoteType
    BY DEF Types, Note, NoteType
  <2>2. notes' \in Seq(NoteType)
    BY <1>4, <2>1 DEF ReadEntry, Notified, Types
  <2>3. knownEntries' \in [File -> Time \cup {Absent}] /\ currEntries' \subseteq File
    BY <1>4, <2>1 DEF ReadEntry, Types
  <2>4. Names(knownEntries) \subseteq Names(knownEntries)'
    BY <1>4 DEF ReadEntry, Types, Names
  <2> QED
    BY <1>4, <2>2, <2>3, <2>4 DEF ReadEntry, Types
<1>5. ASSUME NEW f \in File, RemoveEntry(f) PROVE Types'
  <2>1. Note("removed", f) \in NoteType
    BY DEF Note, NoteType
  <2>2. notes' \in Seq(NoteType)
    BY <1>5, <2>1 DEF RemoveEntry, Notified, Types
  <2>3. Names(knownEntries) \ {f} \subseteq Names(knownEntries)'
    BY <1>5 DEF RemoveEntry, Types, Names
  <2> QED
    BY <1>5, <2>2, <2>3, Zenon DEF RemoveEntry, Types
<1>6. CASE UpdateDone
  BY <1>6, Zenon DEF UpdateDone, Types, Names
<1>7. ASSUME NEW f \in File, List(f) PROVE Types'
  BY <1>7 DEF List, Types, Names
<1>8. CASE ClientReceive
  <2>1. notes # <<>> /\ notes \in Seq(NoteType) /\ notes' = Tail(notes)
    BY <1>8 DEF ClientReceive, Types
  <2>2. Head(notes) \in NoteType /\ notes' \in Seq(NoteType)
    BY <2>1
  <2>3. Head(notes).file \in File
    BY <2>2 DEF NoteType
  <2>4. shown' \subseteq clientEntries' /\ clientEntries' \subseteq File
    BY <1>8, <2>3 DEF ClientReceive, EntryAdded, EntryModified, EntryRemoved, Types
  <2> QED
    BY <1>8, <2>2, <2>4 DEF ClientReceive, Types, Names
<1>9. CASE Connect
  BY <1>9 DEF Connect, Types, Names
<1>10. CASE UNCHANGED dirVars
  BY <1>10 DEF dirVars, Types, Names
<1> QED
  BY <1>1, <1>2, <1>3, <1>4, <1>5, <1>6, <1>7, <1>8, <1>9, <1>10 DEF DirNext

(* The clock, the entries and the flags of the listing keep their types, and  *)
(* a listener only has entries its client keeps (updateEntries, receive).     *)
THEOREM DirTypeCorrect == DirSpec => []DirTypeOK
<1>. DEFINE Clock == now \in Time /\ dirTime \in Time /\ lastChecked \in Time /\ erased \in BOOLEAN
<1>1. DirInit => Types /\ Clock
  <2>1. /\ 0 \in Time /\ 1 \in Time
    BY ClockAssumption DEF Time
  <2>. QED
    BY <2>1, TypesInit, Zenon DEF DirInit
<1>2. ASSUME Types, Clock, [DirNext]_dirVars
      PROVE  Types' /\ Clock'
  <2>1. Types'
    BY <1>2, TypesNext
  <2>2. CASE Tick
    <3>1. now' \in Time
      BY <1>2, <2>2, ClockAssumption DEF Tick, Time
    <3>. QED
      BY <1>2, <2>1, <2>2, <3>1, Zenon DEF Tick
  <2>3. ASSUME NEW f \in File, NEW time \in Time \cup {Absent}, Change(f, time) PROVE Clock'
    <3>1. dirTime' = now \/ dirTime' = dirTime
      BY <2>3 DEF Change
    <3>. QED
      BY <1>2, <2>3, <3>1, Zenon DEF Change
  <2>4. ASSUME NEW f \in File, ReadEntry(f) \/ RemoveEntry(f) \/ List(f) PROVE Clock'
    BY <1>2, <2>4, Zenon DEF ReadEntry, RemoveEntry, List
  <2>5. CASE UpdateStart \/ UpdateDone \/ Connect \/ ClientReceive \/ UNCHANGED dirVars
    <3>1. UNCHANGED <<now, dirTime>> /\ lastChecked' \in {now, lastChecked} /\ erased' \in {FALSE, erased}
      BY <2>5, Zenon DEF UpdateStart, UpdateDone, Connect, ClientReceive, dirVars
    <3>. QED
      BY <1>2, <2>1, <3>1, Zenon
  <2>. HIDE DEF Clock
  <2>. QED
    BY <1>2, <2>1, <2>2, <2>3, <2>4, <2>5 DEF DirNext
<1>3. Types /\ Clock => DirTypeOK
  BY DEF Types, DirTypeOK
<1>. QED
  BY <1>1, <1>2, <1>3, PTL DEF DirSpec

-----------------------------------------------------------------------------
(* updateEntries is due.                                                      *)

\* While an update runs, what it has read is still so, or has changed in this
\* second, or is overlooked.
ReadOrNow ==
    updating =>
        /\ currEntries \cap unread = {}
        /\ currEntries \subseteq Names(knownEntries)
        /\ Outdated \subseteq overlooked \/ dirTime = now

RescanInv ==
    /\ Types
    /\ dirTime <= now
    /\ ~updating => lastChecked <= now \/ overlooked = File
    /\ ReadOrNow
    /\ RescanDue

LEMMA RescanInit == DirInit => RescanInv
<1>. SUFFICES ASSUME DirInit PROVE RescanInv
  OBVIOUS
<1>1. Types /\ dirTime <= now /\ ~updating /\ Names(knownEntries) = {} /\ Names(dir) \subseteq File
  BY TypesInit DEF DirInit, Names
<1>2. CASE lastChecked <= dirTime
  BY <1>1, <1>2 DEF DirInit, RescanInv, ReadOrNow, RescanDue, ChangedSinceLastCheck, Types
<1>3. CASE ~(lastChecked <= dirTime) /\ lastChecked <= now
  <2>1. overlooked = Names(dir)
    BY <1>3 DEF DirInit
  <2>. QED
    BY <1>1, <1>3, <2>1 DEF RescanInv, ReadOrNow, RescanDue
<1>4. CASE ~(lastChecked <= dirTime) /\ ~(lastChecked <= now)
  <2>1. overlooked = File
    BY <1>4 DEF DirInit
  <2>. QED
    BY <1>1, <2>1 DEF RescanInv, ReadOrNow, RescanDue
<1>. QED
  BY <1>2, <1>3, <1>4

LEMMA RescanNext ==
    ASSUME RescanInv, [DirNext]_dirVars
    PROVE  RescanInv'
<1>0. Types /\ Types' /\ Names(dir) \subseteq File /\ Names(knownEntries) \subseteq File
  BY TypesNext, Zenon DEF RescanInv, Names
<1>1. CASE Tick
  <2>1. /\ now' = now + 1 /\ Names(dir)' = Names(dir) /\ Names(knownEntries)' = Names(knownEntries)
        /\ Outdated' = Outdated
        /\ UNCHANGED <<dirTime, updating, lastChecked, unread, currEntries>>
        /\ overlooked' = IF updating THEN overlooked \cup Outdated ELSE overlooked
    BY <1>1, Zenon DEF Tick, Names, Outdated
  <2>2. (dirTime <= now)' /\ (~updating => lastChecked <= now \/ overlooked = File)'
    BY <1>0, <2>1 DEF RescanInv, Types
  <2>3. ReadOrNow'
    BY <2>1, Zenon DEF RescanInv, ReadOrNow
  <2>4. RescanDue'
    BY <2>1, Zenon DEF RescanInv, RescanDue, ChangedSinceLastCheck
  <2>. QED
    BY <1>0, <2>2, <2>3, <2>4 DEF RescanInv
<1>2. ASSUME NEW f \in File, NEW time \in Time \cup {Absent}, Change(f, time) PROVE RescanInv'
  <2>0. /\ UNCHANGED <<now, updating, lastChecked, unread, currEntries, overlooked>>
        /\ Names(knownEntries)' = Names(knownEntries)
    BY <1>2, Zenon DEF Change, Names
  <2>1. CASE Absent \in {dir[f], time}
    <3>1. dirTime' = now
      BY <1>2, <2>1 DEF Change
    <3>2. Names(dir)' \subseteq File
      BY DEF Names
    <3>3. RescanDue'
      BY <1>0, <2>0, <3>1, <3>2 DEF RescanInv, Types, RescanDue, ChangedSinceLastCheck
    <3>. QED
      BY <1>0, <2>0, <3>1, <3>3 DEF RescanInv, Types, ReadOrNow
  <2>2. CASE Absent \notin {dir[f], time}
    <3>1. Names(dir)' = Names(dir) /\ dirTime' = dirTime
      BY <1>0, <1>2, <2>2, Zenon DEF Change, Names, Types
    <3>2. Outdated' = Outdated
      BY <2>0, <3>1, Zenon DEF Outdated
    <3> QED
      BY <1>0, <2>0, <3>1, <3>2, Zenon DEF RescanInv, ReadOrNow, RescanDue, ChangedSinceLastCheck
  <2> QED
    BY <2>1, <2>2, Zenon
<1>3. CASE UpdateStart
  <2>1. /\ updating' /\ unread' = File /\ currEntries' = {}
        /\ UNCHANGED <<now, dir, dirTime>>
    BY <1>3, Zenon DEF UpdateStart
  <2>2. ReadOrNow'
    BY <2>1, Zenon DEF ReadOrNow, Outdated
  <2>3. (dirTime <= now)'
    BY <2>1, Zenon DEF RescanInv
  <2> QED
    BY <1>0, <2>1, <2>2, <2>3, Zenon DEF RescanInv, RescanDue
<1>4. ASSUME NEW f \in File, ReadEntry(f) PROVE RescanInv'
  <2>0. /\ UNCHANGED <<now, dir, dirTime, updating, lastChecked, overlooked>> /\ updating
        /\ unread' = unread \ {f} /\ f \in unread /\ Names(dir)' = Names(dir)
    BY <1>4, Zenon DEF ReadEntry, Names
  <2>1. CASE dir[f] = Absent
    <3>1. UNCHANGED <<currEntries, knownEntries>> /\ Names(knownEntries)' = Names(knownEntries)
      BY <1>4, <2>1, Zenon DEF ReadEntry, Names
    <3>2. f \notin Names(dir) /\ f \notin currEntries
      BY <2>0, <2>1, Zenon DEF Names, RescanInv, ReadOrNow
    <3>3. Outdated' = Outdated
      BY <2>0, <3>1, <3>2 DEF Outdated
    <3>. QED
      BY <1>0, <2>0, <3>1, <3>3, Zenon DEF RescanInv, ReadOrNow, RescanDue
  <2>2. CASE dir[f] # Absent
    <3>1. currEntries' = currEntries \cup {f} /\ knownEntries' = [knownEntries EXCEPT ![f] = dir[f]]
      BY <1>4, <2>2, Zenon DEF ReadEntry
    <3>2. Names(knownEntries)' = Names(knownEntries) \cup {f} /\ f \in Names(dir)
      BY <1>0, <2>2, <3>1 DEF Types, Names
    <3>3. Outdated' = Outdated
      BY <2>0, <3>1, <3>2 DEF Outdated
    <3>4. ReadOrNow'
      BY <2>0, <3>1, <3>2, <3>3, Zenon DEF RescanInv, ReadOrNow
    <3> QED
      BY <1>0, <2>0, <3>4, Zenon DEF RescanInv, RescanDue
  <2> QED
    BY <2>1, <2>2, Zenon
<1>5. ASSUME NEW f \in File, RemoveEntry(f) PROVE RescanInv'
  <2>1. /\ UNCHANGED <<now, dir, dirTime, updating, lastChecked, unread, currEntries, overlooked>>
        /\ updating /\ f \notin currEntries /\ Outdated' = Outdated
    BY <1>5, Zenon DEF RemoveEntry, Outdated, Names
  <2>2. Names(knownEntries)' = Names(knownEntries) \ {f}
    BY <1>0, <1>5 DEF RemoveEntry, Names, Types
  <2>3. ReadOrNow'
    BY <2>1, <2>2 DEF RescanInv, ReadOrNow
  <2>. QED
    BY <1>0, <2>1, <2>3, Zenon DEF RescanInv, RescanDue
<1>6. CASE UpdateDone
  <2>1. /\ updating /\ ~updating' /\ unread = {} /\ lastChecked' = now
        /\ overlooked' = overlooked \cup (Names(knownEntries) \ currEntries)
        /\ UNCHANGED <<now, dir, dirTime>>
        /\ Names(dir)' = Names(dir) /\ Names(knownEntries)' = Names(knownEntries)
    BY <1>6, Zenon DEF UpdateDone, Names
  <2>2. (dirTime <= now)' /\ (lastChecked <= now)'
    BY <1>0, <2>1 DEF RescanInv, Types
  <2>3. CASE dirTime = now
    BY <1>0, <2>1, <2>2, <2>3 DEF RescanInv, Types, ReadOrNow, RescanDue, ChangedSinceLastCheck
  <2>4. CASE Outdated \subseteq overlooked
    <3>1. ASSUME NEW f \in File, f \notin overlooked'
          PROVE  f \in Names(dir) <=> f \in Names(knownEntries)
      <4>1. f \in Names(dir) <=> f \in currEntries
        BY <2>1, <2>4, <3>1 DEF Outdated
      <4>2. f \in currEntries <=> f \in Names(knownEntries)
        BY <2>1, <3>1 DEF RescanInv, ReadOrNow
      <4>. QED
        BY <4>1, <4>2
    <3>2. Names(dir) \ overlooked' = Names(knownEntries) \ overlooked'
      BY <1>0, <3>1, Zenon
    <3>. QED
      BY <1>0, <2>1, <2>2, <3>2 DEF RescanInv, ReadOrNow, RescanDue
  <2>. QED
    BY <2>1, <2>3, <2>4 DEF RescanInv, ReadOrNow
<1>7. CASE UNCHANGED <<now, dir, dirTime, updating, lastChecked, unread, currEntries, knownEntries, overlooked>>
  BY <1>0, <1>7, Zenon DEF RescanInv, ReadOrNow, RescanDue, ChangedSinceLastCheck, Names, Outdated
<1> QED
  BY <1>1, <1>2, <1>3, <1>4, <1>5, <1>6, <1>7 DEF DirNext, List, Connect, ClientReceive, dirVars

(* For any files and any length of time: a file that came or went is found by *)
(* the next updateEntries.  The exceptions are, until then, what the value    *)
(* _lastChecked has before the first check hides, what changed after it was   *)
(* read by an update during which the clock went on, and what the loop over   *)
(* the erased entries stepped over.                                           *)
THEOREM RescanAlwaysDue == DirSpec => []RescanDue
<1>1. DirSpec => []RescanInv
  BY RescanInit, RescanNext, PTL DEF DirSpec
<1>2. RescanInv => RescanDue
  BY DEF RescanInv
<1> QED
  BY <1>1, <1>2, PTL

-----------------------------------------------------------------------------
(* The listener.                                                              *)

\* The notifications underway that tell whether there is a file f.
Tells(f) == {i \in DOMAIN notes : notes[i].file = f /\ notes[i].operation # "modified"}

\* The files a client that has read all notifications has been told of.
Heard == Names(knownEntries) \ unheard

LastNote(f) ==
    /\ Tells(f) = {} => (f \in shown <=> f \in Heard)
    /\ \A i \in Tells(f) :
           (\A j \in Tells(f) : j <= i) => (notes[i].operation = "added" <=> f \in Heard)

MirrorInv ==
    /\ Types
    /\ connected => \A f \in File : LastNote(f)
    /\ ~connected => notes = <<>> /\ shown = {}

LEMMA MirrorImplies == MirrorInv => ListenerMirrors
<1> SUFFICES ASSUME MirrorInv, connected, notes = <<>> PROVE shown = Heard
  BY DEF ListenerMirrors, Heard
<1>1. \A f : Tells(f) = {}
  BY DEF Tells
<1> QED
  BY <1>1 DEF MirrorInv, LastNote, Types, Names, Heard

LEMMA MirrorInit == DirInit => MirrorInv
BY TypesInit DEF DirInit, MirrorInv

\* A note about file g is sent, and nothing changes for the other files.
LEMMA AppendMirrors ==
    ASSUME MirrorInv, Types', connected, connected', NEW g \in File,
           NEW op \in {"added", "modified", "removed"},
           notes' = Append(notes, Note(op, g)), shown' = shown,
           \A f \in File \ {g} : f \in Heard' <=> f \in Heard,
           op = "added" => g \in Heard',
           op = "modified" => (g \in Heard' <=> g \in Heard),
           op = "removed" => g \notin Heard'
    PROVE  MirrorInv'
<1>0. PICK n : n = Len(notes) + 1
  BY ZenonT(30)
<1>1. /\ notes \in Seq(NoteType) /\ n \in Nat /\ DOMAIN notes = 1 .. (n - 1)
      /\ DOMAIN notes' = 1 .. n
      /\ notes'[n] = Note(op, g)
      /\ \A i \in DOMAIN notes : i \in DOMAIN notes' /\ notes'[i] = notes[i]
  BY <1>0 DEF MirrorInv, Types
<1>2. ASSUME NEW f \in File PROVE LastNote(f)'
  <2>1. LastNote(f)
    BY DEF MirrorInv
  <2>2. CASE f # g \/ op = "modified"
    <3>1. f \in Heard' <=> f \in Heard
      BY <2>2
    <3>2. Tells(f)' = Tells(f)
      BY <1>1, <2>2 DEF Tells, Note
    <3> QED
      BY <1>1, <2>1, <3>1, <3>2, Zenon DEF LastNote, Tells
  <2>3. CASE f = g /\ op \in {"added", "removed"}
    <3>1. Tells(f)' = Tells(f) \cup {n}
      BY <1>1, <2>3 DEF Tells, Note
    <3>2. \A i \in Tells(f)' : (\A j \in Tells(f)' : j <= i) => i = n
      BY <1>1, <3>1 DEF Tells
    <3>3. notes'[n].operation = op
      BY <1>1 DEF Note
    <3> QED
      BY <2>3, <3>1, <3>2, <3>3, Zenon DEF LastNote
  <2> QED
    BY <2>2, <2>3
<1> QED
  BY <1>2 DEF MirrorInv

\* The first note is read.  What it is about is up to date then if there is no
\* other note about the file.
LEMMA ReceiveMirrors ==
    ASSUME MirrorInv, Types', ClientReceive
    PROVE  MirrorInv'
<1>1. /\ notes # <<>> /\ notes \in Seq(NoteType) /\ notes' = Tail(notes)
      /\ UNCHANGED <<knownEntries, unheard, connected>> /\ shown \subseteq clientEntries
  BY Zenon DEF ClientReceive, MirrorInv, Types
<1>2. PICK n \in Nat : n = Len(notes)
  BY <1>1
<1>3. /\ n > 0 /\ DOMAIN notes = 1 .. n /\ DOMAIN notes' = 1 .. (n - 1)
      /\ Head(notes) = notes[1] /\ notes[1] \in NoteType
      /\ \A i \in 1 .. (n - 1) : notes'[i] = notes[i + 1]
  BY <1>1, <1>2
<1>4. PICK g, op : g = notes[1].file /\ op = notes[1].operation
  BY Zenon
<1>5. g \in File /\ op \in {"added", "modified", "removed"}
  BY <1>3, <1>4, Zenon DEF NoteType
<1>6. /\ op = "added" => shown' = shown \cup {g}
      /\ op = "modified" => shown' = shown
      /\ op = "removed" => shown' = IF g \in clientEntries THEN shown \ {g} ELSE shown
  BY <1>3, <1>4, Zenon DEF ClientReceive, EntryAdded, EntryModified, EntryRemoved
<1>7. connected
  BY <1>1 DEF MirrorInv
<1>8. ASSUME NEW f \in File PROVE LastNote(f)'
  <2>1. LastNote(f)
    BY <1>7 DEF MirrorInv
  <2>2. f \in Heard' <=> f \in Heard
    BY <1>1, Zenon DEF Names, Heard
  <2>3. \A i \in 1 .. (n - 1) : i \in Tells(f)' <=> i + 1 \in Tells(f)
    BY <1>3 DEF Tells
  <2>4. Tells(f) \subseteq 1 .. n /\ Tells(f)' \subseteq 1 .. (n - 1)
    BY <1>3 DEF Tells
  <2>5. ASSUME NEW i \in Tells(f)', \A j \in Tells(f)' : j <= i
        PROVE  notes'[i].operation = "added" <=> f \in Heard
    <3>1. i \in 1 .. (n - 1) /\ i + 1 \in Tells(f)
      BY <2>3, <2>4
    <3>2. ASSUME NEW j \in Tells(f) PROVE j <= i + 1
      <4>1. CASE j = 1
        BY <3>1, <4>1
      <4>2. CASE j # 1
        <5>1. j - 1 \in 1 .. (n - 1) /\ (j - 1) + 1 = j
          BY <2>4, <4>2
        <5>2. j - 1 \in Tells(f)'
          BY <2>3, <5>1
        <5> QED
          BY <2>5, <3>1, <5>1, <5>2
      <4> QED
        BY <4>1, <4>2
    <3> QED
      BY <1>3, <2>1, <3>1, <3>2, Zenon DEF LastNote
  <2>6. CASE f # g \/ op = "modified"
    <3>1. f \in shown' <=> f \in shown
      BY <1>5, <1>6, <2>6, Zenon
    <3>2. 1 \notin Tells(f)
      BY <1>4, <2>6 DEF Tells
    <3>3. Tells(f)' = {} => Tells(f) = {}
      <4> SUFFICES ASSUME NEW i \in Tells(f) PROVE i - 1 \in Tells(f)'
        OBVIOUS
      <4>1. i - 1 \in 1 .. (n - 1) /\ (i - 1) + 1 = i
        BY <2>4, <3>2
      <4> QED
        BY <2>3, <4>1
    <3> QED
      BY <2>1, <2>2, <2>5, <3>1, <3>3, Zenon DEF LastNote
  <2>7. CASE f = g /\ op # "modified"
    <3>1. 1 \in Tells(f)
      BY <1>3, <1>4, <2>7 DEF Tells
    <3>2. f \in shown' <=> op = "added"
      BY <1>1, <1>5, <1>6, <2>7, Zenon
    <3>3. ASSUME Tells(f)' = {} PROVE op = "added" <=> f \in Heard
      <4>1. ASSUME NEW j \in Tells(f) PROVE j <= 1
        <5>1. j # 1 => j - 1 \in 1 .. (n - 1) /\ (j - 1) + 1 = j
          BY <2>4
        <5> QED
          BY <2>3, <2>4, <3>3, <5>1
      <4> QED
        BY <1>4, <2>1, <3>1, <4>1 DEF LastNote
    <3> QED
      BY <2>2, <2>5, <3>2, <3>3, Zenon DEF LastNote
  <2> QED
    BY <2>6, <2>7
<1> QED
  BY <1>1, <1>7, <1>8 DEF MirrorInv

LEMMA MirrorNext ==
    ASSUME MirrorInv, [DirNext]_dirVars
    PROVE  MirrorInv'
<1>0. Types /\ Types'
  BY TypesNext, Zenon DEF MirrorInv
<1>1. ASSUME notes' = notes, shown' = shown, connected' = connected,
             connected => \A f \in File : f \in Heard' <=> f \in Heard
      PROVE  MirrorInv'
  BY <1>0, <1>1, Zenon DEF MirrorInv, LastNote, Tells
<1>2. ASSUME NEW f \in File, ReadEntry(f) PROVE MirrorInv'
  <2>1. UNCHANGED <<shown, connected, unheard>>
    BY <1>2, Zenon DEF ReadEntry, clientVars
  <2>2. CASE dir[f] = Absent
    BY <1>1, <1>2, <2>1, <2>2, Zenon DEF ReadEntry, Heard, Names
  <2>3. CASE dir[f] # Absent
    <3>1. knownEntries' = [knownEntries EXCEPT ![f] = dir[f]]
      BY <1>2, <2>3, Zenon DEF ReadEntry
    <3>2. Names(knownEntries)' = Names(knownEntries) \cup {f}
      BY <1>0, <2>3, <3>1 DEF Names, Types
    <3>3. CASE ~connected \/ notes' = notes
      <4>1. notes' = notes
        BY <1>2, <3>3, Zenon DEF ReadEntry, Notified
      <4>2. connected => knownEntries[f] # Absent
        <5>1. \A note : notes \in Seq(NoteType) => Append(notes, note) # notes
          OBVIOUS
        <5>. QED
          BY <1>0, <1>2, <2>3, <4>1, <5>1, Zenon DEF ReadEntry, Notified, Types
      <4>3. connected => Names(knownEntries)' = Names(knownEntries)
        BY <3>2, <4>2 DEF Names
      <4> QED
        BY <1>1, <2>1, <4>1, <4>3, Zenon DEF Heard
    <3>4. CASE connected /\ knownEntries[f] = Absent
      <4>1. notes' = Append(notes, Note("added", f))
        BY <1>2, <2>3, <3>4, Zenon DEF ReadEntry, Notified
      <4>2. f \notin unheard
        BY <1>0, <3>4, Zenon DEF Types, Names
      <4>3. Heard' = Heard \cup {f}
        BY <2>1, <3>2, <4>2 DEF Heard
      <4> QED
        BY <1>0, <2>1, <3>4, <4>1, <4>3, AppendMirrors
    <3>5. CASE connected /\ knownEntries[f] # Absent /\ notes' # notes
      <4>1. notes' = Append(notes, Note("modified", f))
        BY <1>2, <2>3, <3>5, Zenon DEF ReadEntry, Notified
      <4>2. Heard' = Heard
        BY <2>1, <3>2, <3>5 DEF Heard, Names
      <4> QED
        BY <1>0, <2>1, <3>5, <4>1, <4>2, AppendMirrors
    <3> QED
      BY <3>3, <3>4, <3>5, Zenon
  <2> QED
    BY <2>2, <2>3, Zenon
<1>3. ASSUME NEW f \in File, RemoveEntry(f) PROVE MirrorInv'
  <2>1. UNCHANGED <<shown, connected>>
    BY <1>3, Zenon DEF RemoveEntry, clientVars
  <2>2. Names(knownEntries)' = Names(knownEntries) \ {f} /\ unheard' = unheard \ {f}
    BY <1>0, <1>3 DEF RemoveEntry, Names, Types
  <2>3. Heard' = Heard \ {f}
    BY <2>2 DEF Heard
  <2>4. CASE connected
    <3>1. notes' = Append(notes, Note("removed", f))
      BY <1>3, <2>4, Zenon DEF RemoveEntry, Notified
    <3>. QED
      BY <1>0, <2>1, <2>3, <2>4, <3>1, AppendMirrors
  <2>5. CASE ~connected
    BY <1>1, <1>3, <2>1, <2>5, Zenon DEF RemoveEntry, Notified
  <2> QED
    BY <2>4, <2>5
<1>4. CASE ClientReceive
  BY <1>0, <1>4, ReceiveMirrors
<1>5. CASE Tick \/ UpdateStart \/ UpdateDone \/ UNCHANGED dirVars
  BY <1>1, <1>5, Zenon DEF Tick, UpdateStart, UpdateDone, dirVars, clientVars, Heard, Names
<1>6. ASSUME NEW f \in File, List(f) PROVE MirrorInv'
  BY <1>1, <1>6, Zenon DEF List, Heard, Names
<1>7. ASSUME NEW f \in File, NEW time \in Time \cup {Absent}, Change(f, time) PROVE MirrorInv'
  BY <1>1, <1>7, Zenon DEF Change, clientVars, Heard, Names
<1>8. CASE Connect
  <2>1. notes' = <<>> /\ shown' = {} /\ Heard' = {} /\ connected'
    BY <1>8, Zenon DEF Connect, MirrorInv, Heard, Names
  <2>2. \A f : Tells(f)' = {}
    BY <2>1 DEF Tells
  <2>. QED
    BY <1>0, <2>1, <2>2, Zenon DEF MirrorInv, LastNote
<1> QED
  BY <1>2, <1>3, <1>4, <1>5, <1>6, <1>7, <1>8 DEF DirNext

(* For any files, with a client that is connected at any time: when no        *)
(* notification is underway its listener has exactly the files updateEntries  *)
(* knows, apart from those known when it was connected and not removed since. *)
THEOREM ListenerAlwaysMirrors == DirSpec => []ListenerMirrors
<1>1. DirSpec => []MirrorInv
  BY MirrorInit, MirrorNext, PTL DEF DirSpec
<1> QED
  BY <1>1, MirrorImplies, PTL

====
