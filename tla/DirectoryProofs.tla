-------------------------- MODULE DirectoryProofs --------------------------
(***************************************************************************)
(* For any institutions, distances and page size: a client that pages      *)
(* through the directory misses none and sees none twice but for the       *)
(* reasons Directory names, and missing coordinates only block the end of  *)
(* the list.                                                               *)
(*                                                                         *)
(* Rows are only added, so in an order that does not depend on the needs   *)
(* the place of an institution never falls: whatever was in front of the   *)
(* client's offset has been shown.                                         *)
(***************************************************************************)
EXTENDS Directory, FiniteSetTheorems, WellFoundedInduction, TLAPS

\* A nonempty set of numbers has a smallest one.
LEMMA Least ==
  ASSUME NEW T, T \subseteq Nat, T # {}
  PROVE  \E x \in T : \A y \in T : x <= y
<1>1. PICK x \in T : \A y \in T : ~(<<y, x>> \in OpToRel(<, Nat))
  BY NatLessThanWellFounded, WFMin
<1>2. \A y \in T : ~(y < x)
  BY <1>1 DEF OpToRel
<1> QED BY <1>2

\* ... and, if it is bounded, a largest one.
LEMMA Greatest ==
  ASSUME NEW T, T \subseteq Nat, T # {}, NEW n \in Nat, \A y \in T : y <= n
  PROVE  \E x \in T : \A y \in T : y <= x
<1> DEFINE D == {n - y : y \in T}
<1>1. D \subseteq Nat /\ D # {}
  <2>1. \A y \in T : n - y \in Nat
    OBVIOUS
  <2>2. PICK y \in T : TRUE
    OBVIOUS
  <2>3. n - y \in D
    OBVIOUS
  <2> QED BY <2>1, <2>3
<1>2. PICK d \in D : \A c \in D : d <= c
  BY <1>1, Least
<1>3. PICK x \in T : d = n - x
  OBVIOUS
<1>4. ASSUME NEW y \in T PROVE y <= x
  <2>1. d <= n - y
    BY <1>2
  <2> QED BY <1>3, <2>1
<1> QED BY <1>4

----------------------------------------------------------------------------
(* The list *)

\* There are finitely many institutions at any time.
Typed == DirectoryTypeOK /\ IsFiniteSet(DOMAIN institutions)

Ahead(i) == {j \in DOMAIN institutions : Precedes(j, i)}

LEMMA RowsTyped ==
  ASSUME Typed
  PROVE  /\ \A i \in DOMAIN institutions :
              /\ i \in Nat
              /\ institutions[i].located \in BOOLEAN
              /\ institutions[i].far \in Nat
              /\ institutions[i].needs \in Nat
         /\ Order \in Sorts
BY DirectoryAssumption DEF Typed, DirectoryTypeOK, Institution, Browse, Order, DirectoryAssumption,
   Sorts

\* Each of the three orders is strict and total.
LEMMA StrictOrder ==
  ASSUME Typed
  PROVE  /\ \A i \in DOMAIN institutions : ~Precedes(i, i)
         /\ \A i, j \in DOMAIN institutions : i # j => Precedes(i, j) \/ Precedes(j, i)
         /\ \A i, j, k \in DOMAIN institutions : Precedes(i, j) /\ Precedes(j, k) => Precedes(i, k)
<1>1. CASE Order = "id"
  BY <1>1, RowsTyped DEF Precedes, Newer
<1>2. CASE Order = "needs"
  BY <1>2, RowsTyped DEF Precedes, Busier, Newer
<1>3. CASE Order = "distance"
  BY <1>3, RowsTyped DEF Precedes, Nearer
<1> QED BY <1>1, <1>2, <1>3, RowsTyped DEF Sorts

LEMMA SetsOfRows ==
  ASSUME Typed, NEW A, A \subseteq DOMAIN institutions
  PROVE  /\ IsFiniteSet(A) /\ Cardinality(A) \in Nat
         /\ \A B \in SUBSET A : Cardinality(B) \in Nat /\ Cardinality(B) <= Cardinality(A)
<1>1. IsFiniteSet(A)
  BY FS_Subset DEF Typed
<1> QED BY <1>1, FS_Subset, FS_CardinalityType

LEMMA PlaceIs ==
  ASSUME Typed, NEW i
  PROVE  Place(i) = Cardinality(Ahead(i)) /\ Place(i) \in Nat /\ Ahead(i) \subseteq DOMAIN institutions
BY SetsOfRows DEF Place, Ahead

LEMMA PlaceOrder ==
  ASSUME Typed, NEW i \in DOMAIN institutions, NEW j \in DOMAIN institutions, Precedes(j, i)
  PROVE  Place(j) < Place(i)
<1>1. Ahead(j) \subseteq Ahead(i) \ {j} /\ j \in Ahead(i)
  BY StrictOrder DEF Ahead
<1>2. /\ IsFiniteSet(Ahead(i)) /\ IsFiniteSet(Ahead(i) \ {j})
      /\ Cardinality(Ahead(i) \ {j}) = Cardinality(Ahead(i)) - 1
  BY <1>1, PlaceIs, SetsOfRows, FS_RemoveElement
<1>3. Cardinality(Ahead(j)) <= Cardinality(Ahead(i)) - 1
  BY <1>1, <1>2, FS_Subset
<1> QED BY <1>3, PlaceIs

\* Places have no gaps: a page is empty only at the end of the list.
LEMMA EmptyPageIsLast ==
  ASSUME Typed, NEW offset \in Nat, PageAt(offset) = {}
  PROVE  \A i \in DOMAIN institutions : Place(i) < offset
<1> DEFINE A == {i \in DOMAIN institutions : Place(i) < offset}
           B == {i \in DOMAIN institutions : Place(i) >= offset}
<1> SUFFICES ASSUME B # {} PROVE FALSE
  BY PlaceIs
<1>1. PICK m \in B : \A i \in B : Place(m) <= Place(i)
  <2> DEFINE T == {Place(i) : i \in B}
  <2>1. T \subseteq Nat /\ T # {}
    BY PlaceIs
  <2>2. PICK x \in T : \A y \in T : x <= y
    BY <2>1, Least
  <2> QED BY <2>2
<1>2. Place(m) > offset /\ Place(m) \in Nat
  BY <1>1, PlaceIs, DirectoryAssumption DEF PageAt, DirectoryAssumption
<1>3. Ahead(m) = A
  <2>1. ASSUME NEW i \in DOMAIN institutions, Precedes(i, m) PROVE Place(i) < offset
    BY <1>1, <2>1, PlaceOrder, PlaceIs
  <2>2. ASSUME NEW i \in A PROVE Precedes(i, m)
    BY <1>1, PlaceOrder, PlaceIs, StrictOrder
  <2> QED BY <2>1, <2>2 DEF Ahead
<1>4. IsFiniteSet(A) /\ Cardinality(A) = Place(m)
  BY <1>3, PlaceIs, SetsOfRows
<1>5. A # {}
  BY <1>2, <1>4, FS_EmptySet
<1>6. PICK a \in A : \A i \in A : Place(i) <= Place(a)
  <2> DEFINE T == {Place(i) : i \in A}
  <2>1. T \subseteq Nat /\ T # {} /\ \A y \in T : y <= offset
    BY <1>5, PlaceIs
  <2>2. PICK x \in T : \A y \in T : y <= x
    BY <2>1, Greatest
  <2> QED BY <2>2
<1>7. A \ {a} \subseteq Ahead(a)
  <2> SUFFICES ASSUME NEW i \in A, i # a PROVE Precedes(i, a)
    BY DEF Ahead
  <2>1. Precedes(i, a) \/ Precedes(a, i)
    BY StrictOrder
  <2>2. ~Precedes(a, i)
    BY <1>6, PlaceOrder, PlaceIs
  <2> QED BY <2>1, <2>2
<1>8. Cardinality(A \ {a}) = Place(m) - 1
  BY <1>4, FS_RemoveElement
<1>9. Cardinality(A \ {a}) <= Place(a)
  BY <1>7, PlaceIs, SetsOfRows
<1> QED BY <1>2, <1>8, <1>9, PlaceIs

----------------------------------------------------------------------------
(* What a step does to the list *)

\* Rows are only added; what an order looks at stays, unless it is by needs.
RowsKept ==
  /\ DOMAIN institutions \subseteq DOMAIN institutions'
  /\ \A i \in DOMAIN institutions :
       /\ institutions'[i].located = institutions[i].located
       /\ institutions'[i].far = institutions[i].far
       /\ Order # "needs" \/ institutions'[i].needs = institutions[i].needs

LEMMA PlacesRise ==
  ASSUME Typed, Typed', RowsKept, Order' = Order, NEW i \in DOMAIN institutions
  PROVE  Place(i) <= Place(i)' /\ Place(i)' \in Nat
<1>1. \A j \in DOMAIN institutions : Precedes(j, i) => Precedes(j, i)'
  BY RowsTyped DEF Precedes, Newer, Busier, Nearer, RowsKept
<1>2. Ahead(i) \subseteq Ahead(i)' /\ Ahead(i)' \subseteq DOMAIN institutions'
  BY <1>1 DEF Ahead, RowsKept
<1>3. IsFiniteSet(Ahead(i)') /\ Cardinality(Ahead(i)') \in Nat
  BY <1>2, FS_Subset, FS_CardinalityType DEF Typed
<1>4. Place(i)' = Cardinality(Ahead(i)')
  BY DEF Place, Ahead
<1> QED BY <1>2, <1>3, <1>4, FS_Subset, PlaceIs

LEMMA PlacesKept ==
  ASSUME Typed, Typed', RowsKept, Order' = Order, DOMAIN institutions' = DOMAIN institutions,
         NEW i \in DOMAIN institutions
  PROVE  Place(i)' = Place(i)
<1>1. \A j \in DOMAIN institutions : Precedes(j, i)' = Precedes(j, i)
  BY RowsTyped DEF Precedes, Newer, Busier, Nearer, RowsKept
<1> QED BY <1>1 DEF Place

----------------------------------------------------------------------------
(* Types *)

LEMMA NotedFields ==
  ASSUME DirectoryTypeOK, NEW field \in {"added", "recounted"}
  PROVE  /\ Noted(field) \in Browse
         /\ Noted(field).at = browse.at /\ Noted(field).sort = browse.sort
         /\ Noted(field).positioned = browse.positioned
         /\ Noted(field).offset = browse.offset /\ Noted(field).seen = browse.seen
         /\ Noted(field).start = browse.start /\ Noted(field).repeated = browse.repeated
         /\ browse.at # "done" =>
              /\ Noted(field).added = (browse.added \/ field = "added")
              /\ Noted(field).recounted = (browse.recounted \/ field = "recounted")
         /\ browse.at = "done" => Noted(field) = browse
<1>1. browse \in Browse
  BY DEF DirectoryTypeOK
<1>2. CASE field = "added"
  BY <1>1, <1>2 DEF Noted, Browse
<1>3. CASE field = "recounted"
  BY <1>1, <1>3 DEF Noted, Browse
<1> QED BY <1>2, <1>3

LEMMA AddStep ==
  ASSUME Typed, NEW i \in Ids, NEW located \in BOOLEAN, NEW far \in Far,
         CreateInstitution(i, located, far)
  PROVE  Typed' /\ RowsKept /\ browse' = Noted("added") /\ Order' = Order
<1>1. /\ browse' = Noted("added")
      /\ DOMAIN institutions' = DOMAIN institutions \cup {i}
      /\ i \notin DOMAIN institutions
      /\ \A j \in DOMAIN institutions : institutions'[j] = institutions[j]
  BY DEF CreateInstitution
<1>2. institutions' \in [DOMAIN institutions' -> Institution]
  BY DEF CreateInstitution, Typed, DirectoryTypeOK, Institution
<1>3. browse' \in Browse /\ Order' = Order
  BY <1>1, NotedFields DEF Typed, Order
<1>4. browse' \in Browse'
  BY <1>1, <1>3 DEF Browse
<1>5. IsFiniteSet(DOMAIN institutions')
  BY <1>1, FS_AddElement DEF Typed
<1> QED BY <1>1, <1>2, <1>3, <1>4, <1>5 DEF Typed, DirectoryTypeOK, RowsKept

LEMMA RecountStep ==
  ASSUME Typed, NEW i \in DOMAIN institutions, NEW n \in Nat, Recount(i, n)
  PROVE  /\ Typed'
         /\ DOMAIN institutions' = DOMAIN institutions
         /\ Order # "needs" => RowsKept
         /\ browse' = Noted("recounted") /\ Order' = Order
<1>1. browse' = Noted("recounted") /\ DOMAIN institutions' = DOMAIN institutions
  BY DEF Recount
<1>2. institutions' \in [DOMAIN institutions' -> Institution] /\ (Order # "needs" => RowsKept)
  BY DEF Recount, Typed, DirectoryTypeOK, Institution, RowsKept
<1>3. browse' \in Browse /\ Order' = Order
  BY <1>1, NotedFields DEF Typed, Order
<1>4. browse' \in Browse'
  BY <1>1, <1>3 DEF Browse
<1> QED BY <1>1, <1>2, <1>3, <1>4 DEF Typed, DirectoryTypeOK

Read ==
  \/ \E sort \in Sorts, positioned \in BOOLEAN : BeginBrowse(sort, positioned)
  \/ GetInstitutions \/ CountInstitutions \/ FailCountInstitutions

LEMMA ReadStep ==
  ASSUME Typed, Read
  PROVE  Typed' /\ UNCHANGED institutions
<1>1. UNCHANGED institutions
  BY DEF Read, BeginBrowse, GetInstitutions, CountInstitutions, FailCountInstitutions
<1>2. browse \in Browse /\ Cardinality(DOMAIN institutions) \in Nat
  BY FS_CardinalityType DEF Typed, DirectoryTypeOK
<1>3. ASSUME NEW sort \in Sorts, NEW positioned \in BOOLEAN, BeginBrowse(sort, positioned)
      PROVE  browse' \in Browse
  BY <1>3 DEF BeginBrowse, NewBrowse, Browse
<1>4. ASSUME GetInstitutions PROVE browse' \in Browse
  <2> DEFINE items == PageAt(browse.offset)
  <2>1. items \subseteq DOMAIN institutions /\ (items \cap browse.seen # {}) \in BOOLEAN
    BY DEF PageAt
  <2>2. browse.offset + PageSize \in Nat
    BY <1>2, DirectoryAssumption DEF Browse, DirectoryAssumption
  <2> QED BY <1>2, <1>4, <2>1, <2>2 DEF GetInstitutions, Browse
<1>5. ASSUME CountInstitutions \/ FailCountInstitutions PROVE browse' \in Browse
  BY <1>2, <1>5 DEF CountInstitutions, FailCountInstitutions, Browse
<1>6. browse' \in Browse'
  BY <1>1, <1>3, <1>4, <1>5 DEF Read, Browse
<1> QED BY <1>1, <1>6 DEF Typed, DirectoryTypeOK

----------------------------------------------------------------------------
(* The invariant: while a client is at it and its order stays, what it was *)
(* shown is what is in front of its offset                                 *)

\* Nothing there was at the start is in front of the offset without having been shown.
Front ==
  browse.at # "done" /\ ~Moved =>
    \A i \in browse.start : Place(i) < browse.offset => i \in browse.seen
\* Nothing that was shown is behind the offset, if nothing was added.
Behind ==
  browse.at # "done" /\ ~browse.added /\ ~Moved =>
    \A i \in browse.seen : Place(i) < browse.offset
\* After an empty page the client has been shown everything.
Shown == browse.at \in {"count", "done"} /\ ~Moved => browse.start \subseteq browse.seen

IInv == Typed /\ Front /\ Behind /\ Shown /\ RepeatsOnlyAfterAddition

LEMMA FieldsTyped ==
  ASSUME Typed
  PROVE  /\ browse.offset \in Nat /\ browse.offset + PageSize \in Nat
         /\ browse.seen \subseteq DOMAIN institutions /\ browse.start \subseteq DOMAIN institutions
         /\ browse.at \in {"page", "count", "done"}
         /\ browse.added \in BOOLEAN /\ browse.recounted \in BOOLEAN /\ browse.repeated \in BOOLEAN
BY DirectoryAssumption DEF Typed, DirectoryTypeOK, Browse, DirectoryAssumption

LEMMA InitIInv == DirectoryInit => IInv
<1> SUFFICES ASSUME DirectoryInit PROVE IInv
  OBVIOUS
<1>1. DOMAIN institutions = {} /\ institutions \in [DOMAIN institutions -> Institution]
  BY DEF DirectoryInit
<1>2. PICK sort \in Sorts, positioned \in BOOLEAN : browse = NewBrowse(sort, positioned)
  BY DEF DirectoryInit
<1>3. browse \in Browse
  BY <1>2 DEF NewBrowse, Browse
<1>4. Typed
  BY <1>1, <1>3, FS_EmptySet DEF Typed, DirectoryTypeOK
<1>5. browse.start = {} /\ browse.seen = {} /\ browse.at = "page" /\ ~browse.repeated
  BY <1>1, <1>2 DEF NewBrowse
<1> QED BY <1>4, <1>5 DEF IInv, Front, Behind, Shown, RepeatsOnlyAfterAddition

LEMMA AddKeeps ==
  ASSUME IInv, NEW i \in Ids, NEW located \in BOOLEAN, NEW far \in Far,
         CreateInstitution(i, located, far)
  PROVE  IInv'
<1>1. Typed /\ Typed' /\ RowsKept /\ browse' = Noted("added") /\ Order' = Order
  BY AddStep DEF IInv
<1>2. CASE browse.at = "done"
  <2>1. browse' = browse
    BY <1>1, <1>2, NotedFields DEF Typed
  <2> QED BY <1>1, <1>2, <2>1
       DEF IInv, Front, Behind, Shown, RepeatsOnlyAfterAddition, Moved
<1>3. CASE browse.at # "done"
  <2>1. /\ browse'.at = browse.at /\ browse'.offset = browse.offset
        /\ browse'.seen = browse.seen /\ browse'.start = browse.start
        /\ browse'.repeated = browse.repeated /\ browse'.added
        /\ browse'.recounted = browse.recounted
    BY <1>1, <1>3, NotedFields, FieldsTyped DEF Typed
  <2>2. Moved' = Moved
    BY <1>1, <2>1 DEF Moved
  <2>3. \A j \in browse.start : Place(j)' < browse.offset => Place(j) < browse.offset
    BY <1>1, PlacesRise, PlaceIs, FieldsTyped
  <2>4. Front'
    BY <2>1, <2>2, <2>3 DEF Front, IInv
  <2> QED BY <1>1, <2>1, <2>2, <2>4 DEF IInv, Behind, Shown, RepeatsOnlyAfterAddition
<1> QED BY <1>2, <1>3

LEMMA RecountKeeps ==
  ASSUME IInv, NEW i \in DOMAIN institutions, NEW n \in Nat, Recount(i, n)
  PROVE  IInv'
<1>1. /\ Typed /\ Typed' /\ DOMAIN institutions' = DOMAIN institutions
      /\ Order # "needs" => RowsKept
      /\ browse' = Noted("recounted") /\ Order' = Order
  BY RecountStep DEF IInv
<1>2. CASE browse.at = "done"
  <2>1. browse' = browse
    BY <1>1, <1>2, NotedFields DEF Typed
  <2> QED BY <1>1, <1>2, <2>1
       DEF IInv, Front, Behind, Shown, RepeatsOnlyAfterAddition, Moved
<1>3. CASE browse.at # "done"
  <2>1. /\ browse'.at = browse.at /\ browse'.offset = browse.offset
        /\ browse'.seen = browse.seen /\ browse'.start = browse.start
        /\ browse'.repeated = browse.repeated /\ browse'.added = browse.added
        /\ browse'.recounted
    BY <1>1, <1>3, NotedFields, FieldsTyped DEF Typed
  <2>2. CASE Order = "needs"
    <3>1. Moved'
      BY <1>1, <2>1, <2>2 DEF Moved
    <3> QED BY <1>1, <2>1, <3>1 DEF IInv, Front, Behind, Shown, RepeatsOnlyAfterAddition
  <2>3. CASE Order # "needs"
    <3>1. ~Moved /\ ~Moved'
      BY <1>1, <2>3 DEF Moved
    <3>2. \A j \in DOMAIN institutions : Place(j)' = Place(j)
      BY <1>1, <2>3, PlacesKept
    <3>3. Front' /\ Behind'
      BY <2>1, <3>1, <3>2, FieldsTyped, <1>1 DEF Front, Behind, IInv
    <3> QED BY <1>1, <2>1, <3>1, <3>3 DEF IInv, Shown, RepeatsOnlyAfterAddition
  <2> QED BY <2>2, <2>3
<1> QED BY <1>2, <1>3

\* The heart of it: a page shows what is at the offset, and an empty one is the last.
LEMMA PageKeeps ==
  ASSUME IInv, GetInstitutions
  PROVE  IInv'
<1> DEFINE items == PageAt(browse.offset)
<1>1. Typed /\ Typed' /\ UNCHANGED institutions
  BY ReadStep DEF IInv, Read
<1>2. browse \in Browse /\ browse.at = "page"
  BY <1>1 DEF GetInstitutions, Typed, DirectoryTypeOK
<1>3. CASE items = {}
  <2>1. browse' = [browse EXCEPT !.at = "count"]
    BY <1>3 DEF GetInstitutions
  <2>2. /\ browse'.at = "count" /\ browse'.offset = browse.offset
        /\ browse'.seen = browse.seen /\ browse'.start = browse.start
        /\ browse'.repeated = browse.repeated /\ browse'.added = browse.added
        /\ browse'.recounted = browse.recounted
        /\ browse'.sort = browse.sort /\ browse'.positioned = browse.positioned
    BY <1>2, <2>1 DEF Browse
  <2>3. Order' = Order /\ Moved' = Moved
    BY <2>2 DEF Order, Moved
  <2>4. \A i : Place(i)' = Place(i)
    BY <1>1, <2>3 DEF Place, Precedes, Newer, Busier, Nearer
  <2>5. ~Moved => browse.start \subseteq browse.seen
    BY <1>1, <1>2, <1>3, EmptyPageIsLast, FieldsTyped DEF IInv, Front
  <2> QED BY <1>1, <1>2, <2>2, <2>3, <2>4, <2>5
       DEF IInv, Front, Behind, Shown, RepeatsOnlyAfterAddition
<1>4. CASE items # {}
  <2>1. browse' = [browse EXCEPT !.offset = @ + PageSize,
                                 !.seen = @ \cup items,
                                 !.total = Cardinality(DOMAIN institutions),
                                 !.repeated = @ \/ items \cap browse.seen # {}]
    BY <1>4 DEF GetInstitutions
  <2>2. /\ browse'.at = "page" /\ browse'.offset = browse.offset + PageSize
        /\ browse'.seen = browse.seen \cup items /\ browse'.start = browse.start
        /\ browse'.repeated = (browse.repeated \/ items \cap browse.seen # {})
        /\ browse'.added = browse.added /\ browse'.recounted = browse.recounted
        /\ browse'.sort = browse.sort /\ browse'.positioned = browse.positioned
    BY <1>2, <2>1 DEF Browse
  <2>3. Order' = Order /\ Moved' = Moved
    BY <2>2 DEF Order, Moved
  <2>4. \A i : Place(i)' = Place(i)
    BY <1>1, <2>3 DEF Place, Precedes, Newer, Busier, Nearer
  <2>5. \A i \in DOMAIN institutions :
          /\ i \in items <=> Place(i) >= browse.offset /\ Place(i) < browse.offset + PageSize
          /\ Place(i) \in Nat
    BY <1>1, PlaceIs, FieldsTyped, DirectoryAssumption DEF PageAt, DirectoryAssumption
  <2>6. items \subseteq DOMAIN institutions
    BY DEF PageAt
  <2>7. Front'
    BY <1>1, <1>2, <2>2, <2>3, <2>4, <2>5, FieldsTyped DEF IInv, Front
  <2>8. Behind'
    BY <1>1, <1>2, <2>2, <2>3, <2>4, <2>5, <2>6, FieldsTyped, DirectoryAssumption
       DEF IInv, Behind, DirectoryAssumption
  <2>9. ~browse.added /\ ~Moved => items \cap browse.seen = {}
    BY <1>1, <1>2, <2>5, FieldsTyped DEF IInv, Behind
  <2>10. RepeatsOnlyAfterAddition'
    BY <2>2, <2>3, <2>9 DEF IInv, RepeatsOnlyAfterAddition
  <2> QED BY <1>1, <2>2, <2>7, <2>8, <2>10 DEF IInv, Shown
<1> QED BY <1>3, <1>4

LEMMA OtherReadsKeep ==
  ASSUME IInv, Read, ~GetInstitutions
  PROVE  IInv'
<1>1. Typed /\ Typed' /\ UNCHANGED institutions
  BY ReadStep DEF IInv
<1>2. browse \in Browse
  BY <1>1 DEF Typed, DirectoryTypeOK
<1>3. ASSUME NEW sort \in Sorts, NEW positioned \in BOOLEAN, BeginBrowse(sort, positioned)
      PROVE  IInv'
  <2>1. /\ browse'.at = "page" /\ browse'.offset = 0 /\ browse'.seen = {}
        /\ browse'.start = DOMAIN institutions /\ ~browse'.repeated
    BY <1>3 DEF BeginBrowse, NewBrowse
  <2>2. \A i : Place(i)' \in Nat
    <3>1. \A i : Place(i)' = Cardinality(Ahead(i)') /\ Ahead(i)' \subseteq DOMAIN institutions'
      BY DEF Place, Ahead
    <3> QED BY <1>1, <3>1, FS_Subset, FS_CardinalityType DEF Typed
  <2> QED BY <1>1, <2>1, <2>2 DEF IInv, Front, Behind, Shown, RepeatsOnlyAfterAddition
<1>4. ASSUME CountInstitutions \/ FailCountInstitutions PROVE IInv'
  <2>1. /\ browse.at = "count" /\ browse'.at \in {"page", "done"}
        /\ browse'.offset = browse.offset
        /\ browse'.seen = browse.seen /\ browse'.start = browse.start
        /\ browse'.repeated = browse.repeated /\ browse'.added = browse.added
        /\ browse'.recounted = browse.recounted
        /\ browse'.sort = browse.sort /\ browse'.positioned = browse.positioned
    BY <1>2, <1>4 DEF CountInstitutions, FailCountInstitutions, Browse
  <2>2. Order' = Order /\ Moved' = Moved
    BY <2>1 DEF Order, Moved
  <2>3. \A i : Place(i)' = Place(i)
    BY <1>1, <2>2 DEF Place, Precedes, Newer, Busier, Nearer
  <2> QED BY <1>1, <2>1, <2>2, <2>3
       DEF IInv, Front, Behind, Shown, RepeatsOnlyAfterAddition
<1> QED BY <1>3, <1>4 DEF Read

LEMMA IInvStep == IInv /\ [DirectoryNext]_directoryVars => IInv'
<1> SUFFICES ASSUME IInv, [DirectoryNext]_directoryVars PROVE IInv'
  OBVIOUS
<1>1. ASSUME NEW i \in Ids, NEW located \in BOOLEAN, NEW far \in Far,
             CreateInstitution(i, located, far)
      PROVE  IInv'
  BY <1>1, AddKeeps
<1>2. ASSUME NEW i \in DOMAIN institutions, CreateNeed(i) \/ ArchiveNeed(i) PROVE IInv'
  <2>1. institutions[i].needs \in Nat
    BY RowsTyped DEF IInv
  <2>2. PICK n \in Nat : Recount(i, n)
    BY <1>2, <2>1 DEF CreateNeed, ArchiveNeed
  <2> QED BY <2>2, RecountKeeps
<1>3. Read => IInv'
  BY PageKeeps, OtherReadsKeep
<1>4. UNCHANGED directoryVars => IInv'
  BY DEF directoryVars, IInv, Typed, DirectoryTypeOK, Browse, Front, Behind, Shown,
     RepeatsOnlyAfterAddition, Moved, Order, Place, Precedes, Newer, Busier, Nearer
<1> QED BY <1>1, <1>2, <1>3, <1>4 DEF DirectoryNext, Read

LEMMA Invariance == DirectorySpec => []IInv
BY InitIInv, IInvStep, PTL DEF DirectorySpec

----------------------------------------------------------------------------
(* The properties *)

\* For all institutions, page sizes and orders: rows and clients are well typed, and a
\* client is only shown institutions there are.
THEOREM DirectoryTypeCorrect == DirectorySpec => []DirectoryTypeOK
<1>1. IInv => DirectoryTypeOK
  BY DEF IInv, Typed
<1> QED BY Invariance, <1>1, PTL

\* Whoever pages to the end is shown every institution there was when it began, unless
\* its order depends on the needs and these changed.
THEOREM NoneMissed == DirectorySpec => []MissesOnlyAfterRecount
<1>1. IInv => MissesOnlyAfterRecount
  BY DEF IInv, Shown, MissesOnlyAfterRecount
<1> QED BY Invariance, <1>1, PTL

\* An institution is listed again only if the list has grown or its order changed.
THEOREM RepeatsNeedAddition == DirectorySpec => []RepeatsOnlyAfterAddition
<1>1. IInv => RepeatsOnlyAfterAddition
  BY DEF IInv
<1> QED BY Invariance, <1>1, PTL

\* A page that fails for missing coordinates comes after, or holds, the last institution
\* with coordinates: those without are all behind, in the order by distance.
THEOREM BlockedAtTheEnd == DirectorySpec => []BlockedOnlyAtTheEnd
<1>1. ASSUME IInv PROVE BlockedOnlyAtTheEnd
  <2> DEFINE next == PageAt(browse.offset)
  <2> SUFFICES ASSUME browse.at = "page", Order = "distance", ~Readable(next),
                      NEW i \in browse.start, institutions[i].located,
                      i \notin browse.seen
               PROVE  i \in next
    BY DEF BlockedOnlyAtTheEnd
  <2>1. Typed /\ browse.offset \in Nat /\ i \in DOMAIN institutions
    BY <1>1, FieldsTyped DEF IInv
  <2>2. PICK u \in next : ~institutions[u].located
    BY DEF Readable
  <2>3. u \in DOMAIN institutions /\ Place(u) < browse.offset + PageSize
    BY <2>1, PlaceIs, DirectoryAssumption DEF PageAt, DirectoryAssumption
  <2>4. Precedes(i, u)
    BY <2>2 DEF Precedes, Nearer
  <2>5. Place(i) < browse.offset + PageSize
    BY <2>1, <2>3, <2>4, PlaceOrder, PlaceIs, DirectoryAssumption DEF DirectoryAssumption
  <2>6. Place(i) >= browse.offset
    BY <1>1, <2>1, PlaceIs DEF IInv, Front, Moved
  <2> QED BY <2>1, <2>5, <2>6, PlaceIs, DirectoryAssumption DEF PageAt, DirectoryAssumption
<1> QED BY Invariance, <1>1, PTL
=============================================================================
