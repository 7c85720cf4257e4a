----------------------------- MODULE Directory -----------------------------
(***************************************************************************)
(* The directory of institutions.  Super-admins add institutions, nobody   *)
(* takes one away; a client asks for page after page of the list, in one   *)
(* of three orders, while institutions appear and their needs are created  *)
(* and archived.  One of the orders is by distance from the client, whose  *)
(* position is part of its query; the coordinates of an institution may be *)
(* missing.                                                                *)
(*                                                                         *)
(* As in Events each statement is atomic by itself.  What a search filters *)
(* out never changes, so the institutions here are those that match.       *)
(***************************************************************************)
EXTENDS Integers, FiniteSets

CONSTANTS
  Ids,       \* bound: ids the institutions table may hand out
  Far,       \* distances from the client
  PageSize,  \* the page size the client asks for
  MaxOpen    \* bound: open needs of an institution

ASSUME DirectoryAssumption ==
  /\ Ids \subseteq Nat
  /\ Far \subseteq Nat
  /\ PageSize \in Nat \ {0}
  /\ MaxOpen \in Nat

VARIABLES
  institutions,  \* rows of the institutions table, by id
  browse         \* what a client has seen of the list so far

directoryVars == <<institutions, browse>>

----------------------------------------------------------------------------
(* Rows and clients *)

\* far means nothing without coordinates; needs counts the needs that are not archived.
Institution == [located: BOOLEAN, far: Far, needs: Nat]

Sorts == {"id", "distance", "needs"}

\* Of a client: its query, the institutions its pages have listed, the last total, and,
\* as history, the institutions there were at its start, whether any has been added or
\* any count of needs has changed since, and whether a page listed one again.
NewBrowse(sort, positioned) ==
  [at |-> "page", sort |-> sort, positioned |-> positioned, offset |-> 0, seen |-> {},
   total |-> 0, start |-> DOMAIN institutions, added |-> FALSE, recounted |-> FALSE,
   repeated |-> FALSE]

Browse == [at: {"page", "count", "done"}, sort: Sorts, positioned: BOOLEAN, offset: Nat,
           seen: SUBSET DOMAIN institutions, total: Nat, start: SUBSET DOMAIN institutions,
           added: BOOLEAN, recounted: BOOLEAN, repeated: BOOLEAN]

Noted(field) == IF browse.at = "done" THEN browse ELSE [browse EXCEPT ![field] = TRUE]

----------------------------------------------------------------------------
(* Institutions and their needs *)

\* Two inserts may take their ids in one order and be seen in the other.
CreateInstitution(i, located, far) ==
  /\ i \notin DOMAIN institutions
  /\ institutions' = [j \in DOMAIN institutions \cup {i} |->
                        IF j = i THEN [located |-> located, far |-> far, needs |-> 0]
                                 ELSE institutions[j]]
  /\ browse' = Noted("added")

Recount(i, n) ==
  /\ institutions' = [institutions EXCEPT ![i].needs = n]
  /\ browse' = Noted("recounted")

CreateNeed(i) == institutions[i].needs < MaxOpen /\ Recount(i, institutions[i].needs + 1)

ArchiveNeedAgain(i) == institutions[i].needs > -1 /\ Recount(i, institutions[i].needs - 1)

\* A need that is archived again does not count twice.
ArchiveNeed(i) == institutions[i].needs > 0 /\ Recount(i, institutions[i].needs - 1)

----------------------------------------------------------------------------
(* The list *)

\* Without a position there are no distances to sort by.
Order == IF browse.sort = "distance" /\ ~browse.positioned THEN "id" ELSE browse.sort

Newer(i, j) == i > j
Busier(i, j) ==
  \/ institutions[i].needs > institutions[j].needs
  \/ institutions[i].needs = institutions[j].needs /\ Newer(i, j)

NearerUnknownFirst(i, j) ==
  LET a == institutions[i]
      b == institutions[j] IN
  \/ ~a.located /\ b.located
  \/ a.located /\ b.located /\ a.far < b.far
  \/ a.located = b.located /\ (a.located => a.far = b.far) /\ i < j

\* Unknown distances come last, and are equal.
Nearer(i, j) ==
  LET a == institutions[i]
      b == institutions[j] IN
  \/ a.located /\ ~b.located
  \/ a.located /\ b.located /\ a.far < b.far
  \/ a.located = b.located /\ (a.located => a.far = b.far) /\ i < j

\* Institution i is listed before institution j.
Precedes(i, j) ==
  \/ Order = "id" /\ Newer(i, j)
  \/ Order = "needs" /\ Busier(i, j)
  \/ Order = "distance" /\ Nearer(i, j)

Place(i) == Cardinality({j \in DOMAIN institutions : Precedes(j, i)})

PageAtOneMore(offset) == {i \in DOMAIN institutions : Place(i) \in offset .. offset + PageSize}

PageAtInnerJoin(offset) ==
  {i \in DOMAIN institutions :
     institutions[i].needs > 0 /\ Place(i) \in offset .. offset + PageSize - 1}

PageAt(offset) == {i \in DOMAIN institutions : Place(i) \in offset .. offset + PageSize - 1}

\* A distance that is unknown cannot be scanned: the page of a client that sent its
\* position fails if one of its institutions has no coordinates.
Readable(items) == browse.positioned => \A i \in items : institutions[i].located

BeginBrowse(sort, positioned) ==
  /\ browse.at = "done"
  /\ browse' = NewBrowse(sort, positioned)
  /\ UNCHANGED institutions

\* The total is that of the list, in the same statement.
GetInstitutions ==
  /\ browse.at = "page"
  /\ LET items == PageAt(browse.offset) IN
     /\ Readable(items)
     /\ browse' = IF items = {}
          THEN [browse EXCEPT !.at = "count"]
          ELSE [browse EXCEPT !.offset = @ + PageSize,
                              !.seen = @ \cup items,
                              !.total = Cardinality(DOMAIN institutions),
                              !.repeated = @ \/ items \cap browse.seen # {}]
  /\ UNCHANGED institutions

\* countInstitutions, for an empty page.
CountInstitutions ==
  /\ browse.at = "count"
  /\ browse' = [browse EXCEPT !.at = "done", !.total = Cardinality(DOMAIN institutions)]
  /\ UNCHANGED institutions

\* The count fails: the client asks for the page again.
FailCountInstitutions ==
  /\ browse.at = "count"
  /\ browse' = [browse EXCEPT !.at = "page"]
  /\ UNCHANGED institutions

----------------------------------------------------------------------------
(* The specification *)

DirectoryInit ==
  /\ institutions = [i \in {} |-> 0]
  /\ browse \in {NewBrowse(sort, positioned) : sort \in Sorts, positioned \in BOOLEAN}

DirectoryNext ==
  \/ \E i \in Ids, located \in BOOLEAN, far \in Far : CreateInstitution(i, located, far)
  \/ \E i \in DOMAIN institutions : CreateNeed(i) \/ ArchiveNeed(i)
  \/ \E sort \in Sorts, positioned \in BOOLEAN : BeginBrowse(sort, positioned)
  \/ GetInstitutions \/ CountInstitutions \/ FailCountInstitutions

DirectorySpec == DirectoryInit /\ [][DirectoryNext]_directoryVars

----------------------------------------------------------------------------
(* Properties *)

\* Rows and clients are well typed; no count of needs is negative, and a client is only
\* shown institutions that there are.
DirectoryTypeOK ==
  /\ DOMAIN institutions \subseteq Ids
  /\ institutions \in [DOMAIN institutions -> Institution]
  /\ browse \in Browse

\* The order of the list is not what it was when the client began.
Moved == Order = "needs" /\ browse.recounted

\* A client that has reached the end has been shown every institution there was when it
\* began, in whatever order, whichever institutions were added at the front, in the
\* middle or at the end, unless it sorts by needs and a need came or went.
MissesOnlyAfterRecount ==
  browse.at = "done" /\ ~Moved => browse.start \subseteq browse.seen

\* It is shown an institution twice only if one was added, or if it sorts by needs and
\* a need came or went.
RepeatsOnlyAfterAddition == browse.repeated => browse.added \/ Moved

\* A page with an institution without coordinates fails for a client that sent its
\* position, as often as it asks.  But one that sorts by distance gets that far: it has
\* been shown all that have coordinates, save what is on the failing page itself.
BlockedOnlyAtTheEnd ==
  LET next == PageAt(browse.offset) IN
  browse.at = "page" /\ Order = "distance" /\ ~Readable(next) =>
    \A i \in browse.start : institutions[i].located => i \in browse.seen \cup next
=============================================================================
