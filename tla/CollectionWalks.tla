--------------------------- MODULE CollectionWalks ---------------------------
(***************************************************************************)
(* Collections that can only be listed.  The server cuts a list into pages *)
(* and forgets every request, so what a walk from page to page sees is not *)
(* the list at any one time.  Two kinds of code walk: the reads that look  *)
(* for one id (DirectoryObjects), and the data source here, which gathers  *)
(* the whole catalogue of updatable objects and warns of what it cannot    *)
(* vouch for.                                                              *)
(***************************************************************************)
EXTENDS Naturals, Sequences, SequencesExt

CONSTANTS
  PageSize,   \* groupListPageSize, userListPageSize, updatableObjectsPageSize
  MaxPages    \* updatableObjectsMaxPages

ASSUME PagesAssumption == PageSize \in Nat \ {0} /\ MaxPages \in Nat \ {0}

VARIABLES
  list,      \* the collection, in the order the server lists it
  dialect,   \* how the server answers: [pages, size, totalPage, itemsTotal]
  walk       \* the walk under way: [page, rows, total, moved]

(* pages: it heeds the page it is asked for; size: the pages it serves;    *)
(* totalPage, itemsTotal: it reports them.                                 *)
Dialect ==
  [pages : BOOLEAN, size : {1, PageSize},
   totalPage : BOOLEAN, itemsTotal : BOOLEAN]

Documented ==
  [pages |-> TRUE, size |-> PageSize, totalPage |-> TRUE, itemsTotal |-> TRUE]

(* moved is history: what became of the list since the walk began.         *)
AtPageOne == [page |-> 1, rows |-> <<>>, total |-> {}, moved |-> "no"]
NoWalk == [AtPageOne EXCEPT !.page = 0]

Walking(w) ==
  /\ w.page \in Nat
  /\ \A m, n \in w.total : m = n /\ n \in Nat
  /\ w.moved \in {"no", "grown", "shrunk"}

TotalPage == (Len(list) + dialect.size - 1) \div dialect.size

Page(asked) ==
  LET p == IF dialect.pages THEN asked ELSE 1
      first == (p - 1) * dialect.size + 1
  IN SubSeq(list, first, IF first + dialect.size - 1 < Len(list)
                         THEN first + dialect.size - 1 ELSE Len(list))

(* Somebody else changes the list, during the walk if there is one.        *)
Grows(o) ==
  \E pos \in {1, Len(list) + 1} :
    /\ list' = InsertAt(list, pos, o)
    /\ walk' = IF walk.page = 0 \/ walk.moved = "shrunk" THEN walk
               ELSE [walk EXCEPT !.moved = "grown"]

Shrinks(i) ==
  /\ list' = RemoveAt(list, i)
  /\ walk' = IF walk.page = 0 THEN walk ELSE [walk EXCEPT !.moved = "shrunk"]

-----------------------------------------------------------------------------
(* dataSourceUpdatableObjectsRead: a page, and what follows from it        *)

(* Only the first page's total counts.                                     *)
Total ==
  IF walk.page = 1 /\ dialect.itemsTotal THEN {Len(list)} ELSE walk.total

(* Mutant: a page that repeats what was read is kept like any other.       *)
EveryPageIsProgress(data) == FALSE

countNewUpdatableObjects(data) == ToSet(data) \ ToSet(walk.rows)

NoProgress(data) ==
  walk.page > 1 /\ data # <<>> /\ countNewUpdatableObjects(data) = {}

LastPage(data) ==
  IF dialect.totalPage THEN walk.page >= TotalPage ELSE Len(data) < PageSize

(* The rows a read ends with, and whether it warns of them.                *)
Ends(rows, warned, result) ==
  result = [rows |-> rows, total |-> Total,
            warned |-> warned \/ (Total # {} /\ Total # {Len(rows)})]

CatalogueEnds(result) ==
  LET data == Page(walk.page)
  IN \/ data = <<>> /\ Ends(walk.rows, FALSE, result)
     \/ NoProgress(data) /\ Ends(walk.rows, TRUE, result)
     \/ /\ data # <<>> /\ ~NoProgress(data)
        /\ LastPage(data) \/ walk.page = MaxPages
        /\ Ends(walk.rows \o data, ~LastPage(data), result)

CatalogueGoesOn ==
  LET data == Page(walk.page)
  IN /\ data # <<>> /\ ~NoProgress(data)
     /\ ~LastPage(data) /\ walk.page < MaxPages
     /\ walk' = [walk EXCEPT !.page = @ + 1, !.rows = @ \o data,
                             !.total = Total]
=============================================================================
