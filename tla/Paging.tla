--------------------------------- MODULE Paging ---------------------------------
(***************************************************************************)
(* gorm/models and gorm/utils: a caller reads a table page by page with    *)
(* WithPagination and WithSort (or their variants), one request per page,  *)
(* while rows are inserted.  The database is external: it returns rows in  *)
(* any order that agrees with ORDER BY.                                    *)
(*                                                                         *)
(* A row is its id, which is also the order of creation; its other column  *)
(* is not unique.  Texts of requests that are no numbers count as 0, as    *)
(* Atoi has it.                                                            *)
(*                                                                         *)
(* The helpers discard what tx.Order and tx.Count(..).Scopes return, so    *)
(* they have an effect only on a tx that is a chain already, as GORM hands *)
(* to a scope; that is the tx modelled here.  Nothing in the repository    *)
(* calls them.                                                             *)
(***************************************************************************)
EXTENDS Integers, FiniteSets, Sequences, Functions

CONSTANTS
  MaxRows,
  SizeLimit,      \* the largest page, 100 in the code
  SizeDefault,    \* the size when none is given, 10 in the code
  Sizes           \* page_size of requests

ASSUME PagingAssumption ==
  /\ MaxRows \in Nat /\ SizeLimit \in Nat /\ SizeDefault \in 1 .. SizeLimit /\ Sizes \subseteq Int

VARIABLES
  rows,       \* ids in the table are 1 .. rows
  sorter,     \* the columns of the request's sorter
  direction,  \* its direction, as the request spells it
  helper,     \* the function that turns it into ORDER BY
  size,       \* page_size of the request
  walk,       \* idle, counted, between, done
  page,       \* the page being read
  total,      \* Total, from the COUNT of this request
  first,      \* rows when the walk began
  rowsSeen    \* what the pages returned, in order

pageVars == <<rows, sorter, direction, helper, size, walk, page, total, first, rowsSeen>>

Columns == {"id", "status"}
Directions == {"ascend", "descend", "desc"}
Helpers == {"WithSort", "WithSortV2", "WithSortAllColumn"}
Status(r) == r % 2

PageTypeOK ==
  /\ rows \in 0 .. MaxRows /\ sorter \subseteq Columns /\ size \in Sizes
  /\ direction \in Directions /\ helper \in Helpers
  /\ walk \in {"idle", "counted", "between", "done"}
  /\ page \in 1 .. MaxRows + 1 /\ total \in 0 .. MaxRows /\ first \in 0 .. MaxRows
  /\ rowsSeen \in Seq(1 .. MaxRows)

PageInit ==
  /\ rows \in 0 .. MaxRows /\ sorter \in SUBSET Columns /\ size \in Sizes
  /\ direction \in Directions /\ helper \in Helpers
  /\ helper = "WithSortV2" => Cardinality(sorter) <= 1
  /\ walk = "idle" /\ page = 1 /\ total = 0 /\ first = 0 /\ rowsSeen = <<>>

\* The page size after normalisation.
PageSize == IF size > SizeLimit THEN SizeLimit ELSE IF size <= 0 THEN SizeDefault ELSE size

PageCount(n) == (n + PageSize - 1) \div PageSize

\* Mutant: pages are counted from zero.
Offset_Zero == page * PageSize

Offset == (page - 1) * PageSize

\* The sequences that have every column of a set once; a table has two to sort by.
Listings(S) == UNION {Bijection(1 .. n, S) : n \in 0 .. 2}

\* WithSort ranges over a map, so that several columns come in any order, and knows
\* one spelling of the descending direction.
WithSort == [orders |-> Listings(sorter), desc |-> direction = "descend"]

\* WithSortV2 takes one column and knows two spellings.
WithSortV2 == [orders |-> Listings(sorter), desc |-> direction \in {"descend", "desc"}]

\* WithSortAllColumn ranges over a map of handlers, which are WithDefaultSort.
WithSortAllColumn == [orders |-> Listings(sorter), desc |-> direction = "descend"]

OrderBy ==
  CASE helper = "WithSort" -> WithSort
    [] helper = "WithSortV2" -> WithSortV2
    [] helper = "WithSortAllColumn" -> WithSortAllColumn

\* Each column is a comparison; rows that are equal in all of them come in any order.
Below(c, r, s) ==
  LET v(x) == IF c = "id" THEN x ELSE Status(x)
  IN  IF OrderBy.desc THEN v(r) > v(s) ELSE v(r) < v(s)

Precedes(cols, r, s) ==
  \E i \in DOMAIN cols :
    /\ Below(cols[i], r, s)
    /\ \A j \in 1 .. i - 1 : ~Below(cols[j], r, s) /\ ~Below(cols[j], s, r)

\* The sequences a database may return for the whole table.
Results ==
  {q \in Bijection(1 .. rows, 1 .. rows) : \E cols \in OrderBy.orders :
     \A i, j \in DOMAIN q : Precedes(cols, q[i], q[j]) => i < j}

\* LIMIT and OFFSET: what is behind the offset, at most a page.
Window(q) ==
  [i \in 1 .. (IF Offset + PageSize < rows THEN PageSize ELSE rows - Offset) |-> q[Offset + i]]

-------------------------------------------------------------------------------
\* The COUNT of WithPagination.
Count ==
  /\ walk \in {"idle", "between"}
  /\ total' = rows
  /\ first' = IF walk = "idle" THEN rows ELSE first
  /\ walk' = "counted"
  /\ UNCHANGED <<rows, sorter, direction, helper, size, page, rowsSeen>>

\* The page, and the caller's decision to ask for the next one.
Page(q) ==
  /\ walk = "counted" /\ q \in Results
  /\ rowsSeen' = rowsSeen \o Window(q)
  /\ IF page < PageCount(total) THEN page' = page + 1 /\ walk' = "between"
                                ELSE walk' = "done" /\ UNCHANGED page
  /\ UNCHANGED <<rows, sorter, direction, helper, size, total, first>>

\* Somebody inserts a row.
Insert ==
  /\ walk # "idle" /\ rows < MaxRows
  /\ rows' = rows + 1
  /\ UNCHANGED <<sorter, direction, helper, size, walk, page, total, first, rowsSeen>>

PageNext ==
  \/ Count \/ Insert
  \/ \E q \in Results : Page(q)

PageSpec == PageInit /\ [][PageNext]_pageVars

-------------------------------------------------------------------------------
SeenOnce(r) == \E i \in DOMAIN rowsSeen : {j \in DOMAIN rowsSeen : rowsSeen[j] = r} = {i}

\* A walk over the pages sorted by one unique column returns every row that was there
\* when it began exactly once: in ascending order whatever is inserted meanwhile, in
\* descending order if nothing is (an insert between COUNT and the last page pushes
\* the last row off it).  Not so for two columns, whose order varies by request, nor
\* for a column that is not unique.
WalkIsComplete ==
  walk = "done" /\ sorter = {"id"} /\ (OrderBy.desc => rows = first) =>
    \A r \in 1 .. first : SeenOnce(r)
===============================================================================
