--------------------------- MODULE FactSheetQuery ---------------------------
(***************************************************************************)
(* allFactSheets and search: what a filter selects, in which order, and    *)
(* what a client gets that fetches page after page while others write.     *)
(*                                                                         *)
(* A page is two queries, sent together: a count and the rows that follow  *)
(* the cursor.  The cursor is the id of the last row of the page before;   *)
(* the database looks up where that row stands when the next page is read. *)
(* Every write of a sheet sets updatedAt, the default order.               *)
(*                                                                         *)
(* The texts that patterns match are a relation, Like.  status ARCHIVED    *)
(* and trashBin change together (FactSheetLifecycle) and are one flag.     *)
(***************************************************************************)
EXTENDS Integers, Sequences, FiniteSets, SequencesExt

CONSTANTS Sheets,
          Space,      \* the reader's workspace
          Facts,      \* Facts[f]: what is not written here: space, kind, tags, value,
                      \* description (or None), links
          KindSpace,  \* the workspace of each fact sheet type
          Like,       \* <<operator, pattern, text>> that match
          Filters,    \* bound: filters
          Fetched,    \* bound: the filters a client fetches page after page
          Sorts,      \* bound: the orders they ask for
          Firsts,     \* bound: the page sizes they ask for
          MaxFirst,   \* the largest page size
          Names,      \* bound: texts of names, which are ordered
          InitialRow, \* the rows at first
          MaxWrites,  \* bound: writes
          None

Row == [live : BOOLEAN, archived : BOOLEAN, name : Names, updated : Nat]

Known(kind) == kind \in DOMAIN KindSpace /\ KindSpace[kind] = Space

ASSUME QueryAssumption ==
    /\ IsFiniteSet(Sheets) /\ None \notin Sheets
    /\ Names \subseteq Nat /\ None \notin Names
    /\ MaxFirst \in Nat \ {0} /\ Firsts \subseteq Int
    /\ MaxWrites \in Nat
    /\ InitialRow \in [Sheets -> Row]
    /\ \A f, g \in Sheets :
        /\ InitialRow[f].updated <= Cardinality(Sheets)
        /\ f # g => /\ InitialRow[f].name # InitialRow[g].name
                    /\ InitialRow[f].updated # InitialRow[g].updated

\* A sheet's type is one of its workspace, keys and values come as lists, and a
\* column without a value is no text.
ASSUME FilterAssumption ==
    /\ \A match \in Like : match[3] # None
    /\ \A f \in Sheets : Facts[f].space = Space => Known(Facts[f].kind)
    /\ \A filter \in Filters :
        /\ \A ff \in filter.facets : ff.all \in BOOLEAN /\ ff.keys \in Seq(Range(ff.keys))
        /\ \A ff \in filter.fields :
            /\ ff.operator \in {"CONTAINS", "STARTS_WITH", "ENDS_WITH", "IN", "NOT_IN", "EQUALS"}
            /\ ff.values \in Seq(Range(ff.values)) /\ None \notin Range(ff.values)

\* Bound: nobody sorts by a column whose values may be equal or missing.
ASSUME SortAssumption ==
    \A sort \in Sorts :
        sort.key \notin {"status", "completion", "createdAt", "description", "externalId"}

VARIABLES
    row,     \* row[f]: is there, is archived, its name and updatedAt
    writes,  \* writes so far
    reader   \* the client that fetches pages

vars == <<row, writes, reader>>

Away == [at |-> "away", filter |-> None, order |-> None, take |-> 1, cursor |-> None,
         counted |-> FALSE, listed |-> FALSE, total |-> 0, more |-> FALSE, got |-> <<>>,
         written |-> {}, moved |-> FALSE]

Order == [key : {"name", "updated"}, down : BOOLEAN]
Reader == [at : {"away", "page", "done"}, filter : Fetched \cup {None}, order : Order \cup {None},
           take : Int, cursor : Sheets \cup {None}, counted : BOOLEAN,
           listed : BOOLEAN, total : Nat, more : BOOLEAN, got : Seq(Sheets),
           written : SUBSET Sheets, moved : BOOLEAN]

TypeOK ==
    /\ row \in [Sheets -> Row]
    /\ writes \in 0 .. MaxWrites
    /\ reader \in Reader

Init ==
    /\ row = InitialRow
    /\ writes = 0
    /\ reader = Away

-----------------------------------------------------------------------------
(* buildWhere                                                              *)

\* facetFilterToWhere.  Types that are not known are left out before they are
\* counted.
FacetWhere(ff, f) ==
    CASE ff.key = "FactSheetTypes" ->
            LET known == {k \in DOMAIN ff.keys : Known(ff.keys[k])} IN
            /\ ~(ff.all /\ Cardinality(known) > 1)
            /\ \E k \in known : Facts[f].kind = ff.keys[k]
      [] ff.key = "_TAGS_" ->
            IF ff.all THEN Range(ff.keys) \subseteq Facts[f].tags
            ELSE Range(ff.keys) \cap Facts[f].tags # {}
      [] OTHER ->
            IF ff.all THEN \A key \in Range(ff.keys) : Facts[f].value = key
            ELSE Facts[f].value \in Range(ff.keys)

\* The columns of a sheet; description stands for externalId too, both nullable.
BaseFields == {"name", "description"}

Column(key, f) == IF key = "name" THEN row[f].name ELSE Facts[f].description

\* fieldFilterToWhere.  A comparison with NULL is not true, and neither is its
\* negation.  The value of any other field is compared with the one value given,
\* or with the list of all.
FieldWhere(ff, f) ==
    IF ff.key \in BaseFields
    THEN LET value == Column(ff.key, f) IN
         /\ value # None
         /\ CASE ff.operator \in {"CONTAINS", "STARTS_WITH", "ENDS_WITH"} ->
                    <<ff.operator, Head(ff.values), value>> \in Like
              [] ff.operator = "IN" -> value \in Range(ff.values)
              [] ff.operator = "NOT_IN" -> value \notin Range(ff.values)
              [] OTHER -> value = Head(ff.values)
    ELSE Len(ff.values) = 1 /\ Facts[f].value = Head(ff.values)

\* The type of the other sheet is asked for in outgoing relations only.
RelationWhere(rf, f) ==
    \E link \in Facts[f].links :
        /\ link.type = rf.type
        /\ rf.other # None => link.other = rf.other
        /\ link.out /\ rf.kind # None => Facts[link.other].kind = rf.kind

\* Mutant: archived sheets stay hidden from those who ask for them.
BaseWhereHidden(filter, f) ==
    /\ row[f].live /\ Facts[f].space = Space /\ ~row[f].archived
    /\ filter.status = "ARCHIVED" => row[f].archived
    /\ filter.kind # None => Facts[f].kind = filter.kind

BaseWhere(filter, f) ==
    /\ row[f].live /\ Facts[f].space = Space
    /\ (filter.status = "ARCHIVED") <=> row[f].archived
    /\ filter.kind # None => Facts[f].kind = filter.kind

\* where.AND: the field filters take the place of the facet filters.
AndWhere(filter, f) ==
    /\ IF filter.fields # {}
       THEN \A ff \in filter.fields : FieldWhere(ff, f)
       ELSE \A ff \in filter.facets : FacetWhere(ff, f)
    /\ \A rf \in filter.relations : RelationWhere(rf, f)

\* search: the name or the description contains the text, and nothing else is
\* asked; the MCP tool search_fact_sheets drops its other filters for it.
SearchWhere(text, f) ==
    /\ row[f].live /\ Facts[f].space = Space /\ ~row[f].archived
    /\ \E key \in BaseFields : <<"CONTAINS", text, Column(key, f)>> \in Like

Selected(filter, f) ==
    IF filter.search # None THEN SearchWhere(filter.search, f)
    ELSE BaseWhere(filter, f) /\ AndWhere(filter, f)

Found(filter) == {f \in Sheets : Selected(filter, f)}

-----------------------------------------------------------------------------
(* buildOrderBy                                                            *)

Unsorted == [mode |-> "none", direction |-> "none", key |-> None]

OrderBy(sort) ==
    CASE sort.mode \in {"none", "BY_UPDATED_AT"} ->
            [key |-> "updated", down |-> sort.direction # "ASC"]
      [] sort.mode = "BY_NAME" -> [key |-> "name", down |-> sort.direction = "DESC"]
      [] sort.key = None -> [key |-> "updated", down |-> sort.direction = "DESC"]
      [] sort.key \in {"name", "updated"} ->
            [key |-> sort.key, down |-> sort.direction = "DESC"]
      [] OTHER -> [key |-> "updated", down |-> TRUE]

Before(order, f, g) ==
    IF order.down THEN row[f][order.key] > row[g][order.key]
    ELSE row[f][order.key] < row[g][order.key]

Ahead(filter, order, f) == {g \in Found(filter) : Before(order, g, f)}

\* The k-th row is the one that k - 1 others come before.
Listing(filter, order) ==
    LET found == Found(filter) IN
    [k \in 1 .. Cardinality(found) |->
        CHOOSE f \in found : Cardinality(Ahead(filter, order, f)) = k - 1]

Position(s, f) == CHOOSE k \in DOMAIN s : s[k] = f

\* Mutant: a cursor whose row is not found any more is an error, again and again.
BehindFoundOnly(s, cursor) ==
    IF cursor = None THEN {s}
    ELSE IF Contains(s, cursor) THEN {SubSeq(s, Position(s, cursor) + 1, Len(s))}
    ELSE {}

\* The rows behind the cursor.  Of a cursor row that the filter does not find
\* any more nothing is promised: no row may follow, or all of them.
Behind(s, cursor) ==
    IF cursor = None THEN {s}
    ELSE IF Contains(s, cursor) THEN {SubSeq(s, Position(s, cursor) + 1, Len(s))}
    ELSE {<<>>, s}

-----------------------------------------------------------------------------
(* The reader                                                              *)

\* There is no least page size: a page of none or fewer is empty.
Take(first) == IF first < MaxFirst THEN first ELSE MaxFirst

\* The first page.  A type that is not known is an error.
Ask(filter, sort, first) ==
    /\ reader.at = "away"
    /\ filter.kind # None => Known(filter.kind)
    /\ reader' = [Away EXCEPT !.at = "page", !.filter = filter, !.take = Take(first),
                    !.order = OrderBy(IF filter.search = None THEN sort ELSE Unsorted)]
    /\ UNCHANGED <<row, writes>>

Count ==
    /\ reader.at = "page" /\ ~reader.counted
    /\ reader' = [reader EXCEPT !.counted = TRUE, !.total = Cardinality(Found(reader.filter))]
    /\ UNCHANGED <<row, writes>>

FirstOf(s, n) == SubSeq(s, 1, IF n < Len(s) THEN n ELSE Len(s))
LastOf(s) == IF s = <<>> THEN None ELSE Last(s)

\* Mutant: the cursor is that of the row fetched beyond the page.
PageEndingBeyond(s, take) ==
    [rows |-> FirstOf(s, take), more |-> Len(s) > take, cursor |-> LastOf(FirstOf(s, take + 1))]

\* take + 1 rows are fetched to see whether more follow.
Page(s, take) ==
    [rows |-> FirstOf(s, take), more |-> Len(s) > take, cursor |-> LastOf(FirstOf(s, take))]

List ==
    /\ reader.at = "page" /\ ~reader.listed
    /\ \E rest \in Behind(Listing(reader.filter, reader.order), reader.cursor) :
            LET page == Page(rest, reader.take) IN
            reader' = [reader EXCEPT !.listed = TRUE, !.more = page.more,
                            !.got = @ \o page.rows, !.cursor = page.cursor]
    /\ UNCHANGED <<row, writes>>

\* Both queries are answered: the client asks for the next page or is done.
Continue ==
    /\ reader.at = "page" /\ reader.counted /\ reader.listed
    /\ reader' = IF reader.more THEN [reader EXCEPT !.counted = FALSE, !.listed = FALSE]
                 ELSE [reader EXCEPT !.at = "done"]
    /\ UNCHANGED <<row, writes>>

-----------------------------------------------------------------------------
(* Writers: create, update, archive, revive and permanentDelete, each as   *)
(* far as a reader sees it                                                 *)

\* The youngest updatedAt there is.
Latest == Cardinality(Sheets) + writes

\* Bound: a write after the last page would change nothing any more.
Write(f, new) ==
    /\ writes < MaxWrites /\ reader.at # "done"
    /\ writes' = writes + 1
    /\ row' = [row EXCEPT ![f] = [new EXCEPT !.updated = Latest + 1]]
    /\ reader' = IF reader.at = "away" THEN reader
                 ELSE [reader EXCEPT !.written = @ \cup {f},
                                     !.moved = @ \/ reader.cursor = f]

\* Bound: names stay distinct.  The database may return sheets with equal keys
\* in another order for every page.
Distinct(f, name) == \A g \in Sheets \ {f} : row[g].name # name

Create(f, name) ==
    /\ ~row[f].live /\ Distinct(f, name)
    /\ Write(f, [live |-> TRUE, archived |-> FALSE, name |-> name, updated |-> 0])

\* A patch, or a relation of the sheet: without a new name only updatedAt.
Update(f, name) == row[f].live /\ Distinct(f, name) /\ Write(f, [row[f] EXCEPT !.name = name])

Archive(f) == row[f].live /\ Write(f, [row[f] EXCEPT !.archived = TRUE])
Revive(f) == row[f].live /\ Write(f, [row[f] EXCEPT !.archived = FALSE])
Delete(f) == row[f].live /\ row[f].archived /\ Write(f, [row[f] EXCEPT !.live = FALSE])

Next ==
    \/ \E filter \in Fetched, sort \in Sorts, first \in Firsts : Ask(filter, sort, first)
    \/ Count \/ List \/ Continue
    \/ \E f \in Sheets :
        \/ \E name \in Names : Create(f, name) \/ Update(f, name)
        \/ Archive(f) \/ Revive(f) \/ Delete(f)

\* A client goes on to the last page.
Spec == Init /\ [][Next]_vars /\ WF_vars(Count \/ List \/ Continue)

-----------------------------------------------------------------------------
(* Properties                                                              *)

\* What the parts of a filter are documented to mean.
FacetMeans(ff, f) ==
    LET has == CASE ff.key = "FactSheetTypes" -> {Facts[f].kind}
                 [] ff.key = "_TAGS_" -> Facts[f].tags
                 [] OTHER -> {Facts[f].value}
    IN IF ff.all THEN Range(ff.keys) \subseteq has ELSE Range(ff.keys) \cap has # {}

FieldMeans(ff, f) ==
    LET value == IF ff.key \in BaseFields THEN Column(ff.key, f) ELSE Facts[f].value IN
    CASE ff.operator = "NOT_IN" -> value \notin Range(ff.values)
      [] ff.operator \in {"IN", "EQUALS"} -> value \in Range(ff.values)
      [] OTHER -> \E pattern \in Range(ff.values) : <<ff.operator, pattern, value>> \in Like

Means(filter, f) ==
    /\ row[f].live /\ Facts[f].space = Space
    /\ row[f].archived <=> filter.status = "ARCHIVED"
    /\ filter.kind # None => Facts[f].kind = filter.kind
    /\ filter.search # None =>
        \E key \in BaseFields : <<"CONTAINS", filter.search, Column(key, f)>> \in Like
    /\ \A ff \in filter.facets : FacetMeans(ff, f)
    /\ \A ff \in filter.fields : FieldMeans(ff, f)
    /\ \A rf \in filter.relations : \E link \in Facts[f].links :
        /\ link.type = rf.type
        /\ rf.other # None => link.other = rf.other
        /\ rf.kind # None => Facts[link.other].kind = rf.kind

\* The filters the code does not take at their word: facets beside fields, a
\* search beside anything, a type facet that asks for all of a repeated type, of
\* an unknown one or of none, a list for an attribute or an operator on it, a
\* list for a base field without IN, NOT_IN for a field that may have no value,
\* and a type for the other end of incoming relations.
Plain(filter) ==
    /\ filter.fields = {} \/ filter.facets = {}
    /\ filter.search # None =>
        /\ filter.kind = None /\ filter.status = "none"
        /\ filter.facets \cup filter.fields \cup filter.relations = {}
    /\ \A ff \in filter.facets : ff.key = "FactSheetTypes" /\ ff.all =>
        /\ ff.keys # <<>>
        /\ \A j, k \in DOMAIN ff.keys : Known(ff.keys[j]) /\ (j # k => ff.keys[j] # ff.keys[k])
    /\ \A ff \in filter.fields :
        /\ Len(ff.values) = 1 \/ (ff.key \in BaseFields /\ ff.operator \in {"IN", "NOT_IN"})
        /\ ff.operator = "NOT_IN" => ff.key = "name"
        /\ ff.key \notin BaseFields => ff.operator \in {"IN", "EQUALS"}
    /\ \A rf \in filter.relations : rf.kind = None

\* Whatever has been written, a plain filter selects what its parts mean,
\* together, and no filter, plain or not, shows a sheet of another workspace, one
\* that is gone, or one of the trash bin that was not asked for
\* (fact-sheet.service.ts:465).
FiltersExact ==
    \A filter \in Filters, f \in Sheets :
        /\ Plain(filter) => (Selected(filter, f) <=> Means(filter, f))
        /\ Selected(filter, f) =>
            /\ row[f].live /\ Facts[f].space = Space
            /\ row[f].archived => filter.status = "ARCHIVED" /\ filter.search = None

Times(f) == Cardinality({k \in DOMAIN reader.got : reader.got[k] = f})

\* Who fetches page after page gets every sheet that nobody writes meanwhile,
\* once, whatever is created, updated, archived or deleted around it; if nobody
\* writes, the total, a query of its own, counts what the pages hold, and they
\* hold nothing else.  That the row a cursor names must stay as it is until the
\* next page is read is the code's own weakness (fact-sheet.service.ts:88, 592).
PagesAddUp ==
    reader.at = "done" =>
        /\ ~reader.moved =>
            \A f \in Found(reader.filter) \ reader.written : Times(f) = 1
        /\ reader.written = {} =>
            /\ reader.total = Len(reader.got)
            /\ Range(reader.got) = Found(reader.filter)

\* A client that asks for one sheet or more at a time and follows the cursors
\* comes to an end once the writes do.  Of a page of none or fewer it gets no
\* cursor but is told that more follow, so that it begins again for ever: the
\* schema takes any Int for first, and the code does not check it
\* (fact-sheet.service.ts:78, 123).
TraversalEnds == reader.at = "page" /\ reader.take > 0 ~> reader.at = "done"
=============================================================================
