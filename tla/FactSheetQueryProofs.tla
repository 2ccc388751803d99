------------------------ MODULE FactSheetQueryProofs ------------------------
(***************************************************************************)
(* For any sheets, filters, orders and page sizes: a plain filter selects  *)
(* what its parts mean (FiltersExact), and a client that fetches page      *)
(* after page while others write gets every sheet that nobody writes,      *)
(* once (PagesAddUp).                                                      *)
(*                                                                         *)
(* The rows are listed in an order without ties, so that a row's place is  *)
(* the number of rows before it; PageInv says that what was fetched is     *)
(* what stands at or before the cursor.                                    *)
(***************************************************************************)
EXTENDS FactSheetQuery, FiniteSetTheorems, TLAPS

-----------------------------------------------------------------------------
(* Types                                                                   *)

\* Names and dates are distinct, and no date lies ahead.
KeysApart ==
    \A f, g \in Sheets :
        /\ row[f].updated <= Latest
        /\ f # g => row[f].name # row[g].name /\ row[f].updated # row[g].updated

\* A client that asks has a filter and an order.
Asked == reader.at # "away" => reader.filter \in Fetched /\ reader.order \in Order

RowInv == TypeOK /\ KeysApart /\ Asked

\* A filter finds finitely many sheets.
LEMMA FoundFinite ==
    ASSUME NEW filter
    PROVE  /\ Found(filter) \subseteq Sheets /\ IsFiniteSet(Found(filter))
           /\ Cardinality(Found(filter)) \in Nat
BY QueryAssumption, FS_Subset, FS_CardinalityType DEF Found

\* Every sort asks for an order.
LEMMA OrderTyped == ASSUME NEW sort PROVE OrderBy(sort) \in Order
BY DEF OrderBy, Order

\* The rows are well kept at first.
LEMMA InitRows == Init => RowInv
<1> SUFFICES ASSUME Init PROVE RowInv
    OBVIOUS
<1>1. 0 \in 0 .. MaxWrites /\ 1 \in Int
      BY QueryAssumption
<1>2. Away \in Reader
      BY <1>1 DEF Away, Reader
<1>3. TypeOK
      BY <1>1, <1>2, QueryAssumption DEF Init, TypeOK
<1>4. \A f \in Sheets : row[f].updated \in Nat /\ row[f].updated <= Latest
      BY <1>3, QueryAssumption, FS_CardinalityType DEF Init, Latest, TypeOK, Row
<1>5. KeysApart
      BY <1>4, QueryAssumption DEF Init, KeysApart
<1> QED BY <1>3, <1>5 DEF RowInv, Asked, Init, Away

\* A write of f: its row is replaced, and it is the youngest now.
LEMMA Written ==
    ASSUME TypeOK, NEW f \in Sheets, NEW new \in Row, Write(f, new)
    PROVE  /\ row'[f] = [new EXCEPT !.updated = Latest + 1]
           /\ row'[f] \in Row /\ row'[f].updated = Latest + 1 /\ row'[f].name = new.name
           /\ \A g \in Sheets : g # f => row'[g] = row[g]
           /\ writes' = writes + 1 /\ writes' \in 0 .. MaxWrites
           /\ Latest \in Nat /\ Latest' = Latest + 1
<1>1. Latest \in Nat
      BY QueryAssumption, FS_CardinalityType DEF Latest, TypeOK
<1>2. row' = [row EXCEPT ![f] = [new EXCEPT !.updated = Latest + 1]]
      BY DEF Write
<1>3. /\ [new EXCEPT !.updated = Latest + 1] \in Row
      /\ [new EXCEPT !.updated = Latest + 1].updated = Latest + 1
      /\ [new EXCEPT !.updated = Latest + 1].name = new.name
      BY <1>1 DEF Row
<1>4. writes' = writes + 1 /\ writes' \in 0 .. MaxWrites
      BY QueryAssumption DEF Write, TypeOK
<1>5. Latest' = Latest + 1
      BY <1>1, <1>4, QueryAssumption, FS_CardinalityType DEF Latest, TypeOK
<1> QED BY <1>1, <1>2, <1>3, <1>4, <1>5 DEF TypeOK

\* Whoever writes has a row with a name that nobody else has.
Writes(f, new) ==
    /\ new \in Row /\ Write(f, new)
    /\ \A g \in Sheets \ {f} : row[g].name # new.name

LEMMA Writers ==
    ASSUME RowInv, NEW f \in Sheets,
           \/ \E name \in Names : Create(f, name) \/ Update(f, name)
           \/ Archive(f) \/ Revive(f) \/ Delete(f)
    PROVE  \E new : Writes(f, new)
<1>1. row[f] \in Row /\ \A g \in Sheets \ {f} : row[g].name # row[f].name
      BY DEF RowInv, TypeOK, KeysApart
<1>2. ASSUME NEW name \in Names, Create(f, name) PROVE \E new : Writes(f, new)
  <2> DEFINE new == [live |-> TRUE, archived |-> FALSE, name |-> name, updated |-> 0]
  <2>1. new \in Row /\ new.name = name
        BY DEF Row
  <2>2. Writes(f, new)
        BY <1>2, <2>1 DEF Create, Distinct, Writes
  <2> QED BY <2>2
<1>3. ASSUME NEW name \in Names, Update(f, name) PROVE \E new : Writes(f, new)
  <2> DEFINE new == [row[f] EXCEPT !.name = name]
  <2>1. new \in Row /\ new.name = name
        BY <1>1 DEF Row
  <2>2. Writes(f, new)
        BY <1>3, <2>1 DEF Update, Distinct, Writes
  <2> QED BY <2>2
<1>4. CASE Archive(f) \/ Revive(f) \/ Delete(f)
  <2>1. PICK new \in {[row[f] EXCEPT !.archived = TRUE], [row[f] EXCEPT !.archived = FALSE],
                      [row[f] EXCEPT !.live = FALSE]} : Write(f, new)
        BY <1>4 DEF Archive, Revive, Delete
  <2>2. new \in Row /\ new.name = row[f].name
        BY <1>1 DEF Row
  <2> QED BY <1>1, <2>1, <2>2 DEF Writes
<1> QED BY <1>2, <1>3, <1>4

\* The keys stay apart, and sheets are not dated ahead.
LEMMA WriteKeepsApart ==
    ASSUME RowInv, NEW f \in Sheets, NEW new, Writes(f, new)
    PROVE  row' \in [Sheets -> Row] /\ KeysApart'
<1>1. /\ row'[f] \in Row /\ row'[f].updated = Latest + 1 /\ row'[f].name = new.name
      /\ \A g \in Sheets : g # f => row'[g] = row[g]
      /\ Latest \in Nat /\ Latest' = Latest + 1
      BY Written DEF RowInv, Writes
<1>2. row' \in [Sheets -> Row]
      BY <1>1 DEF Writes, Write, RowInv, TypeOK
<1>3. \A g \in Sheets : row[g].updated \in Nat /\ row[g].updated <= Latest
      BY DEF RowInv, TypeOK, KeysApart, Row
<1>4. ASSUME NEW g \in Sheets PROVE row'[g].updated <= Latest'
      BY <1>1, <1>3
<1>5. ASSUME NEW g \in Sheets, NEW h \in Sheets, g # h
      PROVE  row'[g].name # row'[h].name /\ row'[g].updated # row'[h].updated
  <2>1. CASE g # f /\ h # f
        BY <1>1, <1>5, <2>1 DEF RowInv, KeysApart
  <2>2. ASSUME NEW x \in Sheets, x # f
        PROVE  row'[x].name # row'[f].name /\ row'[x].updated # row'[f].updated
    <3>1. row'[x].name # row'[f].name
          BY <1>1, <2>2 DEF Writes
    <3>2. row'[x].updated # row'[f].updated
          BY <1>1, <1>3, <2>2
    <3> QED BY <3>1, <3>2
  <2> QED BY <1>5, <2>1, <2>2
<1> QED BY <1>2, <1>4, <1>5 DEF KeysApart

-----------------------------------------------------------------------------
(* What a filter selects                                                   *)

\* Two positions in a set are one or make it larger than one.
LEMMA AtMostOne ==
    ASSUME NEW S, IsFiniteSet(S)
    PROVE  ~(Cardinality(S) > 1) <=> \A j, k \in S : j = k
<1>1. Cardinality(S) \in Nat
      BY FS_CardinalityType
<1>2. ASSUME ~(Cardinality(S) > 1), NEW j \in S, NEW k \in S PROVE j = k
  <2>1. Cardinality(S) # 0
        BY FS_EmptySet
  <2>2. Cardinality(S) = 1
        BY <1>1, <1>2, <2>1
  <2> QED BY <2>2, FS_Singleton
<1>3. ASSUME \A j, k \in S : j = k PROVE ~(Cardinality(S) > 1)
  <2>1. CASE S = {}
        BY <2>1, FS_EmptySet
  <2>2. ASSUME NEW j \in S PROVE Cardinality(S) = 1
    <3>1. S = {j}
          BY <1>3
    <3> QED BY <3>1, FS_Singleton
  <2> QED BY <2>1, <2>2
<1> QED BY <1>2, <1>3

\* Keys and values come as lists.
LEMMA ListDomain ==
    ASSUME NEW s, s \in Seq(Range(s))
    PROVE  /\ DOMAIN s = 1 .. Len(s) /\ Len(s) \in Nat /\ IsFiniteSet(DOMAIN s)
           /\ Len(s) = 1 => Range(s) = {Head(s)}
<1>1. DOMAIN s = 1 .. Len(s) /\ Len(s) \in Nat
      OBVIOUS
<1>2. IsFiniteSet(DOMAIN s)
      BY <1>1, FS_Interval
<1>3. ASSUME Len(s) = 1 PROVE Range(s) = {Head(s)}
  <2>1. DOMAIN s = {1} /\ Head(s) = s[1]
        BY <1>1, <1>3
  <2> QED BY <2>1 DEF Range
<1> QED BY <1>1, <1>2, <1>3

\* A facet.
LEMMA FacetExact ==
    ASSUME NEW filter \in Filters, Plain(filter), NEW ff \in filter.facets,
           NEW f \in Sheets, Facts[f].space = Space
    PROVE  FacetWhere(ff, f) <=> FacetMeans(ff, f)
<1>1. ff.all \in BOOLEAN /\ Known(Facts[f].kind) /\ ff.keys \in Seq(Range(ff.keys))
      BY FilterAssumption
<1>2. CASE ff.key = "FactSheetTypes"
  <2> DEFINE known == {k \in DOMAIN ff.keys : Known(ff.keys[k])}
             kind == Facts[f].kind
  <2>1. /\ IsFiniteSet(known)
        /\ FacetWhere(ff, f) <=> /\ ~(ff.all /\ Cardinality(known) > 1)
                                 /\ \E k \in known : kind = ff.keys[k]
        BY <1>1, <1>2, ListDomain, FS_Subset DEF FacetWhere
  <2>2. FacetMeans(ff, f) <=> IF ff.all THEN Range(ff.keys) \subseteq {kind}
                              ELSE Range(ff.keys) \cap {kind} # {}
        BY <1>2 DEF FacetMeans
  <2>3. (\E k \in known : kind = ff.keys[k]) <=> kind \in Range(ff.keys)
        BY <1>1 DEF Range
  <2>4. CASE ~ff.all
        BY <2>1, <2>2, <2>3, <2>4
  <2>5. CASE ff.all
    <3>1. /\ known = DOMAIN ff.keys /\ ff.keys # <<>>
          /\ \A j, k \in DOMAIN ff.keys : j # k => ff.keys[j] # ff.keys[k]
          BY <1>2, <2>5 DEF Plain
    <3>2. DOMAIN ff.keys # {}
          BY <1>1, <3>1
    <3>3. FacetWhere(ff, f) <=> /\ \A j, k \in DOMAIN ff.keys : j = k
                                /\ kind \in Range(ff.keys)
          BY <2>1, <2>3, <2>5, <3>1, AtMostOne
    <3>4. Range(ff.keys) \subseteq {kind} <=> /\ \A j, k \in DOMAIN ff.keys : j = k
                                              /\ kind \in Range(ff.keys)
      <4>1. ASSUME Range(ff.keys) \subseteq {kind}
            PROVE  /\ \A j, k \in DOMAIN ff.keys : j = k
                   /\ kind \in Range(ff.keys)
        <5>1. \A j \in DOMAIN ff.keys : ff.keys[j] = kind
              BY <4>1 DEF Range
        <5> QED BY <3>1, <3>2, <5>1 DEF Range
      <4>2. ASSUME \A j, k \in DOMAIN ff.keys : j = k, kind \in Range(ff.keys)
            PROVE  Range(ff.keys) \subseteq {kind}
        <5>1. PICK j \in DOMAIN ff.keys : ff.keys[j] = kind
              BY <4>2 DEF Range
        <5> QED BY <4>2, <5>1 DEF Range
      <4> QED BY <4>1, <4>2
    <3> QED BY <2>2, <2>5, <3>3, <3>4
  <2> QED BY <1>1, <2>4, <2>5
<1>3. CASE ff.key = "_TAGS_"
      BY <1>3 DEF FacetWhere, FacetMeans
<1>4. CASE ff.key # "FactSheetTypes" /\ ff.key # "_TAGS_"
      BY <1>4 DEF FacetWhere, FacetMeans
<1> QED BY <1>2, <1>3, <1>4

\* A field.
LEMMA FieldExact ==
    ASSUME row \in [Sheets -> Row], NEW filter \in Filters, Plain(filter),
           NEW ff \in filter.fields, NEW f \in Sheets
    PROVE  FieldWhere(ff, f) <=> FieldMeans(ff, f)
<1>1. /\ ff.values \in Seq(Range(ff.values)) /\ None \notin Range(ff.values)
      /\ ff.operator \in {"CONTAINS", "STARTS_WITH", "ENDS_WITH", "IN", "NOT_IN", "EQUALS"}
      BY FilterAssumption
<1>2. /\ Len(ff.values) = 1 \/ (ff.key \in BaseFields /\ ff.operator \in {"IN", "NOT_IN"})
      /\ ff.operator = "NOT_IN" => ff.key = "name"
      /\ ff.key \notin BaseFields => ff.operator \in {"IN", "EQUALS"}
      BY DEF Plain
<1>3. Len(ff.values) = 1 => Range(ff.values) = {Head(ff.values)}
      BY <1>1, ListDomain
<1>4. CASE ff.key \notin BaseFields
      BY <1>2, <1>3, <1>4 DEF FieldWhere, FieldMeans
<1>v. PICK value : value = Column(ff.key, f)
      OBVIOUS
<1>5. CASE ff.key \in BaseFields /\ ff.operator \in {"CONTAINS", "STARTS_WITH", "ENDS_WITH"}
  <2>1. Range(ff.values) = {Head(ff.values)}
        BY <1>2, <1>3, <1>5
  <2>2. FieldWhere(ff, f) <=> value # None /\ <<ff.operator, Head(ff.values), value>> \in Like
        BY <1>5, <1>v DEF FieldWhere
  <2>3. FieldMeans(ff, f) <=>
            \E pattern \in Range(ff.values) : <<ff.operator, pattern, value>> \in Like
        BY <1>5, <1>v DEF FieldMeans
  <2>4. \A pattern : <<ff.operator, pattern, value>> \in Like => value # None
        BY FilterAssumption
  <2> QED BY <2>1, <2>2, <2>3, <2>4
<1>6. CASE ff.key \in BaseFields /\ ff.operator \in {"IN", "EQUALS"}
  <2>1. FieldMeans(ff, f) <=> value \in Range(ff.values)
        BY <1>6, <1>v DEF FieldMeans
  <2>2. FieldWhere(ff, f) <=> value # None /\ IF ff.operator = "IN" THEN value \in Range(ff.values)
                                              ELSE value = Head(ff.values)
        BY <1>6, <1>v DEF FieldWhere
  <2> QED BY <1>1, <1>2, <1>3, <1>6, <2>1, <2>2
<1>7. CASE ff.operator = "NOT_IN"
  <2>1. ff.key = "name" /\ ff.key \in BaseFields
        BY <1>2, <1>7 DEF BaseFields
  <2>2. value # None
        BY <1>v, <2>1, QueryAssumption DEF Column, Row
  <2>3. FieldWhere(ff, f) <=> value # None /\ value \notin Range(ff.values)
        BY <1>7, <1>v, <2>1 DEF FieldWhere
  <2>4. FieldMeans(ff, f) <=> value \notin Range(ff.values)
        BY <1>7, <1>v, <2>1 DEF FieldMeans
  <2> QED BY <2>2, <2>3, <2>4
<1> QED BY <1>1, <1>4, <1>5, <1>6, <1>7

\* All parts together.
LEMMA SelectedExact ==
    ASSUME row \in [Sheets -> Row], NEW filter \in Filters, Plain(filter), NEW f \in Sheets
    PROVE  Selected(filter, f) <=> Means(filter, f)
<1>1. row[f].archived \in BOOLEAN
      BY DEF Row
<1>2. CASE filter.search # None
  <2>1. /\ filter.kind = None /\ filter.status = "none" /\ filter.facets = {}
        /\ filter.fields = {} /\ filter.relations = {}
        BY <1>2 DEF Plain
  <2>2. (row[f].archived <=> filter.status = "ARCHIVED") <=> ~row[f].archived
        BY <1>1, <2>1
  <2> QED BY <1>2, <2>1, <2>2 DEF Selected, SearchWhere, Means
<1>3. CASE filter.search = None
  <2>1. Selected(filter, f) <=> BaseWhere(filter, f) /\ AndWhere(filter, f)
        BY <1>3 DEF Selected
  <2>2. CASE ~BaseWhere(filter, f)
        BY <1>1, <2>1, <2>2 DEF BaseWhere, Means
  <2>3. CASE BaseWhere(filter, f)
    <3>1. Facts[f].space = Space
          BY <2>3 DEF BaseWhere
    <3>2. \A rf \in filter.relations : RelationWhere(rf, f) <=>
              \E link \in Facts[f].links :
                  /\ link.type = rf.type
                  /\ rf.other # None => link.other = rf.other
                  /\ rf.kind # None => Facts[link.other].kind = rf.kind
          BY DEF Plain, RelationWhere
    <3>3. AndWhere(filter, f) <=> /\ \A ff \in filter.facets : FacetMeans(ff, f)
                                  /\ \A ff \in filter.fields : FieldMeans(ff, f)
                                  /\ \A rf \in filter.relations : RelationWhere(rf, f)
          BY <3>1, FacetExact, FieldExact DEF AndWhere, Plain
    <3> QED BY <1>1, <1>3, <2>1, <2>3, <3>2, <3>3 DEF BaseWhere, Means
  <2> QED BY <2>2, <2>3
<1> QED BY <1>2, <1>3

\* No filter shows what a reader may not see or did not ask to see.
LEMMA SelectedSeen ==
    ASSUME row \in [Sheets -> Row], NEW filter, NEW f \in Sheets, Selected(filter, f)
    PROVE  /\ row[f].live /\ Facts[f].space = Space
           /\ row[f].archived => filter.status = "ARCHIVED" /\ filter.search = None
<1>1. row[f].archived \in BOOLEAN
      BY DEF Row
<1> QED BY <1>1 DEF Selected, SearchWhere, BaseWhere

-----------------------------------------------------------------------------
(* The order of the rows                                                   *)

\* The keys of an order are numbers, each sheet with its own.
LEMMA KeysApartBy ==
    ASSUME RowInv, NEW order \in Order
    PROVE  /\ \A f \in Sheets : row[f][order.key] \in Nat
           /\ \A f, g \in Sheets : f # g => row[f][order.key] # row[g][order.key]
<1>1. \A f \in Sheets : row[f].name \in Nat /\ row[f].updated \in Nat
      BY QueryAssumption DEF RowInv, TypeOK, Row
<1>2. CASE order.key = "name"
      BY <1>1, <1>2 DEF RowInv, KeysApart
<1>3. CASE order.key = "updated"
      BY <1>1, <1>3 DEF RowInv, KeysApart
<1> QED BY <1>2, <1>3 DEF Order

\* One of two rows comes before the other.
LEMMA Ordered ==
    ASSUME RowInv, NEW order \in Order, NEW f \in Sheets, NEW g \in Sheets
    PROVE  /\ ~Before(order, f, f)
           /\ f # g => Before(order, f, g) \/ Before(order, g, f)
           /\ Before(order, f, g) => ~Before(order, g, f)
           /\ \A h \in Sheets : Before(order, f, g) /\ Before(order, g, h) => Before(order, f, h)
<1> DEFINE key(x) == row[x][order.key]
<1>1. /\ \A x \in Sheets : key(x) \in Nat
      /\ f # g => key(f) # key(g)
      BY KeysApartBy
<1>2. /\ order.down => \A x, y : Before(order, x, y) <=> key(x) > key(y)
      /\ ~order.down => \A x, y : Before(order, x, y) <=> key(x) < key(y)
      BY DEF Before
<1> HIDE DEF key
<1>3. CASE order.down
      BY <1>1, <1>2, <1>3
<1>4. CASE ~order.down
      BY <1>1, <1>2, <1>4
<1> QED BY <1>3, <1>4 DEF Order

Rank(filter, order, f) == Cardinality(Ahead(filter, order, f))

\* A later row has more rows ahead of it.
LEMMA RankGrows ==
    ASSUME RowInv, NEW filter, NEW order \in Order, NEW f \in Found(filter), NEW g \in Found(filter)
    PROVE  /\ Rank(filter, order, f) \in 0 .. Cardinality(Found(filter)) - 1
           /\ Before(order, f, g) => Rank(filter, order, f) < Rank(filter, order, g)
<1> DEFINE found == Found(filter)
           A(x) == Ahead(filter, order, x)
<1>1. /\ f \in Sheets /\ g \in Sheets /\ found \subseteq Sheets
      /\ IsFiniteSet(found) /\ Cardinality(found) \in Nat
      BY FoundFinite
<1>2. \A x \in found : /\ A(x) \subseteq found /\ x \notin A(x) /\ IsFiniteSet(A(x))
                        /\ Cardinality(A(x)) \in Nat
      BY <1>1, Ordered, FS_Subset, FS_CardinalityType DEF Ahead
<1>3. ASSUME NEW T \in SUBSET found, f \in T, IsFiniteSet(T), A(f) \subseteq T
      PROVE  Cardinality(A(f)) < Cardinality(T)
  <2>1. Cardinality(A(f)) <= Cardinality(T) /\ Cardinality(T) \in Nat
        BY <1>3, FS_Subset, FS_CardinalityType
  <2>2. Cardinality(A(f)) # Cardinality(T)
        BY <1>2, <1>3, FS_Subset
  <2> QED BY <1>2, <2>1, <2>2
<1>4. Cardinality(A(f)) < Cardinality(found)
      BY <1>1, <1>2, <1>3
<1>5. ASSUME Before(order, f, g) PROVE Cardinality(A(f)) < Cardinality(A(g))
  <2>1. f \in A(g) /\ A(f) \subseteq A(g)
        BY <1>1, <1>5, Ordered DEF Ahead
  <2> QED BY <1>2, <1>3, <2>1
<1> QED BY <1>1, <1>2, <1>4, <1>5 DEF Rank

\* Every place has a row.
LEMMA RankReached ==
    ASSUME RowInv, NEW filter, NEW order \in Order, NEW k \in 0 .. Cardinality(Found(filter)) - 1
    PROVE  \E f \in Found(filter) : Rank(filter, order, f) = k
<1> DEFINE found == Found(filter)
           n == Cardinality(found)
           T == 0 .. n - 1
           R == [f \in found |-> Rank(filter, order, f)]
<1>1. found \subseteq Sheets /\ IsFiniteSet(found) /\ n \in Nat
      BY FoundFinite
<1>2. R \in [found -> T]
      BY RankGrows
<1>3. ASSUME NEW f \in found, NEW g \in found, f # g PROVE R[f] # R[g]
  <2>1. Before(order, f, g) \/ Before(order, g, f)
        BY <1>1, <1>3, Ordered
  <2>2. Rank(filter, order, f) \in Int /\ Rank(filter, order, g) \in Int
        BY RankGrows
  <2>3. Rank(filter, order, f) # Rank(filter, order, g)
        BY <2>1, <2>2, RankGrows
  <2> QED BY <2>3
<1>4. R \in Injection(found, T)
      BY <1>2, <1>3 DEF Injection, IsInjective
<1>5. IsFiniteSet(T) /\ Cardinality(T) = n
      BY <1>1, FS_Interval
<1>6. R \in Surjection(found, T)
      BY <1>4, <1>5, FS_Injection
<1>7. k \in T
      OBVIOUS
<1>8. \E f \in found : R[f] = k
      BY <1>6, <1>7 DEF Surjection
<1> QED BY <1>8

\* The listing has every row that is found, in order.
LEMMA Listed ==
    ASSUME RowInv, NEW filter, NEW order \in Order
    PROVE  LET s == Listing(filter, order)
               n == Cardinality(Found(filter))
           IN  /\ s \in Seq(Sheets) /\ Len(s) = n /\ n \in Nat
               /\ \A k \in 1 .. n : s[k] \in Found(filter)
               /\ \A f \in Found(filter) : \E k \in 1 .. n : s[k] = f
               /\ \A j, k \in 1 .. n : j < k => Before(order, s[j], s[k])
               /\ \A j, k \in 1 .. n : s[j] = s[k] => j = k
<1> DEFINE found == Found(filter)
           n == Cardinality(found)
           s == Listing(filter, order)
           rank(f) == Rank(filter, order, f)
<1>1. found \subseteq Sheets /\ n \in Nat
      BY FoundFinite
<1>2. s = [k \in 1 .. n |-> CHOOSE f \in found : rank(f) = k - 1]
      BY DEF Listing, Rank
<1>3. ASSUME NEW k \in 1 .. n PROVE s[k] \in found /\ rank(s[k]) = k - 1
  <2>1. k - 1 \in 0 .. n - 1
        BY <1>1
  <2>2. \E f \in found : rank(f) = k - 1
        BY <2>1, RankReached
  <2> QED BY <1>2, <2>2
<1>4. s \in Seq(Sheets) /\ Len(s) = n
  <2>1. s \in [1 .. n -> Sheets]
        BY <1>1, <1>2, <1>3
  <2> QED BY <1>1, <2>1
<1>5. ASSUME NEW f \in found, NEW g \in found, f # g PROVE rank(f) # rank(g)
  <2>1. Before(order, f, g) \/ Before(order, g, f)
        BY <1>1, <1>5, Ordered
  <2>2. rank(f) \in Int /\ rank(g) \in Int
        BY RankGrows
  <2>3. rank(f) < rank(g) \/ rank(g) < rank(f)
        BY <2>1, RankGrows
  <2> QED BY <2>2, <2>3
<1>6. ASSUME NEW f \in found PROVE \E k \in 1 .. n : s[k] = f
  <2>1. rank(f) \in 0 .. n - 1
        BY RankGrows
  <2>k. PICK k : k = rank(f) + 1
        OBVIOUS
  <2>2. k \in 1 .. n /\ rank(f) = k - 1
        BY <1>1, <2>1, <2>k
  <2> QED BY <1>3, <1>5, <2>2
<1>7. ASSUME NEW j \in 1 .. n, NEW k \in 1 .. n, j < k PROVE Before(order, s[j], s[k])
  <2>f. PICK f, g : f = s[j] /\ g = s[k]
        OBVIOUS
  <2>1. f \in found /\ g \in found /\ rank(f) = j - 1 /\ rank(g) = k - 1
        BY <1>3, <2>f
  <2>2. ~(rank(g) < rank(f)) /\ f # g
        BY <1>7, <2>1
  <2>3. ~Before(order, g, f)
        BY <2>1, <2>2, RankGrows
  <2> QED BY <1>1, <2>f, <2>1, <2>2, <2>3, Ordered
<1>8. ASSUME NEW j \in 1 .. n, NEW k \in 1 .. n, s[j] = s[k] PROVE j = k
  <2>1. rank(s[j]) = j - 1 /\ rank(s[k]) = k - 1
        BY <1>3
  <2>2. j - 1 = k - 1
        BY <1>8, <2>1
  <2> QED BY <2>2
<1> QED BY <1>1, <1>3, <1>4, <1>6, <1>7, <1>8

-----------------------------------------------------------------------------
(* What a page adds                                                        *)

\* The rows of a page are those of the listing behind place p, up to place q.
PageRows(s, p, q, rows) ==
    /\ rows \in Seq(Sheets) /\ Len(rows) = q - p
    /\ \A i \in 1 .. q - p : rows[i] = s[p + i]

\* A page of the size take behind place p ends at some place q.
PageEnds(s, p, take, page) ==
    \E q \in p .. Len(s) :
        /\ PageRows(s, p, q, page.rows)
        /\ page.more \in BOOLEAN
        /\ page.more /\ take > 0 => p < q /\ page.cursor = s[q]
        /\ ~(take > 0) => q = p /\ page.cursor = None
        /\ ~page.more => q = Len(s)
        /\ page.cursor \in Sheets \cup {None}

LEMMA PageTaken ==
    ASSUME NEW s \in Seq(Sheets), NEW p \in 0 .. Len(s), NEW rest, NEW take \in Int,
           rest = SubSeq(s, p + 1, Len(s))
    PROVE  PageEnds(s, p, take, Page(rest, take))
<1> DEFINE n == Len(s)
           page == Page(rest, take)
<1>1. /\ rest \in Seq(Sheets) /\ Len(rest) = n - p /\ n \in Nat /\ p \in Nat
      /\ \A i \in 1 .. n - p : rest[i] = s[p + i]
  <2>1. n \in Nat /\ p \in Nat /\ p + 1 \in 1 .. n + 1
        OBVIOUS
  <2> QED BY <2>1
<1>m. PICK m : m = IF ~(take > 0) THEN 0 ELSE IF take < n - p THEN take ELSE n - p
      OBVIOUS
<1>2. m \in 0 .. n - p /\ p + m \in p .. n /\ m \in Nat
      BY <1>1, <1>m
<1>3. page.rows = SubSeq(rest, 1, m)
  <2>f. PICK k : k = (IF take < n - p THEN take ELSE n - p) /\ page.rows = SubSeq(rest, 1, k)
        BY <1>1 DEF Page, FirstOf
  <2>1. CASE take > 0
        BY <1>m, <2>f, <2>1
  <2>2. CASE ~(take > 0)
    <3>1. k \in Int /\ k <= 0 /\ m = 0
          BY <1>1, <1>m, <2>f, <2>2
    <3>2. SubSeq(rest, 1, k) = <<>> /\ SubSeq(rest, 1, 0) = <<>>
          BY <1>1, <3>1
    <3> QED BY <2>f, <3>1, <3>2
  <2> QED BY <2>1, <2>2
<1>6. /\ page.more <=> n - p > take
      /\ page.more \in BOOLEAN /\ page.cursor = LastOf(page.rows)
  <2>1. page.more = (Len(rest) > take) /\ page.rows = FirstOf(rest, take)
        BY DEF Page
  <2>2. page.cursor = LastOf(FirstOf(rest, take))
        BY DEF Page
  <2>3. (Len(rest) > take) \in BOOLEAN
        OBVIOUS
  <2> QED BY <1>1, <2>1, <2>2, <2>3
<1> HIDE DEF page
<1>4. /\ page.rows \in Seq(Sheets) /\ Len(page.rows) = m
      /\ \A i \in 1 .. m : page.rows[i] = rest[i]
  <2>1. m <= Len(rest) /\ 1 \in Nat
        BY <1>1, <1>2
  <2>2. SubSeq(rest, 1, m) \in Seq(Sheets) /\ Len(SubSeq(rest, 1, m)) = m
        BY <1>1, <1>2, <2>1
  <2>3. \A i \in 1 .. m : SubSeq(rest, 1, m)[i] = rest[i]
        BY <1>1, <1>2, <2>1
  <2> QED BY <1>3, <2>2, <2>3
<1>5. PageRows(s, p, p + m, page.rows)
  <2>1. (p + m) - p = m
        BY <1>1, <1>2
  <2>2. ASSUME NEW i \in 1 .. m PROVE page.rows[i] = s[p + i]
    <3>1. i \in 1 .. n - p
          BY <1>1, <1>2
    <3> QED BY <1>1, <1>4, <3>1
  <2> QED BY <1>4, <2>1, <2>2 DEF PageRows
<1>7. ASSUME page.more, take > 0 PROVE p < p + m /\ page.cursor = s[p + m]
  <2>1. m = take /\ m \in 1 .. n - p
        BY <1>1, <1>m, <1>6, <1>7
  <2>2. m \in 1 .. m /\ page.rows # <<>>
        BY <1>2, <1>4, <2>1
  <2>3. page.cursor = page.rows[m]
        BY <1>4, <1>6, <2>2 DEF LastOf, Last
  <2>4. page.rows[m] = rest[m] /\ rest[m] = s[p + m]
        BY <1>1, <1>4, <2>1, <2>2
  <2> QED BY <1>1, <2>1, <2>3, <2>4
<1>8. ~page.more => p + m = n
      BY <1>1, <1>m, <1>6
<1>9. page.cursor \in Sheets \cup {None}
  <2>1. CASE page.rows = <<>>
        BY <1>6, <2>1 DEF LastOf
  <2>2. CASE page.rows # <<>>
    <3>1. m \in 1 .. m
          BY <1>2, <1>4, <2>2
    <3>2. page.rows[m] \in Sheets
          BY <1>4, <3>1
    <3> QED BY <1>4, <1>6, <2>2, <3>2 DEF LastOf, Last
  <2> QED BY <2>1, <2>2
<1>10. ASSUME ~(take > 0) PROVE p + m = p /\ page.cursor = None
  <2>1. m = 0
        BY <1>m, <1>10
  <2>2. page.rows = <<>>
        BY <1>4, <2>1
  <2> QED BY <1>1, <1>6, <2>1, <2>2 DEF LastOf
<1>11. PageEnds(s, p, take, page)
       BY <1>2, <1>5, <1>6, <1>7, <1>8, <1>9, <1>10 DEF PageEnds
<1> QED BY <1>11 DEF page

\* Two lists, one after the other.
LEMMA Joined ==
    ASSUME NEW got \in Seq(Sheets), NEW rows \in Seq(Sheets)
    PROVE  /\ got \o rows \in Seq(Sheets)
           /\ DOMAIN (got \o rows) = 1 .. Len(got) + Len(rows)
           /\ \A j \in 1 .. Len(got) : (got \o rows)[j] = got[j]
           /\ \A i \in 1 .. Len(rows) : (got \o rows)[Len(got) + i] = rows[i]
           /\ \A j \in DOMAIN (got \o rows) :
                 \/ j \in DOMAIN got
                 \/ \E i \in 1 .. Len(rows) : j = Len(got) + i
           /\ Range(got \o rows) = Range(got) \cup {rows[i] : i \in 1 .. Len(rows)}
<1> DEFINE all == got \o rows
<1>1. /\ all \in Seq(Sheets) /\ Len(all) = Len(got) + Len(rows)
      /\ Len(got) \in Nat /\ Len(rows) \in Nat
      OBVIOUS
<1>2. /\ DOMAIN all = 1 .. Len(got) + Len(rows) /\ DOMAIN got = 1 .. Len(got)
      BY <1>1
<1>3. /\ \A j \in 1 .. Len(got) : all[j] = got[j]
      /\ \A i \in 1 .. Len(rows) : all[Len(got) + i] = rows[i]
      OBVIOUS
<1>4. ASSUME NEW j \in DOMAIN all, j \notin DOMAIN got
      PROVE  \E i \in 1 .. Len(rows) : j = Len(got) + i
  <2>i. PICK i : i = j - Len(got)
        OBVIOUS
  <2>1. i \in 1 .. Len(rows) /\ j = Len(got) + i
        BY <1>1, <1>2, <1>4, <2>i
  <2> QED BY <2>1
<1>5. Range(all) = Range(got) \cup {rows[i] : i \in 1 .. Len(rows)}
  <2>1. ASSUME NEW j \in DOMAIN all
        PROVE  all[j] \in Range(got) \cup {rows[i] : i \in 1 .. Len(rows)}
        BY <1>2, <1>3, <1>4 DEF Range
  <2>2. ASSUME NEW j \in DOMAIN got PROVE got[j] \in Range(all)
    <3>1. j \in DOMAIN all
          BY <1>1, <1>2
    <3> QED BY <1>2, <1>3, <3>1 DEF Range
  <2>3. ASSUME NEW i \in 1 .. Len(rows) PROVE rows[i] \in Range(all)
    <3>1. Len(got) + i \in DOMAIN all
          BY <1>1, <1>2
    <3> QED BY <1>3, <3>1 DEF Range
  <2> QED BY <2>1, <2>2, <2>3 DEF Range
<1> QED BY <1>1, <1>2, <1>3, <1>4, <1>5

\* No row is listed twice.
NoneTwice(s) == \A j, k \in 1 .. Len(s) : s[j] = s[k] => j = k

\* Of the rows that are not in W, those up to place p were fetched.
FetchedTo(s, W, got, p) ==
    \A k \in 1 .. Len(s) : s[k] \notin W => (s[k] \in Range(got) <=> k <= p)

\* What all has beyond what was fetched are other rows of s.
Extends(s, W, got, all) ==
    \A j \in DOMAIN all : all[j] \notin W =>
        /\ \/ j \in DOMAIN got /\ all[j] = got[j]
           \/ \E k \in 1 .. Len(s) : all[j] = s[k]
        /\ \A k \in DOMAIN all : all[j] = all[k] =>
              \/ j = k
              \/ j \in DOMAIN got /\ k \in DOMAIN got /\ got[j] = got[k] /\ got[j] = all[j]

\* A page that holds the rows from place p to q follows what was fetched.
LEMMA PageAdds ==
    ASSUME NEW s \in Seq(Sheets), NEW W, NEW got \in Seq(Sheets), NEW rows \in Seq(Sheets),
           NEW p \in 0 .. Len(s), NEW q \in p .. Len(s), PageRows(s, p, q, rows),
           NoneTwice(s), FetchedTo(s, W, got, p), NEW all, all = got \o rows
    PROVE  /\ FetchedTo(s, W, all, q)
           /\ Extends(s, W, got, all)
<1> DEFINE m == Len(got)
           n == Len(s)
<1>1. n \in Nat /\ m \in Nat /\ p \in Nat /\ q \in Nat /\ p <= q /\ q <= n /\ Len(rows) = q - p
      /\ DOMAIN got = 1 .. m
      BY DEF PageRows
<1>2. /\ \A j \in 1 .. m : all[j] = got[j]
      /\ \A i \in 1 .. q - p : all[m + i] = rows[i]
      /\ \A j \in DOMAIN all : j \in DOMAIN got \/ \E i \in 1 .. q - p : j = m + i
      /\ Range(all) = Range(got) \cup {rows[i] : i \in 1 .. q - p}
  <2>1. /\ \A j \in 1 .. Len(got) : all[j] = got[j]
        /\ \A i \in 1 .. Len(rows) : all[Len(got) + i] = rows[i]
        /\ \A j \in DOMAIN all : j \in DOMAIN got \/ \E i \in 1 .. Len(rows) : j = Len(got) + i
        /\ Range(all) = Range(got) \cup {rows[i] : i \in 1 .. Len(rows)}
        BY Joined
  <2> QED BY <1>1, <2>1
<1>3. \A i \in 1 .. q - p : p + i \in 1 .. n /\ ~(p + i <= p) /\ rows[i] = s[p + i]
      BY <1>1 DEF PageRows
<1>4. ASSUME NEW k \in 1 .. n, s[k] \notin W PROVE s[k] \in Range(all) <=> k <= q
  <2>1. (\E i \in 1 .. q - p : s[k] = rows[i]) <=> k > p /\ k <= q
    <3>1. ASSUME NEW i \in 1 .. q - p, s[k] = rows[i] PROVE k > p /\ k <= q
      <4>1. k = p + i
            BY <1>3, <3>1 DEF NoneTwice
      <4> QED BY <1>1, <4>1
    <3>2. ASSUME k > p, k <= q PROVE \E i \in 1 .. q - p : s[k] = rows[i]
      <4>i. PICK i : i = k - p
            OBVIOUS
      <4>1. i \in 1 .. q - p /\ p + i = k
            BY <1>1, <3>2, <4>i
      <4> QED BY <1>3, <4>1
    <3> QED BY <3>1, <3>2
  <2>2. s[k] \in Range(all) <=> k <= p \/ (k > p /\ k <= q)
        BY <1>2, <1>4, <2>1 DEF FetchedTo
  <2> QED BY <1>1, <2>2
<1>5. ASSUME NEW j \in DOMAIN all, j \notin DOMAIN got
      PROVE  \E i \in 1 .. q - p : j = m + i /\ all[j] = s[p + i] /\ p + i \in 1 .. n
  <2>1. PICK i \in 1 .. q - p : j = m + i
        BY <1>2, <1>5
  <2>2. all[m + i] = rows[i] /\ rows[i] = s[p + i] /\ p + i \in 1 .. n
        BY <1>2, <1>3
  <2> QED BY <2>1, <2>2
<1>6. ASSUME NEW j \in DOMAIN all, NEW k \in DOMAIN all, all[j] \notin W, all[j] = all[k],
             j \in DOMAIN got
      PROVE  k \in DOMAIN got
  <2>1. SUFFICES ASSUME k \notin DOMAIN got PROVE FALSE
        OBVIOUS
  <2>2. PICK i \in 1 .. q - p : all[k] = s[p + i] /\ p + i \in 1 .. n
        BY <1>5, <2>1
  <2>3. all[j] \in Range(got)
        BY <1>1, <1>2, <1>6 DEF Range
  <2>4. ~(p + i <= p)
        BY <1>3
  <2> QED BY <1>6, <2>2, <2>3, <2>4 DEF FetchedTo
<1>7. ASSUME NEW j \in DOMAIN all, NEW k \in DOMAIN all, all[j] \notin W, all[j] = all[k]
      PROVE  j = k \/ (j \in DOMAIN got /\ k \in DOMAIN got /\ got[j] = got[k] /\ got[j] = all[j])
  <2>1. CASE j \in DOMAIN got \/ k \in DOMAIN got
    <3>1. j \in DOMAIN got /\ k \in DOMAIN got
          BY <1>6, <1>7, <2>1
    <3> QED BY <1>1, <1>2, <1>7, <3>1
  <2>2. CASE j \notin DOMAIN got /\ k \notin DOMAIN got
    <3>1. PICK i \in 1 .. q - p : j = m + i /\ all[j] = s[p + i] /\ p + i \in 1 .. n
          BY <1>5, <2>2
    <3>2. PICK h \in 1 .. q - p : k = m + h /\ all[k] = s[p + h] /\ p + h \in 1 .. n
          BY <1>5, <2>2
    <3>3. p + i = p + h
          BY <1>7, <3>1, <3>2 DEF NoneTwice
    <3>4. i = h
          BY <1>1, <3>3
    <3> QED BY <3>1, <3>2, <3>4
  <2> QED BY <2>1, <2>2
<1>8. ASSUME NEW j \in DOMAIN all
      PROVE  \/ j \in DOMAIN got /\ all[j] = got[j]
             \/ \E k \in 1 .. n : all[j] = s[k]
  <2>1. CASE j \in DOMAIN got
        BY <1>1, <1>2, <2>1
  <2>2. CASE j \notin DOMAIN got
        BY <1>5, <2>2
  <2> QED BY <2>1, <2>2
<1> QED BY <1>4, <1>7, <1>8 DEF FetchedTo, Extends

\* A page is of sheets, whatever the cursor is.
LEMMA PageTyped ==
    ASSUME RowInv, NEW filter, NEW order \in Order, NEW cursor, NEW take \in Int,
           NEW rest \in Behind(Listing(filter, order), cursor)
    PROVE  LET page == Page(rest, take) IN
           page.rows \in Seq(Sheets) /\ page.more \in BOOLEAN /\ page.cursor \in Sheets \cup {None}
<1>s. PICK s : s = Listing(filter, order)
      OBVIOUS
<1>1. s \in Seq(Sheets) /\ DOMAIN s = 1 .. Len(s) /\ Len(s) \in Nat
      BY <1>s, Listed
<1>2. rest \in Seq(Sheets)
  <2>1. CASE cursor # None /\ Contains(s, cursor)
    <3>p. PICK p : p = Position(s, cursor)
          OBVIOUS
    <3>1. \E k \in DOMAIN s : s[k] = cursor
          BY <1>1, <2>1 DEF Contains
    <3>2. p \in 1 .. Len(s)
          BY <1>1, <3>p, <3>1 DEF Position
    <3>3. rest = SubSeq(s, p + 1, Len(s))
          BY <1>s, <2>1, <3>p DEF Behind
    <3> QED BY <1>1, <3>2, <3>3
  <2>2. CASE ~(cursor # None /\ Contains(s, cursor))
    <3>1. rest = s \/ rest = <<>>
          BY <1>s, <2>2 DEF Behind
    <3>2. <<>> \in Seq(Sheets)
          OBVIOUS
    <3> QED BY <1>1, <3>1, <3>2
  <2> QED BY <2>1, <2>2
<1>3. 0 \in 0 .. Len(rest) /\ rest = SubSeq(rest, 0 + 1, Len(rest))
      BY <1>2
<1>p. PICK page : page = Page(rest, take)
      OBVIOUS
<1>4. PageEnds(rest, 0, take, page)
      BY <1>2, <1>3, <1>p, PageTaken
<1> QED BY <1>p, <1>4 DEF PageEnds, PageRows

-----------------------------------------------------------------------------
(* The pages                                                               *)

\* The sheets to be found that nobody has written since the client asked.
Untouched == Found(reader.filter) \ reader.written

\* The last page has been read.
Complete == reader.listed /\ ~reader.more

\* What has been fetched of them is what stands at the cursor or before it.
Upto(cursor) ==
    /\ cursor = None => reader.got = <<>>
    /\ cursor # None =>
        /\ cursor \in Found(reader.filter)
        /\ \A f \in Untouched :
              f \in Range(reader.got) <=> f = cursor \/ Before(reader.order, f, cursor)

\* Nothing was fetched that is not to be found, nor anything twice.
Proper ==
    \A j \in DOMAIN reader.got : reader.got[j] \notin reader.written =>
        /\ reader.got[j] \in Found(reader.filter)
        /\ \A k \in DOMAIN reader.got : reader.got[j] = reader.got[k] => j = k

Fetching ==
    /\ Proper
    /\ ~Complete => Upto(reader.cursor) /\ (~(reader.take > 0) => reader.cursor = None)
    /\ Complete => Untouched \subseteq Range(reader.got)

PageInv ==
    reader.at # "away" =>
        /\ reader.moved => reader.written # {}
        /\ ~reader.moved => Fetching
        /\ reader.counted /\ reader.written = {} =>
              reader.total = Cardinality(Found(reader.filter))
        /\ reader.at = "done" => reader.counted /\ Complete

\* A page goes on from the place of the cursor.
LEMMA BehindPlace ==
    ASSUME RowInv, Upto(reader.cursor), NEW filter, filter = reader.filter, NEW order \in Order,
           order = reader.order, NEW s, s = Listing(filter, order),
           NEW rest \in Behind(s, reader.cursor)
    PROVE  \E p \in 0 .. Len(s) :
              /\ rest = SubSeq(s, p + 1, Len(s))
              /\ p = 0 => reader.got = <<>>
              /\ \A k \in 1 .. Len(s) : s[k] \notin reader.written =>
                    (s[k] \in Range(reader.got) <=> k <= p)
<1> DEFINE n == Len(s)
           cursor == reader.cursor
<1>1. /\ s \in Seq(Sheets) /\ n = Cardinality(Found(filter)) /\ n \in Nat
      /\ \A k \in 1 .. n : s[k] \in Found(filter)
      /\ \A f \in Found(filter) : \E k \in 1 .. n : s[k] = f
      /\ \A j, k \in 1 .. n : j < k => Before(order, s[j], s[k])
      /\ \A j, k \in 1 .. n : s[j] = s[k] => j = k
      BY Listed
<1>2. CASE cursor = None
  <2>1. rest = s /\ reader.got = <<>>
        BY <1>2 DEF Behind, Upto
  <2>2. s = SubSeq(s, 1, n) /\ Range(<<>>) = {}
        BY <1>1 DEF Range
  <2>3. \A k \in 1 .. n : ~(k <= 0)
        BY <1>1
  <2> QED BY <1>1, <2>1, <2>2, <2>3
<1>3. CASE cursor # None
  <2>1. cursor \in Found(filter)
        BY <1>3 DEF Upto
  <2>2. Contains(s, cursor)
        BY <1>1, <2>1 DEF Contains
  <2>p. PICK p : p = Position(s, cursor)
        OBVIOUS
  <2>3. p \in 1 .. n /\ s[p] = cursor
    <3>1. DOMAIN s = 1 .. n
          BY <1>1
    <3>2. \E k \in DOMAIN s : s[k] = cursor
          BY <1>1, <2>1, <3>1
    <3> QED BY <2>p, <3>1, <3>2 DEF Position
  <2>4. rest = SubSeq(s, p + 1, n)
        BY <1>3, <2>2, <2>p DEF Behind
  <2>5. ASSUME NEW k \in 1 .. n, s[k] \notin reader.written
        PROVE  s[k] \in Range(reader.got) <=> k <= p
    <3>1. s[k] \in Untouched
          BY <1>1, <2>5 DEF Untouched
    <3>2. s[k] \in Range(reader.got) <=> s[k] = s[p] \/ Before(order, s[k], s[p])
          BY <1>3, <2>3, <3>1 DEF Upto
    <3>3. CASE k = p
          BY <1>1, <3>2, <3>3
    <3>4. CASE k < p
          BY <1>1, <2>3, <3>2, <3>4
    <3>5. CASE p < k
      <4>1. Before(order, s[p], s[k]) /\ s[k] # s[p] /\ s[k] \in Sheets /\ s[p] \in Sheets
            BY <1>1, <2>3, <3>5
      <4>2. ~Before(order, s[k], s[p])
            BY <4>1, Ordered
      <4>3. ~(k <= p)
            BY <1>1, <2>3, <3>5
      <4> QED BY <3>2, <4>1, <4>2, <4>3
    <3> QED BY <1>1, <2>3, <3>3, <3>4, <3>5
  <2>6. p \in 0 .. n /\ p # 0
        BY <1>1, <2>3
  <2> QED BY <2>4, <2>5, <2>6
<1> QED BY <1>2, <1>3

\* The fields that reading a page sets.
LEMMA ListFields ==
    ASSUME RowInv, List
    PROVE  /\ reader.at = "page" /\ ~reader.listed /\ UNCHANGED <<row, writes>>
           /\ reader.filter \in Fetched /\ reader.order \in Order /\ reader.take \in Int
           /\ \E rest \in Behind(Listing(reader.filter, reader.order), reader.cursor) :
                 LET page == Page(rest, reader.take) IN
                 /\ reader' = [reader EXCEPT !.listed = TRUE, !.more = page.more,
                                 !.got = reader.got \o page.rows, !.cursor = page.cursor]
                 /\ reader'.listed /\ reader'.more = page.more
                 /\ reader'.got = reader.got \o page.rows /\ reader'.cursor = page.cursor
                 /\ reader'.at = "page" /\ reader'.filter = reader.filter
                 /\ reader'.order = reader.order /\ reader'.written = reader.written
                 /\ reader'.moved = reader.moved /\ reader'.counted = reader.counted
                 /\ reader'.total = reader.total /\ reader'.take = reader.take
<1>1. reader \in Reader /\ reader.at = "page"
      BY DEF RowInv, TypeOK, List
<1>2. reader.filter \in Fetched /\ reader.order \in Order /\ reader.take \in Int
      BY <1>1, QueryAssumption DEF RowInv, Asked, Reader
<1>3. PICK rest \in Behind(Listing(reader.filter, reader.order), reader.cursor) :
          LET page == Page(rest, reader.take) IN
          reader' = [reader EXCEPT !.listed = TRUE, !.more = page.more,
                        !.got = reader.got \o page.rows, !.cursor = page.cursor]
      BY <1>1 DEF List, Reader
<1> DEFINE page == Page(rest, reader.take)
<1>4. reader' = [reader EXCEPT !.listed = TRUE, !.more = page.more,
                    !.got = reader.got \o page.rows, !.cursor = page.cursor]
      BY <1>3
<1> HIDE DEF page
<1>5. /\ reader'.listed /\ reader'.more = page.more
      /\ reader'.got = reader.got \o page.rows /\ reader'.cursor = page.cursor
      /\ reader'.at = "page" /\ reader'.filter = reader.filter
      /\ reader'.order = reader.order /\ reader'.written = reader.written
      /\ reader'.moved = reader.moved /\ reader'.counted = reader.counted
      /\ reader'.total = reader.total /\ reader'.take = reader.take
      BY <1>1, <1>4 DEF Reader
<1> QED BY <1>1, <1>2, <1>4, <1>5 DEF page, List

\* Reading a page leaves the reader what it is.
LEMMA ListTyped == RowInv /\ List => reader' \in Reader
<1> SUFFICES ASSUME RowInv, List PROVE reader' \in Reader
    OBVIOUS
<1>1. /\ reader.filter \in Fetched /\ reader.order \in Order /\ reader.take \in Int
      /\ reader \in Reader
      BY ListFields DEF RowInv, TypeOK
<1>2. PICK rest \in Behind(Listing(reader.filter, reader.order), reader.cursor) :
          LET page == Page(rest, reader.take) IN
          reader' = [reader EXCEPT !.listed = TRUE, !.more = page.more,
                        !.got = reader.got \o page.rows, !.cursor = page.cursor]
      BY ListFields
<1> DEFINE page == Page(rest, reader.take)
<1>3. page.rows \in Seq(Sheets) /\ page.more \in BOOLEAN /\ page.cursor \in Sheets \cup {None}
      BY <1>1, <1>2, PageTyped
<1>4. reader' = [reader EXCEPT !.listed = TRUE, !.more = page.more,
                    !.got = reader.got \o page.rows, !.cursor = page.cursor]
      BY <1>2
<1> HIDE DEF page
<1>5. reader.got \o page.rows \in Seq(Sheets)
      BY <1>1, <1>3 DEF Reader
<1> QED BY <1>1, <1>3, <1>4, <1>5 DEF Reader

\* The next page goes on where the one before ended.
LEMMA ListKeeps ==
    ASSUME RowInv, PageInv, List
    PROVE  PageInv'
<1>1. /\ reader.at = "page" /\ ~reader.listed /\ UNCHANGED <<row, writes>>
      /\ reader.filter \in Fetched /\ reader.order \in Order /\ reader.take \in Int
      /\ reader \in Reader
      BY ListFields DEF RowInv, TypeOK
<1>2. PICK rest \in Behind(Listing(reader.filter, reader.order), reader.cursor) :
          LET page == Page(rest, reader.take) IN
          /\ reader'.listed /\ reader'.more = page.more
          /\ reader'.got = reader.got \o page.rows /\ reader'.cursor = page.cursor
          /\ reader'.at = "page" /\ reader'.filter = reader.filter
          /\ reader'.order = reader.order /\ reader'.written = reader.written
          /\ reader'.moved = reader.moved /\ reader'.counted = reader.counted
          /\ reader'.total = reader.total /\ reader'.take = reader.take
      BY ListFields
<1> DEFINE page == Page(rest, reader.take)
<1>3. /\ reader'.listed /\ reader'.more = page.more
      /\ reader'.got = reader.got \o page.rows /\ reader'.cursor = page.cursor
      /\ reader'.at = "page" /\ reader'.filter = reader.filter
      /\ reader'.order = reader.order /\ reader'.written = reader.written
      /\ reader'.moved = reader.moved /\ reader'.counted = reader.counted
      /\ reader'.total = reader.total /\ reader'.take = reader.take
      BY <1>2
<1>4. Found(reader.filter)' = Found(reader.filter) /\ Untouched' = Untouched
  <2>1. ASSUME NEW f \in Sheets
        PROVE  Selected(reader.filter, f)' <=> Selected(reader.filter, f)
        BY <1>1, <1>3 DEF Selected, SearchWhere, BaseWhere, AndWhere, FieldWhere, Column
  <2>2. Found(reader.filter)' = Found(reader.filter)
        BY <2>1 DEF Found
  <2> QED BY <1>3, <2>2 DEF Untouched
<1>5. /\ reader.moved => reader.written # {}
      /\ reader.counted /\ reader.written = {} => reader.total = Cardinality(Found(reader.filter))
      BY <1>1 DEF PageInv
<1>6. ASSUME ~reader.moved PROVE Fetching'
  <2>1. ~Complete
        BY <1>1 DEF Complete
  <2>2. Proper /\ Upto(reader.cursor)
        BY <1>1, <1>6, <2>1 DEF PageInv, Fetching
  <2>s. PICK filter, order, s, got, W :
            /\ filter = reader.filter /\ order = reader.order /\ s = Listing(filter, order)
            /\ got = reader.got /\ W = reader.written
        OBVIOUS
  <2>n. PICK n : n = Len(s)
        OBVIOUS
  <2>3. /\ s \in Seq(Sheets) /\ n \in Nat /\ got \in Seq(Sheets)
        /\ \A k \in 1 .. n : s[k] \in Found(filter)
        /\ \A f \in Found(filter) : \E k \in 1 .. n : s[k] = f
        /\ \A j, k \in 1 .. n : j < k => Before(order, s[j], s[k])
        /\ \A j, k \in 1 .. n : s[j] = s[k] => j = k
    <3>1. order \in Order /\ got \in Seq(Sheets)
          BY <1>1, <2>s DEF Reader
    <3> QED BY <2>s, <2>n, <3>1, Listed
  <2>4. PICK p \in 0 .. n :
            /\ rest = SubSeq(s, p + 1, n)
            /\ FetchedTo(s, W, got, p)
    <3>1. rest \in Behind(s, reader.cursor) /\ order \in Order
          BY <1>1, <1>2, <2>s
    <3>2. \E p \in 0 .. Len(s) :
              /\ rest = SubSeq(s, p + 1, Len(s))
              /\ \A k \in 1 .. Len(s) : s[k] \notin reader.written =>
                    (s[k] \in Range(reader.got) <=> k <= p)
          BY <2>2, <2>s, <3>1, BehindPlace
    <3> QED BY <2>s, <2>n, <3>2 DEF FetchedTo
  <2>5. PICK q \in p .. n :
            /\ PageRows(s, p, q, page.rows)
            /\ page.more /\ reader.take > 0 => p < q /\ page.cursor = s[q]
            /\ ~(reader.take > 0) => q = p /\ page.cursor = None
            /\ ~page.more => q = n
    <3>1. p \in 0 .. Len(s) /\ rest = SubSeq(s, p + 1, Len(s))
          BY <2>4, <2>n
    <3>t. PICK take \in Int : take = reader.take
          BY <1>1
    <3>2. s \in Seq(Sheets)
          BY <2>3
    <3>3. PageEnds(s, p, take, Page(rest, take))
          BY <3>1, <3>2, PageTaken
    <3>4. page = Page(rest, take)
          BY <3>t
    <3> HIDE DEF page
    <3> QED BY <2>n, <3>t, <3>3, <3>4 DEF PageEnds
  <2> HIDE DEF page
  <2>a. PICK all : all = got \o page.rows
        OBVIOUS
  <2>6. /\ \A k \in 1 .. n : s[k] \notin W => (s[k] \in Range(all) <=> k <= q)
        /\ \A j \in DOMAIN all : all[j] \notin W =>
              \/ j \in DOMAIN got /\ all[j] = got[j]
              \/ \E k \in 1 .. n : all[j] = s[k]
        /\ \A j, k \in DOMAIN all : all[j] \notin W /\ all[j] = all[k] =>
              j = k \/ (j \in DOMAIN got /\ k \in DOMAIN got /\ got[j] = got[k] /\ got[j] = all[j])
    <3>1. page.rows \in Seq(Sheets)
          BY <2>5 DEF PageRows
    <3>2. p \in 0 .. Len(s) /\ q \in p .. Len(s)
          BY <2>n
    <3>4. NoneTwice(s)
          BY <2>n, <2>3 DEF NoneTwice
    <3>r. PICK rows \in Seq(Sheets) : rows = page.rows
          BY <3>1
    <3>5. PageRows(s, p, q, rows) /\ all = got \o rows
          BY <2>a, <2>5, <3>r
    <3>6. s \in Seq(Sheets) /\ got \in Seq(Sheets)
          BY <2>3
    <3>7. FetchedTo(s, W, all, q) /\ Extends(s, W, got, all)
          BY <2>4, <3>2, <3>4, <3>5, <3>6, PageAdds
    <3> QED BY <2>n, <3>7 DEF FetchedTo, Extends
  <2>7. /\ reader'.got = all /\ reader'.written = W /\ reader'.filter = filter
        /\ reader'.order = order
        /\ reader'.cursor = page.cursor /\ reader'.more = page.more /\ reader'.listed
        /\ Found(reader.filter) = Found(filter) /\ Found(reader.filter)' = Found(filter)
        BY <1>3, <1>4, <2>s, <2>a
  <2>8. \A j \in DOMAIN got : got[j] \notin W =>
            /\ got[j] \in Found(filter)
            /\ \A k \in DOMAIN got : got[j] = got[k] => j = k
        BY <2>2, <2>s DEF Proper
  <2>9. Proper'
    <3>1. ASSUME NEW j \in DOMAIN all, all[j] \notin W PROVE all[j] \in Found(filter)
          BY <2>3, <2>6, <2>8, <3>1
    <3>2. ASSUME NEW j \in DOMAIN all, NEW k \in DOMAIN all, all[j] \notin W, all[j] = all[k]
          PROVE  j = k
      <4>1. CASE j # k
        <5>1. /\ j \in DOMAIN got /\ k \in DOMAIN got /\ got[j] = got[k]
              /\ got[j] = all[j]
              BY <2>6, <3>2, <4>1
        <5> QED BY <2>8, <3>2, <5>1
      <4> QED BY <4>1
    <3> QED BY <2>7, <3>1, <3>2 DEF Proper
  <2>10. ASSUME page.more, reader.take > 0 PROVE Upto(reader.cursor)'
    <3>c. PICK c : c = page.cursor
          OBVIOUS
    <3>1. q \in 1 .. n /\ c = s[q]
          BY <2>3, <2>5, <2>10, <3>c
    <3>2. c \in Found(filter) /\ c # None
          BY <2>3, <3>1, QueryAssumption DEF Found
    <3>3. ASSUME NEW f \in Found(filter) \ W
          PROVE  f \in Range(all) <=> f = c \/ Before(order, f, c)
      <4>1. PICK k \in 1 .. n : s[k] = f
            BY <2>3
      <4>2. f \in Range(all) <=> k <= q
            BY <2>6, <4>1
      <4>3. CASE k <= q
            BY <2>3, <3>1, <4>1, <4>2, <4>3
      <4>4. CASE q < k
        <5>1. Before(order, c, f) /\ c \in Sheets /\ f \in Sheets
              BY <2>3, <3>1, <3>2, <4>1, <4>4, FoundFinite
        <5>3. c # f
              BY <2>3, <3>1, <4>1, <4>4
        <5>2. ~Before(order, f, c) /\ ~(k <= q)
              BY <2>s, <1>1, <2>3, <3>1, <4>4, <5>1, Ordered
        <5> QED BY <4>2, <5>2, <5>3
      <4> QED BY <2>3, <3>1, <4>3, <4>4
    <3>4. ASSUME NEW f PROVE Before(reader.order, f, c)' <=> Before(order, f, c)
          BY <1>1, <2>7 DEF Before
    <3>5. Untouched' = Found(filter) \ W
          BY <2>7 DEF Untouched
    <3>6. reader'.cursor = c
          BY <2>7, <3>c
    <3> QED BY <2>7, <3>2, <3>3, <3>4, <3>5, <3>6 DEF Upto
  <2>13. ASSUME ~(reader.take > 0) PROVE Upto(reader.cursor)' /\ reader'.cursor = None
    <3>1. got = <<>>
          BY <1>1, <1>6, <2>1, <2>s, <2>13 DEF PageInv, Fetching, Upto
    <3>2. page.cursor = None /\ page.rows \in Seq(Sheets) /\ Len(page.rows) = 0
          BY <2>3, <2>5, <2>13 DEF PageRows
    <3>3. all = <<>>
          BY <2>a, <3>1, <3>2
    <3> QED BY <2>7, <3>2, <3>3 DEF Upto
  <2>11. ASSUME ~page.more PROVE (Untouched \subseteq Range(reader.got))'
    <3>1. ASSUME NEW f \in Found(filter) \ W PROVE f \in Range(all)
          BY <2>3, <2>5, <2>6, <2>11
    <3> QED BY <2>7, <3>1 DEF Untouched
  <2>12. Complete' <=> ~page.more
         BY <2>7 DEF Complete
  <2> QED BY <1>3, <2>9, <2>10, <2>11, <2>12, <2>13 DEF Fetching
<1>7. reader'.at # "done" /\ (reader.filter)' = reader.filter
      BY <1>3
<1>8. /\ (reader.moved => reader.written # {})'
      /\ (reader.counted /\ reader.written = {} =>
            reader.total = Cardinality(Found(reader.filter)))'
      BY <1>3, <1>4, <1>5
<1>9. (~reader.moved => Fetching)'
      BY <1>3, <1>6
<1> QED BY <1>7, <1>8, <1>9 DEF PageInv

\* What is found, and in which order, does not change for the sheets that keep their rows.
LEMMA SameRows ==
    ASSUME NEW f, reader'.filter = reader.filter, row'[f] = row[f]
    PROVE  /\ Selected(reader.filter, f)' <=> Selected(reader.filter, f)
           /\ \A order, g : row'[g] = row[g] => (Before(order, f, g)' <=> Before(order, f, g))
<1>1. Selected(reader.filter, f)' <=> Selected(reader.filter, f)
      BY DEF Selected, SearchWhere, BaseWhere, AndWhere, FieldWhere, Column
<1>2. ASSUME NEW order, NEW g, row'[g] = row[g]
      PROVE  Before(order, f, g)' <=> Before(order, f, g)
      BY <1>2 DEF Before
<1> QED BY <1>1, <1>2

\* A write of a sheet that is not at the cursor takes nothing from what was fetched.
LEMMA WriteKeeps ==
    ASSUME RowInv, PageInv, NEW f \in Sheets, NEW new, Writes(f, new)
    PROVE  reader' \in Reader /\ Asked' /\ PageInv'
<1>1. reader \in Reader /\ reader.at # "done" /\ \A g \in Sheets : g # f => row'[g] = row[g]
      BY Written DEF RowInv, TypeOK, Writes, Write
<1>2. reader' = IF reader.at = "away" THEN reader
                ELSE [reader EXCEPT !.written = reader.written \cup {f},
                                    !.moved = reader.moved \/ reader.cursor = f]
      BY <1>1 DEF Writes, Write, Reader
<1>3. CASE reader.at = "away"
  <2>1. reader' = reader
        BY <1>2, <1>3
  <2> QED BY <1>1, <1>3, <2>1 DEF Asked, PageInv
<1>4. CASE reader.at # "away"
  <2>m. PICK moved : moved = (reader.moved \/ reader.cursor = f)
        OBVIOUS
  <2>1. /\ reader' = [reader EXCEPT !.written = reader.written \cup {f}, !.moved = moved]
        /\ moved \in BOOLEAN
        BY <1>1, <1>2, <1>4, <2>m DEF Reader
  <2>2. /\ reader' \in Reader
        /\ reader'.at = reader.at /\ reader'.filter = reader.filter /\ reader'.order = reader.order
        /\ reader'.cursor = reader.cursor /\ reader'.got = reader.got
        /\ reader'.listed = reader.listed /\ reader'.more = reader.more
        /\ reader'.take = reader.take
        /\ reader'.written = reader.written \cup {f} /\ reader'.moved = moved
        BY <1>1, <2>1 DEF Reader
  <2>3. Asked'
        BY <1>4, <2>2 DEF RowInv, Asked
  <2>4. ASSUME ~reader'.moved PROVE Fetching'
    <3>1. ~reader.moved /\ reader.cursor # f
          BY <2>2, <2>4, <2>m
    <3>2. Fetching
          BY <1>4, <3>1 DEF PageInv
    <3>3. ASSUME NEW g \in Sheets, g # f
          PROVE  g \in Found(reader.filter)' <=> g \in Found(reader.filter)
          BY <1>1, <2>2, <3>3, SameRows DEF Found
    <3>4. ASSUME NEW g PROVE g \in Untouched' <=> g \in Untouched /\ g # f
          BY <2>2, <3>3 DEF Untouched, Found
    <3>5. Proper'
      <4>1. ASSUME NEW j \in DOMAIN reader.got, reader.got[j] \notin reader.written, reader.got[j] # f
            PROVE  /\ reader.got[j] \in Found(reader.filter)'
                   /\ \A k \in DOMAIN reader.got : reader.got[j] = reader.got[k] => j = k
        <5>1. /\ reader.got[j] \in Found(reader.filter)
              /\ \A k \in DOMAIN reader.got : reader.got[j] = reader.got[k] => j = k
              BY <3>2, <4>1 DEF Fetching, Proper
        <5>2. reader.got[j] \in Sheets
              BY <5>1 DEF Found
        <5> QED BY <3>3, <4>1, <5>1, <5>2
      <4> QED BY <2>2, <4>1 DEF Proper
    <3>6. Complete' <=> Complete
          BY <2>2 DEF Complete
    <3>7. ASSUME Upto(reader.cursor) PROVE Upto(reader.cursor)'
      <4>1. CASE reader.cursor = None
            BY <2>2, <3>7, <4>1 DEF Upto
      <4>2. CASE reader.cursor # None
        <5>1. /\ reader.cursor \in Found(reader.filter) /\ reader.cursor \in Sheets
              /\ \A g \in Untouched : g \in Range(reader.got) <=>
                    g = reader.cursor \/ Before(reader.order, g, reader.cursor)
              BY <3>7, <4>2 DEF Upto, Found
        <5>2. reader.cursor \in Found(reader.filter)'
              BY <3>1, <3>3, <5>1
        <5>c. PICK c, order : c = reader.cursor /\ order = reader.order
              OBVIOUS
        <5>3. ASSUME NEW g \in Untouched'
              PROVE  g \in Range(reader.got) <=> g = c \/ Before(order, g, c)'
          <6>1. g \in Untouched /\ g # f /\ g \in Sheets
                BY <3>4 DEF Untouched, Found
          <6>2. Before(order, g, c)' <=> Before(order, g, c)
                BY <1>1, <2>2, <3>1, <5>1, <5>c, <6>1, SameRows
          <6> QED BY <5>1, <5>c, <6>1, <6>2
        <5>4. reader'.cursor = c /\ reader'.order = order /\ reader'.got = reader.got
              BY <2>2, <5>c
        <5> QED BY <2>2, <4>2, <5>2, <5>3, <5>4, <5>c DEF Upto
      <4> QED BY <4>1, <4>2
    <3>8. Untouched \subseteq Range(reader.got) => (Untouched \subseteq Range(reader.got))'
          BY <2>2, <3>4
    <3> QED BY <2>2, <3>2, <3>5, <3>6, <3>7, <3>8 DEF Fetching
  <2>5. PageInv'
    <3>1. reader'.written # {} /\ reader'.at # "done"
          BY <1>1, <2>2
    <3> QED BY <2>4, <3>1 DEF PageInv
  <2> QED BY <2>2, <2>3, <2>5
<1> QED BY <1>3, <1>4

\* The first page is yet to come.
LEMMA AskKeeps ==
    ASSUME RowInv, NEW filter \in Fetched, NEW sort, NEW first \in Firsts, Ask(filter, sort, first)
    PROVE  reader' \in Reader /\ Asked' /\ PageInv'
<1>1. PICK take, order :
          /\ take = Take(first) /\ order = OrderBy(IF filter.search = None THEN sort ELSE Unsorted)
          /\ reader' = [Away EXCEPT !.at = "page", !.filter = filter, !.take = take, !.order = order]
      BY DEF Ask
<1>2. take \in Int
      BY <1>1, QueryAssumption DEF Take
<1>3. order \in Order
      BY <1>1, OrderTyped
<1>4. reader' \in Reader
  <2>1. reader' = [at |-> "page", filter |-> filter, order |-> order, take |-> take,
                   cursor |-> None, counted |-> FALSE, listed |-> FALSE, total |-> 0,
                   more |-> FALSE, got |-> <<>>, written |-> {}, moved |-> FALSE]
        BY <1>1 DEF Away
  <2>2. <<>> \in Seq(Sheets) /\ {} \in SUBSET Sheets /\ 0 \in Nat
        OBVIOUS
  <2> QED BY <1>2, <1>3, <2>1, <2>2 DEF Reader
<1>5. /\ reader'.filter = filter /\ reader'.order = order /\ reader'.at = "page"
      /\ ~reader'.counted /\ ~reader'.listed /\ ~reader'.moved
      /\ reader'.cursor = None /\ reader'.got = <<>>
      BY <1>1 DEF Away
<1>6. Asked'
      BY <1>3, <1>5 DEF Asked
<1>7. Proper' /\ Upto(reader.cursor)' /\ ~Complete'
      BY <1>5 DEF Proper, Upto, Complete
<1>8. PageInv'
      BY <1>5, <1>7 DEF PageInv, Fetching
<1> QED BY <1>4, <1>6, <1>8

\* Without a write between them, the count tells how many rows there are to list.
LEMMA CountKeeps ==
    ASSUME RowInv, PageInv, Count
    PROVE  reader' \in Reader /\ Asked' /\ PageInv'
<1>1. /\ reader \in Reader /\ reader.at = "page" /\ row' = row
      /\ reader' = [reader EXCEPT !.counted = TRUE, !.total = Cardinality(Found(reader.filter))]
      BY DEF RowInv, TypeOK, Count, Reader
<1>2. Cardinality(Found(reader.filter)) \in Nat
      BY FoundFinite
<1>3. /\ reader' \in Reader /\ reader'.at = "page"
      /\ reader'.filter = reader.filter /\ reader'.order = reader.order
      /\ reader'.cursor = reader.cursor /\ reader'.got = reader.got
      /\ reader'.listed = reader.listed /\ reader'.more = reader.more
      /\ reader'.take = reader.take
      /\ reader'.written = reader.written /\ reader'.moved = reader.moved
      /\ reader'.total = Cardinality(Found(reader.filter))
      BY <1>1, <1>2 DEF Reader
<1>4. Found(reader.filter)' = Found(reader.filter)
      BY <1>1, <1>3, SameRows DEF Found
<1>5. Asked'
      BY <1>1, <1>3 DEF RowInv, Asked
<1>6. Fetching => Fetching'
  <2>1. Untouched' = Untouched /\ (Proper => Proper')
        BY <1>3, <1>4 DEF Untouched, Proper
  <2>2. Upto(reader.cursor) => Upto(reader.cursor)'
    <3>1. \A f : Before(reader.order, f, reader.cursor)' <=> Before(reader.order, f, reader.cursor)
          BY <1>1, <1>3 DEF Before
    <3> QED BY <1>3, <1>4, <2>1, <3>1 DEF Upto
  <2>3. Complete' <=> Complete
        BY <1>3 DEF Complete
  <2> QED BY <1>3, <2>1, <2>2, <2>3 DEF Fetching
<1>7. PageInv'
      BY <1>1, <1>3, <1>4, <1>6 DEF PageInv
<1> QED BY <1>3, <1>5, <1>7

\* The client asks for the next page or has all of them.
LEMMA ContinueKeeps ==
    ASSUME RowInv, PageInv, Continue
    PROVE  reader' \in Reader /\ Asked' /\ PageInv'
<1>1. /\ reader \in Reader /\ reader.at = "page" /\ reader.counted /\ reader.listed /\ row' = row
      /\ reader' = IF reader.more THEN [reader EXCEPT !.counted = FALSE, !.listed = FALSE]
                   ELSE [reader EXCEPT !.at = "done"]
      BY DEF RowInv, TypeOK, Continue
<1>2. /\ reader' \in Reader /\ reader'.at # "away"
      /\ reader'.filter = reader.filter /\ reader'.order = reader.order
      /\ reader'.cursor = reader.cursor /\ reader'.got = reader.got
      /\ reader'.more = reader.more /\ reader'.total = reader.total /\ reader'.take = reader.take
      /\ reader'.written = reader.written /\ reader'.moved = reader.moved
      BY <1>1 DEF Reader
<1>3. /\ reader.more => reader'.at = "page" /\ ~reader'.listed /\ ~reader'.counted
      /\ ~reader.more => reader'.at = "done" /\ reader'.listed /\ reader'.counted
      BY <1>1 DEF Reader
<1>4. Found(reader.filter)' = Found(reader.filter)
      BY <1>1, <1>2, SameRows DEF Found
<1>5. Asked'
      BY <1>1, <1>2 DEF RowInv, Asked
<1>6. Fetching => Fetching'
  <2>1. Untouched' = Untouched /\ (Proper => Proper')
        BY <1>2, <1>4 DEF Untouched, Proper
  <2>2. Upto(reader.cursor) => Upto(reader.cursor)'
    <3>1. \A f : Before(reader.order, f, reader.cursor)' <=> Before(reader.order, f, reader.cursor)
          BY <1>1, <1>2 DEF Before
    <3> QED BY <1>2, <1>4, <2>1, <3>1 DEF Upto
  <2>3. Complete' <=> Complete
        BY <1>1, <1>2, <1>3 DEF Complete
  <2> QED BY <1>1, <1>2, <1>3, <2>1, <2>2, <2>3 DEF Fetching
<1>7. reader'.at = "done" => reader'.counted /\ Complete'
      BY <1>1, <1>2, <1>3 DEF Complete
<1>8. (reader.counted /\ reader.written = {} => reader.total = Cardinality(Found(reader.filter)))'
      BY <1>1, <1>2, <1>4 DEF PageInv
<1>9. (reader.moved => reader.written # {})' /\ (~reader.moved => Fetching)'
      BY <1>1, <1>2, <1>6 DEF PageInv
<1> QED BY <1>2, <1>5, <1>7, <1>8, <1>9 DEF PageInv

-----------------------------------------------------------------------------
(* The theorems                                                            *)

\* The inductive invariant.
QueryInv == RowInv /\ PageInv

\* It holds at first.
LEMMA InitQueryInv == Init => QueryInv
BY InitRows DEF QueryInv, PageInv, Init, Away

\* Every step keeps it.
LEMMA QueryInvKept == QueryInv /\ [Next]_vars => QueryInv'
<1> SUFFICES ASSUME QueryInv, [Next]_vars PROVE QueryInv'
    OBVIOUS
<1>1. RowInv /\ PageInv
      BY DEF QueryInv
<1>2. ASSUME UNCHANGED <<row, writes>>, reader' \in Reader, Asked', PageInv' PROVE QueryInv'
  <2>1. TypeOK' /\ KeysApart'
        BY <1>1, <1>2 DEF RowInv, TypeOK, KeysApart, Latest
  <2> QED BY <1>2, <2>1 DEF QueryInv, RowInv
<1>3. ASSUME NEW filter \in Fetched, NEW sort \in Sorts, NEW first \in Firsts,
             Ask(filter, sort, first)
      PROVE  QueryInv'
      BY <1>1, <1>2, <1>3, AskKeeps DEF Ask
<1>4. CASE Count
      BY <1>1, <1>2, <1>4, CountKeeps DEF Count
<1>5. CASE List
  <2>1. Asked'
        BY <1>1, <1>5, ListFields DEF Asked
  <2> QED BY <1>1, <1>2, <1>5, <2>1, ListTyped, ListKeeps DEF List
<1>6. CASE Continue
      BY <1>1, <1>2, <1>6, ContinueKeeps DEF Continue
<1>7. ASSUME NEW f \in Sheets,
             \/ \E name \in Names : Create(f, name) \/ Update(f, name)
             \/ Archive(f) \/ Revive(f) \/ Delete(f)
      PROVE  QueryInv'
  <2>1. PICK new : Writes(f, new)
        BY <1>1, <1>7, Writers
  <2>2. row' \in [Sheets -> Row] /\ KeysApart'
        BY <1>1, <2>1, WriteKeepsApart
  <2>3. reader' \in Reader /\ Asked' /\ PageInv'
        BY <1>1, <2>1, WriteKeeps
  <2>4. writes' \in 0 .. MaxWrites
        BY <1>1, <2>1, Written DEF Writes, RowInv
  <2> QED BY <2>2, <2>3, <2>4 DEF QueryInv, RowInv, TypeOK
<1>8. CASE UNCHANGED vars
  <2>1. row' = row /\ reader' = reader /\ UNCHANGED <<row, writes>>
        BY <1>8 DEF vars
  <2>2. reader' \in Reader /\ Asked'
        BY <1>1, <2>1 DEF RowInv, TypeOK, Asked
  <2>3. PageInv'
    <3>1. Found(reader.filter)' = Found(reader.filter)
          BY <2>1, SameRows DEF Found
    <3>2. \A f : Before(reader.order, f, reader.cursor)' <=> Before(reader.order, f, reader.cursor)
          BY <2>1 DEF Before
    <3> QED BY <1>1, <2>1, <3>1, <3>2 DEF PageInv, Fetching, Proper, Upto, Complete, Untouched
  <2> QED BY <1>2, <2>1, <2>2, <2>3
<1> QED BY <1>3, <1>4, <1>5, <1>6, <1>7, <1>8 DEF Next

\* So it holds always.
LEMMA QueryInvHolds == Spec => []QueryInv
BY InitQueryInv, QueryInvKept, PTL DEF Spec

\* Rows, writes and the reader keep their types.
THEOREM QueryTypeCorrect == Spec => []TypeOK
<1>1. QueryInv => TypeOK
      BY DEF QueryInv, RowInv
<1> QED BY <1>1, QueryInvHolds, PTL

\* A plain filter selects what its parts mean, whatever was written
\* (fact-sheet.service.ts:465).
THEOREM FiltersMean == Spec => []FiltersExact
<1>1. QueryInv => FiltersExact
  <2> SUFFICES ASSUME QueryInv PROVE FiltersExact
      OBVIOUS
  <2>1. row \in [Sheets -> Row]
        BY DEF QueryInv, RowInv, TypeOK
  <2> QED BY <2>1, SelectedExact, SelectedSeen DEF FiltersExact
<1> QED BY <1>1, QueryInvHolds, PTL

\* Page after page, every sheet that nobody writes is there once, and without
\* writes the pages hold what the total counts (fact-sheet.service.ts:88).
THEOREM PagesComplete == Spec => []PagesAddUp
<1>1. QueryInv => PagesAddUp
  <2> SUFFICES ASSUME QueryInv, reader.at = "done" PROVE
        /\ ~reader.moved => \A f \in Found(reader.filter) \ reader.written : Times(f) = 1
        /\ reader.written = {} => /\ reader.total = Len(reader.got)
                                  /\ Range(reader.got) = Found(reader.filter)
      BY DEF PagesAddUp
  <2>1. /\ reader \in Reader /\ reader.counted /\ Complete
        /\ reader.moved => reader.written # {}
        /\ ~reader.moved => Fetching
        /\ reader.written = {} => reader.total = Cardinality(Found(reader.filter))
        BY DEF QueryInv, RowInv, TypeOK, PageInv
  <2>g. PICK got \in Seq(Sheets) : got = reader.got
        BY <2>1 DEF Reader
  <2>2. ASSUME ~reader.moved, NEW f \in Found(reader.filter) \ reader.written
        PROVE  Times(f) = 1
    <3>1. Proper /\ Untouched \subseteq Range(reader.got)
          BY <2>1, <2>2 DEF Fetching
    <3>2. PICK j \in DOMAIN got : got[j] = f
          BY <2>2, <2>g, <3>1 DEF Untouched, Range
    <3>3. \A k \in DOMAIN got : got[j] = got[k] => j = k
          BY <2>2, <2>g, <3>1, <3>2 DEF Proper
    <3>4. {k \in DOMAIN got : got[k] = f} = {j}
          BY <3>2, <3>3
    <3>5. Cardinality({j}) = 1
          BY FS_Singleton
    <3> QED BY <2>g, <3>4, <3>5 DEF Times
  <2>3. ASSUME reader.written = {}
        PROVE  /\ reader.total = Len(reader.got)
               /\ Range(reader.got) = Found(reader.filter)
    <3> DEFINE found == Found(reader.filter)
    <3>1. Proper /\ Untouched \subseteq Range(reader.got)
          BY <2>1, <2>3 DEF Fetching
    <3>2. /\ \A j \in DOMAIN got : got[j] \in found
          /\ \A j, k \in DOMAIN got : got[j] = got[k] => j = k
          /\ found \subseteq Range(got)
          BY <2>3, <2>g, <3>1 DEF Proper, Untouched
    <3>3. DOMAIN got = 1 .. Len(got) /\ Len(got) \in Nat
          OBVIOUS
    <3>4. Range(got) = found
          BY <3>2 DEF Range
    <3> HIDE DEF found
    <3>5. got \in Bijection(1 .. Len(got), found)
      <4>1. got \in [1 .. Len(got) -> found]
            BY <3>2, <3>3
      <4>2. \A y \in found : \E j \in 1 .. Len(got) : got[j] = y
            BY <3>2, <3>3 DEF Range
      <4> QED BY <3>2, <3>3, <4>1, <4>2 DEF Bijection, Injection, Surjection, IsInjective
    <3>6. IsFiniteSet(1 .. Len(got)) /\ Cardinality(1 .. Len(got)) = Len(got)
          BY <3>3, FS_Interval
    <3>7. Cardinality(found) = Len(got)
          BY <3>5, <3>6, FS_Bijection DEF ExistsBijection
    <3> QED BY <2>1, <2>3, <2>g, <3>4, <3>7 DEF found
  <2> QED BY <2>2, <2>3
<1> QED BY <1>1, QueryInvHolds, PTL
=============================================================================
