------------------------- MODULE RelationGraphProofs -------------------------
(***************************************************************************)
(* RelationGraph for any sheets, workspaces, patches and handlers, and any *)
(* timeouts and crashes: no relation crosses workspaces (OneWorkspace) or  *)
(* outlives its sheets (NoDangling), no event names a relation that was    *)
(* not committed (AnnouncedWereLinked), and a relation changes behind its  *)
(* source's rev in the three ways RevTellsOfRelations names only.  A full  *)
(* LDIF item leaves no relation that it does not name (FullModeExact).  A  *)
(* handler that nobody commits beside does exactly what it was asked for:  *)
(* permanentDelete is not in its own way (NotInItsOwnWay) and              *)
(* explain_architecture finds what is within two hops (ExplainExact).      *)
(*                                                                         *)
(* The argument has four parts.  CallsOK says of a handler what it has     *)
(* left to do and what its transaction must hold when it commits.  StoreOK *)
(* says of the tables what the locks guarantee: transactions write         *)
(* disjoint rows, none of them refers to a sheet another one is about to   *)
(* delete, and a sheet that is about to be deleted has no relation left.   *)
(* Planned says of a handler how what it has done and what it has left add *)
(* up to its request, as long as nobody else has committed; Owns, whose    *)
(* relations it writes, whatever the others commit.                        *)
(***************************************************************************)
EXTENDS RelationGraph, FiniteSetTheorems, SequenceTheorems, TLAPS

\* The statements there are in a handler's list.
May(op, do) ==
    \/ op \in {"upsert", "patch", "ldif"} /\ do = "link"
    \/ op \in {"delete", "patch"} /\ do = "unlink"
    \/ op = "patch" /\ do = "move"
    \/ op \in {"upsert", "delete", "patch"} /\ do = "touch"
    \/ op = "remove" /\ do \in {"unlinkAll", "drop"}
    \/ op = "ldif" /\ do = "keepOnly"
    \/ op = "explain" /\ do = "visit"

\* A statement names what it needs, within the workspace of its call.
Fits(c, s) ==
    /\ s \in Statement
    /\ May(c.op, s.do)
    /\ s.do = "link" =>
          /\ s.type \in Types /\ s.source \in Sheets /\ s.target \in Sheets
          /\ SpaceOf[s.source] = c.space
          /\ c.op # "patch" => SpaceOf[s.type] = c.space /\ SpaceOf[s.target] = c.space
    /\ s.do \in {"unlink", "move"} => s.id \in RelIds /\ s.type \in Types
    /\ s.do = "move" => s.target \in Sheets
    /\ s.do \in {"touch", "unlinkAll", "drop", "keepOnly", "visit"} => s.source \in Sheets

\* The last statement of a transaction marks the sheet of its call.
Closes(c, s) ==
    /\ c.op \in {"upsert", "delete", "patch"} => s.do = "touch" /\ s.source = c.sheet
    /\ c.op = "remove" => s.do = "drop" /\ s.source = c.sheet

TodoOK(c) ==
    /\ \A k \in 1 .. Len(c.todo) : Fits(c, c.todo[k])
    /\ \A k \in 1 .. Len(c.todo) : c.todo[k].do = "drop" => k = Len(c.todo)
    /\ c.todo # <<>> => Closes(c, c.todo[Len(c.todo)])

\* l are the relations committed so far.
PhaseOK(c, l) ==
    /\ c.at = "run" => c.todo # <<>>
    /\ c.op \in {"none", "ldif", "explain"} => c.at \notin {"commit", "after"}
    /\ c.op = "explain" => c.made = {}
    /\ c.at \in {"idle", "after", "emit"} \/ c.op = "ldif" => c.made \subseteq l

\* t is the transaction of the handler.
ShapeOK(c, t) ==
    /\ c.op \in {"ldif", "explain"} \/ c.at \notin {"run", "commit"} => t = Empty
    /\ c.at = "commit" => c.sheet \in IF c.op = "remove" THEN t.dropped ELSE t.touched
    /\ t.dropped # {} => c.at = "commit"

CallOK(c, t, l) == TodoOK(c) /\ PhaseOK(c, l) /\ ShapeOK(c, t)
CallsOK == \A p \in Procs : CallOK(call[p], tx[p], linked)

\* A row within a workspace, between sheets that exist.
Sound(row, sh) ==
    /\ SpaceOf[row.source] = SpaceOf[row.type] /\ SpaceOf[row.target] = SpaceOf[row.type]
    /\ sh[row.source].live /\ sh[row.target].live

\* The transaction t has written a row, other than the one there is, that
\* refers to f.
Refers(t, r, f) ==
    \E i \in RelIds :
        /\ t.rel[i] # Same /\ Stored(t.rel[i]) /\ t.rel[i] # r[i]
        /\ f = t.rel[i].source \/ f = t.rel[i].target

\* The row of i as the transaction t sees it.
View(t, r, i) == IF t.rel[i] # Same THEN t.rel[i] ELSE r[i]

\* What the locks guarantee of two transactions.
Apart(t, u, r) ==
    /\ \A i \in RelIds : t.rel[i] = Same \/ u.rel[i] = Same
    /\ t.dropped \cap u.dropped = {}
    /\ \A f \in t.dropped : ~Refers(u, r, f)

\* What a transaction has written, and what it is about to delete.
TxOK(t, r, sh) ==
    /\ \A i \in RelIds : t.rel[i] # Same /\ Stored(t.rel[i]) => Sound(t.rel[i], sh)
    /\ \A f \in t.dropped :
        /\ sh[f].live
        /\ \A i \in RelIds : Stored(View(t, r, i)) =>
              View(t, r, i).source # f /\ View(t, r, i).target # f

StoreOK ==
    /\ \A i \in RelIds : Stored(rel[i]) => Sound(rel[i], sheet)
    /\ \A p \in Procs : TxOK(tx[p], rel, sheet)
    /\ \A p, q \in Procs : p # q => Apart(tx[p], tx[q], rel)
    /\ announced \subseteq linked

GraphInv == GraphTypeOK /\ CallsOK /\ StoreOK

-----------------------------------------------------------------------------
(* Sequences and records                                                   *)

\* The head and the rest of a list of statements.
LEMMA HeadAndTail ==
    ASSUME NEW s \in Seq(Statement), s # <<>>
    PROVE  /\ Len(s) \in Nat /\ Len(s) >= 1
           /\ Head(s) = s[1] /\ s[1] \in Statement
           /\ Tail(s) \in Seq(Statement)
           /\ Len(Tail(s)) = Len(s) - 1
           /\ \A k \in 1 .. Len(s) - 1 : Tail(s)[k] = s[k + 1]
           /\ Tail(s) = <<>> <=> Len(s) = 1
<1>1. Len(s) \in Nat /\ Len(s) >= 1
      OBVIOUS
<1>2. Head(s) = s[1] /\ s[1] \in Statement
      BY <1>1
<1>3. Tail(s) \in Seq(Statement) /\ Len(Tail(s)) = Len(s) - 1
      OBVIOUS
<1>4. \A k \in 1 .. Len(s) - 1 : Tail(s)[k] = s[k + 1]
      BY <1>1
<1>5. Tail(s) = <<>> <=> Len(s) = 1
  <2>1. Len(<<>>) = 0
        BY EmptySeq
  <2>2. Tail(s) # <<>> => Len(Tail(s)) \in Nat \ {0}
        BY <1>3, EmptySeq
  <2> QED BY <1>1, <1>3, <2>1, <2>2
<1> QED BY <1>1, <1>2, <1>3, <1>4, <1>5

\* The values of a function on a finite set are finitely many.
LEMMA FiniteImage ==
    ASSUME NEW X, IsFiniteSet(X), NEW h, h = [x \in X |-> h[x]]
    PROVE  IsFiniteSet({h[x] : x \in X})
<1> DEFINE Y == {h[x] : x \in X}
<1>1. h \in [X -> Y]
      OBVIOUS
<1>2. \A y \in Y : \E x \in X : h[x] = y
      OBVIOUS
<1>3. h \in Surjection(X, Y)
      BY <1>1, <1>2 DEF Surjection
<1> HIDE DEF Y
<1>4. IsFiniteSet(Y)
      BY <1>3, FS_Surjection
<1> QED BY <1>4 DEF Y

\* Any order of a finite set of statements is a list of them.
LEMMA SetToSeqTyped ==
    ASSUME NEW X, IsFiniteSet(X)
    PROVE  SetToSeq(X) \in Seq(X)
<1>1. PICK n \in Nat : ExistsBijection(1 .. n, X)
      BY FS_NatBijection
<1>2. Cardinality(X) = n
      BY <1>1, FS_CountingElements
<1>3. PICK f \in Bijection(1 .. n, X) : TRUE
      BY <1>1 DEF ExistsBijection
<1>4. f \in [1 .. n -> X] /\ IsInjective(f)
      BY <1>3 DEF Bijection, Injection, IsInjective
<1>5. SetToSeq(X) \in [1 .. n -> X]
      BY <1>2, <1>4 DEF SetToSeq
<1> QED BY <1>5

\* No statement of any kind names anything by itself.
LEMMA PlainStatements ==
    /\ \A f \in Sheets : \A do \in {"touch", "unlinkAll", "drop", "keepOnly", "visit"} :
          /\ OnSheet(do, f) \in Statement
          /\ OnSheet(do, f).do = do /\ OnSheet(do, f).source = f
    /\ \A t \in Types, f, g \in Sheets :
          /\ LinkStmt(t, f, g) \in Statement
          /\ LinkStmt(t, f, g).do = "link" /\ LinkStmt(t, f, g).type = t
          /\ LinkStmt(t, f, g).source = f /\ LinkStmt(t, f, g).target = g
<1>1. ASSUME NEW f \in Sheets, NEW do \in {"touch", "unlinkAll", "drop", "keepOnly", "visit"}
      PROVE  /\ OnSheet(do, f) \in Statement
             /\ OnSheet(do, f).do = do /\ OnSheet(do, f).source = f
      BY DEF OnSheet, S, Statement
<1>2. ASSUME NEW t \in Types, NEW f \in Sheets, NEW g \in Sheets
      PROVE  /\ LinkStmt(t, f, g) \in Statement
             /\ LinkStmt(t, f, g).do = "link" /\ LinkStmt(t, f, g).type = t
             /\ LinkStmt(t, f, g).source = f /\ LinkStmt(t, f, g).target = g
      BY DEF LinkStmt, S, Statement
<1> QED BY <1>1, <1>2

LEMMA EmptyTyped == Empty \in Transaction
BY DEF Empty, Transaction

LEMMA IdleTyped == Idle \in Call
BY DEF Idle, Call, Operations

-----------------------------------------------------------------------------
(* The tables                                                              *)

\* The operators of RelationGraph in terms of one transaction.
LEMMA TransactionTerms ==
    ASSUME NEW p \in Procs
    PROVE  /\ \A i \in RelIds : Seen(p, i) = View(tx[p], rel, i)
           /\ \A i \in RelIds : i \in Written(p) <=> tx[p].rel[i] # Same
           /\ \A f : f \in Shared(p) <=> Refers(tx[p], rel, f)
           /\ \A f : Referenced(p, f) <=> \E i \in RelIds :
                  /\ Stored(View(tx[p], rel, i))
                  /\ f = View(tx[p], rel, i).source \/ f = View(tx[p], rel, i).target
<1>1. \A i \in RelIds : Seen(p, i) = View(tx[p], rel, i)
      BY DEF Seen, Written, View
<1>2. \A i \in RelIds : i \in Written(p) <=> tx[p].rel[i] # Same
      BY DEF Written
<1>3. \A f : f \in Shared(p) <=> Refers(tx[p], rel, f)
      BY DEF Shared, Refers, Written, Ends
<1>4. \A f : Referenced(p, f) <=> \E i \in RelIds :
                  /\ Stored(View(tx[p], rel, i))
                  /\ f = View(tx[p], rel, i).source \/ f = View(tx[p], rel, i).target
      BY <1>1 DEF Referenced, Ends
<1> QED BY <1>1, <1>2, <1>3, <1>4

\* Stored rows are rows.
LEMMA RowsTyped ==
    ASSUME GraphTypeOK, NEW i \in RelIds
    PROVE  /\ Stored(rel[i]) => rel[i] \in Row
           /\ rel[i] # Same
           /\ \A p \in Procs :
                /\ tx[p].rel[i] # Same /\ Stored(tx[p].rel[i]) => tx[p].rel[i] \in Row
                /\ View(tx[p], rel, i) \in Rows
                /\ Stored(View(tx[p], rel, i)) => View(tx[p], rel, i) \in Row
BY RelationAssumption DEF GraphTypeOK, Stored, Rows, Transaction, View

\* A transaction that has written nothing is apart from all others.
LEMMA EmptyIsApart ==
    ASSUME NEW u, NEW r, NEW sh
    PROVE  Apart(Empty, u, r) /\ Apart(u, Empty, r) /\ TxOK(Empty, r, sh)
BY DEF Apart, TxOK, Empty, Refers

\* Transactions may be rolled back.
LEMMA StoreReset ==
    ASSUME StoreOK, UNCHANGED <<rel, sheet>>,
           \A q \in Procs : tx'[q] = tx[q] \/ tx'[q] = Empty,
           (announced \subseteq linked)'
    PROVE  StoreOK'
<1>1. \A p \in Procs : TxOK(tx'[p], rel, sheet)
      BY EmptyIsApart DEF StoreOK
<1>2. \A p, q \in Procs : p # q => Apart(tx'[p], tx'[q], rel)
      BY EmptyIsApart DEF StoreOK
<1> QED BY <1>1, <1>2 DEF StoreOK

\* One transaction writes.
LEMMA StoreWrite ==
    ASSUME StoreOK, UNCHANGED <<rel, sheet, linked, announced>>,
           NEW p \in Procs, NEW t, TxOK(t, rel, sheet), tx'[p] = t,
           \A q \in Procs \ {p} : tx'[q] = tx[q] /\ Apart(t, tx[q], rel) /\ Apart(tx[q], t, rel)
    PROVE  StoreOK'
<1>1. \A q \in Procs : TxOK(tx'[q], rel, sheet)
      BY DEF StoreOK
<1>2. \A q, r \in Procs : q # r => Apart(tx'[q], tx'[r], rel)
  <2> TAKE q, r \in Procs
  <2>1. CASE q = p
        BY <2>1
  <2>2. CASE q # p /\ r = p
        BY <2>2
  <2>3. CASE q # p /\ r # p
        BY <2>3 DEF StoreOK
  <2> QED BY <2>1, <2>2, <2>3
<1> QED BY <1>1, <1>2 DEF StoreOK

\* What a transaction may write: rows that no other has written, sound, and
\* between sheets that no other is about to delete.
Writes(p, t) ==
    /\ t.dropped = {}
    /\ \A i \in RelIds :
        \/ t.rel[i] = tx[p].rel[i]
        \/ /\ \A q \in Procs \ {p} : tx[q].rel[i] = Same
           /\ \/ ~Stored(t.rel[i])
              \/ /\ Sound(t.rel[i], sheet)
                 /\ \/ t.rel[i] = rel[i]
                    \/ \A q \in Procs \ {p} : {t.rel[i].source, t.rel[i].target} \cap tx[q].dropped = {}

LEMMA StoreWrites ==
    ASSUME StoreOK, UNCHANGED <<rel, sheet, linked, announced>>,
           NEW p \in Procs, NEW t, Writes(p, t), tx'[p] = t,
           \A q \in Procs \ {p} : tx'[q] = tx[q]
    PROVE  StoreOK'
<1>1. TxOK(t, rel, sheet)
  <2>1. TxOK(tx[p], rel, sheet) /\ t.dropped = {}
        BY DEF StoreOK, Writes
  <2>2. ASSUME NEW i \in RelIds, t.rel[i] # Same, Stored(t.rel[i])
        PROVE  Sound(t.rel[i], sheet)
        BY <2>1, <2>2 DEF Writes, TxOK
  <2> QED BY <2>1, <2>2 DEF TxOK
<1>2. ASSUME NEW q \in Procs \ {p}
      PROVE  Apart(t, tx[q], rel) /\ Apart(tx[q], t, rel)
  <2>1. Apart(tx[p], tx[q], rel) /\ Apart(tx[q], tx[p], rel) /\ t.dropped = {}
        BY DEF StoreOK, Writes
  <2>2. \A i \in RelIds : t.rel[i] = Same \/ tx[q].rel[i] = Same
        BY <2>1 DEF Writes, Apart
  <2>3. ASSUME NEW f \in tx[q].dropped PROVE ~Refers(t, rel, f)
        BY <2>1 DEF Writes, Apart, Refers
  <2> QED BY <2>1, <2>2, <2>3 DEF Apart
<1> QED BY <1>1, <1>2, StoreWrite

\* Without a transaction a row that nobody else has written changes at once.
WritesAtOnce(r) ==
    \A i \in RelIds :
        \/ r[i] = rel[i]
        \/ /\ \A q \in Procs : tx[q].rel[i] = Same
           /\ \/ ~Stored(r[i])
              \/ /\ Sound(r[i], sheet)
                 /\ \A q \in Procs : {r[i].source, r[i].target} \cap tx[q].dropped = {}

LEMMA StoreAtOnce ==
    ASSUME StoreOK, UNCHANGED <<sheet, tx, announced>>, linked \subseteq linked',
           NEW r, WritesAtOnce(r), rel' = r
    PROVE  StoreOK'
<1>1. \A i \in RelIds : Stored(r[i]) => Sound(r[i], sheet)
      BY DEF StoreOK, WritesAtOnce
<1>2. ASSUME NEW p \in Procs PROVE TxOK(tx[p], r, sheet)
  <2>1. TxOK(tx[p], rel, sheet)
        BY DEF StoreOK
  <2>2. ASSUME NEW f \in tx[p].dropped, NEW i \in RelIds, Stored(View(tx[p], r, i))
        PROVE  View(tx[p], r, i).source # f /\ View(tx[p], r, i).target # f
    <3>1. CASE tx[p].rel[i] # Same \/ r[i] = rel[i]
          BY <2>1, <2>2, <3>1 DEF TxOK, View
    <3>2. CASE tx[p].rel[i] = Same /\ r[i] # rel[i]
          BY <2>2, <3>2 DEF WritesAtOnce, View
    <3> QED BY <3>1, <3>2
  <2> QED BY <2>1, <2>2 DEF TxOK
<1>3. ASSUME NEW p \in Procs, NEW q \in Procs, p # q PROVE Apart(tx[p], tx[q], r)
  <2>1. Apart(tx[p], tx[q], rel)
        BY <1>3 DEF StoreOK
  <2>2. ASSUME NEW f \in tx[p].dropped PROVE ~Refers(tx[q], r, f)
        BY <2>1 DEF Apart, Refers, WritesAtOnce
  <2> QED BY <2>1, <2>2 DEF Apart
<1> QED BY <1>1, <1>2, <1>3 DEF StoreOK

\* A transaction commits: its rows are the committed rows, and the sheets it
\* deletes are gone.
LEMMA StoreCommit ==
    ASSUME GraphTypeOK, StoreOK, NEW p \in Procs,
           UNCHANGED announced, linked \subseteq linked',
           \A i \in RelIds : rel'[i] = View(tx[p], rel, i),
           \A f \in Sheets : sheet'[f].live = (sheet[f].live /\ f \notin tx[p].dropped),
           tx'[p] = Empty, \A q \in Procs \ {p} : tx'[q] = tx[q]
    PROVE  StoreOK'
<1> DEFINE d == tx[p].dropped
<1>1. TxOK(tx[p], rel, sheet)
      BY DEF StoreOK
<1>2. ASSUME NEW i \in RelIds, Stored(rel'[i]) PROVE Sound(rel'[i], sheet')
  <2>1. rel'[i] = View(tx[p], rel, i) /\ rel'[i] \in Row
        BY <1>2, RowsTyped
  <2>2. Sound(rel'[i], sheet)
        BY <1>1, <1>2, <2>1 DEF TxOK, View, StoreOK
  <2>3. rel'[i].source \notin d /\ rel'[i].target \notin d
        BY <1>1, <1>2, <2>1 DEF TxOK
  <2> QED BY <2>1, <2>2, <2>3 DEF Sound, Row
<1>3. ASSUME NEW q \in Procs, q # p PROVE TxOK(tx[q], rel', sheet')
  <2>1. TxOK(tx[q], rel, sheet) /\ Apart(tx[p], tx[q], rel) /\ Apart(tx[q], tx[p], rel)
        BY <1>3 DEF StoreOK
  <2>2. ASSUME NEW i \in RelIds, tx[q].rel[i] # Same, Stored(tx[q].rel[i])
        PROVE  Sound(tx[q].rel[i], sheet')
    <3>1. tx[q].rel[i] \in Row /\ Sound(tx[q].rel[i], sheet)
          BY <2>1, <2>2, RowsTyped DEF TxOK
    <3>2. ASSUME NEW f \in d PROVE f # tx[q].rel[i].source /\ f # tx[q].rel[i].target
      <4>1. CASE tx[q].rel[i] # rel[i]
            BY <2>1, <2>2, <4>1 DEF Apart, Refers
      <4>2. CASE tx[q].rel[i] = rel[i]
        <5>1. tx[p].rel[i] = Same
              BY <2>1, <2>2 DEF Apart
        <5>2. View(tx[p], rel, i) = tx[q].rel[i]
              BY <4>2, <5>1 DEF View
        <5> QED BY <1>1, <2>2, <5>2 DEF TxOK
      <4> QED BY <4>1, <4>2
    <3> QED BY <3>1, <3>2 DEF Sound, Row
  <2>3. ASSUME NEW f \in tx[q].dropped PROVE sheet'[f].live
        BY <2>1 DEF TxOK, Apart, GraphTypeOK, Transaction
  <2>4. ASSUME NEW f \in tx[q].dropped, NEW i \in RelIds, Stored(View(tx[q], rel', i))
        PROVE  View(tx[q], rel', i).source # f /\ View(tx[q], rel', i).target # f
    <3>1. CASE tx[q].rel[i] # Same
          BY <2>1, <2>4, <3>1 DEF TxOK, View
    <3>2. CASE tx[q].rel[i] = Same
      <4>1. View(tx[q], rel', i) = View(tx[p], rel, i)
            BY <3>2 DEF View
      <4>2. CASE tx[p].rel[i] = Same \/ tx[p].rel[i] = rel[i]
            BY <2>1, <2>4, <3>2, <4>1, <4>2 DEF TxOK, View
      <4>3. CASE tx[p].rel[i] # Same /\ tx[p].rel[i] # rel[i]
            BY <2>1, <2>4, <4>1, <4>3 DEF Apart, Refers, View
      <4> QED BY <4>2, <4>3
    <3> QED BY <3>1, <3>2
  <2> QED BY <2>2, <2>3, <2>4 DEF TxOK
<1>4. ASSUME NEW q \in Procs, NEW r \in Procs, q # p, r # p, q # r
      PROVE  Apart(tx[q], tx[r], rel')
  <2>1. Apart(tx[q], tx[r], rel) /\ Apart(tx[p], tx[r], rel)
        BY <1>4 DEF StoreOK
  <2>2. ASSUME NEW f \in tx[q].dropped PROVE ~Refers(tx[r], rel', f)
        BY <2>1 DEF Apart, Refers, View
  <2> QED BY <2>1, <2>2 DEF Apart
<1>5. \A q \in Procs : TxOK(tx'[q], rel', sheet')
      BY <1>3, EmptyIsApart
<1>6. \A q, r \in Procs : q # r => Apart(tx'[q], tx'[r], rel')
      BY <1>4, EmptyIsApart
<1> QED BY <1>2, <1>5, <1>6 DEF StoreOK

-----------------------------------------------------------------------------
(* Calls                                                                   *)

\* A call's own part of the invariant.
CallIs(c, op, space, f, todo) ==
    c.op = op /\ c.space = space /\ c.sheet = f /\ c.todo = todo

\* The relations around a sheet are rows.
LEMMA AroundTyped == ASSUME GraphTypeOK, NEW f PROVE Around(f) \subseteq Row
BY RowsTyped DEF Around, Existing, Committed

\* A handler that is told nothing else stays as good as it was.
LEMMA Unmoved ==
    ASSUME NEW c \in Call, NEW t, NEW l, NEW m, CallOK(c, t, l), l \subseteq m,
           NEW d \in {c, Changed(c)}
    PROVE  d \in Call /\ CallOK(d, t, m)
<1>1. d \in Call /\ d.op = c.op /\ d.at = c.at /\ d.todo = c.todo /\ d.space = c.space
      /\ d.sheet = c.sheet /\ d.made = c.made
  <2>1. CASE d = c
        BY <2>1
  <2>2. CASE d = [c EXCEPT !.quiet = FALSE]
        BY <2>2 DEF Call
  <2> QED BY <2>1, <2>2 DEF Changed
<1>2. TodoOK(d)
      BY <1>1 DEF CallOK, TodoOK, Fits, Closes
<1>3. PhaseOK(d, m)
      BY <1>1 DEF CallOK, PhaseOK
<1>4. ShapeOK(d, t)
      BY <1>1 DEF CallOK, ShapeOK
<1> QED BY <1>1, <1>2, <1>3, <1>4 DEF CallOK

\* Idle handlers are.
LEMMA IdleOK == ASSUME NEW l PROVE CallOK(Idle, Empty, l)
BY DEF CallOK, TodoOK, PhaseOK, ShapeOK, Idle, Empty

LEMMA StartOK ==
    ASSUME GraphInv, NEW p \in Procs, NEW op \in Operations \ {"none"},
           NEW space \in {SpaceOf[f] : f \in Sheets} \cup {SyncSpace}, NEW f \in Sheets,
           NEW todo \in Seq(Statement), Start(p, op, space, f, todo),
           op \notin {"ldif", "explain"} => todo # <<>>,
           \A c \in Call : CallIs(c, op, space, f, todo) => TodoOK(c)
    PROVE  GraphInv'
<1> DEFINE c == [Idle EXCEPT !.op = op, !.at = IF todo = <<>> THEN "emit" ELSE "run",
                             !.space = space, !.sheet = f, !.todo = todo,
                             !.found = IF op = "explain" THEN Around(f) ELSE {}]
<1>1. call' = [call EXCEPT ![p] = c] /\ call[p].at = "idle"
      BY DEF Start
<1>2. /\ c.op = op /\ c.space = space /\ c.sheet = f /\ c.todo = todo
      /\ c.at = IF todo = <<>> THEN "emit" ELSE "run"
      /\ c.made = {} /\ c.quiet = TRUE
      /\ c.found = IF op = "explain" THEN Around(f) ELSE {}
      BY DEF Idle
<1>3. c \in Call
  <2>1. c.found \subseteq Row
        BY <1>2, AroundTyped DEF GraphInv
  <2> DEFINE at == IF todo = <<>> THEN "emit" ELSE "run"
             found == IF op = "explain" THEN Around(f) ELSE {}
  <2>2. at \in {"emit", "run"} /\ found \subseteq Row
        BY <2>1, <1>2
  <2> HIDE DEF at, found
  <2>3. c = [Idle EXCEPT !.op = op, !.at = at, !.space = space, !.sheet = f, !.todo = todo,
                         !.found = found]
        BY DEF at, found
  <2> HIDE DEF c
  <2> QED BY <2>2, <2>3, IdleTyped DEF Call
<1>4. UNCHANGED <<sheet, rel, tx, linked, announced>> /\ calls' \in 0 .. MaxCalls /\ faults' = faults
      BY RelationAssumption DEF Start, GraphInv, GraphTypeOK
<1> HIDE DEF c
<1>5. GraphTypeOK'
      BY <1>1, <1>3, <1>4 DEF GraphInv, GraphTypeOK
<1>6. CallOK(c, tx[p], linked)
  <2>1. TodoOK(c)
        BY <1>2, <1>3 DEF CallIs
  <2>2. PhaseOK(c, linked)
        BY <1>2 DEF PhaseOK
  <2>3. ShapeOK(c, tx[p])
    <3>1. tx[p] = Empty
          BY <1>1 DEF GraphInv, CallsOK, CallOK, ShapeOK
    <3> QED BY <1>2, <3>1 DEF ShapeOK, Empty
  <2> QED BY <2>1, <2>2, <2>3 DEF CallOK
<1>7. CallsOK'
  <2>1. ASSUME NEW q \in Procs PROVE CallOK(call'[q], tx'[q], linked')
    <3>1. CASE q = p
          BY <1>1, <1>4, <1>6, <3>1 DEF GraphInv, GraphTypeOK
    <3>2. CASE q # p
          BY <1>1, <1>4, <3>2 DEF GraphInv, CallsOK
    <3> QED BY <3>1, <3>2
  <2> QED BY <2>1 DEF CallsOK
<1>8. StoreOK'
      BY <1>4, StoreReset DEF GraphInv, StoreOK
<1> QED BY <1>5, <1>7, <1>8 DEF GraphInv

LEMMA UpsertOK ==
    ASSUME GraphInv, NEW p \in Procs, NEW space \in Spaces, NEW t \in Types, NEW f \in Sheets,
           NEW g \in Sheets, UpsertRelation(p, space, t, f, g)
    PROVE  GraphInv'
<1> DEFINE todo == <<LinkStmt(t, f, g), OnSheet("touch", f)>>
<1>1. SpaceOf[t] = space /\ SpaceOf[f] = space /\ SpaceOf[g] = space
      /\ Start(p, "upsert", space, f, todo)
      BY DEF UpsertRelation, Visible
<1>2. todo \in Seq(Statement) /\ Len(todo) = 2 /\ todo # <<>>
      /\ todo[1] = LinkStmt(t, f, g) /\ todo[2] = OnSheet("touch", f)
      BY PlainStatements
<1> HIDE DEF todo
<1>3. ASSUME NEW c \in Call, CallIs(c, "upsert", space, f, todo) PROVE TodoOK(c)
  <2>1. Fits(c, todo[1])
        BY <1>1, <1>2, <1>3, PlainStatements DEF Fits, May, CallIs
  <2>2. Fits(c, todo[2])
        BY <1>2, <1>3, PlainStatements DEF Fits, May, CallIs
  <2>3. /\ c.todo = todo /\ Len(c.todo) = 2
        /\ \A k \in 1 .. 2 : k = 1 \/ k = 2
        BY <1>2, <1>3 DEF CallIs
  <2>4. \A k \in 1 .. Len(c.todo) : Fits(c, c.todo[k]) /\ (c.todo[k].do = "drop" => k = Len(c.todo))
        BY <2>3, <2>1, <2>2, <1>2, PlainStatements
  <2>5. Closes(c, c.todo[Len(c.todo)])
        BY <2>3, <1>2, <1>3, PlainStatements DEF Closes, CallIs
  <2> QED BY <2>4, <2>5 DEF TodoOK
<1> QED BY <1>1, <1>2, <1>3, StartOK DEF Operations, Spaces

LEMMA DeleteOK ==
    ASSUME GraphInv, NEW p \in Procs, NEW space \in Spaces, NEW i \in RelIds,
           DeleteRelation(p, space, i)
    PROVE  GraphInv'
<1> DEFINE s == [S("unlink") EXCEPT !.id = i, !.type = rel[i].type]
           f == rel[i].source
           todo == <<s, OnSheet("touch", f)>>
<1>1. rel[i] \in Row /\ Start(p, "delete", space, f, todo)
      BY RowsTyped DEF DeleteRelation, Committed, GraphInv
<1>2. f \in Sheets /\ s \in Statement /\ s.do = "unlink" /\ s.id = i /\ s.type \in Types
      BY <1>1 DEF S, Statement, Row
<1> HIDE DEF s, f
<1>3. todo \in Seq(Statement) /\ Len(todo) = 2 /\ todo # <<>>
      /\ todo[1] = s /\ todo[2] = OnSheet("touch", f)
      BY <1>2, PlainStatements
<1> HIDE DEF todo
<1>4. ASSUME NEW c \in Call, CallIs(c, "delete", space, f, todo) PROVE TodoOK(c)
  <2>1. Fits(c, todo[1])
        BY <1>2, <1>3, <1>4 DEF Fits, May, CallIs
  <2>2. Fits(c, todo[2])
        BY <1>2, <1>3, <1>4, PlainStatements DEF Fits, May, CallIs
  <2>3. /\ c.todo = todo /\ Len(c.todo) = 2
        /\ \A k \in 1 .. 2 : k = 1 \/ k = 2
        BY <1>3, <1>4 DEF CallIs
  <2>4. \A k \in 1 .. Len(c.todo) : Fits(c, c.todo[k]) /\ (c.todo[k].do = "drop" => k = Len(c.todo))
        BY <2>3, <2>1, <2>2, <1>2, <1>3, PlainStatements
  <2>5. Closes(c, c.todo[Len(c.todo)])
        BY <2>3, <1>2, <1>3, <1>4, PlainStatements DEF Closes, CallIs
  <2> QED BY <2>4, <2>5 DEF TodoOK
<1> QED BY <1>1, <1>2, <1>3, <1>4, StartOK DEF Operations, Spaces

LEMMA UpdateOK ==
    ASSUME GraphInv, NEW p \in Procs, NEW space \in Spaces, NEW f \in Sheets,
           NEW patches \in PatchLists, UpdateFactSheet(p, space, f, patches)
    PROVE  GraphInv'
<1> DEFINE n == Len(patches)
           put == [k \in DOMAIN patches |-> Patched(patches[k], f)]
           todo == put \o <<OnSheet("touch", f)>>
<1>1. SpaceOf[f] = space /\ Start(p, "patch", space, f, todo)
      BY DEF UpdateFactSheet, Visible
<1>2. patches \in Seq(Patch) /\ n \in Nat /\ DOMAIN patches = 1 .. n
      BY RelationAssumption
<1>3. ASSUME NEW k \in 1 .. n
      PROVE  /\ put[k] \in Statement /\ put[k].do \in {"link", "unlink", "move"}
             /\ put[k].do = "link" => put[k].source = f /\ put[k].type \in Types /\ put[k].target \in Sheets
             /\ put[k].do \in {"unlink", "move"} => put[k].id \in RelIds /\ put[k].type \in Types
             /\ put[k].do = "move" => put[k].target \in Sheets
  <2>1. patches[k] \in Patch /\ put[k] = Patched(patches[k], f)
        BY <1>2
  <2>2. CASE patches[k].do = "link"
        BY <2>1, <2>2 DEF Patch, Patched, Statement
  <2>3. CASE patches[k].do # "link"
        BY <2>1, <2>3 DEF Patch, Patched, Statement
  <2> QED BY <2>2, <2>3
<1>4. put \in Seq(Statement) /\ Len(put) = n
      BY <1>2, <1>3
<1> HIDE DEF put
<1>5. /\ todo \in Seq(Statement) /\ Len(todo) = n + 1 /\ todo # <<>>
      /\ todo[n + 1] = OnSheet("touch", f)
      /\ \A k \in 1 .. n : todo[k] = put[k]
  <2>1. <<OnSheet("touch", f)>> \in Seq(Statement)
        BY PlainStatements
  <2> QED BY <1>2, <1>4, <2>1, ConcatProperties
<1> HIDE DEF todo, n
<1>6. ASSUME NEW c \in Call, CallIs(c, "patch", space, f, todo) PROVE TodoOK(c)
  <2>1. ASSUME NEW k \in 1 .. n PROVE Fits(c, todo[k]) /\ todo[k].do # "drop"
        BY <1>1, <1>2, <1>3, <1>5, <1>6 DEF Fits, May, CallIs
  <2>2. Fits(c, todo[n + 1])
        BY <1>5, <1>6, PlainStatements DEF Fits, May, CallIs
  <2>3. \A k \in 1 .. Len(c.todo) : Fits(c, c.todo[k]) /\ (c.todo[k].do = "drop" => k = n + 1)
        BY <1>2, <1>5, <1>6, <2>1, <2>2 DEF CallIs
  <2>4. Closes(c, c.todo[Len(c.todo)])
        BY <1>5, <1>6, PlainStatements DEF Closes, CallIs
  <2> QED BY <1>5, <1>6, <2>3, <2>4 DEF TodoOK, CallIs
<1> QED BY <1>1, <1>5, <1>6, StartOK DEF Operations, Spaces

LEMMA LdifOK ==
    ASSUME GraphInv, NEW p \in Procs, NEW t \in Types, NEW f \in Sheets,
           NEW targets \in TargetLists, NEW full \in BOOLEAN,
           ProcessRelations(p, t, f, targets, full)
    PROVE  GraphInv'
<1> DEFINE n == Len(targets)
           put == [k \in DOMAIN targets |-> LinkStmt(t, f, targets[k])]
           keep == [OnSheet("keepOnly", f) EXCEPT !.type = t, !.targets = Range(targets)]
           rest == IF full THEN <<keep>> ELSE <<>>
           todo == put \o rest
<1>1. SpaceOf[t] = SyncSpace /\ SpaceOf[f] = SyncSpace
      /\ (\A g \in Range(targets) : SpaceOf[g] = SyncSpace)
      /\ Start(p, "ldif", SyncSpace, f, todo)
      BY DEF ProcessRelations
<1>2. targets \in Seq(Sheets) /\ n \in Nat /\ DOMAIN targets = 1 .. n
      BY RelationAssumption
<1>3. Range(targets) \subseteq Sheets /\ \A k \in 1 .. n : targets[k] \in Range(targets)
      BY <1>2 DEF Range
<1>4. keep \in Statement /\ keep.do = "keepOnly" /\ keep.source = f
      BY <1>3 DEF OnSheet, S, Statement
<1>5. ASSUME NEW k \in 1 .. n
      PROVE  /\ put[k] \in Statement /\ put[k].do = "link" /\ put[k].type = t
             /\ put[k].source = f /\ put[k].target \in Sheets /\ SpaceOf[put[k].target] = SyncSpace
      BY <1>1, <1>2, <1>3, PlainStatements
<1>6. put \in Seq(Statement) /\ Len(put) = n
      BY <1>2, <1>5
<1> HIDE DEF put, keep
<1>7. rest \in Seq(Statement) /\ Len(rest) \in {0, 1} /\ (Len(rest) = 1 => rest[1] = keep)
      BY <1>4
<1> HIDE DEF rest
<1>8. /\ todo \in Seq(Statement) /\ Len(todo) = n + Len(rest)
      /\ \A k \in 1 .. Len(todo) : IF k <= n THEN todo[k] = put[k] ELSE todo[k] = keep
  <2>1. /\ todo \in Seq(Statement) /\ Len(todo) = n + Len(rest)
        /\ \A k \in 1 .. n + Len(rest) : todo[k] = IF k <= n THEN put[k] ELSE rest[k - n]
        BY <1>6, <1>7, ConcatProperties
  <2> QED BY <1>2, <1>7, <2>1
<1> HIDE DEF todo, n
<1>9. ASSUME NEW c \in Call, CallIs(c, "ldif", SyncSpace, f, todo) PROVE TodoOK(c)
  <2>1. ASSUME NEW k \in 1 .. Len(todo) PROVE Fits(c, todo[k]) /\ todo[k].do # "drop"
    <3>1. CASE k <= n
      <4>1. k \in 1 .. n /\ todo[k] = put[k]
            BY <1>2, <1>8, <3>1
      <4> QED BY <1>1, <1>5, <1>9, <4>1 DEF Fits, May, CallIs
    <3>2. CASE ~(k <= n)
          BY <1>4, <1>8, <1>9, <3>2 DEF Fits, May, CallIs
    <3> QED BY <3>1, <3>2
  <2> QED BY <1>9, <2>1 DEF TodoOK, Closes, CallIs
<1> QED BY <1>1, <1>8, <1>9, StartOK DEF Operations

LEMMA RemoveOK ==
    ASSUME GraphInv, NEW p \in Procs, NEW space \in Spaces, NEW f \in Sheets,
           PermanentDelete(p, space, f)
    PROVE  GraphInv'
<1> DEFINE todo == <<OnSheet("unlinkAll", f), OnSheet("drop", f)>>
<1>1. Start(p, "remove", space, f, todo)
      BY DEF PermanentDelete
<1>2. todo \in Seq(Statement) /\ Len(todo) = 2 /\ todo # <<>>
      /\ todo[1] = OnSheet("unlinkAll", f) /\ todo[2] = OnSheet("drop", f)
      BY PlainStatements
<1> HIDE DEF todo
<1>3. ASSUME NEW c \in Call, CallIs(c, "remove", space, f, todo) PROVE TodoOK(c)
  <2>1. Fits(c, todo[1]) /\ Fits(c, todo[2])
        BY <1>2, <1>3, PlainStatements DEF Fits, May, CallIs
  <2>3. /\ c.todo = todo /\ Len(c.todo) = 2
        /\ \A k \in 1 .. 2 : k = 1 \/ k = 2
        BY <1>2, <1>3 DEF CallIs
  <2>4. \A k \in 1 .. Len(c.todo) : Fits(c, c.todo[k]) /\ (c.todo[k].do = "drop" => k = Len(c.todo))
        BY <2>3, <2>1, <1>2, PlainStatements
  <2>5. Closes(c, c.todo[Len(c.todo)])
        BY <2>3, <1>2, <1>3, PlainStatements DEF Closes, CallIs
  <2> QED BY <2>4, <2>5 DEF TodoOK
<1> QED BY <1>1, <1>2, <1>3, StartOK DEF Operations, Spaces

\* A sheet has finitely many neighbours to visit.
LEMMA VisitsFinite ==
    ASSUME NEW f PROVE IsFiniteSet({OnSheet("visit", g) : g \in Neighbours(f)})
<1> DEFINE visits == {OnSheet("visit", g) : g \in Neighbours(f)}
<1>1. IsFiniteSet({j \in RelIds : Committed(j)})
      BY RelationAssumption, FS_Subset
<1>2. IsFiniteSet(Existing)
  <2> DEFINE h == [j \in {k \in RelIds : Committed(k)} |-> rel[j]]
  <2>1. IsFiniteSet({h[j] : j \in {k \in RelIds : Committed(k)}})
        BY <1>1, FiniteImage
  <2>2. Existing = {h[j] : j \in {k \in RelIds : Committed(k)}}
        BY DEF Existing
  <2> QED BY <2>1, <2>2
<1>3. Around(f) \subseteq Existing
      BY DEF Around
<1>4. IsFiniteSet(Around(f))
      BY <1>2, <1>3, FS_Subset
<1>5. IsFiniteSet({Other(row, f) : row \in Around(f)})
  <2> DEFINE h == [row \in Around(f) |-> Other(row, f)]
  <2>1. IsFiniteSet({h[row] : row \in Around(f)})
        BY <1>4, FiniteImage
  <2>2. {Other(row, f) : row \in Around(f)} = {h[row] : row \in Around(f)}
        OBVIOUS
  <2> QED BY <2>1, <2>2
<1>6. IsFiniteSet(Neighbours(f))
  <2>1. Neighbours(f) \subseteq {Other(row, f) : row \in Around(f)}
        BY DEF Neighbours
  <2> QED BY <1>5, <2>1, FS_Subset
<1>7. IsFiniteSet(visits)
  <2> DEFINE h == [g \in Neighbours(f) |-> OnSheet("visit", g)]
  <2>1. IsFiniteSet({h[g] : g \in Neighbours(f)})
        BY <1>6, FiniteImage
  <2>2. visits = {h[g] : g \in Neighbours(f)}
        OBVIOUS
  <2> QED BY <2>1, <2>2
<1> QED BY <1>7

LEMMA ExplainOK ==
    ASSUME GraphInv, NEW p \in Procs, NEW space \in Spaces, NEW f \in Sheets, Explain(p, space, f)
    PROVE  GraphInv'
<1> DEFINE visits == {OnSheet("visit", g) : g \in Neighbours(f)}
           todo == SetToSeq(visits)
<1>1. Start(p, "explain", space, f, todo)
      BY DEF Explain
<1>2. Neighbours(f) \subseteq Sheets
      BY AroundTyped DEF GraphInv, Neighbours, Other, Row
<1>3. IsFiniteSet(visits)
      BY VisitsFinite
<1>4. \A s \in visits : s \in Statement /\ s.do = "visit" /\ s.source \in Sheets
      BY <1>2, PlainStatements
<1> HIDE DEF visits
<1>5. todo \in Seq(visits)
      BY <1>3, SetToSeqTyped
<1> HIDE DEF todo
<1>6. todo \in Seq(Statement)
      BY <1>4, <1>5, SeqMonotonic
<1>7. ASSUME NEW c \in Call, CallIs(c, "explain", space, f, todo) PROVE TodoOK(c)
  <2>1. ASSUME NEW k \in 1 .. Len(todo) PROVE Fits(c, todo[k]) /\ todo[k].do # "drop"
    <3>1. todo[k] \in visits
          BY <1>5
    <3> QED BY <1>4, <1>7, <3>1 DEF Fits, May, CallIs
  <2> QED BY <1>7, <2>1 DEF TodoOK, Closes, CallIs
<1> QED BY <1>1, <1>6, <1>7, StartOK DEF Operations, Spaces

LEMMA CallsKeepInv == ASSUME GraphInv, NEW p \in Procs, GraphCalls(p) PROVE GraphInv'
BY RelationAssumption, UpsertOK, DeleteOK, UpdateOK, LdifOK, RemoveOK, ExplainOK DEF GraphCalls

-----------------------------------------------------------------------------
(* Statements                                                              *)

\* One handler goes on; the others at most learn that something was committed.
LEMMA CallStep ==
    ASSUME GraphTypeOK, CallsOK, NEW p \in Procs, NEW d \in Call,
           DOMAIN call' = Procs, call' = [q \in Procs |-> call'[q]],
           call'[p] = d, CallOK(d, tx'[p], linked'), linked \subseteq linked',
           \A q \in Procs \ {p} : call'[q] \in {call[q], Changed(call[q])} /\ tx'[q] = tx[q]
    PROVE  call' \in [Procs -> Call] /\ CallsOK'
<1>1. ASSUME NEW q \in Procs PROVE call'[q] \in Call /\ CallOK(call'[q], tx'[q], linked')
  <2>1. CASE q = p
        BY <2>1
  <2>2. CASE q # p
    <3>1. call[q] \in Call /\ CallOK(call[q], tx[q], linked)
          BY DEF GraphTypeOK, CallsOK
    <3>2. call'[q] \in {call[q], Changed(call[q])} /\ tx'[q] = tx[q]
          BY <2>2
    <3> QED BY <3>1, <3>2, Unmoved
  <2> QED BY <2>1, <2>2
<1> QED BY <1>1 DEF CallsOK

\* The first statement of a list, and what is left of a list without it.
LEMMA FirstStatement ==
    ASSUME GraphTypeOK, CallsOK, NEW p \in Procs, HasStatement(p)
    PROVE  /\ call[p] \in Call /\ tx[p] \in Transaction
           /\ call[p].at = "run" /\ call[p].todo \in Seq(Statement) /\ call[p].todo # <<>>
           /\ Stmt(p) \in Statement /\ Fits(call[p], Stmt(p))
           /\ Stmt(p).do = "drop" => Len(call[p].todo) = 1
           /\ Len(call[p].todo) = 1 => Closes(call[p], Stmt(p))
           /\ tx[p].dropped = {}
           /\ call[p].op # "none"
           /\ \A d \in Call :
                 CallIs(d, call[p].op, call[p].space, call[p].sheet, Tail(call[p].todo)) => TodoOK(d)
           /\ Tail(call[p].todo) \in Seq(Statement)
           /\ Tail(call[p].todo) = <<>> <=> Len(call[p].todo) = 1
<1> DEFINE c == call[p]
           s == c.todo
<1>1. c \in Call /\ tx[p] \in Transaction /\ CallOK(c, tx[p], linked) /\ c.at = "run" /\ s # <<>>
      BY DEF GraphTypeOK, CallsOK, HasStatement
<1>2. s \in Seq(Statement)
      BY <1>1 DEF Call
<1>3. TodoOK(c) /\ ShapeOK(c, tx[p])
      BY <1>1 DEF CallOK
<1>4. /\ Len(s) \in Nat /\ Len(s) >= 1
      /\ Head(s) = s[1] /\ s[1] \in Statement
      /\ Tail(s) \in Seq(Statement)
      /\ Len(Tail(s)) = Len(s) - 1
      /\ \A k \in 1 .. Len(s) - 1 : Tail(s)[k] = s[k + 1]
      /\ Tail(s) = <<>> <=> Len(s) = 1
      BY <1>1, <1>2, HeadAndTail
<1>5. Stmt(p) = s[1]
      BY <1>4 DEF Stmt
<1>6. Fits(c, s[1]) /\ (s[1].do = "drop" => Len(s) = 1) /\ (Len(s) = 1 => Closes(c, s[1]))
      BY <1>1, <1>3, <1>4 DEF TodoOK
<1>7. c.op # "none"
      BY <1>6 DEF Fits, May
<1>8. tx[p].dropped = {}
      BY <1>1, <1>3 DEF ShapeOK
<1>9. ASSUME NEW d \in Call, CallIs(d, c.op, c.space, c.sheet, Tail(s)) PROVE TodoOK(d)
  <2>1. d.todo = Tail(s) /\ Len(d.todo) = Len(s) - 1
        BY <1>4, <1>9 DEF CallIs
  <2>2. ASSUME NEW k \in 1 .. Len(d.todo)
        PROVE  Fits(d, d.todo[k]) /\ (d.todo[k].do = "drop" => k = Len(d.todo))
    <3>1. k + 1 \in 1 .. Len(s) /\ d.todo[k] = s[k + 1]
          BY <1>4, <2>1
    <3>2. Fits(c, s[k + 1]) /\ (s[k + 1].do = "drop" => k + 1 = Len(s))
          BY <1>3, <3>1 DEF TodoOK
    <3>3. Fits(d, d.todo[k])
          BY <1>9, <3>1, <3>2 DEF Fits, CallIs
    <3>4. d.todo[k].do = "drop" => k = Len(d.todo)
          BY <1>4, <2>1, <3>1, <3>2
    <3> QED BY <3>3, <3>4
  <2>3. ASSUME d.todo # <<>> PROVE Closes(d, d.todo[Len(d.todo)])
    <3>1. Len(s) - 1 >= 1 /\ d.todo[Len(d.todo)] = s[Len(s)]
          BY <1>4, <2>1, <2>3
    <3>2. Closes(c, s[Len(s)])
          BY <1>1, <1>3 DEF TodoOK
    <3> QED BY <1>9, <3>1, <3>2 DEF Closes, CallIs
  <2> QED BY <2>2, <2>3 DEF TodoOK
<1> QED BY <1>1, <1>2, <1>4, <1>5, <1>6, <1>7, <1>8, <1>9

\* A transaction goes on to its next statement, or commits after its last.
LEMMA AdvanceOK ==
    ASSUME GraphTypeOK, CallsOK, NEW p \in Procs, HasStatement(p),
           call[p].op \notin {"ldif", "explain"}, NEW made \in SUBSET Row, Advance(p, made),
           linked' = linked, NEW t, tx'[p] = t,
           \A q \in Procs \ {p} : tx'[q] = tx[q],
           Len(call[p].todo) = 1 =>
              call[p].sheet \in IF call[p].op = "remove" THEN t.dropped ELSE t.touched,
           t.dropped # {} => Len(call[p].todo) = 1
    PROVE  call' \in [Procs -> Call] /\ CallsOK'
<1> DEFINE c == call[p]
           d == [c EXCEPT !.todo = Tail(@), !.made = @ \cup made,
                          !.at = IF Len(c.todo) = 1 THEN "commit" ELSE "run"]
<1>1. call' = [call EXCEPT ![p] = d] /\ call \in [Procs -> Call]
      BY DEF Advance, GraphTypeOK
<1>2. c \in Call /\ Tail(c.todo) \in Seq(Statement) /\ c.op # "none"
      /\ (Tail(c.todo) = <<>> <=> Len(c.todo) = 1)
      BY FirstStatement
<1>3. /\ d.op = c.op /\ d.space = c.space /\ d.sheet = c.sheet /\ d.todo = Tail(c.todo)
      /\ d.at = IF Len(c.todo) = 1 THEN "commit" ELSE "run"
      BY <1>2 DEF Call
<1>4. d \in Call
      BY <1>2 DEF Call
<1> HIDE DEF d
<1>5. TodoOK(d)
      BY <1>3, <1>4, FirstStatement DEF CallIs
<1>6. PhaseOK(d, linked)
      BY <1>2, <1>3 DEF PhaseOK
<1>7. ShapeOK(d, t)
      BY <1>3 DEF ShapeOK
<1>8. call'[p] = d /\ CallOK(d, tx'[p], linked') /\ DOMAIN call' = Procs
      /\ call' = [q \in Procs |-> call'[q]] /\ \A q \in Procs \ {p} : call'[q] = call[q]
      BY <1>1, <1>5, <1>6, <1>7 DEF CallOK
<1> QED BY <1>4, <1>8, CallStep

\* Nobody is in the way.
LEMMA NoConflict ==
    ASSUME NEW p \in Procs, HasStatement(p), Blockers(p) = {}
    PROVE  \A q \in Procs \ {p} : ~Conflict(p, q, Stmt(p))
BY DEF Blockers

LEMMA Conflicts ==
    ASSUME NEW p, NEW q, NEW s
    PROVE  /\ s.do = "link" => (Conflict(p, q, s) <=> HoldsKey(q, RowOf(s)))
           /\ s.do = "unlink" => (Conflict(p, q, s) <=> s.id \in Written(q))
           /\ s.do = "move" => (Conflict(p, q, s) <=>
                 s.id \in Written(q) \/ (Stored(Seen(p, s.id)) /\ HoldsKey(q, MovedRow(p, s))))
           /\ s.do = "unlinkAll" => (Conflict(p, q, s) <=>
                 \E i \in Written(q) : Committed(i) /\ s.source \in Ends(rel[i]))
           /\ s.do = "drop" => (Conflict(p, q, s) <=>
                 s.source \in tx[q].touched \cup tx[q].dropped \cup Shared(q))
           /\ s.do = "keepOnly" => (Conflict(p, q, s) <=>
                 \E i \in Written(q) : Committed(i) /\ rel[i].type = s.type /\ rel[i].source = s.source)
BY DEF Conflict

\* One row is written within a transaction.
LEMMA WriteInTransaction ==
    ASSUME GraphInv, NEW p \in Procs, HasStatement(p), call[p].op # "ldif",
           Stmt(p).do \in {"link", "unlink", "move"},
           NEW i \in RelIds, NEW row \in Rows, NEW made \in SUBSET Row, Write(p, i, row, made),
           UNCHANGED <<sheet, announced, calls, faults>>,
           \A q \in Procs \ {p} : tx[q].rel[i] = Same,
           \/ row = tx[p].rel[i]
           \/ ~Stored(row)
           \/ /\ Sound(row, sheet)
              /\ \/ row = rel[i]
                 \/ \A q \in Procs \ {p} : {row.source, row.target} \cap tx[q].dropped = {}
    PROVE  GraphInv'
<1> DEFINE t == [tx[p] EXCEPT !.rel[i] = row]
<1> USE DEF GraphInv
<1>1. tx' = [tx EXCEPT ![p] = t] /\ Advance(p, made) /\ UNCHANGED <<rel, linked>>
      BY DEF Write, InTx, GraphTypeOK
<1>2. tx[p] \in Transaction /\ tx[p].dropped = {} /\ Fits(call[p], Stmt(p))
      /\ (Len(call[p].todo) = 1 => Closes(call[p], Stmt(p)))
      BY FirstStatement
<1>3. t \in Transaction
      BY <1>2 DEF Transaction
<1>4. /\ t.dropped = {} /\ t.rel[i] = row
      /\ \A j \in RelIds : j # i => t.rel[j] = tx[p].rel[j]
      BY <1>2 DEF Transaction
<1> HIDE DEF t
<1>5. tx'[p] = t /\ (\A q \in Procs \ {p} : tx'[q] = tx[q]) /\ tx' \in [Procs -> Transaction]
      BY <1>1, <1>3 DEF GraphTypeOK
<1>6. call[p].op \in {"upsert", "delete", "patch"}
      BY <1>2 DEF Fits, May
<1>7. Len(call[p].todo) # 1
      BY <1>2, <1>6 DEF Closes
<1>8. call' \in [Procs -> Call] /\ CallsOK'
      BY <1>1, <1>4, <1>5, <1>6, <1>7, AdvanceOK
<1>9. Writes(p, t)
      BY <1>4 DEF Writes
<1>10. StoreOK'
      BY <1>1, <1>5, <1>9, StoreWrites
<1>11. GraphTypeOK'
      BY <1>1, <1>5, <1>8 DEF GraphTypeOK
<1> QED BY <1>8, <1>10, <1>11

\* One row is written by an LDIF run.
LEMMA WriteWithout ==
    ASSUME GraphInv, NEW p \in Procs, HasStatement(p), call[p].op = "ldif",
           NEW i \in RelIds, NEW row \in Row, NEW made \in SUBSET Row, Write(p, i, row, made),
           UNCHANGED <<sheet, announced, calls, faults>>,
           \/ row = rel[i]
           \/ /\ \A q \in Procs \ {p} : tx[q].rel[i] = Same
              /\ Sound(row, sheet)
              /\ \A q \in Procs \ {p} : {row.source, row.target} \cap tx[q].dropped = {}
    PROVE  GraphInv'
<1> DEFINE c == call[p]
           d == [c EXCEPT !.todo = Tail(@), !.made = @ \cup made, !.at = "emit"]
           r == [rel EXCEPT ![i] = row]
<1> USE DEF GraphInv
<1>1. /\ rel' = r /\ linked' = linked \cup made /\ UNCHANGED tx
      /\ call' = [q \in Procs |-> IF q = p THEN d ELSE Changed(call[q])]
      BY DEF Write, InTx
<1>2. c \in Call /\ Tail(c.todo) \in Seq(Statement) /\ CallOK(c, tx[p], linked)
      BY FirstStatement DEF CallsOK
<1>3. /\ d.op = "ldif" /\ d.space = c.space /\ d.sheet = c.sheet /\ d.todo = Tail(c.todo)
      /\ d.at = "emit" /\ d.made = c.made \cup made
      BY <1>2 DEF Call
<1>4. d \in Call
      BY <1>2 DEF Call
<1> HIDE DEF d
<1>5. tx[p] = Empty
      BY <1>2 DEF CallOK, ShapeOK
<1>6. CallOK(d, tx[p], linked')
  <2>1. TodoOK(d)
        BY <1>3, <1>4, FirstStatement DEF CallIs
  <2>2. PhaseOK(d, linked')
        BY <1>1, <1>2, <1>3 DEF PhaseOK, CallOK
  <2>3. ShapeOK(d, tx[p])
        BY <1>3, <1>5 DEF ShapeOK, Empty
  <2> QED BY <2>1, <2>2, <2>3 DEF CallOK
<1>7. call' \in [Procs -> Call] /\ CallsOK'
  <2>1. call'[p] = d /\ DOMAIN call' = Procs /\ call' = [q \in Procs |-> call'[q]]
        /\ \A q \in Procs \ {p} : call'[q] = Changed(call[q]) /\ tx'[q] = tx[q]
        BY <1>1
  <2> QED BY <1>1, <1>4, <1>6, <2>1, CallStep
<1>8. WritesAtOnce(r)
  <2>1. \A j \in RelIds : r[j] = IF j = i THEN row ELSE rel[j]
        BY DEF GraphTypeOK
  <2>2. tx[p].rel[i] = Same /\ tx[p].dropped = {}
        BY <1>5 DEF Empty
  <2> QED BY <2>1, <2>2 DEF WritesAtOnce
<1>9. StoreOK'
  <2> HIDE DEF r
  <2> QED BY <1>1, <1>8, StoreAtOnce
<1>10. GraphTypeOK'
      BY <1>1, <1>7 DEF GraphTypeOK, Rows
<1> QED BY <1>7, <1>9, <1>10

\* The rows a handler sees are sound.
LEMMA SeenSound ==
    ASSUME GraphInv, NEW p \in Procs, NEW i \in RelIds, Stored(Seen(p, i))
    PROVE  Seen(p, i) \in Row /\ Sound(Seen(p, i), sheet)
<1>1. Seen(p, i) = View(tx[p], rel, i)
      BY TransactionTerms
<1> QED BY <1>1, RowsTyped DEF GraphInv, StoreOK, TxOK, View

\* A row that another transaction has written is not written.
LEMMA RowsApart ==
    ASSUME GraphInv, NEW p \in Procs, NEW q \in Procs, p # q, NEW i \in RelIds
    PROVE  tx[p].rel[i] = Same \/ tx[q].rel[i] = Same
BY DEF GraphInv, StoreOK, Apart

LEMMA LinkOK == ASSUME GraphInv, NEW p \in Procs, Link(p) PROVE GraphInv'
<1> DEFINE s == Stmt(p)
           row == RowOf(s)
<1>1. /\ HasStatement(p) /\ s.do = "link" /\ Blockers(p) = {} /\ Linkable(p, s)
      /\ UNCHANGED <<sheet, announced, calls, faults>>
      BY DEF Link, Runs
<1>2. Fits(call[p], s)
      BY <1>1, FirstStatement DEF GraphInv
<1>3. /\ row \in Row /\ row.type = s.type /\ row.source = s.source /\ row.target = s.target
      BY <1>1, <1>2 DEF Fits, Row, RowOf
<1>4. Sound(row, sheet)
      BY <1>1, <1>2, <1>3 DEF Fits, Linkable, Sound
<1>5. \A q \in Procs \ {p} : ~HoldsKey(q, row)
      BY <1>1, NoConflict, Conflicts
<1> HIDE DEF row, s
<1>6. \A q \in Procs \ {p} :
          /\ \A i \in RelIds : tx[q].rel[i] # Same => row # tx[q].rel[i] /\ row # rel[i]
          /\ {row.source, row.target} \cap tx[q].dropped = {}
      BY <1>5, TransactionTerms DEF HoldsKey, Ends
<1>7. ASSUME NEW i \in RelIds, Write(p, i, row, {row}),
             row = tx[p].rel[i] \/ \A q \in Procs \ {p} : tx[q].rel[i] = Same,
             row = tx[p].rel[i] => tx[p].rel[i] # Same
      PROVE  GraphInv'
  <2>1. \A q \in Procs \ {p} : tx[q].rel[i] = Same
        BY <1>7, RowsApart
  <2>2. row \in Rows /\ {row} \in SUBSET Row
        BY <1>3 DEF Rows
  <2>3. CASE call[p].op = "ldif"
        BY <1>1, <1>3, <1>4, <1>6, <1>7, <2>1, <2>2, <2>3, WriteWithout
  <2>4. CASE call[p].op # "ldif"
        BY <1>1, <1>4, <1>6, <1>7, <2>1, <2>2, <2>4, WriteInTransaction DEF s
  <2> QED BY <2>3, <2>4
<1>8. row # Same
      BY <1>3, RelationAssumption
<1>9. ASSUME NEW i \in RelIds, Seen(p, i) = row, Write(p, i, row, {row}) PROVE GraphInv'
  <2>1. View(tx[p], rel, i) = row
        BY <1>9, TransactionTerms
  <2>2. CASE tx[p].rel[i] # Same
        BY <1>7, <1>9, <2>1, <2>2 DEF View
  <2>3. CASE tx[p].rel[i] = Same
        BY <1>6, <1>7, <1>8, <1>9, <2>1, <2>3 DEF View
  <2> QED BY <2>2, <2>3
<1>10. ASSUME Unused # {}, Write(p, NewId, row, {row}) PROVE GraphInv'
  <2>1. NewId \in Unused
        BY <1>10 DEF NewId
  <2>2. NewId \in RelIds /\ \A q \in Procs : tx[q].rel[NewId] = Same
        BY <2>1, TransactionTerms DEF Unused
  <2> QED BY <1>7, <1>8, <1>10, <2>2
<1> QED BY <1>9, <1>10 DEF Link, row, s

LEMMA UnlinkOK == ASSUME GraphInv, NEW p \in Procs, Unlink(p) PROVE GraphInv'
<1> DEFINE s == Stmt(p)
<1>1. /\ HasStatement(p) /\ s.do = "unlink" /\ Blockers(p) = {}
      /\ Write(p, s.id, Deleted, {})
      /\ UNCHANGED <<sheet, announced, calls, faults>>
      BY DEF Unlink, Runs
<1>2. s.id \in RelIds /\ call[p].op # "ldif"
      BY <1>1, FirstStatement DEF GraphInv, Fits, May
<1>3. \A q \in Procs \ {p} : tx[q].rel[s.id] = Same
      BY <1>1, <1>2, NoConflict, Conflicts, TransactionTerms
<1>4. Deleted \in Rows /\ ~Stored(Deleted)
      BY DEF Rows, Stored
<1> HIDE DEF s
<1> QED BY <1>1, <1>2, <1>3, <1>4, WriteInTransaction DEF s

LEMMA MoveOK == ASSUME GraphInv, NEW p \in Procs, Move(p) PROVE GraphInv'
<1> DEFINE s == Stmt(p)
           row == MovedRow(p, s)
           old == Seen(p, s.id)
<1>1. /\ HasStatement(p) /\ s.do = "move" /\ Blockers(p) = {} /\ Movable(p, s)
      /\ Write(p, s.id, row, {})
      /\ UNCHANGED <<sheet, announced, calls, faults>>
      BY DEF Move, Runs
<1>2. s.id \in RelIds /\ s.target \in Sheets /\ call[p].op = "patch"
      BY <1>1, FirstStatement DEF GraphInv, Fits, May
<1>3. /\ Stored(old) /\ old.type = s.type /\ SpaceOf[s.type] = call[p].space
      /\ sheet[s.target].live /\ SpaceOf[s.target] = call[p].space
      BY <1>1, <1>2 DEF Movable, Addressed, Visible
<1>4. old \in Row /\ Sound(old, sheet)
      BY <1>2, <1>3, SeenSound
<1>5. row \in Row /\ row.type = old.type /\ row.source = old.source /\ row.target = s.target
      BY <1>2, <1>4 DEF MovedRow, Row
<1>6. Sound(row, sheet)
      BY <1>3, <1>4, <1>5 DEF Sound
<1>7. \A q \in Procs \ {p} : s.id \notin Written(q) /\ ~HoldsKey(q, row)
      BY <1>1, <1>3, NoConflict, Conflicts
<1> HIDE DEF row, old, s
<1>8. \A q \in Procs \ {p} :
          tx[q].rel[s.id] = Same /\ {row.source, row.target} \cap tx[q].dropped = {}
      BY <1>2, <1>7, TransactionTerms DEF HoldsKey, Ends
<1>9. row \in Rows
      BY <1>5 DEF Rows
<1> QED BY <1>1, <1>2, <1>6, <1>8, <1>9, WriteInTransaction DEF s

LEMMA TouchOK == ASSUME GraphInv, NEW p \in Procs, Touch(p) PROVE GraphInv'
<1> DEFINE s == Stmt(p)
           t == [tx[p] EXCEPT !.touched = @ \cup {s.source}]
<1> USE DEF GraphInv
<1>1. /\ HasStatement(p) /\ s.do = "touch" /\ tx' = [tx EXCEPT ![p] = t] /\ Advance(p, {})
      /\ UNCHANGED <<sheet, rel, linked, announced, calls, faults>>
      BY DEF Touch, Runs, GraphTypeOK
<1>2. /\ s.source \in Sheets /\ call[p].op \in {"upsert", "delete", "patch"}
      /\ tx[p] \in Transaction /\ tx[p].dropped = {}
      /\ (Len(call[p].todo) = 1 => s.source = call[p].sheet)
      BY <1>1, FirstStatement DEF Fits, May, Closes
<1>3. t \in Transaction /\ t.dropped = {} /\ t.touched = tx[p].touched \cup {s.source} /\ t.rel = tx[p].rel
      BY <1>2 DEF Transaction
<1> HIDE DEF t, s
<1>4. tx'[p] = t /\ (\A q \in Procs \ {p} : tx'[q] = tx[q]) /\ tx' \in [Procs -> Transaction]
      BY <1>1, <1>3 DEF GraphTypeOK
<1>5. call' \in [Procs -> Call] /\ CallsOK'
      BY <1>1, <1>2, <1>3, <1>4, AdvanceOK
<1>6. Writes(p, t)
      BY <1>3 DEF Writes
<1> QED BY <1>1, <1>4, <1>5, <1>6, StoreWrites DEF GraphTypeOK

LEMMA UnlinkAllOK == ASSUME GraphInv, NEW p \in Procs, UnlinkAll(p) PROVE GraphInv'
<1> DEFINE s == Stmt(p)
           gone(i) == Committed(i) /\ s.source \in Ends(rel[i])
           rows == [i \in RelIds |-> IF gone(i) THEN Deleted ELSE tx[p].rel[i]]
           t == [tx[p] EXCEPT !.rel = rows]
<1> USE DEF GraphInv
<1>1. /\ HasStatement(p) /\ s.do = "unlinkAll" /\ Blockers(p) = {} /\ tx' = [tx EXCEPT ![p] = t]
      /\ Advance(p, {})
      /\ UNCHANGED <<sheet, rel, linked, announced, calls, faults>>
      BY DEF UnlinkAll, Runs, GraphTypeOK
<1>2. /\ call[p].op = "remove" /\ tx[p] \in Transaction /\ tx[p].dropped = {}
      /\ Len(call[p].todo) # 1
      BY <1>1, FirstStatement DEF Fits, May, Closes
<1>3. rows \in [RelIds -> Rows \cup {Same}]
      BY <1>2 DEF Rows, Transaction
<1>4. t \in Transaction /\ t.dropped = {} /\ t.rel = rows
  <2> HIDE DEF rows
  <2> QED BY <1>2, <1>3 DEF Transaction
<1>5. \A q \in Procs \ {p} : \A i \in RelIds : gone(i) => tx[q].rel[i] = Same
      BY <1>1, NoConflict, Conflicts, TransactionTerms
<1>6. Writes(p, t)
  <2> HIDE DEF t
  <2>1. \A i \in RelIds : t.rel[i] = tx[p].rel[i] \/ (gone(i) /\ t.rel[i] = Deleted)
        BY <1>4
  <2> HIDE DEF gone, s, rows
  <2> QED BY <1>4, <1>5, <2>1 DEF Writes, Stored
<1> HIDE DEF t, s, rows, gone
<1>7. tx'[p] = t /\ (\A q \in Procs \ {p} : tx'[q] = tx[q]) /\ tx' \in [Procs -> Transaction]
      BY <1>1, <1>4 DEF GraphTypeOK
<1>8. call' \in [Procs -> Call] /\ CallsOK'
      BY <1>1, <1>2, <1>4, <1>7, AdvanceOK
<1> QED BY <1>1, <1>6, <1>7, <1>8, StoreWrites DEF GraphTypeOK

LEMMA DropOK == ASSUME GraphInv, NEW p \in Procs, Drop(p) PROVE GraphInv'
<1> DEFINE s == Stmt(p)
           f == s.source
           t == [tx[p] EXCEPT !.dropped = @ \cup {f}]
<1> USE DEF GraphInv
<1>1. /\ HasStatement(p) /\ s.do = "drop" /\ Blockers(p) = {} /\ tx' = [tx EXCEPT ![p] = t]
      /\ Advance(p, {}) /\ sheet[f].live /\ ~Referenced(p, f)
      /\ UNCHANGED <<sheet, rel, linked, announced, calls, faults>>
      BY DEF Drop, Runs, GraphTypeOK
<1>2. /\ call[p].op = "remove" /\ tx[p] \in Transaction /\ tx[p].dropped = {} /\ f \in Sheets
      /\ Len(call[p].todo) = 1 /\ f = call[p].sheet
      BY <1>1, FirstStatement DEF Fits, May, Closes
<1>3. t \in Transaction /\ t.dropped = {f} /\ t.rel = tx[p].rel
      BY <1>2 DEF Transaction
<1>4. \A q \in Procs \ {p} : f \notin tx[q].dropped /\ ~Refers(tx[q], rel, f)
      BY <1>1, NoConflict, Conflicts, TransactionTerms
<1>5. TxOK(t, rel, sheet)
  <2>1. TxOK(tx[p], rel, sheet)
        BY DEF StoreOK
  <2>2. \A i \in RelIds : View(t, rel, i) = View(tx[p], rel, i)
        BY <1>3 DEF View
  <2>3. \A i \in RelIds : Stored(View(t, rel, i)) =>
              View(t, rel, i).source # f /\ View(t, rel, i).target # f
        BY <1>1, <2>2, TransactionTerms
  <2> HIDE DEF t
  <2> QED BY <1>1, <1>3, <2>1, <2>3 DEF TxOK
<1> HIDE DEF t
<1>6. ASSUME NEW q \in Procs \ {p} PROVE Apart(t, tx[q], rel) /\ Apart(tx[q], t, rel)
  <2>1. Apart(tx[p], tx[q], rel) /\ Apart(tx[q], tx[p], rel)
        BY DEF StoreOK
  <2>2. \A g : Refers(t, rel, g) => Refers(tx[p], rel, g)
        BY <1>3 DEF Refers
  <2> HIDE DEF f, s
  <2>3. Apart(t, tx[q], rel)
        BY <1>3, <1>4, <2>1 DEF Apart
  <2>4. Apart(tx[q], t, rel)
        BY <1>3, <1>4, <2>1, <2>2 DEF Apart
  <2> QED BY <2>3, <2>4
<1> HIDE DEF f, s
<1>7. tx'[p] = t /\ (\A q \in Procs \ {p} : tx'[q] = tx[q]) /\ tx' \in [Procs -> Transaction]
      BY <1>1, <1>3 DEF GraphTypeOK
<1>8. call' \in [Procs -> Call] /\ CallsOK'
      BY <1>1, <1>2, <1>3, <1>7, AdvanceOK
<1>9. StoreOK'
      BY <1>1, <1>5, <1>6, <1>7, StoreWrite
<1> QED BY <1>1, <1>7, <1>8, <1>9 DEF GraphTypeOK

LEMMA KeepOnlyOK == ASSUME GraphInv, NEW p \in Procs, KeepOnly(p) PROVE GraphInv'
<1> DEFINE s == Stmt(p)
           r == [i \in RelIds |-> IF Superfluous(s, i) THEN Deleted ELSE rel[i]]
<1> USE DEF GraphInv
<1>1. /\ HasStatement(p) /\ s.do = "keepOnly" /\ Blockers(p) = {} /\ rel' = r
      /\ call' = [q \in Procs |-> IF q = p THEN Idle ELSE Changed(call[q])]
      /\ UNCHANGED <<sheet, tx, linked, announced, calls, faults>>
      BY DEF KeepOnly, Runs
<1>2. tx[p] = Empty
  <2>1. call[p].op = "ldif"
        BY <1>1, FirstStatement DEF Fits, May
  <2> QED BY <2>1 DEF CallsOK, CallOK, ShapeOK
<1>3. \A q \in Procs : \A i \in RelIds : Superfluous(s, i) => tx[q].rel[i] = Same
  <2>1. \A i \in RelIds : tx[p].rel[i] = Same
        BY <1>2 DEF Empty
  <2> QED BY <1>1, <2>1, NoConflict, Conflicts, TransactionTerms DEF Superfluous
<1>4. WritesAtOnce(r)
  <2>1. \A i \in RelIds : r[i] = rel[i] \/ (Superfluous(s, i) /\ r[i] = Deleted)
        OBVIOUS
  <2> HIDE DEF r, s
  <2> QED BY <1>3, <2>1 DEF WritesAtOnce, Stored
<1>5. r \in [RelIds -> Rows]
      BY DEF GraphTypeOK, Rows
<1> HIDE DEF r, s
<1>6. StoreOK'
      BY <1>1, <1>4, StoreAtOnce
<1>7. call' \in [Procs -> Call] /\ CallsOK'
  <2>1. call'[p] = Idle /\ DOMAIN call' = Procs /\ call' = [q \in Procs |-> call'[q]]
        /\ \A q \in Procs \ {p} : call'[q] = Changed(call[q]) /\ tx'[q] = tx[q]
        BY <1>1
  <2>2. CallOK(Idle, tx'[p], linked')
        BY <1>1, <1>2, IdleOK
  <2> QED BY <1>1, <2>1, <2>2, IdleTyped, CallStep
<1> QED BY <1>1, <1>5, <1>6, <1>7 DEF GraphTypeOK

LEMMA VisitOK == ASSUME GraphInv, NEW p \in Procs, Visit(p) PROVE GraphInv'
<1> DEFINE c == call[p]
           found == IF Visible(Stmt(p).source, c.space) THEN c.found \cup Around(Stmt(p).source) ELSE c.found
           d == [c EXCEPT !.todo = Tail(@), !.found = found,
                          !.at = IF Len(c.todo) = 1 THEN "emit" ELSE "run"]
<1> USE DEF GraphInv
<1>1. /\ HasStatement(p) /\ Stmt(p).do = "visit" /\ call' = [call EXCEPT ![p] = d]
      /\ UNCHANGED <<sheet, rel, tx, linked, announced, calls, faults>>
      BY DEF Visit, Runs, GraphTypeOK
<1>2. /\ c \in Call /\ Tail(c.todo) \in Seq(Statement) /\ c.op = "explain"
      /\ (Tail(c.todo) = <<>> <=> Len(c.todo) = 1) /\ tx[p].dropped = {} /\ c.at = "run"
      BY <1>1, FirstStatement DEF Fits, May
<1>3. found \subseteq Row
      BY <1>2, AroundTyped DEF Call
<1> HIDE DEF found
<1>4. /\ d.op = c.op /\ d.space = c.space /\ d.sheet = c.sheet /\ d.todo = Tail(c.todo)
      /\ d.at = (IF Len(c.todo) = 1 THEN "emit" ELSE "run") /\ d.made = c.made
      BY <1>2 DEF Call
<1>5. d \in Call
      BY <1>2, <1>3 DEF Call
<1> HIDE DEF d
<1>6. CallOK(d, tx[p], linked)
  <2>1. TodoOK(d)
        BY <1>1, <1>4, <1>5, FirstStatement DEF CallIs
  <2>2. c.made = {}
        BY <1>2 DEF CallsOK, CallOK, PhaseOK
  <2>3. PhaseOK(d, linked)
        BY <1>2, <1>4, <2>2 DEF PhaseOK
  <2>4. tx[p] = Empty
        BY <1>2 DEF CallsOK, CallOK, ShapeOK
  <2>5. ShapeOK(d, tx[p])
        BY <1>2, <1>4, <2>4 DEF ShapeOK, Empty
  <2> QED BY <2>1, <2>3, <2>5 DEF CallOK
<1>7. call' \in [Procs -> Call] /\ CallsOK'
  <2>1. call'[p] = d /\ DOMAIN call' = Procs /\ call' = [q \in Procs |-> call'[q]]
        /\ \A q \in Procs \ {p} : call'[q] = call[q] /\ tx'[q] = tx[q]
        BY <1>1 DEF GraphTypeOK
  <2> QED BY <1>1, <1>5, <1>6, <2>1, CallStep
<1>8. StoreOK'
      BY <1>1, StoreReset DEF StoreOK
<1> QED BY <1>1, <1>7, <1>8 DEF GraphTypeOK

\* A transaction is rolled back, or an LDIF item given up.
LEMMA FinishOK ==
    ASSUME GraphInv, NEW p \in Procs, Finish(p), UNCHANGED <<sheet, rel, linked, announced, calls>>,
           faults' \in 0 .. MaxFaults
    PROVE  GraphInv'
<1> USE DEF GraphInv
<1>1. /\ call'[p] = Idle /\ DOMAIN call' = Procs /\ call' = [q \in Procs |-> call'[q]]
      /\ tx'[p] = Empty /\ tx' \in [Procs -> Transaction]
      /\ \A q \in Procs \ {p} : call'[q] = call[q] /\ tx'[q] = tx[q]
      BY EmptyTyped DEF Finish, GraphTypeOK
<1>2. call' \in [Procs -> Call] /\ CallsOK'
  <2>1. CallOK(Idle, tx'[p], linked')
        BY <1>1, IdleOK
  <2> QED BY <1>1, <2>1, IdleTyped, CallStep
<1>3. StoreOK'
      BY <1>1, StoreReset DEF StoreOK
<1> QED BY <1>1, <1>2, <1>3 DEF GraphTypeOK

LEMMA CrashOK == ASSUME GraphInv, GraphCrash PROVE GraphInv'
<1> USE DEF GraphInv
<1>1. /\ \A q \in Procs : call'[q] = Idle /\ tx'[q] = Empty
      /\ call' \in [Procs -> Call] /\ tx' \in [Procs -> Transaction]
      /\ UNCHANGED <<sheet, rel, linked, announced, calls>> /\ faults' \in 0 .. MaxFaults
      BY EmptyTyped, IdleTyped, RelationAssumption DEF GraphCrash, GraphTypeOK
<1>2. CallsOK'
      BY <1>1, IdleOK DEF CallsOK
<1>3. StoreOK'
      BY <1>1, StoreReset DEF StoreOK
<1> QED BY <1>1, <1>2, <1>3 DEF GraphTypeOK

\* At its commit a transaction holds the mark of its call's sheet.
LEMMA CommitMarks ==
    ASSUME GraphInv, NEW p \in Procs, call[p].at = "commit"
    PROVE  /\ call[p].op \in {"upsert", "delete", "patch", "remove"}
           /\ call[p].sheet \in IF call[p].op = "remove" THEN tx[p].dropped ELSE tx[p].touched
           /\ call[p].sheet \in Sheets
           /\ call[p].op = "remove" => sheet[call[p].sheet].live
<1>1. call[p] \in Call /\ tx[p] \in Transaction /\ CallOK(call[p], tx[p], linked)
      /\ TxOK(tx[p], rel, sheet)
      BY DEF GraphInv, GraphTypeOK, CallsOK, StoreOK
<1>2. call[p].op \in {"upsert", "delete", "patch", "remove"}
      BY <1>1 DEF CallOK, PhaseOK, Call, Operations
<1>3. call[p].sheet \in IF call[p].op = "remove" THEN tx[p].dropped ELSE tx[p].touched
      BY <1>1 DEF CallOK, ShapeOK
<1>4. call[p].sheet \in Sheets
      BY <1>1, <1>3 DEF Transaction
<1> QED BY <1>1, <1>2, <1>3, <1>4 DEF TxOK

LEMMA CommitOK == ASSUME GraphInv, NEW p \in Procs, Commit(p) PROVE GraphInv'
<1> DEFINE c == call[p]
           d == [c EXCEPT !.at = IF c.op = "patch" THEN "after" ELSE "emit"]
<1> USE DEF GraphInv
<1>1. /\ c.at = "commit" /\ linked' = linked \cup c.made
      /\ \A i \in RelIds : rel'[i] = Seen(p, i)
      /\ rel' = [i \in RelIds |-> rel'[i]]
      /\ sheet' = [f \in Sheets |->
                    [live |-> sheet[f].live /\ f \notin tx[p].dropped,
                     rev |-> IF f \in tx[p].touched THEN sheet[f].rev + 1 ELSE sheet[f].rev]]
      /\ tx' = [tx EXCEPT ![p] = Empty]
      /\ call' = [q \in Procs |-> IF q # p THEN Changed(call[q]) ELSE d]
      /\ UNCHANGED <<announced, calls, faults>>
      BY DEF Commit
<1>2. c \in Call /\ CallOK(c, tx[p], linked) /\ tx[p] \in Transaction
      BY DEF GraphTypeOK, CallsOK
<1>3. /\ d.op = c.op /\ d.space = c.space /\ d.sheet = c.sheet /\ d.todo = c.todo
      /\ d.made = c.made /\ d.at \in {"after", "emit"} /\ (d.at = "after" => c.op = "patch")
      BY <1>2 DEF Call
<1>4. d \in Call
      BY <1>2 DEF Call
<1> HIDE DEF d
<1>5. CallOK(d, Empty, linked')
  <2>1. TodoOK(d)
        BY <1>2, <1>3 DEF CallOK, TodoOK, Fits, Closes
  <2>2. PhaseOK(d, linked')
    <3>1. c.op = "patch" => c.op \notin {"none", "ldif", "explain"}
          OBVIOUS
    <3> QED BY <1>1, <1>2, <1>3, <3>1 DEF PhaseOK, CallOK
  <2>3. ShapeOK(d, Empty)
        BY <1>3 DEF ShapeOK, Empty
  <2> QED BY <2>1, <2>2, <2>3 DEF CallOK
<1>6. tx'[p] = Empty /\ (\A q \in Procs \ {p} : tx'[q] = tx[q]) /\ tx' \in [Procs -> Transaction]
      BY <1>1, EmptyTyped DEF GraphTypeOK
<1>7. call' \in [Procs -> Call] /\ CallsOK'
  <2>1. call'[p] = d /\ DOMAIN call' = Procs /\ call' = [q \in Procs |-> call'[q]]
        /\ \A q \in Procs \ {p} : call'[q] = Changed(call[q]) /\ tx'[q] = tx[q]
        BY <1>1, <1>6
  <2> QED BY <1>1, <1>4, <1>5, <1>6, <2>1, CallStep
<1>8. \A i \in RelIds : rel'[i] = View(tx[p], rel, i)
      BY <1>1, TransactionTerms
<1>9. StoreOK'
  <2>1. \A f \in Sheets : sheet'[f].live = (sheet[f].live /\ f \notin tx[p].dropped)
        BY <1>1
  <2> QED BY <1>1, <1>6, <1>8, <2>1, StoreCommit
<1>10. GraphTypeOK'
  <2>1. rel' \in [RelIds -> Rows]
        BY <1>1, <1>8, RowsTyped
  <2>2. sheet' \in [Sheets -> [live : BOOLEAN, rev : Nat]]
    <3>1. ASSUME NEW f \in Sheets PROVE sheet'[f] \in [live : BOOLEAN, rev : Nat]
      <4>1. sheet[f] \in [live : BOOLEAN, rev : Nat]
            BY DEF GraphTypeOK
      <4> QED BY <1>1, <4>1
    <3> QED BY <1>1, <3>1
  <2>3. linked' \subseteq Row
        BY <1>1, <1>2 DEF GraphTypeOK, Call
  <2> QED BY <1>1, <1>6, <1>7, <2>1, <2>2, <2>3 DEF GraphTypeOK
<1> QED BY <1>7, <1>9, <1>10

LEMMA ReadAgainOK == ASSUME GraphInv, NEW p \in Procs, ReadAgain(p) PROVE GraphInv'
<1> DEFINE c == call[p]
           d == IF sheet[c.sheet].live THEN [c EXCEPT !.at = "emit"] ELSE Idle
<1> USE DEF GraphInv
<1>1. /\ c.at = "after" /\ UNCHANGED <<sheet, rel, tx, linked, announced, calls, faults>>
      /\ call' = [call EXCEPT ![p] = d]
      BY DEF ReadAgain, GraphTypeOK
<1>2. c \in Call /\ CallOK(c, tx[p], linked) /\ tx[p] = Empty
      BY <1>1 DEF GraphTypeOK, CallsOK, CallOK, ShapeOK
<1>3. d \in Call /\ CallOK(d, Empty, linked)
  <2>1. CASE sheet[c.sheet].live
    <3> DEFINE e == [c EXCEPT !.at = "emit"]
    <3>1. e \in Call /\ e.op = c.op /\ e.space = c.space /\ e.sheet = c.sheet /\ e.todo = c.todo
          /\ e.made = c.made /\ e.at = "emit" /\ d = e
          BY <1>2, <2>1 DEF Call
    <3> HIDE DEF e, d
    <3>2. TodoOK(e)
      <4>1. TodoOK(c)
            BY <1>2 DEF CallOK
      <4> HIDE DEF c
      <4> QED BY <3>1, <4>1 DEF TodoOK, Fits, Closes
    <3>3. PhaseOK(e, linked)
          BY <1>1, <1>2, <3>1 DEF PhaseOK, CallOK
    <3>4. ShapeOK(e, Empty)
          BY <3>1 DEF ShapeOK, Empty
    <3> QED BY <3>1, <3>2, <3>3, <3>4 DEF CallOK
  <2>2. CASE ~sheet[c.sheet].live
        BY <2>2, IdleTyped, IdleOK
  <2> QED BY <2>1, <2>2
<1> HIDE DEF d
<1>4. call' \in [Procs -> Call] /\ CallsOK'
  <2>1. call'[p] = d /\ DOMAIN call' = Procs /\ call' = [q \in Procs |-> call'[q]]
        /\ \A q \in Procs \ {p} : call'[q] = call[q] /\ tx'[q] = tx[q]
        BY <1>1 DEF GraphTypeOK
  <2> QED BY <1>1, <1>2, <1>3, <2>1, CallStep
<1>5. StoreOK'
      BY <1>1, StoreReset DEF StoreOK
<1> QED BY <1>1, <1>4, <1>5 DEF GraphTypeOK

LEMMA EmitOK == ASSUME GraphInv, NEW p \in Procs, Emit(p) PROVE GraphInv'
<1> DEFINE c == call[p]
           d == IF c.todo = <<>> THEN Idle ELSE [c EXCEPT !.at = "run", !.made = {}]
<1> USE DEF GraphInv
<1>1. /\ c.at = "emit" /\ UNCHANGED <<sheet, rel, tx, linked, calls, faults>>
      /\ announced' = announced \cup Announceable(p)
      /\ call' = [call EXCEPT ![p] = d]
      BY DEF Emit, GraphTypeOK
<1>2. c \in Call /\ CallOK(c, tx[p], linked) /\ tx[p] = Empty /\ c.made \subseteq linked
      BY <1>1 DEF GraphTypeOK, CallsOK, CallOK, ShapeOK, PhaseOK
<1>3. d \in Call /\ CallOK(d, Empty, linked)
  <2>1. CASE c.todo # <<>>
    <3> DEFINE e == [c EXCEPT !.at = "run", !.made = {}]
    <3>1. e \in Call /\ e.op = c.op /\ e.space = c.space /\ e.sheet = c.sheet /\ e.todo = c.todo
          /\ e.made = {} /\ e.at = "run" /\ d = e
          BY <1>2, <2>1 DEF Call
    <3> HIDE DEF e, d
    <3>2. TodoOK(e)
          BY <1>2, <3>1 DEF CallOK, TodoOK, Fits, Closes
    <3>3. PhaseOK(e, linked)
          BY <2>1, <3>1 DEF PhaseOK
    <3>4. ShapeOK(e, Empty)
          BY <3>1 DEF ShapeOK, Empty
    <3> QED BY <3>1, <3>2, <3>3, <3>4 DEF CallOK
  <2>2. CASE c.todo = <<>>
        BY <2>2, IdleTyped, IdleOK
  <2> QED BY <2>1, <2>2
<1> HIDE DEF d
<1>4. call' \in [Procs -> Call] /\ CallsOK'
  <2>1. call'[p] = d /\ DOMAIN call' = Procs /\ call' = [q \in Procs |-> call'[q]]
        /\ \A q \in Procs \ {p} : call'[q] = call[q] /\ tx'[q] = tx[q]
        BY <1>1 DEF GraphTypeOK
  <2> QED BY <1>1, <1>2, <1>3, <2>1, CallStep
<1>5. announced' \subseteq linked'
      BY <1>1, <1>2 DEF Announceable, StoreOK
<1>6. StoreOK'
      BY <1>1, <1>5, StoreReset
<1>7. announced' \subseteq Row
      BY <1>1, <1>5 DEF GraphTypeOK
<1> QED BY <1>1, <1>4, <1>6, <1>7 DEF GraphTypeOK

-----------------------------------------------------------------------------
(* The invariant                                                           *)

LEMMA StepOK == ASSUME GraphInv, NEW p \in Procs, Step(p) PROVE GraphInv'
<1>1. CASE Link(p) \/ Unlink(p) \/ Move(p) \/ Touch(p)
      BY <1>1, LinkOK, UnlinkOK, MoveOK, TouchOK
<1>2. CASE UnlinkAll(p) \/ Drop(p) \/ KeepOnly(p) \/ Visit(p)
      BY <1>2, UnlinkAllOK, DropOK, KeepOnlyOK, VisitOK
<1>3. CASE Commit(p) \/ ReadAgain(p) \/ Emit(p)
      BY <1>3, CommitOK, ReadAgainOK, EmitOK
<1>4. CASE Fail(p) \/ AbortVictim(p)
  <2>1. faults' \in 0 .. MaxFaults
        BY <1>4 DEF Fail, AbortVictim, GraphInv, GraphTypeOK
  <2> QED BY <1>4, <2>1, FinishOK DEF Fail, AbortVictim
<1> QED BY <1>1, <1>2, <1>3, <1>4 DEF Step

LEMMA TimeOutOK == ASSUME GraphInv, NEW p \in Procs, TimeOut(p) PROVE GraphInv'
<1>1. faults' \in 0 .. MaxFaults
      BY RelationAssumption DEF TimeOut, GraphInv, GraphTypeOK
<1> QED BY <1>1, FinishOK DEF TimeOut

\* Nobody has done anything yet.
LEMMA InitOK == GraphInit => GraphInv
<1> SUFFICES ASSUME GraphInit PROVE GraphInv
    OBVIOUS
<1>1. \A i \in RelIds : Stored(rel[i]) => rel[i] \in Row
      BY InitialAssumption DEF GraphInit, Rows, Stored
<1>2. GraphTypeOK
  <2>1. linked \subseteq Row
        BY <1>1 DEF GraphInit, Existing, Committed
  <2> QED BY <2>1, InitialAssumption, RelationAssumption, IdleTyped, EmptyTyped DEF GraphInit, GraphTypeOK
<1>3. CallsOK
      BY IdleOK DEF GraphInit, CallsOK
<1>4. StoreOK
  <2>1. \A i \in RelIds : Stored(rel[i]) => Sound(rel[i], sheet)
        BY <1>1, InitialAssumption DEF GraphInit, Sound, Row
  <2>2. \A p, q \in Procs : TxOK(tx[p], rel, sheet) /\ Apart(tx[p], tx[q], rel)
        BY EmptyIsApart DEF GraphInit
  <2> QED BY <2>1, <2>2 DEF StoreOK, GraphInit
<1> QED BY <1>2, <1>3, <1>4 DEF GraphInv

LEMMA NextOK == GraphInv /\ [GraphNext]_graphVars => GraphInv'
<1> SUFFICES ASSUME GraphInv, [GraphNext]_graphVars PROVE GraphInv'
    OBVIOUS
<1>1. CASE UNCHANGED graphVars
  <2>1. UNCHANGED <<sheet, rel, call, tx, linked, announced, calls, faults>>
        BY <1>1 DEF graphVars
  <2>2. GraphTypeOK'
        BY <2>1 DEF GraphInv, GraphTypeOK
  <2>3. CallsOK' /\ StoreOK'
        BY <2>1, StoreReset DEF GraphInv, CallsOK, StoreOK
  <2> QED BY <2>2, <2>3 DEF GraphInv
<1>2. ASSUME NEW p \in Procs, GraphCalls(p) \/ Step(p) \/ TimeOut(p) PROVE GraphInv'
      BY <1>2, CallsKeepInv, StepOK, TimeOutOK
<1> QED BY <1>1, <1>2, CrashOK DEF GraphNext

\* What the invariant says of the relations.
LEMMA InvImplies ==
    GraphInv => GraphTypeOK /\ OneWorkspace /\ NoDangling /\ AnnouncedWereLinked
BY RowsTyped DEF GraphInv, StoreOK, Sound, OneWorkspace, NoDangling, AnnouncedWereLinked,
                 Committed, Ends

\* Only these statements change committed rows.
LEMMA WhoWritesRows ==
    ASSUME [GraphNext]_graphVars, rel' # rel
    PROVE  \E p \in Procs : Link(p) \/ Unlink(p) \/ Move(p) \/ KeepOnly(p) \/ Commit(p)
<1>1. ~GraphCrash /\ graphVars' # graphVars
      BY DEF GraphCrash, graphVars
<1>2. PICK p \in Procs : GraphCalls(p) \/ Step(p) \/ TimeOut(p)
      BY <1>1 DEF GraphNext
<1>3. ~GraphCalls(p)
  <2>1. \A op, space, f, todo : ~Start(p, op, space, f, todo)
        BY DEF Start
  <2> QED BY <2>1 DEF GraphCalls, UpsertRelation, DeleteRelation, UpdateFactSheet,
                      ProcessRelations, PermanentDelete, Explain
<1>4. ~TimeOut(p) /\ ~Touch(p) /\ ~UnlinkAll(p) /\ ~Drop(p) /\ ~Visit(p) /\ ~Fail(p)
      /\ ~ReadAgain(p) /\ ~Emit(p) /\ ~AbortVictim(p)
      BY DEF TimeOut, Touch, UnlinkAll, Drop, Visit, Fail, ReadAgain, Emit, AbortVictim
<1> QED BY <1>2, <1>3, <1>4 DEF Step

-----------------------------------------------------------------------------
(* Handlers that nobody commits beside                                     *)

\* A deletion: once its sheet's relations are unlinked none is left in view.
Removing(c, t) ==
    c.op = "remove" =>
        /\ c.at # "run" => c.todo = <<>>
        /\ \A k \in 1 .. Len(c.todo) : c.todo[k].source = c.sheet
        /\ \A i \in RelIds : t.rel[i] \in {Same, Deleted}
        /\ c.at = "run" /\ c.quiet /\ c.todo[1].do = "drop" =>
              \A i \in RelIds : Stored(View(t, rel, i)) => c.sheet \notin Ends(View(t, rel, i))

\* The relations within two hops.
Near(f) ==
    {row \in Existing : \E g \in Ends(row) :
        g = f \/ \E link \in Existing : Ends(link) = {g, f}}

\* An explanation: of every neighbour it has the relations, or will ask.
Exploring(c) ==
    c.op = "explain" =>
        /\ c.sheet \in Sheets /\ c.space = SpaceOf[c.sheet]
        /\ c.at # "run" => c.todo = <<>>
        /\ c.at # "idle" /\ c.quiet =>
              /\ Around(c.sheet) \subseteq c.found /\ c.found \subseteq Near(c.sheet)
              /\ \A k \in 1 .. Len(c.todo) : c.todo[k].source \in Neighbours(c.sheet)
              /\ \A g \in Neighbours(c.sheet) :
                    Around(g) \subseteq c.found \/ \E k \in 1 .. Len(c.todo) : c.todo[k].source = g

RowTo(s, g) == [type |-> s.type, source |-> s.source, target |-> g]
Plans(todo, row) == \E k \in 1 .. Len(todo) : todo[k].do = "link" /\ RowOf(todo[k]) = row

\* A full item: what it names is linked, or will be, before the rest goes.
Syncing(c) ==
    c.op = "ldif" =>
        /\ \A k \in 1 .. Len(c.todo) : c.todo[k].do = "keepOnly" => k = Len(c.todo)
        /\ c.at # "idle" /\ c.quiet => \A n \in 1 .. Len(c.todo) : c.todo[n].do = "keepOnly" =>
              \A g \in c.todo[n].targets :
                  RowTo(c.todo[n], g) \in Existing \/ Plans(c.todo, RowTo(c.todo[n], g))

Planned(p) == Removing(call[p], tx[p]) /\ Exploring(call[p]) /\ Syncing(call[p])
QuietInv == GraphInv /\ \A p \in Procs : Planned(p)

\* What depends on the committed rows only.
LEMMA RowsDecide ==
    ASSUME UNCHANGED rel
    PROVE  /\ Existing' = Existing
           /\ \A f : Around(f)' = Around(f) /\ Neighbours(f)' = Neighbours(f) /\ Near(f)' = Near(f)
<1>1. Existing' = Existing
      BY DEF Existing, Committed
<1>2. ASSUME NEW f PROVE Around(f)' = Around(f) /\ Neighbours(f)' = Neighbours(f)
      BY <1>1 DEF Around, Neighbours
<1>3. ASSUME NEW f PROVE Near(f)' = Near(f)
      BY <1>1 DEF Near
<1> QED BY <1>1, <1>2, <1>3

\* A handler that stays where it is, and notices what others commit.
LEMMA OtherPlanned ==
    ASSUME GraphTypeOK, NEW q \in Procs, Planned(q), tx'[q] = tx[q],
           (call'[q] = call[q] /\ UNCHANGED rel) \/ call'[q] = Changed(call[q])
    PROVE  Planned(q)'
<1> DEFINE c == call[q]
<1>1. c \in Call
      BY DEF GraphTypeOK
<1>2. CASE c.at # "idle" /\ call'[q] = Changed(c)
  <2> DEFINE d == [c EXCEPT !.quiet = FALSE]
  <2>1. call'[q] = d
        BY <1>2 DEF Changed
  <2>2. d.op = c.op /\ d.at = c.at /\ d.space = c.space /\ d.sheet = c.sheet /\ d.todo = c.todo
        /\ ~d.quiet
        BY <1>1 DEF Call
  <2> HIDE DEF d
  <2>3. Removing(call[q], tx[q])'
        BY <2>1, <2>2 DEF Planned, Removing
  <2>4. Exploring(call[q])'
        BY <2>1, <2>2 DEF Planned, Exploring
  <2>5. Syncing(call[q])'
        BY <2>1, <2>2 DEF Planned, Syncing
  <2> QED BY <2>3, <2>4, <2>5 DEF Planned
<1>3. CASE c.at = "idle" /\ call'[q] = Changed(c)
  <2>1. call'[q] = c
        BY <1>3 DEF Changed
  <2>2. Removing(call[q], tx[q])'
        BY <1>3, <2>1 DEF Planned, Removing
  <2>3. Exploring(call[q])'
        BY <1>3, <2>1 DEF Planned, Exploring
  <2>4. Syncing(call[q])'
        BY <1>3, <2>1 DEF Planned, Syncing
  <2> QED BY <2>2, <2>3, <2>4 DEF Planned
<1>4. CASE call'[q] = c /\ UNCHANGED rel
  <2>1. Removing(call[q], tx[q])'
        BY <1>4 DEF Planned, Removing
  <2>2. Exploring(call[q])'
        BY <1>4, RowsDecide DEF Planned, Exploring
  <2>3. Syncing(call[q])'
        BY <1>4, RowsDecide DEF Planned, Syncing
  <2> QED BY <2>1, <2>2, <2>3 DEF Planned
<1> QED BY <1>2, <1>3, <1>4

\* Handlers of other operations plan nothing of the kind.
LEMMA OthersPlanNothing ==
    ASSUME NEW p, call'[p].op \notin {"remove", "explain", "ldif"} PROVE Planned(p)'
BY DEF Planned, Removing, Exploring, Syncing

\* One handler moves; the others at most notice that something was committed.
LEMMA OneMoves ==
    ASSUME GraphTypeOK, NEW p \in Procs, GraphCalls(p) \/ Step(p) \/ TimeOut(p)
    PROVE  \A q \in Procs \ {p} :
              /\ tx'[q] = tx[q]
              /\ (call'[q] = call[q] /\ UNCHANGED rel) \/ call'[q] = Changed(call[q])
<1> SUFFICES ASSUME NEW q \in Procs, q # p
             PROVE  /\ tx'[q] = tx[q]
                    /\ (call'[q] = call[q] /\ UNCHANGED rel) \/ call'[q] = Changed(call[q])
    OBVIOUS
<1>1. call \in [Procs -> Call] /\ tx \in [Procs -> Transaction]
      BY DEF GraphTypeOK
<1>2. CASE GraphCalls(p)
  <2>1. \A op, space, f, todo : Start(p, op, space, f, todo) =>
            tx'[q] = tx[q] /\ call'[q] = call[q] /\ UNCHANGED rel
        BY <1>1 DEF Start
  <2> QED BY <1>2, <2>1 DEF GraphCalls, UpsertRelation, DeleteRelation, UpdateFactSheet,
                            ProcessRelations, PermanentDelete, Explain
<1>3. CASE Fail(p) \/ AbortVictim(p) \/ TimeOut(p)
      BY <1>1, <1>3 DEF Fail, AbortVictim, TimeOut, Finish
<1>4. \A made : Advance(p, made) => call'[q] = call[q]
      BY <1>1 DEF Advance
<1>5. CASE Link(p) \/ Unlink(p) \/ Move(p)
  <2>1. ASSUME NEW i, NEW row, NEW made, Write(p, i, row, made)
        PROVE  /\ tx'[q] = tx[q]
               /\ (call'[q] = call[q] /\ UNCHANGED rel) \/ call'[q] = Changed(call[q])
    <3>1. CASE InTx(p)
          BY <1>1, <1>4, <2>1, <3>1 DEF Write
    <3>2. CASE ~InTx(p)
          BY <1>1, <2>1, <3>2 DEF Write
    <3> QED BY <3>1, <3>2
  <2> QED BY <1>5, <2>1 DEF Link, Unlink, Move
<1>6. CASE Touch(p) \/ UnlinkAll(p) \/ Drop(p)
      BY <1>1, <1>4, <1>6 DEF Touch, UnlinkAll, Drop
<1>7. CASE KeepOnly(p) \/ Visit(p)
      BY <1>1, <1>7 DEF KeepOnly, Visit
<1>8. CASE Commit(p) \/ ReadAgain(p) \/ Emit(p)
      BY <1>1, <1>8 DEF Commit, ReadAgain, Emit
<1> QED BY <1>2, <1>3, <1>5, <1>6, <1>7, <1>8 DEF Step

\* A handler that has nothing to do.
LEMMA IdlePlanned == ASSUME NEW p, call'[p] = Idle PROVE Planned(p)'
BY OthersPlanNothing DEF Idle

\* What a call begins with.
LEMMA StartMoves ==
    ASSUME GraphInv, NEW p \in Procs, NEW op, NEW space, NEW f, NEW todo,
           Start(p, op, space, f, todo)
    PROVE  /\ call'[p].op = op /\ call'[p].space = space /\ call'[p].sheet = f
           /\ call'[p].todo = todo /\ call'[p].at = (IF todo = <<>> THEN "emit" ELSE "run")
           /\ call'[p].found = (IF op = "explain" THEN Around(f) ELSE {})
           /\ tx'[p] = Empty /\ UNCHANGED <<rel, sheet>>
<1>1. call \in [Procs -> Call] /\ tx[p] = Empty /\ tx' = tx
      BY DEF Start, GraphInv, GraphTypeOK, CallsOK, CallOK, ShapeOK
<1>2. call'[p] = [Idle EXCEPT !.op = op, !.at = IF todo = <<>> THEN "emit" ELSE "run",
                         !.space = space, !.sheet = f, !.todo = todo,
                         !.found = IF op = "explain" THEN Around(f) ELSE {}]
      BY <1>1 DEF Start
<1>3. UNCHANGED <<rel, sheet>>
      BY DEF Start
<1> QED BY <1>1, <1>2, <1>3 DEF Idle

LEMMA RemovePlanned ==
    ASSUME GraphInv, NEW p \in Procs, NEW space, NEW f \in Sheets, PermanentDelete(p, space, f)
    PROVE  Planned(p)'
<1> DEFINE todo == <<OnSheet("unlinkAll", f), OnSheet("drop", f)>>
<1>1. /\ call'[p].op = "remove" /\ call'[p].sheet = f /\ call'[p].todo = todo
      /\ call'[p].at = (IF todo = <<>> THEN "emit" ELSE "run") /\ tx'[p] = Empty
      BY StartMoves DEF PermanentDelete
<1>2. /\ Len(todo) = 2 /\ todo # <<>> /\ todo[1].do = "unlinkAll"
      /\ \A k \in 1 .. Len(todo) : todo[k].source = f
  <2>1. /\ todo[1] = OnSheet("unlinkAll", f) /\ todo[2] = OnSheet("drop", f)
        /\ Len(todo) = 2 /\ todo # <<>> /\ \A k \in 1 .. 2 : k = 1 \/ k = 2
        OBVIOUS
  <2> HIDE DEF todo
  <2> QED BY <2>1, PlainStatements
<1> HIDE DEF todo
<1>3. \A i \in RelIds : Empty.rel[i] = Same
      BY DEF Empty
<1>4. Removing(call[p], tx[p])'
      BY <1>1, <1>2, <1>3 DEF Removing
<1> QED BY <1>1, <1>4 DEF Planned, Exploring, Syncing

\* An order of a finite set names all its members.
LEMMA SetToSeqCovers ==
    ASSUME NEW X, IsFiniteSet(X), NEW x \in X
    PROVE  \E k \in 1 .. Len(SetToSeq(X)) : SetToSeq(X)[k] = x
<1>1. PICK n \in Nat : ExistsBijection(1 .. n, X)
      BY FS_NatBijection
<1>2. Cardinality(X) = n
      BY <1>1, FS_CountingElements
<1>3. PICK f \in Bijection(1 .. n, X) : TRUE
      BY <1>1 DEF ExistsBijection
<1>4. f \in [1 .. n -> X] /\ IsInjective(f)
      BY <1>3 DEF Bijection, Injection, IsInjective
<1> DEFINE s == SetToSeq(X)
<1>5. s \in [1 .. n -> X] /\ IsInjective(s)
      BY <1>2, <1>4 DEF SetToSeq
<1>6. s \in Injection(1 .. n, X)
      BY <1>5 DEF Injection, IsInjective
<1>7. Cardinality(1 .. n) = n
      BY FS_Interval
<1> HIDE DEF s
<1>8. s \in Surjection(1 .. n, X)
      BY <1>2, <1>6, <1>7, FS_Injection
<1>9. \E k \in 1 .. n : s[k] = x
      BY <1>8 DEF Surjection
<1>10. Len(s) = n
      BY <1>5
<1> QED BY <1>9, <1>10 DEF s

LEMMA ExplainPlanned ==
    ASSUME GraphInv, NEW p \in Procs, NEW space, NEW f \in Sheets, Explain(p, space, f)
    PROVE  Planned(p)'
<1> DEFINE visits == {OnSheet("visit", g) : g \in Neighbours(f)}
           todo == SetToSeq(visits)
           c == call'[p]
<1>1. /\ c.op = "explain" /\ c.sheet = f /\ c.space = space /\ c.todo = todo
      /\ c.at = (IF todo = <<>> THEN "emit" ELSE "run") /\ c.found = Around(f)
      /\ UNCHANGED rel /\ SpaceOf[f] = space
      BY StartMoves DEF Explain, Visible
<1>2. Around(f) \subseteq Near(f)
      BY DEF Around, Near, Ends
<1>3. IsFiniteSet(visits)
      BY VisitsFinite
<1>4. \A s \in visits : s.source \in Neighbours(f)
      BY DEF OnSheet, S
<1>5. \A k \in 1 .. Len(todo) : todo[k].source \in Neighbours(f)
  <2> HIDE DEF visits
  <2>1. todo \in Seq(visits)
        BY <1>3, SetToSeqTyped
  <2> HIDE DEF todo
  <2> QED BY <1>4, <2>1
<1>6. ASSUME NEW g \in Neighbours(f) PROVE \E k \in 1 .. Len(todo) : todo[k].source = g
  <2>1. OnSheet("visit", g) \in visits /\ OnSheet("visit", g).source = g
        BY DEF OnSheet, S
  <2> HIDE DEF visits
  <2>2. \E k \in 1 .. Len(todo) : todo[k] = OnSheet("visit", g)
        BY <1>3, <2>1, SetToSeqCovers
  <2> QED BY <2>1, <2>2
<1> HIDE DEF todo
<1>7. Exploring(call[p])'
      BY <1>1, <1>2, <1>5, <1>6, RowsDecide DEF Exploring
<1> QED BY <1>1, <1>7 DEF Planned, Removing, Syncing

LEMMA SyncPlanned ==
    ASSUME GraphInv, NEW p \in Procs, NEW t \in Types, NEW f \in Sheets,
           NEW targets \in TargetLists, NEW full \in BOOLEAN,
           ProcessRelations(p, t, f, targets, full)
    PROVE  Planned(p)'
<1> DEFINE n == Len(targets)
           put == [k \in DOMAIN targets |-> LinkStmt(t, f, targets[k])]
           keep == [OnSheet("keepOnly", f) EXCEPT !.type = t, !.targets = Range(targets)]
           rest == IF full THEN <<keep>> ELSE <<>>
           todo == put \o rest
<1>1. call'[p].op = "ldif" /\ call'[p].todo = todo
      BY StartMoves DEF ProcessRelations
<1>2. targets \in Seq(Sheets) /\ n \in Nat /\ DOMAIN targets = 1 .. n
      BY RelationAssumption
<1>3. \A g \in Range(targets) : \E k \in 1 .. n : targets[k] = g
      BY <1>2 DEF Range
<1>4. /\ keep.do = "keepOnly" /\ keep.source = f /\ keep.type = t
      /\ keep.targets = Range(targets)
      BY DEF OnSheet, S
<1>5. ASSUME NEW k \in 1 .. n
      PROVE  /\ put[k] \in Statement /\ put[k].do = "link"
             /\ RowOf(put[k]) = [type |-> t, source |-> f, target |-> targets[k]]
      BY <1>2, PlainStatements DEF RowOf
<1>6. put \in Seq(Statement) /\ Len(put) = n
      BY <1>2, <1>5
<1>7. keep \in Statement
  <2>1. Range(targets) \subseteq Sheets
        BY <1>2 DEF Range
  <2> QED BY <2>1 DEF OnSheet, S, Statement
<1> HIDE DEF put, keep
<1>8. rest \in Seq(Statement) /\ Len(rest) \in {0, 1} /\ (Len(rest) = 1 => rest[1] = keep)
      BY <1>7
<1> HIDE DEF rest
<1>9. /\ Len(todo) = n + Len(rest)
      /\ \A k \in 1 .. Len(todo) : IF k <= n THEN todo[k] = put[k] ELSE todo[k] = keep
  <2>1. /\ Len(todo) = n + Len(rest)
        /\ \A k \in 1 .. n + Len(rest) : todo[k] = IF k <= n THEN put[k] ELSE rest[k - n]
        BY <1>6, <1>8, ConcatProperties
  <2> QED BY <1>2, <1>8, <2>1
<1> HIDE DEF todo, n
<1>10. ASSUME NEW k \in 1 .. Len(todo), todo[k].do = "keepOnly"
       PROVE  k = Len(todo) /\ todo[k] = keep
  <2>1. k \in Nat /\ 1 <= k /\ k <= n + Len(rest) /\ Len(todo) = n + Len(rest)
        BY <1>2, <1>8, <1>9
  <2>2. ~(k <= n)
    <3>1. ASSUME k <= n PROVE FALSE
      <4>1. k \in 1 .. n /\ todo[k] = put[k]
            BY <1>2, <1>9, <2>1, <3>1
      <4> QED BY <1>5, <1>10, <4>1
    <3> QED BY <3>1
  <2>3. k = Len(todo)
    <3> DEFINE m == Len(rest)
               l == Len(todo)
    <3>1. n \in Nat /\ m \in {0, 1} /\ l = n + m /\ k \in Nat /\ k <= l
          BY <1>2, <1>8, <2>1
    <3> HIDE DEF m, l
    <3>2. k = l
          BY <2>2, <3>1
    <3> QED BY <3>2 DEF l
  <2>4. todo[k] = keep
        BY <1>9, <2>2
  <2> QED BY <2>3, <2>4
<1>11. ASSUME NEW g \in Range(targets) PROVE Plans(todo, RowTo(keep, g))
  <2>1. PICK k \in 1 .. n : targets[k] = g
        BY <1>3
  <2>2. k \in 1 .. Len(todo) /\ todo[k] = put[k]
        BY <1>2, <1>8, <1>9
  <2>3. put[k].do = "link" /\ RowOf(put[k]) = RowTo(keep, g)
        BY <1>4, <1>5, <2>1 DEF RowTo
  <2> QED BY <2>2, <2>3 DEF Plans
<1>12. Syncing(call[p])'
      BY <1>1, <1>4, <1>10, <1>11 DEF Syncing
<1> QED BY <1>1, <1>12 DEF Planned, Removing, Exploring

LEMMA CallsPlanned == ASSUME GraphInv, NEW p \in Procs, GraphCalls(p) PROVE Planned(p)'
<1>1. (\A f \in Called : f \in Sheets) /\ (\A t \in CalledTypes : t \in Types)
      BY RelationAssumption
<1>2. ASSUME NEW space \in Spaces, NEW t \in Types, NEW f \in Called, NEW g \in Sheets,
             UpsertRelation(p, space, t, f, g)
      PROVE  Planned(p)'
  <2>1. call'[p].op = "upsert"
        BY <1>2, StartMoves DEF UpsertRelation
  <2> QED BY <2>1, OthersPlanNothing
<1>3. ASSUME NEW space \in Spaces, NEW i \in RelIds, DeleteRelation(p, space, i)
      PROVE  Planned(p)'
  <2>1. call'[p].op = "delete"
        BY <1>3, StartMoves DEF DeleteRelation
  <2> QED BY <2>1, OthersPlanNothing
<1>4. ASSUME NEW space \in Spaces, NEW f \in Called, NEW patches \in PatchLists,
             UpdateFactSheet(p, space, f, patches)
      PROVE  Planned(p)'
  <2>1. call'[p].op = "patch"
        BY <1>4, StartMoves DEF UpdateFactSheet
  <2> QED BY <2>1, OthersPlanNothing
<1> QED BY <1>1, <1>2, <1>3, <1>4, RemovePlanned, ExplainPlanned, SyncPlanned DEF GraphCalls

\* The statement a handler is at, and those after it.
LEMMA AtStatement ==
    ASSUME GraphTypeOK, NEW p \in Procs, HasStatement(p)
    PROVE  LET s == call[p].todo IN
           /\ call[p] \in Call /\ call[p].at = "run" /\ Len(s) \in Nat /\ Len(s) >= 1
           /\ 1 \in 1 .. Len(s) /\ s[1] = Stmt(p)
           /\ Len(Tail(s)) = Len(s) - 1
           /\ \A k \in 1 .. Len(Tail(s)) : k + 1 \in 1 .. Len(s) /\ Tail(s)[k] = s[k + 1]
           /\ \A k \in 1 .. Len(s) : k = 1 \/ (k - 1 \in 1 .. Len(Tail(s)) /\ Tail(s)[k - 1] = s[k])
           /\ Tail(s) = <<>> <=> Len(s) = 1
<1> DEFINE s == call[p].todo
<1>1. call[p] \in Call /\ call[p].at = "run" /\ s # <<>>
      BY DEF GraphTypeOK, HasStatement
<1>2. s \in Seq(Statement)
      BY <1>1 DEF Call
<1>3. /\ Len(s) \in Nat /\ Len(s) >= 1 /\ Head(s) = s[1] /\ Len(Tail(s)) = Len(s) - 1
      /\ \A k \in 1 .. Len(s) - 1 : Tail(s)[k] = s[k + 1]
      /\ Tail(s) = <<>> <=> Len(s) = 1
      BY <1>1, <1>2, HeadAndTail
<1> DEFINE n == Len(s)
           r == Tail(s)
<1>4. \A k \in 1 .. Len(r) : k + 1 \in 1 .. n /\ r[k] = s[k + 1]
      BY <1>3
<1>5. ASSUME NEW k \in 1 .. n, k # 1 PROVE k - 1 \in 1 .. Len(r) /\ r[k - 1] = s[k]
  <2>1. k - 1 \in 1 .. n - 1 /\ (k - 1) + 1 = k
        BY <1>3, <1>5
  <2> QED BY <1>3, <2>1
<1>6. 1 \in 1 .. n /\ s[1] = Stmt(p)
      BY <1>3 DEF Stmt
<1> QED BY <1>1, <1>3, <1>4, <1>5, <1>6

\* A transaction goes on to its next statement.
LEMMA AdvanceMoves ==
    ASSUME GraphTypeOK, NEW p \in Procs, NEW made, Advance(p, made)
    PROVE  /\ call'[p].op = call[p].op /\ call'[p].sheet = call[p].sheet
           /\ call'[p].quiet = call[p].quiet /\ call'[p].todo = Tail(call[p].todo)
           /\ call'[p].at = IF Len(call[p].todo) = 1 THEN "commit" ELSE "run"
<1>1. call \in [Procs -> Call] /\ call[p] \in Call
      BY DEF GraphTypeOK
<1>2. call'[p] = [call[p] EXCEPT !.todo = Tail(@), !.made = @ \cup made,
                       !.at = IF Len(call[p].todo) = 1 THEN "commit" ELSE "run"]
      BY <1>1 DEF Advance
<1> QED BY <1>1, <1>2 DEF Call

\* In a deletion's transaction rows are left alone or deleted.
LEMMA RemovePlans ==
    ASSUME GraphInv, NEW p \in Procs, Planned(p), HasStatement(p), call[p].op = "remove",
           NEW made, Advance(p, made), UNCHANGED rel,
           \A i \in RelIds : tx'[p].rel[i] \in {Same, Deleted},
           Len(call[p].todo) # 1 => \A i \in RelIds :
               Stored(View(tx'[p], rel, i)) => Stmt(p).source \notin Ends(View(tx'[p], rel, i))
    PROVE  Planned(p)'
<1> DEFINE c == call[p]
<1>1. /\ c.todo[1] = Stmt(p) /\ 1 \in 1 .. Len(c.todo)
      /\ \A k \in 1 .. Len(Tail(c.todo)) : k + 1 \in 1 .. Len(c.todo) /\ Tail(c.todo)[k] = c.todo[k + 1]
      /\ Tail(c.todo) = <<>> <=> Len(c.todo) = 1
      BY AtStatement DEF GraphInv
<1>2. /\ call'[p].op = "remove" /\ call'[p].sheet = c.sheet /\ call'[p].todo = Tail(c.todo)
      /\ call'[p].at = IF Len(c.todo) = 1 THEN "commit" ELSE "run"
      BY AdvanceMoves DEF GraphInv
<1>3. \A k \in 1 .. Len(c.todo) : c.todo[k].source = c.sheet
      BY DEF Planned, Removing
<1>4. \A k \in 1 .. Len(Tail(c.todo)) : Tail(c.todo)[k].source = c.sheet
      BY <1>1, <1>3
<1>5. Stmt(p).source = c.sheet
      BY <1>1, <1>3
<1>6. call'[p].at # "run" => call'[p].todo = <<>>
      BY <1>1, <1>2
<1>7. call'[p].at = "run" => \A i \in RelIds :
          Stored(View(tx'[p], rel, i)) => c.sheet \notin Ends(View(tx'[p], rel, i))
      BY <1>2, <1>5
<1> HIDE DEF c
<1>8. Removing(call[p], tx[p])'
      BY <1>2, <1>4, <1>6, <1>7 DEF Removing
<1> QED BY <1>2, <1>8 DEF Planned, Exploring, Syncing

LEMMA UnlinkAllPlanned ==
    ASSUME GraphInv, NEW p \in Procs, Planned(p), UnlinkAll(p) PROVE Planned(p)'
<1> DEFINE f == Stmt(p).source
           rows == [i \in RelIds |-> IF Committed(i) /\ f \in Ends(rel[i])
                                     THEN Deleted ELSE tx[p].rel[i]]
<1>1. HasStatement(p) /\ Stmt(p).do = "unlinkAll" /\ Advance(p, {}) /\ UNCHANGED rel
      BY DEF UnlinkAll, Runs
<1>2. call[p].op = "remove"
      BY <1>1, FirstStatement DEF GraphInv, Fits, May
<1>3. tx'[p] = [tx[p] EXCEPT !.rel = rows] /\ tx[p] \in Transaction
      BY DEF UnlinkAll, GraphInv, GraphTypeOK
<1>4. tx'[p].rel = rows
      BY <1>3 DEF Transaction
<1>5. \A i \in RelIds : tx[p].rel[i] \in {Same, Deleted}
      BY <1>2 DEF Planned, Removing
<1>6. \A i \in RelIds : tx'[p].rel[i] \in {Same, Deleted}
      BY <1>4, <1>5
<1>7. ASSUME NEW i \in RelIds, Stored(View(tx'[p], rel, i))
      PROVE  f \notin Ends(View(tx'[p], rel, i))
  <2>1. tx'[p].rel[i] = Same
        BY <1>6, <1>7 DEF View, Stored
  <2>2. View(tx'[p], rel, i) = rel[i]
        BY <2>1 DEF View
  <2>3. Committed(i)
        BY <1>7, <2>2 DEF Committed
  <2>4. tx'[p].rel[i] = IF Committed(i) /\ f \in Ends(rel[i]) THEN Deleted ELSE tx[p].rel[i]
        BY <1>4
  <2>5. Deleted # Same
        BY RelationAssumption
  <2> QED BY <2>1, <2>2, <2>3, <2>4, <2>5
<1> HIDE DEF rows, f
<1> QED BY <1>1, <1>2, <1>6, <1>7, RemovePlans DEF f

LEMMA DropPlanned ==
    ASSUME GraphInv, NEW p \in Procs, Planned(p), Drop(p) PROVE Planned(p)'
<1>1. HasStatement(p) /\ Stmt(p).do = "drop" /\ Advance(p, {}) /\ UNCHANGED rel
      BY DEF Drop, Runs
<1>2. call[p].op = "remove" /\ Len(call[p].todo) = 1
      BY <1>1, FirstStatement DEF GraphInv, Fits, May
<1>3. tx'[p].rel = tx[p].rel
  <2>1. tx'[p] = [tx[p] EXCEPT !.dropped = @ \cup {Stmt(p).source}] /\ tx[p] \in Transaction
        BY DEF Drop, GraphInv, GraphTypeOK
  <2> QED BY <2>1 DEF Transaction
<1>4. \A i \in RelIds : tx[p].rel[i] \in {Same, Deleted}
      BY <1>2 DEF Planned, Removing
<1> QED BY <1>1, <1>2, <1>3, <1>4, RemovePlans

\* After the last statement of a transaction.
LEMMA EndPlanned ==
    ASSUME GraphInv, NEW p \in Procs, Planned(p), NEW at \in {"after", "emit"},
           call[p].at \in {"commit", "after"}, call'[p] = [call[p] EXCEPT !.at = at],
           tx'[p] = Empty
    PROVE  Planned(p)'
<1>1. /\ call[p] \in Call /\ call[p].op \notin {"none", "ldif", "explain"}
      BY DEF GraphInv, GraphTypeOK, CallsOK, CallOK, PhaseOK
<1>2. /\ call'[p].op = call[p].op /\ call'[p].todo = call[p].todo /\ call'[p].at = at
      /\ call'[p].sheet = call[p].sheet
      BY <1>1 DEF Call
<1>3. \A i \in RelIds : Empty.rel[i] = Same
      BY DEF Empty
<1>4. Removing(call[p], tx[p])'
      BY <1>2, <1>3 DEF Planned, Removing
<1> QED BY <1>1, <1>2, <1>4 DEF Planned, Exploring, Syncing

LEMMA CommitPlanned ==
    ASSUME GraphInv, NEW p \in Procs, Planned(p), Commit(p) \/ ReadAgain(p) PROVE Planned(p)'
<1>1. call \in [Procs -> Call] /\ tx \in [Procs -> Transaction]
      BY DEF GraphInv, GraphTypeOK
<1>2. CASE Commit(p)
  <2>1. /\ call[p].at = "commit" /\ tx'[p] = Empty
        /\ call'[p] = [call[p] EXCEPT !.at = IF call[p].op = "patch" THEN "after" ELSE "emit"]
        BY <1>1, <1>2 DEF Commit
  <2> QED BY <2>1, EndPlanned
<1>3. CASE ReadAgain(p)
  <2>1. /\ call[p].at = "after" /\ tx'[p] = tx[p]
        /\ \/ call'[p] = [call[p] EXCEPT !.at = "emit"]
           \/ call'[p] = Idle
        BY <1>1, <1>3 DEF ReadAgain
  <2>2. tx[p] = Empty
        BY <2>1 DEF GraphInv, CallsOK, CallOK, ShapeOK
  <2> QED BY <2>1, <2>2, EndPlanned, IdlePlanned
<1> QED BY <1>2, <1>3

LEMMA EmitPlanned ==
    ASSUME GraphInv, NEW p \in Procs, Planned(p), Emit(p) PROVE Planned(p)'
<1> DEFINE c == call[p]
<1>1. /\ c \in Call /\ c.at = "emit" /\ UNCHANGED <<rel, tx>>
      /\ call'[p] = IF c.todo = <<>> THEN Idle ELSE [c EXCEPT !.at = "run", !.made = {}]
      BY DEF Emit, GraphInv, GraphTypeOK
<1>2. CASE c.todo = <<>>
      BY <1>1, <1>2, IdlePlanned
<1>3. CASE c.todo # <<>>
  <2> DEFINE d == [c EXCEPT !.at = "run", !.made = {}]
  <2>1. c.op \notin {"remove", "explain"}
        BY <1>1, <1>3 DEF Planned, Removing, Exploring
  <2>2. /\ d.op = c.op /\ d.todo = c.todo /\ d.at = "run" /\ d.quiet = c.quiet
        BY <1>1 DEF Call
  <2>3. call'[p] = d
        BY <1>1, <1>3
  <2> HIDE DEF d
  <2>4. Syncing(c)
        BY DEF Planned
  <2>5. Syncing(call[p])'
        BY <1>1, <2>2, <2>3, <2>4, RowsDecide DEF Syncing
  <2> QED BY <2>1, <2>2, <2>3, <2>5 DEF Planned, Removing, Exploring
<1> QED BY <1>2, <1>3

\* What lies between a sheet and a neighbour.
LEMMA NeighbourLinked ==
    ASSUME GraphInv, NEW f, NEW g \in Neighbours(f)
    PROVE  /\ \E link \in Existing : Ends(link) = {g, f}
           /\ sheet[g].live /\ SpaceOf[g] = SpaceOf[f]
           /\ Around(g) \subseteq Near(f)
<1>1. PICK link \in Around(f) : g = Other(link, f)
      BY DEF Neighbours
<1>2. link \in Existing /\ (link.source = f \/ link.target = f)
      BY <1>1 DEF Around
<1>3. Ends(link) = {g, f}
      BY <1>1, <1>2 DEF Ends, Other
<1>4. PICK i \in RelIds : link = rel[i] /\ Stored(rel[i])
      BY <1>2 DEF Existing, Committed
<1>5. Sound(link, sheet)
      BY <1>4 DEF GraphInv, StoreOK
<1>6. g \in {link.source, link.target} /\ f \in {link.source, link.target}
      BY <1>3 DEF Ends
<1>7. sheet[g].live /\ SpaceOf[g] = SpaceOf[f]
      BY <1>5, <1>6 DEF Sound
<1>8. Around(g) \subseteq Near(f)
      BY <1>2, <1>3 DEF Around, Near, Ends
<1> QED BY <1>2, <1>3, <1>7, <1>8

LEMMA VisitPlanned ==
    ASSUME GraphInv, NEW p \in Procs, Planned(p), Visit(p) PROVE Planned(p)'
<1> DEFINE c == call[p]
           g == Stmt(p).source
           found == IF Visible(g, c.space) THEN c.found \cup Around(g) ELSE c.found
           d == [c EXCEPT !.todo = Tail(@), !.found = found,
                          !.at = IF Len(c.todo) = 1 THEN "emit" ELSE "run"]
<1>1. HasStatement(p) /\ Stmt(p).do = "visit" /\ UNCHANGED <<rel, tx>> /\ call'[p] = d
      BY DEF Visit, Runs, GraphInv, GraphTypeOK
<1>2. c.op = "explain"
      BY <1>1, FirstStatement DEF GraphInv, Fits, May
<1>3. /\ c \in Call /\ c.at = "run" /\ c.todo[1] = Stmt(p) /\ 1 \in 1 .. Len(c.todo)
      /\ \A k \in 1 .. Len(Tail(c.todo)) : k + 1 \in 1 .. Len(c.todo) /\ Tail(c.todo)[k] = c.todo[k + 1]
      /\ \A k \in 1 .. Len(c.todo) :
            k = 1 \/ (k - 1 \in 1 .. Len(Tail(c.todo)) /\ Tail(c.todo)[k - 1] = c.todo[k])
      /\ Tail(c.todo) = <<>> <=> Len(c.todo) = 1
      BY <1>1, AtStatement DEF GraphInv
<1> HIDE DEF found
<1>4. /\ d.op = "explain" /\ d.sheet = c.sheet /\ d.space = c.space /\ d.todo = Tail(c.todo)
      /\ d.found = found /\ d.quiet = c.quiet /\ d.at \in {"run", "emit"}
      /\ d.at = IF Len(c.todo) = 1 THEN "emit" ELSE "run"
      BY <1>2, <1>3 DEF Call
<1> HIDE DEF d
<1>5. c.sheet \in Sheets /\ c.space = SpaceOf[c.sheet]
      BY <1>2 DEF Planned, Exploring
<1>6. ASSUME c.quiet
      PROVE  /\ Around(c.sheet) \subseteq found /\ found \subseteq Near(c.sheet)
             /\ \A k \in 1 .. Len(d.todo) : d.todo[k].source \in Neighbours(c.sheet)
             /\ \A h \in Neighbours(c.sheet) :
                   Around(h) \subseteq found \/ \E k \in 1 .. Len(d.todo) : d.todo[k].source = h
  <2>1. /\ Around(c.sheet) \subseteq c.found /\ c.found \subseteq Near(c.sheet)
        /\ \A k \in 1 .. Len(c.todo) : c.todo[k].source \in Neighbours(c.sheet)
        /\ \A h \in Neighbours(c.sheet) :
              Around(h) \subseteq c.found \/ \E k \in 1 .. Len(c.todo) : c.todo[k].source = h
        BY <1>2, <1>3, <1>6 DEF Planned, Exploring
  <2>2. g \in Neighbours(c.sheet)
        BY <1>3, <2>1
  <2>3. Visible(g, c.space) /\ Around(g) \subseteq Near(c.sheet)
        BY <1>5, <2>2, NeighbourLinked DEF Visible
  <2>4. found = c.found \cup Around(g)
        BY <2>3 DEF found
  <2>5. \A k \in 1 .. Len(d.todo) : d.todo[k].source \in Neighbours(c.sheet)
        BY <1>3, <1>4, <2>1
  <2>6. ASSUME NEW h \in Neighbours(c.sheet), NEW k \in 1 .. Len(c.todo), c.todo[k].source = h
        PROVE  Around(h) \subseteq found \/ \E m \in 1 .. Len(d.todo) : d.todo[m].source = h
    <3>1. CASE k = 1
          BY <1>3, <2>4, <2>6, <3>1
    <3>2. CASE k # 1
      <4>1. k - 1 \in 1 .. Len(d.todo) /\ d.todo[k - 1].source = h
            BY <1>3, <1>4, <2>6, <3>2
      <4> QED BY <4>1
    <3> QED BY <3>1, <3>2
  <2> HIDE DEF g
  <2> QED BY <2>1, <2>3, <2>4, <2>5, <2>6
<1>7. d.at # "run" => d.todo = <<>>
      BY <1>3, <1>4
<1> HIDE DEF c, g
<1>8. Exploring(call[p])'
      BY <1>1, <1>4, <1>5, <1>6, <1>7, RowsDecide DEF Exploring
<1> QED BY <1>1, <1>4, <1>8 DEF Planned, Removing, Syncing

\* Without a transaction a link is there at once, and no other row goes.
LEMMA LinkPlanned ==
    ASSUME GraphInv, NEW p \in Procs, Planned(p), Link(p) PROVE Planned(p)'
<1> DEFINE c == call[p]
           row == RowOf(Stmt(p))
<1>1. /\ HasStatement(p) /\ Stmt(p).do = "link"
      /\ \/ \E i \in RelIds : Seen(p, i) = row /\ Write(p, i, row, {row})
         \/ Unused # {} /\ Write(p, NewId, row, {row})
      BY DEF Link, Runs
<1>2. c.op \in {"upsert", "patch", "ldif"} /\ Fits(c, Stmt(p))
      BY <1>1, FirstStatement DEF GraphInv, Fits, May
<1>3. c \in Call /\ call \in [Procs -> Call]
      BY DEF GraphInv, GraphTypeOK
<1>4. CASE c.op # "ldif"
  <2>1. \A made : Advance(p, made) => call'[p].op = c.op
        BY AdvanceMoves DEF GraphInv
  <2>2. call'[p].op = c.op
        BY <1>1, <1>4, <2>1 DEF Write, InTx
  <2> QED BY <1>2, <1>4, <2>2, OthersPlanNothing
<1>5. CASE c.op = "ldif"
  <2>1. \A i \in RelIds : tx[p].rel[i] = Same
        BY <1>5 DEF GraphInv, CallsOK, CallOK, ShapeOK, Empty
  <2>2. \A i \in RelIds : Seen(p, i) = rel[i]
        BY <2>1 DEF Seen, Written
  <2>3. row \in Row
        BY <1>1, <1>2 DEF Fits, RowOf, Row
  <2>4. Stored(row)
        BY <2>3, RelationAssumption DEF Stored
  <2>5. PICK i \in RelIds : Write(p, i, row, {row}) /\ (rel[i] = row \/ ~Stored(rel[i]))
    <3>1. CASE \E i \in RelIds : Seen(p, i) = row /\ Write(p, i, row, {row})
          BY <2>2, <3>1
    <3>2. CASE Unused # {} /\ Write(p, NewId, row, {row})
      <4>1. NewId \in Unused
            BY <3>2 DEF NewId
      <4> QED BY <3>2, <4>1 DEF Unused, Stored
    <3> QED BY <1>1, <3>1, <3>2
  <2> HIDE DEF row
  <2> DEFINE d == [c EXCEPT !.todo = Tail(@), !.made = @ \cup {row}, !.at = "emit"]
  <2>6. rel' = [rel EXCEPT ![i] = row] /\ call'[p] = d
        BY <1>5, <2>5 DEF Write, InTx
  <2>7. d.op = "ldif" /\ d.todo = Tail(c.todo) /\ d.quiet = c.quiet
        BY <1>3, <1>5 DEF Call
  <2> HIDE DEF d
  <2>8. Existing \subseteq Existing' /\ row \in Existing'
    <3>1. rel'[i] = row /\ \A j \in RelIds : j # i => rel'[j] = rel[j]
          BY <2>6 DEF GraphInv, GraphTypeOK
    <3>2. ASSUME NEW j \in RelIds, Stored(rel[j]) PROVE rel'[j] = rel[j]
          BY <2>5, <3>1, <3>2
    <3> QED BY <2>4, <3>1, <3>2 DEF Existing, Committed
  <2>9. /\ c.at = "run" /\ c.todo[1] = Stmt(p) /\ Len(c.todo) \in Nat
        /\ Len(Tail(c.todo)) = Len(c.todo) - 1
        /\ \A k \in 1 .. Len(Tail(c.todo)) : k + 1 \in 1 .. Len(c.todo) /\ Tail(c.todo)[k] = c.todo[k + 1]
        /\ \A k \in 1 .. Len(c.todo) :
              k = 1 \/ (k - 1 \in 1 .. Len(Tail(c.todo)) /\ Tail(c.todo)[k - 1] = c.todo[k])
        BY <1>1, AtStatement DEF GraphInv
  <2>10. ASSUME NEW k \in 1 .. Len(d.todo), d.todo[k].do = "keepOnly" PROVE k = Len(d.todo)
    <3>1. k + 1 \in 1 .. Len(c.todo) /\ c.todo[k + 1].do = "keepOnly"
          BY <2>7, <2>9, <2>10
    <3>2. k + 1 = Len(c.todo)
          BY <1>5, <3>1 DEF Planned, Syncing
    <3> QED BY <2>7, <2>9, <3>2
  <2>11. ASSUME c.quiet, NEW n \in 1 .. Len(d.todo), d.todo[n].do = "keepOnly",
                NEW g \in d.todo[n].targets
         PROVE  RowTo(d.todo[n], g) \in Existing' \/ Plans(d.todo, RowTo(d.todo[n], g))
    <3> DEFINE s == d.todo[n]
    <3>1. n + 1 \in 1 .. Len(c.todo) /\ c.todo[n + 1] = s
          BY <2>7, <2>9
    <3>2. RowTo(s, g) \in Existing \/ Plans(c.todo, RowTo(s, g))
          BY <1>5, <2>9, <2>11, <3>1 DEF Planned, Syncing
    <3> HIDE DEF s
    <3>3. ASSUME NEW k \in 1 .. Len(c.todo), c.todo[k].do = "link", RowOf(c.todo[k]) = RowTo(s, g)
          PROVE  RowTo(s, g) \in Existing' \/ Plans(d.todo, RowTo(s, g))
      <4>1. CASE k = 1
            BY <2>8, <2>9, <3>3, <4>1 DEF row
      <4>2. CASE k # 1
        <5>1. k - 1 \in 1 .. Len(d.todo) /\ d.todo[k - 1] = c.todo[k]
              BY <2>7, <2>9, <4>2
        <5> QED BY <3>3, <5>1 DEF Plans
      <4> QED BY <4>1, <4>2
    <3>4. RowTo(s, g) \in Existing' \/ Plans(d.todo, RowTo(s, g))
          BY <2>8, <3>2, <3>3 DEF Plans
    <3> QED BY <3>4 DEF s
  <2> HIDE DEF c
  <2>12. Syncing(call[p])'
        BY <2>6, <2>7, <2>10, <2>11 DEF Syncing
  <2> QED BY <2>6, <2>7, <2>12 DEF Planned, Removing, Exploring
<1> QED BY <1>4, <1>5

\* The statements of patches and of the updates of a rev.
LEMMA PatchPlanned ==
    ASSUME GraphInv, NEW p \in Procs, Unlink(p) \/ Move(p) \/ Touch(p) PROVE Planned(p)'
<1>1. /\ HasStatement(p) /\ Stmt(p).do \in {"unlink", "move", "touch"}
      BY DEF Unlink, Move, Touch, Runs
<1>2. call[p].op \in {"upsert", "delete", "patch"}
      BY <1>1, FirstStatement DEF GraphInv, Fits, May
<1>3. \A made : Advance(p, made) => call'[p].op = call[p].op
      BY AdvanceMoves DEF GraphInv
<1>4. call'[p].op = call[p].op
      BY <1>2, <1>3 DEF Unlink, Move, Touch, Write, InTx
<1> QED BY <1>2, <1>4, OthersPlanNothing

\* One handler's step keeps its plan.
LEMMA StepPlanned ==
    ASSUME GraphInv, NEW p \in Procs, Planned(p), GraphCalls(p) \/ Step(p) \/ TimeOut(p)
    PROVE  Planned(p)'
<1>1. call \in [Procs -> Call]
      BY DEF GraphInv, GraphTypeOK
<1>2. CASE Fail(p) \/ AbortVictim(p) \/ TimeOut(p)
      BY <1>1, <1>2, IdlePlanned DEF Fail, AbortVictim, TimeOut, Finish
<1>3. CASE KeepOnly(p)
      BY <1>3, IdlePlanned DEF KeepOnly
<1>4. CASE Unlink(p) \/ Move(p) \/ Touch(p)
      BY <1>4, PatchPlanned
<1>5. CASE Link(p) \/ UnlinkAll(p) \/ Drop(p) \/ Visit(p)
      BY <1>5, LinkPlanned, UnlinkAllPlanned, DropPlanned, VisitPlanned
<1>6. CASE Commit(p) \/ ReadAgain(p) \/ Emit(p)
      BY <1>6, CommitPlanned, EmitPlanned
<1>7. CASE GraphCalls(p)
      BY <1>7, CallsPlanned
<1> QED BY <1>2, <1>3, <1>4, <1>5, <1>6, <1>7 DEF Step

LEMMA QuietInit == GraphInit => QuietInv
<1> SUFFICES ASSUME GraphInit PROVE QuietInv
    OBVIOUS
<1>1. GraphInv
      BY InitOK
<1>2. \A p \in Procs : call[p].op = "none"
      BY DEF GraphInit, Idle
<1> QED BY <1>1, <1>2 DEF QuietInv, Planned, Removing, Exploring, Syncing

LEMMA QuietNext == QuietInv /\ [GraphNext]_graphVars => QuietInv'
<1> SUFFICES ASSUME QuietInv, [GraphNext]_graphVars PROVE QuietInv'
    OBVIOUS
<1>1. GraphInv /\ GraphInv' /\ \A p \in Procs : Planned(p)
      BY NextOK DEF QuietInv
<1>2. CASE UNCHANGED graphVars
  <2>1. UNCHANGED <<rel, call, tx>>
        BY <1>2 DEF graphVars
  <2>2. \A q \in Procs : Planned(q)'
        BY <1>1, <2>1, OtherPlanned DEF GraphInv
  <2> QED BY <1>1, <2>2 DEF QuietInv
<1>3. CASE GraphCrash
  <2>1. \A q \in Procs : call'[q] = Idle
        BY <1>3 DEF GraphCrash
  <2>2. \A q \in Procs : Planned(q)'
        BY <2>1, IdlePlanned
  <2> QED BY <1>1, <2>2 DEF QuietInv
<1>4. ASSUME NEW p \in Procs, GraphCalls(p) \/ Step(p) \/ TimeOut(p) PROVE QuietInv'
  <2>1. Planned(p)'
        BY <1>1, <1>4, StepPlanned
  <2>2. ASSUME NEW q \in Procs, q # p PROVE Planned(q)'
        BY <1>1, <1>4, <2>2, OneMoves, OtherPlanned DEF GraphInv
  <2> QED BY <1>1, <2>1, <2>2 DEF QuietInv
<1> QED BY <1>2, <1>3, <1>4 DEF GraphNext

\* A deletion nobody commits beside meets none of its sheet's relations.
LEMMA QuietRemoval == QuietInv => NotInItsOwnWay
<1> SUFFICES ASSUME QuietInv, NEW p \in Procs, HasStatement(p), Stmt(p).do = "drop", call[p].quiet
             PROVE  ~Referenced(p, Stmt(p).source)
    BY DEF NotInItsOwnWay
<1>1. call[p].op = "remove" /\ call[p].at = "run"
      BY FirstStatement DEF QuietInv, GraphInv, Fits, May
<1>2. call[p].todo[1] = Stmt(p) /\ 1 \in 1 .. Len(call[p].todo)
      BY AtStatement DEF QuietInv, GraphInv
<1>3. /\ Stmt(p).source = call[p].sheet
      /\ \A i \in RelIds : Stored(View(tx[p], rel, i)) => call[p].sheet \notin Ends(View(tx[p], rel, i))
      BY <1>1, <1>2 DEF QuietInv, Planned, Removing
<1> QED BY <1>3, TransactionTerms DEF Ends

\* The relations around a sheet and its neighbours are those within two hops.
LEMMA QuietAnswer == QuietInv => ExplainExact
<1> SUFFICES ASSUME QuietInv, NEW p \in Procs, call[p].op = "explain", call[p].at = "emit", call[p].quiet
             PROVE  call[p].found = Near(call[p].sheet)
    BY DEF ExplainExact, Near
<1> DEFINE f == call[p].sheet
           found == call[p].found
<1>1. call[p].todo = <<>>
      BY DEF QuietInv, Planned, Exploring
<1>2. ~\E k \in 1 .. Len(call[p].todo) : TRUE
      BY <1>1
<1>3. /\ Around(f) \subseteq found /\ found \subseteq Near(f)
      /\ \A g \in Neighbours(f) : Around(g) \subseteq found
      BY <1>2 DEF QuietInv, Planned, Exploring
<1>4. ASSUME NEW row \in Near(f) PROVE row \in found
  <2>1. PICK g \in Ends(row) : g = f \/ \E link \in Existing : Ends(link) = {g, f}
        BY <1>4 DEF Near
  <2>2. row \in Around(g)
        BY <1>4, <2>1 DEF Near, Around, Ends
  <2>3. CASE g = f
        BY <1>3, <2>2, <2>3
  <2>4. CASE g # f
    <3>1. PICK link \in Existing : Ends(link) = {g, f}
          BY <2>1, <2>4
    <3>2. link \in Around(f) /\ Other(link, f) = g
          BY <2>4, <3>1 DEF Around, Other, Ends
    <3>3. g \in Neighbours(f)
          BY <2>4, <3>2 DEF Neighbours
    <3> QED BY <1>3, <2>2, <3>3
  <2> QED BY <2>3, <2>4
<1> QED BY <1>3, <1>4

\* A transaction that has written nothing is in nobody's way.
LEMMA EmptyIsFree ==
    ASSUME NEW p, tx[p] = Empty, NEW q, NEW s \in Statement PROVE ~Conflict(q, p, s)
<1>1. Written(p) = {} /\ tx[p].dropped = {} /\ tx[p].touched = {}
      BY DEF Written, Empty
<1>2. Shared(p) = {} /\ \A row : ~HoldsKey(p, row)
      BY <1>1 DEF Shared, HoldsKey
<1>3. s.do \in {"link", "unlink", "move", "touch", "unlinkAll", "drop", "keepOnly", "visit"}
      BY DEF Statement
<1> QED BY <1>1, <1>2, <1>3 DEF Conflict

\* A full item that leaves its last statement for good has carried it out: it
\* cannot fail, and it holds no locks that a deadlock is made of.
LEMMA KeepOnlyEnds ==
    ASSUME GraphInv, [GraphNext]_graphVars, NEW p \in Procs, HasStatement(p),
           Stmt(p).do = "keepOnly", Acts(p), call'[p].at = "idle", faults' = faults
    PROVE  KeepOnly(p)
<1> DEFINE c == call[p]
<1>1. /\ c.op = "ldif" /\ c.at = "run" /\ c \in Call /\ tx[p] = Empty
  <2>1. c.op = "ldif" /\ c.at = "run" /\ c \in Call
        BY FirstStatement DEF GraphInv, Fits, May
  <2> QED BY <2>1 DEF GraphInv, CallsOK, CallOK, ShapeOK
<1>2. ~GraphCrash /\ ~UNCHANGED graphVars
  <2>1. ~GraphCrash
        BY DEF GraphCrash, GraphInv, GraphTypeOK
  <2> QED BY <2>1 DEF graphVars, Acts
<1>3. PICK q \in Procs : GraphCalls(q) \/ Step(q) \/ TimeOut(q)
      BY <1>2 DEF GraphNext
<1>4. q = p
  <2>1. SUFFICES ASSUME q # p PROVE FALSE
        OBVIOUS
  <2>2. call'[p] = c \/ call'[p] = Changed(c)
        BY <1>3, <2>1, OneMoves DEF GraphInv
  <2>3. Changed(c).at = "run"
        BY <1>1 DEF Changed, Call
  <2> QED BY <1>1, <2>2, <2>3
<1>5. ~GraphCalls(p) /\ ~TimeOut(p)
  <2>1. \A op, space, f, todo : ~Start(p, op, space, f, todo)
        BY <1>1 DEF Start
  <2>2. ~GraphCalls(p)
        BY <2>1 DEF GraphCalls, UpsertRelation, DeleteRelation, UpdateFactSheet,
                    ProcessRelations, PermanentDelete, Explain
  <2> QED BY <1>1, <2>2 DEF TimeOut
<1>6. /\ ~Link(p) /\ ~Unlink(p) /\ ~Move(p) /\ ~Touch(p) /\ ~UnlinkAll(p) /\ ~Drop(p)
      /\ ~Visit(p) /\ ~Commit(p) /\ ~ReadAgain(p) /\ ~Emit(p)
      BY <1>1 DEF Link, Unlink, Move, Touch, UnlinkAll, Drop, Visit, Runs, Commit, ReadAgain, Emit
<1>7. ~Fail(p)
      BY DEF Fail, Impossible
<1>8. ~AbortVictim(p)
  <2>1. ASSUME NEW r \in Procs, p \in Blockers(r) PROVE FALSE
    <3>1. HasStatement(r) /\ Conflict(r, p, Stmt(r))
          BY <2>1 DEF Blockers
    <3>2. Stmt(r) \in Statement
          BY <3>1, FirstStatement DEF GraphInv
    <3> QED BY <1>1, <3>1, <3>2, EmptyIsFree
  <2> QED BY <2>1 DEF AbortVictim, Deadlocked
<1> QED BY <1>3, <1>4, <1>5, <1>6, <1>7, <1>8 DEF Step

\* A full item takes its leftovers only, and takes them all.
LEMMA QuietItem ==
    ASSUME QuietInv, [GraphNext]_graphVars PROVE KeepsExactly
<1> SUFFICES ASSUME NEW p \in Procs, HasStatement(p), Stmt(p).do = "keepOnly", Acts(p),
                    call'[p].at = "idle", faults' = faults
             PROVE  LET Own(row) == Stored(row) /\ row.type = Stmt(p).type
                                                /\ row.source = Stmt(p).source
                        left == {rel'[i].target : i \in {j \in RelIds : Own(rel'[j])}} IN
                    /\ left \subseteq Stmt(p).targets
                    /\ call[p].quiet => left = Stmt(p).targets
                    /\ \A i \in RelIds : ~Own(rel[i]) => rel'[i] = rel[i]
    BY DEF KeepsExactly
<1> DEFINE s == Stmt(p)
           c == call[p]
           Own(row) == Stored(row) /\ row.type = s.type /\ row.source = s.source
           left == {rel'[i].target : i \in {j \in RelIds : Own(rel'[j])}}
<1>1. c.at = "run" /\ call \in [Procs -> Call] /\ c \in Call
      BY DEF HasStatement, QuietInv, GraphInv, GraphTypeOK
<1>2. KeepOnly(p)
      BY KeepOnlyEnds DEF QuietInv
<1>3. \A i \in RelIds : rel'[i] = IF Superfluous(s, i) THEN Deleted ELSE rel[i]
      BY <1>2 DEF KeepOnly
<1>4. ASSUME NEW i \in RelIds, ~Own(rel[i]) PROVE rel'[i] = rel[i]
      BY <1>3, <1>4 DEF Superfluous, Committed
<1>5. ASSUME NEW i \in RelIds, Own(rel'[i]) PROVE rel'[i].target \in s.targets
  <2>1. rel'[i] # Deleted
        BY <1>5 DEF Stored
  <2>2. ~Superfluous(s, i) /\ rel'[i] = rel[i]
        BY <1>3, <2>1
  <2> QED BY <1>5, <2>2 DEF Superfluous, Committed
<1>6. ASSUME c.quiet, NEW g \in s.targets
      PROVE  \E i \in RelIds : Own(rel'[i]) /\ rel'[i].target = g
  <2>1. c.op = "ldif"
        BY FirstStatement DEF QuietInv, GraphInv, Fits, May
  <2>2. c.todo[1] = s /\ 1 \in 1 .. Len(c.todo)
        BY AtStatement DEF QuietInv, GraphInv
  <2>3. Syncing(c)
        BY DEF QuietInv, Planned
  <2>4. 1 = Len(c.todo)
        BY <2>1, <2>2, <2>3 DEF Syncing
  <2>5. RowTo(s, g) \in Existing \/ Plans(c.todo, RowTo(s, g))
        BY <1>1, <1>6, <2>1, <2>2, <2>3 DEF Syncing
  <2>6. ~Plans(c.todo, RowTo(s, g))
        BY <2>2, <2>4 DEF Plans
  <2>7. PICK i \in RelIds : Committed(i) /\ rel[i] = RowTo(s, g)
        BY <2>5, <2>6 DEF Existing
  <2>8. rel[i].type = s.type /\ rel[i].source = s.source /\ rel[i].target = g
        BY <2>7 DEF RowTo
  <2>9. rel'[i] = rel[i]
        BY <1>3, <1>6, <2>8 DEF Superfluous
  <2> QED BY <2>7, <2>8, <2>9 DEF Committed
<1> HIDE DEF Own
<1>7. left \subseteq s.targets /\ (c.quiet => left = s.targets)
      BY <1>5, <1>6
<1> QED BY <1>4, <1>7 DEF Own

-----------------------------------------------------------------------------
(* What a rev tells                                                        *)

\* What may become of a row: its id is used once, and its source stays.
Keeps(old, new) ==
    \/ old = NoRel
    \/ new \in {old, Deleted}
    \/ Stored(old) /\ Stored(new) /\ new.source = old.source

\* The rows a transaction has written are relations of its call's sheet: those
\* that start there, or all around it if the sheet is being deleted.
RowsOwned(c, t, r) ==
    \A i \in RelIds : t.rel[i] # Same =>
        /\ Keeps(r[i], t.rel[i])
        /\ c.op = "upsert" => Stored(t.rel[i]) /\ t.rel[i].source = c.sheet
        /\ c.op = "delete" => ~Stored(t.rel[i]) /\ (Stored(r[i]) => r[i].source = c.sheet)
        /\ c.op = "remove" => ~Stored(t.rel[i]) /\ (Stored(r[i]) => c.sheet \in Ends(r[i]))

\* And so are the rows it has still to write.
TodoOwned(c, r) ==
    \A k \in 1 .. Len(c.todo) :
        /\ c.op = "upsert" /\ c.todo[k].do = "link" => c.todo[k].source = c.sheet
        /\ c.op = "delete" /\ c.todo[k].do = "unlink" =>
              /\ r[c.todo[k].id] # NoRel
              /\ Stored(r[c.todo[k].id]) => r[c.todo[k].id].source = c.sheet
        /\ c.op = "remove" => c.todo[k].source = c.sheet

Owns(p) == RowsOwned(call[p], tx[p], rel) /\ TodoOwned(call[p], rel)
TellInv == GraphInv /\ \A p \in Procs : Owns(p)

\* A row that has been used once is Deleted or keeps its source from then on.
LEMMA KeepsUsed ==
    ASSUME NEW old, NEW new, Keeps(old, new), old # NoRel
    PROVE  new # NoRel /\ (Stored(new) => Stored(old) /\ new.source = old.source)
BY RelationAssumption DEF Keeps, Stored

LEMMA KeepsTwice ==
    ASSUME NEW old, NEW mid, NEW new, Keeps(old, mid), Keeps(mid, new) PROVE Keeps(old, new)
BY RelationAssumption DEF Keeps, Stored

\* What is left of a list is owned if the list is, whatever became of the rows.
LEMMA TodoKept ==
    ASSUME NEW c, NEW d, NEW r, NEW u, TodoOwned(c, r), d.op = c.op, d.sheet = c.sheet,
           \A k \in 1 .. Len(d.todo) : \E n \in 1 .. Len(c.todo) : d.todo[k] = c.todo[n],
           \A n \in 1 .. Len(c.todo) :
               c.todo[n].do = "unlink" => Keeps(r[c.todo[n].id], u[c.todo[n].id])
    PROVE  TodoOwned(d, u)
<1>1. ASSUME NEW k \in 1 .. Len(d.todo), d.op = "delete", d.todo[k].do = "unlink"
      PROVE  /\ u[d.todo[k].id] # NoRel
             /\ Stored(u[d.todo[k].id]) => u[d.todo[k].id].source = d.sheet
  <2>1. PICK n \in 1 .. Len(c.todo) : d.todo[k] = c.todo[n]
        OBVIOUS
  <2> DEFINE i == c.todo[n].id
  <2>2. r[i] # NoRel /\ (Stored(r[i]) => r[i].source = c.sheet) /\ Keeps(r[i], u[i])
        BY <1>1, <2>1 DEF TodoOwned
  <2> HIDE DEF i
  <2>3. u[i] # NoRel /\ (Stored(u[i]) => u[i].source = c.sheet)
        BY <2>2, KeepsUsed
  <2> QED BY <2>1, <2>3 DEF i
<1>2. ASSUME NEW k \in 1 .. Len(d.todo)
      PROVE  /\ d.op = "upsert" /\ d.todo[k].do = "link" => d.todo[k].source = d.sheet
             /\ d.op = "remove" => d.todo[k].source = d.sheet
      BY DEF TodoOwned
<1> QED BY <1>1, <1>2 DEF TodoOwned

\* The ids of a handler's statements.
LEMMA TodoNamesRows ==
    ASSUME GraphInv, NEW p \in Procs, NEW k \in 1 .. Len(call[p].todo),
           call[p].todo[k].do = "unlink"
    PROVE  call[p].todo[k].id \in RelIds
BY DEF GraphInv, CallsOK, CallOK, TodoOK, Fits

\* A committed row that changes keeps its source, and no other handler has
\* written it.
LEMMA RowsKept ==
    ASSUME TellInv, NEW q \in Procs, Step(q), NEW i \in RelIds, rel'[i] # rel[i]
    PROVE  Keeps(rel[i], rel'[i]) /\ \A p \in Procs \ {q} : tx[p].rel[i] = Same
<1> USE DEF GraphInv
<1>1. GraphInv /\ rel \in [RelIds -> Rows] /\ tx[q] \in Transaction
      BY DEF TellInv, GraphTypeOK
<1>2. Link(q) \/ Unlink(q) \/ Move(q) \/ KeepOnly(q) \/ Commit(q)
      BY DEF Step, Touch, UnlinkAll, Drop, Visit, Fail, ReadAgain, Emit, AbortVictim
<1>3. CASE Commit(q)
  <2>1. rel'[i] = View(tx[q], rel, i)
        BY <1>3, TransactionTerms DEF Commit
  <2>2. tx[q].rel[i] # Same /\ rel'[i] = tx[q].rel[i]
        BY <2>1 DEF View
  <2>3. \A p \in Procs \ {q} : tx[p].rel[i] = Same
        BY <1>1, <2>2, RowsApart
  <2> QED BY <2>2, <2>3 DEF TellInv, Owns, RowsOwned
<1>4. CASE KeepOnly(q)
  <2>1. /\ HasStatement(q) /\ Stmt(q).do = "keepOnly" /\ Blockers(q) = {}
        /\ rel'[i] = IF Superfluous(Stmt(q), i) THEN Deleted ELSE rel[i]
        BY <1>4 DEF KeepOnly, Runs
  <2>2. Superfluous(Stmt(q), i) /\ rel'[i] = Deleted
        BY <2>1
  <2>3. \A p \in Procs \ {q} : i \notin Written(p)
        BY <2>1, <2>2, NoConflict, Conflicts DEF Superfluous
  <2> QED BY <2>2, <2>3, TransactionTerms DEF Keeps
<1>5. CASE Unlink(q) \/ Move(q)
  <2>1. call[q].op # "ldif"
        BY <1>1, <1>5, FirstStatement DEF Unlink, Move, Runs, Fits, May
  <2> QED BY <1>5, <2>1 DEF Unlink, Move, Write, InTx
<1>6. CASE Link(q)
  <2> DEFINE row == RowOf(Stmt(q))
  <2>1. call[q].op = "ldif"
        BY <1>6 DEF Link, Write, InTx
  <2>2. tx[q] = Empty
        BY <1>1, <2>1 DEF CallsOK, CallOK, ShapeOK
  <2>3. \A j \in RelIds : Seen(q, j) = rel[j]
        BY <2>2 DEF Seen, Written, Empty
  <2>4. PICK j \in RelIds : Write(q, j, row, {row}) /\ (rel[j] = row \/ j \in Unused)
    <3>1. Unused # {} => NewId \in Unused
          BY DEF NewId
    <3> QED BY <1>6, <2>3, <3>1 DEF Link, Unused
  <2>5. rel' = [rel EXCEPT ![j] = row]
        BY <2>1, <2>4 DEF Write, InTx
  <2>6. j = i /\ i \in Unused
        BY <1>1, <2>4, <2>5
  <2> QED BY <2>6, TransactionTerms DEF Unused, Keeps
<1> QED BY <1>2, <1>3, <1>4, <1>5, <1>6

\* Whoever moves, the rows keep their sources.
LEMMA AllKept ==
    ASSUME TellInv, NEW q \in Procs, GraphCalls(q) \/ Step(q) \/ TimeOut(q), NEW i \in RelIds
    PROVE  /\ Keeps(rel[i], rel'[i])
           /\ rel'[i] = rel[i] \/ \A p \in Procs \ {q} : tx[p].rel[i] = Same
<1>1. CASE Step(q)
      BY <1>1, RowsKept DEF Keeps
<1>2. CASE GraphCalls(q) \/ TimeOut(q)
  <2>1. \A op, space, f, todo : Start(q, op, space, f, todo) => UNCHANGED rel
        BY DEF Start
  <2>2. UNCHANGED rel
        BY <1>2, <2>1 DEF TimeOut, GraphCalls, UpsertRelation, DeleteRelation, UpdateFactSheet,
                          ProcessRelations, PermanentDelete, Explain
  <2> QED BY <2>2 DEF Keeps
<1> QED BY <1>1, <1>2

\* What a handler owns stays its own while others move.
LEMMA OtherOwns ==
    ASSUME TellInv, NEW q \in Procs, GraphCalls(q) \/ Step(q) \/ TimeOut(q),
           NEW p \in Procs, p # q
    PROVE  Owns(p)'
<1> DEFINE c == call[p]
           d == call'[p]
<1>1. c \in Call /\ Owns(p) /\ GraphInv
      BY DEF TellInv, GraphInv, GraphTypeOK
<1>2. tx'[p] = tx[p] /\ (d = c \/ d = Changed(c))
      BY <1>1, OneMoves DEF GraphInv
<1>3. d.op = c.op /\ d.sheet = c.sheet /\ d.todo = c.todo
      BY <1>1, <1>2 DEF Changed, Call
<1>4. \A i \in RelIds : Keeps(rel[i], rel'[i]) /\ (rel'[i] = rel[i] \/ tx[p].rel[i] = Same)
      BY AllKept
<1>5. TodoOwned(d, rel')
  <2>1. TodoOwned(c, rel)
        BY <1>1 DEF Owns
  <2>2. \A n \in 1 .. Len(c.todo) :
            c.todo[n].do = "unlink" => Keeps(rel[c.todo[n].id], rel'[c.todo[n].id])
        BY <1>1, <1>4, TodoNamesRows
  <2> HIDE DEF c, d
  <2> QED BY <1>3, <2>1, <2>2, TodoKept
<1>6. RowsOwned(d, tx[p], rel')
  <2>1. RowsOwned(c, tx[p], rel)
        BY <1>1 DEF Owns
  <2> HIDE DEF c, d
  <2>2. ASSUME NEW i \in RelIds, tx[p].rel[i] # Same PROVE rel'[i] = rel[i]
        BY <1>4, <2>2
  <2> QED BY <1>3, <2>1, <2>2 DEF RowsOwned
<1> QED BY <1>2, <1>5, <1>6 DEF Owns

\* A transaction that has written nothing owns whatever it has written.
LEMMA NothingOwned ==
    ASSUME NEW c, NEW r PROVE RowsOwned(c, Empty, r)
BY DEF RowsOwned, Empty

LEMMA IdleOwns == ASSUME NEW p, call'[p] = Idle, tx'[p] = Empty PROVE Owns(p)'
<1>1. TodoOwned(Idle, rel')
      BY DEF TodoOwned, Idle
<1> QED BY <1>1, NothingOwned DEF Owns

\* The lists that calls begin with.
LEMMA CallsOwn == ASSUME GraphInv, NEW p \in Procs, GraphCalls(p) PROVE Owns(p)'
<1>1. ASSUME NEW space, NEW t \in Types, NEW f \in Sheets, NEW g \in Sheets,
             UpsertRelation(p, space, t, f, g)
      PROVE  Owns(p)'
  <2> DEFINE todo == <<LinkStmt(t, f, g), OnSheet("touch", f)>>
  <2>1. call'[p].op = "upsert" /\ call'[p].sheet = f /\ call'[p].todo = todo /\ tx'[p] = Empty
        BY <1>1, StartMoves DEF UpsertRelation
  <2>2. \A k \in 1 .. Len(todo) : todo[k].source = f
    <3>1. /\ todo[1] = LinkStmt(t, f, g) /\ todo[2] = OnSheet("touch", f)
          /\ Len(todo) = 2 /\ \A k \in 1 .. 2 : k = 1 \/ k = 2
          OBVIOUS
    <3> HIDE DEF todo
    <3> QED BY <3>1, PlainStatements
  <2> HIDE DEF todo
  <2>3. TodoOwned(call'[p], rel')
        BY <2>1, <2>2 DEF TodoOwned
  <2> QED BY <2>1, <2>3, NothingOwned DEF Owns
<1>2. ASSUME NEW space, NEW i \in RelIds, DeleteRelation(p, space, i) PROVE Owns(p)'
  <2> DEFINE f == rel[i].source
             s == [S("unlink") EXCEPT !.id = i, !.type = rel[i].type]
             todo == <<s, OnSheet("touch", f)>>
  <2>1. call'[p].op = "delete" /\ call'[p].sheet = f /\ call'[p].todo = todo /\ tx'[p] = Empty
        /\ rel' = rel
        BY <1>2, StartMoves DEF DeleteRelation
  <2>2. rel[i] # NoRel
        BY <1>2 DEF DeleteRelation, Committed, Stored
  <2>3. s.id = i
        BY DEF S
  <2>4. f \in Sheets
        BY <1>2, RowsTyped DEF DeleteRelation, Committed, GraphInv, Row
  <2> HIDE DEF s, f
  <2>5. \A k \in 1 .. Len(todo) : todo[k].do = "unlink" => todo[k].id = i
    <3>1. /\ todo[1] = s /\ todo[2] = OnSheet("touch", f)
          /\ Len(todo) = 2 /\ \A k \in 1 .. 2 : k = 1 \/ k = 2
          OBVIOUS
    <3> HIDE DEF todo
    <3> QED BY <2>3, <2>4, <3>1, PlainStatements
  <2> HIDE DEF todo
  <2>6. TodoOwned(call'[p], rel')
        BY <2>1, <2>2, <2>5 DEF TodoOwned, f
  <2> QED BY <2>1, <2>6, NothingOwned DEF Owns
<1>3. ASSUME NEW space, NEW f \in Sheets, PermanentDelete(p, space, f) PROVE Owns(p)'
  <2> DEFINE todo == <<OnSheet("unlinkAll", f), OnSheet("drop", f)>>
  <2>1. call'[p].op = "remove" /\ call'[p].sheet = f /\ call'[p].todo = todo /\ tx'[p] = Empty
        BY <1>3, StartMoves DEF PermanentDelete
  <2>2. \A k \in 1 .. Len(todo) : todo[k].source = f
    <3>1. /\ todo[1] = OnSheet("unlinkAll", f) /\ todo[2] = OnSheet("drop", f)
          /\ Len(todo) = 2 /\ \A k \in 1 .. 2 : k = 1 \/ k = 2
          OBVIOUS
    <3> HIDE DEF todo
    <3> QED BY <3>1, PlainStatements
  <2> HIDE DEF todo
  <2>3. TodoOwned(call'[p], rel')
        BY <2>1, <2>2 DEF TodoOwned
  <2> QED BY <2>1, <2>3, NothingOwned DEF Owns
<1>4. ASSUME call'[p].op \in {"patch", "ldif", "explain"}, tx'[p] = Empty PROVE Owns(p)'
  <2>1. TodoOwned(call'[p], rel')
        BY <1>4 DEF TodoOwned
  <2> QED BY <1>4, <2>1, NothingOwned DEF Owns
<1>5. (\A f \in Called : f \in Sheets) /\ (\A t \in CalledTypes : t \in Types)
      BY RelationAssumption
<1>6. \A op, space, f, todo : Start(p, op, space, f, todo) => call'[p].op = op /\ tx'[p] = Empty
      BY StartMoves
<1> QED BY <1>1, <1>2, <1>3, <1>4, <1>5, <1>6
        DEF GraphCalls, UpdateFactSheet, ProcessRelations, Explain

\* A handler that goes on with the rest of its list, or stops there, owns what it
\* owned if it owns its rows.
LEMMA GoesOn ==
    ASSUME TellInv, NEW p \in Procs, Step(p),
           call'[p].op = call[p].op, call'[p].sheet = call[p].sheet,
           \/ call'[p].todo = call[p].todo
           \/ HasStatement(p) /\ call'[p].todo = Tail(call[p].todo),
           RowsOwned(call[p], tx'[p], rel')
    PROVE  Owns(p)'
<1> DEFINE c == call[p]
           d == call'[p]
<1>1. GraphInv /\ TodoOwned(c, rel)
      BY DEF TellInv, Owns
<1>2. \A k \in 1 .. Len(d.todo) : \E n \in 1 .. Len(c.todo) : d.todo[k] = c.todo[n]
  <2>1. CASE d.todo = c.todo
        BY <2>1
  <2>2. CASE HasStatement(p) /\ d.todo = Tail(c.todo)
    <3>1. \A k \in 1 .. Len(Tail(c.todo)) :
              k + 1 \in 1 .. Len(c.todo) /\ Tail(c.todo)[k] = c.todo[k + 1]
          BY <1>1, <2>2, AtStatement DEF GraphInv
    <3> QED BY <2>2, <3>1
  <2> QED BY <2>1, <2>2
<1>3. \A n \in 1 .. Len(c.todo) :
          c.todo[n].do = "unlink" => Keeps(rel[c.todo[n].id], rel'[c.todo[n].id])
      BY <1>1, AllKept, TodoNamesRows
<1>4. TodoOwned(d, rel') /\ RowsOwned(d, tx'[p], rel')
  <2>1. RowsOwned(d, tx'[p], rel')
        BY DEF RowsOwned
  <2>2. /\ TodoOwned(c, rel) /\ d.op = c.op /\ d.sheet = c.sheet
        /\ \A k \in 1 .. Len(d.todo) : \E n \in 1 .. Len(c.todo) : d.todo[k] = c.todo[n]
        /\ \A n \in 1 .. Len(c.todo) :
              c.todo[n].do = "unlink" => Keeps(rel[c.todo[n].id], rel'[c.todo[n].id])
        BY <1>1, <1>2, <1>3
  <2> HIDE DEF c, d
  <2>3. TodoOwned(d, rel')
        BY <2>2, TodoKept
  <2> QED BY <2>1, <2>3
<1> QED BY <1>4 DEF Owns

\* A row written within a transaction.
LEMMA WriteOwns ==
    ASSUME TellInv, NEW p \in Procs, Step(p), HasStatement(p), NEW i \in RelIds, NEW row,
           NEW made, Write(p, i, row, made), call[p].op # "ldif",
           row # Same => RowsOwned(call[p], [tx[p] EXCEPT !.rel[i] = row], rel)
    PROVE  Owns(p)'
<1>1. GraphInv /\ tx[p] \in Transaction /\ tx \in [Procs -> Transaction]
      BY DEF TellInv, GraphInv, GraphTypeOK
<1>2. tx'[p] = [tx[p] EXCEPT !.rel[i] = row] /\ Advance(p, made) /\ UNCHANGED rel
      BY <1>1 DEF Write, InTx
<1>3. /\ call'[p].op = call[p].op /\ call'[p].sheet = call[p].sheet
      /\ call'[p].todo = Tail(call[p].todo)
      BY <1>1, <1>2, AdvanceMoves DEF GraphInv
<1>4. RowsOwned(call[p], tx'[p], rel')
  <2>1. CASE row # Same
        BY <1>2, <2>1
  <2>2. CASE row = Same
    <3>1. \A j \in RelIds : tx'[p].rel[j] = IF j = i THEN Same ELSE tx[p].rel[j]
          BY <1>1, <1>2, <2>2 DEF Transaction
    <3>2. RowsOwned(call[p], tx[p], rel)
          BY DEF TellInv, Owns
    <3> QED BY <1>2, <3>1, <3>2 DEF RowsOwned
  <2> QED BY <2>1, <2>2
<1> QED BY <1>3, <1>4, GoesOn

\* The rows of a transaction when it writes one more.
LEMMA OneMoreOwned ==
    ASSUME NEW c, NEW t \in Transaction, NEW r, RowsOwned(c, t, r), NEW i \in RelIds, NEW row,
           Keeps(r[i], row),
           c.op = "upsert" => Stored(row) /\ row.source = c.sheet,
           c.op = "delete" => ~Stored(row) /\ (Stored(r[i]) => r[i].source = c.sheet),
           c.op # "remove"
    PROVE  RowsOwned(c, [t EXCEPT !.rel[i] = row], r)
<1>1. \A j \in RelIds : [t EXCEPT !.rel[i] = row].rel[j] = IF j = i THEN row ELSE t.rel[j]
      BY DEF Transaction
<1> QED BY <1>1 DEF RowsOwned

LEMMA LinkOwns == ASSUME TellInv, NEW p \in Procs, Link(p) PROVE Owns(p)'
<1> DEFINE s == Stmt(p)
           row == RowOf(s)
           c == call[p]
<1>1. /\ GraphInv /\ tx[p] \in Transaction /\ HasStatement(p) /\ s.do = "link" /\ Step(p)
      /\ RowsOwned(c, tx[p], rel) /\ TodoOwned(c, rel)
      BY DEF TellInv, GraphInv, GraphTypeOK, Link, Runs, Step, Owns
<1>2. /\ c.op \in {"upsert", "patch", "ldif"} /\ c \in Call /\ row \in Row
      /\ row.source = s.source
      BY <1>1, FirstStatement DEF GraphInv, Fits, May, RowOf, Row
<1>3. c.op = "upsert" => s.source = c.sheet
  <2>1. c.todo[1] = s /\ 1 \in 1 .. Len(c.todo)
        BY <1>1, AtStatement DEF GraphInv
  <2> QED BY <1>1, <2>1 DEF TodoOwned
<1>4. Stored(row)
      BY <1>2, RelationAssumption DEF Stored
<1>5. PICK i \in RelIds : Write(p, i, row, {row}) /\ (Seen(p, i) = row \/ i \in Unused)
  <2>1. Unused # {} => NewId \in Unused
        BY DEF NewId
  <2> QED BY <2>1 DEF Link, Unused
<1>6. Keeps(rel[i], row)
  <2>1. CASE i \in Unused
        BY <2>1 DEF Unused, Keeps
  <2>2. CASE Seen(p, i) = row /\ tx[p].rel[i] # Same
        BY <1>1, <2>2 DEF Seen, Written, RowsOwned
  <2>3. CASE Seen(p, i) = row /\ tx[p].rel[i] = Same
        BY <2>3 DEF Seen, Written, Keeps
  <2> QED BY <1>5, <2>1, <2>2, <2>3
<1> HIDE DEF row, s
<1>7. CASE c.op = "ldif"
  <2>1. /\ call'[p] = [c EXCEPT !.todo = Tail(@), !.made = @ \cup {row}, !.at = "emit"]
        /\ tx' = tx
        BY <1>5, <1>7 DEF Write, InTx
  <2>2. call'[p].op = c.op /\ call'[p].sheet = c.sheet /\ call'[p].todo = Tail(c.todo)
        BY <1>2, <2>1 DEF Call
  <2>3. tx[p] = Empty
        BY <1>1, <1>7 DEF GraphInv, CallsOK, CallOK, ShapeOK
  <2>4. RowsOwned(c, tx'[p], rel')
        BY <2>1, <2>3, NothingOwned
  <2> QED BY <1>1, <2>2, <2>4, GoesOn
<1>8. CASE c.op # "ldif"
  <2>1. RowsOwned(c, [tx[p] EXCEPT !.rel[i] = row], rel)
        BY <1>1, <1>2, <1>3, <1>4, <1>6, OneMoreOwned
  <2> QED BY <1>1, <1>5, <1>8, <2>1, WriteOwns
<1> QED BY <1>7, <1>8

LEMMA UnlinkOwns == ASSUME TellInv, NEW p \in Procs, Unlink(p) PROVE Owns(p)'
<1> DEFINE s == Stmt(p)
           c == call[p]
<1>1. /\ GraphInv /\ tx[p] \in Transaction /\ HasStatement(p) /\ s.do = "unlink" /\ Step(p)
      /\ RowsOwned(c, tx[p], rel) /\ TodoOwned(c, rel) /\ Write(p, s.id, Deleted, {})
      BY DEF TellInv, GraphInv, GraphTypeOK, Unlink, Runs, Step, Owns
<1>2. c.op \in {"delete", "patch"} /\ s.id \in RelIds
      BY <1>1, FirstStatement DEF GraphInv, Fits, May
<1>3. c.op = "delete" => (Stored(rel[s.id]) => rel[s.id].source = c.sheet)
  <2>1. c.todo[1] = s /\ 1 \in 1 .. Len(c.todo)
        BY <1>1, AtStatement DEF GraphInv
  <2> QED BY <1>1, <2>1 DEF TodoOwned
<1>4. ~Stored(Deleted) /\ Keeps(rel[s.id], Deleted)
      BY DEF Stored, Keeps
<1> HIDE DEF s
<1>5. RowsOwned(c, [tx[p] EXCEPT !.rel[s.id] = Deleted], rel)
      BY <1>1, <1>2, <1>3, <1>4, OneMoreOwned
<1> QED BY <1>1, <1>2, <1>5, WriteOwns

LEMMA MoveOwns == ASSUME TellInv, NEW p \in Procs, Move(p) PROVE Owns(p)'
<1> DEFINE s == Stmt(p)
           c == call[p]
           old == Seen(p, s.id)
           row == MovedRow(p, s)
<1>1. /\ GraphInv /\ tx[p] \in Transaction /\ HasStatement(p) /\ s.do = "move" /\ Step(p)
      /\ RowsOwned(c, tx[p], rel) /\ Write(p, s.id, row, {}) /\ Stored(old)
      BY DEF TellInv, GraphInv, GraphTypeOK, Move, Movable, Addressed, Runs, Step, Owns
<1>2. c.op = "patch" /\ s.id \in RelIds /\ s.target \in Sheets
      BY <1>1, FirstStatement DEF GraphInv, Fits, May
<1>3. old \in Row
      BY <1>1, <1>2, SeenSound
<1>4. row \in Row /\ row.source = old.source
      BY <1>2, <1>3 DEF MovedRow, Row
<1>5. Keeps(old, row)
      BY <1>1, <1>4, RelationAssumption DEF Keeps, Stored
<1>6. Keeps(rel[s.id], old)
      BY <1>1, <1>2 DEF Seen, Written, RowsOwned, Keeps
<1> HIDE DEF s, old, row
<1>7. Keeps(rel[s.id], row)
      BY <1>5, <1>6, KeepsTwice
<1>8. RowsOwned(c, [tx[p] EXCEPT !.rel[s.id] = row], rel)
      BY <1>1, <1>2, <1>7, OneMoreOwned
<1> QED BY <1>1, <1>2, <1>8, WriteOwns

LEMMA MarkOwns == ASSUME TellInv, NEW p \in Procs, Touch(p) \/ Drop(p) PROVE Owns(p)'
<1>1. /\ GraphInv /\ tx[p] \in Transaction /\ tx \in [Procs -> Transaction] /\ HasStatement(p)
      /\ Step(p) /\ Advance(p, {}) /\ UNCHANGED rel /\ RowsOwned(call[p], tx[p], rel)
      BY DEF TellInv, GraphInv, GraphTypeOK, Touch, Drop, Runs, Step, Owns
<1>2. tx'[p].rel = tx[p].rel
      BY <1>1 DEF Touch, Drop, Transaction
<1>3. RowsOwned(call[p], tx'[p], rel')
      BY <1>1, <1>2 DEF RowsOwned
<1>4. /\ call'[p].op = call[p].op /\ call'[p].sheet = call[p].sheet
      /\ call'[p].todo = Tail(call[p].todo)
      BY <1>1, AdvanceMoves DEF GraphInv
<1> QED BY <1>1, <1>3, <1>4, GoesOn

LEMMA UnlinkAllOwns == ASSUME TellInv, NEW p \in Procs, UnlinkAll(p) PROVE Owns(p)'
<1> DEFINE f == Stmt(p).source
           c == call[p]
           rows == [i \in RelIds |-> IF Committed(i) /\ f \in Ends(rel[i])
                                     THEN Deleted ELSE tx[p].rel[i]]
<1>1. /\ GraphInv /\ tx[p] \in Transaction /\ HasStatement(p) /\ Stmt(p).do = "unlinkAll"
      /\ Step(p) /\ Advance(p, {}) /\ UNCHANGED rel /\ RowsOwned(c, tx[p], rel)
      /\ TodoOwned(c, rel) /\ tx'[p] = [tx[p] EXCEPT !.rel = rows]
      BY DEF TellInv, GraphInv, GraphTypeOK, UnlinkAll, Runs, Step, Owns
<1>2. c.op = "remove"
      BY <1>1, FirstStatement DEF GraphInv, Fits, May
<1>3. f = c.sheet
  <2>1. c.todo[1] = Stmt(p) /\ 1 \in 1 .. Len(c.todo)
        BY <1>1, AtStatement DEF GraphInv
  <2> QED BY <1>1, <1>2, <2>1 DEF TodoOwned
<1>4. \A i \in RelIds : tx'[p].rel[i] = IF Committed(i) /\ f \in Ends(rel[i])
                                       THEN Deleted ELSE tx[p].rel[i]
      BY <1>1 DEF Transaction
<1> HIDE DEF rows, f
<1>5. ~Stored(Deleted) /\ \A i \in RelIds : Keeps(rel[i], Deleted)
      BY DEF Stored, Keeps
<1>6. RowsOwned(c, tx'[p], rel')
      BY <1>1, <1>2, <1>3, <1>4, <1>5 DEF RowsOwned
<1>7. call'[p].op = c.op /\ call'[p].sheet = c.sheet /\ call'[p].todo = Tail(c.todo)
      BY <1>1, AdvanceMoves DEF GraphInv
<1> QED BY <1>1, <1>6, <1>7, GoesOn

\* Steps that leave the handler's transaction behind, or do not concern it.
LEMMA EndOwns ==
    ASSUME TellInv, NEW p \in Procs, Commit(p) \/ ReadAgain(p) \/ Emit(p) \/ Visit(p)
    PROVE  Owns(p)'
<1> DEFINE c == call[p]
<1>1. /\ GraphInv /\ c \in Call /\ call \in [Procs -> Call] /\ tx \in [Procs -> Transaction]
      /\ CallOK(c, tx[p], linked) /\ Step(p)
      BY DEF TellInv, GraphInv, GraphTypeOK, CallsOK, Step
<1>2. tx'[p] = Empty
  <2>1. CASE Commit(p)
        BY <1>1, <2>1 DEF Commit
  <2>2. CASE ReadAgain(p) \/ Emit(p)
        BY <1>1, <2>2 DEF ReadAgain, Emit, CallOK, ShapeOK
  <2>3. CASE Visit(p)
    <3>1. c.op = "explain" /\ tx' = tx
          BY <1>1, <2>3, FirstStatement DEF Visit, Runs, GraphInv, Fits, May
    <3> QED BY <1>1, <3>1 DEF CallOK, ShapeOK
  <2> QED BY <2>1, <2>2, <2>3
<1>3. call'[p] = Idle \/
      (/\ call'[p].op = c.op /\ call'[p].sheet = c.sheet
       /\ call'[p].todo = c.todo \/ (HasStatement(p) /\ call'[p].todo = Tail(c.todo)))
  <2>1. CASE Commit(p)
    <3>1. call'[p] = [c EXCEPT !.at = IF c.op = "patch" THEN "after" ELSE "emit"]
          BY <1>1, <2>1 DEF Commit
    <3> QED BY <1>1, <3>1 DEF Call
  <2>2. CASE ReadAgain(p) \/ Emit(p)
    <3>1. \/ call'[p] = Idle
          \/ call'[p] = [c EXCEPT !.at = "emit"]
          \/ call'[p] = [c EXCEPT !.at = "run", !.made = {}]
          BY <1>1, <2>2 DEF ReadAgain, Emit
    <3> QED BY <1>1, <3>1 DEF Call
  <2>3. CASE Visit(p)
    <3>1. HasStatement(p) /\ \E found, at :
              call'[p] = [c EXCEPT !.todo = Tail(c.todo), !.found = found, !.at = at]
          BY <1>1, <2>3 DEF Visit, Runs
    <3> QED BY <1>1, <3>1 DEF Call
  <2> QED BY <2>1, <2>2, <2>3
<1>4. RowsOwned(c, tx'[p], rel')
      BY <1>2, NothingOwned
<1> QED BY <1>1, <1>2, <1>3, <1>4, IdleOwns, GoesOn

\* One handler's step keeps what it owns its own.
LEMMA StepOwns ==
    ASSUME TellInv, NEW p \in Procs, GraphCalls(p) \/ Step(p) \/ TimeOut(p) PROVE Owns(p)'
<1>1. GraphInv /\ call \in [Procs -> Call] /\ tx \in [Procs -> Transaction]
      BY DEF TellInv, GraphInv, GraphTypeOK
<1>2. CASE Fail(p) \/ AbortVictim(p) \/ TimeOut(p)
      BY <1>1, <1>2, IdleOwns DEF Fail, AbortVictim, TimeOut, Finish
<1>3. CASE KeepOnly(p)
  <2>1. HasStatement(p) /\ Stmt(p).do = "keepOnly" /\ call'[p] = Idle /\ tx' = tx
        BY <1>3 DEF KeepOnly, Runs
  <2>2. tx[p] = Empty
    <3>1. call[p].op = "ldif"
          BY <1>1, <2>1, FirstStatement DEF GraphInv, Fits, May
    <3> QED BY <1>1, <3>1 DEF GraphInv, CallsOK, CallOK, ShapeOK
  <2> QED BY <2>1, <2>2, IdleOwns
<1>4. CASE Link(p) \/ Unlink(p) \/ Move(p)
      BY <1>4, LinkOwns, UnlinkOwns, MoveOwns
<1>5. CASE Touch(p) \/ Drop(p) \/ UnlinkAll(p)
      BY <1>5, MarkOwns, UnlinkAllOwns
<1>6. CASE Commit(p) \/ ReadAgain(p) \/ Emit(p) \/ Visit(p)
      BY <1>6, EndOwns
<1>7. CASE GraphCalls(p)
      BY <1>1, <1>7, CallsOwn
<1> QED BY <1>2, <1>3, <1>4, <1>5, <1>6, <1>7 DEF Step

LEMMA TellInit == GraphInit => TellInv
<1> SUFFICES ASSUME GraphInit PROVE TellInv
    OBVIOUS
<1>1. \A p \in Procs : RowsOwned(call[p], tx[p], rel) /\ TodoOwned(call[p], rel)
      BY NothingOwned DEF GraphInit, TodoOwned, Idle
<1> QED BY <1>1, InitOK DEF TellInv, Owns

LEMMA TellNext == TellInv /\ [GraphNext]_graphVars => TellInv'
<1> SUFFICES ASSUME TellInv, [GraphNext]_graphVars PROVE TellInv'
    OBVIOUS
<1>1. GraphInv'
      BY NextOK DEF TellInv
<1>2. CASE UNCHANGED graphVars
      BY <1>1, <1>2 DEF graphVars, TellInv, Owns
<1>3. CASE GraphCrash
  <2>1. \A q \in Procs : call'[q] = Idle /\ tx'[q] = Empty
        BY <1>3 DEF GraphCrash
  <2> QED BY <1>1, <2>1, IdleOwns DEF TellInv
<1>4. ASSUME NEW p \in Procs, GraphCalls(p) \/ Step(p) \/ TimeOut(p) PROVE TellInv'
  <2>1. ASSUME NEW q \in Procs PROVE Owns(q)'
        BY <1>4, StepOwns, OtherOwns
  <2> QED BY <1>1, <2>1 DEF TellInv
<1> QED BY <1>2, <1>3, <1>4 DEF GraphNext

\* A transaction that commits raises the rev of its call's sheet, or removes it.
LEMMA CommitTells ==
    ASSUME GraphInv, NEW p \in Procs, Commit(p)
    PROVE  /\ call[p].op \in {"upsert", "delete", "patch", "remove"}
           /\ Tells(call[p].sheet)
           /\ call[p].op = "remove" =>
                 sheet[call[p].sheet].live /\ ~sheet'[call[p].sheet].live
           /\ Acts(p)
<1> DEFINE f == call[p].sheet
<1>1. call[p].at = "commit" /\ call[p] \in Call /\ call \in [Procs -> Call]
      BY DEF Commit, GraphInv, GraphTypeOK
<1>2. call'[p].at \in {"after", "emit"}
      BY <1>1 DEF Commit, Call
<1>3. /\ call[p].op \in {"upsert", "delete", "patch", "remove"}
      /\ f \in (IF call[p].op = "remove" THEN tx[p].dropped ELSE tx[p].touched)
      /\ f \in Sheets /\ (call[p].op = "remove" => sheet[f].live)
      BY <1>1, CommitMarks
<1>4. /\ sheet'[f].live = (sheet[f].live /\ f \notin tx[p].dropped)
      /\ sheet'[f].rev = IF f \in tx[p].touched THEN sheet[f].rev + 1 ELSE sheet[f].rev
      BY <1>3 DEF Commit
<1>5. sheet[f].rev \in Nat
      BY <1>3 DEF GraphInv, GraphTypeOK
<1> HIDE DEF f
<1>6. CASE call[p].op = "remove"
      BY <1>1, <1>2, <1>3, <1>4, <1>6 DEF Acts, Tells, f
<1>7. CASE call[p].op # "remove"
  <2>1. sheet'[f].rev > sheet[f].rev
        BY <1>3, <1>4, <1>5, <1>7
  <2> QED BY <1>1, <1>2, <1>3, <1>7, <2>1 DEF Acts, Tells, f
<1> QED BY <1>6, <1>7

\* An LDIF run that writes goes on, or ends.
LEMMA LdifActs ==
    ASSUME GraphInv, NEW p \in Procs, Link(p) \/ Unlink(p) \/ Move(p) \/ KeepOnly(p), rel' # rel
    PROVE  Acts(p) /\ call[p].op = "ldif"
<1>1. call[p] \in Call /\ call[p].at = "run"
      BY DEF GraphInv, GraphTypeOK, Link, Unlink, Move, KeepOnly, Runs, HasStatement
<1>2. CASE Link(p) \/ Unlink(p) \/ Move(p)
  <2>1. PICK i, row, made : Write(p, i, row, made)
        BY <1>2 DEF Link, Unlink, Move
  <2>2. call[p].op = "ldif"
        BY <2>1 DEF Write, InTx
  <2>3. call'[p].at = "emit"
        BY <1>1, <2>1, <2>2 DEF Write, InTx, Call
  <2> QED BY <1>1, <2>2, <2>3 DEF Acts
<1>3. CASE KeepOnly(p)
  <2>1. call[p].op = "ldif" /\ call'[p].at = "idle"
        BY <1>3, FirstStatement DEF KeepOnly, Runs, GraphInv, Fits, May, Idle
  <2> QED BY <1>1, <2>1 DEF Acts
<1> QED BY <1>2, <1>3

\* A change of the relations shows at the source of the relation, but for the
\* three ways around it.
LEMMA StepTells ==
    ASSUME TellInv, [GraphNext]_graphVars PROVE TellsOfRelations
<1> SUFFICES ASSUME NEW i \in RelIds, NEW row \in {rel[i], rel'[i]}, rel'[i] # rel[i], Stored(row)
             PROVE  \/ Tells(row.source)
                    \/ sheet[row.target].live /\ ~sheet'[row.target].live
                    \/ \E p \in Procs :
                        /\ Acts(p)
                        /\ call[p].op = "ldif" \/ (call[p].op = "patch" /\ call[p].sheet # row.source)
    BY DEF TellsOfRelations
<1>1. GraphInv
      BY DEF TellInv
<1>2. PICK p \in Procs : Link(p) \/ Unlink(p) \/ Move(p) \/ KeepOnly(p) \/ Commit(p)
      BY WhoWritesRows
<1>3. CASE Link(p) \/ Unlink(p) \/ Move(p) \/ KeepOnly(p)
      BY <1>1, <1>3, LdifActs
<1>4. CASE Commit(p)
  <2> DEFINE f == call[p].sheet
  <2>1. /\ call[p].op \in {"upsert", "delete", "patch", "remove"} /\ Tells(f) /\ Acts(p)
        /\ call[p].op = "remove" => sheet[f].live /\ ~sheet'[f].live
        BY <1>1, <1>4, CommitTells
  <2>2. rel'[i] = tx[p].rel[i] /\ tx[p].rel[i] # Same
    <3>1. rel'[i] = View(tx[p], rel, i)
          BY <1>4, TransactionTerms DEF Commit
    <3> QED BY <3>1 DEF View
  <2>3. /\ Keeps(rel[i], rel'[i])
        /\ call[p].op = "upsert" => Stored(rel'[i]) /\ rel'[i].source = f
        /\ call[p].op = "delete" => ~Stored(rel'[i]) /\ (Stored(rel[i]) => rel[i].source = f)
        /\ call[p].op = "remove" => ~Stored(rel'[i]) /\ (Stored(rel[i]) => f \in Ends(rel[i]))
        BY <2>2 DEF TellInv, Owns, RowsOwned
  <2> HIDE DEF f
  <2>4. CASE call[p].op = "upsert"
    <3>1. row.source = f
      <4>1. CASE row = rel'[i]
            BY <2>3, <2>4, <4>1
      <4>2. CASE row = rel[i]
            BY <2>3, <2>4, <4>2, KeepsUsed DEF Stored
      <4> QED BY <4>1, <4>2
    <3> QED BY <2>1, <3>1
  <2>5. CASE call[p].op = "delete"
        BY <2>1, <2>3, <2>5
  <2>6. CASE call[p].op = "remove"
    <3>1. row = rel[i] /\ (row.source = f \/ row.target = f)
          BY <2>3, <2>6 DEF Ends
    <3> QED BY <2>1, <2>6, <3>1
  <2>7. CASE call[p].op = "patch"
        BY <2>1, <2>7 DEF f
  <2> QED BY <2>1, <2>4, <2>5, <2>6, <2>7
<1> QED BY <1>2, <1>3, <1>4

\* Every variable keeps its type; no relation crosses workspaces or outlives its
\* sheets; events name committed relations only.
THEOREM GraphSafe ==
    GraphSpec => [](GraphTypeOK /\ OneWorkspace /\ NoDangling /\ AnnouncedWereLinked)
<1>1. GraphSpec => []GraphInv
      BY InitOK, NextOK, PTL DEF GraphSpec
<1> QED BY <1>1, InvImplies, PTL

\* A change of a relation raises the rev of the sheet it starts at, or comes with
\* that sheet's end; but for the changes of LDIF runs, of patches of other sheets
\* that name the relation by its id, and of the deletion of its target.
THEOREM GraphTells == GraphSpec => RevTellsOfRelations
<1>1. GraphSpec => []TellInv
      BY TellInit, TellNext, PTL DEF GraphSpec
<1>2. TellInv /\ [GraphNext]_graphVars => [TellsOfRelations]_graphVars
      BY StepTells
<1> QED BY <1>1, <1>2, PTL DEF GraphSpec, RevTellsOfRelations

\* permanentDelete unlinks whatever could keep its sheet from being deleted: if
\* nobody else commits meanwhile its last statement meets no relation.
THEOREM RemovalUnhindered == GraphSpec => []NotInItsOwnWay
<1>1. GraphSpec => []QuietInv
      BY QuietInit, QuietNext, PTL DEF GraphSpec
<1> QED BY <1>1, QuietRemoval, PTL

\* An explanation that nobody commits beside is exactly what lies within two
\* hops, over however many queries it was put together.
THEOREM ExplanationExact == GraphSpec => []ExplainExact
<1>1. GraphSpec => []QuietInv
      BY QuietInit, QuietNext, PTL DEF GraphSpec
<1> QED BY <1>1, QuietAnswer, PTL

\* A full item that gets to its end leaves its source no relation of the type that
\* it does not name, whoever commits beside it, and lacks none if nobody does; no
\* other relation is touched.
THEOREM FullItemsExact == GraphSpec => FullModeExact
<1>1. GraphSpec => []QuietInv
      BY QuietInit, QuietNext, PTL DEF GraphSpec
<1>2. QuietInv /\ [GraphNext]_graphVars => [KeepsExactly]_graphVars
      BY QuietItem
<1> QED BY <1>1, <1>2, PTL DEF GraphSpec, FullModeExact
=============================================================================
