------------------------ MODULE FactSheetPatchProofs ------------------------
(***************************************************************************)
(* For any number of handlers, sheets, attributes and patch lists: the     *)
(* completion of a committed sheet is current, and every committed change  *)
(* raises its rev by one.  While requests do not overlap, external ids are *)
(* unique and phases are kept.                                             *)
(***************************************************************************)
EXTENDS FactSheetPatch, FiniteSetTheorems, TLAPS

-----------------------------------------------------------------------------
(* Types                                                                   *)

\* The labels at which a handler has no transaction open, or an empty one.
Outside == {"idle", "unique", "insert", "load", "after"}

\* A handler in the patch loop points at one of its patches, and writes a
\* column only for a column patch.
Pointing ==
    \A p \in Procs :
        /\ pc[p] \in {"patch", "write"} => tx[p].next \in 1 .. Len(req[p].patches)
        /\ pc[p] = "write" => Patch(p).kind \in ColumnKinds
        /\ pc[p] \in Outside => tx[p] = NoTx

Typed == TypeOK /\ Pointing

\* The completion is a number: a type has finitely many mandatory fields.
LEMMA CompletionType == \A r, v : Completion(r, v) \in Nat
BY ConstantsAssumption, FS_Subset, FS_CardinalityType DEF Completion, Filled

\* The values of an idle handler are well typed.
LEMMA IdleTypes == /\ Blank \in Rows
                   /\ NoTx \in Txs
                   /\ NoRequest \in Requests
<1>1. Blank \in Rows
      BY DEF Blank, Rows
<1>2. [a \in Attrs |-> FALSE] \in [Attrs -> BOOLEAN]
      OBVIOUS
<1>3. NoTx \in Txs
      BY <1>1, <1>2 DEF NoTx, Txs
<1>4. NoRequest \in Requests
      BY ConstantsAssumption DEF NoRequest, Requests
<1> QED BY <1>1, <1>3, <1>4

\* What a transaction sees is well typed.
LEMMA SeenTypes ==
    ASSUME TypeOK, NEW p \in Procs
    PROVE  /\ Sheet(p) \in Sheets
           /\ RowSeen(p) \in Rows
           /\ ValsSeen(p) \in [Attrs -> BOOLEAN]
           /\ tx[p] \in Txs
           /\ req[p] \in Requests
           /\ pc[p] \in Labels
<1>1. tx[p] \in Txs /\ req[p] \in Requests /\ pc[p] \in Labels
      BY DEF TypeOK
<1>2. Sheet(p) \in Sheets
      BY <1>1 DEF Sheet, Requests
<1>3. row[Sheet(p)] \in Rows /\ vals[Sheet(p)] \in [Attrs -> BOOLEAN]
      BY <1>2 DEF TypeOK
<1>4. tx[p].row \in Rows /\ tx[p].vals \in [Attrs -> BOOLEAN]
      BY <1>1 DEF Txs
<1>5. RowSeen(p) \in Rows
      BY <1>3, <1>4 DEF RowSeen
<1>6. ValsSeen(p) \in [Attrs -> BOOLEAN]
      BY <1>3, <1>4 DEF ValsSeen
<1> QED BY <1>1, <1>2, <1>5, <1>6

\* The patch at hand is a patch.
LEMMA PatchType ==
    ASSUME Typed, NEW p \in Procs, pc[p] \in {"patch", "write"}
    PROVE  Patch(p) \in Patches
<1>1. tx[p].next \in 1 .. Len(req[p].patches)
      BY DEF Typed, Pointing
<1>2. req[p].patches \in Seq(Patches)
      BY SeenTypes DEF Typed, Requests
<1> QED BY <1>1, <1>2 DEF Patch

\* A step that changes the local state of p only, to well-typed values, and
\* keeps p pointing at a patch.
LEMMA LocalStep ==
    ASSUME Typed, NEW p \in Procs, UNCHANGED <<row, vals>>,
           NEW l \in Labels, NEW r \in Requests, NEW t \in Txs,
           pc' = [pc EXCEPT ![p] = l],
           req' = [req EXCEPT ![p] = r],
           tx' = [tx EXCEPT ![p] = t],
           l \in {"patch", "write"} => t.next \in 1 .. Len(r.patches),
           l = "write" => r.patches[t.next].kind \in ColumnKinds,
           l \in Outside => t = NoTx,
           left' \in Nat, faults' \in Nat
    PROVE  Typed'
<1>1. TypeOK'
      BY DEF Typed, TypeOK
<1>2. /\ pc'[p] = l /\ req'[p] = r /\ tx'[p] = t
      /\ \A q \in Procs : q # p => pc'[q] = pc[q] /\ req'[q] = req[q] /\ tx'[q] = tx[q]
      BY DEF Typed, TypeOK
<1>3. Pointing'
      BY <1>2 DEF Typed, Pointing, Patch
<1> QED BY <1>1, <1>3 DEF Typed

\* A handler that ends, for whatever reason.
LEMMA FinishStep ==
    ASSUME Typed, NEW p \in Procs, Finish(p), UNCHANGED <<row, vals>>,
           left' \in Nat, faults' \in Nat
    PROVE  Typed'
BY IdleTypes, LocalStep DEF Finish, Goto, Labels

\* The next patch, if there is one.
LEMMA AdvanceStep ==
    ASSUME Typed, NEW p \in Procs, NEW t \in Txs, t.next = tx[p].next,
           Advance(p, t), UNCHANGED <<row, vals, req, left, faults>>
    PROVE  Typed'
<1> DEFINE u == [t EXCEPT !.next = @ + 1]
<1>1. u \in Txs /\ u.next = tx[p].next + 1 /\ tx[p].next \in Nat
      BY SeenTypes DEF Typed, Txs
<1>2. req[p] \in Requests /\ Len(req[p].patches) \in Nat
      BY SeenTypes DEF Typed, Requests
<1>3. AfterPatch(p, u.next) \in Labels
      BY DEF AfterPatch, Order, Labels
<1>4. AfterPatch(p, u.next) # "write"
      BY DEF AfterPatch, Order
<1>5. AfterPatch(p, u.next) = "patch" => u.next \in 1 .. Len(req[p].patches)
      BY <1>1, <1>2 DEF AfterPatch, Order
<1>6. /\ pc' = [pc EXCEPT ![p] = AfterPatch(p, u.next)]
      /\ tx' = [tx EXCEPT ![p] = u]
      /\ req' = [req EXCEPT ![p] = req[p]]
      BY <1>1 DEF Advance, Goto, Typed, TypeOK
<1>7. left' \in Nat /\ faults' \in Nat
      BY DEF Typed, TypeOK
<1> HIDE DEF u
<1> QED BY <1>1, <1>2, <1>3, <1>4, <1>5, <1>6, <1>7, LocalStep DEF AfterPatch, Order, Outside

\* A statement of the transaction that does not end it: the process's own row
\* and attributes, and the next label.
LEMMA StatementStep ==
    ASSUME Typed, NEW p \in Procs, NEW t \in Txs, t.next = tx[p].next,
           NEW l \in Labels, l # "patch",
           l = "write" => pc[p] \in {"patch", "write"} /\ Patch(p).kind \in ColumnKinds,
           l \in Outside => t = NoTx,
           Goto(p, l), tx' = [tx EXCEPT ![p] = t],
           UNCHANGED <<row, vals, req, left, faults>>
    PROVE  Typed'
<1>1. req[p] \in Requests /\ req' = [req EXCEPT ![p] = req[p]]
      BY DEF Typed, TypeOK
<1>2. left' \in Nat /\ faults' \in Nat
      BY DEF Typed, TypeOK
<1>3. l = "write" => t.next \in 1 .. Len(req[p].patches)
      BY DEF Typed, Pointing
<1>4. l = "write" => req[p].patches[t.next].kind \in ColumnKinds
      BY DEF Patch
<1> QED BY <1>1, <1>2, <1>3, <1>4, LocalStep DEF Goto

\* One column written is still a row.
LEMMA PatchedType ==
    ASSUME Typed, NEW p \in Procs, pc[p] = "write", NEW r \in Rows
    PROVE  Patched(p, r) \in Rows /\ Patched(p, r).state = r.state
           /\ Patched(p, r).rev = r.rev
<1>1. Patch(p) \in Patches /\ Patch(p).kind \in ColumnKinds
      BY PatchType DEF Typed, Pointing
<1>2. tx[p].seen \subseteq Phases
      BY SeenTypes DEF Typed, Txs
<1>3. CASE Patch(p).kind = "externalId"
  <2>1. Patch(p).val \in ExtIds \cup {None}
        BY <1>1, <1>3 DEF Patches
  <2>2. Patched(p, r) = [r EXCEPT !.externalId = Patch(p).val]
        BY <1>3 DEF Patched
  <2> QED BY <2>1, <2>2 DEF Rows
<1>4. CASE Patch(p).kind = "description"
  <2>1. Patch(p).val \in BOOLEAN
        BY <1>1, <1>4 DEF Patches
  <2>2. Patched(p, r) = [r EXCEPT !.description = Patch(p).val]
        BY <1>4 DEF Patched
  <2> QED BY <2>1, <2>2 DEF Rows
<1>5. CASE Patch(p).kind = "lifecycle"
  <2>1. Patch(p).val \in SUBSET Phases
        BY <1>1, <1>5 DEF Patches
  <2>2. Patched(p, r) = [r EXCEPT !.lifecycle = TRUE, !.phases = Patch(p).val]
        BY <1>5 DEF Patched
  <2> QED BY <2>1, <2>2 DEF Rows
<1>6. CASE Patch(p).kind = "phase"
  <2>1. Patch(p).val \in Phases
        BY <1>1, <1>6 DEF Patches
  <2>2. Patched(p, r) = [r EXCEPT !.lifecycle = TRUE,
                                  !.phases = tx[p].seen \cup {Patch(p).val}]
        BY <1>6 DEF Patched
  <2>3. tx[p].seen \cup {Patch(p).val} \in SUBSET Phases
        BY <1>2, <2>1
  <2> QED BY <2>2, <2>3 DEF Rows
<1> QED BY <1>1, <1>3, <1>4, <1>5, <1>6 DEF ColumnKinds

\* The two calls.
LEMMA CallStep ==
    ASSUME Typed, NEW p \in Procs, Calls(p)
    PROVE  Typed'
<1> USE DEF Labels
<1>1. ASSUME NEW f \in Sheets, NEW patches \in PatchLists, NEW v \in BOOLEAN,
             NEW target \in {None} \cup 1 .. row[f].rev,
             CallUpdate(p, f, patches, target, v)
      PROVE  Typed'
  <2> DEFINE r == [id |-> f, externalId |-> None, description |-> FALSE,
                   patches |-> patches, rev |-> target, validateOnly |-> v]
  <2>1. row[f].rev \in Nat
        BY DEF Typed, TypeOK, Rows
  <2>2. target \in Nat \cup {None}
        BY <2>1
  <2>3. patches \in Seq(Patches)
        BY ConstantsAssumption
  <2>4. r \in Requests
        BY <2>2, <2>3 DEF Requests
  <2>5. tx[p] \in Txs /\ tx[p] = NoTx /\ tx' = [tx EXCEPT ![p] = tx[p]]
    <3>1. tx' = tx /\ pc[p] = "idle"
          BY <1>1 DEF CallUpdate
    <3> QED BY <3>1, SeenTypes DEF Typed, TypeOK, Pointing, Outside
  <2>6. /\ pc' = [pc EXCEPT ![p] = "load"]
        /\ req' = [req EXCEPT ![p] = r]
        /\ UNCHANGED <<row, vals>> /\ left' \in Nat /\ faults' \in Nat
        BY <1>1 DEF CallUpdate, Goto, Typed, TypeOK
  <2> HIDE DEF r
  <2> QED BY <2>4, <2>5, <2>6, LocalStep
<1>2. ASSUME NEW x \in ExtIds \cup {None}, NEW d \in BOOLEAN,
             NEW patches \in PatchLists \cup {<<>>}, CallCreate(p, x, d, patches)
      PROVE  Typed'
  <2> DEFINE r == [id |-> NoRequest.id, externalId |-> x, description |-> d,
                   patches |-> patches, rev |-> None, validateOnly |-> FALSE]
  <2>1. patches \in Seq(Patches)
    <3>1. <<>> \in Seq(Patches)
          OBVIOUS
    <3>2. PatchLists \subseteq Seq(Patches)
          BY ConstantsAssumption
    <3> QED BY <3>1, <3>2, Zenon
  <2>2. r \in Requests
    <3>1. NoRequest.id \in Sheets
          BY ConstantsAssumption DEF NoRequest
    <3> QED BY <2>1, <3>1 DEF Requests
  <2>3. tx[p] \in Txs /\ tx[p] = NoTx /\ tx' = [tx EXCEPT ![p] = tx[p]]
    <3>1. tx' = tx /\ pc[p] = "idle"
          BY <1>2 DEF CallCreate
    <3> QED BY <3>1, SeenTypes DEF Typed, TypeOK, Pointing, Outside
  <2>4. /\ pc' = [pc EXCEPT ![p] = "unique"]
        /\ req' = [req EXCEPT ![p] = r]
        /\ UNCHANGED <<row, vals>> /\ left' \in Nat /\ faults' \in Nat
        BY <1>2 DEF CallCreate, Goto, Typed, TypeOK
  <2> HIDE DEF r
  <2> QED BY <2>2, <2>3, <2>4, LocalStep
<1> QED BY <1>1, <1>2 DEF Calls, CallDiscover

\* A failing handler.
LEMMA FailStep ==
    ASSUME Typed, NEW p \in Procs, Fail(p)
    PROVE  Typed'
BY FinishStep DEF Fail, Typed, TypeOK

\* The steps of a handler keep the types.
LEMMA TypedHandler ==
    ASSUME Typed, NEW p \in Procs, Step(p)
    PROVE  Typed'
<1> USE DEF Labels
<1> DEFINE t == tx[p]
           s == RowSeen(p)
<1>0. /\ t \in Txs /\ s \in Rows /\ ValsSeen(p) \in [Attrs -> BOOLEAN]
      /\ req[p] \in Requests /\ Sheet(p) \in Sheets
      BY SeenTypes DEF Typed
<1>1. CASE CheckUnique(p)
  <2>1. CASE Fail(p)
        BY <2>1, FailStep
  <2>2. CASE Goto(p, "insert") /\ UNCHANGED <<row, vals, req, tx, left, faults>>
    <3>1. t = NoTx /\ tx' = [tx EXCEPT ![p] = t]
          BY <1>1, <2>2 DEF CheckUnique, Typed, TypeOK, Pointing, Outside
    <3> QED BY <1>0, <2>2, <3>1, StatementStep
  <2> QED BY <1>1, <2>1, <2>2 DEF CheckUnique
<1>2. ASSUME NEW f \in Sheets, Insert(p, f) PROVE Typed'
  <2> DEFINE new == [Blank EXCEPT !.state = "live", !.externalId = req[p].externalId,
                                  !.description = req[p].description]
             new2 == [new EXCEPT !.completion = Completion(new, vals[f])]
  <2>1. new2 \in Rows
    <3>1. req[p].externalId \in ExtIds \cup {None} /\ req[p].description \in BOOLEAN
          BY <1>0 DEF Requests
    <3>2. new \in Rows
          BY <3>1 DEF Blank, Rows
    <3>3. Completion(new, vals[f]) \in Nat
          BY CompletionType
    <3> HIDE DEF new
    <3> QED BY <3>2, <3>3 DEF Rows
  <2>2. /\ row' = [row EXCEPT ![f] = new2] /\ UNCHANGED <<vals, left, faults>>
        /\ \/ Finish(p)
           \/ /\ Goto(p, "load") /\ req' = [req EXCEPT ![p].id = f] /\ UNCHANGED tx
        BY <1>2 DEF Insert
  <2> HIDE DEF new2
  <2>3. row' \in [Sheets -> Rows]
        BY <2>1, <2>2 DEF Typed, TypeOK
  <2>4. [req[p] EXCEPT !.id = f] \in Requests
        BY <1>0 DEF Requests
  <2>5. /\ req' \in [Procs -> Requests] /\ tx' \in [Procs -> Txs]
        /\ pc' \in [Procs -> Labels]
        BY <2>2, <2>4, IdleTypes DEF Finish, Goto, Typed, TypeOK
  <2>6. pc'[p] \notin {"patch", "write"}
        BY <2>2 DEF Finish, Goto, Typed, TypeOK
  <2>7. \A q \in Procs : q # p => pc'[q] = pc[q] /\ req'[q] = req[q] /\ tx'[q] = tx[q]
        BY <2>2 DEF Finish, Goto, Typed, TypeOK
  <2>8. Pointing'
    <3>1. tx'[p] = NoTx
          BY <1>2, <2>2 DEF Insert, Finish, Typed, TypeOK, Pointing, Outside
    <3> QED BY <2>6, <2>7, <3>1 DEF Typed, Pointing, Patch
  <2> QED BY <2>2, <2>3, <2>5, <2>8 DEF Typed, TypeOK
<1>3. CASE Load(p)
  <2>1. CASE Fail(p)
        BY <2>1, FailStep
  <2>2. CASE Goto(p, AfterPatch(p, 1)) /\ UNCHANGED <<row, vals, req, tx, left, faults>>
    <3>1. CASE AfterPatch(p, 1) = "patch"
      <4>1. Len(req[p].patches) \in Nat /\ 1 <= Len(req[p].patches)
            BY <1>0, <3>1 DEF AfterPatch, Order, Requests
      <4>2. t.next = 1
            BY <1>3 DEF Load, Typed, Pointing, Outside, NoTx
      <4>3. /\ pc' = [pc EXCEPT ![p] = "patch"]
            /\ req' = [req EXCEPT ![p] = req[p]] /\ tx' = [tx EXCEPT ![p] = t]
            /\ UNCHANGED <<row, vals>> /\ left' \in Nat /\ faults' \in Nat
            BY <2>2, <3>1 DEF Goto, Typed, TypeOK
      <4>4. t.next \in 1 .. Len(req[p].patches)
            BY <4>1, <4>2
      <4> QED BY <1>0, <4>3, <4>4, LocalStep DEF Outside
    <3>2. CASE AfterPatch(p, 1) = "touch"
          BY <1>0, <2>2, <3>2, StatementStep DEF Typed, TypeOK, Outside
    <3> QED BY <3>1, <3>2 DEF AfterPatch, Order
  <2> QED BY <1>3, <2>1, <2>2 DEF Load
<1>4. CASE ReadColumn(p)
  <2>1. CASE Fail(p)
        BY <2>1, FailStep
  <2>2. CASE /\ tx' = [tx EXCEPT ![p].seen = s.phases]
             /\ Goto(p, "write") /\ UNCHANGED <<row, vals, req, left, faults>>
    <3> DEFINE u == [t EXCEPT !.seen = s.phases]
    <3>1. s.phases \in SUBSET Phases
          BY <1>0 DEF Rows
    <3>2. u \in Txs /\ u.next = t.next
          BY <1>0, <3>1 DEF Txs
    <3>3. tx' = [tx EXCEPT ![p] = u]
          BY <2>2 DEF Typed, TypeOK
    <3>4. pc[p] = "patch" /\ Patch(p).kind \in ColumnKinds
          BY <1>4 DEF ReadColumn, Patching
    <3> HIDE DEF u
    <3> QED BY <2>2, <3>2, <3>3, <3>4, StatementStep DEF Outside
  <2> QED BY <1>4, <2>1, <2>2 DEF ReadColumn
<1>5. CASE WriteColumn(p)
  <2>1. CASE Fail(p)
        BY <2>1, FailStep
  <2>2. CASE /\ Advance(p, [t EXCEPT !.holdsRow = TRUE, !.row = Patched(p, s)])
             /\ UNCHANGED <<row, vals, req, left, faults>>
    <3> DEFINE u == [t EXCEPT !.holdsRow = TRUE, !.row = Patched(p, s)]
    <3>1. Patched(p, s) \in Rows
          BY <1>0, <1>5, PatchedType DEF WriteColumn
    <3>2. u \in Txs /\ u.next = t.next
          BY <1>0, <3>1 DEF Txs
    <3>3. Advance(p, u) /\ UNCHANGED <<row, vals, req, left, faults>>
          BY <2>2
    <3> HIDE DEF u
    <3> QED BY <3>2, <3>3, AdvanceStep
  <2> QED BY <1>5, <2>1, <2>2 DEF WriteColumn
<1>6. CASE WriteAttr(p)
  <2> DEFINE a == Patch(p).val
             set == Patch(p).kind = "set"
             u == [t EXCEPT !.holds = @ \cup {a}, !.vals[a] = set]
  <2>1. CASE Fail(p)
        BY <2>1, FailStep
  <2>2. CASE Advance(p, t) /\ UNCHANGED <<row, vals, req, left, faults>>
        BY <1>0, <2>2, AdvanceStep
  <2>3. CASE Advance(p, u) /\ UNCHANGED <<row, vals, req, left, faults>>
    <3>1. Patch(p) \in Patches /\ Patch(p).kind \in {"set", "unset"}
          BY <1>6, PatchType DEF WriteAttr, Patching
    <3>2. a \in Attrs /\ set \in BOOLEAN
          BY <3>1 DEF Patches
    <3>3. t.holds \cup {a} \in SUBSET Attrs
          BY <1>0, <3>2 DEF Txs
    <3>4. [t.vals EXCEPT ![a] = set] \in [Attrs -> BOOLEAN]
      <4> HIDE DEF set, a
      <4> QED BY <1>0, <3>2 DEF Txs
    <3>5. u = [t EXCEPT !.holds = t.holds \cup {a}, !.vals = [t.vals EXCEPT ![a] = set]]
          OBVIOUS
    <3>6. u \in Txs /\ u.next = t.next
      <4> DEFINE h == t.holds \cup {a}
                 w == [t.vals EXCEPT ![a] = set]
      <4>1. h \in SUBSET Attrs /\ w \in [Attrs -> BOOLEAN]
            BY <3>3, <3>4
      <4>2. u = [t EXCEPT !.holds = h, !.vals = w]
            BY <3>5
      <4> HIDE DEF h, w, u
      <4> QED BY <1>0, <4>1, <4>2 DEF Txs
    <3> HIDE DEF u
    <3> QED BY <2>3, <3>6, AdvanceStep
  <2> QED BY <1>6, <2>1, <2>2, <2>3 DEF WriteAttr
<1>7. CASE RejectPatch(p) \/ AbortValidation(p) \/ Return(p) \/ AbortVictim(p)
      BY <1>7, FailStep DEF RejectPatch, AbortValidation, Return, AbortVictim
<1>8. CASE Touch(p)
  <2>1. CASE Fail(p)
        BY <2>1, FailStep
  <2>2. CASE /\ tx' = [tx EXCEPT ![p].holdsRow = TRUE,
                                 ![p].row = [s EXCEPT !.rev = RevAfter(s)]]
             /\ Goto(p, Order.touched) /\ UNCHANGED <<row, vals, req, left, faults>>
    <3> DEFINE r == [s EXCEPT !.rev = RevAfter(s)]
               u == [t EXCEPT !.holdsRow = TRUE, !.row = r]
    <3>1. r \in Rows
          BY <1>0 DEF Rows, RevAfter
    <3>2. tx' = [tx EXCEPT ![p] = u]
          BY <2>2 DEF Typed, TypeOK
    <3> HIDE DEF r
    <3>3. u \in Txs /\ u.next = t.next
          BY <1>0, <3>1 DEF Txs
    <3> HIDE DEF u
    <3> QED BY <2>2, <3>2, <3>3, StatementStep DEF Order, Outside
  <2> QED BY <1>8, <2>1, <2>2 DEF Touch
<1>9. CASE CountFilled(p)
  <2> DEFINE n == Completion(s, ValsSeen(p))
             u == [t EXCEPT !.count = n]
  <2>1. n \in Nat
        BY CompletionType
  <2>2. tx' = [tx EXCEPT ![p] = u] /\ Goto(p, Order.counted)
        /\ UNCHANGED <<row, vals, req, left, faults>>
        BY <1>9 DEF CountFilled, Typed, TypeOK
  <2> HIDE DEF n
  <2>3. u \in Txs /\ u.next = t.next
        BY <1>0, <2>1 DEF Txs
  <2> HIDE DEF u
  <2> QED BY <2>2, <2>3, StatementStep DEF Order, Outside
<1>10. CASE StoreCompletion(p)
  <2>1. CASE Fail(p)
        BY <2>1, FailStep
  <2>2. CASE /\ tx' = [tx EXCEPT ![p].holdsRow = TRUE,
                                 ![p].row = [s EXCEPT !.completion = t.count]]
             /\ Goto(p, Order.stored) /\ UNCHANGED <<row, vals, req, left, faults>>
    <3> DEFINE r == [s EXCEPT !.completion = t.count]
               u == [t EXCEPT !.holdsRow = TRUE, !.row = r]
    <3>1. r \in Rows
          BY <1>0 DEF Rows, Txs
    <3>2. tx' = [tx EXCEPT ![p] = u]
          BY <2>2 DEF Typed, TypeOK
    <3> HIDE DEF r
    <3>3. u \in Txs /\ u.next = t.next
          BY <1>0, <3>1 DEF Txs
    <3> HIDE DEF u
    <3> QED BY <2>2, <3>2, <3>3, StatementStep DEF Order, Outside
  <2> QED BY <1>10, <2>1, <2>2 DEF StoreCompletion
<1>11. CASE Commit(p)
  <2>1. row' \in [Sheets -> Rows] /\ vals' \in [Sheets -> [Attrs -> BOOLEAN]]
        BY <1>0, <1>11 DEF Commit, Typed, TypeOK
  <2>2. /\ pc' = [pc EXCEPT ![p] = "after"] /\ tx' = [tx EXCEPT ![p] = NoTx]
        /\ req' = req /\ left' = left /\ faults' = faults
        BY <1>11 DEF Commit, Goto
  <2>3. TypeOK'
        BY <2>1, <2>2, IdleTypes DEF Typed, TypeOK
  <2>4. Pointing'
        BY <2>2 DEF Typed, TypeOK, Pointing, Patch, Outside
  <2> QED BY <2>3, <2>4 DEF Typed
<1> QED BY <1>1, <1>2, <1>3, <1>4, <1>5, <1>6, <1>7, <1>8, <1>9, <1>10, <1>11 DEF Step

\* Every step keeps the types.
LEMMA TypedStep == Typed /\ [Next]_vars => Typed'
<1> SUFFICES ASSUME Typed, [Next]_vars PROVE Typed'
    OBVIOUS
<1>1. ASSUME NEW p \in Procs, Calls(p) \/ Step(p) PROVE Typed'
      BY <1>1, CallStep, TypedHandler
<1>2. ASSUME NEW p \in Procs, TimeOut(p) PROVE Typed'
      BY <1>2, FinishStep DEF TimeOut, Typed, TypeOK
<1>3. ASSUME NEW f \in Sheets, OtherWrite(f) PROVE Typed'
  <2>1. row' \in [Sheets -> Rows]
        BY <1>3 DEF OtherWrite, Typed, TypeOK, Rows
  <2> QED BY <1>3, <2>1 DEF OtherWrite, OthersRun, Typed, TypeOK, Pointing, Patch
<1>4. ASSUME NEW f \in Sheets, Delete(f) PROVE Typed'
  <2>1. row' \in [Sheets -> Rows] /\ vals' \in [Sheets -> [Attrs -> BOOLEAN]]
        BY <1>4 DEF Delete, Typed, TypeOK, Rows
  <2> QED BY <1>4, <2>1 DEF Delete, OthersRun, Typed, TypeOK, Pointing, Patch
<1>5. CASE Crash
      BY <1>5, IdleTypes DEF Crash, Typed, TypeOK, Pointing, Labels, Outside
<1>6. CASE UNCHANGED vars
      BY <1>6 DEF vars, Typed, TypeOK, Pointing, Patch
<1> QED BY <1>1, <1>2, <1>3, <1>4, <1>5, <1>6 DEF Next

\* The initial state is well typed.
LEMMA TypedInit == Init => Typed
<1> SUFFICES ASSUME Init PROVE Typed
    OBVIOUS
<1>1. [Blank EXCEPT !.state = "live"] \in Rows
      BY DEF Blank, Rows
<1>2. [a \in Attrs |-> FALSE] \in [Attrs -> BOOLEAN]
      OBVIOUS
<1>3. TypeOK
      BY <1>1, <1>2, IdleTypes, ConstantsAssumption DEF Init, TypeOK, Labels
<1>4. Pointing
      BY DEF Init, Pointing, Outside
<1> QED BY <1>3, <1>4 DEF Typed

\* Type correctness.
THEOREM TypeCorrect == Spec => []TypeOK
<1>1. Typed => TypeOK
      BY DEF Typed
<1> QED BY <1>1, TypedInit, TypedStep, PTL DEF Spec

-----------------------------------------------------------------------------
(* The row lock                                                            *)

Inv == Typed /\ RowLocked /\ CompletionCurrent

\* Neither rev nor the stored completion counts for the completion.
LEMMA CompletionFields ==
    ASSUME NEW r, NEW s, NEW v,
           r.externalId = s.externalId, r.description = s.description,
           r.lifecycle = s.lifecycle
    PROVE  Completion(r, v) = Completion(s, v)
BY DEF Completion, Filled

\* A handler whose local state, sheet and attributes do not change keeps what
\* it knows, provided its row is not committed to by somebody else.
LEMMA Bystander ==
    ASSUME Inv, NEW q \in Procs,
           pc'[q] = pc[q], req'[q] = req[q], tx'[q] = tx[q],
           tx[q].holdsRow => /\ row'[Sheet(q)] = row[Sheet(q)]
                             /\ vals'[Sheet(q)] = vals[Sheet(q)]
    PROVE  Holding(q)' /\ Sheet(q)' = Sheet(q)
<1>1. Sheet(q)' = Sheet(q) /\ Holding(q)
      BY DEF Sheet, Inv, RowLocked
<1>2. tx[q].holdsRow => ValsSeen(q)' = ValsSeen(q)
      BY <1>1 DEF ValsSeen
<1> QED BY <1>1, <1>2 DEF Holding

\* A handler without a row, before or after its transaction.
LEMMA NotHolding ==
    ASSUME Inv, NEW p \in Procs, UNCHANGED <<row, vals>>,
           \A q \in Procs : q # p => pc'[q] = pc[q] /\ req'[q] = req[q] /\ tx'[q] = tx[q],
           ~tx'[p].holdsRow, pc'[p] \notin {"count", "store", "commit"}
    PROVE  RowLocked'
<1>1. \A q \in Procs : q # p => Holding(q)' /\ Sheet(q)' = Sheet(q)
      BY Bystander
<1>2. Holding(p)'
      BY DEF Holding
<1> QED BY <1>1, <1>2 DEF RowLocked, Inv

\* A statement of p: if p has its row afterwards, nobody else had it.
LEMMA HoldingOn ==
    ASSUME Inv, NEW p \in Procs, UNCHANGED <<row, vals, req>>,
           \A q \in Procs : q # p => pc'[q] = pc[q] /\ tx'[q] = tx[q],
           tx'[p].holdsRow =>
              \A q \in Procs : q # p /\ tx[q].holdsRow => Sheet(q) # Sheet(p),
           Holding(p)'
    PROVE  RowLocked'
<1>1. \A q \in Procs : q # p => Holding(q)' /\ Sheet(q)' = Sheet(q)
      BY Bystander
<1>2. Sheet(p)' = Sheet(p)
      BY DEF Sheet
<1> QED BY <1>1, <1>2 DEF RowLocked, Inv

\* Whoever runs an UPDATE of its sheet has it, or finds it free.
LEMMA RowFree ==
    ASSUME Inv, NEW p \in Procs, tx[p].holdsRow \/ ~Blocked(p),
           pc[p] \in {"write", "touch", "store"}
    PROVE  \A q \in Procs : q # p /\ tx[q].holdsRow => Sheet(q) # Sheet(p)
BY DEF Inv, RowLocked, Blocked, WaitsFor

\* The end of a handler keeps the locks of the others.
LEMMA FinishKeepsLocks ==
    ASSUME Inv, NEW p \in Procs, Finish(p), UNCHANGED <<row, vals>>
    PROVE  RowLocked'
<1>1. ~NoTx.holdsRow
      BY DEF NoTx
<1>2. \A q \in Procs : q # p => pc'[q] = pc[q] /\ req'[q] = req[q] /\ tx'[q] = tx[q]
      BY DEF Finish, Goto, Inv, Typed, TypeOK
<1>3. tx'[p] = NoTx /\ pc'[p] = "idle"
      BY DEF Finish, Goto, Inv, Typed, TypeOK
<1> QED BY <1>1, <1>2, <1>3, NotHolding

\* A statement that leaves the row, if it has it, as it was: the patches that
\* write no column.
LEMMA RowKept ==
    ASSUME Inv, NEW p \in Procs, UNCHANGED <<row, vals, req>>,
           NEW l \in {"patch", "write", "touch"}, NEW t,
           Goto(p, l), tx' = [tx EXCEPT ![p] = t],
           pc[p] \in {"patch", "write"},
           t.holdsRow = tx[p].holdsRow, t.row = tx[p].row
    PROVE  RowLocked'
<1>1. /\ pc'[p] = l /\ tx'[p] = t
      /\ \A q \in Procs : q # p => pc'[q] = pc[q] /\ tx'[q] = tx[q]
      BY DEF Goto, Inv, Typed, TypeOK
<1>2. Sheet(p)' = Sheet(p)
      BY DEF Sheet
<1>3. Holding(p)
      BY DEF Inv, RowLocked
<1>4. Holding(p)'
      BY <1>1, <1>2, <1>3 DEF Holding
<1>5. tx'[p].holdsRow =>
          \A q \in Procs : q # p /\ tx[q].holdsRow => Sheet(q) # Sheet(p)
      BY <1>1 DEF Inv, RowLocked
<1> QED BY <1>1, <1>4, <1>5, HoldingOn

\* A statement that writes the row.
LEMMA RowWritten ==
    ASSUME Inv, NEW p \in Procs, UNCHANGED <<row, vals, req>>,
           pc[p] \in {"write", "touch", "store"}, ~Blocked(p),
           NEW l \in {"patch", "touch", "count", "commit"}, NEW t,
           Goto(p, l), tx' = [tx EXCEPT ![p] = t], t.holdsRow,
           RowSeen(p).state = "live", t.row.state = "live",
           t.row.rev = row[Sheet(p)].rev + (IF l \in {"count", "commit"} THEN 1 ELSE 0),
           l = "commit" => /\ t.holds = tx[p].holds /\ t.vals = tx[p].vals
                           /\ t.row.completion = Completion(t.row, ValsSeen(p))
    PROVE  RowLocked'
<1>1. /\ pc'[p] = l /\ tx'[p] = t
      /\ \A q \in Procs : q # p => pc'[q] = pc[q] /\ tx'[q] = tx[q]
      BY DEF Goto, Inv, Typed, TypeOK
<1>2. Sheet(p)' = Sheet(p)
      BY DEF Sheet
<1>3. row[Sheet(p)].state = "live"
      BY DEF RowSeen, Inv, RowLocked, Holding
<1>4. l = "commit" => ValsSeen(p)' = ValsSeen(p)
      BY <1>1, <1>2 DEF ValsSeen
<1>5. Holding(p)'
      BY <1>1, <1>2, <1>3, <1>4 DEF Holding
<1> QED BY <1>1, <1>5, HoldingOn, RowFree

\* The row a handler sees, its own or the committed one, has the committed rev
\* until its rev statement.
LEMMA RevSeen ==
    ASSUME Inv, NEW p \in Procs, pc[p] \in Labels \ {"count", "store", "commit"}
    PROVE  RowSeen(p).rev = row[Sheet(p)].rev /\ row[Sheet(p)].rev \in Nat
<1>1. row[Sheet(p)].rev \in Nat
      BY SeenTypes DEF Inv, Typed, TypeOK, Rows
<1> QED BY <1>1 DEF RowSeen, Inv, RowLocked, Holding

\* The statements of a handler keep the row locks.
LEMMA LockedHandler ==
    ASSUME Inv, NEW p \in Procs, Step(p)
    PROVE  RowLocked'
<1> DEFINE t == tx[p]
           s == RowSeen(p)
<1>0. ASSUME Fail(p) PROVE RowLocked'
      BY <1>0, FinishKeepsLocks DEF Fail
<1>a. /\ t \in Txs /\ s \in Rows /\ pc[p] \in Labels /\ Holding(p)
      BY SeenTypes DEF Inv, Typed, RowLocked
<1>1. CASE CheckUnique(p)
  <2>1. CASE Goto(p, "insert") /\ UNCHANGED <<row, vals, req, tx, left, faults>>
    <3>1. ~tx'[p].holdsRow /\ pc'[p] = "insert"
          BY <1>1, <2>1 DEF CheckUnique, Goto, Inv, Typed, TypeOK, Pointing, Outside, NoTx
    <3>2. \A q \in Procs : q # p => pc'[q] = pc[q] /\ req'[q] = req[q] /\ tx'[q] = tx[q]
          BY <2>1 DEF Goto, Inv, Typed, TypeOK
    <3> QED BY <2>1, <3>1, <3>2, NotHolding
  <2> QED BY <1>0, <1>1, <2>1 DEF CheckUnique
<1>2. ASSUME NEW f \in Sheets, Insert(p, f) PROVE RowLocked'
  <2>1. /\ \A q \in Procs : q # p => pc'[q] = pc[q] /\ req'[q] = req[q] /\ tx'[q] = tx[q]
        /\ \A g \in Sheets : g # f => row'[g] = row[g] /\ vals'[g] = vals[g]
        /\ row[f].state = "free"
        BY <1>2 DEF Insert, Finish, Goto, Inv, Typed, TypeOK
  <2>2. \A q \in Procs : tx[q].holdsRow => Sheet(q) # f /\ Sheet(q) \in Sheets
        BY <2>1, SeenTypes DEF Inv, Typed, RowLocked, Holding
  <2>3. \A q \in Procs : q # p => Holding(q)' /\ Sheet(q)' = Sheet(q)
        BY <2>1, <2>2, Bystander
  <2>4. ~tx'[p].holdsRow /\ pc'[p] \in {"idle", "load"}
        BY <1>2 DEF Insert, Finish, Goto, Inv, Typed, TypeOK, Pointing, Outside, NoTx
  <2>5. Holding(p)'
        BY <2>4 DEF Holding
  <2> QED BY <2>1, <2>3, <2>4, <2>5 DEF Inv, RowLocked
<1>3. CASE Load(p)
  <2>1. CASE Goto(p, AfterPatch(p, 1)) /\ UNCHANGED <<row, vals, req, tx, left, faults>>
    <3>1. ~tx'[p].holdsRow
          BY <1>3, <2>1 DEF Load, Inv, Typed, Pointing, Outside, NoTx
    <3>2. /\ \A q \in Procs : q # p => pc'[q] = pc[q] /\ req'[q] = req[q] /\ tx'[q] = tx[q]
          /\ pc'[p] \in {"patch", "touch"}
          BY <2>1 DEF Goto, Inv, Typed, TypeOK, AfterPatch, Order
    <3> QED BY <2>1, <3>1, <3>2, NotHolding
  <2> QED BY <1>0, <1>3, <2>1 DEF Load
<1>4. CASE ReadColumn(p)
  <2>1. CASE /\ tx' = [tx EXCEPT ![p].seen = s.phases]
             /\ Goto(p, "write") /\ UNCHANGED <<row, vals, req, left, faults>>
    <3> DEFINE u == [t EXCEPT !.seen = s.phases]
    <3>1. u.holdsRow = t.holdsRow /\ u.row = t.row
          BY <1>a DEF Txs
    <3>2. tx' = [tx EXCEPT ![p] = u] /\ pc[p] = "patch"
          BY <1>4, <2>1 DEF ReadColumn, Patching, Inv, Typed, TypeOK
    <3> HIDE DEF u
    <3> QED BY <2>1, <3>1, <3>2, RowKept
  <2> QED BY <1>0, <1>4, <2>1 DEF ReadColumn
<1>5. CASE WriteColumn(p)
  <2>1. CASE /\ s.state = "live"
             /\ Advance(p, [t EXCEPT !.holdsRow = TRUE, !.row = Patched(p, s)])
             /\ UNCHANGED <<row, vals, req, left, faults>>
    <3> DEFINE u == [t EXCEPT !.holdsRow = TRUE, !.row = Patched(p, s), !.next = @ + 1]
               l == AfterPatch(p, tx[p].next + 1)
    <3>1. /\ Patched(p, s).state = "live" /\ Patched(p, s).rev = row[Sheet(p)].rev
          /\ row[Sheet(p)].rev \in Nat
          BY <1>a, <1>5, <2>1, PatchedType, RevSeen DEF WriteColumn, Inv
    <3>2. u.holdsRow /\ u.row = Patched(p, s)
          BY <1>a DEF Txs
    <3>3. l \in {"patch", "touch"} /\ Goto(p, l) /\ tx' = [tx EXCEPT ![p] = u]
          BY <2>1 DEF Advance, AfterPatch, Order
    <3>4. pc[p] = "write" /\ ~Blocked(p)
          BY <1>5 DEF WriteColumn
    <3> HIDE DEF u, l
    <3>5. u.row.rev = row[Sheet(p)].rev + (IF l \in {"count", "commit"} THEN 1 ELSE 0)
          BY <3>1, <3>2, <3>3
    <3>6. l \in {"patch", "touch", "count", "commit"} /\ l # "commit"
          BY <3>3
    <3>7. s.state = "live" /\ u.row.state = "live" /\ u.holdsRow
          BY <2>1, <3>1, <3>2
    <3> QED BY <2>1, <3>3, <3>4, <3>5, <3>6, <3>7, RowWritten
  <2> QED BY <1>0, <1>5, <2>1 DEF WriteColumn
<1>6. CASE WriteAttr(p)
  <2> DEFINE a == Patch(p).val
             set == Patch(p).kind = "set"
             w == [t EXCEPT !.holds = @ \cup {a}, !.vals[a] = set]
  <2>1. ASSUME NEW v \in {t, w}, Advance(p, v), UNCHANGED <<row, vals, req, left, faults>>
        PROVE  RowLocked'
    <3> DEFINE u == [v EXCEPT !.next = @ + 1]
               l == AfterPatch(p, tx[p].next + 1)
    <3>1. u.holdsRow = t.holdsRow /\ u.row = t.row
          BY <1>a DEF Txs
    <3>2. l \in {"patch", "touch"} /\ Goto(p, l) /\ tx' = [tx EXCEPT ![p] = u]
          BY <2>1 DEF Advance, AfterPatch, Order
    <3>3. pc[p] = "patch"
          BY <1>6 DEF WriteAttr, Patching
    <3> HIDE DEF u, l
    <3> QED BY <2>1, <3>1, <3>2, <3>3, RowKept
  <2> QED BY <1>0, <1>6, <2>1 DEF WriteAttr
<1>7. CASE RejectPatch(p) \/ AbortValidation(p) \/ Return(p) \/ AbortVictim(p)
      BY <1>0, <1>7 DEF RejectPatch, AbortValidation, Return, AbortVictim
<1>8. CASE Touch(p)
  <2>1. CASE /\ s.state = "live"
             /\ tx' = [tx EXCEPT ![p].holdsRow = TRUE,
                                 ![p].row = [s EXCEPT !.rev = RevAfter(s)]]
             /\ Goto(p, Order.touched) /\ UNCHANGED <<row, vals, req, left, faults>>
    <3> DEFINE r == [s EXCEPT !.rev = RevAfter(s)]
               u == [t EXCEPT !.holdsRow = TRUE, !.row = r]
    <3>1. pc[p] = "touch" /\ ~Blocked(p)
          BY <1>8 DEF Touch
    <3>2. r.state = "live" /\ r.rev = row[Sheet(p)].rev + 1
          BY <1>a, <2>1, <3>1, RevSeen DEF RevAfter, Rows
    <3>3. u.holdsRow /\ u.row = r
          BY <1>a DEF Txs
    <3>4. tx' = [tx EXCEPT ![p] = u] /\ Goto(p, "count")
          BY <2>1 DEF Inv, Typed, TypeOK, Order
    <3> HIDE DEF r, u
    <3> QED BY <2>1, <3>1, <3>2, <3>3, <3>4, RowWritten
  <2> QED BY <1>0, <1>8, <2>1 DEF Touch
<1>9. CASE CountFilled(p)
  <2> DEFINE n == Completion(s, ValsSeen(p))
             u == [t EXCEPT !.count = n]
  <2>1. /\ tx' = [tx EXCEPT ![p] = u] /\ Goto(p, "store")
        /\ UNCHANGED <<row, vals, req, left, faults>>
        BY <1>9 DEF CountFilled, Inv, Typed, TypeOK, Order
  <2>2. u.count = n /\ u.row = t.row /\ u.holdsRow = t.holdsRow
        /\ u.holds = t.holds /\ u.vals = t.vals
        BY <1>a DEF Txs
  <2>3. t.holdsRow /\ s = t.row
        BY <1>a, <1>9 DEF CountFilled, Holding, RowSeen
  <2> HIDE DEF u
  <2>4. /\ pc'[p] = "store" /\ tx'[p] = u
        /\ \A q \in Procs : q # p => pc'[q] = pc[q] /\ tx'[q] = tx[q]
        BY <2>1 DEF Goto, Inv, Typed, TypeOK
  <2>5. Sheet(p)' = Sheet(p) /\ ValsSeen(p)' = ValsSeen(p)
        BY <2>1, <2>2, <2>4 DEF Sheet, ValsSeen
  <2>6. Holding(p)'
        BY <1>a, <1>9, <2>1, <2>2, <2>3, <2>4, <2>5 DEF Holding, CountFilled
  <2>7. \A q \in Procs : q # p /\ tx[q].holdsRow => Sheet(q) # Sheet(p)
        BY <2>3 DEF Inv, RowLocked
  <2> QED BY <2>1, <2>4, <2>6, <2>7, HoldingOn
<1>10. CASE StoreCompletion(p)
  <2>1. CASE /\ s.state = "live"
             /\ tx' = [tx EXCEPT ![p].holdsRow = TRUE,
                                 ![p].row = [s EXCEPT !.completion = t.count]]
             /\ Goto(p, Order.stored) /\ UNCHANGED <<row, vals, req, left, faults>>
    <3> DEFINE r == [s EXCEPT !.completion = t.count]
               u == [t EXCEPT !.holdsRow = TRUE, !.row = r]
    <3>1. pc[p] = "store" /\ ~Blocked(p)
          BY <1>10 DEF StoreCompletion
    <3>2. s = t.row /\ t.row.rev = row[Sheet(p)].rev + 1
          /\ t.count = Completion(t.row, ValsSeen(p))
          BY <1>a, <3>1 DEF Holding, RowSeen
    <3>3. /\ r.state = "live" /\ r.rev = row[Sheet(p)].rev + 1 /\ r.completion = t.count
          /\ r.externalId = s.externalId /\ r.description = s.description
          /\ r.lifecycle = s.lifecycle
          BY <1>a, <2>1, <3>2 DEF Rows
    <3>4. u.holdsRow /\ u.row = r /\ u.holds = t.holds /\ u.vals = t.vals
          BY <1>a DEF Txs
    <3>5. tx' = [tx EXCEPT ![p] = u] /\ Goto(p, "commit")
          BY <2>1 DEF Inv, Typed, TypeOK, Order
    <3> HIDE DEF r, u
    <3>6. r.completion = Completion(r, ValsSeen(p))
          BY <3>2, <3>3, CompletionFields
    <3> QED BY <2>1, <3>1, <3>3, <3>4, <3>5, <3>6, RowWritten
  <2> QED BY <1>0, <1>10, <2>1 DEF StoreCompletion
<1>11. CASE Commit(p)
  <2>1. t.holdsRow
        BY <1>a, <1>11 DEF Commit, Holding
  <2>2. \A q \in Procs : q # p /\ tx[q].holdsRow => Sheet(q) # Sheet(p)
        BY <2>1 DEF Inv, RowLocked
  <2>3. /\ \A q \in Procs : q # p => pc'[q] = pc[q] /\ req'[q] = req[q] /\ tx'[q] = tx[q]
        /\ pc'[p] = "after" /\ tx'[p] = NoTx
        /\ \A g \in Sheets : g # Sheet(p) => row'[g] = row[g] /\ vals'[g] = vals[g]
        BY <1>11 DEF Commit, Goto, Inv, Typed, TypeOK
  <2>4. \A q \in Procs : Sheet(q) \in Sheets
        BY SeenTypes DEF Inv, Typed
  <2>5. \A q \in Procs : q # p => Holding(q)' /\ Sheet(q)' = Sheet(q)
        BY <2>2, <2>3, <2>4, Bystander
  <2>6. Holding(p)' /\ ~tx'[p].holdsRow
        BY <2>3 DEF Holding, NoTx
  <2> QED BY <2>3, <2>5, <2>6 DEF Inv, RowLocked
<1> QED BY <1>1, <1>2, <1>3, <1>4, <1>5, <1>6, <1>7, <1>8, <1>9, <1>10, <1>11 DEF Step

\* Every step keeps the row locks.
LEMMA LockedStep == Inv /\ [Next]_vars => RowLocked'
<1> SUFFICES ASSUME Inv, [Next]_vars PROVE RowLocked'
    OBVIOUS
<1>1. ASSUME NEW p \in Procs, Calls(p) PROVE RowLocked'
  <2>1. /\ pc[p] = "idle" /\ UNCHANGED <<row, vals, tx>>
        /\ pc'[p] \in {"load", "unique"}
        /\ \A q \in Procs : q # p => pc'[q] = pc[q] /\ req'[q] = req[q]
        BY <1>1 DEF Calls, CallUpdate, CallCreate, CallDiscover, Goto, Inv, Typed, TypeOK
  <2>2. ~tx'[p].holdsRow
        BY <2>1 DEF Inv, Typed, Pointing, Outside, NoTx
  <2> QED BY <2>1, <2>2, NotHolding
<1>2. ASSUME NEW p \in Procs, TimeOut(p) PROVE RowLocked'
      BY <1>2, FinishKeepsLocks DEF TimeOut
<1>3. ASSUME NEW f \in Sheets, OtherWrite(f) \/ Delete(f) PROVE RowLocked'
  <2>1. \A q \in Procs : tx[q].holdsRow => Sheet(q) # f /\ Sheet(q) \in Sheets
        BY <1>3, SeenTypes DEF OtherWrite, Delete, Untouched, Inv, Typed
  <2>2. /\ UNCHANGED <<pc, req, tx>>
        /\ \A g \in Sheets : g # f => row'[g] = row[g] /\ vals'[g] = vals[g]
        BY <1>3 DEF OtherWrite, Delete, Inv, Typed, TypeOK
  <2>3. \A q \in Procs : Holding(q)' /\ Sheet(q)' = Sheet(q)
        BY <2>1, <2>2, Bystander
  <2> QED BY <2>2, <2>3 DEF Inv, RowLocked
<1>4. CASE Crash
      BY <1>4 DEF Crash, RowLocked, Holding, NoTx
<1>5. CASE UNCHANGED vars
      BY <1>5 DEF vars, Inv, RowLocked, Holding, Sheet, ValsSeen
<1> QED BY <1>1, <1>2, <1>3, <1>4, <1>5, LockedHandler DEF Next

-----------------------------------------------------------------------------
(* The completion                                                          *)

\* What a commit leaves behind: its row, with the completion of its values.
LEMMA CommitStep ==
    ASSUME Inv, NEW p \in Procs, Commit(p)
    PROVE  /\ row'[Sheet(p)] = tx[p].row /\ vals'[Sheet(p)] = ValsSeen(p)
           /\ tx[p].row.completion = Completion(tx[p].row, ValsSeen(p))
           /\ tx[p].row.rev = row[Sheet(p)].rev + 1
           /\ \A f \in Sheets : f # Sheet(p) => row'[f] = row[f] /\ vals'[f] = vals[f]
<1>1. tx[p].holdsRow /\ Sheet(p) \in Sheets /\ Holding(p) /\ pc[p] = "commit"
      BY SeenTypes DEF Commit, Inv, Typed, RowLocked, Holding
<1>2. RowSeen(p) = tx[p].row
      BY <1>1 DEF RowSeen
<1> QED BY <1>1, <1>2 DEF Commit, Holding, Inv, Typed, TypeOK

\* An insert stores the completion of the new row.
LEMMA InsertStep ==
    ASSUME Inv, NEW p \in Procs, NEW f \in Sheets, Insert(p, f)
    PROVE  /\ row[f].state = "free" /\ vals' = vals
           /\ row'[f].completion = Completion(row'[f], vals'[f])
           /\ \A g \in Sheets : g # f => row'[g] = row[g]
<1> DEFINE new == [Blank EXCEPT !.state = "live", !.externalId = req[p].externalId,
                                !.description = req[p].description]
           new2 == [new EXCEPT !.completion = Completion(new, vals[f])]
<1>1. /\ row' = [row EXCEPT ![f] = new2] /\ vals' = vals /\ row[f].state = "free"
      BY DEF Insert
<1>2. /\ new2.completion = Completion(new, vals[f])
      /\ new2.externalId = new.externalId /\ new2.description = new.description
      /\ new2.lifecycle = new.lifecycle
      BY DEF Blank
<1> HIDE DEF new, new2
<1>3. Completion(new2, vals[f]) = Completion(new, vals[f])
      BY <1>2, CompletionFields
<1>4. row'[f] = new2 /\ \A g \in Sheets : g # f => row'[g] = row[g]
      BY <1>1 DEF Inv, Typed, TypeOK
<1> QED BY <1>1, <1>2, <1>3, <1>4

\* Every other step of a handler leaves the committed tables alone.
LEMMA QuietStep ==
    ASSUME NEW p \in Procs, Step(p) \/ Calls(p) \/ TimeOut(p),
           ~Commit(p), \A f \in Sheets : ~Insert(p, f)
    PROVE  UNCHANGED <<row, vals>>
BY DEF Step, Calls, CallUpdate, CallCreate, CallDiscover, TimeOut, CheckUnique, Load, ReadColumn,
       WriteColumn, WriteAttr, RejectPatch, Touch, CountFilled, StoreCompletion,
       AbortValidation, Return, AbortVictim, Fail

\* Every step keeps the completions current.
LEMMA CurrentStep == Inv /\ [Next]_vars => CompletionCurrent'
<1> SUFFICES ASSUME Inv, [Next]_vars PROVE CompletionCurrent'
    OBVIOUS
<1>1. ASSUME NEW p \in Procs, Commit(p) PROVE CompletionCurrent'
      BY <1>1, CommitStep DEF CompletionCurrent, Inv
<1>2. ASSUME NEW p \in Procs, NEW f \in Sheets, Insert(p, f) PROVE CompletionCurrent'
      BY <1>2, InsertStep DEF CompletionCurrent, Inv
<1>3. ASSUME UNCHANGED <<row, vals>> PROVE CompletionCurrent'
      BY <1>3 DEF CompletionCurrent, Inv
<1>4. ASSUME NEW f \in Sheets, OtherWrite(f) PROVE CompletionCurrent'
  <2>1. row[f] \in Rows /\ row' = [row EXCEPT ![f] = [row[f] EXCEPT !.rev = @ + 1]]
        /\ vals' = vals
        BY <1>4 DEF OtherWrite, Inv, Typed, TypeOK
  <2> DEFINE r == [row[f] EXCEPT !.rev = @ + 1]
  <2>2. /\ r.externalId = row[f].externalId /\ r.description = row[f].description
        /\ r.lifecycle = row[f].lifecycle /\ r.state = row[f].state
        /\ r.completion = row[f].completion
        BY <2>1 DEF Rows
  <2>3. row'[f] = r /\ \A g \in Sheets : g # f => row'[g] = row[g]
        BY <2>1 DEF Inv, Typed, TypeOK
  <2> HIDE DEF r
  <2>4. Completion(r, vals[f]) = Completion(row[f], vals[f])
        BY <2>2, CompletionFields
  <2> QED BY <2>1, <2>2, <2>3, <2>4 DEF CompletionCurrent, Inv
<1>5. ASSUME NEW f \in Sheets, Delete(f) PROVE CompletionCurrent'
  <2>1. /\ row'[f].state = "gone"
        /\ \A g \in Sheets : g # f => row'[g] = row[g] /\ vals'[g] = vals[g]
        BY <1>5 DEF Delete, Inv, Typed, TypeOK, Rows
  <2> QED BY <2>1 DEF CompletionCurrent, Inv
<1>6. CASE Crash \/ UNCHANGED vars
      BY <1>3, <1>6 DEF Crash, vars
<1> QED BY <1>1, <1>2, <1>3, <1>4, <1>5, <1>6, QuietStep DEF Next

\* The inductive invariant.
LEMMA InvInit == Init => Inv
<1> SUFFICES ASSUME Init PROVE Inv
    OBVIOUS
<1>1. RowLocked
      BY DEF Init, RowLocked, Holding, NoTx
<1>2. CompletionCurrent
  <2>1. ASSUME NEW f \in Sheets, row[f].state = "live"
        PROVE  row[f].completion = Completion(row[f], vals[f])
    <3>1. /\ row[f].completion = 0 /\ row[f].externalId = None
          /\ row[f].description = FALSE /\ row[f].lifecycle = FALSE
          /\ \A a \in Attrs : vals[f][a] = FALSE
          BY <2>1 DEF Init, Blank
    <3>2. Filled(row[f], vals[f]) = {}
          BY <3>1 DEF Filled
    <3> QED BY <3>1, <3>2, FS_EmptySet DEF Completion
  <2> QED BY <2>1 DEF CompletionCurrent
<1> QED BY <1>1, <1>2, TypedInit DEF Inv

LEMMA InvStep == Inv /\ [Next]_vars => Inv'
BY TypedStep, LockedStep, CurrentStep DEF Inv

\* A sheet's row has one writer at a time, and from its rev statement on an
\* update is about to commit the row it has locked, one rev later, with the
\* completion of the fields it sees.
THEOREM OneRowWriter == Spec => []RowLocked
<1>1. Inv => RowLocked
      BY DEF Inv
<1> QED BY <1>1, InvInit, InvStep, PTL DEF Spec

\* The stored completion of every sheet is that of its committed fields.
THEOREM CompletionIsCurrent == Spec => []CompletionCurrent
<1>1. Inv => CompletionCurrent
      BY DEF Inv
<1> QED BY <1>1, InvInit, InvStep, PTL DEF Spec

-----------------------------------------------------------------------------
(* The rev                                                                 *)

RevStep == \A f \in Sheets : RaisesRev(f)

LEMMA RevInv == Inv /\ [Next]_vars => RevStep
<1> SUFFICES ASSUME Inv, [Next]_vars PROVE RevStep
    OBVIOUS
<1>1. ASSUME NEW p \in Procs, Commit(p) PROVE RevStep
      BY <1>1, CommitStep DEF RevStep, RaisesRev
<1>2. ASSUME NEW p \in Procs, NEW f \in Sheets, Insert(p, f) PROVE RevStep
      BY <1>2, InsertStep DEF RevStep, RaisesRev
<1>3. ASSUME UNCHANGED <<row, vals>> PROVE RevStep
      BY <1>3 DEF RevStep, RaisesRev
<1>4. ASSUME NEW f \in Sheets, OtherWrite(f) PROVE RevStep
  <2>1. row[f] \in Rows /\ row' = [row EXCEPT ![f] = [row[f] EXCEPT !.rev = @ + 1]]
        /\ vals' = vals
        BY <1>4 DEF OtherWrite, Inv, Typed, TypeOK
  <2>2. row'[f].rev = row[f].rev + 1 /\ \A g \in Sheets : g # f => row'[g] = row[g]
        BY <2>1 DEF Inv, Typed, TypeOK, Rows
  <2> QED BY <2>1, <2>2 DEF RevStep, RaisesRev
<1>5. ASSUME NEW f \in Sheets, Delete(f) PROVE RevStep
  <2>1. /\ row'[f].state = "gone"
        /\ \A g \in Sheets : g # f => row'[g] = row[g] /\ vals'[g] = vals[g]
        BY <1>5 DEF Delete, Inv, Typed, TypeOK, Rows
  <2> QED BY <2>1 DEF RevStep, RaisesRev
<1>6. CASE Crash \/ UNCHANGED vars
      BY <1>3, <1>6 DEF Crash, vars
<1> QED BY <1>1, <1>2, <1>3, <1>4, <1>5, <1>6, QuietStep DEF Next

\* Every committed change of a sheet, in either table, raises its rev by one.
THEOREM RevCounts == Spec => RevCountsWrites
<1>1. Inv /\ [Next]_vars => [\A f \in Sheets : RaisesRev(f)]_vars
      BY RevInv DEF RevStep
<1> QED BY <1>1, InvInit, InvStep, PTL DEF Spec, RevCountsWrites
-----------------------------------------------------------------------------
(* What one statement does to its handler                                  *)

\* A step of p is p's own: the other handlers stay where they are.
LEMMA OwnStep ==
    ASSUME Inv, NEW p \in Procs, Step(p) \/ Calls(p) \/ TimeOut(p),
           NEW q \in Procs, q # p
    PROVE  pc'[q] = pc[q] /\ req'[q] = req[q] /\ tx'[q] = tx[q]
<1> USE DEF Goto, Inv, Typed, TypeOK
<1>0. ASSUME Finish(p) PROVE pc'[q] = pc[q] /\ req'[q] = req[q] /\ tx'[q] = tx[q]
      BY <1>0 DEF Finish
<1>1. CASE CheckUnique(p) \/ Load(p) \/ ReadColumn(p)
      BY <1>0, <1>1 DEF CheckUnique, Load, ReadColumn, Fail
<1>2. ASSUME NEW f \in Sheets, Insert(p, f)
      PROVE  pc'[q] = pc[q] /\ req'[q] = req[q] /\ tx'[q] = tx[q]
      BY <1>0, <1>2 DEF Insert
<1>3. CASE WriteColumn(p)
      BY <1>0, <1>3 DEF WriteColumn, Advance, Fail
<1>4. CASE WriteAttr(p)
      BY <1>0, <1>4 DEF WriteAttr, Advance, Fail
<1>5. CASE Touch(p) \/ CountFilled(p) \/ StoreCompletion(p) \/ Commit(p)
      BY <1>0, <1>5 DEF Touch, CountFilled, StoreCompletion, Commit, Fail
<1>6. CASE RejectPatch(p) \/ AbortValidation(p) \/ Return(p) \/ AbortVictim(p) \/ TimeOut(p)
      BY <1>0, <1>6 DEF RejectPatch, AbortValidation, Return, AbortVictim, TimeOut, Fail
<1>7. CASE Calls(p)
      BY <1>7 DEF Calls, CallUpdate, CallCreate, CallDiscover
<1> QED BY <1>1, <1>2, <1>3, <1>4, <1>5, <1>6, <1>7 DEF Step

\* The handler is before or after its transaction, and goes on to the insert
\* only with an external id that is free.
Elsewhere(p) ==
    /\ pc'[p] \in Outside
    /\ pc'[p] = "insert" => req' = req /\ ~Collides(req[p].externalId, Sheets)

\* The labels of the statements of an update.
Running == {"patch", "write", "touch", "count", "store", "commit"}

\* The handler has read the row for a column patch.
HasRead(p) ==
    /\ pc[p] = "patch" /\ pc'[p] = "write" /\ req' = req
    /\ tx'[p] = [tx[p] EXCEPT !.seen = RowSeen(p).phases]
    /\ Patch(p).kind = "externalId" => ~Collides(Patch(p).val, Sheets \ {Sheet(p)})

\* The handler has run another statement: if it has its row afterwards, it is
\* the row it saw, up to rev and completion, or that row with one patch.  It
\* came from another statement, or from a rev check that let it pass.
HasRun(p) ==
    /\ pc'[p] \in {"patch", "touch", "count", "store", "commit"} /\ req' = req
    /\ pc[p] \in Running \/ ~Stale(p)
    /\ tx'[p].holdsRow =>
          /\ RowSeen(p).state = "live"
          /\ \/ /\ tx'[p].row.externalId = RowSeen(p).externalId
                /\ tx'[p].row.phases = RowSeen(p).phases
             \/ pc[p] = "write" /\ tx'[p].row = Patched(p, RowSeen(p))

\* Every step of a handler that commits nothing does one of the three.
LEMMA Statements ==
    ASSUME Inv, NEW p \in Procs, Step(p) \/ Calls(p) \/ TimeOut(p),
           ~Commit(p), \A f \in Sheets : ~Insert(p, f)
    PROVE  Elsewhere(p) \/ HasRead(p) \/ HasRun(p)
<1> DEFINE t == tx[p]
           s == RowSeen(p)
<1>a. /\ t \in Txs /\ s \in Rows /\ pc \in [Procs -> Labels] /\ tx \in [Procs -> Txs]
      /\ Holding(p)
      BY SeenTypes DEF Inv, Typed, TypeOK, RowLocked
<1>b. t.holdsRow => s = t.row /\ s.state = "live"
      BY <1>a DEF RowSeen, Holding
<1>0. ASSUME Finish(p) PROVE Elsewhere(p)
      BY <1>a, <1>0 DEF Finish, Goto, Elsewhere, Outside
<1>1. CASE CheckUnique(p)
  <2>1. CASE Goto(p, "insert") /\ UNCHANGED <<row, vals, req, tx, left, faults>>
            /\ ~Collides(req[p].externalId, Sheets)
        BY <1>a, <2>1 DEF Goto, Elsewhere, Outside
  <2> QED BY <1>0, <1>1, <2>1 DEF CheckUnique, Fail
<1>2. CASE Load(p)
  <2>1. CASE /\ ~Stale(p)
             /\ Goto(p, AfterPatch(p, 1)) /\ UNCHANGED <<row, vals, req, tx, left, faults>>
    <3>1. ~tx'[p].holdsRow
          BY <1>2, <2>1 DEF Load, Inv, Typed, Pointing, Outside, NoTx
    <3> QED BY <1>a, <2>1, <3>1 DEF Goto, AfterPatch, Order, HasRun
  <2> QED BY <1>0, <1>2, <2>1 DEF Load, Fail
<1>3. CASE ReadColumn(p)
  <2>1. CASE Fail(p)
        BY <1>0, <2>1 DEF Fail
  <2>2. CASE /\ tx' = [tx EXCEPT ![p].seen = s.phases]
             /\ Goto(p, "write") /\ UNCHANGED <<row, vals, req, left, faults>>
             /\ Patch(p).kind = "externalId" => ~Collides(Patch(p).val, Sheets \ {Sheet(p)})
        BY <1>a, <1>3, <2>2 DEF ReadColumn, Patching, Goto, HasRead
  <2> QED BY <1>3, <2>1, <2>2 DEF ReadColumn
<1>4. CASE WriteColumn(p)
  <2>1. CASE /\ s.state = "live"
             /\ Advance(p, [t EXCEPT !.holdsRow = TRUE, !.row = Patched(p, s)])
             /\ UNCHANGED <<row, vals, req, left, faults>>
    <3> DEFINE u == [t EXCEPT !.holdsRow = TRUE, !.row = Patched(p, s), !.next = @ + 1]
               l == AfterPatch(p, tx[p].next + 1)
    <3>1. u.row = Patched(p, s)
          BY <1>a DEF Txs
    <3>2. l \in {"patch", "touch"} /\ Goto(p, l) /\ tx' = [tx EXCEPT ![p] = u]
          BY <2>1 DEF Advance, AfterPatch, Order
    <3> HIDE DEF u, l
    <3>3. pc'[p] = l /\ tx'[p] = u
          BY <1>a, <3>2 DEF Goto
    <3> QED BY <1>4, <2>1, <3>1, <3>2, <3>3 DEF WriteColumn, HasRun, Running
  <2> QED BY <1>0, <1>4, <2>1 DEF WriteColumn, Fail
<1>5. CASE WriteAttr(p)
  <2> DEFINE a == Patch(p).val
             set == Patch(p).kind = "set"
             w == [t EXCEPT !.holds = @ \cup {a}, !.vals[a] = set]
  <2>1. ASSUME NEW v \in {t, w}, Advance(p, v), UNCHANGED <<row, vals, req, left, faults>>
        PROVE  HasRun(p)
    <3> DEFINE u == [v EXCEPT !.next = @ + 1]
               l == AfterPatch(p, tx[p].next + 1)
    <3>1. u.holdsRow = t.holdsRow /\ u.row = t.row
          BY <1>a DEF Txs
    <3>2. l \in {"patch", "touch"} /\ Goto(p, l) /\ tx' = [tx EXCEPT ![p] = u]
          BY <2>1 DEF Advance, AfterPatch, Order
    <3> HIDE DEF u, l
    <3>3. pc'[p] = l /\ tx'[p] = u
          BY <1>a, <3>2 DEF Goto
    <3> QED BY <1>b, <1>5, <2>1, <3>1, <3>2, <3>3 DEF WriteAttr, Patching, HasRun, Running
  <2> QED BY <1>0, <1>5, <2>1 DEF WriteAttr, Fail
<1>6. CASE RejectPatch(p) \/ AbortValidation(p) \/ Return(p) \/ AbortVictim(p) \/ TimeOut(p)
      BY <1>0, <1>6 DEF RejectPatch, AbortValidation, Return, AbortVictim, TimeOut, Fail
<1>7. CASE Touch(p)
  <2>1. CASE /\ s.state = "live"
             /\ tx' = [tx EXCEPT ![p].holdsRow = TRUE,
                                 ![p].row = [s EXCEPT !.rev = RevAfter(s)]]
             /\ Goto(p, Order.touched) /\ UNCHANGED <<row, vals, req, left, faults>>
    <3> DEFINE r == [s EXCEPT !.rev = RevAfter(s)]
    <3>1. r.externalId = s.externalId /\ r.phases = s.phases
          BY <1>a DEF Rows
    <3>2. tx'[p].row = r
          BY <1>a, <2>1 DEF Txs
    <3> HIDE DEF r
    <3> QED BY <1>a, <1>7, <2>1, <3>1, <3>2 DEF Touch, Goto, Order, HasRun, Running
  <2> QED BY <1>0, <1>7, <2>1 DEF Touch, Fail
<1>8. CASE CountFilled(p)
  <2>1. tx'[p].holdsRow = t.holdsRow /\ tx'[p].row = t.row
        BY <1>a, <1>8 DEF CountFilled, Txs
  <2> QED BY <1>a, <1>b, <1>8, <2>1 DEF CountFilled, Goto, Order, HasRun, Running
<1>9. CASE StoreCompletion(p)
  <2>1. CASE /\ s.state = "live"
             /\ tx' = [tx EXCEPT ![p].holdsRow = TRUE,
                                 ![p].row = [s EXCEPT !.completion = t.count]]
             /\ Goto(p, Order.stored) /\ UNCHANGED <<row, vals, req, left, faults>>
    <3> DEFINE r == [s EXCEPT !.completion = t.count]
    <3>1. r.externalId = s.externalId /\ r.phases = s.phases
          BY <1>a DEF Rows
    <3>2. tx'[p].row = r
          BY <1>a, <2>1 DEF Txs
    <3> HIDE DEF r
    <3> QED BY <1>a, <1>9, <2>1, <3>1, <3>2 DEF StoreCompletion, Goto, Order, HasRun, Running
  <2> QED BY <1>0, <1>9, <2>1 DEF StoreCompletion, Fail
<1>10. CASE Calls(p)
      BY <1>a, <1>10 DEF Calls, CallUpdate, CallCreate, CallDiscover, Goto, Elsewhere, Outside
<1> QED BY <1>1, <1>2, <1>3, <1>4, <1>5, <1>6, <1>7, <1>8, <1>9, <1>10 DEF Step

-----------------------------------------------------------------------------
(* One mutation at a time                                                  *)

\* Requests do not overlap: at most one handler is busy.  Other mutations may
\* still commit between its steps.
OneAtATime == \A p, q \in Procs : pc[p] # "idle" /\ pc[q] # "idle" => p = q

\* The other handlers are idle, with no transaction.
LEMMA Alone ==
    ASSUME Inv, OneAtATime, NEW p \in Procs, pc[p] # "idle",
           NEW q \in Procs, q # p
    PROVE  pc[q] = "idle" /\ ~tx[q].holdsRow
BY DEF OneAtATime, Inv, Typed, Pointing, Outside, NoTx

\* Whoever commits or inserts leaves its transaction.
LEMMA Committed ==
    ASSUME Inv, NEW p \in Procs, Commit(p) \/ \E f \in Sheets : Insert(p, f)
    PROVE  pc[p] # "idle" /\ pc'[p] \notin {"insert", "write"} /\ ~tx'[p].holdsRow
<1>1. CASE Commit(p)
      BY <1>1 DEF Commit, Goto, Inv, Typed, TypeOK, NoTx
<1>2. ASSUME NEW f \in Sheets, Insert(p, f)
      PROVE  pc[p] # "idle" /\ pc'[p] \notin {"insert", "write"} /\ ~tx'[p].holdsRow
  <2>1. pc[p] = "insert" /\ tx[p] = NoTx
        BY <1>2 DEF Insert, Inv, Typed, Pointing, Outside
  <2>2. \/ Finish(p)
        \/ Goto(p, "load") /\ UNCHANGED tx
        BY <1>2 DEF Insert
  <2>3. pc'[p] \in {"idle", "load"} /\ tx'[p] = NoTx
        BY <2>1, <2>2 DEF Finish, Goto, Inv, Typed, TypeOK
  <2> QED BY <2>1, <2>3 DEF NoTx
<1> QED BY <1>1, <1>2

\* A step on the committed rows that keeps external ids and phases, and adds
\* no live sheet.
Shrinks ==
    \A f \in Sheets : /\ row'[f].state = "live" => row[f].state = "live"
                      /\ row'[f].externalId = row[f].externalId
                      /\ row'[f].phases = row[f].phases

\* Mutations of other modules are such steps.
LEMMA OthersShrink ==
    ASSUME Inv, NEW f \in Sheets, OtherWrite(f) \/ Delete(f)
    PROVE  Shrinks /\ UNCHANGED <<pc, req, tx>>
<1>1. row[f] \in Rows /\ row \in [Sheets -> Rows]
      BY DEF Inv, Typed, TypeOK
<1>2. CASE OtherWrite(f)
      BY <1>1, <1>2 DEF OtherWrite, Shrinks, Rows
<1>3. CASE Delete(f)
      BY <1>1, <1>3 DEF Delete, Shrinks, Rows
<1> QED BY <1>2, <1>3

-----------------------------------------------------------------------------
(* External ids                                                            *)

\* No other sheet has the external id that p is about to give to its sheet.
Reserves(p) ==
    /\ pc[p] = "insert" => ~Collides(req[p].externalId, Sheets)
    /\ pc[p] = "write" /\ Patch(p).kind = "externalId"
          => ~Collides(Patch(p).val, Sheets \ {Sheet(p)})
    /\ tx[p].holdsRow => ~Collides(tx[p].row.externalId, Sheets \ {Sheet(p)})

IdInv == ExternalIdUnique /\ \A p \in Procs : Reserves(p)

\* Uniqueness, told with Collides.
LEMMA UniqueCollides ==
    ASSUME ExternalIdUnique, NEW f \in Sheets, row[f].state = "live"
    PROVE  ~Collides(row[f].externalId, Sheets \ {f})
BY DEF ExternalIdUnique, Collides

\* The external id a handler sees is on no other sheet.
LEMMA SeenFree ==
    ASSUME Inv, IdInv, NEW p \in Procs, RowSeen(p).state = "live"
    PROVE  ~Collides(RowSeen(p).externalId, Sheets \ {Sheet(p)})
<1>1. CASE tx[p].holdsRow
      BY <1>1 DEF RowSeen, IdInv, Reserves
<1>2. CASE ~tx[p].holdsRow
      BY <1>2, UniqueCollides, SeenTypes DEF RowSeen, IdInv, Inv, Typed
<1> QED BY <1>1, <1>2

\* Fewer live sheets collide with fewer external ids.
LEMMA FewerCollide ==
    ASSUME Shrinks, NEW x, NEW S \in SUBSET Sheets, ~Collides(x, S)
    PROVE  ~Collides(x, S)'
BY DEF Shrinks, Collides

\* A handler that does not move keeps its reservations while sheets go.
LEMMA ReservesOn ==
    ASSUME IdInv, Shrinks, NEW q \in Procs,
           pc'[q] = pc[q], req'[q] = req[q], tx'[q] = tx[q]
    PROVE  Reserves(q)'
<1>1. Sheet(q)' = Sheet(q) /\ Patch(q)' = Patch(q) /\ Reserves(q)
      BY DEF Sheet, Patch, IdInv
<1>2. \A x, y, g : x = y => (Collides(x, Sheets \ {g}) <=> Collides(y, Sheets \ {g}))
      OBVIOUS
<1> QED BY <1>1, FewerCollide DEF Reserves, Shrinks, Collides

\* Uniqueness while sheets go.
LEMMA UniqueOn == ASSUME IdInv, Shrinks PROVE ExternalIdUnique'
BY DEF IdInv, ExternalIdUnique, Shrinks

\* A row that takes a free external id, or keeps the one it has.
LEMMA UniqueWrite ==
    ASSUME IdInv, NEW f \in Sheets, ~Collides(row'[f].externalId, Sheets \ {f}),
           \A g \in Sheets : g # f => row'[g] = row[g]
    PROVE  ExternalIdUnique'
BY DEF IdInv, ExternalIdUnique, Collides

\* The external id of a patched row.
LEMMA PatchedId ==
    ASSUME Typed, NEW p \in Procs, pc[p] = "write", NEW r \in Rows
    PROVE  Patched(p, r).externalId = IF Patch(p).kind = "externalId" THEN Patch(p).val
                                                                     ELSE r.externalId
<1>1. Patch(p).kind \in ColumnKinds
      BY DEF Typed, Pointing
<1> QED BY <1>1 DEF Patched, ColumnKinds, Rows

\* At the start no sheet has an external id.
LEMMA IdInit == Init => IdInv
<1> SUFFICES ASSUME Init PROVE IdInv
    OBVIOUS
<1>1. \A f \in Sheets : row[f].externalId = None
      BY DEF Init, Blank
<1>2. \A p \in Procs : pc[p] = "idle" /\ ~tx[p].holdsRow
      BY DEF Init, NoTx
<1> QED BY <1>1, <1>2 DEF IdInv, ExternalIdUnique, Reserves

\* A step of a handler that commits nothing keeps the external ids unique, and
\* leaves the handler with a free one.
LEMMA IdStatement ==
    ASSUME Inv, Inv', IdInv, NEW p \in Procs, Step(p) \/ Calls(p) \/ TimeOut(p),
           ~Commit(p), \A f \in Sheets : ~Insert(p, f)
    PROVE  IdInv'
<1>1. UNCHANGED <<row, vals>>
      BY QuietStep
<1>2. Shrinks
      BY <1>1 DEF Shrinks
<1>3. \A q \in Procs : q # p => Reserves(q)'
      BY <1>2, OwnStep, ReservesOn
<1>4. \A x, S : Collides(x, S)' <=> Collides(x, S)
      BY <1>1 DEF Collides
<1>5. Reserves(p)'
  <2>1. CASE Elsewhere(p)
    <3>1. ~tx'[p].holdsRow
          BY <2>1 DEF Elsewhere, Inv, Typed, Pointing, Outside, NoTx
    <3>2. (pc[p] = "insert" => ~Collides(req[p].externalId, Sheets))'
          BY <1>1, <2>1 DEF Elsewhere, Collides
    <3> QED BY <2>1, <3>1, <3>2 DEF Elsewhere, Outside, Reserves
  <2>2. CASE HasRead(p)
    <3>1. tx[p] \in Txs
          BY SeenTypes DEF Inv, Typed
    <3>2. /\ tx'[p].holdsRow = tx[p].holdsRow /\ tx'[p].row = tx[p].row
          /\ tx'[p].next = tx[p].next
          BY <2>2, <3>1 DEF HasRead, Txs
    <3>3. Sheet(p)' = Sheet(p) /\ Patch(p)' = Patch(p)
          BY <2>2, <3>2 DEF HasRead, Sheet, Patch
    <3> QED BY <1>1, <2>2, <3>2, <3>3 DEF HasRead, Reserves, IdInv, Collides
  <2>3. CASE HasRun(p)
    <3> DEFINE x == tx'[p].row.externalId
    <3>1. Sheet(p)' = Sheet(p)
          BY <2>3 DEF HasRun, Sheet
    <3>2. ASSUME tx'[p].holdsRow PROVE ~Collides(x, Sheets \ {Sheet(p)})
      <4>1. ~Collides(RowSeen(p).externalId, Sheets \ {Sheet(p)})
            BY <2>3, <3>2, SeenFree DEF HasRun
      <4>2. CASE x = RowSeen(p).externalId
            BY <4>1, <4>2
      <4>3. CASE pc[p] = "write" /\ tx'[p].row = Patched(p, RowSeen(p))
        <5>1. RowSeen(p) \in Rows
              BY SeenTypes DEF Inv, Typed
        <5>2. x = IF Patch(p).kind = "externalId" THEN Patch(p).val ELSE RowSeen(p).externalId
              BY <4>3, <5>1, PatchedId DEF Inv
        <5> QED BY <4>1, <4>3, <5>2 DEF IdInv, Reserves
      <4> QED BY <2>3, <3>2, <4>2, <4>3 DEF HasRun
    <3> QED BY <1>1, <2>3, <3>1, <3>2 DEF HasRun, Reserves, Collides
  <2> QED BY <2>1, <2>2, <2>3, Statements
<1> QED BY <1>2, <1>3, <1>5, UniqueOn DEF IdInv

\* A commit and an insert write an external id that is on no other sheet.
LEMMA IdCommit ==
    ASSUME Inv, IdInv, OneAtATime, NEW p \in Procs,
           Commit(p) \/ \E f \in Sheets : Insert(p, f)
    PROVE  IdInv'
<1>1. ExternalIdUnique'
  <2>1. CASE Commit(p)
    <3>1. Sheet(p) \in Sheets /\ tx[p].holdsRow
          BY <2>1, SeenTypes DEF Commit, Inv, Typed, RowLocked, Holding
    <3>2. ~Collides(row'[Sheet(p)].externalId, Sheets \ {Sheet(p)})
          BY <2>1, <3>1, CommitStep DEF IdInv, Reserves
    <3> QED BY <2>1, <3>1, <3>2, CommitStep, UniqueWrite
  <2>2. ASSUME NEW f \in Sheets, Insert(p, f) PROVE ExternalIdUnique'
    <3>1. row'[f].externalId = req[p].externalId
          BY <2>2 DEF Insert, Blank, Inv, Typed, TypeOK
    <3>2. ~Collides(req[p].externalId, Sheets)
          BY <2>2 DEF Insert, IdInv, Reserves
    <3>3. ~Collides(row'[f].externalId, Sheets \ {f})
          BY <3>1, <3>2 DEF Collides
    <3> QED BY <2>2, <3>3, InsertStep, UniqueWrite
  <2> QED BY <2>1, <2>2
<1>2. Reserves(p)'
      BY Committed DEF Reserves
<1>3. ASSUME NEW q \in Procs, q # p PROVE Reserves(q)'
  <2>1. pc'[q] = "idle" /\ ~tx'[q].holdsRow
        BY <1>3, Alone, Committed, OwnStep DEF Step
  <2> QED BY <2>1 DEF Reserves
<1> QED BY <1>1, <1>2, <1>3 DEF IdInv

\* Every step keeps the reservations, and with them uniqueness.
LEMMA IdStep == Inv /\ Inv' /\ IdInv /\ OneAtATime /\ [Next]_vars => IdInv'
<1> SUFFICES ASSUME Inv, Inv', IdInv, OneAtATime, [Next]_vars PROVE IdInv'
    OBVIOUS
<1>1. ASSUME NEW p \in Procs, Step(p) \/ Calls(p) \/ TimeOut(p) PROVE IdInv'
      BY <1>1, IdStatement, IdCommit
<1>2. ASSUME NEW f \in Sheets, OtherWrite(f) \/ Delete(f) PROVE IdInv'
      BY <1>2, OthersShrink, ReservesOn, UniqueOn DEF IdInv
<1>3. CASE Crash
  <2>1. Shrinks
        BY <1>3 DEF Crash, Shrinks
  <2>2. \A q \in Procs : pc'[q] = "idle" /\ ~tx'[q].holdsRow
        BY <1>3 DEF Crash, NoTx
  <2> QED BY <2>1, <2>2, UniqueOn DEF IdInv, Reserves
<1>4. CASE UNCHANGED vars
  <2>1. Shrinks
        BY <1>4 DEF vars, Shrinks
  <2> QED BY <1>4, <2>1, ReservesOn, UniqueOn DEF vars, IdInv
<1> QED BY <1>1, <1>2, <1>3, <1>4 DEF Next

\* While requests do not overlap, no two fact sheets carry the same external
\* id, the trash bin included, although the check comes before the write.
THEOREM ExternalIdsUnique == Spec /\ []OneAtATime => []ExternalIdUnique
<1>1. IdInv => ExternalIdUnique
      BY DEF IdInv
<1> QED BY <1>1, InvInit, InvStep, IdInit, IdStep, PTL DEF Spec

-----------------------------------------------------------------------------
(* Phases                                                                  *)

\* The call replaces the lifecycle as a whole.
Replaces(p) == \E i \in DOMAIN req[p].patches : req[p].patches[i].kind = "lifecycle"

\* What a handler has read or written of the lifecycle has every phase that is
\* committed.
Keeps(p) ==
    /\ pc[p] = "write" => row[Sheet(p)].phases \subseteq tx[p].seen
    /\ tx[p].holdsRow => row[Sheet(p)].phases \subseteq tx[p].row.phases

PhaseInv == \A p \in Procs : Replaces(p) \/ Keeps(p)

\* A handler that does not move keeps them while other sheets go.
LEMMA KeepsOn ==
    ASSUME Inv, PhaseInv, Shrinks, NEW q \in Procs,
           pc'[q] = pc[q], req'[q] = req[q], tx'[q] = tx[q]
    PROVE  (Replaces(q) \/ Keeps(q))'
<1>1. Sheet(q)' = Sheet(q) /\ Sheet(q) \in Sheets /\ (Replaces(q)' <=> Replaces(q))
      BY SeenTypes DEF Sheet, Replaces, Inv, Typed
<1> QED BY <1>1 DEF PhaseInv, Keeps, Shrinks

\* A patch other than of the whole lifecycle drops no phase that was read.
LEMMA PatchedPhases ==
    ASSUME Inv, NEW p \in Procs, pc[p] = "write", ~Replaces(p), NEW r \in Rows
    PROVE  \/ Patched(p, r).phases = r.phases
           \/ tx[p].seen \subseteq Patched(p, r).phases
<1>1. Patch(p).kind \in ColumnKinds /\ Patch(p).kind # "lifecycle"
  <2>1. tx[p].next \in 1 .. Len(req[p].patches) /\ Patch(p).kind \in ColumnKinds
        BY DEF Inv, Typed, Pointing
  <2>2. req[p].patches \in Seq(Patches)
        BY SeenTypes DEF Inv, Typed, Requests
  <2>3. tx[p].next \in DOMAIN req[p].patches
        BY <2>1, <2>2
  <2> QED BY <2>1, <2>3 DEF Patch, Replaces
<1> QED BY <1>1 DEF Patched, ColumnKinds, Rows

\* A step of a handler that commits nothing keeps what it has of the phases.
LEMMA PhaseStatement ==
    ASSUME Inv, Inv', PhaseInv, NEW p \in Procs, Step(p) \/ Calls(p) \/ TimeOut(p),
           ~Commit(p), \A f \in Sheets : ~Insert(p, f)
    PROVE  PhaseInv'
<1>1. UNCHANGED <<row, vals>>
      BY QuietStep
<1>2. Shrinks
      BY <1>1 DEF Shrinks
<1>3. \A q \in Procs : q # p => (Replaces(q) \/ Keeps(q))'
      BY <1>2, OwnStep, KeepsOn
<1>4. (Replaces(p) \/ Keeps(p))'
  <2>1. CASE Elsewhere(p)
        BY <2>1 DEF Elsewhere, Inv, Typed, Pointing, Outside, NoTx, Keeps
  <2>2. ASSUME req' = req, ~Replaces(p), HasRead(p) \/ HasRun(p) PROVE Keeps(p)'
    <3>1. Sheet(p)' = Sheet(p) /\ Keeps(p)
          BY <2>2 DEF Sheet, PhaseInv
    <3>2. row[Sheet(p)].phases \subseteq RowSeen(p).phases /\ RowSeen(p) \in Rows
          /\ tx[p] \in Txs
          BY <3>1, SeenTypes DEF Keeps, RowSeen, Inv, Typed
    <3>3. CASE HasRead(p)
      <4>1. /\ tx'[p].holdsRow = tx[p].holdsRow /\ tx'[p].row = tx[p].row
            /\ tx'[p].seen = RowSeen(p).phases
            BY <3>2, <3>3 DEF HasRead, Txs
      <4> QED BY <1>1, <3>1, <3>2, <4>1 DEF Keeps
    <3>4. CASE HasRun(p)
      <4>1. ASSUME tx'[p].holdsRow PROVE row[Sheet(p)].phases \subseteq tx'[p].row.phases
        <5>1. CASE tx'[p].row.phases = RowSeen(p).phases
              BY <3>2, <5>1
        <5>2. CASE pc[p] = "write" /\ tx'[p].row = Patched(p, RowSeen(p))
              BY <2>2, <3>1, <3>2, <5>2, PatchedPhases DEF Keeps
        <5> QED BY <3>4, <4>1, <5>1, <5>2 DEF HasRun
      <4> QED BY <1>1, <3>1, <3>4, <4>1 DEF HasRun, Keeps
    <3> QED BY <2>2, <3>3, <3>4
  <2>3. CASE HasRead(p) \/ HasRun(p)
    <3>1. req' = req
          BY <2>3 DEF HasRead, HasRun
    <3> QED BY <2>2, <2>3, <3>1 DEF Replaces
  <2> QED BY <2>1, <2>3, Statements
<1> QED BY <1>3, <1>4 DEF PhaseInv

\* So does every step.
LEMMA PhaseStep == Inv /\ Inv' /\ PhaseInv /\ OneAtATime /\ [Next]_vars => PhaseInv'
<1> SUFFICES ASSUME Inv, Inv', PhaseInv, OneAtATime, [Next]_vars PROVE PhaseInv'
    OBVIOUS
<1>1. ASSUME NEW p \in Procs, Commit(p) \/ \E f \in Sheets : Insert(p, f) PROVE PhaseInv'
  <2>1. Keeps(p)'
        BY <1>1, Committed DEF Keeps
  <2>2. ASSUME NEW q \in Procs, q # p PROVE Keeps(q)'
    <3>1. pc'[q] = "idle" /\ ~tx'[q].holdsRow
          BY <1>1, <2>2, Alone, Committed, OwnStep DEF Step
    <3> QED BY <3>1 DEF Keeps
  <2> QED BY <2>1, <2>2 DEF PhaseInv
<1>2. ASSUME NEW p \in Procs, Step(p) \/ Calls(p) \/ TimeOut(p) PROVE PhaseInv'
      BY <1>1, <1>2, PhaseStatement
<1>3. ASSUME NEW f \in Sheets, OtherWrite(f) \/ Delete(f) PROVE PhaseInv'
      BY <1>3, OthersShrink, KeepsOn DEF PhaseInv
<1>4. CASE Crash
      BY <1>4 DEF Crash, NoTx, PhaseInv, Keeps
<1>5. CASE UNCHANGED vars
  <2>1. Shrinks
        BY <1>5 DEF vars, Shrinks
  <2> QED BY <1>5, <2>1, KeepsOn DEF vars, PhaseInv
<1> QED BY <1>1, <1>2, <1>3, <1>4, <1>5 DEF Next

\* The action of PhasesKept.
PhasesStep ==
    \A p \in Procs :
        /\ pc[p] = "commit" /\ pc'[p] = "after"
        /\ \A i \in DOMAIN req[p].patches : req[p].patches[i].kind # "lifecycle"
        => row[Sheet(p)].phases \subseteq row'[Sheet(p)].phases

\* Only a commit of p takes p from its commit to the events.
LEMMA OnlyCommit ==
    ASSUME Inv, [Next]_vars, NEW p \in Procs, pc[p] = "commit", pc'[p] = "after"
    PROVE  Commit(p)
<1>1. ASSUME NEW q \in Procs, Step(q) \/ Calls(q) \/ TimeOut(q) PROVE Commit(p)
  <2>1. q = p
        BY <1>1, OwnStep
  <2>2. ASSUME Finish(p) PROVE FALSE
        BY <2>2 DEF Finish, Goto, Inv, Typed, TypeOK
  <2>3. ~(Calls(p) \/ TimeOut(p))
        BY <2>2 DEF Calls, CallUpdate, CallCreate, CallDiscover, TimeOut
  <2>4. Step(p)
        BY <1>1, <2>1, <2>3
  <2> QED BY <2>2, <2>4 DEF Step, CheckUnique, Insert, Load, ReadColumn, WriteColumn, WriteAttr,
             RejectPatch, Patching, Touch, CountFilled, StoreCompletion, AbortValidation,
             Return, AbortVictim, Fail
<1>2. ~Crash /\ ~UNCHANGED vars /\ \A f \in Sheets : ~OtherWrite(f) /\ ~Delete(f)
      BY DEF Crash, vars, OtherWrite, Delete
<1> QED BY <1>1, <1>2 DEF Next

\* A commit of a call that replaces no lifecycle drops no phase.
LEMMA PhasesCommitted == Inv /\ PhaseInv /\ [Next]_vars => PhasesStep
<1> SUFFICES ASSUME Inv, PhaseInv, [Next]_vars, NEW p \in Procs,
                    pc[p] = "commit", pc'[p] = "after", ~Replaces(p)
             PROVE  row[Sheet(p)].phases \subseteq row'[Sheet(p)].phases
    BY DEF PhasesStep, Replaces
<1>1. Commit(p)
      BY OnlyCommit
<1>2. tx[p].holdsRow /\ Keeps(p)
      BY DEF Inv, RowLocked, Holding, PhaseInv
<1> QED BY <1>1, <1>2, CommitStep DEF Keeps

\* At the start nobody has read or written a row.
LEMMA PhaseInit == Init => PhaseInv
BY DEF Init, NoTx, PhaseInv, Keeps

\* While requests do not overlap, an update that does not replace the whole
\* lifecycle drops no phase: a phase patch preserves the other phases.
THEOREM PhasesAreKept == Spec /\ []OneAtATime => PhasesKept
<1>1. Inv /\ PhaseInv /\ [Next]_vars =>
        [\A p \in Procs :
           /\ pc[p] = "commit" /\ pc'[p] = "after"
           /\ \A i \in DOMAIN req[p].patches : req[p].patches[i].kind # "lifecycle"
           => row[Sheet(p)].phases \subseteq row'[Sheet(p)].phases]_vars
      BY PhasesCommitted DEF PhasesStep
<1> QED BY <1>1, InvInit, InvStep, PhaseInit, PhaseStep, PTL DEF Spec, PhasesKept
=============================================================================
