--------------------------- MODULE FactSheetPatch ---------------------------
(***************************************************************************)
(* createFactSheet and updateFactSheet: JSON patches applied one statement *)
(* at a time inside an interactive transaction, the rev check before it,   *)
(* the completion computed at its end.  Two tables are involved: a row of  *)
(* fact_sheets and the rows of attribute_values, one per attribute.        *)
(*                                                                         *)
(* Isolation is READ COMMITTED: a transaction sees what it wrote itself    *)
(* (tx[p]) over what is committed (row, vals); rows it wrote are locked    *)
(* until it ends.  Tag and relation patches write other tables and are not *)
(* in this module; dates and texts are reduced to being present or absent. *)
(***************************************************************************)
EXTENDS Integers, FiniteSets, Sequences

CONSTANTS Sheets,      \* ids of fact sheets, all of one type and workspace
          Existing,    \* those that exist at the start
          Procs,       \* request handlers of the API process
          ExtIds,      \* external ids
          Phases,      \* lifecycle phases
          Attrs,       \* custom attributes of the type
          Mandatory,   \* mandatory fields of the type, "name" left out
          PatchLists,  \* the patch lists clients send
          None,        \* no external id, or no rev in the call
          Interleaved, \* do other mutations run while a handler is busy?
          MaxCalls,    \* bound: calls in a behaviour
          MaxFaults    \* bound: timeouts and crashes

Columns == {"externalId", "description", "lifecycle"}

\* One patch: "lifecycle" replaces the whole lifecycle by an object with these
\* phases, maybe none, "phase" dates one phase of it, "description" stands for every column written without looking at
\* another one (name, qualitySeal), "set" and "unset" are custom attribute
\* patches, "bad" is any patch that fails validation.
Patches ==
    [kind : {"externalId"}, val : ExtIds \cup {None}]
        \cup [kind : {"description"}, val : BOOLEAN]
        \cup [kind : {"lifecycle"}, val : SUBSET Phases]
        \cup [kind : {"phase"}, val : Phases]
        \cup [kind : {"set", "unset"}, val : Attrs]
        \cup [kind : {"bad"}, val : {None}]

ASSUME ConstantsAssumption ==
    /\ Existing \subseteq Sheets /\ Sheets # {}
    /\ None \notin ExtIds /\ None \notin Nat
    /\ Attrs \cap Columns = {}
    /\ Mandatory \subseteq Columns \cup Attrs /\ IsFiniteSet(Mandatory)
    /\ PatchLists \subseteq Seq(Patches)
    /\ Interleaved \in BOOLEAN
    /\ MaxCalls \in Nat /\ MaxFaults \in Nat

VARIABLES
    row,     \* committed fact_sheets rows
    vals,    \* vals[f][a]: sheet f has a committed value of attribute a
    pc,      \* where each handler is
    req,     \* the call it serves
    tx,      \* its transaction's own writes
    left,    \* calls still allowed
    faults   \* faults so far

vars == <<row, vals, pc, req, tx, left, faults>>

\* lifecycle: the column is not NULL; phases: those in it, maybe none.
Rows == [state : {"free", "live", "gone"}, rev : Nat, externalId : ExtIds \cup {None},
         description : BOOLEAN, lifecycle : BOOLEAN, phases : SUBSET Phases,
         completion : Nat]

Requests == [id : Sheets, externalId : ExtIds \cup {None}, description : BOOLEAN,
             patches : Seq(Patches), rev : Nat \cup {None}, validateOnly : BOOLEAN]

\* next: the patch to apply; seen: the phases read by a phase patch; count:
\* the filled fields counted; row, vals: its own version of the rows it holds: the sheet's row if
\* holdsRow, the attributes in holds.
Txs == [next : Nat, seen : SUBSET Phases, count : Nat, holdsRow : BOOLEAN, row : Rows,
        holds : SUBSET Attrs, vals : [Attrs -> BOOLEAN]]

Labels == {"idle", "unique", "insert", "load", "patch", "write", "touch",
           "count", "store", "commit", "after"}

Blank == [state |-> "free", rev |-> 1, externalId |-> None, description |-> FALSE,
          lifecycle |-> FALSE, phases |-> {}, completion |-> 0]
NoTx == [next |-> 1, seen |-> {}, count |-> 0, holdsRow |-> FALSE, row |-> Blank,
         holds |-> {}, vals |-> [a \in Attrs |-> FALSE]]
NoRequest == [id |-> CHOOSE f \in Sheets : TRUE, externalId |-> None, description |-> FALSE,
              patches |-> <<>>, rev |-> None, validateOnly |-> FALSE]

TypeOK ==
    /\ row \in [Sheets -> Rows]
    /\ vals \in [Sheets -> [Attrs -> BOOLEAN]]
    /\ pc \in [Procs -> Labels]
    /\ req \in [Procs -> Requests]
    /\ tx \in [Procs -> Txs]
    /\ left \in Nat
    /\ faults \in Nat

Init ==
    /\ row = [f \in Sheets |-> IF f \in Existing THEN [Blank EXCEPT !.state = "live"]
                                                 ELSE Blank]
    /\ vals = [f \in Sheets |-> [a \in Attrs |-> FALSE]]
    /\ pc = [p \in Procs |-> "idle"]
    /\ req = [p \in Procs |-> NoRequest]
    /\ tx = [p \in Procs |-> NoTx]
    /\ left = MaxCalls
    /\ faults = 0

-----------------------------------------------------------------------------
(* What a transaction sees, and the rows it must wait for                  *)

Sheet(p) == req[p].id

RowSeen(p) == IF tx[p].holdsRow THEN tx[p].row ELSE row[Sheet(p)]

ValsSeen(p) ==
    [a \in Attrs |-> IF a \in tx[p].holds THEN tx[p].vals[a] ELSE vals[Sheet(p)][a]]

\* isFilled over the mandatory fields: a value that is present is filled, a
\* lifecycle without phases included.
Filled(r, v) ==
    {m \in Mandatory : \/ m = "externalId" /\ r.externalId # None
                       \/ m = "description" /\ r.description
                       \/ m = "lifecycle" /\ r.lifecycle
                       \/ m \in Attrs /\ v[m]}

\* A percentage in the code; the number of mandatory fields is fixed.
Completion(r, v) == Cardinality(Filled(r, v))

Patch(p) == req[p].patches[tx[p].next]
Patching(p, kinds) == pc[p] = "patch" /\ Patch(p).kind \in kinds

\* The statement p is about to run needs a row that q holds.
WaitsFor(p, q) ==
    /\ p # q /\ Sheet(p) = Sheet(q)
    /\ \/ pc[p] \in {"write", "touch", "store"} /\ ~tx[p].holdsRow /\ tx[q].holdsRow
       \/ /\ Patching(p, {"set", "unset"})
          /\ Patch(p).val \in tx[q].holds \ tx[p].holds
          /\ Patch(p).kind = "set" \/ vals[Sheet(p)][Patch(p).val]

Blocked(p) == \E q \in Procs : WaitsFor(p, q)

\* p is on a cycle of waiting transactions.
Deadlocked(p) ==
    \E S \in SUBSET Procs :
        /\ p \in S
        /\ \A q \in S : (\E r \in S : WaitsFor(q, r)) /\ (\E r \in S : WaitsFor(r, q))

-----------------------------------------------------------------------------
(* Calls                                                                   *)

Goto(p, label) == pc' = [pc EXCEPT ![p] = label]

\* The call returns or throws; its transaction, if any, is over.
Finish(p) ==
    /\ Goto(p, "idle")
    /\ req' = [req EXCEPT ![p] = NoRequest]
    /\ tx' = [tx EXCEPT ![p] = NoTx]

Fail(p) == Finish(p) /\ UNCHANGED <<row, vals, left, faults>>

\* updateFactSheet.  A client passes no rev, or one it has read before.
CallUpdate(p, f, patches, target, validateOnly) ==
    /\ pc[p] = "idle" /\ left > 0
    /\ left' = left - 1
    /\ req' = [req EXCEPT ![p] = [id |-> f, externalId |-> None, description |-> FALSE,
                                  patches |-> patches, rev |-> target,
                                  validateOnly |-> validateOnly]]
    /\ Goto(p, "load")
    /\ UNCHANGED <<row, vals, tx, faults>>

\* Bound: the model has an id for every create that may still insert.
IdsLeft ==
    Cardinality({q \in Procs : pc[q] \in {"unique", "insert"}})
        < Cardinality({f \in Sheets : row[f].state = "free"})

\* createFactSheet: the external id of the input is checked first, if any.
CallCreate(p, x, description, patches) ==
    /\ pc[p] = "idle" /\ left > 0 /\ IdsLeft
    /\ left' = left - 1
    /\ req' = [req EXCEPT ![p] = [id |-> NoRequest.id, externalId |-> x,
                                  description |-> description, patches |-> patches,
                                  rev |-> None, validateOnly |-> FALSE]]
    /\ Goto(p, "unique")
    /\ UNCHANGED <<row, vals, tx, faults>>

\* discover: an AI agent is created, and patches set its attributes.
CallDiscover(p, x, description, patches) ==
    /\ \A k \in DOMAIN patches : patches[k].kind = "set"
    /\ CallCreate(p, x, description, patches)

-----------------------------------------------------------------------------
(* create                                                                  *)

\* One of these sheets carries external id x; the trash bin counts too.
Collides(x, others) ==
    x # None /\ \E g \in others : row[g].state = "live" /\ row[g].externalId = x

\* Mutant: create does not check.
CheckNothing(p) ==
    /\ pc[p] = "unique"
    /\ Goto(p, "insert") /\ UNCHANGED <<row, vals, req, tx, left, faults>>

\* assertExternalIdUnique, before the transaction.
CheckUnique(p) ==
    /\ pc[p] = "unique"
    /\ IF Collides(req[p].externalId, Sheets)
       THEN Fail(p)
       ELSE Goto(p, "insert") /\ UNCHANGED <<row, vals, req, tx, left, faults>>

\* The whole transaction: nobody else can see or lock the new row before it
\* commits.  Patches, if any, follow in a transaction of their own.
Insert(p, f) ==
    /\ pc[p] = "insert" /\ row[f].state = "free"
    /\ LET new == [Blank EXCEPT !.state = "live", !.externalId = req[p].externalId,
                                !.description = req[p].description]
       IN  row' = [row EXCEPT ![f] = [new EXCEPT !.completion = Completion(new, vals[f])]]
    /\ IF req[p].patches = <<>>
       THEN Finish(p)
       ELSE /\ Goto(p, "load")
            /\ req' = [req EXCEPT ![p].id = f]
            /\ UNCHANGED tx
    /\ UNCHANGED <<vals, left, faults>>

-----------------------------------------------------------------------------
(* update                                                                  *)

Stale(p) == req[p].rev # None /\ req[p].rev # row[Sheet(p)].rev

\* Mutant: the completion is computed before rev is incremented.
CountFirst == [patched |-> "count", counted |-> "store", stored |-> "touch",
               touched |-> "commit"]

\* Mutant: an update does not touch rev.
NoTouch == [patched |-> "count", counted |-> "store", stored |-> "commit",
            touched |-> "count"]

\* The statements that follow the patches: rev, then the completion.
Order == [patched |-> "touch", touched |-> "count", counted |-> "store",
          stored |-> "commit"]

\* Where a transaction goes on with its n-th patch.
AfterPatch(p, n) == IF n > Len(req[p].patches) THEN Order.patched ELSE "patch"

\* Mutant: a sheet that is missing or at another rev is waited for.
LoadWaits(p) ==
    /\ pc[p] = "load"
    /\ row[Sheet(p)].state = "live" /\ ~Stale(p)
    /\ Goto(p, AfterPatch(p, 1))
    /\ UNCHANGED <<row, vals, req, tx, left, faults>>

\* requireById and the rev check, before the transaction.
Load(p) ==
    /\ pc[p] = "load"
    /\ IF row[Sheet(p)].state # "live" \/ Stale(p)
       THEN Fail(p)
       ELSE /\ Goto(p, AfterPatch(p, 1))
            /\ UNCHANGED <<row, vals, req, tx, left, faults>>

Advance(p, t) ==
    /\ tx' = [tx EXCEPT ![p] = [t EXCEPT !.next = @ + 1]]
    /\ Goto(p, AfterPatch(p, tx[p].next + 1))

ColumnKinds == {"externalId", "description", "lifecycle", "phase"}

\* A column patch first reads the row: an external id is checked against the
\* other rows, a phase patch keeps the lifecycle it has read.
ReadColumn(p) ==
    /\ Patching(p, ColumnKinds)
    /\ IF \/ RowSeen(p).state # "live"
          \/ Patch(p).kind = "externalId" /\ Collides(Patch(p).val, Sheets \ {Sheet(p)})
       THEN Fail(p)
       ELSE /\ tx' = [tx EXCEPT ![p].seen = RowSeen(p).phases]
            /\ Goto(p, "write")
            /\ UNCHANGED <<row, vals, req, left, faults>>

\* Mutant: a phase patch drops the other phases.
PhaseReplaces(p, r) ==
    LET patch == Patch(p) IN
    CASE patch.kind = "externalId"  -> [r EXCEPT !.externalId = patch.val]
      [] patch.kind = "description" -> [r EXCEPT !.description = patch.val]
      [] patch.kind = "lifecycle"   -> [r EXCEPT !.lifecycle = TRUE, !.phases = patch.val]
      [] patch.kind = "phase"       -> [r EXCEPT !.lifecycle = TRUE, !.phases = {patch.val}]

\* UPDATE writes one column; the lifecycle column is written as a whole.
Patched(p, r) ==
    LET patch == Patch(p) IN
    CASE patch.kind = "externalId"  -> [r EXCEPT !.externalId = patch.val]
      [] patch.kind = "description" -> [r EXCEPT !.description = patch.val]
      [] patch.kind = "lifecycle"   -> [r EXCEPT !.lifecycle = TRUE, !.phases = patch.val]
      [] patch.kind = "phase"       -> [r EXCEPT !.lifecycle = TRUE,
                                                 !.phases = tx[p].seen \cup {patch.val}]

WriteColumn(p) ==
    /\ pc[p] = "write" /\ ~Blocked(p)
    /\ IF RowSeen(p).state # "live"
       THEN Fail(p)
       ELSE /\ Advance(p, [tx[p] EXCEPT !.holdsRow = TRUE, !.row = Patched(p, RowSeen(p))])
            /\ UNCHANGED <<row, vals, req, left, faults>>

\* applyCustomAttributePatch: an upsert needs its fact sheet (foreign key), a
\* deleteMany locks nothing where it finds nothing.
WriteAttr(p) ==
    /\ Patching(p, {"set", "unset"}) /\ ~Blocked(p)
    /\ LET a == Patch(p).val
           set == Patch(p).kind = "set"
       IN  IF set /\ RowSeen(p).state # "live"
           THEN Fail(p)
           ELSE /\ IF set \/ ValsSeen(p)[a]
                   THEN Advance(p, [tx[p] EXCEPT !.holds = @ \cup {a}, !.vals[a] = set])
                   ELSE Advance(p, tx[p])
                /\ UNCHANGED <<row, vals, req, left, faults>>

RejectPatch(p) == Patching(p, {"bad"}) /\ Fail(p)

RevAfter(r) == r.rev + 1

\* rev: { increment: 1 } locks the row, whatever the patches were.
Touch(p) ==
    /\ pc[p] = "touch" /\ ~Blocked(p)
    /\ IF RowSeen(p).state # "live"
       THEN Fail(p)
       ELSE /\ tx' = [tx EXCEPT ![p].holdsRow = TRUE,
                                ![p].row = [RowSeen(p) EXCEPT !.rev = RevAfter(RowSeen(p))]]
            /\ Goto(p, Order.touched)
            /\ UNCHANGED <<row, vals, req, left, faults>>

\* recalculateCompletionWithinTx reads the sheet and its attributes, whose
\* committed values cannot change under the row lock, then stores the result.
CountFilled(p) ==
    /\ pc[p] = "count"
    /\ tx' = [tx EXCEPT ![p].count = Completion(RowSeen(p), ValsSeen(p))]
    /\ Goto(p, Order.counted)
    /\ UNCHANGED <<row, vals, req, left, faults>>

StoreCompletion(p) ==
    /\ pc[p] = "store" /\ ~Blocked(p)
    /\ IF RowSeen(p).state # "live"
       THEN Fail(p)
       ELSE /\ tx' = [tx EXCEPT ![p].holdsRow = TRUE,
                                ![p].row = [RowSeen(p) EXCEPT !.completion = tx[p].count]]
            /\ Goto(p, Order.stored)
            /\ UNCHANGED <<row, vals, req, left, faults>>

Commit(p) ==
    /\ pc[p] = "commit" /\ ~req[p].validateOnly
    /\ row' = [row EXCEPT ![Sheet(p)] = RowSeen(p)]
    /\ vals' = [vals EXCEPT ![Sheet(p)] = ValsSeen(p)]
    /\ tx' = [tx EXCEPT ![p] = NoTx]
    /\ Goto(p, "after")
    /\ UNCHANGED <<req, left, faults>>

\* ValidateOnlyAbort: everything was valid, everything is rolled back.
AbortValidation(p) == pc[p] = "commit" /\ req[p].validateOnly /\ Fail(p)

\* requireById again, and the events (or FACT_SHEET_NOT_FOUND if the sheet was
\* deleted meanwhile, in which case they are lost).
Return(p) == pc[p] = "after" /\ Fail(p)

-----------------------------------------------------------------------------
(* Environment                                                             *)

InTx(p) == pc[p] \in {"insert", "patch", "write", "touch", "count", "store", "commit"}

AbortVictim(p) == Deadlocked(p) /\ Fail(p)

TimeOut(p) ==
    /\ InTx(p) /\ faults < MaxFaults
    /\ faults' = faults + 1
    /\ Finish(p)
    /\ UNCHANGED <<row, vals, left>>

Crash ==
    /\ faults < MaxFaults
    /\ faults' = faults + 1
    /\ pc' = [p \in Procs |-> "idle"]
    /\ req' = [p \in Procs |-> NoRequest]
    /\ tx' = [p \in Procs |-> NoTx]
    /\ UNCHANGED <<row, vals, left>>

\* Another mutation of the sheets may commit now.
OthersRun ==
    /\ left > 0 /\ left' = left - 1
    /\ Interleaved \/ \A p \in Procs : pc[p] = "idle"

Untouched(f) ==
    \A p \in Procs : Sheet(p) = f => ~tx[p].holdsRow /\ tx[p].holds = {}

\* archive, revive and relation mutations: a commit that raises rev and leaves
\* these columns alone (FactSheetLifecycle has their steps).
OtherWrite(f) ==
    /\ OthersRun
    /\ row[f].state = "live" /\ \A p \in Procs : Sheet(p) = f => ~tx[p].holdsRow
    /\ row' = [row EXCEPT ![f].rev = @ + 1]
    /\ UNCHANGED <<vals, pc, req, tx, faults>>

\* permanentDelete commits: the attribute values go with the sheet.
Delete(f) ==
    /\ OthersRun
    /\ row[f].state = "live" /\ Untouched(f)
    /\ row' = [row EXCEPT ![f].state = "gone"]
    /\ vals' = [vals EXCEPT ![f] = [a \in Attrs |-> FALSE]]
    /\ UNCHANGED <<pc, req, tx, faults>>

-----------------------------------------------------------------------------
Step(p) ==
    \/ CheckUnique(p) \/ (\E f \in Sheets : Insert(p, f))
    \/ Load(p) \/ ReadColumn(p) \/ WriteColumn(p) \/ WriteAttr(p) \/ RejectPatch(p)
    \/ Touch(p) \/ CountFilled(p) \/ StoreCompletion(p)
    \/ Commit(p) \/ AbortValidation(p) \/ Return(p) \/ AbortVictim(p)

Calls(p) ==
    \/ \E f \in Sheets, patches \in PatchLists, v \in BOOLEAN :
          \E target \in {None} \cup 1 .. row[f].rev : CallUpdate(p, f, patches, target, v)
    \/ \E x \in ExtIds \cup {None}, d \in BOOLEAN, patches \in PatchLists \cup {<<>>} :
          CallCreate(p, x, d, patches) \/ CallDiscover(p, x, d, patches)

Next ==
    \/ \E p \in Procs : Calls(p) \/ Step(p) \/ TimeOut(p)
    \/ \E f \in Sheets : OtherWrite(f) \/ Delete(f)
    \/ Crash

Spec == Init /\ [][Next]_vars

\* A started handler runs on, and a deadlock is broken.
FairSpec == Spec /\ \A p \in Procs : WF_vars(Step(p))

-----------------------------------------------------------------------------
(* Properties                                                              *)

\* The stored completion of a sheet is that of its committed fields, although
\* concurrent updates write disjoint attribute rows: each update locks the
\* sheet's row before it counts.
CompletionCurrent ==
    \A f \in Sheets : row[f].state = "live" =>
        row[f].completion = Completion(row[f], vals[f])

\* From the rev statement on an update holds its sheet's row, and what it is
\* about to commit is the committed row, one rev later, with the completion of
\* the fields it sees.
Holding(p) ==
    /\ tx[p].holdsRow =>
          /\ pc[p] \in {"patch", "write", "touch", "count", "store", "commit"}
          /\ row[Sheet(p)].state = "live" /\ tx[p].row.state = "live"
          /\ tx[p].row.rev = row[Sheet(p)].rev
                                + (IF pc[p] \in {"count", "store", "commit"} THEN 1 ELSE 0)
    /\ pc[p] \in {"count", "store", "commit"} => tx[p].holdsRow
    /\ pc[p] = "store" => tx[p].count = Completion(tx[p].row, ValsSeen(p))
    /\ pc[p] = "commit" => tx[p].row.completion = Completion(tx[p].row, ValsSeen(p))

\* Why CompletionCurrent holds: the row of a sheet has one writer at a time.
RowLocked ==
    /\ \A p, q \in Procs :
          tx[p].holdsRow /\ tx[q].holdsRow /\ Sheet(p) = Sheet(q) => p = q
    /\ \A p \in Procs : Holding(p)

RaisesRev(f) ==
    /\ row[f].state = "live" /\ row'[f].state = "live"
    /\ row'[f] # row[f] \/ vals'[f] # vals[f]
    => row'[f].rev = row[f].rev + 1

\* Every committed change of a sheet, in either table, raises its rev by one,
\* so a client that compares revs sees every change.
RevCountsWrites == [][\A f \in Sheets : RaisesRev(f)]_vars

\* Every call returns; two updates that write the same rows in opposite orders
\* do not hold each other up for ever.
CallsReturn == \A p \in Procs : pc[p] # "idle" ~> pc[p] = "idle"

-----------------------------------------------------------------------------
(* What holds of one request at a time, and what the documents promise of  *)
(* any number                                                              *)

\* docs/API_REFERENCE.md: "externalId collision within a type" is an error.
ExternalIdUnique ==
    \A f, g \in Sheets :
        /\ f # g
        /\ row[f].state = "live" /\ row[g].state = "live"
        /\ row[f].externalId # None
        => row[f].externalId # row[g].externalId

\* UpdateFactSheetOptions.rev: "must match the fact sheet's current `rev` or
\* the update is rejected".
StaleRejected ==
    [][\A p \in Procs : pc[p] = "commit" /\ pc'[p] = "after" /\ req[p].rev # None
                            => req[p].rev = row[Sheet(p)].rev]_vars

\* docs/BUILD_STATUS.md: a phase patch "preserves other phases"; only a patch
\* of the whole lifecycle may drop one.
PhasesKept ==
    [][\A p \in Procs :
         /\ pc[p] = "commit" /\ pc'[p] = "after"
         /\ \A i \in DOMAIN req[p].patches : req[p].patches[i].kind # "lifecycle"
         => row[Sheet(p)].phases \subseteq row'[Sheet(p)].phases]_vars
=============================================================================
