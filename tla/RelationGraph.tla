---------------------------- MODULE RelationGraph ----------------------------
(***************************************************************************)
(* The relations between fact sheets and everything that writes them:      *)
(* upsertRelation, deleteRelation, the relation patches of updateFactSheet,*)
(* the second pass of an LDIF run and permanentDelete; and the MCP tool    *)
(* explain_architecture, which reads them over several queries.            *)
(*                                                                         *)
(* A handler checks what it was given, then runs its statements one by one,*)
(* in a transaction (LDIF: without one).  PostgreSQL keeps a transaction's *)
(* writes to itself until it commits (READ COMMITTED), makes statements    *)
(* wait for rows others have written, and checks foreign keys: a row of    *)
(* relations locks its two sheets against deletion until it is committed.  *)
(*                                                                         *)
(* Of a sheet only its existence and rev are kept.  That a sheet is in the *)
(* trash bin before it is deleted is FactSheetLifecycle's subject.         *)
(***************************************************************************)
EXTENDS Integers, Sequences, FiniteSets, SequencesExt

CONSTANTS Sheets,       \* fact sheets that may exist
          Types,        \* relation types
          SpaceOf,      \* the workspace of each sheet and relation type
          SyncSpace,    \* LDIF_WORKSPACE_ID
          RelIds,       \* ids of relations
          Procs,        \* handlers under way at a time
          Initial,      \* Initial[i]: the relations there are at first
          PatchLists,   \* bound: lists of relation patches
          TargetLists,  \* bound: target lists of LDIF items
          Called,       \* bound: the sheets that calls are for
          CalledTypes,  \* bound: the relation types that calls are for
          MaxCalls,     \* bound: calls
          MaxFaults,    \* bound: timeouts and crashes
          NoRel,        \* an id not used yet
          Deleted,      \* an id whose relation is gone; ids are not used again
          Same,         \* a row a transaction has not written
          Nothing

Row == [type : Types, source : Sheets, target : Sheets]
Rows == Row \cup {NoRel, Deleted}

Statement == [do : {"link", "unlink", "move", "touch", "unlinkAll", "drop", "keepOnly", "visit"},
              id : RelIds \cup {Nothing}, type : Types \cup {Nothing},
              source : Sheets \cup {Nothing}, target : Sheets \cup {Nothing},
              targets : SUBSET Sheets]

\* The relation patches an update may ask for; the source is its sheet.
Patch == {s \in Statement :
            \/ s.do = "link" /\ s.type \in Types /\ s.target \in Sheets
            \/ s.do = "unlink" /\ s.id \in RelIds /\ s.type \in Types
            \/ s.do = "move" /\ s.id \in RelIds /\ s.type \in Types /\ s.target \in Sheets}

Stored(row) == row \notin {NoRel, Deleted}

ASSUME RelationAssumption ==
    /\ Sheets \cap Types = {} /\ Nothing \notin Sheets /\ IsFiniteSet(RelIds)
    /\ \A x \in Sheets \cup Types : x \in DOMAIN SpaceOf
    /\ NoRel # Deleted /\ NoRel # Same /\ Deleted # Same
    /\ Row \cap {NoRel, Deleted, Same} = {}
    /\ MaxCalls \in Nat /\ MaxFaults \in Nat
    /\ Called \subseteq Sheets /\ CalledTypes \subseteq Types
    /\ PatchLists \subseteq Seq(Patch) /\ TargetLists \subseteq Seq(Sheets)

\* At first relations are within their workspaces.
ASSUME InitialAssumption ==
    /\ Initial \in [RelIds -> Rows]
    /\ \A i \in RelIds : Stored(Initial[i]) =>
        \A f \in {Initial[i].source, Initial[i].target} : SpaceOf[f] = SpaceOf[Initial[i].type]

VARIABLES
    sheet,      \* sheet[f]: does f exist, and its rev
    rel,        \* rel[i]: the committed row of relation i
    call,       \* call[p]: what handler p does
    tx,         \* tx[p]: what its transaction has written
    linked,     \* relations committed at any time; history
    announced,  \* relations that RELATION_CREATED events named
    calls,      \* calls so far
    faults      \* timeouts and crashes so far

graphVars == <<sheet, rel, call, tx, linked, announced, calls, faults>>

S(do) == [do |-> do, id |-> Nothing, type |-> Nothing, source |-> Nothing,
          target |-> Nothing, targets |-> {}]
LinkStmt(t, f, g) == [S("link") EXCEPT !.type = t, !.source = f, !.target = g]
OnSheet(do, f) == [S(do) EXCEPT !.source = f]

Empty == [rel |-> [i \in RelIds |-> Same], touched |-> {}, dropped |-> {}]
Idle == [op |-> "none", at |-> "idle", space |-> Nothing, sheet |-> Nothing,
         todo |-> <<>>, made |-> {}, found |-> {}, quiet |-> TRUE]

Operations == {"none", "upsert", "delete", "patch", "ldif", "remove", "explain"}
Call == [op : Operations, at : {"idle", "run", "commit", "after", "emit"},
         space : {SpaceOf[f] : f \in Sheets} \cup {Nothing, SyncSpace},
         sheet : Sheets \cup {Nothing}, todo : Seq(Statement),
         made : SUBSET Row, found : SUBSET Row, quiet : BOOLEAN]
Transaction == [rel : [RelIds -> Rows \cup {Same}], touched : SUBSET Sheets,
                dropped : SUBSET Sheets]

GraphTypeOK ==
    /\ sheet \in [Sheets -> [live : BOOLEAN, rev : Nat]]
    /\ rel \in [RelIds -> Rows]
    /\ call \in [Procs -> Call]
    /\ tx \in [Procs -> Transaction]
    /\ announced \cup linked \subseteq Row
    /\ calls \in 0 .. MaxCalls /\ faults \in 0 .. MaxFaults

Committed(i) == Stored(rel[i])
Existing == {rel[i] : i \in {j \in RelIds : Committed(j)}}
Ends(row) == {row.source, row.target}

GraphInit ==
    /\ sheet = [f \in Sheets |-> [live |-> TRUE, rev |-> 1]]
    /\ rel = Initial
    /\ call = [p \in Procs |-> Idle]
    /\ tx = [p \in Procs |-> Empty]
    /\ linked = Existing
    /\ announced = {}
    /\ calls = 0
    /\ faults = 0

\* resolveRelations: those of which the sheet is the source, and the target.
Around(f) == {row \in Existing : row.source = f} \cup {row \in Existing : row.target = f}

Other(row, f) == IF row.source = f THEN row.target ELSE row.source
Neighbours(f) == {Other(row, f) : row \in Around(f)} \ {f}

-----------------------------------------------------------------------------
(* PostgreSQL                                                              *)

Written(p) == {i \in RelIds : tx[p].rel[i] # Same}
Seen(p, i) == IF i \in Written(p) THEN tx[p].rel[i] ELSE rel[i]

\* The sheets that p's new rows of relations refer to.
Shared(p) ==
    UNION {Ends(tx[p].rel[i]) : i \in {j \in Written(p) : Stored(tx[p].rel[j]) /\ tx[p].rel[j] # rel[j]}}

HasStatement(p) == call[p].at = "run" /\ call[p].todo # <<>>
Stmt(p) == Head(call[p].todo)
RowOf(s) == [type |-> s.type, source |-> s.source, target |-> s.target]
MovedRow(p, s) == [Seen(p, s.id) EXCEPT !.target = s.target]

\* q has written the unique key of the row, or is deleting one of its sheets.
HoldsKey(q, row) ==
    \/ \E i \in Written(q) : row \in {tx[q].rel[i], rel[i]}
    \/ Ends(row) \cap tx[q].dropped # {}

\* Statement s of p meets a row that q has written.
Conflict(p, q, s) ==
    CASE s.do = "link" -> HoldsKey(q, RowOf(s))
      [] s.do = "unlink" -> s.id \in Written(q)
      [] s.do = "move" -> s.id \in Written(q) \/ (Stored(Seen(p, s.id)) /\ HoldsKey(q, MovedRow(p, s)))
      [] s.do = "touch" -> s.source \in tx[q].touched \cup tx[q].dropped
      [] s.do = "unlinkAll" -> \E i \in Written(q) : Committed(i) /\ s.source \in Ends(rel[i])
      [] s.do = "drop" -> s.source \in tx[q].touched \cup tx[q].dropped \cup Shared(q)
      [] s.do = "keepOnly" -> \E i \in Written(q) :
                Committed(i) /\ rel[i].type = s.type /\ rel[i].source = s.source
      [] s.do = "visit" -> FALSE

Blockers(p) == IF HasStatement(p) THEN {q \in Procs \ {p} : Conflict(p, q, Stmt(p))} ELSE {}

\* A cycle: everyone in Q waits for another in Q and keeps another waiting.
Deadlocked(p) ==
    \E Q \in SUBSET Procs :
        /\ p \in Q
        /\ \A q \in Q : Blockers(q) \cap Q # {} /\ \E r \in Q : q \in Blockers(r)

Runs(p, do) == HasStatement(p) /\ Stmt(p).do = do /\ Blockers(p) = {}

-----------------------------------------------------------------------------
(* Calls                                                                   *)

Finish(p) == call' = [call EXCEPT ![p] = Idle] /\ tx' = [tx EXCEPT ![p] = Empty]

Start(p, op, space, f, todo) ==
    /\ call[p].at = "idle"
    /\ calls < MaxCalls
    /\ calls' = calls + 1
    /\ call' = [call EXCEPT ![p] =
            [Idle EXCEPT !.op = op, !.at = IF todo = <<>> THEN "emit" ELSE "run",
                         !.space = space, !.sheet = f, !.todo = todo,
                         !.found = IF op = "explain" THEN Around(f) ELSE {}]]
    /\ UNCHANGED <<sheet, rel, tx, linked, announced, faults>>

Visible(f, space) == sheet[f].live /\ SpaceOf[f] = space

Spaces == {SpaceOf[f] : f \in Sheets}

\* The relation type and both sheets are looked up before the transaction.
UpsertRelation(p, space, t, f, g) ==
    /\ SpaceOf[t] = space /\ Visible(f, space) /\ Visible(g, space)
    /\ Start(p, "upsert", space, f, <<LinkStmt(t, f, g), OnSheet("touch", f)>>)

\* Mutant: deleteRelation forgets to raise the source's rev.
DeleteRelationOnly(p, space, i) ==
    /\ Committed(i) /\ SpaceOf[rel[i].source] = space
    /\ Start(p, "delete", space, rel[i].source,
             <<[S("unlink") EXCEPT !.id = i, !.type = rel[i].type]>>)

\* The relation's source is that of the row read before the transaction.
DeleteRelation(p, space, i) ==
    /\ Committed(i) /\ SpaceOf[rel[i].source] = space
    /\ Start(p, "delete", space, rel[i].source,
             <<[S("unlink") EXCEPT !.id = i, !.type = rel[i].type],
               OnSheet("touch", rel[i].source)>>)

\* A patch of a relation, or a value.  The sheet's id is put in for the source.
Patched(s, f) == IF s.do = "link" THEN [s EXCEPT !.source = f] ELSE s

UpdateFactSheet(p, space, f, patches) ==
    /\ Visible(f, space)
    /\ Start(p, "patch", space, f,
             [k \in DOMAIN patches |-> Patched(patches[k], f)] \o <<OnSheet("touch", f)>>)

\* An item of an LDIF run: the ids it relates to were resolved by this run's
\* map or by the mappings; one that is not known is skipped with a warning.
ProcessRelations(p, t, f, targets, full) ==
    /\ SpaceOf[t] = SyncSpace /\ SpaceOf[f] = SyncSpace
    /\ \A g \in Range(targets) : SpaceOf[g] = SyncSpace
    /\ Start(p, "ldif", SyncSpace, f,
             [k \in DOMAIN targets |-> LinkStmt(t, f, targets[k])]
             \o IF full
                THEN <<[OnSheet("keepOnly", f) EXCEPT !.type = t, !.targets = Range(targets)]>>
                ELSE <<>>)

PermanentDelete(p, space, f) ==
    /\ Visible(f, space)
    /\ Start(p, "remove", space, f, <<OnSheet("unlinkAll", f), OnSheet("drop", f)>>)

-----------------------------------------------------------------------------
(* Statements                                                              *)

InTx(p) == call[p].op # "ldif"

\* On to the next statement; a transaction commits after its last.
Advance(p, made) ==
    call' = [call EXCEPT ![p].todo = Tail(@),
                         ![p].made = @ \cup made,
                         ![p].at = IF Len(call[p].todo) = 1 THEN "commit" ELSE "run"]

\* Without a transaction a commit follows every statement: handlers that read
\* the graph meanwhile have not seen it at one moment.
Changed(q) == IF q.at = "idle" THEN q ELSE [q EXCEPT !.quiet = FALSE]

Write(p, i, row, made) ==
    IF InTx(p)
    THEN /\ tx' = [tx EXCEPT ![p].rel[i] = row]
         /\ Advance(p, made)
         /\ UNCHANGED <<rel, linked>>
    ELSE /\ rel' = [rel EXCEPT ![i] = row]
         /\ linked' = linked \cup made
         /\ call' = [q \in Procs |->
                        IF q = p THEN [call[p] EXCEPT !.todo = Tail(@), !.made = @ \cup made,
                                                      !.at = "emit"]
                        ELSE Changed(call[q])]
         /\ UNCHANGED tx

\* Mutant: a patch looks its target up in no particular workspace.
LinkableAnywhere(p, s) == sheet[s.source].live /\ sheet[s.target].live

\* What is checked before a relation is linked: LDIF and upsertRelation leave
\* it to the foreign keys, a patch looks its target up.
Linkable(p, s) ==
    /\ sheet[s.source].live /\ sheet[s.target].live
    /\ call[p].op = "patch" => SpaceOf[s.target] = call[p].space /\ SpaceOf[s.type] = call[p].space

Unused == {i \in RelIds : rel[i] = NoRel /\ \A q \in Procs : i \notin Written(q)}
NewId == CHOOSE i \in Unused : TRUE

\* INSERT ... ON CONFLICT: the row there is, or a new one.
Link(p) ==
    /\ Runs(p, "link") /\ Linkable(p, Stmt(p))
    /\ LET row == RowOf(Stmt(p)) IN
        \/ \E i \in RelIds : Seen(p, i) = row /\ Write(p, i, row, {row})
        \/ /\ \A i \in RelIds : Seen(p, i) # row
           /\ Unused # {}
           /\ Write(p, NewId, row, {row})
    /\ UNCHANGED <<sheet, announced, calls, faults>>

\* A patch finds the relation by its id and checks its type, and nothing else.
Addressed(p, s) ==
    /\ Stored(Seen(p, s.id))
    /\ call[p].op = "patch" =>
          Seen(p, s.id).type = s.type /\ SpaceOf[s.type] = call[p].space

Unlink(p) ==
    /\ Runs(p, "unlink") /\ Addressed(p, Stmt(p))
    /\ Write(p, Stmt(p).id, Deleted, {})
    /\ UNCHANGED <<sheet, announced, calls, faults, linked>>

Movable(p, s) ==
    /\ Addressed(p, s)
    /\ Visible(s.target, call[p].space)
    /\ \A i \in RelIds \ {s.id} : Seen(p, i) # MovedRow(p, s)

Move(p) ==
    /\ Runs(p, "move") /\ Movable(p, Stmt(p))
    /\ Write(p, Stmt(p).id, MovedRow(p, Stmt(p)), {})
    /\ UNCHANGED <<sheet, announced, calls, faults, linked>>

\* UPDATE fact_sheets SET rev = rev + 1.
Touch(p) ==
    /\ Runs(p, "touch") /\ sheet[Stmt(p).source].live
    /\ tx' = [tx EXCEPT ![p].touched = @ \cup {Stmt(p).source}]
    /\ Advance(p, {})
    /\ UNCHANGED <<sheet, rel, linked, announced, calls, faults>>

\* Mutant: only the relations that start at the sheet.
UnlinkOutgoing(p) ==
    /\ Runs(p, "unlinkAll")
    /\ tx' = [tx EXCEPT ![p].rel =
                [i \in RelIds |-> IF Committed(i) /\ Stmt(p).source = rel[i].source
                                  THEN Deleted ELSE @[i]]]
    /\ Advance(p, {})
    /\ UNCHANGED <<sheet, rel, linked, announced, calls, faults>>

UnlinkAll(p) ==
    /\ Runs(p, "unlinkAll")
    /\ tx' = [tx EXCEPT ![p].rel =
                [i \in RelIds |-> IF Committed(i) /\ Stmt(p).source \in Ends(rel[i])
                                  THEN Deleted ELSE @[i]]]
    /\ Advance(p, {})
    /\ UNCHANGED <<sheet, rel, linked, announced, calls, faults>>

Referenced(p, f) == \E i \in RelIds : Stored(Seen(p, i)) /\ f \in Ends(Seen(p, i))

Drop(p) ==
    /\ Runs(p, "drop") /\ sheet[Stmt(p).source].live /\ ~Referenced(p, Stmt(p).source)
    /\ tx' = [tx EXCEPT ![p].dropped = @ \cup {Stmt(p).source}]
    /\ Advance(p, {})
    /\ UNCHANGED <<sheet, rel, linked, announced, calls, faults>>

\* Mutant: full mode forgets to ask for the relations of the type.
SuperfluousOfAnyType(s, i) ==
    /\ Committed(i) /\ rel[i].source = s.source
    /\ rel[i].target \notin s.targets

\* Full mode: the item's relations of the type that it does not name any more.
Superfluous(s, i) ==
    /\ Committed(i) /\ rel[i].type = s.type /\ rel[i].source = s.source
    /\ rel[i].target \notin s.targets

KeepOnly(p) ==
    /\ Runs(p, "keepOnly")
    /\ rel' = [i \in RelIds |-> IF Superfluous(Stmt(p), i) THEN Deleted ELSE rel[i]]
    /\ call' = [q \in Procs |-> IF q = p THEN Idle ELSE Changed(call[q])]
    /\ UNCHANGED <<sheet, tx, linked, announced, calls, faults>>

\* The statement meets a missing row, a broken key or a failed check: the
\* transaction is rolled back, the rest of an LDIF item is skipped.
Impossible(p, s) ==
    CASE s.do = "link" -> ~Linkable(p, s)
      [] s.do = "unlink" -> ~Addressed(p, s)
      [] s.do = "move" -> ~Movable(p, s)
      [] s.do = "touch" -> ~sheet[s.source].live
      [] s.do = "drop" -> ~sheet[s.source].live \/ Referenced(p, s.source)
      [] OTHER -> FALSE

\* Mutant: the failure is caught and the events are sent all the same.
FailSilently(p) ==
    /\ HasStatement(p) /\ Blockers(p) = {} /\ Impossible(p, Stmt(p))
    /\ call' = [call EXCEPT ![p].at = "emit", ![p].todo = <<>>]
    /\ tx' = [tx EXCEPT ![p] = Empty]
    /\ UNCHANGED <<sheet, rel, linked, announced, calls, faults>>

Fail(p) ==
    /\ HasStatement(p) /\ Blockers(p) = {} /\ Impossible(p, Stmt(p))
    /\ Finish(p)
    /\ UNCHANGED <<sheet, rel, linked, announced, calls, faults>>

Commit(p) ==
    /\ call[p].at = "commit"
    /\ rel' = [i \in RelIds |-> Seen(p, i)]
    /\ sheet' = [f \in Sheets |->
                    [live |-> sheet[f].live /\ f \notin tx[p].dropped,
                     rev |-> IF f \in tx[p].touched THEN sheet[f].rev + 1 ELSE sheet[f].rev]]
    /\ linked' = linked \cup call[p].made
    /\ tx' = [tx EXCEPT ![p] = Empty]
    /\ call' = [q \in Procs |->
                    IF q # p THEN Changed(call[q])
                    ELSE [call[p] EXCEPT !.at = IF call[p].op = "patch"
                                                THEN "after" ELSE "emit"]]
    /\ UNCHANGED <<announced, calls, faults>>

\* update() reads the sheet again before it emits anything.
ReadAgain(p) ==
    /\ call[p].at = "after"
    /\ IF sheet[call[p].sheet].live
       THEN call' = [call EXCEPT ![p].at = "emit"]
       ELSE call' = [call EXCEPT ![p] = Idle]
    /\ UNCHANGED <<sheet, rel, tx, linked, announced, calls, faults>>

\* RELATION_CREATED; LDIF reads both sheets again and says nothing of lost ones.
Announceable(p) ==
    {row \in call[p].made : call[p].op = "ldif" => \A f \in Ends(row) : sheet[f].live}

Emit(p) ==
    /\ call[p].at = "emit"
    /\ announced' = announced \cup Announceable(p)
    /\ call' = [call EXCEPT ![p] = IF @.todo = <<>> THEN Idle
                                   ELSE [@ EXCEPT !.at = "run", !.made = {}]]
    /\ UNCHANGED <<sheet, rel, tx, linked, calls, faults>>

-----------------------------------------------------------------------------
(* explain_architecture                                                    *)

\* Depth 2; depth 1, and get_relations, return Around as it is.
Explain(p, space, f) ==
    /\ Visible(f, space)
    /\ Start(p, "explain", space, f, SetToSeq({OnSheet("visit", g) : g \in Neighbours(f)}))

\* Mutant: the second hop follows outgoing relations only.
VisitOutgoing(p) ==
    /\ Runs(p, "visit")
    /\ call' = [call EXCEPT
            ![p].todo = Tail(@),
            ![p].found = @ \cup {row \in Around(Stmt(p).source) : row.source = Stmt(p).source},
            ![p].at = IF Len(call[p].todo) = 1 THEN "emit" ELSE "run"]
    /\ UNCHANGED <<sheet, rel, tx, linked, announced, calls, faults>>

Visit(p) ==
    /\ Runs(p, "visit")
    /\ call' = [call EXCEPT
            ![p].todo = Tail(@),
            ![p].found = IF Visible(Stmt(p).source, call[p].space)
                         THEN @ \cup Around(Stmt(p).source) ELSE @,
            ![p].at = IF Len(call[p].todo) = 1 THEN "emit" ELSE "run"]
    /\ UNCHANGED <<sheet, rel, tx, linked, announced, calls, faults>>

-----------------------------------------------------------------------------
(* Failures                                                                *)

\* Mutant: the statement that lost a deadlock is tried again, and nothing is given up.
AbortRetries(p) == Deadlocked(p) /\ UNCHANGED graphVars

\* PostgreSQL breaks a deadlock.
AbortVictim(p) ==
    /\ Deadlocked(p)
    /\ Finish(p)
    /\ UNCHANGED <<sheet, rel, linked, announced, calls, faults>>

\* A transaction runs past INTERACTIVE_TX_OPTIONS.
TimeOut(p) ==
    /\ faults < MaxFaults
    /\ call[p].op \notin {"ldif", "explain"} /\ call[p].at \in {"run", "commit"}
    /\ faults' = faults + 1
    /\ Finish(p)
    /\ UNCHANGED <<sheet, rel, linked, announced, calls>>

\* The API process dies: no handler survives.
GraphCrash ==
    /\ faults < MaxFaults
    /\ faults' = faults + 1
    /\ call' = [p \in Procs |-> Idle]
    /\ tx' = [p \in Procs |-> Empty]
    /\ UNCHANGED <<sheet, rel, linked, announced, calls>>

Step(p) ==
    \/ Link(p) \/ Unlink(p) \/ Move(p) \/ Touch(p) \/ UnlinkAll(p) \/ Drop(p) \/ KeepOnly(p)
    \/ Visit(p) \/ Fail(p) \/ Commit(p) \/ ReadAgain(p) \/ Emit(p) \/ AbortVictim(p)

GraphCalls(p) ==
    \/ \E space \in Spaces :
        \/ \E t \in CalledTypes, f \in Called, g \in Sheets : UpsertRelation(p, space, t, f, g)
        \/ \E i \in RelIds : DeleteRelation(p, space, i)
        \/ \E f \in Called :
            \/ \E patches \in PatchLists : UpdateFactSheet(p, space, f, patches)
            \/ Explain(p, space, f)
            \/ PermanentDelete(p, space, f)
    \/ \E t \in CalledTypes, f \in Called, targets \in TargetLists, full \in BOOLEAN :
        ProcessRelations(p, t, f, targets, full)

GraphNext ==
    \/ \E p \in Procs : GraphCalls(p) \/ Step(p) \/ TimeOut(p)
    \/ GraphCrash

GraphSpec == GraphInit /\ [][GraphNext]_graphVars

-----------------------------------------------------------------------------
(* Properties                                                              *)

\* A relation, its type and both its sheets belong to one workspace.  A patch
\* by relation id is not asked whose relation that is: it is only safe because
\* of its type's workspace (fact-sheet-patch.service.ts:318).
OneWorkspace ==
    \A i \in RelIds : Committed(i) =>
        /\ SpaceOf[rel[i].source] = SpaceOf[rel[i].type]
        /\ SpaceOf[rel[i].target] = SpaceOf[rel[i].type]

\* No relation outlives one of its sheets, whoever links while the sheet is
\* being deleted (fact-sheet.service.ts:281).
NoDangling ==
    \A i \in RelIds : Committed(i) => \A f \in Ends(rel[i]) : sheet[f].live

\* permanentDelete removes whatever would keep it from deleting the sheet: only
\* what others commit while it runs makes its last statement fail.
NotInItsOwnWay ==
    \A p \in Procs :
        HasStatement(p) /\ Stmt(p).do = "drop" /\ call[p].quiet
            => ~Referenced(p, Stmt(p).source)

\* RELATION_CREATED is never sent for a relation that was not committed.
AnnouncedWereLinked == announced \subseteq linked

\* explain_architecture asks several queries; if nobody commits meanwhile they
\* add up to the relations within two hops, and to nothing else.
ExplainExact ==
    \A p \in Procs :
        call[p].op = "explain" /\ call[p].at = "emit" /\ call[p].quiet
            => call[p].found = {row \in Existing :
                    \E f \in Ends(row) :
                        \/ f = call[p].sheet
                        \/ \E link \in Existing : Ends(link) = {f, call[p].sheet}}

Acts(p) == call'[p].at # call[p].at \/ call'[p].todo # call[p].todo

Tells(f) == sheet'[f].rev > sheet[f].rev \/ (sheet[f].live /\ ~sheet'[f].live)

\* A step that creates, changes or removes a relation raises the rev of the sheet
\* it starts at, or removes that sheet: a client with an older rev learns of it.
\* Behind its rev that happens in three ways only: by an LDIF run, by a patch of
\* another sheet that names the relation by its id (fact-sheet-patch.service.ts:
\* 323), and by the deletion of the relation's target (fact-sheet.service.ts:282).
TellsOfRelations ==
    \A i \in RelIds : \A row \in {rel[i], rel'[i]} :
        rel'[i] # rel[i] /\ Stored(row) =>
            \/ Tells(row.source)
            \/ sheet[row.target].live /\ ~sheet'[row.target].live
            \/ \E p \in Procs :
                /\ Acts(p)
                /\ call[p].op = "ldif" \/ (call[p].op = "patch" /\ call[p].sheet # row.source)

RevTellsOfRelations == [][TellsOfRelations]_graphVars

\* A full item that comes to its last statement leaves its source no relation of
\* the type but those it names, even if others have committed beside it, and none
\* of those is missing if nobody has; the relations of another type or another
\* source it never touches (ldif.processor.ts:324).
KeepsExactly ==
    \A p \in Procs :
        HasStatement(p) /\ Stmt(p).do = "keepOnly" /\ Acts(p)
        /\ call'[p].at = "idle" /\ faults' = faults
            => LET Own(row) == Stored(row) /\ row.type = Stmt(p).type
                                           /\ row.source = Stmt(p).source
                   left == {rel'[i].target : i \in {j \in RelIds : Own(rel'[j])}} IN
               /\ left \subseteq Stmt(p).targets
               /\ call[p].quiet => left = Stmt(p).targets
               /\ \A i \in RelIds : ~Own(rel[i]) => rel'[i] = rel[i]

\* What KeepsExactly says, of every step of a full run.
FullModeExact == [][KeepsExactly]_graphVars
=============================================================================
