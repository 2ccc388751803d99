------------------------------- MODULE LdifSync -------------------------------
(***************************************************************************)
(* Sync runs of one connector: a request creates a run and starts its      *)
(* processing without waiting for it, and the processing writes sheets,    *)
(* mappings and logs one statement at a time, with no transaction around   *)
(* an item.  Several runs may be under way, users delete sheets, a         *)
(* statement may fail and the process may die.                             *)
(*                                                                         *)
(* The data of an item is the set of custom attributes it gives, and its   *)
(* hash is that set.  Its external id is the record's id.  All attributes  *)
(* count for the completion, which is kept as the set it was counted from. *)
(* Native fields, relations, warnings and events are left out.             *)
(***************************************************************************)
EXTENDS Integers, Sequences, FiniteSets

CONSTANTS Records,      \* ids of source records
          Attrs,        \* custom attributes of the fact sheet type
          Contents,     \* what a run may be given: sequences of items
          NumRuns,      \* bound: runs
          MaxOverlaps,  \* bound: runs started while another is under way
          MaxDeletes,   \* bound: sheets that users delete
          MaxFaults     \* bound: failing statements and crashes

Items == [id : Records, known : BOOLEAN, data : SUBSET Attrs]

ASSUME ConstantsAssumption ==
    /\ Contents \subseteq Seq(Items)
    /\ NumRuns \in Nat /\ MaxOverlaps \in Nat /\ MaxDeletes \in Nat /\ MaxFaults \in Nat

VARIABLES
    sheet,     \* fact_sheets with their attribute_values
    mapping,   \* sync_mappings: each record's sheet and the hash of its data
    run,       \* sync_runs
    log,       \* sync_logs: the kinds of rows each item of a run has
    proc,      \* the processing of each run
    overlaps, deletes, faults

vars == <<sheet, mapping, run, log, proc, overlaps, deletes, faults>>

Runs == 1 .. NumRuns
Positions == UNION {DOMAIN c : c \in Contents}

\* The sheet that item i of run n creates has the id <<n, i>>.
Ids == Runs \X Positions

Absent == [state |-> "absent"]
Gone == [state |-> "gone"]
Live(r, vals, completion) ==
    [state |-> "live", record |-> r, vals |-> vals, completion |-> completion]
NoSheet == <<0, 0>>
Mapped(f, hash) == [sheet |-> f, hash |-> hash]
Unmapped == Mapped(NoSheet, {})
Row(status, mode, content, counts) ==
    [status |-> status, mode |-> mode, content |-> content, counts |-> counts]

Zero == [processed |-> 0, created |-> 0, updated |-> 0, errors |-> 0]
NoRun == [status |-> "none"]

\* f is the item's sheet, fresh that it is yet to be created; put and cut are
\* the attributes still to be set and removed; filled is the completion counted.
Idle == [at |-> "none", i |-> 1, f |-> NoSheet, fresh |-> FALSE, put |-> {}, cut |-> {},
         filled |-> {}, counts |-> Zero]

InItem == {"find", "match", "skip", "reject", "write", "read", "put", "cut", "count",
           "store", "log", "map"}
Statements == InItem \cup {"running", "error", "finish", "abort", "fail"}

Kinds == {"created", "updated", "skipped", "error"}
Counts == [processed : Nat, created : Nat, updated : Nat, errors : Nat]

LiveSheet == [state : {"live"}, record : Records, vals : SUBSET Attrs, completion : SUBSET Attrs]
Mapping == [sheet : Ids \cup {NoSheet}, hash : SUBSET Attrs]
SyncRun == [status : {"CREATED", "RUNNING", "FINISHED", "FAILED"}, mode : {"partial", "full"},
            content : Contents, counts : Counts]
Processing == [at : Statements \cup {"none", "ended", "lost"}, i : Nat, f : Ids \cup {NoSheet},
               fresh : BOOLEAN, put : SUBSET Attrs, cut : SUBSET Attrs, filled : SUBSET Attrs,
               counts : Counts]

TypeOK ==
    /\ sheet \in [Ids -> {Absent, Gone} \cup LiveSheet]
    /\ mapping \in [Records -> Mapping]
    /\ run \in [Runs -> {NoRun} \cup SyncRun]
    /\ log \in [Runs -> [Positions -> SUBSET Kinds]]
    /\ proc \in [Runs -> Processing]
    /\ overlaps \in 0 .. MaxOverlaps /\ deletes \in 0 .. MaxDeletes /\ faults \in 0 .. MaxFaults

Init ==
    /\ sheet = [f \in Ids |-> Absent]
    /\ mapping = [r \in Records |-> Unmapped]
    /\ run = [n \in Runs |-> NoRun]
    /\ log = [n \in Runs |-> [i \in Positions |-> {}]]
    /\ proc = [n \in Runs |-> Idle]
    /\ overlaps = 0 /\ deletes = 0 /\ faults = 0

Active(n) == proc[n].at \in Statements
Item(n) == run[n].content[proc[n].i]
Full(n) == run[n].mode = "full"
Exists(f) == sheet[f].state = "live"

-----------------------------------------------------------------------------
(* Requests                                                                *)

\* startSyncRun: the row is inserted and the processing set off; neither the
\* number of runs nor the connector keeps it from starting beside another.
Start(n, mode, content) ==
    /\ run[n] = NoRun /\ \A k \in 1 .. n - 1 : run[k] # NoRun
    /\ IF \E k \in Runs : Active(k)
       THEN overlaps < MaxOverlaps /\ overlaps' = overlaps + 1
       ELSE UNCHANGED overlaps
    /\ run' = [run EXCEPT ![n] = Row("CREATED", mode, content, Zero)]
    /\ proc' = [proc EXCEPT ![n] = [Idle EXCEPT !.at = "running"]]
    /\ UNCHANGED <<sheet, mapping, log, deletes, faults>>

\* permanentDelete takes the mappings along.
Delete(f) ==
    /\ deletes < MaxDeletes /\ deletes' = deletes + 1
    /\ Exists(f)
    /\ sheet' = [sheet EXCEPT ![f] = Gone]
    /\ mapping' = [r \in Records |-> IF mapping[r].sheet = f THEN Unmapped ELSE mapping[r]]
    /\ UNCHANGED <<run, log, proc, overlaps, faults>>

-----------------------------------------------------------------------------
(* process: the runs' items, one after the other                           *)

ProcAt(n, label) == proc' = [proc EXCEPT ![n].at = label]
ProcIs(n, p) == proc' = [proc EXCEPT ![n] = p]
Logged(n, kind) == log' = [log EXCEPT ![n][proc[n].i] = @ \cup {kind}]

Steady == <<overlaps, deletes, faults>>

\* An exception leaves processItem: counted, and logged by the next statement.
Thrown(p) == [p EXCEPT !.at = "error", !.counts.errors = @ + 1]

Iteration(n, i) == IF i > Len(run[n].content) THEN "finish" ELSE "find"

\* The end of an iteration of the loop over the items.
NextItem(n, p) ==
    [Idle EXCEPT !.at = Iteration(n, p.i + 1), !.i = p.i + 1,
                 !.counts = [p.counts EXCEPT !.processed = @ + 1]]

MarkRunning(n) ==
    /\ proc[n].at = "running"
    /\ run' = [run EXCEPT ![n].status = "RUNNING"]
    /\ ProcAt(n, Iteration(n, 1))
    /\ UNCHANGED <<sheet, mapping, log, Steady>>

\* Mutant: the hash is not compared.
AnyHash(n, m) == m.sheet # NoSheet /\ ~Full(n)

\* The early return of a partial run.
Unchanged(n, m) == m.sheet # NoSheet /\ m.hash = Item(n).data /\ ~Full(n)

\* The type and the mapping are looked up.
Find(n) ==
    /\ proc[n].at = "find"
    /\ LET m == mapping[Item(n).id]
           p == proc[n]
       IN  ProcIs(n,
             IF ~Item(n).known THEN [p EXCEPT !.at = "reject", !.counts.errors = @ + 1]
             ELSE [p EXCEPT !.f = m.sheet,
                            !.at = IF Unchanged(n, m) THEN "skip"
                                   ELSE IF m.sheet = NoSheet THEN "match" ELSE "write"])
    /\ UNCHANGED <<sheet, mapping, run, log, Steady>>

Reject(n) ==
    /\ proc[n].at = "reject"
    /\ Logged(n, "error")
    /\ ProcIs(n, NextItem(n, proc[n]))
    /\ UNCHANGED <<sheet, mapping, run, Steady>>

\* Mutant: the external id is not looked up.
MatchNothing(n) ==
    /\ proc[n].at = "match"
    /\ ProcIs(n, [proc[n] EXCEPT !.at = "write", !.fresh = TRUE])
    /\ UNCHANGED <<sheet, mapping, run, log, Steady>>

\* Any sheet with the external id, in the trash or not.
Match(n) ==
    /\ proc[n].at = "match"
    /\ LET found == {f \in Ids : Exists(f) /\ sheet[f].record = Item(n).id}
       IN  \/ /\ found = {}
              /\ ProcIs(n, [proc[n] EXCEPT !.at = "write", !.fresh = TRUE])
           \/ \E f \in found : ProcIs(n, [proc[n] EXCEPT !.at = "write", !.f = f])
    /\ UNCHANGED <<sheet, mapping, run, log, Steady>>

\* A row that refers to the item's sheet, or an UPDATE of it, throws once the
\* sheet is deleted.
Orphaned(n) ==
    /\ \/ proc[n].at \in {"skip", "put", "count", "store", "log", "map"}
       \/ proc[n].at = "write" /\ ~proc[n].fresh
    /\ ~Exists(proc[n].f)
    /\ ProcIs(n, Thrown(proc[n]))
    /\ UNCHANGED <<sheet, mapping, run, log, Steady>>

Skip(n) ==
    /\ proc[n].at = "skip" /\ Exists(proc[n].f)
    /\ Logged(n, "skipped")
    /\ ProcIs(n, NextItem(n, proc[n]))
    /\ UNCHANGED <<sheet, mapping, run, Steady>>

Create(n) ==
    /\ proc[n].at = "write" /\ proc[n].fresh
    /\ LET f == <<n, proc[n].i>>
       IN  /\ sheet' = [sheet EXCEPT ![f] = Live(Item(n).id, {}, {})]
           /\ ProcIs(n, [proc[n] EXCEPT !.at = "read", !.f = f, !.counts.created = @ + 1])
    /\ UNCHANGED <<mapping, run, log, Steady>>

Update(n) ==
    /\ proc[n].at = "write" /\ ~proc[n].fresh /\ Exists(proc[n].f)
    /\ ProcIs(n, [proc[n] EXCEPT !.at = "read", !.counts.updated = @ + 1])
    /\ UNCHANGED <<sheet, mapping, run, log, Steady>>

-----------------------------------------------------------------------------
(* applyCustomAttributes and recalculateCompletion                         *)

Values(f) == IF Exists(f) THEN sheet[f].vals ELSE {}

\* What is left to do with the attributes decides where the item goes on.
Onward(p) ==
    [p EXCEPT !.at = IF p.put # {} THEN "put" ELSE IF p.cut # {} THEN "cut" ELSE "count"]

\* Mutant: the attributes are set in full mode only.
GivenInFull(n) == IF Full(n) THEN Item(n).data ELSE {}

Given(n) == Item(n).data

\* The values that are there before anything is set.
ReadValues(n) ==
    /\ proc[n].at = "read"
    /\ ProcIs(n, Onward([proc[n] EXCEPT
           !.put = Given(n),
           !.cut = IF Full(n) THEN Values(proc[n].f) \ Item(n).data ELSE {}]))
    /\ UNCHANGED <<sheet, mapping, run, log, Steady>>

Put(n, a) ==
    /\ proc[n].at = "put" /\ a \in proc[n].put /\ Exists(proc[n].f)
    /\ sheet' = [sheet EXCEPT ![proc[n].f].vals = @ \cup {a}]
    /\ ProcIs(n, Onward([proc[n] EXCEPT !.put = @ \ {a}]))
    /\ UNCHANGED <<mapping, run, log, Steady>>

Cut(n, a) ==
    /\ proc[n].at = "cut" /\ a \in proc[n].cut /\ a \in Values(proc[n].f)
    /\ sheet' = [sheet EXCEPT ![proc[n].f].vals = @ \ {a}]
    /\ ProcIs(n, Onward([proc[n] EXCEPT !.cut = @ \ {a}]))
    /\ UNCHANGED <<mapping, run, log, Steady>>

\* Another run, or the sheet's deletion, has removed the value already.
CutNothing(n, a) ==
    /\ proc[n].at = "cut" /\ a \in proc[n].cut /\ a \notin Values(proc[n].f)
    /\ ProcIs(n, Thrown(proc[n]))
    /\ UNCHANGED <<sheet, mapping, run, log, Steady>>

\* Read and written in one transaction, but without a lock on the sheet.
Count(n) ==
    /\ proc[n].at = "count" /\ Exists(proc[n].f)
    /\ ProcIs(n, [proc[n] EXCEPT !.at = "store", !.filled = Values(proc[n].f)])
    /\ UNCHANGED <<sheet, mapping, run, log, Steady>>

Store(n) ==
    /\ proc[n].at = "store" /\ Exists(proc[n].f)
    /\ sheet' = [sheet EXCEPT ![proc[n].f].completion = proc[n].filled]
    /\ ProcAt(n, "log")
    /\ UNCHANGED <<mapping, run, log, Steady>>

LogItem(n) ==
    /\ proc[n].at = "log" /\ Exists(proc[n].f)
    /\ Logged(n, IF proc[n].fresh THEN "created" ELSE "updated")
    /\ ProcAt(n, "map")
    /\ UNCHANGED <<sheet, mapping, run, Steady>>

\* The hash is stored last: until here the item counts as not done.
Map(n) ==
    /\ proc[n].at = "map" /\ Exists(proc[n].f)
    /\ mapping' = [mapping EXCEPT ![Item(n).id] = Mapped(proc[n].f, Item(n).data)]
    /\ ProcIs(n, NextItem(n, proc[n]))
    /\ UNCHANGED <<sheet, run, log, Steady>>

-----------------------------------------------------------------------------
(* Errors and ends                                                         *)

LogError(n) ==
    /\ proc[n].at = "error"
    /\ Logged(n, "error")
    /\ ProcIs(n, NextItem(n, proc[n]))
    /\ UNCHANGED <<sheet, mapping, run, Steady>>

\* Mutant: errors do not make a run fail.
AlwaysFinished(counts) == "FINISHED"

Result(counts) == IF counts.errors > 0 THEN "FAILED" ELSE "FINISHED"

MarkFinished(n) ==
    /\ proc[n].at = "finish"
    /\ run' = [run EXCEPT ![n].status = Result(proc[n].counts), ![n].counts = proc[n].counts]
    /\ ProcAt(n, "ended")
    /\ UNCHANGED <<sheet, mapping, log, Steady>>

\* Mutant: the handler only logs.
OnlyLogAbort(n) ==
    /\ proc[n].at = "abort"
    /\ ProcAt(n, "ended")
    /\ UNCHANGED <<sheet, mapping, run, log, Steady>>

\* process has rejected; its handler logs that, about no item.
LogAbort(n) ==
    /\ proc[n].at = "abort"
    /\ ProcAt(n, "fail")
    /\ UNCHANGED <<sheet, mapping, run, log, Steady>>

MarkFailed(n) ==
    /\ proc[n].at = "fail"
    /\ run' = [run EXCEPT ![n].status = "FAILED", ![n].counts.errors = 1]
    /\ ProcAt(n, "ended")
    /\ UNCHANGED <<sheet, mapping, log, Steady>>

Fault == faults < MaxFaults /\ faults' = faults + 1

\* The API process dies: what was under way is not taken up again.
Die == proc' = [n \in Runs |-> IF Active(n) THEN [Idle EXCEPT !.at = "lost"] ELSE proc[n]]

\* A statement fails: inside an item processItem throws, outside process does,
\* and a failure of its handler is a rejection nobody handles, which ends the
\* process.
StatementFails(n) ==
    /\ Fault
    /\ \/ proc[n].at \in InItem /\ ProcIs(n, Thrown(proc[n]))
       \/ proc[n].at \in {"running", "error", "finish"} /\ ProcAt(n, "abort")
       \/ proc[n].at \in {"abort", "fail"} /\ Die
    /\ UNCHANGED <<sheet, mapping, run, log, overlaps, deletes>>

Crash ==
    /\ Fault
    /\ Die
    /\ UNCHANGED <<sheet, mapping, run, log, overlaps, deletes>>

-----------------------------------------------------------------------------
ProcessItem(n) ==
    \/ Find(n) \/ Reject(n) \/ Match(n) \/ Orphaned(n) \/ Skip(n) \/ Create(n) \/ Update(n)
    \/ ReadValues(n) \/ (\E a \in Attrs : Put(n, a) \/ Cut(n, a) \/ CutNothing(n, a))
    \/ Count(n) \/ Store(n) \/ LogItem(n) \/ Map(n)

Process(n) ==
    \/ MarkRunning(n) \/ ProcessItem(n) \/ LogError(n) \/ MarkFinished(n)
    \/ LogAbort(n) \/ MarkFailed(n)

Next ==
    \/ \E n \in Runs :
          \/ \E mode \in {"partial", "full"}, c \in Contents : Start(n, mode, c)
          \/ Process(n) \/ StatementFails(n)
    \/ \E f \in Ids : Delete(f)
    \/ Crash

Spec == Init /\ [][Next]_vars

\* What has been set off runs on.  Nobody is obliged to start a run, to delete
\* a sheet, or to fail.
FairSpec == Spec /\ \A n \in Runs : WF_vars(Process(n))

-----------------------------------------------------------------------------
(* Properties                                                              *)

SheetsOf(r) == {f \in Ids : Exists(f) /\ sheet[f].record = r}

\* One record, one sheet, whatever fails or is deleted in between: the mapping
\* and the external id find the sheet of an earlier run even if that run got no
\* further than to create it.  Only runs that overlap can both find nothing,
\* and each overlap costs at most one sheet.
OneSheetPerRecord ==
    \A r \in Records : Cardinality(SheetsOf(r)) <= 1 + overlaps

\* What a run reports is what became of its items: a FINISHED run has created,
\* updated or skipped each of them, exactly as many as it says, and a FAILED
\* run that got to its end has an error logged for some item.
LogsTellResult ==
    \A n \in Runs :
        LET items == DOMAIN run[n].content
            Those(kind) == Cardinality({i \in items : log[n][i] = {kind}})
            counts == run[n].counts
        IN  /\ run[n].status = "FINISHED" =>
                  /\ counts.processed = Len(run[n].content) /\ counts.errors = 0
                  /\ counts.created = Those("created") /\ counts.updated = Those("updated")
                  /\ Len(run[n].content) = counts.created + counts.updated + Those("skipped")
            /\ run[n].status = "FAILED" /\ counts.processed > 0 =>
                  /\ counts.processed = Len(run[n].content) /\ counts.errors > 0
                  /\ \E i \in items : "error" \in log[n][i]

\* A hash is stored only when the sheet has the data it stands for and a
\* completion that counts them, so that an item that failed half-way is done
\* again; runs that do not overlap rely on it.
AppliedBeforeMapped ==
    [][\A r \in Records :
          mapping'[r] # mapping[r] /\ mapping'[r] # Unmapped /\ overlaps = 0 =>
              LET s == sheet'[mapping'[r].sheet]
              IN  mapping'[r].hash \subseteq s.vals /\ s.completion = s.vals]_vars

\* The sheet of the last item of each record is as the run wanted it.
Persisted(n) ==
    \A i \in DOMAIN run[n].content :
        LET item == run[n].content[i]
            f == mapping[item.id].sheet
            last == \A k \in DOMAIN run[n].content :
                        k > i /\ run[n].content[k].known => run[n].content[k].id # item.id
        IN  item.known /\ last =>
                /\ f \in Ids /\ Exists(f)
                /\ item.data \subseteq sheet[f].vals
                /\ Full(n) => item.data = sheet[f].vals

Newest(n) == run[n].status = "FINISHED" /\ \A k \in Runs : k > n => run[k] = NoRun

\* Of the newest run, FINISHED means that all its items are in their sheets.
PersistedWhenFinished ==
    \A n \in Runs : Newest(n) /\ overlaps = 0 /\ deletes = 0 => Persisted(n)

\* So it is as long as no statement fails, in this run or in one before it.
PersistedWithoutFaults == faults = 0 => PersistedWhenFinished

\* Every run ends as FINISHED or FAILED, except that a crash leaves it as it is.
RunsEnd ==
    \A n \in Runs :
        run[n] # NoRun ~> run[n].status \in {"FINISHED", "FAILED"} \/ proc[n].at = "lost"

=============================================================================
