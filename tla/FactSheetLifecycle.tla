------------------------- MODULE FactSheetLifecycle -------------------------
(***************************************************************************)
(* Archive, revive and permanent deletion of fact sheets, with the hourly  *)
(* trash-bin scheduler, over two PostgreSQL tables: fact_sheets and        *)
(* trash_bin (which has no foreign key to fact_sheets).                    *)
(*                                                                         *)
(* A request reads its fact sheet outside any transaction, then runs a     *)
(* Prisma interactive transaction of separate statements.  Isolation is    *)
(* READ COMMITTED: a statement reads committed rows, a written row stays   *)
(* locked until the writer ends, and a statement that needs a locked row   *)
(* waits.  Nothing a transaction wrote is visible before Commit, so its    *)
(* pending writes are not stored: pc and req determine them (SheetWriters, *)
(* EntryWriters) and Commit installs them.                                 *)
(*                                                                         *)
(* The relations, sync mappings and sync logs a delete removes first are   *)
(* in tables nothing else here looks at and are left out.                  *)
(*                                                                         *)
(* The columns status and trashBin are always written together and are     *)
(* one value here; a deleted row has status "GONE".                        *)
(***************************************************************************)
EXTENDS Integers, FiniteSets

CONSTANTS Sheets,       \* fact sheets that exist at the start
          Archived,     \* those that have just been put into the trash bin
          Users,        \* request handlers of the API process
          Crons,        \* sweeps of the scheduler that may overlap
          Retention,    \* trashBinRetentionDays, in clock units
          AutoDelete,   \* autoDeleteEnabled
          MaxTime,      \* bound: last value of the clock
          MaxRequests,  \* bound: user requests in a behaviour
          MaxFaults     \* bound: transaction timeouts and process crashes

ASSUME ConstantsAssumption ==
    /\ Users \cap Crons = {}
    /\ Sheets # {} /\ Archived \subseteq Sheets
    /\ Retention \in Nat
    /\ AutoDelete \in BOOLEAN
    /\ MaxTime \in Nat /\ MaxRequests \in Nat /\ MaxFaults \in Nat

Procs == Users \cup Crons
Ops == {"archive", "revive", "delete"}

\* SQL NULL in auto_delete_at, and the absence of a trash_bin row.
NoDate == -1
Dates == Nat \cup {NoDate}

VARIABLES
    now,       \* the clock
    status,    \* fact_sheets.status of each sheet, or "GONE"
    deadline,  \* fact_sheets.auto_delete_at
    rev,       \* fact_sheets.rev
    entry,     \* trash_bin.auto_delete_at of the sheet's entry, or NoDate
    pc,        \* where each process is
    req,       \* its operation, sheet, archivedAt, and whether deleteMany hit
    due,       \* ids each sweep still has to delete
    sent,      \* lifecycle events emitted for each sheet
    left,      \* user requests still allowed
    faults     \* faults so far

db == <<status, deadline, rev, entry>>
vars == <<now, db, pc, req, due, sent, left, faults>>

Requests == [op : Ops, id : Sheets, at : Nat, hit : BOOLEAN]

\* What req holds of a process that serves nothing.
NoRequest == [op |-> "delete", id |-> CHOOSE f \in Sheets : TRUE, at |-> 0, hit |-> FALSE]

TypeOK ==
    /\ now \in Nat
    /\ status \in [Sheets -> {"ACTIVE", "ARCHIVED", "GONE"}]
    /\ deadline \in [Sheets -> Dates]
    /\ rev \in [Sheets -> Nat]
    /\ entry \in [Sheets -> Dates]
    /\ pc \in [Procs -> {"idle", "load", "sheet", "entry", "commit", "emit"}]
    /\ req \in [Procs -> Requests]
    /\ due \in [Crons -> SUBSET Sheets]
    /\ sent \in [Sheets -> Nat]
    /\ left \in Nat
    /\ faults \in Nat

Init ==
    /\ now = 0
    /\ status = [f \in Sheets |-> IF f \in Archived THEN "ARCHIVED" ELSE "ACTIVE"]
    /\ deadline = [f \in Sheets |-> IF f \in Archived THEN Retention ELSE NoDate]
    /\ rev = [f \in Sheets |-> 1]
    /\ entry = deadline
    /\ pc = [p \in Procs |-> "idle"]
    /\ req = [p \in Procs |-> NoRequest]
    /\ due = [c \in Crons |-> {}]
    /\ sent = [f \in Sheets |-> 0]
    /\ left = MaxRequests
    /\ faults = 0

-----------------------------------------------------------------------------
(* Row locks                                                               *)

\* Archive and revive write the sheet first and the entry second; a delete
\* writes them the other way round.
SheetWritten(p) ==
    pc[p] \in (IF req[p].op = "delete" THEN {"commit"} ELSE {"entry", "commit"})

\* An upsert always writes the entry, a deleteMany only if it matched a row.
EntryWritten(p) ==
    /\ pc[p] \in (IF req[p].op = "delete" THEN {"sheet", "commit"} ELSE {"commit"})
    /\ req[p].op = "archive" \/ req[p].hit

SheetWriters(f) == {p \in Procs : req[p].id = f /\ SheetWritten(p)}
EntryWriters(f) == {p \in Procs : req[p].id = f /\ EntryWritten(p)}

\* deleteMany touches only rows it can see: it does not wait for an
\* uncommitted insert, whereas the upsert does.
WaitsFor(p, q) ==
    LET f == req[p].id IN
    /\ p # q
    /\ \/ pc[p] = "sheet" /\ q \in SheetWriters(f)
       \/ /\ pc[p] = "entry" /\ q \in EntryWriters(f)
          /\ req[p].op = "archive" \/ entry[f] # NoDate

Blocked(p) == \E q \in Procs : WaitsFor(p, q)

\* A transaction takes at most two locks, the rows of one sheet, so a cycle
\* of waiting transactions has two members.
Deadlocked(p) == \E q \in Procs : WaitsFor(p, q) /\ WaitsFor(q, p)

-----------------------------------------------------------------------------
(* Request handlers                                                        *)

Goto(p, label) == pc' = [pc EXCEPT ![p] = label]

\* The handler returns or throws; in a transaction, COMMIT or ROLLBACK is done.
Finish(p) == Goto(p, "idle") /\ req' = [req EXCEPT ![p] = NoRequest]

\* A user calls archiveFactSheet, reviveFactSheet or deleteFactSheet.
Call(p, op, f) ==
    /\ pc[p] = "idle" /\ left > 0
    /\ left' = left - 1
    /\ req' = [req EXCEPT ![p] = [op |-> op, id |-> f, at |-> 0, hit |-> FALSE]]
    /\ Goto(p, "load")
    /\ UNCHANGED <<now, db, due, sent, faults>>

\* requireById, before the transaction.
Found(p) == status[req[p].id] # "GONE"

\* permanentDelete alone also looks at trashBin, still before the transaction.
Deletable(p) == req[p].op = "delete" => status[req[p].id] = "ARCHIVED"

FirstStatement(op) == IF op = "delete" THEN "entry" ELSE "sheet"

Load(p) ==
    /\ pc[p] = "load"
    /\ Found(p) /\ Deletable(p)
    /\ req' = [req EXCEPT ![p].at = now]
    /\ Goto(p, FirstStatement(req[p].op))
    /\ UNCHANGED <<now, db, due, sent, left, faults>>

\* Mutant: the sweep has no try/catch, so one failure ends it.
RejectEndsSweep(p) ==
    /\ pc[p] = "load"
    /\ ~(Found(p) /\ Deletable(p))
    /\ Finish(p)
    /\ due' = IF p \in Crons THEN [due EXCEPT ![p] = {}] ELSE due
    /\ UNCHANGED <<now, db, sent, left, faults>>

\* FACT_SHEET_NOT_FOUND, or INVALID_PATCH for a delete outside the trash bin.
Reject(p) ==
    /\ pc[p] = "load"
    /\ ~(Found(p) /\ Deletable(p))
    /\ Finish(p)
    /\ UNCHANGED <<now, db, due, sent, left, faults>>

\* factSheet.update or factSheet.delete.
WriteSheet(p) ==
    /\ pc[p] = "sheet" /\ ~Blocked(p)
    /\ status[req[p].id] # "GONE"
    /\ Goto(p, IF req[p].op = "delete" THEN "commit" ELSE "entry")
    /\ UNCHANGED <<now, db, req, due, sent, left, faults>>

\* Mutant: the statement is retried until the row is there.
MissSheetRetries(p) ==
    /\ pc[p] = "sheet" /\ ~Blocked(p)
    /\ status[req[p].id] = "GONE"
    /\ UNCHANGED vars

\* The row is gone by now: Prisma throws and the transaction rolls back.
MissSheet(p) ==
    /\ pc[p] = "sheet" /\ ~Blocked(p)
    /\ status[req[p].id] = "GONE"
    /\ Finish(p)
    /\ UNCHANGED <<now, db, due, sent, left, faults>>

\* trashBinEntry.upsert (archive) or trashBinEntry.deleteMany (the others).
WriteEntry(p) ==
    /\ pc[p] = "entry" /\ ~Blocked(p)
    /\ req' = [req EXCEPT ![p].hit = entry[req[p].id] # NoDate]
    /\ Goto(p, IF req[p].op = "delete" THEN "sheet" ELSE "commit")
    /\ UNCHANGED <<now, db, due, sent, left, faults>>

AutoDeleteAt(r) == r.at + Retention

\* Mutant: archive and revive without rev: { increment: 1 }.
RevUnchanged(r) == rev[r.id]

RevAfter(r) == IF r.op = "delete" THEN rev[r.id] ELSE rev[r.id] + 1

\* What a transaction leaves in the two tables.
SheetAfter(r) ==
    /\ status' = [status EXCEPT ![r.id] = CASE r.op = "archive" -> "ARCHIVED"
                                            [] r.op = "revive"  -> "ACTIVE"
                                            [] r.op = "delete"  -> "GONE"]
    /\ deadline' = [deadline EXCEPT ![r.id] =
                       IF r.op = "archive" THEN AutoDeleteAt(r) ELSE NoDate]
    /\ rev' = [rev EXCEPT ![r.id] = RevAfter(r)]

\* Mutant: the update clause of the upsert forgets autoDeleteAt.
UpsertKeepsDate(r) ==
    entry' = [entry EXCEPT ![r.id] =
                 CASE r.op = "archive" -> IF @ = NoDate THEN AutoDeleteAt(r) ELSE @
                   [] r.op # "archive" /\ r.hit -> NoDate
                   [] OTHER -> @]

\* Mutant: revive leaves the trash bin entry behind.
ReviveKeepsEntry(r) ==
    entry' = [entry EXCEPT ![r.id] = CASE r.op = "archive" -> AutoDeleteAt(r)
                                       [] r.op = "delete" /\ r.hit -> NoDate
                                       [] OTHER -> @]

EntryAfter(r) ==
    entry' = [entry EXCEPT ![r.id] = CASE r.op = "archive" -> AutoDeleteAt(r)
                                       [] r.op # "archive" /\ r.hit -> NoDate
                                       [] OTHER -> @]

Commit(p) ==
    /\ pc[p] = "commit"
    /\ SheetAfter(req[p])
    /\ EntryAfter(req[p])
    /\ IF req[p].op = "delete" THEN Finish(p) ELSE Goto(p, "emit") /\ UNCHANGED req
    /\ UNCHANGED <<now, due, sent, left, faults>>

\* events.emit once $transaction has returned; permanentDelete emits nothing.
Emit(p) ==
    /\ pc[p] = "emit"
    /\ sent' = [sent EXCEPT ![req[p].id] = @ + 1]
    /\ Finish(p)
    /\ UNCHANGED <<now, db, due, left, faults>>

-----------------------------------------------------------------------------
(* Scheduler                                                               *)

Expired(f) == entry[f] # NoDate /\ entry[f] <= now

\* cleanupExpiredEntries reads the expired entries once.
Sweep(c) ==
    /\ AutoDelete
    /\ pc[c] = "idle" /\ due[c] = {}
    /\ \E f \in Sheets : Expired(f)
    /\ due' = [due EXCEPT ![c] = {f \in Sheets : Expired(f)}]
    /\ UNCHANGED <<now, db, pc, req, sent, left, faults>>

\* The next permanentDelete of the loop, whatever became of the last one:
\* an error is caught and logged.  The order of the list is the database's.
NextDue(c, f) ==
    /\ pc[c] = "idle" /\ f \in due[c]
    /\ due' = [due EXCEPT ![c] = @ \ {f}]
    /\ req' = [req EXCEPT ![c] = [op |-> "delete", id |-> f, at |-> 0, hit |-> FALSE]]
    /\ Goto(c, "load")
    /\ UNCHANGED <<now, db, sent, left, faults>>

-----------------------------------------------------------------------------
(* Environment                                                             *)

InTx(p) == pc[p] \in {"sheet", "entry", "commit"}

\* PostgreSQL ends a deadlock by aborting one of its members.
AbortVictim(p) ==
    /\ Deadlocked(p)
    /\ Finish(p)
    /\ UNCHANGED <<now, db, due, sent, left, faults>>

\* The transaction outlives its 20 s (or cannot start within 10 s).
TimeOut(p) ==
    /\ InTx(p) /\ faults < MaxFaults
    /\ faults' = faults + 1
    /\ Finish(p)
    /\ UNCHANGED <<now, db, due, sent, left>>

\* The API process dies: open transactions roll back, requests, sweeps and
\* events not yet emitted are lost.
Crash ==
    /\ faults < MaxFaults
    /\ faults' = faults + 1
    /\ pc' = [p \in Procs |-> "idle"]
    /\ req' = [p \in Procs |-> NoRequest]
    /\ due' = [c \in Crons |-> {}]
    /\ UNCHANGED <<now, db, sent, left>>

Tick ==
    /\ now < MaxTime
    /\ now' = now + 1
    /\ UNCHANGED <<db, pc, req, due, sent, left, faults>>

-----------------------------------------------------------------------------
\* What a process does once it has been started.
Step(p) ==
    \/ Load(p) \/ Reject(p) \/ WriteSheet(p) \/ MissSheet(p) \/ WriteEntry(p)
    \/ Commit(p) \/ Emit(p) \/ AbortVictim(p)

Next ==
    \/ \E p \in Users, op \in Ops, f \in Sheets : Call(p, op, f)
    \/ \E c \in Crons : Sweep(c) \/ \E f \in Sheets : NextDue(c, f)
    \/ \E p \in Procs : Step(p) \/ TimeOut(p)
    \/ Crash \/ Tick

Spec == Init /\ [][Next]_vars

\* Node's event loop and PostgreSQL run every started handler on, a deadlock
\* is broken, the cron fires every hour and its loop reaches every entry.
\* Nobody is obliged to call, and faults need not happen.
Fairness ==
    /\ \A p \in Procs : WF_vars(Step(p))
    /\ \A c \in Crons : WF_vars(Sweep(c) \/ \E f \in Sheets : NextDue(c, f))

FairSpec == Spec /\ Fairness

-----------------------------------------------------------------------------
(* Properties                                                              *)

\* A fact sheet is archived exactly when the trash bin has its entry, and
\* both carry the same deletion date, so the scheduler (which reads trash_bin)
\* and the API (which reads fact_sheets) never disagree about an existing
\* sheet.  It rests on archive and revive locking the sheet before the entry.
TrashConsistent ==
    \A f \in Sheets : status[f] # "GONE" =>
        /\ status[f] = "ARCHIVED" <=> entry[f] # NoDate
        /\ deadline[f] = entry[f]

\* Why TrashConsistent holds: one transaction at a time has written a sheet,
\* the sheet exists until it commits, and a revive whose deleteMany matched
\* nothing still faces a trash bin without an entry when it commits.
SheetsLocked ==
    /\ \A p, q \in Procs :
          SheetWritten(p) /\ SheetWritten(q) /\ req[p].id = req[q].id => p = q
    /\ \A p \in Procs : SheetWritten(p) => status[req[p].id] # "GONE"
    /\ \A p \in Procs : pc[p] = "commit" /\ req[p].op = "revive" /\ ~req[p].hit
                             => entry[req[p].id] = NoDate

\* Each operation, five statements in two tables, is one atomic step for
\* everybody else, or no step at all if it fails on the way.
Contract == INSTANCE TrashBinContract
ImplementsContract == Contract!Spec

\* Every committed archive or revive raises rev once and is announced at most
\* once, never before its commit, and exactly once if no fault happened.
Announced ==
    \A f \in Sheets : status[f] # "GONE" =>
        LET pending == Cardinality({p \in Procs : pc[p] = "emit" /\ req[p].id = f})
        IN  /\ sent[f] + pending <= rev[f] - 1
            /\ faults = 0 => sent[f] + pending = rev[f] - 1

\* docs/API_REFERENCE.md:90 calls deleteFactSheet "trash-bin only": what a delete
\* removes, a user's or the sweep's, is in the trash bin when it is removed,
\* whoever revives it beside.  The code looks before its transaction only.
OnlyTrashDeleted ==
    [][\A f \in Sheets : status'[f] = "GONE" => status[f] # "ACTIVE"]_vars

\* Every call returns, those of the sweep too, deadlocks and lost races included.
CallsReturn == \A p \in Procs : pc[p] # "idle" ~> pc[p] = "idle"

\* An expired sheet does not stay in the trash bin: it is deleted unless
\* somebody revives or re-archives it, whatever happens to other entries.
ExpiredLeaves ==
    \A f \in Sheets : (status[f] = "ARCHIVED" /\ Expired(f))
                          ~> ~(status[f] = "ARCHIVED" /\ Expired(f))

=============================================================================
