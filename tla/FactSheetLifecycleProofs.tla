---------------------- MODULE FactSheetLifecycleProofs ----------------------
(***************************************************************************)
(* For any number of sheets, users and overlapping sweeps, any retention   *)
(* and any bounds: the two tables agree (TrashConsistent), each operation  *)
(* is one atomic step of TrashBinContract, and every revision is announced *)
(* as it should be (Announced).                                            *)
(***************************************************************************)
EXTENDS FactSheetLifecycle, FiniteSetTheorems, TLAPS

USE DEF Procs, Ops, Dates, NoDate

IndInv == TypeOK /\ TrashConsistent /\ SheetsLocked

\* The placeholder in req of an idle process is a request: there is a sheet.
LEMMA NoRequestType == NoRequest \in Requests
BY ConstantsAssumption DEF NoRequest, Requests

\* The initial state satisfies the type invariant.
LEMMA TypeInit == Init => TypeOK
BY NoRequestType, ConstantsAssumption DEF Init, TypeOK

\* Every step of every process, and every fault, keeps the types.
LEMMA TypeStep == TypeOK /\ [Next]_vars => TypeOK'
<1> SUFFICES ASSUME TypeOK, [Next]_vars PROVE TypeOK'
    OBVIOUS
<1> USE NoRequestType, ConstantsAssumption
<1>1. ASSUME NEW p \in Users, NEW op \in Ops, NEW f \in Sheets, Call(p, op, f)
      PROVE  TypeOK'
      BY <1>1 DEF TypeOK, Call, Goto, Requests, db
<1>2. ASSUME NEW c \in Crons, Sweep(c) PROVE TypeOK'
      BY <1>2 DEF TypeOK, Sweep, db
<1>3. ASSUME NEW c \in Crons, NEW f \in Sheets, NextDue(c, f) PROVE TypeOK'
      BY <1>3 DEF TypeOK, NextDue, Goto, Requests, db
<1>4. ASSUME NEW p \in Procs, Step(p) PROVE TypeOK'
  <2>1. CASE Load(p)
        BY <2>1 DEF TypeOK, Load, Goto, FirstStatement, Requests, db
  <2>2. CASE Reject(p) \/ MissSheet(p) \/ AbortVictim(p)
        BY <2>2 DEF TypeOK, Reject, MissSheet, AbortVictim, Finish, Goto, db
  <2>3. CASE WriteSheet(p)
        BY <2>3 DEF TypeOK, WriteSheet, Goto, db
  <2>4. CASE WriteEntry(p)
        BY <2>4 DEF TypeOK, WriteEntry, Goto, Requests, db
  <2>5. CASE Commit(p)
    <3>1. req[p] \in Requests /\ AutoDeleteAt(req[p]) \in Nat
          BY DEF TypeOK, Requests, AutoDeleteAt
    <3>2. /\ status' \in [Sheets -> {"ACTIVE", "ARCHIVED", "GONE"}]
          /\ deadline' \in [Sheets -> Dates]
          /\ rev' \in [Sheets -> Nat]
          BY <2>5, <3>1 DEF TypeOK, Commit, SheetAfter, RevAfter, Requests
    <3>3. entry' \in [Sheets -> Dates]
          BY <2>5, <3>1 DEF TypeOK, Commit, EntryAfter, Requests
    <3> QED BY <2>5, <3>2, <3>3 DEF TypeOK, Commit, Finish, Goto
  <2>6. CASE Emit(p)
        BY <2>6 DEF TypeOK, Emit, Finish, Goto, Requests, db
  <2> QED BY <1>4, <2>1, <2>2, <2>3, <2>4, <2>5, <2>6 DEF Step
<1>5. ASSUME NEW p \in Procs, TimeOut(p) PROVE TypeOK'
      BY <1>5 DEF TypeOK, TimeOut, Finish, Goto, db
<1>6. CASE Crash
      BY <1>6 DEF TypeOK, Crash, db
<1>7. CASE Tick
      BY <1>7 DEF TypeOK, Tick, db
<1>8. CASE UNCHANGED vars
      BY <1>8 DEF TypeOK, vars, db
<1> QED BY <1>1, <1>2, <1>3, <1>4, <1>5, <1>6, <1>7, <1>8 DEF Next

\* Type correctness.
THEOREM TypeCorrect == Spec => []TypeOK
BY TypeInit, TypeStep, PTL DEF Spec
-----------------------------------------------------------------------------
(* The two tables agree                                                    *)

\* A commit changes the rows of its own sheet only, and nobody else has
\* written that sheet.
LEMMA CommitAlone ==
    ASSUME IndInv, NEW p \in Procs, Commit(p)
    PROVE  /\ \A q \in Procs : q # p /\ SheetWritten(q) => req[q].id # req[p].id
           /\ \A f \in Sheets : f # req[p].id =>
                 /\ status'[f] = status[f]
                 /\ deadline'[f] = deadline[f]
                 /\ entry'[f] = entry[f]
<1>1. SheetWritten(p)
      BY DEF Commit, SheetWritten
<1>2. \A q \in Procs : q # p /\ SheetWritten(q) => req[q].id # req[p].id
      BY <1>1 DEF IndInv, SheetsLocked
<1> QED BY <1>2 DEF IndInv, TypeOK, Commit, SheetAfter, EntryAfter

\* What each operation leaves behind when it commits.
LEMMA CommitRows ==
    ASSUME IndInv, NEW p \in Procs, Commit(p)
    PROVE  LET f == req[p].id IN
           /\ f \in Sheets
           /\ status[f] # "GONE"
           /\ req[p].op = "archive" => /\ status' = [status EXCEPT ![f] = "ARCHIVED"]
                                       /\ deadline' = [deadline EXCEPT ![f] = AutoDeleteAt(req[p])]
                                       /\ entry' = [entry EXCEPT ![f] = AutoDeleteAt(req[p])]
           /\ req[p].op = "revive" => /\ status' = [status EXCEPT ![f] = "ACTIVE"]
                                      /\ deadline' = [deadline EXCEPT ![f] = NoDate]
                                      /\ entry' = [entry EXCEPT ![f] = NoDate]
           /\ req[p].op = "delete" => /\ status' = [status EXCEPT ![f] = "GONE"]
                                      /\ deadline' = [deadline EXCEPT ![f] = NoDate]
                                      /\ entry' \in {entry, [entry EXCEPT ![f] = NoDate]}
           /\ req[p].op \in Ops
           /\ AutoDeleteAt(req[p]) \in Nat
<1> DEFINE r == req[p]
<1>1. r \in Requests /\ pc[p] = "commit" /\ SheetWritten(p)
      BY DEF IndInv, TypeOK, Commit, SheetWritten
<1>2. r.id \in Sheets /\ r.op \in Ops /\ AutoDeleteAt(r) \in Nat
      BY <1>1, ConstantsAssumption DEF Requests, AutoDeleteAt
<1>3. status[r.id] # "GONE"
      BY <1>1 DEF IndInv, SheetsLocked
<1>4. SheetAfter(r) /\ EntryAfter(r)
      BY DEF Commit
<1>5. CASE r.op = "archive"
      BY <1>2, <1>3, <1>4, <1>5 DEF SheetAfter, EntryAfter
<1>6. CASE r.op = "revive"
  <2>1. ~r.hit => entry[r.id] = NoDate
        BY <1>1, <1>6 DEF IndInv, SheetsLocked
  <2>2. entry' = [entry EXCEPT ![r.id] = NoDate]
        BY <1>2, <1>4, <1>6, <2>1 DEF EntryAfter, IndInv, TypeOK
  <2> QED BY <1>2, <1>3, <1>4, <1>6, <2>2 DEF SheetAfter
<1>7. CASE r.op = "delete"
  <2>1. entry' \in {entry, [entry EXCEPT ![r.id] = NoDate]}
        BY <1>2, <1>4, <1>7 DEF EntryAfter, IndInv, TypeOK
  <2> QED BY <1>2, <1>3, <1>4, <1>7, <2>1 DEF SheetAfter
<1> QED BY <1>2, <1>5, <1>6, <1>7

\* Only Commit changes the tables.
LEMMA OnlyCommitWrites ==
    ASSUME [Next]_vars
    PROVE  UNCHANGED <<status, deadline, entry>> \/ \E p \in Procs : Commit(p)
BY DEF Next, Step, Call, Sweep, NextDue, Load, Reject, WriteSheet, MissSheet,
       WriteEntry, Emit, AbortVictim, TimeOut, Crash, Tick, vars, db

\* The agreement of the tables is kept.
LEMMA ConsistentStep == IndInv /\ [Next]_vars => TrashConsistent'
<1> SUFFICES ASSUME IndInv, [Next]_vars PROVE TrashConsistent'
    OBVIOUS
<1>1. CASE UNCHANGED <<status, deadline, entry>>
      BY <1>1 DEF IndInv, TrashConsistent
<1>2. ASSUME NEW p \in Procs, Commit(p) PROVE TrashConsistent'
  <2> SUFFICES ASSUME NEW f \in Sheets, status'[f] # "GONE"
               PROVE  /\ status'[f] = "ARCHIVED" <=> entry'[f] # NoDate
                      /\ deadline'[f] = entry'[f]
      BY DEF TrashConsistent
  <2>1. CASE f # req[p].id
        BY <1>2, <2>1, CommitAlone DEF IndInv, TrashConsistent
  <2>2. CASE f = req[p].id
        BY <1>2, <2>2, CommitRows DEF IndInv, TypeOK
  <2> QED BY <2>1, <2>2
<1> QED BY <1>1, <1>2, OnlyCommitWrites

-----------------------------------------------------------------------------
(* The row locks                                                           *)

\* A step that leaves the tables alone, in which only process p moves and p
\* has not written a sheet afterwards, keeps the locks.
LEMMA QuietStep ==
    ASSUME IndInv, NEW p \in Procs, UNCHANGED <<status, entry>>,
           pc' = [pc EXCEPT ![p] = pc'[p]], req' = [req EXCEPT ![p] = req'[p]],
           ~SheetWritten(p)'
    PROVE  SheetsLocked'
<1>1. \A q \in Procs : q # p => pc'[q] = pc[q] /\ req'[q] = req[q]
      BY DEF IndInv, TypeOK
<1>2. \A q \in Procs : q # p => (SheetWritten(q)' <=> SheetWritten(q))
      BY <1>1 DEF SheetWritten
<1>3. pc'[p] = "commit" => SheetWritten(p)'
      BY DEF SheetWritten
<1> QED BY <1>1, <1>2, <1>3 DEF IndInv, SheetsLocked

\* A statement that found its sheet unlocked and existing takes the lock.
LEMMA LockStep ==
    ASSUME IndInv, NEW p \in Procs, WriteSheet(p)
    PROVE  SheetsLocked'
<1>1. req' = req /\ status' = status /\ entry' = entry
      BY DEF WriteSheet, db
<1>2. \A q \in Procs : q # p => (SheetWritten(q)' <=> SheetWritten(q))
      BY <1>1 DEF SheetWritten, WriteSheet, Goto, IndInv, TypeOK
<1>3. \A q \in Procs : q # p /\ SheetWritten(q) => req[q].id # req[p].id
      BY DEF WriteSheet, Blocked, WaitsFor, SheetWriters
<1>4. status[req[p].id] # "GONE"
      BY DEF WriteSheet
<1>5. pc'[p] = "commit" => req[p].op = "delete"
      BY DEF WriteSheet, Goto, IndInv, TypeOK
<1>6. \A q \in Procs : q # p => pc'[q] = pc[q]
      BY DEF WriteSheet, Goto, IndInv, TypeOK
<1> QED BY <1>1, <1>2, <1>3, <1>4, <1>5, <1>6 DEF IndInv, SheetsLocked

\* The entry statement keeps the sheet lock of archive and revive, and
\* remembers whether there was an entry.
LEMMA EntryStep ==
    ASSUME IndInv, NEW p \in Procs, WriteEntry(p)
    PROVE  SheetsLocked'
<1>1. /\ pc[p] = "entry"
      /\ pc' = [pc EXCEPT ![p] = IF req[p].op = "delete" THEN "sheet" ELSE "commit"]
      /\ req' = [req EXCEPT ![p].hit = entry[req[p].id] # NoDate]
      /\ status' = status /\ entry' = entry
      BY DEF WriteEntry, Goto, db
<1>2. \A q \in Procs :
          /\ req'[q].id = req[q].id /\ req'[q].op = req[q].op
          /\ q # p => pc'[q] = pc[q] /\ req'[q] = req[q]
      BY <1>1 DEF IndInv, TypeOK, Requests
<1>3. req'[p].hit = (entry[req[p].id] # NoDate)
      BY <1>1 DEF IndInv, TypeOK, Requests
<1>4. \A q \in Procs : SheetWritten(q)' <=> SheetWritten(q)
      BY <1>1, <1>2 DEF SheetWritten, IndInv, TypeOK
<1>5. \A q \in Procs : pc'[q] = "commit" /\ req'[q].op = "revive" /\ ~req'[q].hit
                         => entry[req[q].id] = NoDate
  <2> SUFFICES ASSUME NEW q \in Procs, pc'[q] = "commit", req'[q].op = "revive",
                      ~req'[q].hit
               PROVE  entry[req[q].id] = NoDate
      OBVIOUS
  <2>1. CASE q = p
        BY <1>3, <2>1
  <2>2. CASE q # p
        BY <1>2, <2>2 DEF IndInv, SheetsLocked
  <2> QED BY <2>1, <2>2
<1> QED BY <1>1, <1>2, <1>4, <1>5 DEF IndInv, SheetsLocked

\* A commit releases the lock and touches no sheet somebody else has written.
LEMMA ReleaseStep ==
    ASSUME IndInv, NEW p \in Procs, Commit(p)
    PROVE  SheetsLocked'
<1>1. pc'[p] \in {"idle", "emit"}
      BY DEF Commit, Finish, Goto, IndInv, TypeOK
<1>2. \A q \in Procs : q # p => pc'[q] = pc[q] /\ req'[q] = req[q]
      BY DEF Commit, Finish, Goto, IndInv, TypeOK
<1>3. ~SheetWritten(p)' /\ pc'[p] # "commit"
      BY <1>1 DEF SheetWritten
<1>4. \A q \in Procs : q # p => (SheetWritten(q)' <=> SheetWritten(q))
      BY <1>2 DEF SheetWritten
<1>5. \A q \in Procs : q # p /\ SheetWritten(q) =>
          status'[req[q].id] = status[req[q].id] /\ entry'[req[q].id] = entry[req[q].id]
      BY CommitAlone DEF IndInv, TypeOK, Requests
<1>6. \A q \in Procs : pc[q] = "commit" => SheetWritten(q)
      BY DEF SheetWritten
<1> QED BY <1>2, <1>3, <1>4, <1>5, <1>6 DEF IndInv, SheetsLocked

\* Every step keeps the locks.
LEMMA LockedStep == IndInv /\ [Next]_vars => SheetsLocked'
<1> SUFFICES ASSUME IndInv, [Next]_vars PROVE SheetsLocked'
    OBVIOUS
<1>1. ASSUME NEW p \in Users, NEW op \in Ops, NEW f \in Sheets, Call(p, op, f)
      PROVE  SheetsLocked'
      BY <1>1, QuietStep DEF Call, Goto, SheetWritten, IndInv, TypeOK, db
<1>2. ASSUME NEW c \in Crons, Sweep(c) PROVE SheetsLocked'
      BY <1>2 DEF Sweep, SheetWritten, SheetsLocked, IndInv, db
<1>3. ASSUME NEW c \in Crons, NEW f \in Sheets, NextDue(c, f) PROVE SheetsLocked'
      BY <1>3, QuietStep DEF NextDue, Goto, SheetWritten, IndInv, TypeOK, db
<1>4. ASSUME NEW p \in Procs, Step(p) PROVE SheetsLocked'
  <2>1. CASE Load(p)
        BY <2>1, QuietStep DEF Load, Goto, FirstStatement, SheetWritten, IndInv,
                               TypeOK, Requests, db
  <2>2. CASE Reject(p) \/ MissSheet(p) \/ AbortVictim(p) \/ Emit(p)
        BY <2>2, QuietStep DEF Reject, MissSheet, AbortVictim, Emit, Finish, Goto,
                               SheetWritten, IndInv, TypeOK, db
  <2> QED BY <1>4, <2>1, <2>2, LockStep, EntryStep, ReleaseStep DEF Step
<1>5. ASSUME NEW p \in Procs, TimeOut(p) PROVE SheetsLocked'
      BY <1>5, QuietStep DEF TimeOut, Finish, Goto, SheetWritten, IndInv, TypeOK, db
<1>6. CASE Crash
      BY <1>6 DEF Crash, SheetWritten, SheetsLocked
<1>7. CASE Tick \/ UNCHANGED vars
      BY <1>7 DEF Tick, SheetWritten, SheetsLocked, IndInv, vars, db
<1> QED BY <1>1, <1>2, <1>3, <1>4, <1>5, <1>6, <1>7 DEF Next

-----------------------------------------------------------------------------
(* Theorems                                                                *)

\* The strengthened invariant.
LEMMA Inductive == Spec => []IndInv
<1>1. Init => IndInv
  <2> SUFFICES ASSUME Init PROVE TrashConsistent /\ SheetsLocked
      BY TypeInit DEF IndInv
  <2>1. \A f \in Sheets : /\ status[f] = "ARCHIVED" <=> f \in Archived
                          /\ deadline[f] = entry[f]
                          /\ entry[f] # NoDate <=> f \in Archived
        BY ConstantsAssumption DEF Init
  <2>2. TrashConsistent
        BY <2>1 DEF TrashConsistent
  <2>3. SheetsLocked
        BY DEF Init, SheetsLocked, SheetWritten
  <2> QED BY <2>2, <2>3
<1>2. IndInv /\ [Next]_vars => IndInv'
      BY TypeStep, ConsistentStep, LockedStep DEF IndInv
<1> QED BY <1>1, <1>2, PTL DEF Spec

\* A fact sheet is archived exactly when its trash bin entry exists, with the
\* same deletion date, however requests, sweeps and faults interleave.
THEOREM TablesAgree == Spec => []TrashConsistent
BY Inductive, PTL DEF IndInv

\* At most one transaction has written a given sheet, and that sheet exists.
THEOREM OneWriter == Spec => []SheetsLocked
BY Inductive, PTL DEF IndInv

\* Every step is one operation of the contract or invisible to its client.
LEMMA RefineStep == IndInv /\ [Next]_vars => [Contract!Next]_(Contract!tables)
<1> SUFFICES ASSUME IndInv, [Next]_vars PROVE [Contract!Next]_(Contract!tables)
    OBVIOUS
<1> USE DEF Contract!Next, Contract!Archive, Contract!Revive, Contract!Delete,
            Contract!Put, Contract!tables
<1>1. ASSUME NEW p \in Procs, Commit(p) PROVE Contract!Next
  <2> DEFINE f == req[p].id
  <2>1. CASE req[p].op = "archive"
    <3>1. deadline'[f] = AutoDeleteAt(req[p])
          BY <1>1, <2>1, CommitRows DEF IndInv, TypeOK
    <3> QED BY <1>1, <2>1, <3>1, CommitRows
  <2>2. CASE req[p].op = "revive"
        BY <1>1, <2>2, CommitRows
  <2>3. CASE req[p].op = "delete"
        BY <1>1, <2>3, CommitRows
  <2> QED BY <1>1, <2>1, <2>2, <2>3, CommitRows
<1> QED BY <1>1, OnlyCommitWrites

\* Archive, revive and permanent deletion are atomic: the interleaved
\* transactions implement TrashBinContract.
THEOREM Refinement == Spec => ImplementsContract
<1>1. Init => Contract!Init
  <2> SUFFICES ASSUME Init PROVE Contract!Init
      OBVIOUS
  <2>1. deadline \in [Sheets -> Nat \cup {-1}]
        BY ConstantsAssumption DEF Init
  <2>2. \A f \in Sheets : deadline[f] = -1 <=> f \notin Archived
        BY ConstantsAssumption DEF Init
  <2> QED BY <2>1, <2>2 DEF Init, Contract!Init
<1> QED BY <1>1, RefineStep, Inductive, PTL DEF Spec, ImplementsContract, Contract!Spec

-----------------------------------------------------------------------------
(* Announcements                                                           *)

\* The processes that have committed a change of f and still owe its event.
Pending(f) == {p \in Procs : pc[p] = "emit" /\ req[p].id = f}

\* Announced, with what counting needs: the processes that owe an event are
\* finitely many, however many users there are.
Counted ==
    \A f \in Sheets :
        /\ IsFiniteSet(Pending(f))
        /\ status[f] # "GONE" =>
              /\ sent[f] + Cardinality(Pending(f)) <= rev[f] - 1
              /\ faults = 0 => sent[f] + Cardinality(Pending(f)) = rev[f] - 1

\* A step that announces and commits nothing leaves the count as it is.
LEMMA QuietCount ==
    ASSUME TypeOK, Counted, UNCHANGED <<status, rev, sent, faults>>,
           \A f \in Sheets : Pending(f)' = Pending(f)
    PROVE  Counted'
BY DEF Counted

\* After a fault, events may be missing, but there are none too many.
LEMMA FaultCount ==
    ASSUME TypeOK, Counted, UNCHANGED <<status, rev, sent>>, faults' = faults + 1,
           \A f \in Sheets : Pending(f)' \in {Pending(f), {}}
    PROVE  Counted'
<1> SUFFICES ASSUME NEW f \in Sheets
             PROVE  /\ IsFiniteSet(Pending(f)')
                    /\ status[f] # "GONE" => sent[f] + Cardinality(Pending(f)') <= rev[f] - 1
  <2>1. faults' # 0
        BY DEF TypeOK
  <2> QED BY <2>1 DEF Counted
<1>1. IsFiniteSet(Pending(f)) /\ IsFiniteSet({})
      BY FS_EmptySet DEF Counted
<1>2. Cardinality(Pending(f)) \in Nat /\ Cardinality({}) = 0
      BY <1>1, FS_CardinalityType, FS_EmptySet
<1>3. sent[f] \in Nat /\ rev[f] \in Nat
      BY DEF TypeOK
<1>4. status[f] # "GONE" => sent[f] + Cardinality(Pending(f)) <= rev[f] - 1
      BY DEF Counted
<1>5. CASE Pending(f)' = Pending(f)
      BY <1>1, <1>4, <1>5
<1>6. CASE Pending(f)' = {}
      BY <1>1, <1>2, <1>3, <1>4, <1>6
<1> QED BY <1>5, <1>6

\* A commit of archive or revive raises rev by one and owes one event; a
\* delete owes none, and of its sheet nothing is said any more.
LEMMA CommitCount ==
    ASSUME IndInv, Counted, NEW p \in Procs, Commit(p)
    PROVE  Counted'
<1> DEFINE r == req[p]
<1>1. /\ pc[p] = "commit" /\ r.id \in Sheets /\ r.op \in Ops
      /\ rev' = [rev EXCEPT ![r.id] = RevAfter(r)]
      /\ sent' = sent /\ faults' = faults
      BY CommitRows DEF Commit, SheetAfter
<1> PICK g \in Sheets : g = r.id
    BY <1>1
<1>2. \A f \in Sheets \ {g} : Pending(f)' = Pending(f)
      BY <1>1 DEF Pending, Commit, Finish, Goto, IndInv, TypeOK
<1>3. \A f \in Sheets \ {g} : status'[f] = status[f] /\ rev'[f] = rev[f]
      BY <1>1, CommitAlone DEF IndInv, TypeOK
<1>4. IsFiniteSet(Pending(g)) /\ p \notin Pending(g)
      BY <1>1 DEF Counted, Pending
<1>5. CASE r.op = "delete"
  <2>1. Pending(g)' = Pending(g)
        BY <1>1, <1>5 DEF Pending, Commit, Finish, Goto, IndInv, TypeOK
  <2>2. status'[g] = "GONE"
        BY <1>1, <1>5, CommitRows DEF IndInv, TypeOK
  <2> QED BY <1>1, <1>2, <1>3, <1>4, <2>1, <2>2 DEF Counted
<1>6. CASE r.op # "delete"
  <2>1. Pending(g)' = Pending(g) \cup {p}
        BY <1>1, <1>6 DEF Pending, Commit, Goto, IndInv, TypeOK
  <2>2. /\ IsFiniteSet(Pending(g)')
        /\ Cardinality(Pending(g)') = Cardinality(Pending(g)) + 1
        BY <1>4, <2>1, FS_AddElement
  <2>3. rev'[g] = rev[g] + 1
        BY <1>1, <1>6 DEF RevAfter, IndInv, TypeOK
  <2>4. status[g] # "GONE"
        BY CommitRows
  <2>5. Cardinality(Pending(g)) \in Nat /\ sent[g] \in Nat /\ rev[g] \in Nat
        BY <1>1, <1>4, FS_CardinalityType DEF IndInv, TypeOK
  <2>6. /\ sent[g] + Cardinality(Pending(g)) <= rev[g] - 1
        /\ faults = 0 => sent[g] + Cardinality(Pending(g)) = rev[g] - 1
        BY <1>1, <2>4 DEF Counted
  <2>7. /\ sent[g] + Cardinality(Pending(g)') <= rev'[g] - 1
        /\ faults = 0 => sent[g] + Cardinality(Pending(g)') = rev'[g] - 1
        BY <2>2, <2>3, <2>5, <2>6
  <2> QED BY <1>1, <1>2, <1>3, <2>2, <2>7 DEF Counted
<1> QED BY <1>5, <1>6

\* Emitting turns an event owed into an event sent.
LEMMA EmitCount ==
    ASSUME TypeOK, Counted, NEW p \in Procs, Emit(p)
    PROVE  Counted'
<1> PICK g \in Sheets : g = req[p].id
    BY DEF TypeOK, Requests
<1>1. /\ pc[p] = "emit" /\ g \in Sheets /\ p \in Pending(g)
      /\ sent' = [sent EXCEPT ![g] = @ + 1]
      /\ UNCHANGED <<status, rev, faults>>
      BY DEF Emit, Pending, db
<1>2. \A f \in Sheets \ {g} : Pending(f)' = Pending(f) /\ sent'[f] = sent[f]
      BY <1>1 DEF Pending, Emit, Finish, Goto, TypeOK
<1>3. Pending(g)' = Pending(g) \ {p}
      BY <1>1 DEF Pending, Emit, Finish, Goto, TypeOK
<1>4. IsFiniteSet(Pending(g))
      BY <1>1 DEF Counted
<1>5. /\ IsFiniteSet(Pending(g)')
      /\ Cardinality(Pending(g)') = Cardinality(Pending(g)) - 1
      BY <1>1, <1>3, <1>4, FS_RemoveElement
<1>6. Cardinality(Pending(g)) \in Nat /\ sent[g] \in Nat /\ sent'[g] = sent[g] + 1
      BY <1>1, <1>4, FS_CardinalityType DEF TypeOK
<1>7. sent'[g] + Cardinality(Pending(g)') = sent[g] + Cardinality(Pending(g))
      BY <1>5, <1>6
<1> QED BY <1>1, <1>2, <1>5, <1>7 DEF Counted

\* Every step keeps the count.
LEMMA CountStep == IndInv /\ Counted /\ [Next]_vars => Counted'
<1> SUFFICES ASSUME IndInv, Counted, [Next]_vars PROVE Counted'
    OBVIOUS
<1>0. TypeOK
      BY DEF IndInv
<1>1. ASSUME NEW p \in Users, NEW op \in Ops, NEW f \in Sheets, Call(p, op, f)
      PROVE  Counted'
      BY <1>0, <1>1, QuietCount DEF Call, Goto, Pending, TypeOK, db
<1>2. ASSUME NEW c \in Crons, Sweep(c) PROVE Counted'
      BY <1>0, <1>2, QuietCount DEF Sweep, Pending, db
<1>3. ASSUME NEW c \in Crons, NEW f \in Sheets, NextDue(c, f) PROVE Counted'
      BY <1>0, <1>3, QuietCount DEF NextDue, Goto, Pending, TypeOK, db
<1>4. ASSUME NEW p \in Procs, Step(p) PROVE Counted'
  <2>1. CASE Load(p)
        BY <1>0, <2>1, QuietCount DEF Load, Goto, FirstStatement, Pending, TypeOK, db
  <2>2. CASE Reject(p) \/ MissSheet(p)
        BY <1>0, <2>2, QuietCount DEF Reject, MissSheet, Finish, Goto, Pending, TypeOK, db
  <2>3. CASE WriteSheet(p)
        BY <1>0, <2>3, QuietCount DEF WriteSheet, Goto, Pending, TypeOK, db
  <2>4. CASE WriteEntry(p)
        BY <1>0, <2>4, QuietCount DEF WriteEntry, Goto, Pending, TypeOK, db
  <2>5. CASE AbortVictim(p)
    <3>1. pc[p] # "emit"
          BY <2>5 DEF AbortVictim, Deadlocked, WaitsFor
    <3> QED BY <1>0, <2>5, <3>1, QuietCount DEF AbortVictim, Finish, Goto, Pending, TypeOK, db
  <2> QED BY <1>0, <1>4, <2>1, <2>2, <2>3, <2>4, <2>5, CommitCount, EmitCount DEF Step
<1>5. ASSUME NEW p \in Procs, TimeOut(p) PROVE Counted'
      BY <1>0, <1>5, FaultCount DEF TimeOut, InTx, Finish, Goto, Pending, TypeOK, db
<1>6. CASE Crash
      BY <1>0, <1>6, FaultCount DEF Crash, Pending, db
<1>7. CASE Tick \/ UNCHANGED vars
      BY <1>0, <1>7, QuietCount DEF Tick, Pending, vars, db
<1> QED BY <1>1, <1>2, <1>3, <1>4, <1>5, <1>6, <1>7 DEF Next

\* Nothing has been written and nobody owes an event.
LEMMA CountInit == Init => Counted
<1> SUFFICES ASSUME Init, NEW f \in Sheets
             PROVE  /\ IsFiniteSet(Pending(f))
                    /\ sent[f] + Cardinality(Pending(f)) = rev[f] - 1
                    /\ sent[f] + Cardinality(Pending(f)) <= rev[f] - 1
    BY DEF Counted
<1>1. Pending(f) = {}
      BY DEF Init, Pending
<1> QED BY <1>1, FS_EmptySet DEF Init

\* Every committed archive or revive of a sheet is announced at most once and
\* never before it is committed, and exactly once when there are no faults,
\* for any number of concurrent handlers.
THEOREM EventsMatchRevisions == Spec => []Announced
<1>1. Counted => Announced
      BY DEF Counted, Announced, Pending
<1>2. Init => Counted
      BY CountInit
<1> QED BY <1>1, <1>2, CountStep, Inductive, PTL DEF Spec
=============================================================================
