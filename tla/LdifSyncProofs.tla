---------------------------- MODULE LdifSyncProofs ----------------------------
(***************************************************************************)
(* LdifSync for any records, contents and numbers of runs, overlaps,       *)
(* deletions and faults: a hash is stored only after its data              *)
(* (AppliedBeforeMapped), a record has one sheet but for overlapping runs  *)
(* (OneSheetPerRecord), what a run reports is what its log says            *)
(* (LogsTellResult), and a run that finishes undisturbed has persisted its *)
(* items (PersistedWithoutFaults).                                         *)
(*                                                                         *)
(* TypeInv says where a run is in its content.  Each of the four results   *)
(* adds an invariant of its own to it, and the last, which follows the     *)
(* runs item by item, rests on those of the first two as well.             *)
(***************************************************************************)
EXTENDS LdifSync, FiniteSetTheorems, TLAPS

\* An item at one of these has its sheet.
Fetched == {"skip", "read", "put", "cut", "count", "store", "log", "map"}

\* p is the processing of the run with the row r.
PlaceOK(p, r) ==
    /\ p.at \in Statements => r \in SyncRun
    /\ p.at = "running" => p.i = 1 /\ p.counts = Zero
    /\ p.at \in InItem \cup {"error"} => p.i \in 1 .. Len(r.content)
    /\ p.at = "finish" => p.i = Len(r.content) + 1
    /\ p.at \in Fetched => p.f \in Ids
    /\ p.at = "write" /\ ~p.fresh => p.f \in Ids
    /\ p.at \in {"running", "find", "match"} => ~p.fresh

TypeInv == TypeOK /\ \A n \in Runs : PlaceOK(proc[n], run[n])

-----------------------------------------------------------------------------
(* Types                                                                   *)

LEMMA ContentTyped ==
    ASSUME NEW r \in SyncRun
    PROVE  /\ r.content \in Seq(Items) /\ Len(r.content) \in Nat
           /\ r.content \in Contents /\ DOMAIN r.content = 1 .. Len(r.content)
           /\ \A i \in 1 .. Len(r.content) : r.content[i] \in Items /\ i \in Positions
<1>1. r.content \in Contents /\ r.content \in Seq(Items)
      BY ConstantsAssumption DEF SyncRun
<1>2. DOMAIN r.content = 1 .. Len(r.content) /\ Len(r.content) \in Nat
      BY <1>1
<1>3. \A i \in 1 .. Len(r.content) : r.content[i] \in Items
      BY <1>1
<1>4. \A i \in 1 .. Len(r.content) : i \in Positions
      BY <1>1, <1>2 DEF Positions
<1> QED BY <1>1, <1>2, <1>3, <1>4

LEMMA ItemTyped ==
    ASSUME TypeInv, NEW n \in Runs, proc[n].at \in InItem \cup {"error"}
    PROVE  /\ proc[n] \in Processing /\ run[n] \in SyncRun
           /\ proc[n].i \in 1 .. Len(run[n].content) /\ Len(run[n].content) \in Nat
           /\ proc[n].i \in Positions /\ <<n, proc[n].i>> \in Ids
           /\ Item(n) \in Items
<1>1. proc[n] \in Processing /\ PlaceOK(proc[n], run[n])
      BY DEF TypeInv, TypeOK
<1>2. run[n] \in SyncRun /\ proc[n].i \in 1 .. Len(run[n].content)
      BY <1>1 DEF PlaceOK, Statements
<1> QED BY <1>1, <1>2, ContentTyped DEF Item, Ids

LEMMA ZeroTyped == Zero \in Counts /\ Idle \in Processing
BY DEF Zero, Counts, Idle, Processing

\* A live sheet is a record of its values.
LEMMA SheetTyped ==
    ASSUME TypeOK, NEW f \in Ids
    PROVE  /\ Exists(f) => sheet[f] \in LiveSheet
           /\ sheet[f] \in {Absent, Gone} \cup LiveSheet
           /\ Values(f) \subseteq Attrs
BY DEF TypeOK, Exists, Absent, Gone, LiveSheet, Values

LEMMA NoSheetIsNone == NoSheet \notin Ids
BY ConstantsAssumption DEF NoSheet, Ids, Runs

\* What is left of p when the loop goes on.
LEMMA NextItemTyped ==
    ASSUME NEW n \in Runs, NEW p \in Processing, run[n] \in SyncRun,
           p.i \in 1 .. Len(run[n].content)
    PROVE  /\ NextItem(n, p) \in Processing /\ PlaceOK(NextItem(n, p), run[n])
           /\ NextItem(n, p).at \in {"find", "finish"} /\ NextItem(n, p).i = p.i + 1
           /\ NextItem(n, p).counts.processed = p.counts.processed + 1 /\ ~NextItem(n, p).fresh
           /\ NextItem(n, p).counts.created = p.counts.created
           /\ NextItem(n, p).counts.updated = p.counts.updated
           /\ NextItem(n, p).counts.errors = p.counts.errors
<1>1. Len(run[n].content) \in Nat /\ p.i \in Nat /\ p.counts \in Counts
      BY ContentTyped DEF Processing
<1> DEFINE k == [p.counts EXCEPT !.processed = p.counts.processed + 1]
<1>2. /\ k \in Counts /\ k.processed = p.counts.processed + 1 /\ k.created = p.counts.created
      /\ k.updated = p.counts.updated /\ k.errors = p.counts.errors
      BY <1>1 DEF Counts
<1> DEFINE q == NextItem(n, p)
           at == Iteration(n, p.i + 1)
           i == p.i + 1
<1>3. q = [Idle EXCEPT !.at = at, !.i = i, !.counts = k]
      BY DEF NextItem
<1>4. /\ Iteration(n, p.i + 1) \in {"find", "finish"}
      /\ Iteration(n, p.i + 1) = "find" => p.i + 1 \in 1 .. Len(run[n].content)
      /\ Iteration(n, p.i + 1) = "finish" => p.i + 1 = Len(run[n].content) + 1
      BY <1>1 DEF Iteration
<1>5. q \in Processing /\ q.at = at /\ q.i = i /\ q.counts = k /\ ~q.fresh
  <2>1. at \in Statements /\ i \in Nat /\ k \in Counts
        BY <1>1, <1>2, <1>4 DEF Statements, InItem
  <2> HIDE DEF k, q, at, i
  <2> QED BY <1>3, <2>1 DEF Idle, Processing
<1> HIDE DEF k
<1>6. PlaceOK(NextItem(n, p), run[n])
      BY <1>4, <1>5 DEF PlaceOK, InItem, Fetched
<1> QED BY <1>2, <1>4, <1>5, <1>6

LEMMA ThrownTyped ==
    ASSUME NEW n \in Runs, NEW p \in Processing, run[n] \in SyncRun,
           p.i \in 1 .. Len(run[n].content)
    PROVE  /\ Thrown(p) \in Processing /\ PlaceOK(Thrown(p), run[n])
           /\ Thrown(p).at = "error" /\ Thrown(p).i = p.i
           /\ Thrown(p).counts.errors = p.counts.errors + 1
           /\ Thrown(p).counts.processed = p.counts.processed
<1>1. p.counts \in Counts
      BY DEF Processing
<1> DEFINE k == [p.counts EXCEPT !.errors = p.counts.errors + 1]
<1>2. k \in Counts /\ k.errors = p.counts.errors + 1 /\ k.processed = p.counts.processed
      BY <1>1 DEF Counts
<1>3. Thrown(p) = [[p EXCEPT !.at = "error"] EXCEPT !.counts = k]
      BY DEF Thrown, Processing
<1> HIDE DEF k
<1>4. /\ Thrown(p) \in Processing /\ Thrown(p).at = "error" /\ Thrown(p).i = p.i
      /\ Thrown(p).counts = k
      BY <1>2, <1>3 DEF Processing, Statements
<1>5. PlaceOK(Thrown(p), run[n])
      BY <1>4 DEF PlaceOK, InItem, Fetched
<1> QED BY <1>2, <1>4, <1>5

LEMMA OnwardTyped ==
    ASSUME NEW n \in Runs, NEW p \in Processing, run[n] \in SyncRun,
           p.i \in 1 .. Len(run[n].content), p.f \in Ids
    PROVE  /\ Onward(p) \in Processing /\ PlaceOK(Onward(p), run[n])
           /\ \/ Onward(p).at = "put" /\ p.put # {}
              \/ Onward(p).at = "cut" /\ p.put = {} /\ p.cut # {}
              \/ Onward(p).at = "count" /\ p.put = {}
           /\ Onward(p).i = p.i /\ Onward(p).f = p.f /\ Onward(p).fresh = p.fresh
           /\ Onward(p).put = p.put /\ Onward(p).cut = p.cut /\ Onward(p).counts = p.counts
<1> DEFINE at == IF p.put # {} THEN "put" ELSE IF p.cut # {} THEN "cut" ELSE "count"
<1>1. /\ \/ at = "put" /\ p.put # {}
         \/ at = "cut" /\ p.put = {} /\ p.cut # {}
         \/ at = "count" /\ p.put = {}
      /\ at \in {"put", "cut", "count"} /\ at \in Statements
      BY DEF Statements, InItem
<1>2. Onward(p) = [p EXCEPT !.at = at]
      BY DEF Onward
<1> HIDE DEF at
<1>3. /\ Onward(p) \in Processing /\ Onward(p).at = at /\ Onward(p).i = p.i /\ Onward(p).f = p.f
      /\ Onward(p).fresh = p.fresh /\ Onward(p).put = p.put /\ Onward(p).cut = p.cut
      /\ Onward(p).counts = p.counts
      BY <1>1, <1>2 DEF Processing
<1>4. PlaceOK(Onward(p), run[n])
      BY <1>1, <1>3 DEF PlaceOK, InItem
<1> QED BY <1>1, <1>3, <1>4

-----------------------------------------------------------------------------
(* TypeInv                                                                 *)

Tables == <<sheet, mapping, log>>
TablesTyped ==
    /\ sheet \in [Ids -> {Absent, Gone} \cup LiveSheet]
    /\ mapping \in [Records -> Mapping]
    /\ log \in [Runs -> [Positions -> SUBSET Kinds]]

LEMMA Moves ==
    ASSUME TypeInv, NEW n \in Runs, NEW p \in Processing, PlaceOK(p, run[n]), ProcIs(n, p),
           run' = run, TablesTyped', UNCHANGED <<overlaps, deletes>>, faults' \in 0 .. MaxFaults
    PROVE  TypeInv'
<1>1. proc' \in [Runs -> Processing]
      BY DEF TypeInv, TypeOK, ProcIs
<1>2. \A k \in Runs : PlaceOK(proc'[k], run'[k])
      BY DEF TypeInv, TypeOK, ProcIs
<1>3. TypeOK'
      BY <1>1 DEF TypeInv, TypeOK, TablesTyped
<1> QED BY <1>2, <1>3 DEF TypeInv, PlaceOK

LEMMA TablesKept == ASSUME TypeOK, UNCHANGED Tables PROVE TablesTyped'
BY DEF TypeOK, TablesTyped, Tables

LEMMA LoggedTyped ==
    ASSUME TypeInv, NEW n \in Runs, proc[n].i \in Positions, NEW kind \in Kinds, Logged(n, kind)
    PROVE  /\ log' \in [Runs -> [Positions -> SUBSET Kinds]]
           /\ log'[n][proc[n].i] = log[n][proc[n].i] \cup {kind}
           /\ \A i \in Positions : i # proc[n].i => log'[n][i] = log[n][i]
           /\ \A k \in Runs : k # n => log'[k] = log[k]
<1>1. log \in [Runs -> [Positions -> SUBSET Kinds]]
      BY DEF TypeInv, TypeOK
<1> QED BY <1>1 DEF Logged

LEMMA Labelled ==
    ASSUME TypeInv, NEW n \in Runs, NEW label, ProcAt(n, label)
    PROVE  /\ ProcIs(n, [proc[n] EXCEPT !.at = label])
           /\ label \in Statements \cup {"ended"} =>
                 /\ [proc[n] EXCEPT !.at = label] \in Processing
                 /\ [proc[n] EXCEPT !.at = label].at = label
           /\ [proc[n] EXCEPT !.at = label].i = proc[n].i
           /\ [proc[n] EXCEPT !.at = label].f = proc[n].f
           /\ [proc[n] EXCEPT !.at = label].fresh = proc[n].fresh
           /\ [proc[n] EXCEPT !.at = label].counts = proc[n].counts
<1>1. proc \in [Runs -> Processing]
      BY DEF TypeInv, TypeOK
<1> QED BY <1>1 DEF ProcAt, ProcIs, Processing

LEMMA InitTyped == Init => TypeInv
<1> SUFFICES ASSUME Init PROVE TypeInv
    OBVIOUS
<1>1. 0 \in 0 .. MaxOverlaps /\ 0 \in 0 .. MaxDeletes /\ 0 \in 0 .. MaxFaults
      BY ConstantsAssumption
<1>2. Unmapped \in Mapping
      BY DEF Unmapped, Mapped, Mapping
<1>3. TypeOK
      BY <1>1, <1>2, ZeroTyped DEF Init, TypeOK
<1>4. \A n \in Runs : PlaceOK(proc[n], run[n])
      BY DEF Init, PlaceOK, Idle, Statements, InItem, Fetched
<1> QED BY <1>3, <1>4 DEF TypeInv

LEMMA StartTyped ==
    ASSUME TypeInv, NEW n \in Runs, NEW mode \in {"partial", "full"}, NEW c \in Contents,
           Start(n, mode, c)
    PROVE  TypeInv'
<1> DEFINE r == Row("CREATED", mode, c, Zero)
           p == [Idle EXCEPT !.at = "running"]
<1>1. r \in SyncRun
      BY ZeroTyped DEF Row, SyncRun
<1>2. p \in Processing /\ p.at = "running" /\ p.i = 1 /\ p.counts = Zero /\ ~p.fresh
      BY ZeroTyped DEF Idle, Processing, Statements
<1>3. overlaps' \in 0 .. MaxOverlaps
      BY ConstantsAssumption DEF Start, TypeInv, TypeOK
<1>4. /\ run' = [run EXCEPT ![n] = r] /\ proc' = [proc EXCEPT ![n] = p]
      /\ UNCHANGED <<sheet, mapping, log, deletes, faults>>
      BY DEF Start
<1>5. PlaceOK(p, r)
      BY <1>1, <1>2 DEF PlaceOK, InItem, Fetched
<1> HIDE DEF r, p
<1>6. TypeOK'
      BY <1>1, <1>2, <1>3, <1>4 DEF TypeInv, TypeOK
<1>7. \A k \in Runs : PlaceOK(proc'[k], run'[k])
      BY <1>4, <1>5 DEF TypeInv, TypeOK
<1> QED BY <1>6, <1>7 DEF TypeInv, PlaceOK

LEMMA DeleteTyped == ASSUME TypeInv, NEW f \in Ids, Delete(f) PROVE TypeInv'
<1>1. deletes' \in 0 .. MaxDeletes
      BY ConstantsAssumption DEF Delete, TypeInv, TypeOK
<1>2. Unmapped \in Mapping
      BY DEF Unmapped, Mapped, Mapping
<1>3. /\ sheet' \in [Ids -> {Absent, Gone} \cup LiveSheet] /\ mapping' \in [Records -> Mapping]
      /\ UNCHANGED <<run, log, proc, overlaps, faults>>
      BY <1>2 DEF Delete, TypeInv, TypeOK
<1>4. TypeOK'
      BY <1>1, <1>3 DEF TypeInv, TypeOK
<1> QED BY <1>3, <1>4 DEF TypeInv, PlaceOK

LEMMA MarkRunningTyped == ASSUME TypeInv, NEW n \in Runs, MarkRunning(n) PROVE TypeInv'
<1>1. /\ run[n] \in SyncRun /\ proc[n].i = 1 /\ proc[n] \in Processing /\ ~proc[n].fresh
      BY DEF MarkRunning, TypeInv, TypeOK, PlaceOK, Statements
<1>2. Len(run[n].content) \in Nat
      BY <1>1, ContentTyped
<1> DEFINE at == Iteration(n, 1)
           p == [proc[n] EXCEPT !.at = at]
<1>3. /\ at \in {"find", "finish"} /\ at \in Statements
      /\ at = "find" => 1 \in 1 .. Len(run[n].content)
      /\ at = "finish" => Len(run[n].content) = 0
      BY <1>2 DEF Iteration, Statements, InItem
<1>4. ProcIs(n, p) /\ p \in Processing /\ p.at = at /\ p.i = 1 /\ ~p.fresh
      BY <1>1, <1>3, Labelled DEF MarkRunning
<1>5. /\ run' = [run EXCEPT ![n].status = "RUNNING"] /\ proc' = [proc EXCEPT ![n] = p]
      /\ UNCHANGED <<sheet, mapping, log, overlaps, deletes, faults>>
      BY <1>4 DEF MarkRunning, Steady, ProcIs
<1>6. /\ run' \in [Runs -> {NoRun} \cup SyncRun] /\ run'[n] \in SyncRun
      /\ run'[n].content = run[n].content
      BY <1>1, <1>5 DEF TypeInv, TypeOK, SyncRun
<1> HIDE DEF p, at
<1>7. PlaceOK(p, run'[n])
      BY <1>3, <1>4, <1>6 DEF PlaceOK, InItem, Fetched
<1>8. TypeOK'
      BY <1>4, <1>5, <1>6 DEF TypeInv, TypeOK
<1>9. \A k \in Runs : PlaceOK(proc'[k], run'[k])
      BY <1>5, <1>7 DEF TypeInv, TypeOK
<1> QED BY <1>8, <1>9 DEF TypeInv, PlaceOK

LEMMA MarkEndTyped ==
    ASSUME TypeInv, NEW n \in Runs, MarkFinished(n) \/ MarkFailed(n) PROVE TypeInv'
<1>1. run[n] \in SyncRun /\ proc[n] \in Processing
      BY DEF MarkFinished, MarkFailed, TypeInv, TypeOK, PlaceOK, Statements
<1> DEFINE p == [proc[n] EXCEPT !.at = "ended"]
<1>2. ProcIs(n, p) /\ p \in Processing /\ p.at = "ended"
      BY Labelled DEF MarkFinished, MarkFailed
<1>3. /\ run' \in [Runs -> {NoRun} \cup SyncRun] /\ \A k \in Runs : k # n => run'[k] = run[k]
  <2>1. Result(proc[n].counts) \in {"FINISHED", "FAILED"} /\ proc[n].counts \in Counts
        BY <1>1 DEF Result, Processing
  <2>2. CASE MarkFinished(n)
    <3>1. run' = [run EXCEPT ![n].status = Result(proc[n].counts), ![n].counts = proc[n].counts]
          BY <2>2 DEF MarkFinished
    <3> QED BY <1>1, <2>1, <3>1 DEF TypeInv, TypeOK, SyncRun
  <2>3. CASE MarkFailed(n)
    <3>1. run' = [run EXCEPT ![n].status = "FAILED", ![n].counts.errors = 1]
          BY <2>3 DEF MarkFailed
    <3> QED BY <1>1, <3>1 DEF TypeInv, TypeOK, SyncRun, Counts
  <2> QED BY <2>2, <2>3
<1>4. proc' = [proc EXCEPT ![n] = p] /\ UNCHANGED <<sheet, mapping, log, overlaps, deletes, faults>>
      BY <1>2 DEF MarkFinished, MarkFailed, Steady, ProcIs
<1> HIDE DEF p
<1>5. PlaceOK(p, run'[n])
      BY <1>2 DEF PlaceOK, Statements, InItem, Fetched
<1>6. TypeOK'
      BY <1>2, <1>3, <1>4 DEF TypeInv, TypeOK
<1>7. \A k \in Runs : PlaceOK(proc'[k], run'[k])
      BY <1>3, <1>4, <1>5 DEF TypeInv, TypeOK
<1> QED BY <1>6, <1>7 DEF TypeInv, PlaceOK

LEMMA LookupsTyped ==
    ASSUME TypeInv, NEW n \in Runs, Find(n) \/ Match(n) \/ Update(n) PROVE TypeInv'
<1>1. /\ proc[n] \in Processing /\ run[n] \in SyncRun
      /\ proc[n].i \in 1 .. Len(run[n].content) /\ Item(n) \in Items
      BY ItemTyped DEF Find, Match, Update, InItem
<1>2. /\ run' = run /\ TablesTyped' /\ UNCHANGED <<overlaps, deletes>>
      /\ faults' \in 0 .. MaxFaults
      BY TablesKept DEF Find, Match, Update, Steady, Tables, TypeInv, TypeOK
<1>3. ASSUME NEW p \in Processing, ProcIs(n, p), p.i = proc[n].i,
             p.at \in {"reject", "skip", "match", "write", "read"},
             p.at \in {"skip", "read"} \/ (p.at = "write" /\ ~p.fresh) => p.f \in Ids,
             p.at = "match" => ~p.fresh
      PROVE  TypeInv'
  <2>1. PlaceOK(p, run[n])
        BY <1>1, <1>3 DEF PlaceOK, InItem, Fetched
  <2> QED BY <1>2, <1>3, <2>1, Moves
<1>4. CASE Find(n)
  <2> DEFINE m == mapping[Item(n).id]
             k == [proc[n].counts EXCEPT !.errors = proc[n].counts.errors + 1]
  <2>1. m \in Mapping
        BY <1>1 DEF TypeInv, TypeOK, Items
  <2>2. k \in Counts
        BY <1>1 DEF Processing, Counts
  <2>3. CASE ~Item(n).known
    <3>1. ProcIs(n, [[proc[n] EXCEPT !.at = "reject"] EXCEPT !.counts = k])
          BY <1>1, <1>4, <2>3 DEF Find, Processing
    <3> HIDE DEF k
    <3> DEFINE p == [[proc[n] EXCEPT !.at = "reject"] EXCEPT !.counts = k]
    <3>2. p \in Processing /\ p.i = proc[n].i /\ p.at = "reject"
          BY <1>1, <2>2 DEF Processing, Statements, InItem
    <3> HIDE DEF p
    <3> QED BY <1>3, <3>1, <3>2 DEF p
  <2>4. CASE Item(n).known
    <3> DEFINE at == IF Unchanged(n, m) THEN "skip" ELSE IF m.sheet = NoSheet THEN "match" ELSE "write"
               p == [[proc[n] EXCEPT !.f = m.sheet] EXCEPT !.at = at]
    <3>1. /\ at \in {"skip", "match", "write"} /\ (at \in {"skip", "write"} => m.sheet # NoSheet)
          /\ at \in Statements
          BY DEF Unchanged, Statements, InItem
    <3>2. ProcIs(n, p)
          BY <1>1, <1>4, <2>4 DEF Find, Processing
    <3>3. m.sheet \in Ids \cup {NoSheet}
          BY <2>1 DEF Mapping
    <3> HIDE DEF at, m
    <3>4. p \in Processing /\ p.i = proc[n].i /\ p.at = at /\ p.f = m.sheet /\ p.fresh = proc[n].fresh
          BY <1>1, <3>1, <3>3 DEF Processing
    <3>5. ~proc[n].fresh
          BY <1>4 DEF Find, TypeInv, PlaceOK
    <3> HIDE DEF p
    <3> QED BY <1>3, <3>1, <3>2, <3>3, <3>4, <3>5
  <2> QED BY <2>3, <2>4
<1>5. CASE Match(n)
  <2>1. CASE ProcIs(n, [proc[n] EXCEPT !.at = "write", !.fresh = TRUE])
    <3> DEFINE p == [proc[n] EXCEPT !.at = "write", !.fresh = TRUE]
    <3>1. p \in Processing /\ p.i = proc[n].i /\ p.at = "write" /\ p.fresh
          BY <1>1 DEF Processing, Statements, InItem
    <3> HIDE DEF p
    <3> QED BY <1>3, <2>1, <3>1 DEF p
  <2>2. ASSUME NEW f \in Ids, ProcIs(n, [proc[n] EXCEPT !.at = "write", !.f = f]) PROVE TypeInv'
    <3> DEFINE p == [proc[n] EXCEPT !.at = "write", !.f = f]
    <3>1. p \in Processing /\ p.i = proc[n].i /\ p.at = "write" /\ p.f = f
          BY <1>1 DEF Processing, Statements, InItem
    <3> HIDE DEF p
    <3> QED BY <1>3, <2>2, <3>1 DEF p
  <2> QED BY <1>5, <2>1, <2>2 DEF Match
<1>6. CASE Update(n)
  <2> DEFINE k == [proc[n].counts EXCEPT !.updated = proc[n].counts.updated + 1]
             p == [[proc[n] EXCEPT !.at = "read"] EXCEPT !.counts = k]
  <2>1. k \in Counts
        BY <1>1 DEF Processing, Counts
  <2>2. ProcIs(n, p)
        BY <1>1, <1>6 DEF Update, Processing
  <2> HIDE DEF k
  <2>3. p \in Processing /\ p.i = proc[n].i /\ p.at = "read" /\ p.f = proc[n].f
        BY <1>1, <2>1 DEF Processing, Statements, InItem
  <2>4. proc[n].f \in Ids
        BY <1>6 DEF Update, TypeInv, PlaceOK
  <2> HIDE DEF p
  <2> QED BY <1>3, <2>2, <2>3, <2>4
<1> QED BY <1>4, <1>5, <1>6

LEMMA EndItemTyped ==
    ASSUME TypeInv, NEW n \in Runs, Reject(n) \/ Skip(n) \/ Map(n) \/ LogError(n) PROVE TypeInv'
<1>1. /\ proc[n] \in Processing /\ run[n] \in SyncRun /\ proc[n].i \in Positions
      /\ proc[n].i \in 1 .. Len(run[n].content) /\ Item(n) \in Items
      BY ItemTyped DEF Reject, Skip, Map, LogError, InItem
<1>2. ProcIs(n, NextItem(n, proc[n])) /\ UNCHANGED <<sheet, run, overlaps, deletes, faults>>
      BY DEF Reject, Skip, Map, LogError, Steady
<1>3. TablesTyped'
  <2>1. CASE Map(n)
    <3>1. proc[n].f \in Ids
          BY <2>1 DEF Map, TypeInv, PlaceOK, Fetched
    <3>2. Mapped(proc[n].f, Item(n).data) \in Mapping
          BY <1>1, <3>1 DEF Mapped, Mapping, Items
    <3>3. mapping' \in [Records -> Mapping] /\ log' = log
          BY <2>1, <3>2 DEF Map, TypeInv, TypeOK
    <3> QED BY <1>2, <3>3 DEF TablesTyped, TypeInv, TypeOK
  <2>2. CASE Reject(n) \/ Skip(n) \/ LogError(n)
    <3>1. \E kind \in Kinds : Logged(n, kind)
          BY <2>2 DEF Reject, Skip, LogError, Kinds
    <3>2. log' \in [Runs -> [Positions -> SUBSET Kinds]]
          BY <1>1, <3>1, LoggedTyped
    <3> QED BY <1>2, <2>2, <3>2 DEF Reject, Skip, LogError, TablesTyped, TypeInv, TypeOK
  <2> QED BY <2>1, <2>2
<1>4. NextItem(n, proc[n]) \in Processing /\ PlaceOK(NextItem(n, proc[n]), run[n])
      BY <1>1, NextItemTyped
<1>5. faults' \in 0 .. MaxFaults
      BY <1>2 DEF TypeInv, TypeOK
<1> QED BY <1>2, <1>3, <1>4, <1>5, Moves

LEMMA ThrowsTyped ==
    ASSUME TypeInv, NEW n \in Runs, proc[n].at \in InItem, ProcIs(n, Thrown(proc[n])),
           UNCHANGED <<sheet, mapping, run, log, overlaps, deletes>>, faults' \in 0 .. MaxFaults
    PROVE  TypeInv'
<1>1. /\ proc[n] \in Processing /\ run[n] \in SyncRun
      /\ proc[n].i \in 1 .. Len(run[n].content)
      BY ItemTyped
<1>2. Thrown(proc[n]) \in Processing /\ PlaceOK(Thrown(proc[n]), run[n])
      BY <1>1, ThrownTyped
<1>3. TablesTyped'
      BY TablesKept DEF Tables, TypeInv
<1> QED BY <1>2, <1>3, Moves

LEMMA CreateTyped == ASSUME TypeInv, NEW n \in Runs, Create(n) PROVE TypeInv'
<1>1. /\ proc[n] \in Processing /\ run[n] \in SyncRun /\ <<n, proc[n].i>> \in Ids
      /\ proc[n].i \in 1 .. Len(run[n].content) /\ Item(n) \in Items
      BY ItemTyped DEF Create, InItem
<1> DEFINE f == <<n, proc[n].i>>
           k == [proc[n].counts EXCEPT !.created = proc[n].counts.created + 1]
           q == [[proc[n] EXCEPT !.at = "read"] EXCEPT !.f = f]
           p == [q EXCEPT !.counts = k]
<1>2. k \in Counts
      BY <1>1 DEF Processing, Counts
<1>3. ProcIs(n, p)
      BY <1>1 DEF Create, Processing
<1>4. Live(Item(n).id, {}, {}) \in LiveSheet
      BY <1>1 DEF Live, LiveSheet, Items
<1>5. sheet' = [sheet EXCEPT ![f] = Live(Item(n).id, {}, {})] /\ f \in Ids
      BY <1>1 DEF Create
<1> HIDE DEF f, k
<1>6. TablesTyped'
      BY <1>4, <1>5 DEF Create, TablesTyped, TypeInv, TypeOK
<1>7. q \in Processing /\ q.i = proc[n].i /\ q.at = "read" /\ q.f = f
      BY <1>1, <1>5 DEF Processing, Statements, InItem
<1> HIDE DEF q
<1>8. p \in Processing /\ p.i = proc[n].i /\ p.at = "read" /\ p.f = f
      BY <1>2, <1>7 DEF Processing
<1> HIDE DEF p
<1>9. PlaceOK(p, run[n])
      BY <1>1, <1>5, <1>8 DEF PlaceOK, InItem, Fetched, Statements
<1>10. run' = run /\ UNCHANGED <<overlaps, deletes>> /\ faults' \in 0 .. MaxFaults
      BY DEF Create, Steady, TypeInv, TypeOK
<1> QED BY <1>3, <1>6, <1>8, <1>9, <1>10, Moves

LEMMA AttributesTyped ==
    ASSUME TypeInv, NEW n \in Runs,
           ReadValues(n) \/ (\E a \in Attrs : Put(n, a) \/ Cut(n, a))
    PROVE  TypeInv'
<1>1. proc[n].at \in {"read", "put", "cut"}
      BY DEF ReadValues, Put, Cut
<1>2. /\ proc[n] \in Processing /\ run[n] \in SyncRun /\ proc[n].f \in Ids
      /\ proc[n].i \in 1 .. Len(run[n].content) /\ Item(n) \in Items
      BY <1>1, ItemTyped DEF InItem, TypeInv, PlaceOK, Fetched
<1>3. run' = run /\ UNCHANGED <<mapping, log, overlaps, deletes>> /\ faults' \in 0 .. MaxFaults
      BY DEF ReadValues, Put, Cut, Steady, TypeInv, TypeOK
<1>4. ASSUME NEW p \in Processing, p.i = proc[n].i, p.f = proc[n].f, ProcIs(n, Onward(p)),
             sheet' \in [Ids -> {Absent, Gone} \cup LiveSheet]
      PROVE  TypeInv'
  <2>1. Onward(p) \in Processing /\ PlaceOK(Onward(p), run[n])
        BY <1>2, <1>4, OnwardTyped
  <2>2. TablesTyped'
        BY <1>3, <1>4 DEF TablesTyped, TypeInv, TypeOK
  <2> QED BY <1>3, <1>4, <2>1, <2>2, Moves
<1>5. CASE ReadValues(n)
  <2> DEFINE put == Given(n)
             cut == IF Full(n) THEN Values(proc[n].f) \ Item(n).data ELSE {}
             p == [proc[n] EXCEPT !.put = put, !.cut = cut]
  <2>1. put \subseteq Attrs /\ cut \subseteq Attrs
        BY <1>2, SheetTyped DEF TypeInv, Given, Items
  <2>2. ProcIs(n, Onward(p))
        BY <1>5 DEF ReadValues
  <2> HIDE DEF put, cut
  <2>3. p \in Processing /\ p.i = proc[n].i /\ p.f = proc[n].f
        BY <1>2, <2>1 DEF Processing
  <2> HIDE DEF p
  <2>4. sheet' \in [Ids -> {Absent, Gone} \cup LiveSheet]
        BY <1>5 DEF ReadValues, TypeInv, TypeOK
  <2> QED BY <1>4, <2>2, <2>3, <2>4
<1>6. ASSUME NEW a \in Attrs, Put(n, a) PROVE TypeInv'
  <2> DEFINE p == [proc[n] EXCEPT !.put = proc[n].put \ {a}]
  <2>1. ProcIs(n, Onward(p))
        BY <1>2, <1>6 DEF Put, Processing
  <2>2. p \in Processing /\ p.i = proc[n].i /\ p.f = proc[n].f
        BY <1>2 DEF Processing
  <2> HIDE DEF p
  <2>3. sheet[proc[n].f] \in LiveSheet
        BY <1>2, <1>6, SheetTyped DEF Put, TypeInv
  <2>4. sheet' = [sheet EXCEPT ![proc[n].f].vals = @ \cup {a}]
        BY <1>6 DEF Put
  <2>5. sheet' \in [Ids -> {Absent, Gone} \cup LiveSheet]
        BY <1>2, <2>3, <2>4 DEF LiveSheet, TypeInv, TypeOK
  <2> QED BY <1>4, <2>1, <2>2, <2>5
<1>7. ASSUME NEW a \in Attrs, Cut(n, a) PROVE TypeInv'
  <2> DEFINE p == [proc[n] EXCEPT !.cut = proc[n].cut \ {a}]
  <2>1. ProcIs(n, Onward(p))
        BY <1>2, <1>7 DEF Cut, Processing
  <2>2. p \in Processing /\ p.i = proc[n].i /\ p.f = proc[n].f
        BY <1>2 DEF Processing
  <2> HIDE DEF p
  <2>3. sheet[proc[n].f] \in LiveSheet
        BY <1>2, <1>7, SheetTyped DEF Cut, Values, TypeInv
  <2>4. sheet' = [sheet EXCEPT ![proc[n].f].vals = @ \ {a}]
        BY <1>7 DEF Cut
  <2>5. sheet' \in [Ids -> {Absent, Gone} \cup LiveSheet]
        BY <1>2, <2>3, <2>4 DEF LiveSheet, TypeInv, TypeOK
  <2> QED BY <1>4, <2>1, <2>2, <2>5
<1> QED BY <1>5, <1>6, <1>7

LEMMA CompletionTyped ==
    ASSUME TypeInv, NEW n \in Runs, Count(n) \/ Store(n) \/ LogItem(n) PROVE TypeInv'
<1>1. proc[n].at \in {"count", "store", "log"}
      BY DEF Count, Store, LogItem
<1>2. /\ proc[n] \in Processing /\ run[n] \in SyncRun /\ proc[n].f \in Ids
      /\ proc[n].i \in 1 .. Len(run[n].content) /\ proc[n].i \in Positions
      BY <1>1, ItemTyped DEF InItem, TypeInv, PlaceOK, Fetched
<1>3. run' = run /\ UNCHANGED <<overlaps, deletes>> /\ faults' \in 0 .. MaxFaults
      BY DEF Count, Store, LogItem, Steady, TypeInv, TypeOK
<1>4. ASSUME NEW p \in Processing, p.i = proc[n].i, p.f = proc[n].f, ProcIs(n, p),
             p.at \in {"store", "log", "map"}, TablesTyped'
      PROVE  TypeInv'
  <2>1. PlaceOK(p, run[n])
        BY <1>2, <1>4 DEF PlaceOK, InItem, Fetched
  <2> QED BY <1>3, <1>4, <2>1, Moves
<1>5. CASE Count(n)
  <2> DEFINE p == [proc[n] EXCEPT !.at = "store", !.filled = Values(proc[n].f)]
  <2>1. Values(proc[n].f) \subseteq Attrs
        BY <1>2, SheetTyped DEF TypeInv
  <2>2. p \in Processing /\ p.i = proc[n].i /\ p.f = proc[n].f /\ p.at = "store"
        BY <1>2, <2>1 DEF Processing, Statements, InItem
  <2>3. ProcIs(n, p) /\ TablesTyped'
        BY <1>5, TablesKept DEF Count, Tables, TypeInv
  <2> HIDE DEF p
  <2> QED BY <1>4, <2>2, <2>3
<1>6. CASE Store(n)
  <2> DEFINE p == [proc[n] EXCEPT !.at = "log"]
  <2>1. ProcIs(n, p) /\ p \in Processing /\ p.i = proc[n].i /\ p.f = proc[n].f /\ p.at = "log"
        BY <1>6, Labelled DEF Store, Statements, InItem
  <2> HIDE DEF p
  <2>2. sheet[proc[n].f] \in LiveSheet /\ proc[n].filled \subseteq Attrs
        BY <1>2, <1>6, SheetTyped DEF Store, TypeInv, Processing
  <2>3. sheet' = [sheet EXCEPT ![proc[n].f].completion = proc[n].filled]
        BY <1>6 DEF Store
  <2>4. sheet' \in [Ids -> {Absent, Gone} \cup LiveSheet]
        BY <1>2, <2>2, <2>3 DEF LiveSheet, TypeInv, TypeOK
  <2>5. TablesTyped'
        BY <1>6, <2>4 DEF Store, TypeInv, TypeOK, TablesTyped
  <2> QED BY <1>4, <2>1, <2>5
<1>7. CASE LogItem(n)
  <2> DEFINE p == [proc[n] EXCEPT !.at = "map"]
  <2>1. ProcIs(n, p) /\ p \in Processing /\ p.i = proc[n].i /\ p.f = proc[n].f /\ p.at = "map"
        BY <1>7, Labelled DEF LogItem, Statements, InItem
  <2> HIDE DEF p
  <2>2. \E kind \in Kinds : Logged(n, kind)
        BY <1>7 DEF LogItem, Kinds
  <2>3. TablesTyped'
        BY <1>2, <1>7, <2>2, LoggedTyped DEF LogItem, TypeInv, TypeOK, TablesTyped
  <2> QED BY <1>4, <2>1, <2>3
<1> QED BY <1>5, <1>6, <1>7

\* A statement outside the items fails, or the handler of that logs it.
LEMMA AbortTyped ==
    ASSUME TypeInv, NEW n \in Runs, NEW label \in {"abort", "fail"}, ProcAt(n, label),
           proc[n].at \in Statements,
           UNCHANGED <<sheet, mapping, run, log, overlaps, deletes>>, faults' \in 0 .. MaxFaults
    PROVE  TypeInv'
<1> DEFINE p == [proc[n] EXCEPT !.at = label]
<1>1. ProcIs(n, p) /\ p \in Processing /\ p.at = label
      BY Labelled DEF Statements
<1>2. run[n] \in SyncRun
      BY DEF TypeInv, PlaceOK
<1> HIDE DEF p
<1>3. PlaceOK(p, run[n])
      BY <1>1, <1>2 DEF PlaceOK, InItem, Fetched
<1>4. TablesTyped'
      BY TablesKept DEF Tables, TypeInv
<1> QED BY <1>1, <1>3, <1>4, Moves

LEMMA DieTyped ==
    ASSUME TypeInv, Die, UNCHANGED <<sheet, mapping, run, log, overlaps, deletes>>,
           faults' \in 0 .. MaxFaults
    PROVE  TypeInv'
<1> DEFINE p == [Idle EXCEPT !.at = "lost"]
<1>1. p \in Processing /\ p.at = "lost"
      BY ZeroTyped DEF Idle, Processing
<1>2. \A n \in Runs : proc'[n] = IF Active(n) THEN p ELSE proc[n]
      BY DEF Die
<1>3. proc' \in [Runs -> Processing]
      BY <1>1 DEF Die, TypeInv, TypeOK
<1> HIDE DEF p
<1>4. \A r : PlaceOK(p, r)
      BY <1>1 DEF PlaceOK, Statements, InItem, Fetched
<1>5. \A n \in Runs : PlaceOK(proc'[n], run'[n])
      BY <1>2, <1>4 DEF TypeInv
<1>6. TypeOK'
      BY <1>3 DEF TypeInv, TypeOK
<1> QED BY <1>5, <1>6 DEF TypeInv, PlaceOK

LEMMA FaultTyped ==
    ASSUME TypeInv, Crash \/ (\E n \in Runs : StatementFails(n)) PROVE TypeInv'
<1>1. faults' \in 0 .. MaxFaults /\ UNCHANGED <<sheet, mapping, run, log, overlaps, deletes>>
      BY ConstantsAssumption DEF Crash, StatementFails, Fault, TypeInv, TypeOK
<1>2. CASE Crash
      BY <1>1, <1>2, DieTyped DEF Crash
<1>3. ASSUME NEW n \in Runs, StatementFails(n) PROVE TypeInv'
  <2>1. CASE proc[n].at \in InItem /\ ProcIs(n, Thrown(proc[n]))
        BY <1>1, <2>1, ThrowsTyped
  <2>2. CASE proc[n].at \in {"running", "error", "finish"} /\ ProcAt(n, "abort")
    <3>1. proc[n].at \in Statements
          BY <2>2 DEF Statements
    <3> QED BY <1>1, <2>2, <3>1, AbortTyped
  <2>3. CASE Die
        BY <1>1, <2>3, DieTyped
  <2> QED BY <1>3, <2>1, <2>2, <2>3 DEF StatementFails
<1> QED BY <1>2, <1>3

LEMMA ProcessTyped == ASSUME TypeInv, NEW n \in Runs, Process(n) PROVE TypeInv'
<1>1. faults' = faults => faults' \in 0 .. MaxFaults
      BY DEF TypeInv, TypeOK
<1>2. CASE Orphaned(n) \/ (\E a \in Attrs : CutNothing(n, a))
      BY <1>1, <1>2, ThrowsTyped DEF Orphaned, CutNothing, Steady, InItem
<1>3. CASE LogAbort(n)
  <2>1. ProcAt(n, "fail") /\ proc[n].at \in Statements
        BY <1>3 DEF LogAbort, Statements
  <2>2. UNCHANGED <<sheet, mapping, run, log, overlaps, deletes, faults>>
        BY <1>3 DEF LogAbort, Steady
  <2> QED BY <1>1, <2>1, <2>2, AbortTyped
<1> QED BY <1>2, <1>3, LookupsTyped, EndItemTyped, CreateTyped, AttributesTyped, CompletionTyped,
           MarkRunningTyped, MarkEndTyped
        DEF Process, ProcessItem

LEMMA NextTyped == TypeInv /\ [Next]_vars => TypeInv'
<1> SUFFICES ASSUME TypeInv, [Next]_vars PROVE TypeInv'
    OBVIOUS
<1>1. CASE UNCHANGED vars
      BY <1>1 DEF vars, TypeInv, TypeOK, PlaceOK
<1>2. CASE Next
      BY <1>2, StartTyped, ProcessTyped, FaultTyped, DeleteTyped DEF Next
<1> QED BY <1>1, <1>2

\* Every variable keeps its type.
THEOREM LdifTypeCorrect == Spec => []TypeOK
<1>1. Spec => []TypeInv
      BY InitTyped, NextTyped, PTL DEF Spec
<1>2. TypeInv => TypeOK
      BY DEF TypeInv
<1> QED BY <1>1, <1>2, PTL

-----------------------------------------------------------------------------
(* A hash is stored after its data                                         *)

\* An item whose attributes are being applied or have been.
Applying == {"put", "cut", "count", "store", "log", "map"}

\* What the sheet of the item of run n has, and what is left to do.
AppliedOK(n) ==
    /\ proc[n].at \in {"put", "cut"} => proc[n].cut \cap Item(n).data = {}
    /\ proc[n].at \in Applying \ {"put"} => proc[n].put = {}
    /\ proc[n].at \in Applying /\ Exists(proc[n].f) =>
          Item(n).data \subseteq sheet[proc[n].f].vals \cup proc[n].put
    /\ proc[n].at = "store" /\ Exists(proc[n].f) => proc[n].filled = sheet[proc[n].f].vals
    /\ proc[n].at \in {"log", "map"} /\ Exists(proc[n].f) =>
          sheet[proc[n].f].completion = sheet[proc[n].f].vals

AppliedInv ==
    /\ TypeInv
    /\ overlaps = 0 =>
          /\ \A n, k \in Runs : Active(n) /\ Active(k) => n = k
          /\ \A n \in Runs : AppliedOK(n)

\* The sheet of an item has been created, or found: its attributes come next.
LEMMA SheetWritten ==
    ASSUME TypeInv, NEW n \in Runs, Create(n) \/ Update(n)
    PROVE  /\ proc'[n].at = "read" /\ proc'[n].i = proc[n].i /\ proc'[n].fresh = proc[n].fresh
           /\ proc'[n].counts.processed = proc[n].counts.processed
           /\ proc'[n].counts.errors = proc[n].counts.errors
           /\ Create(n) => /\ proc'[n].counts.created = proc[n].counts.created + 1
                           /\ proc'[n].counts.updated = proc[n].counts.updated
           /\ Update(n) => /\ proc'[n].counts.updated = proc[n].counts.updated + 1
                           /\ proc'[n].counts.created = proc[n].counts.created
<1>1. proc[n] \in Processing /\ proc[n].counts \in Counts
      BY DEF TypeInv, TypeOK, Processing
<1>2. \A p : ProcIs(n, p) => proc'[n] = p
      BY DEF ProcIs, TypeInv, TypeOK
<1>3. CASE Create(n)
  <2> DEFINE f == <<n, proc[n].i>>
             k == [proc[n].counts EXCEPT !.created = proc[n].counts.created + 1]
             p == [[[proc[n] EXCEPT !.at = "read"] EXCEPT !.f = f] EXCEPT !.counts = k]
  <2>1. ProcIs(n, p) /\ proc[n].fresh
        BY <1>1, <1>3 DEF Create, Processing
  <2>2. /\ k.created = proc[n].counts.created + 1 /\ k.updated = proc[n].counts.updated
        /\ k.processed = proc[n].counts.processed /\ k.errors = proc[n].counts.errors
        BY <1>1 DEF Counts
  <2> HIDE DEF f, k
  <2>3. p.at = "read" /\ p.i = proc[n].i /\ p.fresh = proc[n].fresh /\ p.counts = k
        BY <1>1 DEF Processing
  <2> HIDE DEF p
  <2>4. ~Update(n)
        BY <2>1 DEF Update
  <2> QED BY <1>2, <2>1, <2>2, <2>3, <2>4
<1>4. CASE Update(n)
  <2> DEFINE k == [proc[n].counts EXCEPT !.updated = proc[n].counts.updated + 1]
             p == [[proc[n] EXCEPT !.at = "read"] EXCEPT !.counts = k]
  <2>1. ProcIs(n, p) /\ ~proc[n].fresh
        BY <1>1, <1>4 DEF Update, Processing
  <2>2. /\ k.updated = proc[n].counts.updated + 1 /\ k.created = proc[n].counts.created
        /\ k.processed = proc[n].counts.processed /\ k.errors = proc[n].counts.errors
        BY <1>1 DEF Counts
  <2> HIDE DEF k
  <2>3. p.at = "read" /\ p.i = proc[n].i /\ p.fresh = proc[n].fresh /\ p.counts = k
        BY <1>1 DEF Processing
  <2> HIDE DEF p
  <2>4. ~Create(n)
        BY <2>1 DEF Create
  <2> QED BY <1>2, <2>1, <2>2, <2>3, <2>4
<1> QED BY <1>3, <1>4

\* A step of a run's processing moves that run alone.
LEMMA OneMoves ==
    ASSUME TypeInv, NEW n \in Runs,
           Process(n) \/ (StatementFails(n) /\ proc[n].at \notin {"abort", "fail"})
    PROVE  /\ Active(n) /\ UNCHANGED <<overlaps, deletes>>
           /\ \A k \in Runs : k # n => proc'[k] = proc[k]
<1>1. \A p : ProcIs(n, p) => \A k \in Runs : k # n => proc'[k] = proc[k]
      BY DEF ProcIs, TypeInv, TypeOK
<1>2. \A label : ProcAt(n, label) => \A k \in Runs : k # n => proc'[k] = proc[k]
      BY DEF ProcAt, TypeInv, TypeOK
<1>3. CASE StatementFails(n) /\ proc[n].at \notin {"abort", "fail"}
      BY <1>1, <1>2, <1>3 DEF StatementFails, Active, Statements
<1>4. CASE MarkRunning(n) \/ LogError(n) \/ MarkFinished(n) \/ LogAbort(n) \/ MarkFailed(n)
      BY <1>1, <1>2, <1>4 DEF MarkRunning, LogError, MarkFinished, LogAbort, MarkFailed, Steady,
                              Active, Statements
<1>5. CASE ProcessItem(n)
  <2>1. CASE Find(n) \/ Reject(n) \/ Match(n) \/ Orphaned(n) \/ Skip(n) \/ Create(n) \/ Update(n)
        BY <1>1, <2>1 DEF Find, Reject, Match, Orphaned, Skip, Create, Update, Steady,
                          Active, Statements, InItem
  <2>2. CASE ReadValues(n) \/ (\E a \in Attrs : Put(n, a) \/ Cut(n, a) \/ CutNothing(n, a))
        BY <1>1, <2>2 DEF ReadValues, Put, Cut, CutNothing, Steady, Active, Statements, InItem
  <2>3. CASE Count(n) \/ Store(n) \/ LogItem(n) \/ Map(n)
        BY <1>1, <1>2, <2>3 DEF Count, Store, LogItem, Map, Steady, Active, Statements, InItem
  <2> QED BY <1>5, <2>1, <2>2, <2>3 DEF ProcessItem
<1> QED BY <1>3, <1>4, <1>5 DEF Process

\* It is enough to look at the run that moves.
LEMMA OnlyOne ==
    ASSUME AppliedInv, TypeInv', NEW n \in Runs, Active(n), overlaps' = overlaps,
           \A k \in Runs : k # n => proc'[k] = proc[k],
           overlaps = 0 => AppliedOK(n)'
    PROVE  AppliedInv'
<1> SUFFICES ASSUME overlaps = 0
             PROVE  /\ \A m, k \in Runs : Active(m)' /\ Active(k)' => m = k
                    /\ \A m \in Runs : AppliedOK(m)'
    BY DEF AppliedInv
<1>1. \A k \in Runs : k # n => ~Active(k) /\ proc'[k] = proc[k]
      BY DEF AppliedInv
<1>2. \A k \in Runs : k # n => ~Active(k)'
      BY <1>1 DEF Active
<1>3. ASSUME NEW k \in Runs, k # n PROVE AppliedOK(k)'
  <2>1. proc'[k].at \notin Statements
        BY <1>2, <1>3 DEF Active
  <2> QED BY <2>1 DEF AppliedOK, Applying, Statements, InItem
<1> QED BY <1>2, <1>3

\* One that does not apply attributes next.
LEMMA Elsewhere ==
    ASSUME AppliedInv, TypeInv', NEW n \in Runs, Active(n), overlaps' = overlaps,
           \A k \in Runs : k # n => proc'[k] = proc[k],
           proc'[n].at \notin Applying
    PROVE  AppliedInv'
<1>1. AppliedOK(n)'
      BY DEF AppliedOK, Applying
<1> QED BY <1>1, OnlyOne

LEMMA NotApplyingNext ==
    ASSUME TypeInv, NEW n \in Runs,
           \/ Process(n)
           \/ StatementFails(n) /\ proc[n].at \notin {"abort", "fail"},
           ~ReadValues(n), ~Count(n), ~Store(n), ~LogItem(n),
           \A a \in Attrs : ~Put(n, a) /\ ~Cut(n, a)
    PROVE  proc'[n].at \notin Applying
<1>1. \A p : ProcIs(n, p) => proc'[n] = p
      BY DEF ProcIs, TypeInv, TypeOK
<1>2. ASSUME NEW label, ProcAt(n, label) PROVE proc'[n].at = label
  <2>1. proc[n] \in Processing /\ proc' = [proc EXCEPT ![n].at = label]
        BY <1>2 DEF ProcAt, TypeInv, TypeOK
  <2> QED BY <2>1 DEF Processing, TypeInv, TypeOK
<1>3. ASSUME proc[n].at \in InItem \cup {"error"}, ProcIs(n, NextItem(n, proc[n]))
      PROVE  proc'[n].at \in {"find", "finish"}
      BY <1>1, <1>3, ItemTyped, NextItemTyped
<1>4. ASSUME proc[n].at \in InItem, ProcIs(n, Thrown(proc[n])) PROVE proc'[n].at = "error"
      BY <1>1, <1>4, ItemTyped, ThrownTyped
<1>5. CASE StatementFails(n) /\ proc[n].at \notin {"abort", "fail"}
      BY <1>2, <1>4, <1>5 DEF StatementFails, Applying
<1>6. CASE Reject(n) \/ Skip(n) \/ Map(n) \/ LogError(n)
      BY <1>3, <1>6 DEF Reject, Skip, Map, LogError, InItem, Applying
<1>7. CASE Orphaned(n) \/ (\E a \in Attrs : CutNothing(n, a))
      BY <1>4, <1>7 DEF Orphaned, CutNothing, InItem, Applying
<1>8. CASE MarkRunning(n) \/ MarkFinished(n) \/ LogAbort(n) \/ MarkFailed(n)
      BY <1>2, <1>8 DEF MarkRunning, MarkFinished, LogAbort, MarkFailed, Iteration, Applying
<1>9. CASE Find(n) \/ Match(n) \/ Create(n) \/ Update(n)
  <2>1. proc[n] \in Processing
        BY DEF TypeInv, TypeOK
  <2>2. CASE Find(n)
    <3>1. \/ ProcIs(n, [proc[n] EXCEPT !.at = "reject", !.counts.errors = @ + 1])
          \/ \E f, at : /\ at \in {"skip", "match", "write"}
                       /\ ProcIs(n, [proc[n] EXCEPT !.f = f, !.at = at])
          BY <2>2 DEF Find
    <3> QED BY <1>1, <2>1, <3>1 DEF Processing, Applying
  <2>3. CASE Match(n)
    <3>1. proc'[n].at = "write"
          BY <1>1, <2>1, <2>3 DEF Match, Processing
    <3> QED BY <3>1 DEF Applying
  <2>4. CASE Create(n) \/ Update(n)
        BY <2>4, SheetWritten DEF Applying
  <2> QED BY <1>9, <2>2, <2>3, <2>4
<1> QED BY <1>5, <1>6, <1>7, <1>8, <1>9 DEF Process, ProcessItem

\* What is applied is what the item gave.
LEMMA PutsApplied ==
    ASSUME AppliedInv, NEW n \in Runs, overlaps = 0,
           ReadValues(n) \/ (\E a \in Attrs : Put(n, a) \/ Cut(n, a))
    PROVE  AppliedOK(n)'
<1>1. proc[n].at \in {"read", "put", "cut"} /\ TypeInv /\ AppliedOK(n)
      BY DEF ReadValues, Put, Cut, AppliedInv
<1>2. /\ proc[n] \in Processing /\ run[n] \in SyncRun /\ proc[n].f \in Ids
      /\ proc[n].i \in 1 .. Len(run[n].content) /\ Item(n) \in Items /\ run' = run
      BY <1>1, ItemTyped DEF InItem, TypeInv, PlaceOK, Fetched, ReadValues, Put, Cut
<1> DEFINE f == proc[n].f
           data == Item(n).data
<1>3. ASSUME NEW p \in Processing, p.i = proc[n].i, p.f = f, ProcIs(n, Onward(p)),
             p.cut \cap data = {},
             sheet'[f].state = "live" => data \subseteq sheet'[f].vals \cup p.put
      PROVE  AppliedOK(n)'
  <2>1. proc'[n] = Onward(p)
        BY <1>1, <1>3 DEF ProcIs, TypeInv, TypeOK
  <2>2. /\ \/ Onward(p).at = "put" /\ p.put # {}
           \/ Onward(p).at = "cut" /\ p.put = {} /\ p.cut # {}
           \/ Onward(p).at = "count" /\ p.put = {}
        /\ Onward(p).i = p.i /\ Onward(p).f = p.f
        /\ Onward(p).put = p.put /\ Onward(p).cut = p.cut
        BY <1>2, <1>3, OnwardTyped
  <2>3. Item(n)' = Item(n)
        BY <1>2, <1>3, <2>1, <2>2 DEF Item
  <2> QED BY <1>3, <2>1, <2>2, <2>3 DEF AppliedOK, Applying, Exists
<1>4. CASE ReadValues(n)
  <2> DEFINE put == Given(n)
             cut == IF Full(n) THEN Values(f) \ data ELSE {}
             p == [proc[n] EXCEPT !.put = put, !.cut = cut]
  <2>1. put \subseteq Attrs /\ cut \subseteq Attrs /\ cut \cap data = {} /\ put = data
        BY <1>1, <1>2, SheetTyped DEF TypeInv, Given, Items
  <2>2. ProcIs(n, Onward(p))
        BY <1>4 DEF ReadValues
  <2> HIDE DEF put, cut
  <2>3. p \in Processing /\ p.i = proc[n].i /\ p.f = f /\ p.put = put /\ p.cut = cut
        BY <1>2, <2>1 DEF Processing
  <2> HIDE DEF p, data
  <2> QED BY <1>3, <2>1, <2>2, <2>3
<1>5. ASSUME NEW a \in Attrs, Put(n, a) PROVE AppliedOK(n)'
  <2> DEFINE p == [proc[n] EXCEPT !.put = proc[n].put \ {a}]
  <2>1. ProcIs(n, Onward(p))
        BY <1>2, <1>5 DEF Put, Processing
  <2>2. /\ p \in Processing /\ p.i = proc[n].i /\ p.f = f /\ p.put = proc[n].put \ {a}
        /\ p.cut = proc[n].cut
        BY <1>2 DEF Processing
  <2>3. sheet[f] \in LiveSheet /\ Exists(f) /\ proc[n].at = "put"
        BY <1>1, <1>2, <1>5, SheetTyped DEF Put, TypeInv
  <2>4. sheet'[f].vals = sheet[f].vals \cup {a}
    <3>1. sheet' = [sheet EXCEPT ![f].vals = @ \cup {a}]
          BY <1>5 DEF Put
    <3> QED BY <1>1, <1>2, <2>3, <3>1 DEF LiveSheet, TypeInv, TypeOK
  <2>5. data \subseteq sheet[f].vals \cup proc[n].put /\ proc[n].cut \cap data = {}
        BY <1>1, <2>3 DEF AppliedOK, Applying
  <2> HIDE DEF p, data
  <2>6. data \subseteq sheet'[f].vals \cup p.put
        BY <2>2, <2>4, <2>5
  <2> QED BY <1>3, <2>1, <2>2, <2>5, <2>6
<1>6. ASSUME NEW a \in Attrs, Cut(n, a) PROVE AppliedOK(n)'
  <2> DEFINE p == [proc[n] EXCEPT !.cut = proc[n].cut \ {a}]
  <2>1. ProcIs(n, Onward(p))
        BY <1>2, <1>6 DEF Cut, Processing
  <2>2. /\ p \in Processing /\ p.i = proc[n].i /\ p.f = f /\ p.put = proc[n].put
        /\ p.cut = proc[n].cut \ {a}
        BY <1>2 DEF Processing
  <2>3. sheet[f] \in LiveSheet /\ Exists(f) /\ proc[n].at = "cut" /\ a \in proc[n].cut
        BY <1>1, <1>2, <1>6, SheetTyped DEF Cut, Values, TypeInv
  <2>4. sheet'[f].vals = sheet[f].vals \ {a}
    <3>1. sheet' = [sheet EXCEPT ![f].vals = @ \ {a}]
          BY <1>6 DEF Cut
    <3> QED BY <1>1, <1>2, <2>3, <3>1 DEF LiveSheet, TypeInv, TypeOK
  <2>5. /\ data \subseteq sheet[f].vals \cup proc[n].put /\ proc[n].cut \cap data = {}
        /\ proc[n].put = {}
        BY <1>1, <2>3 DEF AppliedOK, Applying
  <2> HIDE DEF p, data
  <2>6. data \subseteq sheet'[f].vals \cup p.put
        BY <2>2, <2>3, <2>4, <2>5
  <2> QED BY <1>3, <2>1, <2>2, <2>5, <2>6
<1> QED BY <1>4, <1>5, <1>6

LEMMA CompletionApplied ==
    ASSUME AppliedInv, NEW n \in Runs, overlaps = 0, Count(n) \/ Store(n) \/ LogItem(n)
    PROVE  AppliedOK(n)'
<1>1. proc[n].at \in {"count", "store", "log"} /\ TypeInv /\ AppliedOK(n)
      BY DEF Count, Store, LogItem, AppliedInv
<1>2. /\ proc[n] \in Processing /\ run[n] \in SyncRun /\ proc[n].f \in Ids
      /\ run' = run /\ Exists(proc[n].f)
      BY <1>1, ItemTyped DEF InItem, TypeInv, PlaceOK, Fetched, Count, Store, LogItem
<1> DEFINE f == proc[n].f
           data == Item(n).data
<1>3. sheet[f] \in LiveSheet /\ data \subseteq sheet[f].vals /\ proc[n].put = {}
      BY <1>1, <1>2, SheetTyped DEF TypeInv, AppliedOK, Applying
<1>4. ASSUME NEW p, p.i = proc[n].i, p.f = f, p.put = proc[n].put, ProcIs(n, p),
             p.at \in {"store", "log", "map"}, sheet'[f].vals = sheet[f].vals,
             p.at = "store" => p.filled = sheet'[f].vals,
             p.at \in {"log", "map"} => sheet'[f].completion = sheet'[f].vals
      PROVE  AppliedOK(n)'
  <2>1. proc'[n] = p
        BY <1>1, <1>4 DEF ProcIs, TypeInv, TypeOK
  <2>2. Item(n)' = Item(n)
        BY <1>2, <1>4, <2>1 DEF Item
  <2> QED BY <1>3, <1>4, <2>1, <2>2 DEF AppliedOK, Applying
<1>5. CASE Count(n)
  <2> DEFINE p == [proc[n] EXCEPT !.at = "store", !.filled = Values(f)]
  <2>1. /\ p.i = proc[n].i /\ p.f = f /\ p.put = proc[n].put /\ p.at = "store"
        /\ p.filled = sheet[f].vals
        BY <1>2 DEF Processing, Values
  <2>2. ProcIs(n, p) /\ sheet' = sheet
        BY <1>5 DEF Count
  <2> HIDE DEF p
  <2> QED BY <1>4, <2>1, <2>2
<1>6. CASE Store(n)
  <2> DEFINE p == [proc[n] EXCEPT !.at = "log"]
  <2>1. /\ p.i = proc[n].i /\ p.f = f /\ p.put = proc[n].put /\ p.at = "log"
        BY <1>2 DEF Processing
  <2>2. ProcIs(n, p)
        BY <1>1, <1>6, Labelled DEF Store
  <2>3. sheet'[f].vals = sheet[f].vals /\ sheet'[f].completion = proc[n].filled
    <3>1. sheet' = [sheet EXCEPT ![f].completion = proc[n].filled]
          BY <1>6 DEF Store
    <3> QED BY <1>1, <1>2, <1>3, <3>1 DEF LiveSheet, TypeInv, TypeOK
  <2>4. proc[n].filled = sheet[f].vals
        BY <1>1, <1>2, <1>6 DEF Store, AppliedOK
  <2> HIDE DEF p
  <2> QED BY <1>4, <2>1, <2>2, <2>3, <2>4
<1>7. CASE LogItem(n)
  <2> DEFINE p == [proc[n] EXCEPT !.at = "map"]
  <2>1. /\ p.i = proc[n].i /\ p.f = f /\ p.put = proc[n].put /\ p.at = "map"
        BY <1>2 DEF Processing
  <2>2. ProcIs(n, p) /\ sheet' = sheet
        BY <1>1, <1>7, Labelled DEF LogItem
  <2>3. sheet[f].completion = sheet[f].vals
        BY <1>1, <1>2, <1>7 DEF LogItem, AppliedOK
  <2> HIDE DEF p
  <2> QED BY <1>4, <2>1, <2>2, <2>3
<1> QED BY <1>5, <1>6, <1>7

LEMMA AppliedNext == AppliedInv /\ [Next]_vars => AppliedInv'
<1> SUFFICES ASSUME AppliedInv, [Next]_vars PROVE AppliedInv'
    OBVIOUS
<1>1. TypeInv /\ TypeInv'
      BY NextTyped DEF AppliedInv
<1>2. CASE UNCHANGED vars
  <2>1. UNCHANGED <<sheet, run, proc, overlaps>>
        BY <1>2 DEF vars
  <2> QED BY <1>1, <2>1 DEF AppliedInv, AppliedOK, Active, Exists, Item
<1>3. ASSUME NEW n \in Runs, Process(n) PROVE AppliedInv'
  <2>1. /\ Active(n) /\ overlaps' = overlaps
        /\ \A k \in Runs : k # n => proc'[k] = proc[k]
        BY <1>1, <1>3, OneMoves
  <2>2. CASE ReadValues(n) \/ (\E a \in Attrs : Put(n, a) \/ Cut(n, a))
        BY <1>1, <2>1, <2>2, PutsApplied, OnlyOne
  <2>3. CASE Count(n) \/ Store(n) \/ LogItem(n)
        BY <1>1, <2>1, <2>3, CompletionApplied, OnlyOne
  <2>4. CASE proc'[n].at \notin Applying
        BY <1>1, <2>1, <2>4, Elsewhere
  <2> QED BY <1>1, <1>3, <2>2, <2>3, <2>4, NotApplyingNext
<1>4. ASSUME NEW n \in Runs, StatementFails(n), proc[n].at \notin {"abort", "fail"}
      PROVE  AppliedInv'
  <2>1. faults' # faults
        BY <1>1, <1>4 DEF StatementFails, Fault, TypeInv, TypeOK
  <2>2. /\ ~ReadValues(n) /\ ~Count(n) /\ ~Store(n) /\ ~LogItem(n)
        /\ \A a \in Attrs : ~Put(n, a) /\ ~Cut(n, a)
        BY <2>1 DEF ReadValues, Count, Store, LogItem, Put, Cut, Steady
  <2>3. proc'[n].at \notin Applying
        BY <1>1, <1>4, <2>2, NotApplyingNext
  <2>4. /\ Active(n) /\ overlaps' = overlaps
        /\ \A k \in Runs : k # n => proc'[k] = proc[k]
        BY <1>1, <1>4, OneMoves
  <2> QED BY <1>1, <2>3, <2>4, Elsewhere
<1>5. ASSUME Die, UNCHANGED <<sheet, run, overlaps>> PROVE AppliedInv'
  <2>1. \A k \in Runs : proc'[k] = IF Active(k) THEN [Idle EXCEPT !.at = "lost"] ELSE proc[k]
        BY <1>5 DEF Die
  <2>2. \A k \in Runs : proc'[k].at \notin Statements
        BY <2>1 DEF Idle, Active, Statements, InItem
  <2> QED BY <1>1, <2>2 DEF AppliedInv, AppliedOK, Active, Applying, Statements, InItem
<1>6. ASSUME NEW f \in Ids, Delete(f) PROVE AppliedInv'
  <2>1. /\ UNCHANGED <<run, proc, overlaps>> /\ sheet' = [sheet EXCEPT ![f] = Gone]
        BY <1>6 DEF Delete
  <2>2. ASSUME NEW x \in Ids, Exists(x)' PROVE Exists(x) /\ sheet'[x] = sheet[x]
    <3>1. sheet'[x] = IF x = f THEN Gone ELSE sheet[x]
          BY <1>1, <2>1 DEF TypeInv, TypeOK
    <3> QED BY <2>2, <3>1 DEF Exists, Gone
  <2>3. \A k \in Runs : proc[k].at \in Applying => proc[k].f \in Ids
        BY <1>1 DEF TypeInv, PlaceOK, Applying, Fetched
  <2>4. \A k \in Runs : Active(k)' = Active(k) /\ Item(k)' = Item(k)
        BY <2>1 DEF Active, Item
  <2>5. ASSUME overlaps = 0, NEW k \in Runs PROVE AppliedOK(k)'
    <3>1. AppliedOK(k) /\ proc'[k] = proc[k]
          BY <2>1, <2>5 DEF AppliedInv
    <3> QED BY <2>2, <2>3, <2>4, <3>1 DEF AppliedOK, Applying
  <2> QED BY <1>1, <2>1, <2>4, <2>5 DEF AppliedInv
<1>7. ASSUME NEW n \in Runs, NEW mode, NEW c, Start(n, mode, c) PROVE AppliedInv'
  <2> SUFFICES ASSUME overlaps' = 0
               PROVE  /\ \A m, k \in Runs : Active(m)' /\ Active(k)' => m = k
                      /\ \A m \in Runs : AppliedOK(m)'
      BY <1>1 DEF AppliedInv
  <2>1. \A k \in Runs : ~Active(k)
        BY <1>1, <1>7 DEF Start, TypeInv, TypeOK
  <2>2. /\ proc'[n].at = "running" /\ \A k \in Runs : k # n => proc'[k] = proc[k]
        BY <1>1, <1>7 DEF Start, TypeInv, TypeOK, Idle
  <2>3. \A k \in Runs : k # n => proc'[k].at \notin Statements
        BY <2>1, <2>2 DEF Active
  <2>4. \A k \in Runs : proc'[k].at \notin Applying
        BY <2>2, <2>3 DEF Statements, InItem, Applying
  <2> QED BY <2>3, <2>4 DEF Active, AppliedOK, Applying
<1>8. CASE Crash
      BY <1>5, <1>8 DEF Crash
<1>9. ASSUME NEW n \in Runs, StatementFails(n), proc[n].at \in {"abort", "fail"} PROVE AppliedInv'
      BY <1>5, <1>9 DEF StatementFails, InItem
<1> QED BY <1>2, <1>3, <1>4, <1>6, <1>7, <1>8, <1>9 DEF Next

LEMMA AppliedInit == Init => AppliedInv
<1> SUFFICES ASSUME Init PROVE AppliedInv
    OBVIOUS
<1>1. \A n \in Runs : proc[n].at \notin Statements
      BY DEF Init, Idle, Statements, InItem
<1> QED BY <1>1, InitTyped DEF AppliedInv, AppliedOK, Active, Applying, Statements, InItem

\* Only the last statement of an item stores a hash.
LEMMA StepStores ==
    ASSUME AppliedInv, [Next]_vars, NEW r \in Records, mapping'[r] # mapping[r],
           mapping'[r] # Unmapped, overlaps = 0
    PROVE  LET s == sheet'[mapping'[r].sheet]
           IN  mapping'[r].hash \subseteq s.vals /\ s.completion = s.vals
<1>1. PICK n \in Runs : Map(n)
  <2>1. ~UNCHANGED vars
        BY DEF vars
  <2>2. \A f : ~Delete(f)
        BY DEF Delete
  <2>3. ~Crash /\ \A n : ~StatementFails(n) /\ \A mode, c : ~Start(n, mode, c)
        BY DEF Crash, StatementFails, Start
  <2>4. PICK n \in Runs : Process(n)
        BY <2>1, <2>2, <2>3 DEF Next
  <2>5. Map(n)
        BY <2>4 DEF Process, ProcessItem, MarkRunning, LogError, MarkFinished, LogAbort, MarkFailed,
                    Find, Reject, Match, Orphaned, Skip, Create, Update, ReadValues, Put, Cut,
                    CutNothing, Count, Store, LogItem
  <2> QED BY <2>5
<1>2. /\ proc[n].at = "map" /\ Exists(proc[n].f) /\ sheet' = sheet
      /\ mapping' = [mapping EXCEPT ![Item(n).id] = Mapped(proc[n].f, Item(n).data)]
      BY <1>1 DEF Map
<1>3. mapping'[r] = Mapped(proc[n].f, Item(n).data)
      BY <1>2 DEF AppliedInv, TypeInv, TypeOK
<1>4. /\ Item(n).data \subseteq sheet[proc[n].f].vals
      /\ sheet[proc[n].f].completion = sheet[proc[n].f].vals
      BY <1>2 DEF AppliedInv, AppliedOK, Applying
<1> QED BY <1>2, <1>3, <1>4 DEF Mapped

\* A stored hash stands for data that the sheet has and its completion counts.
THEOREM HashAfterData == Spec => AppliedBeforeMapped
<1>1. Spec => []AppliedInv
      BY AppliedInit, AppliedNext, PTL DEF Spec
<1> DEFINE A == \A r \in Records :
              mapping'[r] # mapping[r] /\ mapping'[r] # Unmapped /\ overlaps = 0 =>
                  LET s == sheet'[mapping'[r].sheet]
                  IN  mapping'[r].hash \subseteq s.vals /\ s.completion = s.vals
<1>2. AppliedInv /\ [Next]_vars => A
      BY StepStores
<1>3. Spec => [][A]_vars
  <2> HIDE DEF A
  <2> QED BY <1>1, <1>2, PTL DEF Spec
<1> QED BY <1>3 DEF AppliedBeforeMapped

-----------------------------------------------------------------------------
(* One sheet for a record                                                  *)

\* Run n is about to create a sheet for record r.
Creates(n, r) == proc[n].at = "write" /\ proc[n].fresh /\ Item(n).id = r
Creating(r) == {n \in Runs : Creates(n, r)}
Actives == {n \in Runs : Active(n)}

\* A run finds no sheet only while there is none, and then no more are being
\* created than runs are under way.
SheetsInv ==
    /\ TypeInv
    /\ Cardinality(Actives) <= 1 + overlaps
    /\ \A r \in Records :
          /\ IsFiniteSet(SheetsOf(r))
          /\ Cardinality(SheetsOf(r)) + Cardinality(Creating(r)) <= 1 + overlaps

LEMMA FiniteRuns ==
    /\ IsFiniteSet(Actives) /\ Cardinality(Actives) \in Nat
    /\ \A r : IsFiniteSet(Creating(r)) /\ Cardinality(Creating(r)) \in Nat
    /\ IsFiniteSet(Actives)' /\ Cardinality(Actives') \in Nat
    /\ \A r : IsFiniteSet(Creating(r)') /\ Cardinality(Creating(r)') \in Nat
<1>1. IsFiniteSet(Runs)
      BY ConstantsAssumption, FS_Interval DEF Runs
<1>2. \A X \in SUBSET Runs : IsFiniteSet(X) /\ Cardinality(X) \in Nat
      BY <1>1, FS_Subset, FS_CardinalityType
<1> QED BY <1>2 DEF Actives, Creating

LEMMA OneMore ==
    ASSUME NEW S, IsFiniteSet(S), NEW x
    PROVE  /\ IsFiniteSet(S \cup {x}) /\ Cardinality(S \cup {x}) \in Nat
           /\ Cardinality(S \cup {x}) <= Cardinality(S) + 1
<1>1. Cardinality(S) \in Nat
      BY FS_CardinalityType
<1>2. /\ IsFiniteSet(S \cup {x})
      /\ Cardinality(S \cup {x}) = Cardinality(S) \/ Cardinality(S \cup {x}) = Cardinality(S) + 1
      BY FS_AddElement
<1> QED BY <1>1, <1>2

\* Fewer sheets, and fewer runs that create one.
LEMMA FewerSheets ==
    ASSUME SheetsInv, TypeInv', overlaps' >= overlaps, Actives' \subseteq Actives,
           \A r \in Records : SheetsOf(r)' \subseteq SheetsOf(r) /\ Creating(r)' \subseteq Creating(r)
    PROVE  SheetsInv'
<1>1. overlaps \in Nat /\ overlaps' \in Nat
      BY DEF SheetsInv, TypeInv, TypeOK
<1>2. Cardinality(Actives') <= Cardinality(Actives)
      BY FiniteRuns, FS_Subset
<1>3. Cardinality(Actives') <= 1 + overlaps'
      BY <1>1, <1>2, FiniteRuns DEF SheetsInv
<1>4. ASSUME NEW r \in Records
      PROVE  /\ IsFiniteSet(SheetsOf(r)')
             /\ Cardinality(SheetsOf(r)') + Cardinality(Creating(r)') <= 1 + overlaps'
  <2>1. IsFiniteSet(SheetsOf(r)) /\ Cardinality(SheetsOf(r)) + Cardinality(Creating(r)) <= 1 + overlaps
        BY DEF SheetsInv
  <2>2. /\ IsFiniteSet(SheetsOf(r)') /\ Cardinality(SheetsOf(r)') <= Cardinality(SheetsOf(r))
        BY <1>4, <2>1, FS_Subset
  <2>3. Cardinality(Creating(r)') <= Cardinality(Creating(r))
        BY <1>4, FiniteRuns, FS_Subset
  <2>4. Cardinality(SheetsOf(r)) \in Nat /\ Cardinality(SheetsOf(r)') \in Nat
        BY <2>1, <2>2, FS_CardinalityType
  <2> QED BY <1>1, <2>1, <2>2, <2>3, <2>4, FiniteRuns
<1> QED BY <1>3, <1>4 DEF SheetsInv

\* No other step makes a run find nothing.
LEMMA OnlyMatchFindsNothing ==
    ASSUME TypeInv, NEW n \in Runs,
           Process(n) \/ (StatementFails(n) /\ proc[n].at \notin {"abort", "fail"}),
           ~Match(n)
    PROVE  ~(proc'[n].at = "write" /\ proc'[n].fresh)
<1>1. \A p : ProcIs(n, p) => proc'[n] = p
      BY DEF ProcIs, TypeInv, TypeOK
<1>2. ASSUME NEW label, ProcAt(n, label) PROVE proc'[n].at = label
  <2>1. proc[n] \in Processing /\ proc' = [proc EXCEPT ![n].at = label]
        BY <1>2 DEF ProcAt, TypeInv, TypeOK
  <2> QED BY <2>1 DEF Processing, TypeInv, TypeOK
<1>3. ASSUME proc[n].at \in InItem \cup {"error"}, ProcIs(n, NextItem(n, proc[n]))
      PROVE  proc'[n].at \in {"find", "finish"}
      BY <1>1, <1>3, ItemTyped, NextItemTyped
<1>4. ASSUME proc[n].at \in InItem, ProcIs(n, Thrown(proc[n])) PROVE proc'[n].at = "error"
      BY <1>1, <1>4, ItemTyped, ThrownTyped
<1>5. CASE StatementFails(n) /\ proc[n].at \notin {"abort", "fail"}
      BY <1>2, <1>4, <1>5 DEF StatementFails
<1>6. CASE Reject(n) \/ Skip(n) \/ Map(n) \/ LogError(n)
      BY <1>3, <1>6 DEF Reject, Skip, Map, LogError, InItem
<1>7. CASE Orphaned(n) \/ (\E a \in Attrs : CutNothing(n, a))
      BY <1>4, <1>7 DEF Orphaned, CutNothing, InItem
<1>8. CASE MarkRunning(n) \/ MarkFinished(n) \/ LogAbort(n) \/ MarkFailed(n) \/ Store(n) \/ LogItem(n)
      BY <1>2, <1>8 DEF MarkRunning, MarkFinished, LogAbort, MarkFailed, Store, LogItem, Iteration
<1>9. proc[n] \in Processing
      BY DEF TypeInv, TypeOK
<1>10. CASE Find(n)
  <2>1. \/ ProcIs(n, [proc[n] EXCEPT !.at = "reject", !.counts.errors = @ + 1])
        \/ \E f, at : ProcIs(n, [proc[n] EXCEPT !.f = f, !.at = at])
        BY <1>10 DEF Find
  <2>2. ~proc[n].fresh
        BY <1>10 DEF Find, TypeInv, PlaceOK
  <2> QED BY <1>1, <1>9, <2>1, <2>2 DEF Processing
<1>11. CASE Create(n) \/ Update(n)
       BY <1>11, SheetWritten
<1>13. CASE Count(n)
  <2>1. proc'[n].at = "store"
        BY <1>1, <1>9, <1>13 DEF Count, Processing
  <2> QED BY <2>1
<1>14. ASSUME NEW put, NEW cut, ProcIs(n, Onward([proc[n] EXCEPT !.put = put, !.cut = cut]))
       PROVE  proc'[n].at # "write"
  <2>1. PICK p : p = [proc[n] EXCEPT !.put = put, !.cut = cut]
        OBVIOUS
  <2> DEFINE at == IF p.put # {} THEN "put" ELSE IF p.cut # {} THEN "cut" ELSE "count"
  <2>2. proc'[n] = [p EXCEPT !.at = at] /\ at # "write"
        BY <1>1, <1>14, <2>1 DEF Onward
  <2> HIDE DEF at
  <2>3. proc'[n].at = at
        BY <1>9, <2>1, <2>2 DEF Processing
  <2> QED BY <2>2, <2>3
<1>15. CASE ReadValues(n)
      BY <1>14, <1>15 DEF ReadValues
<1>16. ASSUME NEW a \in Attrs, Put(n, a) PROVE proc'[n].at # "write"
  <2>1. [proc[n] EXCEPT !.put = proc[n].put \ {a}]
            = [proc[n] EXCEPT !.put = proc[n].put \ {a}, !.cut = proc[n].cut]
        BY <1>9 DEF Processing
  <2>2. ProcIs(n, Onward([proc[n] EXCEPT !.put = proc[n].put \ {a}]))
        BY <1>9, <1>16 DEF Put, Processing
  <2> QED BY <1>14, <2>1, <2>2
<1>17. ASSUME NEW a \in Attrs, Cut(n, a) PROVE proc'[n].at # "write"
  <2>1. [proc[n] EXCEPT !.cut = proc[n].cut \ {a}]
            = [proc[n] EXCEPT !.put = proc[n].put, !.cut = proc[n].cut \ {a}]
        BY <1>9 DEF Processing
  <2>2. ProcIs(n, Onward([proc[n] EXCEPT !.cut = proc[n].cut \ {a}]))
        BY <1>9, <1>17 DEF Cut, Processing
  <2> QED BY <1>14, <2>1, <2>2
<1> QED BY <1>5, <1>6, <1>7, <1>8, <1>10, <1>11, <1>13, <1>15, <1>16, <1>17
        DEF Process, ProcessItem

\* A run keeps its content, and a sheet its record.
LEMMA ContentKept ==
    ASSUME TypeInv, NEW n \in Runs, Process(n) \/ StatementFails(n), NEW k \in Runs, run[k] \in SyncRun
    PROVE  run'[k].content = run[k].content
<1>1. run[k] \in SyncRun /\ run \in [Runs -> {NoRun} \cup SyncRun]
      BY DEF TypeInv, TypeOK
<1>2. CASE MarkRunning(n)
  <2>1. run' = [run EXCEPT ![n].status = "RUNNING"]
        BY <1>2 DEF MarkRunning
  <2> QED BY <1>1, <2>1 DEF SyncRun
<1>3. CASE MarkFinished(n)
  <2>1. run' = [run EXCEPT ![n].status = Result(proc[n].counts), ![n].counts = proc[n].counts]
        BY <1>3 DEF MarkFinished
  <2> QED BY <1>1, <2>1 DEF SyncRun
<1>4. CASE MarkFailed(n)
  <2>1. run' = [run EXCEPT ![n].status = "FAILED", ![n].counts.errors = 1]
        BY <1>4 DEF MarkFailed
  <2> QED BY <1>1, <2>1 DEF SyncRun
<1>5. CASE run' = run
      BY <1>5
<1> QED BY <1>2, <1>3, <1>4, <1>5 DEF Process, ProcessItem, StatementFails, LogError, LogAbort,
        Find, Reject, Match, Orphaned, Skip, Create, Update, ReadValues, Put, Cut, CutNothing,
        Count, Store, LogItem, Map

LEMMA RecordsKept ==
    ASSUME TypeInv, NEW n \in Runs, Process(n) \/ StatementFails(n), ~Create(n), NEW r
    PROVE  SheetsOf(r)' \subseteq SheetsOf(r)
<1>1. ASSUME NEW f \in Ids, Exists(f), NEW vals,
             sheet' = [sheet EXCEPT ![f].vals = vals] \/ sheet' = [sheet EXCEPT ![f].completion = vals]
      PROVE  SheetsOf(r)' \subseteq SheetsOf(r)
  <2>1. sheet[f] \in LiveSheet
        BY <1>1, SheetTyped DEF TypeInv
  <2>2. \A x \in Ids : x # f => sheet'[x] = sheet[x]
        BY <1>1 DEF TypeInv, TypeOK
  <2>3. sheet'[f].state = sheet[f].state /\ sheet'[f].record = sheet[f].record
        BY <1>1, <2>1 DEF LiveSheet, TypeInv, TypeOK
  <2> QED BY <2>2, <2>3 DEF SheetsOf, Exists
<1>2. ASSUME NEW a \in Attrs, Put(n, a) PROVE SheetsOf(r)' \subseteq SheetsOf(r)
  <2>1. proc[n].f \in Ids /\ Exists(proc[n].f)
        BY <1>2 DEF Put, TypeInv, PlaceOK, Fetched
  <2> QED BY <1>1, <1>2, <2>1 DEF Put
<1>3. ASSUME NEW a \in Attrs, Cut(n, a) PROVE SheetsOf(r)' \subseteq SheetsOf(r)
  <2>1. proc[n].f \in Ids /\ Exists(proc[n].f)
        BY <1>3 DEF Cut, Values, TypeInv, PlaceOK, Fetched
  <2> QED BY <1>1, <1>3, <2>1 DEF Cut
<1>4. CASE Store(n)
  <2>1. proc[n].f \in Ids /\ Exists(proc[n].f)
        BY <1>4 DEF Store, TypeInv, PlaceOK, Fetched
  <2> QED BY <1>1, <1>4, <2>1 DEF Store
<1>5. CASE sheet' = sheet
      BY <1>5 DEF SheetsOf, Exists
<1> QED BY <1>2, <1>3, <1>4, <1>5 DEF Process, ProcessItem, StatementFails, LogError, LogAbort,
        MarkRunning, MarkFinished, MarkFailed, Find, Reject, Match, Orphaned, Skip, Update,
        ReadValues, CutNothing, Count, LogItem, Map

LEMMA OthersCreate ==
    ASSUME TypeInv, NEW n \in Runs,
           Process(n) \/ (StatementFails(n) /\ proc[n].at \notin {"abort", "fail"}),
           NEW k \in Runs, k # n, NEW r
    PROVE  Creates(k, r)' => Creates(k, r)
<1> SUFFICES ASSUME Creates(k, r)' PROVE Creates(k, r)
    OBVIOUS
<1>1. proc'[k] = proc[k]
      BY OneMoves
<1>2. proc[k].at = "write" /\ proc[k].fresh
      BY <1>1 DEF Creates
<1>3. run[k] \in SyncRun
      BY <1>2 DEF TypeInv, PlaceOK, Statements, InItem
<1>4. run'[k].content = run[k].content
      BY <1>3, ContentKept
<1> QED BY <1>1, <1>2, <1>4 DEF Creates, Item

LEMMA StaysActive ==
    ASSUME TypeInv, NEW n \in Runs,
           Process(n) \/ (StatementFails(n) /\ proc[n].at \notin {"abort", "fail"})
    PROVE  Actives' \subseteq Actives /\ n \in Actives
<1>1. Active(n) /\ \A k \in Runs : k # n => proc'[k] = proc[k]
      BY OneMoves
<1> QED BY <1>1 DEF Actives, Active

LEMMA MatchSheets == ASSUME SheetsInv, TypeInv', NEW n \in Runs, Match(n) PROVE SheetsInv'
<1>1. TypeInv /\ Process(n) /\ ~Create(n) /\ overlaps' = overlaps /\ overlaps \in Nat
  <2>1. TypeInv /\ overlaps \in Nat
        BY DEF SheetsInv, TypeInv, TypeOK
  <2>2. Process(n) /\ overlaps' = overlaps /\ proc[n].at = "match"
        BY DEF Process, ProcessItem, Match, Steady
  <2> QED BY <2>1, <2>2 DEF Create
<1>2. Actives' \subseteq Actives /\ \A r : SheetsOf(r)' \subseteq SheetsOf(r)
      BY <1>1, StaysActive, RecordsKept
<1>3. proc[n] \in Processing /\ run' = run /\ ~proc[n].fresh /\ proc[n].at = "match"
      BY <1>1 DEF Match, TypeInv, TypeOK, PlaceOK
<1>4. \A p : ProcIs(n, p) => proc'[n] = p
      BY <1>1 DEF ProcIs, TypeInv, TypeOK
<1>5. CASE ~proc'[n].fresh
  <2>1. \A r : Creating(r)' \subseteq Creating(r)
        BY <1>1, <1>5, OthersCreate DEF Creating, Creates
  <2> QED BY <1>1, <1>2, <2>1, FewerSheets
<1>6. CASE proc'[n].fresh
  <2> DEFINE r == Item(n).id
  <2>1. SheetsOf(r) = {} /\ proc'[n].i = proc[n].i
    <3>1. /\ {f \in Ids : Exists(f) /\ sheet[f].record = r} = {}
          /\ ProcIs(n, [proc[n] EXCEPT !.at = "write", !.fresh = TRUE])
          BY <1>3, <1>4, <1>6 DEF Match, Processing
    <3> QED BY <1>3, <1>4, <3>1 DEF SheetsOf, Processing
  <2>2. Item(n)' = Item(n)
        BY <1>3, <2>1 DEF Item
  <2>3. r \in Records
        BY <1>1, <1>3, ItemTyped DEF InItem, Items
  <2>4. Cardinality(Actives') <= 1 + overlaps'
    <3>1. Cardinality(Actives') <= Cardinality(Actives)
          BY <1>2, FiniteRuns, FS_Subset
    <3> QED BY <1>1, <3>1, FiniteRuns DEF SheetsInv
  <2>5. ASSUME NEW x \in Records, x # r
        PROVE  /\ IsFiniteSet(SheetsOf(x)')
               /\ Cardinality(SheetsOf(x)') + Cardinality(Creating(x)') <= 1 + overlaps'
    <3>1. Creating(x)' \subseteq Creating(x)
          BY <1>1, <2>2, <2>5, OthersCreate DEF Creating, Creates
    <3>2. IsFiniteSet(SheetsOf(x)) /\ Cardinality(SheetsOf(x)) + Cardinality(Creating(x)) <= 1 + overlaps
          BY <2>5 DEF SheetsInv
    <3>3. IsFiniteSet(SheetsOf(x)') /\ Cardinality(SheetsOf(x)') <= Cardinality(SheetsOf(x))
          BY <1>2, <3>2, FS_Subset
    <3>4. Cardinality(Creating(x)') <= Cardinality(Creating(x))
          BY <3>1, FiniteRuns, FS_Subset
    <3>5. Cardinality(SheetsOf(x)) \in Nat /\ Cardinality(SheetsOf(x)') \in Nat
          BY <3>2, <3>3, FS_CardinalityType
    <3> QED BY <1>1, <3>2, <3>3, <3>4, <3>5, FiniteRuns
  <2>6. /\ IsFiniteSet(SheetsOf(r)')
        /\ Cardinality(SheetsOf(r)') + Cardinality(Creating(r)') <= 1 + overlaps'
    <3>1. SheetsOf(r)' = {}
      <4>1. \A x : SheetsOf(x)' \subseteq SheetsOf(x)
            BY <1>2
      <4>2. SheetsOf(r)' \subseteq SheetsOf(r)
            BY <1>3, <2>2, <4>1
      <4> QED BY <2>1, <4>2
    <3>2. IsFiniteSet({}) /\ Cardinality({}) = 0
          BY FS_EmptySet
    <3>3. Creating(r)' \subseteq Actives'
          BY DEF Creating, Creates, Actives, Active, Statements, InItem
    <3>4. Cardinality(Creating(r)') <= Cardinality(Actives')
          BY <3>3, FiniteRuns, FS_Subset
    <3> QED BY <1>1, <2>4, <3>1, <3>2, <3>4, FiniteRuns
  <2>7. r' = r
        BY <2>2
  <2> HIDE DEF r
  <2> QED BY <2>4, <2>5, <2>6, <2>7 DEF SheetsInv
<1> QED BY <1>5, <1>6

LEMMA CreateSheets == ASSUME SheetsInv, TypeInv', NEW n \in Runs, Create(n) PROVE SheetsInv'
<1>1. /\ TypeInv /\ Process(n) /\ ~Match(n) /\ overlaps' = overlaps /\ overlaps \in Nat /\ run' = run
      /\ proc[n].at = "write" /\ proc[n].fresh
  <2>1. TypeInv /\ overlaps \in Nat
        BY DEF SheetsInv, TypeInv, TypeOK
  <2>2. /\ Process(n) /\ overlaps' = overlaps /\ run' = run
        /\ proc[n].at = "write" /\ proc[n].fresh
        BY DEF Process, ProcessItem, Create, Steady
  <2> QED BY <2>1, <2>2 DEF Match
<1> DEFINE f == <<n, proc[n].i>>
           r == Item(n).id
<1>2. f \in Ids /\ sheet \in [Ids -> {Absent, Gone} \cup LiveSheet]
      BY <1>1, ItemTyped DEF InItem, TypeInv, TypeOK
<1>3. /\ \A x \in Ids : x # f => sheet'[x] = sheet[x]
      /\ sheet'[f].record = r
      BY <1>2 DEF Create, Live
<1>4. \A x : ~Creates(n, x)' /\ (Creates(n, x) => x = r)
  <2>1. ~(proc'[n].at = "write" /\ proc'[n].fresh)
        BY <1>1, OnlyMatchFindsNothing
  <2> QED BY <2>1 DEF Creates
<1>5. \A x : Creating(x)' \subseteq Creating(x) \ {n}
  <2>1. \A x, k : k \in Runs /\ k # n => (Creates(k, x)' => Creates(k, x))
        BY <1>1, OthersCreate
  <2> QED BY <1>4, <2>1 DEF Creating
<1>6. \A x : SheetsOf(x)' \subseteq SheetsOf(x) \cup {f}
      BY <1>3 DEF SheetsOf, Exists
<1>7. \A x : x # r => SheetsOf(x)' \subseteq SheetsOf(x)
      BY <1>3 DEF SheetsOf, Exists
<1>8. n \in Creating(r)
      BY <1>1 DEF Creating, Creates
<1>9. Cardinality(Actives') <= 1 + overlaps'
  <2>1. Actives' \subseteq Actives
        BY <1>1, StaysActive
  <2>2. Cardinality(Actives') <= Cardinality(Actives)
        BY <2>1, FiniteRuns, FS_Subset
  <2> QED BY <1>1, <2>2, FiniteRuns DEF SheetsInv
<1> HIDE DEF f, r
<1>10. ASSUME NEW x \in Records
       PROVE  /\ IsFiniteSet(SheetsOf(x)')
              /\ Cardinality(SheetsOf(x)') + Cardinality(Creating(x)') <= 1 + overlaps'
  <2>1. /\ IsFiniteSet(SheetsOf(x)) /\ Cardinality(SheetsOf(x)) \in Nat
        /\ Cardinality(SheetsOf(x)) + Cardinality(Creating(x)) <= 1 + overlaps
        BY <1>10, FS_CardinalityType DEF SheetsInv
  <2>2. CASE x = r
    <3>1. /\ IsFiniteSet(SheetsOf(x) \cup {f})
          /\ Cardinality(SheetsOf(x) \cup {f}) \in Nat
          /\ Cardinality(SheetsOf(x) \cup {f}) <= Cardinality(SheetsOf(x)) + 1
          BY <2>1, OneMore
    <3>2. /\ IsFiniteSet(SheetsOf(x)') /\ Cardinality(SheetsOf(x)') \in Nat
          /\ Cardinality(SheetsOf(x)') <= Cardinality(SheetsOf(x) \cup {f})
          BY <1>6, <3>1, FS_Subset, FS_CardinalityType
    <3>3. IsFiniteSet(Creating(x)) /\ n \in Creating(x)
          BY <1>8, <2>2, FiniteRuns
    <3>4. /\ IsFiniteSet(Creating(x) \ {n})
          /\ Cardinality(Creating(x) \ {n}) = Cardinality(Creating(x)) - 1
          BY <3>3, FS_RemoveElement
    <3>5. Cardinality(Creating(x)') <= Cardinality(Creating(x) \ {n})
          BY <1>5, <3>4, FS_Subset
    <3> QED BY <1>1, <2>1, <3>1, <3>2, <3>4, <3>5, FiniteRuns
  <2>3. CASE x # r
    <3>1. /\ IsFiniteSet(SheetsOf(x)') /\ Cardinality(SheetsOf(x)') \in Nat
          /\ Cardinality(SheetsOf(x)') <= Cardinality(SheetsOf(x))
          BY <1>7, <2>1, <2>3, FS_Subset, FS_CardinalityType
    <3>2. Creating(x)' \subseteq Creating(x)
          BY <1>5
    <3>3. Cardinality(Creating(x)') <= Cardinality(Creating(x))
          BY <3>2, FiniteRuns, FS_Subset
    <3> QED BY <1>1, <2>1, <3>1, <3>3, FiniteRuns
  <2> QED BY <2>2, <2>3
<1> QED BY <1>9, <1>10 DEF SheetsInv

LEMMA ProcessSheets ==
    ASSUME SheetsInv, TypeInv', NEW n \in Runs,
           Process(n) \/ (StatementFails(n) /\ proc[n].at \notin {"abort", "fail"}),
           ~Create(n), ~Match(n)
    PROVE  SheetsInv'
<1>1. TypeInv /\ overlaps \in Nat
      BY DEF SheetsInv, TypeInv, TypeOK
<1>2. overlaps' = overlaps /\ Actives' \subseteq Actives
      BY <1>1, OneMoves, StaysActive
<1>3. \A r : SheetsOf(r)' \subseteq SheetsOf(r)
      BY <1>1, RecordsKept
<1>4. \A r : ~Creates(n, r)'
      BY <1>1, OnlyMatchFindsNothing DEF Creates
<1>5. \A r, k : k \in Runs /\ k # n => (Creates(k, r)' => Creates(k, r))
      BY <1>1, OthersCreate
<1>6. \A r : Creating(r)' \subseteq Creating(r)
      BY <1>4, <1>5 DEF Creating
<1> QED BY <1>1, <1>2, <1>3, <1>6, FewerSheets

LEMMA DieSheets ==
    ASSUME SheetsInv, TypeInv', Die, UNCHANGED <<sheet, run, overlaps>> PROVE SheetsInv'
<1>1. overlaps \in Nat
      BY DEF SheetsInv, TypeInv, TypeOK
<1>2. \A k \in Runs : ~Active(k)'
      BY DEF Die, Active, Idle, Statements, InItem
<1>3. Actives' = {} /\ \A r : Creating(r)' = {}
      BY <1>2 DEF Actives, Creating, Creates, Active, Statements, InItem
<1>4. \A r : SheetsOf(r)' \subseteq SheetsOf(r)
      BY DEF SheetsOf, Exists
<1> QED BY <1>1, <1>3, <1>4, FewerSheets

LEMMA DeleteSheets == ASSUME SheetsInv, TypeInv', NEW f \in Ids, Delete(f) PROVE SheetsInv'
<1>1. overlaps \in Nat /\ overlaps' = overlaps /\ proc' = proc /\ run' = run
      BY DEF SheetsInv, TypeInv, TypeOK, Delete
<1>2. Actives' = Actives /\ \A r : Creating(r)' = Creating(r)
      BY <1>1 DEF Actives, Active, Creating, Creates, Item
<1>3. \A x \in Ids : sheet'[x] = Gone \/ sheet'[x] = sheet[x]
      BY DEF Delete, SheetsInv, TypeInv, TypeOK
<1>4. \A r : SheetsOf(r)' \subseteq SheetsOf(r)
      BY <1>3 DEF SheetsOf, Exists, Gone
<1> QED BY <1>1, <1>2, <1>4, FewerSheets

\* Only a run that starts beside another adds to those under way, and it is
\* an overlap.
LEMMA StartSheets ==
    ASSUME SheetsInv, TypeInv', NEW n \in Runs, NEW mode, NEW c, Start(n, mode, c)
    PROVE  SheetsInv'
<1>1. overlaps \in Nat /\ overlaps' \in Nat
      BY DEF SheetsInv, TypeInv, TypeOK
<1>2. /\ \A k \in Runs : k # n => proc'[k] = proc[k] /\ run'[k] = run[k]
      /\ proc'[n].at = "running" /\ sheet' = sheet
      BY DEF Start, SheetsInv, TypeInv, TypeOK, Idle
<1>3. Actives' \subseteq Actives \cup {n}
      BY <1>2 DEF Actives, Active
<1>4. /\ overlaps' = overlaps \/ overlaps' = overlaps + 1
      /\ Actives # {} => overlaps' = overlaps + 1
      BY DEF Start, Actives
<1>5. Cardinality(Actives') <= 1 + overlaps'
  <2>1. /\ IsFiniteSet(Actives \cup {n}) /\ Cardinality(Actives \cup {n}) \in Nat
        /\ Cardinality(Actives \cup {n}) <= Cardinality(Actives) + 1
        BY FiniteRuns, OneMore
  <2>2. Cardinality(Actives') <= Cardinality(Actives \cup {n})
        BY <1>3, <2>1, FS_Subset
  <2>3. CASE Actives # {}
        BY <1>1, <1>4, <2>1, <2>2, <2>3, FiniteRuns DEF SheetsInv
  <2>4. CASE Actives = {}
    <3>1. Cardinality(Actives) = 0
          BY <2>4, FS_EmptySet
    <3> QED BY <1>1, <2>1, <2>2, <3>1, FiniteRuns
  <2> QED BY <2>3, <2>4
<1>6. ASSUME NEW r \in Records
      PROVE  /\ IsFiniteSet(SheetsOf(r)')
             /\ Cardinality(SheetsOf(r)') + Cardinality(Creating(r)') <= 1 + overlaps'
  <2>1. Creating(r)' \subseteq Creating(r)
        BY <1>2 DEF Creating, Creates, Item
  <2>2. SheetsOf(r)' = SheetsOf(r)
        BY <1>2 DEF SheetsOf, Exists
  <2>3. Cardinality(Creating(r)') <= Cardinality(Creating(r))
        BY <2>1, FiniteRuns, FS_Subset
  <2>4. /\ IsFiniteSet(SheetsOf(r)) /\ Cardinality(SheetsOf(r)) \in Nat
        /\ Cardinality(SheetsOf(r)) + Cardinality(Creating(r)) <= 1 + overlaps
        BY FS_CardinalityType DEF SheetsInv
  <2> QED BY <1>1, <1>4, <2>2, <2>3, <2>4, FiniteRuns
<1> QED BY <1>5, <1>6 DEF SheetsInv

LEMMA SheetsInit == Init => SheetsInv
<1> SUFFICES ASSUME Init PROVE SheetsInv
    OBVIOUS
<1>1. TypeInv /\ overlaps = 0
      BY InitTyped DEF Init
<1>2. Actives = {}
      BY DEF Actives, Active, Init, Idle, Statements, InItem
<1>3. ASSUME NEW r PROVE SheetsOf(r) = {} /\ Creating(r) = {}
      BY DEF SheetsOf, Exists, Creating, Creates, Init, Idle, Absent
<1>4. IsFiniteSet({}) /\ Cardinality({}) = 0
      BY FS_EmptySet
<1>5. Cardinality(Actives) <= 1 + overlaps
      BY <1>1, <1>2, <1>4
<1>6. \A r : /\ IsFiniteSet(SheetsOf(r))
             /\ Cardinality(SheetsOf(r)) + Cardinality(Creating(r)) <= 1 + overlaps
      BY <1>1, <1>3, <1>4
<1> QED BY <1>1, <1>5, <1>6 DEF SheetsInv

LEMMA SheetsNext == SheetsInv /\ [Next]_vars => SheetsInv'
<1> SUFFICES ASSUME SheetsInv, [Next]_vars PROVE SheetsInv'
    OBVIOUS
<1>1. TypeInv'
      BY NextTyped DEF SheetsInv
<1>2. CASE UNCHANGED vars
  <2>1. overlaps \in Nat /\ overlaps' = overlaps
        BY <1>2 DEF SheetsInv, TypeInv, TypeOK, vars
  <2>2. Actives' = Actives /\ \A r : SheetsOf(r)' = SheetsOf(r) /\ Creating(r)' = Creating(r)
        BY <1>2 DEF vars, Actives, Active, SheetsOf, Exists, Creating, Creates, Item
  <2> QED BY <1>1, <2>1, <2>2, FewerSheets
<1>3. ASSUME NEW n \in Runs, Process(n) PROVE SheetsInv'
      BY <1>1, <1>3, MatchSheets, CreateSheets, ProcessSheets
<1>4. ASSUME NEW n \in Runs, StatementFails(n) PROVE SheetsInv'
  <2>1. CASE proc[n].at \in {"abort", "fail"}
    <3>1. Die /\ UNCHANGED <<sheet, run, overlaps>>
          BY <1>4, <2>1 DEF StatementFails, InItem
    <3> QED BY <1>1, <3>1, DieSheets
  <2>2. CASE proc[n].at \notin {"abort", "fail"}
    <3>1. faults' # faults
          BY <1>4, ConstantsAssumption DEF StatementFails, Fault, SheetsInv, TypeInv, TypeOK
    <3>2. ~Create(n) /\ ~Match(n)
          BY <3>1 DEF Create, Match, Steady
    <3> QED BY <1>1, <1>4, <2>2, <3>2, ProcessSheets
  <2> QED BY <2>1, <2>2
<1>5. CASE Crash
  <2>1. Die /\ UNCHANGED <<sheet, run, overlaps>>
        BY <1>5 DEF Crash
  <2> QED BY <1>1, <2>1, DieSheets
<1> QED BY <1>1, <1>2, <1>3, <1>4, <1>5, StartSheets, DeleteSheets DEF Next

\* A record has one sheet, and one more at most for every overlap of runs.
THEOREM OneSheet == Spec => []OneSheetPerRecord
<1>1. SheetsInv => OneSheetPerRecord
  <2> SUFFICES ASSUME SheetsInv, NEW r \in Records
               PROVE  Cardinality(SheetsOf(r)) <= 1 + overlaps
      BY DEF OneSheetPerRecord
  <2>1. /\ IsFiniteSet(SheetsOf(r)) /\ Cardinality(SheetsOf(r)) \in Nat
        /\ Cardinality(SheetsOf(r)) + Cardinality(Creating(r)) <= 1 + overlaps
        BY FS_CardinalityType DEF SheetsInv
  <2>2. overlaps \in Nat
        BY DEF SheetsInv, TypeInv, TypeOK
  <2> QED BY <2>1, <2>2, FiniteRuns
<1>2. Spec => []SheetsInv
      BY SheetsInit, SheetsNext, PTL DEF Spec
<1> QED BY <1>1, <1>2, PTL
-----------------------------------------------------------------------------
(* The log tells the result                                                *)

\* Items that are not over: their sheet is counted, their row is to come.
Written == {"read", "put", "cut", "count", "store", "log", "map"}
Busy == InItem \cup {"running", "error", "finish"}

WithKind(l, kind, m) == {k \in 1 .. m : l[k] = {kind}}
Tally(l, kind, m) == Cardinality(WithKind(l, kind, m))
One(b) == IF b THEN 1 ELSE 0

\* p is the processing of a run, l its log: which items have rows.
Entered(p, l) ==
    /\ p.counts.processed = p.i - 1
    /\ \A k \in Positions : k > p.i => l[k] = {}
    /\ p.at \notin {"map", "error"} => \A k \in Positions : k = p.i => l[k] = {}
    /\ p.at = "map" => l[p.i] = IF p.fresh THEN {"created"} ELSE {"updated"}

\* Errors are logged, or about to be.
Failing(p, l) ==
    /\ p.at \in {"reject", "error"} => p.counts.errors > 0
    /\ p.counts.errors > 0 =>
          p.at \in {"reject", "error"} \/ \E k \in 1 .. p.i - 1 : "error" \in l[k]

\* Without an error the counts are those of the rows.
Tallied(p, l) ==
    p.counts.errors = 0 =>
        /\ p.counts.created = Tally(l, "created", p.i - 1) + One(p.at \in Written /\ p.fresh)
        /\ p.counts.updated = Tally(l, "updated", p.i - 1) + One(p.at \in Written /\ ~p.fresh)
        /\ p.i - 1 = Tally(l, "created", p.i - 1) + Tally(l, "updated", p.i - 1)
                     + Tally(l, "skipped", p.i - 1)

LogOK(p, l) == Entered(p, l) /\ Failing(p, l) /\ Tallied(p, l)

\* The run with the row r and the log l, once it has ended.
Told(r, l) ==
    /\ r.status = "FINISHED" =>
          /\ r.counts.processed = Len(r.content) /\ r.counts.errors = 0
          /\ r.counts.created = Tally(l, "created", Len(r.content))
          /\ r.counts.updated = Tally(l, "updated", Len(r.content))
          /\ Len(r.content) = r.counts.created + r.counts.updated
                              + Tally(l, "skipped", Len(r.content))
    /\ r.status = "FAILED" /\ r.counts.processed > 0 =>
          /\ r.counts.processed = Len(r.content) /\ r.counts.errors > 0
          /\ \E k \in 1 .. Len(r.content) : "error" \in l[k]

\* p is the processing of the run with the row r and the log l.
RunOK(p, r, l) ==
    /\ r = NoRun => \A k \in Positions : l[k] = {}
    /\ p.at \in Statements => r.status \in {"CREATED", "RUNNING"} /\ r.counts.processed = 0
    /\ p.at \in Busy => LogOK(p, l)
    /\ Told(r, l)

LogInv == TypeInv /\ \A n \in Runs : RunOK(proc[n], run[n], log[n])

Rows == [Positions -> SUBSET Kinds]

\* What two logs have in common counts alike.
LEMMA TallySame ==
    ASSUME NEW l, NEW new, NEW m \in Nat, \A k \in 1 .. m : new[k] = l[k], NEW kind
    PROVE  Tally(new, kind, m) = Tally(l, kind, m) /\ Tally(l, kind, m) \in Nat
<1>1. WithKind(new, kind, m) = WithKind(l, kind, m)
      BY DEF WithKind
<1>2. IsFiniteSet(1 .. m)
      BY FS_Interval
<1>3. IsFiniteSet(WithKind(l, kind, m))
      BY <1>2, FS_Subset DEF WithKind
<1> QED BY <1>1, <1>3, FS_CardinalityType DEF Tally

LEMMA TallyNext ==
    ASSUME NEW l, NEW new, NEW j \in Nat, NEW m \in Nat, j < m, m <= j + 1,
           \A k \in 1 .. j : new[k] = l[k], NEW kind
    PROVE  Tally(new, kind, m) = IF new[m] = {kind} THEN Tally(l, kind, j) + 1
                                 ELSE Tally(l, kind, j)
<1> DEFINE S == WithKind(l, kind, j)
<1>1. IsFiniteSet(1 .. j)
      BY FS_Interval
<1>2. IsFiniteSet(S) /\ m \notin S
      BY <1>1, FS_Subset DEF WithKind
<1>3. CASE new[m] = {kind}
  <2>1. WithKind(new, kind, m) = S \cup {m}
        BY <1>3 DEF WithKind
  <2>2. Cardinality(S \cup {m}) = Cardinality(S) + 1
        BY <1>2, FS_AddElement
  <2> QED BY <1>3, <2>1, <2>2 DEF Tally
<1>4. CASE new[m] # {kind}
  <2>1. WithKind(new, kind, m) = S
        BY <1>4 DEF WithKind
  <2> QED BY <1>4, <2>1 DEF Tally
<1> QED BY <1>3, <1>4

\* The item goes on, and no row is written.
LEMMA GoesOn ==
    ASSUME NEW p \in Processing, NEW q \in Processing, NEW l, LogOK(p, l),
           q.i = p.i, q.counts = p.counts,
           p.at \notin {"map", "reject", "error"}, q.at \notin {"map", "reject", "error"},
           p.at \in Written <=> q.at \in Written, q.at \in Written => q.fresh = p.fresh
    PROVE  LogOK(q, l)
<1>1. Entered(q, l)
      BY DEF LogOK, Entered
<1>2. Failing(q, l)
      BY DEF LogOK, Failing
<1>3. /\ One(q.at \in Written /\ q.fresh) = One(p.at \in Written /\ p.fresh)
      /\ One(q.at \in Written /\ ~q.fresh) = One(p.at \in Written /\ ~p.fresh)
      BY DEF One
<1>4. Tallied(q, l)
      BY <1>3 DEF LogOK, Tallied
<1> QED BY <1>1, <1>2, <1>4 DEF LogOK

\* The item fails: its row is to come.
LEMMA ItemFails ==
    ASSUME NEW p \in Processing, NEW q \in Processing, NEW l, LogOK(p, l),
           q.i = p.i, q.counts.processed = p.counts.processed,
           q.counts.errors = p.counts.errors + 1,
           q.at = "error" \/ (q.at = "reject" /\ p.at = "find")
    PROVE  LogOK(q, l)
<1>1. p.counts.errors \in Nat
      BY DEF Processing, Counts
<1>2. Entered(q, l)
      BY DEF LogOK, Entered
<1>3. Failing(q, l)
      BY <1>1 DEF Failing
<1>4. Tallied(q, l)
      BY <1>1 DEF Tallied
<1> QED BY <1>2, <1>3, <1>4 DEF LogOK

\* The loop goes on to the next item.
Follows(q, p) ==
    /\ q.at \in {"find", "finish"} /\ q.i = p.i + 1
    /\ q.counts.processed = p.counts.processed + 1 /\ q.counts.created = p.counts.created
    /\ q.counts.updated = p.counts.updated /\ q.counts.errors = p.counts.errors

LEMMA EntersNext ==
    ASSUME NEW p \in Processing, NEW q \in Processing, NEW l \in Rows, NEW new \in Rows,
           LogOK(p, l), Follows(q, p), \A k \in Positions : k # p.i => new[k] = l[k]
    PROVE  Entered(q, new)
<1>1. p.i \in Nat /\ \A k \in Positions : k \in Nat
  <2>1. \A c \in Contents : DOMAIN c = 1 .. Len(c) /\ Len(c) \in Nat
        BY ConstantsAssumption
  <2>2. \A k \in Positions : \E c \in Contents : k \in DOMAIN c
        BY DEF Positions
  <2> QED BY <2>1, <2>2 DEF Processing
<1>2. p.counts.processed = p.i - 1 /\ \A k \in Positions : k > p.i => l[k] = {}
      BY DEF LogOK, Entered
<1>3. q.counts.processed = q.i - 1
      BY <1>1, <1>2 DEF Follows
<1>4. \A k \in Positions : k >= q.i => new[k] = {}
      BY <1>1, <1>2 DEF Follows
<1>5. q.i \in Nat /\ \A k \in Positions : (k > q.i => k >= q.i) /\ (k = q.i => k >= q.i)
      BY <1>1 DEF Follows
<1>6. q.at # "map"
      BY DEF Follows
<1> QED BY <1>3, <1>4, <1>5, <1>6 DEF Entered

LEMMA EndsInError ==
    ASSUME NEW p \in Processing, NEW q \in Processing, NEW l \in Rows, NEW new \in Rows,
           LogOK(p, l), Follows(q, p), p.at \in {"reject", "error"}, p.i \in Positions, p.i >= 1,
           new[p.i] = l[p.i] \cup {"error"}, \A k \in Positions : k # p.i => new[k] = l[k]
    PROVE  LogOK(q, new)
<1>1. Entered(q, new)
      BY EntersNext
<1>2. p.counts.errors > 0 /\ q.counts.errors = p.counts.errors /\ p.i \in Nat /\ q.i = p.i + 1
      BY DEF LogOK, Failing, Follows, Processing
<1>3. p.i \in 1 .. q.i - 1 /\ "error" \in new[p.i]
      BY <1>2
<1>4. Failing(q, new)
      BY <1>2, <1>3 DEF Failing, Follows
<1>5. Tallied(q, new)
      BY <1>2 DEF Tallied
<1> QED BY <1>1, <1>4, <1>5 DEF LogOK

\* An item that ends without an error has a row of one kind.
LEMMA EndsWell ==
    ASSUME NEW p \in Processing, NEW q \in Processing, NEW l \in Rows, NEW new \in Rows,
           LogOK(p, l), Follows(q, p), p.at \in {"skip", "map"}, p.i \in Positions, p.i >= 1,
           \A k \in 1 .. p.i : k \in Positions, \A k \in Positions : k # p.i => new[k] = l[k],
           new[p.i] = IF p.at = "skip" THEN {"skipped"}
                      ELSE IF p.fresh THEN {"created"} ELSE {"updated"}
    PROVE  LogOK(q, new)
<1>1. Entered(q, new)
      BY EntersNext
<1>2. /\ p.i \in Nat /\ p.i - 1 \in Nat /\ q.i = p.i + 1 /\ q.at \notin Written
      /\ q.i - 1 = p.i /\ q.counts.errors = p.counts.errors
      BY DEF Follows, Processing, Written
<1>3. \A k \in 1 .. p.i - 1 : new[k] = l[k]
  <2>1. \A k \in 1 .. p.i - 1 : k \in 1 .. p.i /\ k # p.i
        BY <1>2
  <2> QED BY <2>1
<1>4. Failing(q, new)
  <2>1. q.at \notin {"reject", "error"}
        BY DEF Follows
  <2>2. ASSUME p.counts.errors > 0 PROVE \E k \in 1 .. p.i : "error" \in new[k]
    <3>1. PICK k \in 1 .. p.i - 1 : "error" \in l[k]
          BY <2>2 DEF LogOK, Failing
    <3>2. k \in 1 .. p.i
          BY <1>2
    <3> QED BY <1>3, <3>1, <3>2
  <2> QED BY <1>2, <2>1, <2>2 DEF Failing
<1>5. ASSUME p.counts.errors = 0
      PROVE  /\ q.counts.created = Tally(new, "created", p.i)
             /\ q.counts.updated = Tally(new, "updated", p.i)
             /\ p.i = Tally(new, "created", p.i) + Tally(new, "updated", p.i)
                      + Tally(new, "skipped", p.i)
  <2> DEFINE c == Tally(l, "created", p.i - 1)
             u == Tally(l, "updated", p.i - 1)
             s == Tally(l, "skipped", p.i - 1)
             C == Tally(new, "created", p.i)
             U == Tally(new, "updated", p.i)
             S == Tally(new, "skipped", p.i)
  <2>1. c \in Nat /\ u \in Nat /\ s \in Nat
    <3>1. p.i - 1 \in Nat /\ \A k \in 1 .. p.i - 1 : l[k] = l[k]
          BY <1>2
    <3>2. \A kind : Tally(l, kind, p.i - 1) \in Nat
      <4> TAKE kind
      <4> QED BY <3>1, TallySame
    <3> QED BY <3>2
  <2>2. \A kind : Tally(new, kind, p.i) = IF new[p.i] = {kind} THEN Tally(l, kind, p.i - 1) + 1
                                         ELSE Tally(l, kind, p.i - 1)
    <3> TAKE kind
    <3> DEFINE j == p.i - 1
               m == p.i
    <3>1. m \in Nat /\ j \in Nat /\ j < m /\ m <= j + 1 /\ \A k \in 1 .. j : new[k] = l[k]
          BY <1>2, <1>3
    <3> HIDE DEF c, u, s, C, U, S, j, m
    <3>2. Tally(new, kind, m) = IF new[m] = {kind} THEN Tally(l, kind, j) + 1
                                ELSE Tally(l, kind, j)
          BY ONLY <3>1, TallyNext
    <3> QED BY <3>2 DEF j, m
  <2>3. /\ C = IF new[p.i] = {"created"} THEN c + 1 ELSE c
        /\ U = IF new[p.i] = {"updated"} THEN u + 1 ELSE u
        /\ S = IF new[p.i] = {"skipped"} THEN s + 1 ELSE s
        BY <2>2
  <2>4. /\ p.counts.created = c + One(p.at \in Written /\ p.fresh)
        /\ p.counts.updated = u + One(p.at \in Written /\ ~p.fresh)
        /\ p.i - 1 = c + u + s
        BY <1>5 DEF LogOK, Tallied
  <2> HIDE DEF c, u, s, C, U, S
  <2>5. p.counts.created = C /\ p.counts.updated = U /\ p.i = C + U + S
    <3>1. CASE p.at = "skip"
      <4>1. /\ One(p.at \in Written /\ p.fresh) = 0 /\ One(p.at \in Written /\ ~p.fresh) = 0
            /\ new[p.i] = {"skipped"}
            BY <3>1 DEF One, Written
      <4>2. C = c /\ U = u /\ S = s + 1
            BY <2>3, <4>1
      <4> QED BY <1>2, <2>1, <2>4, <4>1, <4>2
    <3>2. CASE p.at = "map" /\ p.fresh
      <4>1. /\ One(p.at \in Written /\ p.fresh) = 1 /\ One(p.at \in Written /\ ~p.fresh) = 0
            /\ new[p.i] = {"created"}
            BY <3>2 DEF One, Written
      <4>2. C = c + 1 /\ U = u /\ S = s
            BY <2>3, <4>1
      <4> QED BY <1>2, <2>1, <2>4, <4>1, <4>2
    <3>3. CASE p.at = "map" /\ ~p.fresh
      <4>1. /\ One(p.at \in Written /\ p.fresh) = 0 /\ One(p.at \in Written /\ ~p.fresh) = 1
            /\ new[p.i] = {"updated"}
            BY <3>3 DEF One, Written
      <4>2. C = c /\ U = u + 1 /\ S = s
            BY <2>3, <4>1
      <4> QED BY <1>2, <2>1, <2>4, <4>1, <4>2
    <3> QED BY <3>1, <3>2, <3>3
  <2> QED BY <2>5 DEF Follows, C, U, S
<1>6. Tallied(q, new)
  <2>1. One(q.at \in Written /\ q.fresh) = 0 /\ One(q.at \in Written /\ ~q.fresh) = 0
        BY <1>2 DEF One
  <2>2. ASSUME q.counts.errors = 0
        PROVE  /\ q.counts.created = Tally(new, "created", q.i - 1) + 0
               /\ q.counts.updated = Tally(new, "updated", q.i - 1) + 0
    <3>1. Tally(new, "created", p.i) \in Nat /\ Tally(new, "updated", p.i) \in Nat
      <4>1. \A kind : Tally(new, kind, p.i) \in Nat
        <5> TAKE kind
        <5>1. \A k \in 1 .. p.i : new[k] = new[k]
              OBVIOUS
        <5> QED BY <1>2, <5>1, TallySame
      <4> QED BY <4>1
    <3> QED BY <1>2, <1>5, <2>2, <3>1
  <2>3. q.counts.errors = 0 =>
            q.i - 1 = Tally(new, "created", q.i - 1) + Tally(new, "updated", q.i - 1)
                      + Tally(new, "skipped", q.i - 1)
        BY <1>2, <1>5
  <2> QED BY <2>1, <2>2, <2>3, Zenon DEF Tallied
<1> QED BY <1>1, <1>4, <1>6 DEF LogOK

\* The sheet of the item is written, and counted.
LEMMA ItemWritten ==
    ASSUME NEW p \in Processing, NEW q \in Processing, NEW l, LogOK(p, l),
           p.at = "write", q.at = "read", q.i = p.i, q.fresh = p.fresh,
           q.counts.processed = p.counts.processed, q.counts.errors = p.counts.errors,
           q.counts.created = p.counts.created + One(p.fresh),
           q.counts.updated = p.counts.updated + One(~p.fresh), p.i >= 1
    PROVE  LogOK(q, l)
<1>1. Entered(q, l)
      BY DEF LogOK, Entered
<1>2. Failing(q, l)
      BY DEF LogOK, Failing
<1>3. /\ One(p.at \in Written /\ p.fresh) = 0 /\ One(p.at \in Written /\ ~p.fresh) = 0
      /\ One(q.at \in Written /\ q.fresh) = One(p.fresh)
      /\ One(q.at \in Written /\ ~q.fresh) = One(~p.fresh)
      /\ One(p.fresh) \in Nat /\ One(~p.fresh) \in Nat
      BY DEF One, Written
<1>4. Tally(l, "created", p.i - 1) \in Nat /\ Tally(l, "updated", p.i - 1) \in Nat
  <2>1. p.i - 1 \in Nat /\ \A k \in 1 .. p.i - 1 : l[k] = l[k]
        BY DEF Processing
  <2>2. \A kind : Tally(l, kind, p.i - 1) \in Nat
    <3> TAKE kind
    <3> QED BY <2>1, TallySame
  <2> QED BY <2>2
<1>5. Tallied(q, l)
      BY <1>3, <1>4 DEF LogOK, Tallied
<1> QED BY <1>1, <1>2, <1>5 DEF LogOK

\* The row of the item is written; the item is not over yet.
LEMMA ItemLogged ==
    ASSUME NEW p \in Processing, NEW q \in Processing, NEW l \in Rows, NEW new \in Rows,
           LogOK(p, l), p.at = "log", q.at = "map", q.i = p.i, q.fresh = p.fresh,
           q.counts = p.counts, p.i \in Positions, p.i >= 1, \A k \in 1 .. p.i : k \in Positions,
           \A k \in Positions : k # p.i => new[k] = l[k],
           new[p.i] = l[p.i] \cup (IF p.fresh THEN {"created"} ELSE {"updated"})
    PROVE  LogOK(q, new)
<1>1. l[p.i] = {} /\ p.i \in Nat
      BY DEF LogOK, Entered, Processing
<1>2. new[p.i] = IF p.fresh THEN {"created"} ELSE {"updated"}
      BY <1>1
<1>3. \A k \in Positions : k > p.i => new[k] = {}
      BY <1>1 DEF LogOK, Entered
<1>4. Entered(q, new)
      BY <1>2, <1>3 DEF LogOK, Entered
<1>5. \A k \in 1 .. p.i - 1 : new[k] = l[k]
  <2>1. \A k \in 1 .. p.i - 1 : k \in 1 .. p.i /\ k # p.i
        BY <1>1
  <2> QED BY <2>1
<1>6. Failing(q, new)
      BY <1>5 DEF LogOK, Failing
<1>7. \A kind : Tally(new, kind, p.i - 1) = Tally(l, kind, p.i - 1)
  <2> TAKE kind
  <2>1. p.i - 1 \in Nat
        BY <1>1
  <2> QED BY <1>5, <2>1, TallySame
<1>8. /\ One(q.at \in Written /\ q.fresh) = One(p.at \in Written /\ p.fresh)
      /\ One(q.at \in Written /\ ~q.fresh) = One(p.at \in Written /\ ~p.fresh)
      BY DEF One, Written
<1>9. Tallied(q, new)
      BY <1>7, <1>8 DEF LogOK, Tallied
<1> QED BY <1>4, <1>6, <1>9 DEF LogOK

\* A run under way with the log of its items so far.
LEMMA UnderWay ==
    ASSUME LogInv, NEW n \in Runs, proc[n].at \in InItem \cup {"error"}
    PROVE  /\ TypeInv /\ proc[n] \in Processing /\ run[n] \in SyncRun /\ log[n] \in Rows
           /\ LogOK(proc[n], log[n]) /\ proc[n].i \in 1 .. Len(run[n].content)
           /\ proc[n].i \in Positions /\ proc[n].i >= 1 /\ Item(n) \in Items
           /\ \A k \in 1 .. proc[n].i : k \in Positions
<1>1. /\ TypeInv /\ proc[n] \in Processing /\ run[n] \in SyncRun /\ log[n] \in Rows
      /\ proc[n].i \in 1 .. Len(run[n].content) /\ proc[n].i \in Positions /\ Item(n) \in Items
      BY ItemTyped DEF LogInv, TypeInv, TypeOK, Rows
<1>2. LogOK(proc[n], log[n])
      BY DEF LogInv, RunOK, Busy
<1>3. Len(run[n].content) \in Nat /\ \A k \in 1 .. Len(run[n].content) : k \in Positions
      BY <1>1, ContentTyped
<1>4. proc[n].i >= 1 /\ \A k \in 1 .. proc[n].i : k \in 1 .. Len(run[n].content)
      BY <1>1, <1>3
<1> QED BY <1>1, <1>2, <1>3, <1>4

LEMMA EndItemLog ==
    ASSUME LogInv, TypeInv', NEW n \in Runs, Reject(n) \/ Skip(n) \/ Map(n) \/ LogError(n)
    PROVE  LogOK(proc'[n], log'[n])
<1> DEFINE p == proc[n]
           q == proc'[n]
           l == log[n]
           new == log'[n]
<1>1. p.at \in InItem \cup {"error"}
      BY DEF Reject, Skip, Map, LogError, InItem
<1>2. /\ TypeInv /\ p \in Processing /\ run[n] \in SyncRun /\ l \in Rows /\ LogOK(p, l)
      /\ p.i \in 1 .. Len(run[n].content) /\ p.i \in Positions /\ p.i >= 1
      /\ \A k \in 1 .. p.i : k \in Positions
      BY <1>1, UnderWay
<1>3. q \in Processing /\ new \in Rows
      BY DEF TypeInv, TypeOK, Rows
<1>4. q = NextItem(n, p)
      BY <1>2 DEF Reject, Skip, Map, LogError, ProcIs, TypeInv, TypeOK
<1>5. Follows(q, p)
      BY <1>2, <1>4, NextItemTyped DEF Follows
<1>6. ASSUME NEW kind \in Kinds, Logged(n, kind)
      PROVE  new[p.i] = l[p.i] \cup {kind} /\ \A k \in Positions : k # p.i => new[k] = l[k]
      BY <1>2, <1>6, LoggedTyped
<1>7. CASE Reject(n) \/ LogError(n)
  <2>1. Logged(n, "error") /\ "error" \in Kinds /\ p.at \in {"reject", "error"}
        BY <1>7 DEF Reject, LogError, Kinds
  <2>2. new[p.i] = l[p.i] \cup {"error"} /\ \A k \in Positions : k # p.i => new[k] = l[k]
        BY <1>6, <2>1
  <2> QED BY <1>2, <1>3, <1>5, <2>1, <2>2, EndsInError
<1>8. CASE Skip(n)
  <2>1. Logged(n, "skipped") /\ "skipped" \in Kinds /\ p.at = "skip"
        BY <1>8 DEF Skip, Kinds
  <2>2. new[p.i] = l[p.i] \cup {"skipped"} /\ \A k \in Positions : k # p.i => new[k] = l[k]
        BY <1>6, <2>1
  <2>3. l[p.i] = {}
        BY <1>2, <2>1 DEF LogOK, Entered
  <2>4. new[p.i] = IF p.at = "skip" THEN {"skipped"} ELSE IF p.fresh THEN {"created"} ELSE {"updated"}
        BY <2>1, <2>2, <2>3
  <2> QED BY <1>2, <1>3, <1>5, <2>1, <2>2, <2>4, EndsWell
<1>9. CASE Map(n)
  <2>1. new = l /\ p.at = "map"
        BY <1>9 DEF Map
  <2>2. l[p.i] = IF p.fresh THEN {"created"} ELSE {"updated"}
        BY <1>2, <2>1 DEF LogOK, Entered
  <2>3. /\ new[p.i] = IF p.at = "skip" THEN {"skipped"}
                      ELSE IF p.fresh THEN {"created"} ELSE {"updated"}
        /\ \A k \in Positions : k # p.i => new[k] = l[k]
        BY <2>1, <2>2
  <2> QED BY <1>2, <1>3, <1>5, <2>1, <2>3, EndsWell
<1> QED BY <1>7, <1>8, <1>9

LEMMA ThrowsLog ==
    ASSUME LogInv, TypeInv', NEW n \in Runs, proc[n].at \in InItem, ProcIs(n, Thrown(proc[n])),
           log' = log
    PROVE  LogOK(proc'[n], log'[n])
<1>1. /\ TypeInv /\ proc[n] \in Processing /\ run[n] \in SyncRun /\ LogOK(proc[n], log[n])
      /\ proc[n].i \in 1 .. Len(run[n].content)
      BY UnderWay
<1>2. proc'[n] = Thrown(proc[n]) /\ proc'[n] \in Processing
      BY <1>1 DEF ProcIs, TypeInv, TypeOK
<1>3. /\ proc'[n].at = "error" /\ proc'[n].i = proc[n].i
      /\ proc'[n].counts.errors = proc[n].counts.errors + 1
      /\ proc'[n].counts.processed = proc[n].counts.processed
      BY <1>1, <1>2, ThrownTyped
<1> QED BY <1>1, <1>2, <1>3, ItemFails

LEMMA FindLog ==
    ASSUME LogInv, TypeInv', NEW n \in Runs, Find(n) PROVE LogOK(proc'[n], log'[n])
<1>1. proc[n].at = "find" /\ proc[n].at \in InItem
      BY DEF Find, InItem
<1>2. TypeInv /\ proc[n] \in Processing /\ LogOK(proc[n], log[n])
      BY <1>1, UnderWay
<1>3. proc'[n] \in Processing /\ log' = log
      BY DEF Find, TypeInv, TypeOK
<1>4. \A p : ProcIs(n, p) => proc'[n] = p
      BY <1>2 DEF ProcIs, TypeInv, TypeOK
<1> DEFINE k == [proc[n].counts EXCEPT !.errors = proc[n].counts.errors + 1]
<1>5. k.errors = proc[n].counts.errors + 1 /\ k.processed = proc[n].counts.processed
      BY <1>2 DEF Processing, Counts
<1>6. CASE ~Item(n).known
  <2>1. ProcIs(n, [[proc[n] EXCEPT !.at = "reject"] EXCEPT !.counts = k])
        BY <1>2, <1>6 DEF Find, Processing
  <2> HIDE DEF k
  <2>2. proc'[n].at = "reject" /\ proc'[n].i = proc[n].i /\ proc'[n].counts = k
        BY <1>2, <1>4, <2>1 DEF Processing
  <2> QED BY <1>1, <1>2, <1>3, <1>5, <2>2, ItemFails
<1>7. CASE Item(n).known
  <2> DEFINE m == mapping[Item(n).id]
             at == IF Unchanged(n, m) THEN "skip" ELSE IF m.sheet = NoSheet THEN "match" ELSE "write"
  <2>1. at \in {"skip", "match", "write"}
        OBVIOUS
  <2>2. ProcIs(n, [[proc[n] EXCEPT !.f = m.sheet] EXCEPT !.at = at])
        BY <1>2, <1>7 DEF Find, Processing
  <2> HIDE DEF m, at
  <2>3. proc'[n].at = at /\ proc'[n].i = proc[n].i /\ proc'[n].counts = proc[n].counts
        BY <1>2, <1>4, <2>2 DEF Processing
  <2>4. /\ proc[n].at \notin Written /\ proc'[n].at \notin Written
        /\ proc[n].at \notin {"map", "reject", "error"}
        /\ proc'[n].at \notin {"map", "reject", "error"}
        BY <1>1, <2>1, <2>3 DEF Written
  <2> QED BY <1>2, <1>3, <2>3, <2>4, GoesOn
<1> QED BY <1>6, <1>7

LEMMA MatchLog ==
    ASSUME LogInv, TypeInv', NEW n \in Runs, Match(n) PROVE LogOK(proc'[n], log'[n])
<1>1. proc[n].at = "match" /\ proc[n].at \in InItem
      BY DEF Match, InItem
<1>2. TypeInv /\ proc[n] \in Processing /\ LogOK(proc[n], log[n])
      BY <1>1, UnderWay
<1>3. proc'[n] \in Processing /\ log' = log
      BY DEF Match, TypeInv, TypeOK
<1>4. \A p : ProcIs(n, p) => proc'[n] = p
      BY <1>2 DEF ProcIs, TypeInv, TypeOK
<1>5. \/ ProcIs(n, [proc[n] EXCEPT !.at = "write", !.fresh = TRUE])
      \/ \E f \in Ids : ProcIs(n, [proc[n] EXCEPT !.at = "write", !.f = f])
      BY DEF Match
<1>6. proc'[n].at = "write" /\ proc'[n].i = proc[n].i /\ proc'[n].counts = proc[n].counts
      BY <1>2, <1>4, <1>5 DEF Processing
<1>7. /\ proc[n].at \notin Written /\ proc'[n].at \notin Written
      /\ proc[n].at \notin {"map", "reject", "error"}
      /\ proc'[n].at \notin {"map", "reject", "error"}
      BY <1>1, <1>6 DEF Written
<1> QED BY <1>2, <1>3, <1>6, <1>7, GoesOn

LEMMA WrittenLog ==
    ASSUME LogInv, TypeInv', NEW n \in Runs, Create(n) \/ Update(n)
    PROVE  LogOK(proc'[n], log'[n])
<1>1. proc[n].at = "write" /\ proc[n].at \in InItem /\ log' = log
      BY DEF Create, Update, InItem
<1>2. TypeInv /\ proc[n] \in Processing /\ LogOK(proc[n], log[n]) /\ proc[n].i >= 1
      BY <1>1, UnderWay
<1>3. proc'[n] \in Processing /\ proc[n].counts \in Counts
      BY <1>2 DEF TypeInv, TypeOK, Processing
<1>4. /\ proc'[n].at = "read" /\ proc'[n].i = proc[n].i /\ proc'[n].fresh = proc[n].fresh
      /\ proc'[n].counts.processed = proc[n].counts.processed
      /\ proc'[n].counts.errors = proc[n].counts.errors
      BY <1>2, SheetWritten
<1>5. /\ proc'[n].counts.created = proc[n].counts.created + One(proc[n].fresh)
      /\ proc'[n].counts.updated = proc[n].counts.updated + One(~proc[n].fresh)
  <2>1. CASE Create(n)
    <3>1. One(proc[n].fresh) = 1 /\ One(~proc[n].fresh) = 0
          BY <2>1 DEF Create, One
    <3>2. /\ proc'[n].counts.created = proc[n].counts.created + 1
          /\ proc'[n].counts.updated = proc[n].counts.updated
          BY <1>2, <2>1, SheetWritten
    <3> QED BY <1>3, <3>1, <3>2 DEF Counts
  <2>2. CASE Update(n)
    <3>1. One(proc[n].fresh) = 0 /\ One(~proc[n].fresh) = 1
          BY <2>2 DEF Update, One
    <3>2. /\ proc'[n].counts.updated = proc[n].counts.updated + 1
          /\ proc'[n].counts.created = proc[n].counts.created
          BY <1>2, <2>2, SheetWritten
    <3> QED BY <1>3, <3>1, <3>2 DEF Counts
  <2> QED BY <2>1, <2>2
<1> QED BY <1>1, <1>2, <1>3, <1>4, <1>5, ItemWritten

LEMMA AttributesLog ==
    ASSUME LogInv, TypeInv', NEW n \in Runs,
           ReadValues(n) \/ (\E a \in Attrs : Put(n, a) \/ Cut(n, a))
    PROVE  LogOK(proc'[n], log'[n])
<1>1. /\ proc[n].at \in {"read", "put", "cut"} /\ proc[n].at \in InItem
      /\ proc[n].at \in Fetched /\ log' = log
      BY DEF ReadValues, Put, Cut, InItem, Fetched
<1>2. /\ TypeInv /\ proc[n] \in Processing /\ run[n] \in SyncRun /\ LogOK(proc[n], log[n])
      /\ proc[n].i \in 1 .. Len(run[n].content) /\ Item(n) \in Items
      BY <1>1, UnderWay
<1>3. proc'[n] \in Processing /\ proc[n].f \in Ids
      BY <1>1, <1>2 DEF TypeInv, TypeOK, PlaceOK
<1>4. \A p : ProcIs(n, p) => proc'[n] = p
      BY <1>2 DEF ProcIs, TypeInv, TypeOK
<1>5. ASSUME NEW p \in Processing, p.i = proc[n].i, p.f = proc[n].f, p.fresh = proc[n].fresh,
             p.counts = proc[n].counts, ProcIs(n, Onward(p))
      PROVE  LogOK(proc'[n], log'[n])
  <2>1. /\ proc'[n].at \in {"put", "cut", "count"} /\ proc'[n].i = proc[n].i
        /\ proc'[n].fresh = proc[n].fresh /\ proc'[n].counts = proc[n].counts
        BY <1>2, <1>3, <1>4, <1>5, OnwardTyped
  <2>2. /\ proc[n].at \in Written /\ proc'[n].at \in Written
        /\ proc[n].at \notin {"map", "reject", "error"}
        /\ proc'[n].at \notin {"map", "reject", "error"}
        BY <1>1, <2>1 DEF Written
  <2> QED BY <1>1, <1>2, <1>3, <2>1, <2>2, GoesOn
<1>6. CASE ReadValues(n)
  <2> DEFINE put == Given(n)
             cut == IF Full(n) THEN Values(proc[n].f) \ Item(n).data ELSE {}
             p == [proc[n] EXCEPT !.put = put, !.cut = cut]
  <2>1. put \subseteq Attrs /\ cut \subseteq Attrs
        BY <1>2, <1>3, SheetTyped DEF TypeInv, Given, Items
  <2>2. ProcIs(n, Onward(p))
        BY <1>6 DEF ReadValues
  <2> HIDE DEF put, cut
  <2>3. /\ p \in Processing /\ p.i = proc[n].i /\ p.f = proc[n].f /\ p.fresh = proc[n].fresh
        /\ p.counts = proc[n].counts
        BY <1>2, <2>1 DEF Processing
  <2> HIDE DEF p
  <2> QED BY <1>5, <2>2, <2>3
<1>7. ASSUME NEW a \in Attrs, Put(n, a) PROVE LogOK(proc'[n], log'[n])
  <2> DEFINE p == [proc[n] EXCEPT !.put = proc[n].put \ {a}]
  <2>1. ProcIs(n, Onward(p))
        BY <1>2, <1>7 DEF Put, Processing
  <2>2. /\ p \in Processing /\ p.i = proc[n].i /\ p.f = proc[n].f /\ p.fresh = proc[n].fresh
        /\ p.counts = proc[n].counts
        BY <1>2 DEF Processing
  <2> HIDE DEF p
  <2> QED BY <1>5, <2>1, <2>2
<1>8. ASSUME NEW a \in Attrs, Cut(n, a) PROVE LogOK(proc'[n], log'[n])
  <2> DEFINE p == [proc[n] EXCEPT !.cut = proc[n].cut \ {a}]
  <2>1. ProcIs(n, Onward(p))
        BY <1>2, <1>8 DEF Cut, Processing
  <2>2. /\ p \in Processing /\ p.i = proc[n].i /\ p.f = proc[n].f /\ p.fresh = proc[n].fresh
        /\ p.counts = proc[n].counts
        BY <1>2 DEF Processing
  <2> HIDE DEF p
  <2> QED BY <1>5, <2>1, <2>2
<1> QED BY <1>6, <1>7, <1>8

LEMMA CompletionLog ==
    ASSUME LogInv, TypeInv', NEW n \in Runs, Count(n) \/ Store(n) \/ LogItem(n)
    PROVE  LogOK(proc'[n], log'[n])
<1>1. proc[n].at \in {"count", "store", "log"} /\ proc[n].at \in InItem
      BY DEF Count, Store, LogItem, InItem
<1>2. /\ TypeInv /\ proc[n] \in Processing /\ LogOK(proc[n], log[n]) /\ log[n] \in Rows
      /\ proc[n].i \in Positions /\ proc[n].i >= 1 /\ \A k \in 1 .. proc[n].i : k \in Positions
      BY <1>1, UnderWay
<1>3. proc'[n] \in Processing /\ log'[n] \in Rows
      BY DEF TypeInv, TypeOK, Rows
<1>4. /\ Count(n) => proc'[n].at = "store"
      /\ Store(n) => proc'[n].at = "log"
      /\ LogItem(n) => proc'[n].at = "map"
      /\ proc'[n].i = proc[n].i /\ proc'[n].fresh = proc[n].fresh
      /\ proc'[n].counts = proc[n].counts
  <2>1. CASE Count(n)
    <3>1. proc'[n] = [proc[n] EXCEPT !.at = "store", !.filled = Values(proc[n].f)]
          BY <1>2, <2>1 DEF Count, ProcIs, TypeInv, TypeOK
    <3>2. ~Store(n) /\ ~LogItem(n)
          BY <2>1 DEF Count, Store, LogItem
    <3> QED BY <1>2, <3>1, <3>2 DEF Processing
  <2>2. CASE Store(n)
    <3>1. proc'[n] = [proc[n] EXCEPT !.at = "log"]
          BY <1>2, <2>2 DEF Store, ProcAt, TypeInv, TypeOK
    <3>2. ~Count(n) /\ ~LogItem(n)
          BY <2>2 DEF Count, Store, LogItem
    <3> QED BY <1>2, <3>1, <3>2 DEF Processing
  <2>3. CASE LogItem(n)
    <3>1. proc'[n] = [proc[n] EXCEPT !.at = "map"]
          BY <1>2, <2>3 DEF LogItem, ProcAt, TypeInv, TypeOK
    <3>2. ~Count(n) /\ ~Store(n)
          BY <2>3 DEF Count, Store, LogItem
    <3> QED BY <1>2, <3>1, <3>2 DEF Processing
  <2> QED BY <2>1, <2>2, <2>3
<1>5. CASE Count(n) \/ Store(n)
  <2>1. log' = log /\ proc'[n].at \in {"store", "log"}
        BY <1>4, <1>5 DEF Count, Store
  <2>2. /\ proc[n].at \in Written /\ proc'[n].at \in Written
        /\ proc[n].at \notin {"map", "reject", "error"}
        /\ proc'[n].at \notin {"map", "reject", "error"}
        BY <1>1, <2>1 DEF Written
  <2> QED BY <1>2, <1>3, <1>4, <2>1, <2>2, GoesOn
<1>6. CASE LogItem(n)
  <2> DEFINE kind == IF proc[n].fresh THEN "created" ELSE "updated"
  <2>1. Logged(n, kind) /\ kind \in Kinds /\ proc[n].at = "log"
        BY <1>6 DEF LogItem, Kinds
  <2>2. /\ log'[n][proc[n].i] = log[n][proc[n].i] \cup {kind}
        /\ \A k \in Positions : k # proc[n].i => log'[n][k] = log[n][k]
        BY <1>2, <2>1, LoggedTyped
  <2>3. log'[n][proc[n].i] = log[n][proc[n].i] \cup (IF proc[n].fresh THEN {"created"} ELSE {"updated"})
        BY <2>2
  <2> HIDE DEF kind
  <2> QED BY <1>2, <1>3, <1>4, <1>6, <2>1, <2>2, <2>3, ItemLogged
<1> QED BY <1>5, <1>6

\* The row of a run under way tells nothing yet.
LEMMA StillUntold ==
    ASSUME NEW p, NEW r \in SyncRun, NEW l, RunOK(p, r, l), p.at \in Statements,
           NEW q, NEW new, q.at \in Busy => LogOK(q, new)
    PROVE  RunOK(q, r, new)
<1>1. r.status \in {"CREATED", "RUNNING"} /\ r.counts.processed = 0
      BY DEF RunOK
<1>2. r # NoRun
      BY <1>1 DEF NoRun
<1>3. Told(r, new)
      BY <1>1 DEF Told
<1> QED BY <1>1, <1>2, <1>3 DEF RunOK

LEMMA OthersTell ==
    ASSUME LogInv, TypeInv', NEW n \in Runs, RunOK(proc'[n], run'[n], log'[n]),
           \A k \in Runs : k # n => /\ proc'[k] = proc[k] /\ run'[k] = run[k]
                                    /\ log'[k] = log[k]
    PROVE  LogInv'
<1>1. \A k \in Runs : RunOK(proc'[k], run'[k], log'[k])
  <2> TAKE k \in Runs
  <2>1. CASE k = n
        BY <2>1
  <2>2. CASE k # n
    <3>1. RunOK(proc[k], run[k], log[k])
          BY DEF LogInv
    <3> QED BY <2>2, <3>1
  <2> QED BY <2>1, <2>2
<1> QED BY <1>1 DEF LogInv, RunOK, LogOK, Entered, Failing, Tallied, Told, Tally, WithKind

LEMMA ItemTells ==
    ASSUME LogInv, TypeInv', NEW n \in Runs, ProcessItem(n) \/ LogError(n)
    PROVE  LogInv'
<1>1. Process(n) /\ TypeInv
      BY DEF Process, LogInv
<1>2. run' = run
      BY DEF ProcessItem, LogError, Find, Reject, Match, Orphaned, Skip, Create, Update,
             ReadValues, Put, Cut, CutNothing, Count, Store, LogItem, Map
<1>3. log' = log \/ \E kind : Logged(n, kind)
      BY DEF ProcessItem, LogError, Find, Reject, Match, Orphaned, Skip, Create, Update,
             ReadValues, Put, Cut, CutNothing, Count, Store, LogItem, Map
<1>4. \A k \in Runs : k # n => log'[k] = log[k]
      BY <1>1, <1>3 DEF Logged, TypeInv, TypeOK
<1>5. LogOK(proc'[n], log'[n])
  <2>1. CASE Orphaned(n) \/ (\E a \in Attrs : CutNothing(n, a))
    <3>1. proc[n].at \in InItem /\ ProcIs(n, Thrown(proc[n])) /\ log' = log
          BY <2>1 DEF Orphaned, CutNothing, InItem
    <3> QED BY <3>1, ThrowsLog
  <2> QED BY <2>1, EndItemLog, FindLog, MatchLog, WrittenLog, AttributesLog, CompletionLog
          DEF ProcessItem
<1>6. Active(n) /\ \A k \in Runs : k # n => proc'[k] = proc[k]
      BY <1>1, OneMoves
<1>7. run[n] \in SyncRun /\ proc[n].at \in Statements /\ RunOK(proc[n], run[n], log[n])
      BY <1>1, <1>6 DEF Active, LogInv, TypeInv, PlaceOK
<1>8. RunOK(proc'[n], run[n], log'[n])
      BY <1>5, <1>7, StillUntold
<1> QED BY <1>2, <1>4, <1>6, <1>8, OthersTell

LEMMA MarkRunningTells ==
    ASSUME LogInv, TypeInv', NEW n \in Runs, MarkRunning(n) PROVE LogInv'
<1>1. /\ TypeInv /\ proc[n].at = "running" /\ proc[n].at \in Statements /\ Process(n)
      /\ proc[n].at \in Busy /\ log' = log
      BY DEF MarkRunning, LogInv, Statements, Process, Busy
<1>2. /\ run[n] \in SyncRun /\ proc[n] \in Processing /\ RunOK(proc[n], run[n], log[n])
      /\ LogOK(proc[n], log[n])
      BY <1>1 DEF LogInv, RunOK, TypeInv, TypeOK, PlaceOK
<1>3. \A k \in Runs : k # n => proc'[k] = proc[k]
      BY <1>1, OneMoves
<1>4. run' = [run EXCEPT ![n].status = "RUNNING"] /\ run \in [Runs -> {NoRun} \cup SyncRun]
      BY <1>1 DEF MarkRunning, TypeInv, TypeOK
<1>5. /\ \A k \in Runs : k # n => run'[k] = run[k]
      /\ run'[n].status = "RUNNING" /\ run'[n].counts = run[n].counts
      BY <1>2, <1>4 DEF SyncRun
<1>6. /\ proc'[n].at \in {"find", "finish"} /\ proc'[n].i = proc[n].i
      /\ proc'[n].counts = proc[n].counts
  <2> DEFINE at == Iteration(n, 1)
  <2>1. at \in {"find", "finish"}
        BY DEF Iteration
  <2>2. proc'[n] = [proc[n] EXCEPT !.at = at]
        BY <1>1, <1>2 DEF MarkRunning, ProcAt, TypeInv, TypeOK
  <2> HIDE DEF at
  <2> QED BY <1>2, <2>1, <2>2 DEF Processing
<1>7. proc'[n] \in Processing
      BY DEF TypeInv, TypeOK
<1>8. /\ proc[n].at \notin Written /\ proc'[n].at \notin Written
      /\ proc[n].at \notin {"map", "reject", "error"}
      /\ proc'[n].at \notin {"map", "reject", "error"}
      BY <1>1, <1>6 DEF Written
<1>9. LogOK(proc'[n], log[n])
      BY <1>2, <1>6, <1>7, <1>8, GoesOn
<1>10. run[n].counts.processed = 0
       BY <1>1, <1>2 DEF RunOK
<1>11. run'[n] # NoRun /\ Told(run'[n], log[n])
       BY <1>5 DEF NoRun, Told
<1>12. RunOK(proc'[n], run'[n], log'[n])
       BY <1>1, <1>5, <1>9, <1>10, <1>11 DEF RunOK
<1> QED BY <1>1, <1>3, <1>5, <1>12, OthersTell

LEMMA MarkFinishedTells ==
    ASSUME LogInv, TypeInv', NEW n \in Runs, MarkFinished(n) PROVE LogInv'
<1> DEFINE p == proc[n]
           l == log[n]
           len == Len(run[n].content)
<1>1. /\ TypeInv /\ p.at = "finish" /\ p.at \in Statements /\ Process(n) /\ p.at \in Busy
      /\ log' = log
      BY DEF MarkFinished, LogInv, Statements, Process, Busy
<1>2. run[n] \in SyncRun /\ p \in Processing /\ LogOK(p, l) /\ p.counts \in Counts
      BY <1>1 DEF LogInv, RunOK, TypeInv, TypeOK, PlaceOK, Processing
<1>3. \A k \in Runs : k # n => proc'[k] = proc[k]
      BY <1>1, OneMoves
<1>4. /\ run' = [run EXCEPT ![n].status = Result(p.counts), ![n].counts = p.counts]
      /\ run \in [Runs -> {NoRun} \cup SyncRun]
      BY <1>1 DEF MarkFinished, TypeInv, TypeOK
<1>5. /\ \A k \in Runs : k # n => run'[k] = run[k]
      /\ run'[n].status = Result(p.counts) /\ run'[n].counts = p.counts
      /\ run'[n].content = run[n].content
      BY <1>2, <1>4 DEF SyncRun
<1>6. proc'[n].at = "ended"
      BY <1>1, <1>2 DEF MarkFinished, ProcAt, TypeInv, TypeOK, Processing
<1>7. p.i = len + 1 /\ len \in Nat
      BY <1>1, <1>2, ContentTyped DEF TypeInv, PlaceOK
<1>8. p.i - 1 = len /\ p.counts.processed = len
      BY <1>2, <1>7 DEF LogOK, Entered
<1>9. ASSUME p.counts.errors = 0
      PROVE  /\ p.counts.created = Tally(l, "created", len)
             /\ p.counts.updated = Tally(l, "updated", len)
             /\ len = p.counts.created + p.counts.updated + Tally(l, "skipped", len)
  <2>1. One(p.at \in Written /\ p.fresh) = 0 /\ One(p.at \in Written /\ ~p.fresh) = 0
        BY <1>1 DEF One, Written
  <2>2. /\ p.counts.created = Tally(l, "created", p.i - 1) + One(p.at \in Written /\ p.fresh)
        /\ p.counts.updated = Tally(l, "updated", p.i - 1) + One(p.at \in Written /\ ~p.fresh)
        /\ p.i - 1 = Tally(l, "created", p.i - 1) + Tally(l, "updated", p.i - 1)
                     + Tally(l, "skipped", p.i - 1)
        BY <1>2, <1>9 DEF LogOK, Tallied
  <2>3. \A kind : Tally(l, kind, len) \in Nat
    <3> TAKE kind
    <3>1. \A k \in 1 .. len : l[k] = l[k]
          OBVIOUS
    <3> QED BY <1>7, <3>1, TallySame
  <2>4. Tally(l, "created", len) \in Nat /\ Tally(l, "updated", len) \in Nat
        BY <2>3
  <2> QED BY <1>8, <2>1, <2>2, <2>4
<1>10. p.counts.errors > 0 => \E k \in 1 .. len : "error" \in l[k]
       BY <1>1, <1>2, <1>8 DEF LogOK, Failing
<1>11. /\ Result(p.counts) = "FINISHED" => p.counts.errors = 0
       /\ Result(p.counts) = "FAILED" => p.counts.errors > 0
       BY <1>2 DEF Result, Counts
<1>12. Told(run'[n], l)
       BY <1>5, <1>8, <1>9, <1>10, <1>11 DEF Told
<1>13. run'[n] # NoRun
       BY <1>5 DEF NoRun, Result
<1>14. RunOK(proc'[n], run'[n], log'[n])
       BY <1>1, <1>6, <1>12, <1>13 DEF RunOK, Statements, Busy, InItem
<1> QED BY <1>1, <1>3, <1>5, <1>14, OthersTell

LEMMA MarkFailedTells ==
    ASSUME LogInv, TypeInv', NEW n \in Runs, MarkFailed(n) PROVE LogInv'
<1>1. /\ TypeInv /\ proc[n].at = "fail" /\ proc[n].at \in Statements /\ Process(n) /\ log' = log
      BY DEF MarkFailed, LogInv, Statements, Process
<1>2. /\ run[n] \in SyncRun /\ proc[n] \in Processing /\ run[n].counts \in Counts
      /\ run[n].counts.processed = 0
      BY <1>1 DEF LogInv, RunOK, TypeInv, TypeOK, PlaceOK, SyncRun
<1>3. \A k \in Runs : k # n => proc'[k] = proc[k]
      BY <1>1, OneMoves
<1>4. /\ run' = [run EXCEPT ![n].status = "FAILED", ![n].counts.errors = 1]
      /\ run \in [Runs -> {NoRun} \cup SyncRun]
      BY <1>1 DEF MarkFailed, TypeInv, TypeOK
<1>5. /\ \A k \in Runs : k # n => run'[k] = run[k]
      /\ run'[n].status = "FAILED" /\ run'[n].counts.processed = 0
      BY <1>2, <1>4 DEF SyncRun, Counts
<1>6. proc'[n].at = "ended"
      BY <1>1, <1>2 DEF MarkFailed, ProcAt, TypeInv, TypeOK, Processing
<1>7. run'[n] # NoRun /\ Told(run'[n], log[n])
      BY <1>5 DEF NoRun, Told
<1>8. RunOK(proc'[n], run'[n], log'[n])
      BY <1>1, <1>6, <1>7 DEF RunOK, Statements, Busy, InItem
<1> QED BY <1>1, <1>3, <1>5, <1>8, OthersTell

\* The run is aborted: no row is written any more.
LEMMA AbortTells ==
    ASSUME LogInv, TypeInv', NEW n \in Runs, NEW label \in {"abort", "fail"}, ProcAt(n, label),
           proc[n].at \in Statements, UNCHANGED <<run, log>>
    PROVE  LogInv'
<1>1. proc[n] \in Processing /\ proc \in [Runs -> Processing]
      BY DEF LogInv, TypeInv, TypeOK
<1>2. proc'[n].at = label /\ \A k \in Runs : k # n => proc'[k] = proc[k]
      BY <1>1 DEF ProcAt, Processing
<1>3. run[n] \in SyncRun /\ RunOK(proc[n], run[n], log[n])
      BY DEF LogInv, TypeInv, PlaceOK
<1>4. proc'[n].at \notin Busy
      BY <1>2 DEF Busy, InItem
<1>5. RunOK(proc'[n], run'[n], log'[n])
      BY <1>3, <1>4, StillUntold
<1> QED BY <1>2, <1>5, OthersTell

LEMMA DieTells == ASSUME LogInv, TypeInv', Die, UNCHANGED <<run, log>> PROVE LogInv'
<1>1. ASSUME NEW k \in Runs PROVE RunOK(proc'[k], run'[k], log'[k])
  <2>1. RunOK(proc[k], run[k], log[k])
        BY DEF LogInv
  <2>2. CASE ~Active(k)
    <3>1. proc'[k] = proc[k]
          BY <2>2 DEF Die
    <3> QED BY <2>1, <3>1
  <2>3. CASE Active(k)
    <3>1. proc'[k].at = "lost"
          BY <2>3 DEF Die, Idle
    <3>2. run[k] \in SyncRun /\ proc[k].at \in Statements
          BY <2>3 DEF Active, LogInv, TypeInv, PlaceOK
    <3>3. proc'[k].at \notin Busy
          BY <3>1 DEF Busy, InItem
    <3> QED BY <2>1, <3>2, <3>3, StillUntold
  <2> QED BY <2>2, <2>3
<1> QED BY <1>1 DEF LogInv, RunOK, LogOK, Entered, Failing, Tallied, Told, Tally, WithKind

LEMMA FaultTells ==
    ASSUME LogInv, TypeInv', Crash \/ (\E n \in Runs : StatementFails(n)) PROVE LogInv'
<1>1. UNCHANGED <<run, log>>
      BY DEF Crash, StatementFails
<1>2. CASE Crash
      BY <1>1, <1>2, DieTells DEF Crash
<1>3. ASSUME NEW n \in Runs, StatementFails(n) PROVE LogInv'
  <2>1. CASE proc[n].at \in InItem /\ ProcIs(n, Thrown(proc[n]))
    <3>1. LogOK(proc'[n], log'[n])
          BY <1>1, <2>1, ThrowsLog
    <3>2. /\ proc[n].at \in Statements /\ run[n] \in SyncRun /\ RunOK(proc[n], run[n], log[n])
          /\ proc \in [Runs -> Processing]
          BY <2>1 DEF Statements, LogInv, TypeInv, TypeOK, PlaceOK
    <3>3. RunOK(proc'[n], run[n], log'[n])
          BY <3>1, <3>2, StillUntold
    <3>4. \A k \in Runs : k # n => proc'[k] = proc[k]
          BY <2>1, <3>2 DEF ProcIs
    <3> QED BY <1>1, <3>3, <3>4, OthersTell
  <2>2. CASE proc[n].at \in {"running", "error", "finish"} /\ ProcAt(n, "abort")
    <3>1. proc[n].at \in Statements
          BY <2>2 DEF Statements
    <3> QED BY <1>1, <2>2, <3>1, AbortTells
  <2>3. CASE Die
        BY <1>1, <2>3, DieTells
  <2> QED BY <1>3, <2>1, <2>2, <2>3 DEF StatementFails
<1> QED BY <1>2, <1>3

\* The beginning of a run, whose log is empty.
LEMMA NothingYet ==
    ASSUME NEW p, p.at \notin {"map", "reject", "error"}, p.at \notin Written,
           p.i = 1, p.counts = Zero, NEW l, \A k \in Positions : l[k] = {}
    PROVE  LogOK(p, l)
<1>1. /\ p.counts.processed = 0 /\ p.counts.errors = 0
      /\ p.counts.created = 0 /\ p.counts.updated = 0
      BY DEF Zero
<1>2. Entered(p, l) /\ Failing(p, l)
      BY <1>1 DEF Entered, Failing
<1>3. \A kind : Tally(l, kind, p.i - 1) = 0
  <2> TAKE kind
  <2>1. WithKind(l, kind, p.i - 1) = {}
        BY DEF WithKind
  <2> QED BY <2>1, FS_EmptySet DEF Tally
<1>4. One(p.at \in Written /\ p.fresh) = 0 /\ One(p.at \in Written /\ ~p.fresh) = 0
      BY DEF One
<1>5. Tallied(p, l)
      BY <1>1, <1>3, <1>4 DEF Tallied
<1> QED BY <1>2, <1>5 DEF LogOK

LEMMA StartTells ==
    ASSUME LogInv, TypeInv', NEW n \in Runs, NEW mode, NEW c, Start(n, mode, c) PROVE LogInv'
<1>1. log' = log /\ TypeInv /\ run[n] = NoRun
      BY DEF Start, LogInv
<1>2. /\ \A k \in Runs : k # n => proc'[k] = proc[k] /\ run'[k] = run[k]
      /\ run'[n] = Row("CREATED", mode, c, Zero) /\ proc'[n] = [Idle EXCEPT !.at = "running"]
      BY <1>1 DEF Start, TypeInv, TypeOK
<1>3. proc'[n].at = "running" /\ proc'[n].i = 1 /\ proc'[n].counts = Zero
      BY <1>2 DEF Idle
<1>4. run'[n].status = "CREATED" /\ run'[n].counts.processed = 0
      BY <1>2 DEF Row, Zero
<1>5. \A k \in Positions : log[n][k] = {}
      BY <1>1 DEF LogInv, RunOK
<1>6. LogOK(proc'[n], log[n])
      BY <1>3, <1>5, NothingYet DEF Written
<1>7. run'[n] # NoRun /\ Told(run'[n], log[n])
      BY <1>4 DEF NoRun, Told
<1>8. RunOK(proc'[n], run'[n], log'[n])
      BY <1>1, <1>4, <1>6, <1>7 DEF RunOK
<1> QED BY <1>1, <1>2, <1>8, OthersTell

LEMMA LogInit == Init => LogInv
<1> SUFFICES ASSUME Init PROVE LogInv
    OBVIOUS
<1>1. ASSUME NEW n \in Runs PROVE RunOK(proc[n], run[n], log[n])
  <2>1. proc[n] = Idle /\ run[n] = NoRun /\ \A k \in Positions : log[n][k] = {}
        BY DEF Init
  <2>2. proc[n].at = "none" /\ run[n].status = "none"
        BY <2>1 DEF Idle, NoRun
  <2>3. proc[n].at \notin Statements /\ proc[n].at \notin Busy
        BY <2>2 DEF Statements, Busy, InItem
  <2>4. Told(run[n], log[n])
        BY <2>2 DEF Told
  <2> QED BY <2>1, <2>3, <2>4 DEF RunOK
<1> QED BY <1>1, InitTyped DEF LogInv

LEMMA LogNext == LogInv /\ [Next]_vars => LogInv'
<1> SUFFICES ASSUME LogInv, [Next]_vars PROVE LogInv'
    OBVIOUS
<1>1. TypeInv'
      BY NextTyped DEF LogInv
<1>2. ASSUME UNCHANGED <<run, log, proc>> PROVE LogInv'
  <2>1. \A n \in Runs : RunOK(proc'[n], run'[n], log'[n])
        BY <1>2 DEF LogInv
  <2> QED BY <1>1, <2>1
          DEF LogInv, RunOK, LogOK, Entered, Failing, Tallied, Told, Tally, WithKind
<1>3. ASSUME NEW n \in Runs, Process(n) PROVE LogInv'
  <2>1. CASE LogAbort(n)
    <3>1. ProcAt(n, "fail") /\ proc[n].at \in Statements /\ UNCHANGED <<run, log>>
          BY <2>1 DEF LogAbort, Statements
    <3> QED BY <1>1, <3>1, AbortTells
  <2> QED BY <1>1, <1>3, <2>1, ItemTells, MarkRunningTells, MarkFinishedTells, MarkFailedTells
          DEF Process
<1>4. ASSUME NEW f \in Ids, Delete(f) PROVE LogInv'
      BY <1>2, <1>4 DEF Delete
<1>5. CASE UNCHANGED vars
      BY <1>2, <1>5 DEF vars
<1> QED BY <1>1, <1>3, <1>4, <1>5, FaultTells, StartTells DEF Next

\* The counts that a run reports are those of the rows in its log, and a failed
\* run that got to its end has logged an error.
THEOREM LogsTell == Spec => []LogsTellResult
<1>1. LogInv => LogsTellResult
  <2> SUFFICES ASSUME LogInv, NEW n \in Runs,
                      run[n].status = "FINISHED" \/ run[n].status = "FAILED"
               PROVE  /\ DOMAIN run[n].content = 1 .. Len(run[n].content)
                      /\ Told(run[n], log[n])
      BY DEF LogsTellResult, Told, Tally, WithKind
  <2>1. run[n] # NoRun
        BY DEF NoRun
  <2>2. run[n] \in SyncRun
        BY <2>1 DEF LogInv, TypeInv, TypeOK
  <2> QED BY <2>2, ContentTyped DEF LogInv, RunOK
<1>2. Spec => []LogInv
      BY LogInit, LogNext, PTL DEF Spec
<1> QED BY <1>1, <1>2, PTL


-----------------------------------------------------------------------------
(* A run that finishes undisturbed has persisted its items                 *)

\* Nothing has disturbed the runs: each was alone, and nobody deleted a sheet.
Undisturbed == overlaps = 0 /\ deletes = 0 /\ faults = 0

\* A mapped sheet is there, and it is its record's.
Sound(r) ==
    mapping[r].sheet # NoSheet =>
        Exists(mapping[r].sheet) /\ sheet[mapping[r].sheet].record = r

AppliesTo(n, r) == proc[n].at \in Applying /\ Item(n).id = r

\* It has the data of the stored hash, but while a run works on it.
Settled(r) ==
    mapping[r].sheet # NoSheet =>
        \/ mapping[r].hash \subseteq sheet[mapping[r].sheet].vals
        \/ \E n \in Runs : AppliesTo(n, r)

\* A sheet has the record of the item that created it.
Origin(f) ==
    Exists(f) => /\ run[f[1]] \in SyncRun /\ f[2] \in DOMAIN run[f[1]].content
                 /\ sheet[f].record = run[f[1]].content[f[2]].id

\* The run under way is the newest, and it has no result yet; runs are started
\* in their order.
Latest(n) ==
    /\ Active(n) \/ run[n] = NoRun => \A k \in Runs : k > n => run[k] = NoRun
    /\ Active(n) => run[n].status # "FINISHED"

\* What the item of run n has found out and what is left to do for it.
HasSheet(n) == proc[n].at \in Fetched \/ (proc[n].at = "write" /\ ~proc[n].fresh)
ItemOK(n) ==
    /\ proc[n].at \notin {"error", "abort", "fail"}
    /\ proc[n].at \in InItem \ {"find", "reject"} => Item(n).known
    /\ proc[n].at = "reject" => ~Item(n).known
    /\ HasSheet(n) => Exists(proc[n].f) /\ sheet[proc[n].f].record = Item(n).id
    /\ proc[n].at = "skip" =>
          /\ proc[n].f = mapping[Item(n).id].sheet /\ Item(n).data = mapping[Item(n).id].hash
          /\ ~Full(n)
    /\ proc[n].at = "put" => proc[n].put \subseteq Item(n).data
    /\ proc[n].at \in {"put", "cut"} => proc[n].cut \subseteq sheet[proc[n].f].vals
    /\ proc[n].at \in {"put", "cut"} /\ Full(n) =>
          sheet[proc[n].f].vals \subseteq Item(n).data \cup proc[n].cut
    /\ proc[n].at \in Applying \ {"put", "cut"} /\ Full(n) =>
          sheet[proc[n].f].vals \subseteq Item(n).data

\* Item i of run n is in its sheet.
Has(n, i) ==
    LET item == run[n].content[i]
        f == mapping[item.id].sheet
    IN  /\ f \in Ids /\ Exists(f)
        /\ item.data \subseteq sheet[f].vals
        /\ Full(n) => item.data = sheet[f].vals

\* One of the items up to m gives the record of item i other data.
Superseded(n, i, m) ==
    \E k \in DOMAIN run[n].content :
        k > i /\ k <= m /\ run[n].content[k].known /\ run[n].content[k].id = run[n].content[i].id

\* The items before m are in their sheets.
Until(n, m) ==
    \A i \in DOMAIN run[n].content :
        i < m /\ run[n].content[i].known => Superseded(n, i, m) \/ Has(n, i)

ItemsInv ==
    /\ \A r \in Records : Sound(r) /\ Settled(r)
    /\ \A f \in Ids : Origin(f)
    /\ \A n \in Runs : Latest(n) /\ ItemOK(n)
    /\ \A n \in Runs : /\ Active(n) => Until(n, proc[n].i)
                       /\ Newest(n) => Until(n, Len(run[n].content) + 1)

Calm == AppliedInv /\ SheetsInv /\ Undisturbed /\ ItemsInv

\* The run that takes a step is alone.
LEMMA OneRuns ==
    ASSUME Calm, NEW n \in Runs, Process(n)
    PROVE  /\ Active(n) /\ TypeInv /\ run[n] \in SyncRun /\ proc[n] \in Processing
           /\ \A k \in Runs : k # n => proc'[k] = proc[k] /\ ~Active(k) /\ ~Active(k)'
           /\ \A k \in Runs : k > n => run[k] = NoRun
           /\ ItemOK(n) /\ AppliedOK(n) /\ Latest(n)
<1>1. TypeInv /\ overlaps = 0
      BY DEF Calm, AppliedInv, Undisturbed
<1>2. Active(n) /\ \A k \in Runs : k # n => proc'[k] = proc[k]
      BY <1>1, OneMoves
<1>3. \A k \in Runs : k # n => ~Active(k)
      BY <1>1, <1>2 DEF Calm, AppliedInv
<1>4. run[n] \in SyncRun /\ proc[n] \in Processing
      BY <1>1, <1>2 DEF TypeInv, TypeOK, PlaceOK, Active
<1> QED BY <1>1, <1>2, <1>3, <1>4 DEF Active, Calm, ItemsInv, Latest, AppliedInv

\* An item about to be created has no sheet, nor has anybody its sheet's id.
LEMMA NoneYet ==
    ASSUME Calm, NEW n \in Runs, proc[n].at = "write", proc[n].fresh
    PROVE  /\ SheetsOf(Item(n).id) = {}
           /\ <<n, proc[n].i>> \in Ids /\ ~Exists(<<n, proc[n].i>>)
<1> DEFINE r == Item(n).id
           f == <<n, proc[n].i>>
<1>1. r \in Records /\ f \in Ids /\ overlaps = 0
      BY ItemTyped DEF Calm, AppliedInv, InItem, Items, Undisturbed
<1>2. n \in Creating(r)
      BY DEF Creating, Creates
<1>3. Creating(r) # {} /\ IsFiniteSet(Creating(r)) /\ Cardinality(Creating(r)) \in Nat
      BY <1>2, FiniteRuns
<1>4. Cardinality(Creating(r)) # 0
      BY <1>3, FS_EmptySet
<1>5. /\ IsFiniteSet(SheetsOf(r)) /\ Cardinality(SheetsOf(r)) \in Nat
      /\ Cardinality(SheetsOf(r)) + Cardinality(Creating(r)) <= 1 + overlaps
      BY <1>1, FS_CardinalityType DEF Calm, SheetsInv
<1>6. Cardinality(SheetsOf(r)) = 0
      BY <1>1, <1>3, <1>4, <1>5
<1>7. SheetsOf(r) = {}
      BY <1>5, <1>6, FS_EmptySet
<1>8. ASSUME Exists(f) PROVE FALSE
  <2>1. sheet[f].record = r
        BY <1>1, <1>8 DEF Calm, ItemsInv, Origin, Item
  <2> QED BY <1>1, <1>7, <1>8, <2>1 DEF SheetsOf
<1> QED BY <1>1, <1>7, <1>8

-----------------------------------------------------------------------------
(* Two kinds of step of an item: within it, and to the next one            *)

\* A sheet of another record than that of the item stays as it is.
Touches(n, f) ==
    /\ sheet'[f].state = "live" /\ sheet'[f].record = Item(n).id /\ Item(n).known
    /\ \/ Exists(f) /\ sheet[f].record = Item(n).id /\ proc[n].at \in Applying
       \/ ~Exists(f) /\ f = <<n, proc[n].i>>

\* What other items have is not disturbed.
LEMMA OthersKept ==
    ASSUME Calm, NEW n \in Runs, Process(n), NEW r \in Records,
           \A f \in Ids : sheet'[f] = sheet[f] \/ Touches(n, f),
           mapping'[r] = mapping[r],
           \/ r # Item(n).id
           \/ \A f \in Ids : Exists(f) => sheet'[f] = sheet[f]
    PROVE  /\ mapping[r].sheet \in Ids => sheet'[mapping[r].sheet] = sheet[mapping[r].sheet]
           /\ Sound(r)'
<1>1. TypeInv /\ mapping[r] \in Mapping
      BY OneRuns DEF TypeInv, TypeOK
<1>2. Sound(r)
      BY DEF Calm, ItemsInv
<1>3. CASE mapping[r].sheet \in Ids
  <2>1. Exists(mapping[r].sheet) /\ sheet[mapping[r].sheet].record = r
        BY <1>2, <1>3, NoSheetIsNone DEF Sound
  <2>2. sheet'[mapping[r].sheet] = sheet[mapping[r].sheet]
        BY <1>3, <2>1 DEF Touches
  <2> QED BY <2>1, <2>2 DEF Sound, Exists
<1>4. CASE mapping[r].sheet = NoSheet
      BY <1>4, NoSheetIsNone DEF Sound
<1> QED BY <1>1, <1>3, <1>4 DEF Mapping

\* An item that another record's step does not touch stays in its sheet.
LEMMA StillHas ==
    ASSUME Calm, NEW n \in Runs, Process(n), run'[n].content = run[n].content,
           run'[n].mode = run[n].mode, NEW i \in DOMAIN run[n].content, Has(n, i),
           \A f \in Ids : sheet'[f] = sheet[f] \/ Touches(n, f),
           mapping'[run[n].content[i].id] = mapping[run[n].content[i].id],
           \/ run[n].content[i].id # Item(n).id
           \/ \A f \in Ids : Exists(f) => sheet'[f] = sheet[f]
    PROVE  Has(n, i)'
<1>1. run[n].content[i].id \in Records
      BY OneRuns, ContentTyped DEF Items
<1> DEFINE f == mapping[run[n].content[i].id].sheet
<1>2. f \in Ids /\ sheet'[f] = sheet[f]
      BY <1>1, OthersKept DEF Has
<1> QED BY <1>2 DEF Has, Exists, Full

\* The runs that take no step.
LEMMA OthersRest ==
    ASSUME Calm, NEW n \in Runs, Process(n), run'[n] # NoRun,
           \A k \in Runs : k # n => run'[k] = run[k],
           NEW k \in Runs, k # n
    PROVE  Latest(k)' /\ ItemOK(k)' /\ ~Active(k)' /\ ~Newest(k)'
<1>1. ~Active(k)' /\ proc'[k].at \notin Statements
      BY OneRuns DEF Active
<1>2. Latest(k)' /\ ItemOK(k)'
  <2>1. Latest(k) /\ run[n] # NoRun
        BY OneRuns DEF Calm, ItemsInv, SyncRun, NoRun
  <2>2. Latest(k)'
        BY <1>1, <2>1 DEF Latest
  <2>3. ItemOK(k)'
        BY <1>1 DEF ItemOK, HasSheet, Statements, InItem, Fetched, Applying
  <2> QED BY <2>2, <2>3
<1>3. ~Newest(k)'
  <2>1. CASE k > n
    <3>1. run'[k] = NoRun
          BY <2>1, OneRuns
    <3> QED BY <3>1 DEF Newest, NoRun
  <2>2. CASE n > k
        BY <2>2 DEF Newest
  <2> QED BY <2>1, <2>2 DEF Runs
<1> QED BY <1>1, <1>2, <1>3

\* A step within an item: it may create the item's sheet or write to it.
LEMMA WithinItem ==
    ASSUME Calm, NEW n \in Runs, Process(n), proc[n].at \in InItem,
           UNCHANGED <<run, mapping>>,
           proc'[n].i = proc[n].i, proc'[n].at \in InItem,
           proc[n].at \in Applying => proc'[n].at \in Applying,
           \A f \in Ids : sheet'[f] = sheet[f] \/ Touches(n, f),
           ItemOK(n)'
    PROVE  ItemsInv'
<1>1. /\ TypeInv /\ run[n] \in SyncRun /\ Item(n) \in Items /\ Item(n)' = Item(n)
      /\ proc[n].i \in DOMAIN run[n].content /\ proc[n].i \in Nat
  <2>1. TypeInv /\ run[n] \in SyncRun
        BY OneRuns
  <2>2. Item(n) \in Items /\ proc[n].i \in 1 .. Len(run[n].content) /\ Len(run[n].content) \in Nat
        BY <2>1, ItemTyped
  <2>3. DOMAIN run[n].content = 1 .. Len(run[n].content)
        BY <2>1, ContentTyped
  <2>4. Item(n)' = Item(n)
        BY DEF Item
  <2> QED BY <2>1, <2>2, <2>3, <2>4
<1>2. Item(n).id \in Records
      BY <1>1 DEF Items
<1>3. \A f \in Ids : Exists(f) => Exists(f)' /\ sheet'[f].record = sheet[f].record
      BY DEF Touches, Exists
<1>4. proc[n].at \notin Applying => \A f \in Ids : Exists(f) => sheet'[f] = sheet[f]
      BY DEF Touches
<1>5. ASSUME NEW r \in Records PROVE Sound(r)' /\ Settled(r)'
  <2>1. mapping'[r] = mapping[r] /\ mapping[r] \in Mapping /\ Sound(r) /\ Settled(r)
        BY <1>1 DEF Calm, ItemsInv, TypeInv, TypeOK
  <2>2. mapping[r].sheet = NoSheet \/ mapping[r].sheet \in Ids
        BY <2>1 DEF Mapping
  <2>3. Sound(r)'
        BY <1>3, <2>1, <2>2 DEF Sound
  <2>4. CASE r = Item(n).id /\ proc[n].at \in Applying
    <3>1. proc'[n].at \in Applying /\ run'[n].content[proc'[n].i].id = r
          BY <1>1, <2>4 DEF Item
    <3> QED BY <2>3, <3>1 DEF Settled, AppliesTo, Item
  <2>5. CASE r # Item(n).id \/ proc[n].at \notin Applying
    <3>1. mapping[r].sheet \in Ids => sheet'[mapping[r].sheet] = sheet[mapping[r].sheet]
          BY <1>4, <2>1, <2>5, OthersKept
    <3>2. \A k \in Runs : ~AppliesTo(k, r)
      <4>1. \A k \in Runs : k # n => proc[k].at \notin Statements
            BY OneRuns DEF Active
      <4> QED BY <2>5, <4>1 DEF AppliesTo, Applying, Statements, InItem
    <3>3. mapping[r].sheet \in Ids => mapping[r].hash \subseteq sheet[mapping[r].sheet].vals
          BY <2>1, <3>2, NoSheetIsNone DEF Settled
    <3> QED BY <2>1, <2>2, <2>3, <3>1, <3>3 DEF Settled, AppliesTo, Item
  <2> QED BY <2>3, <2>4, <2>5
<1>6. ASSUME NEW f \in Ids PROVE Origin(f)'
  <2>1. CASE Exists(f)
        BY <1>3, <1>6, <2>1 DEF Calm, ItemsInv, Origin
  <2>2. CASE ~Exists(f) /\ Exists(f)'
    <3>1. f = <<n, proc[n].i>> /\ sheet'[f].record = Item(n).id
          BY <2>2 DEF Touches, Exists
    <3> QED BY <1>1, <3>1 DEF Origin, Item
  <2> QED BY <2>1, <2>2 DEF Origin
<1>7. Latest(n)' /\ ~Newest(n)'
      BY OneRuns DEF Latest, Newest
<1>8. Until(n, proc[n].i)'
  <2> SUFFICES ASSUME NEW i \in DOMAIN run[n].content, i < proc[n].i, run[n].content[i].known,
                      ~Superseded(n, i, proc[n].i)
               PROVE  Has(n, i)'
      BY DEF Until, Superseded
  <2>1. Has(n, i)
        BY OneRuns DEF Calm, ItemsInv, Until
  <2>2. Item(n).known => run[n].content[i].id # Item(n).id
        BY <1>1 DEF Superseded, Item
  <2>3. ~Item(n).known => \A f \in Ids : sheet'[f] = sheet[f]
        BY DEF Touches
  <2> QED BY <2>1, <2>2, <2>3, StillHas
<1>9. \A k \in Runs : k # n => Latest(k)' /\ ItemOK(k)' /\ ~Active(k)' /\ ~Newest(k)'
  <2>1. run'[n] # NoRun /\ \A k \in Runs : k # n => run'[k] = run[k]
        BY <1>1 DEF SyncRun, NoRun
  <2> QED BY <2>1, OthersRest
<1> QED BY <1>5, <1>6, <1>7, <1>8, <1>9 DEF ItemsInv

\* A step to the next item: the item is in its sheet, or of no known type.
LEMMA NextOne ==
    ASSUME Calm, NEW n \in Runs, Process(n), proc[n].at \in InItem,
           UNCHANGED <<run, sheet>>,
           proc'[n].i = proc[n].i + 1, proc'[n].at \in {"find", "finish"},
           NEW r0 \in Records, r0 = Item(n).id,
           NEW i0 \in Nat, i0 = proc[n].i,
           \A r \in Records : mapping'[r] = mapping[r] \/ (r = r0 /\ Item(n).known),
           Sound(r0)',
           mapping'[r0].sheet # NoSheet =>
              mapping'[r0].hash \subseteq sheet[mapping'[r0].sheet].vals,
           Item(n).known => Has(n, i0)'
    PROVE  ItemsInv'
<1>1. /\ TypeInv /\ run[n] \in SyncRun /\ Item(n) \in Items
      /\ proc[n].i \in DOMAIN run[n].content /\ proc[n].i \in Nat
      /\ \A i \in DOMAIN run[n].content : i \in Nat
  <2>1. TypeInv /\ run[n] \in SyncRun
        BY OneRuns
  <2>2. Item(n) \in Items /\ proc[n].i \in 1 .. Len(run[n].content) /\ Len(run[n].content) \in Nat
        BY <2>1, ItemTyped
  <2>3. DOMAIN run[n].content = 1 .. Len(run[n].content)
        BY <2>1, ContentTyped
  <2> QED BY <2>1, <2>2, <2>3
<1>2. Item(n).id \in Records
      BY <1>1 DEF Items
<1>3. \A f \in Ids : sheet'[f] = sheet[f]
      OBVIOUS
<1>4. ASSUME NEW r \in Records PROVE Sound(r)' /\ Settled(r)'
  <2>1. CASE r = r0
        BY <2>1 DEF Settled, AppliesTo, Item
  <2>2. CASE r # r0
    <3>1. mapping'[r] = mapping[r] /\ Sound(r) /\ Settled(r)
          BY <2>2 DEF Calm, ItemsInv
    <3>2. \A k \in Runs : ~AppliesTo(k, r)
      <4>1. \A k \in Runs : k # n => proc[k].at \notin Statements
            BY OneRuns DEF Active
      <4> QED BY <2>2, <4>1 DEF AppliesTo, Applying, Statements, InItem
    <3> QED BY <3>1, <3>2 DEF Sound, Settled, Exists, AppliesTo, Item
  <2> QED BY <2>1, <2>2
<1>5. \A f \in Ids : Origin(f)'
      BY DEF Calm, ItemsInv, Origin, Exists
<1>6. Latest(n)' /\ ~Newest(n)'
      BY OneRuns DEF Latest, Newest
<1>7. ItemOK(n)'
      BY DEF ItemOK, HasSheet, InItem, Fetched, Applying
<1>8. Until(n, proc[n].i)'
  <2> SUFFICES ASSUME NEW i \in DOMAIN run[n].content, i < proc[n].i + 1,
                      run[n].content[i].known, ~Superseded(n, i, proc[n].i + 1)
               PROVE  Has(n, i)'
      BY DEF Until, Superseded
  <2>1. CASE i = i0
    <3>1. Item(n).known
          BY <2>1 DEF Item
    <3> QED BY <2>1, <3>1
  <2>2. CASE i < proc[n].i
    <3>1. ~Superseded(n, i, proc[n].i)
          BY <1>1 DEF Superseded
    <3>2. Has(n, i)
          BY <2>2, <3>1, OneRuns DEF Calm, ItemsInv, Until
    <3>3. Item(n).known => run[n].content[i].id # Item(n).id
      <4>1. proc[n].i > i /\ proc[n].i <= proc[n].i + 1
            BY <1>1, <2>2
      <4> QED BY <1>1, <4>1 DEF Superseded, Item
    <3>4. run[n].content[i].id \in Records
          BY <1>1, ContentTyped DEF Items
    <3>5. mapping'[run[n].content[i].id] = mapping[run[n].content[i].id]
          BY <3>3, <3>4
    <3> QED BY <1>3, <3>2, <3>5, StillHas
  <2> QED BY <1>1, <2>1, <2>2
<1>9. \A k \in Runs : k # n => Latest(k)' /\ ItemOK(k)' /\ ~Active(k)' /\ ~Newest(k)'
  <2>1. run'[n] # NoRun /\ \A k \in Runs : k # n => run'[k] = run[k]
        BY <1>1 DEF SyncRun, NoRun
  <2> QED BY <2>1, OthersRest
<1> QED BY <1>4, <1>5, <1>6, <1>7, <1>8, <1>9 DEF ItemsInv

-----------------------------------------------------------------------------
(* The statements of an item                                               *)

\* The sheet of an item that is being written is its record's.
LEMMA ItemSheet ==
    ASSUME Calm, NEW n \in Runs, Process(n), proc[n].at \in InItem
    PROVE  /\ TypeInv /\ proc[n] \in Processing /\ run[n] \in SyncRun
           /\ Item(n) \in Items /\ Item(n).id \in Records /\ Item(n).data \subseteq Attrs
           /\ proc[n].i \in 1 .. Len(run[n].content) /\ proc[n].i \in Nat
           /\ \A p : ProcIs(n, p) => proc'[n] = p
           /\ HasSheet(n) => /\ proc[n].f \in Ids /\ Exists(proc[n].f)
                             /\ sheet[proc[n].f] \in LiveSheet
                             /\ sheet[proc[n].f].record = Item(n).id
<1>1. TypeInv /\ ItemOK(n)
      BY OneRuns
<1>2. /\ proc[n] \in Processing /\ run[n] \in SyncRun /\ Item(n) \in Items
      /\ proc[n].i \in 1 .. Len(run[n].content) /\ Len(run[n].content) \in Nat
      BY <1>1, ItemTyped
<1>3. \A p : ProcIs(n, p) => proc'[n] = p
      BY <1>1 DEF ProcIs, TypeInv, TypeOK
<1>4. HasSheet(n) => proc[n].f \in Ids /\ Exists(proc[n].f)
                     /\ sheet[proc[n].f].record = Item(n).id
      BY <1>1 DEF ItemOK, HasSheet, TypeInv, PlaceOK
<1>5. HasSheet(n) => sheet[proc[n].f] \in LiveSheet
      BY <1>1, <1>4, SheetTyped DEF TypeInv
<1> QED BY <1>1, <1>2, <1>3, <1>4, <1>5 DEF Items

\* The lookups.
LEMMA FindKeeps == ASSUME Calm, NEW n \in Runs, Process(n), Find(n) PROVE ItemsInv'
<1> DEFINE m == mapping[Item(n).id]
           p == proc[n]
<1>1. /\ p.at = "find" /\ p.at \in InItem /\ UNCHANGED <<sheet, mapping, run>>
      BY DEF Find, InItem
<1>2. p \in Processing /\ ~p.fresh /\ m \in Mapping
      BY <1>1, ItemSheet DEF Find, TypeInv, TypeOK, PlaceOK
<1>3. Sound(Item(n).id)
      BY <1>1, ItemSheet DEF Calm, ItemsInv
<1>4. CASE ~Item(n).known
  <2>1. proc'[n] = [p EXCEPT !.at = "reject", !.counts.errors = @ + 1]
        BY <1>1, <1>4, ItemSheet DEF Find
  <2>2. proc'[n].at = "reject" /\ proc'[n].i = p.i
        BY <1>2, <2>1 DEF Processing
  <2>3. Item(n)' = Item(n)
        BY <1>1, <2>2 DEF Item
  <2>4. ItemOK(n)'
        BY <1>4, <2>2, <2>3 DEF ItemOK, HasSheet, Fetched, Applying
  <2> QED BY <1>1, <2>2, <2>4, WithinItem DEF InItem, Applying
<1>5. CASE Item(n).known
  <2> DEFINE at == IF Unchanged(n, m) THEN "skip" ELSE IF m.sheet = NoSheet THEN "match" ELSE "write"
  <2>1. proc'[n] = [p EXCEPT !.f = m.sheet, !.at = at]
        BY <1>1, <1>5, ItemSheet DEF Find
  <2>2. /\ at \in {"skip", "match", "write"}
        /\ at = "skip" => m.sheet # NoSheet /\ m.hash = Item(n).data /\ ~Full(n)
        /\ at = "write" => m.sheet # NoSheet
        BY DEF Unchanged
  <2> HIDE DEF at
  <2>3. proc'[n].at = at /\ proc'[n].i = p.i /\ proc'[n].f = m.sheet
        BY <1>2, <2>1 DEF Processing
  <2>4. Item(n)' = Item(n) /\ (Full(n)' <=> Full(n))
        BY <1>1, <2>3 DEF Item, Full
  <2>5. at \in {"skip", "write"} => sheet'[m.sheet].state = "live" /\ sheet'[m.sheet].record = Item(n).id
        BY <1>1, <1>3, <2>2 DEF Sound, Exists
  <2>6. ItemOK(n)'
        BY <1>1, <1>5, <2>2, <2>3, <2>4, <2>5 DEF ItemOK, HasSheet, Fetched, Applying, Exists
  <2> QED BY <1>1, <2>2, <2>3, <2>6, WithinItem DEF InItem, Applying
<1> QED BY <1>4, <1>5

\* The sheet with the external id.
LEMMA MatchKeeps == ASSUME Calm, NEW n \in Runs, Process(n), Match(n) PROVE ItemsInv'
<1> DEFINE p == proc[n]
<1>1. p.at = "match" /\ p.at \in InItem /\ UNCHANGED <<sheet, mapping, run>>
      BY DEF Match, InItem
<1>2. p \in Processing /\ Item(n).known
      BY <1>1, ItemSheet, OneRuns DEF ItemOK, InItem
<1>3. \/ proc'[n] = [p EXCEPT !.at = "write", !.fresh = TRUE]
      \/ \E f \in Ids : /\ Exists(f) /\ sheet[f].record = Item(n).id
                        /\ proc'[n] = [p EXCEPT !.at = "write", !.f = f]
      BY <1>1, ItemSheet DEF Match
<1>4. /\ proc'[n].at = "write" /\ proc'[n].i = p.i
      /\ \/ proc'[n].fresh
         \/ sheet[proc'[n].f].state = "live" /\ sheet[proc'[n].f].record = Item(n).id
  <2>1. CASE proc'[n] = [p EXCEPT !.at = "write", !.fresh = TRUE]
        BY <1>2, <2>1 DEF Processing
  <2>2. ASSUME NEW f \in Ids, Exists(f), sheet[f].record = Item(n).id,
               proc'[n] = [p EXCEPT !.at = "write", !.f = f]
        PROVE  /\ proc'[n].at = "write" /\ proc'[n].i = p.i
               /\ Exists(f) /\ proc'[n].f = f /\ sheet[f].record = Item(n).id
        BY <1>2, <2>2 DEF Processing
  <2> QED BY <1>3, <2>1, <2>2 DEF Exists
<1>5. Item(n)' = Item(n)
      BY <1>1, <1>4 DEF Item
<1>6. ItemOK(n)'
      BY <1>1, <1>2, <1>4, <1>5 DEF ItemOK, HasSheet, Fetched, Applying, Exists
<1> QED BY <1>1, <1>4, <1>6, WithinItem DEF InItem, Applying

\* The sheet is created or found.
LEMMA WriteKeeps ==
    ASSUME Calm, NEW n \in Runs, Process(n), Create(n) \/ Update(n) PROVE ItemsInv'
<1>1. /\ proc[n].at = "write" /\ proc[n].at \in InItem /\ UNCHANGED <<mapping, run>>
      BY DEF Create, Update, InItem
<1>2. proc[n] \in Processing /\ Item(n).known /\ TypeInv
      BY <1>1, ItemSheet, OneRuns DEF ItemOK, InItem
<1>3. proc'[n].at = "read" /\ proc'[n].i = proc[n].i
      BY <1>2, SheetWritten
<1>4. Item(n)' = Item(n)
      BY <1>1, <1>3 DEF Item
<1>5. CASE Create(n)
  <2> DEFINE f == <<n, proc[n].i>>
  <2>1. /\ sheet' = [sheet EXCEPT ![f] = Live(Item(n).id, {}, {})]
        /\ proc[n].fresh /\ proc'[n].f = f
        BY <1>1, <1>2, <1>5, ItemSheet DEF Create, Processing
  <2>2. f \in Ids /\ ~Exists(f)
        BY <1>1, <2>1, NoneYet
  <2>3. /\ sheet'[f].state = "live" /\ sheet'[f].record = Item(n).id
        /\ \A g \in Ids : g # f => sheet'[g] = sheet[g]
        BY <1>2, <2>1, <2>2 DEF Live, TypeInv, TypeOK
  <2>4. \A g \in Ids : sheet'[g] = sheet[g] \/ Touches(n, g)
        BY <1>2, <2>2, <2>3 DEF Touches
  <2> HIDE DEF f
  <2>5. ItemOK(n)'
        BY <1>2, <1>3, <1>4, <2>1, <2>3 DEF ItemOK, HasSheet, Fetched, Applying, Exists
  <2> QED BY <1>1, <1>3, <2>4, <2>5, WithinItem DEF InItem, Applying
<1>6. CASE Update(n)
  <2>1. /\ sheet' = sheet /\ HasSheet(n)
        /\ proc'[n].f = proc[n].f
        BY <1>1, <1>2, <1>6, ItemSheet DEF Update, HasSheet, Processing
  <2>2. Exists(proc[n].f) /\ sheet[proc[n].f].record = Item(n).id
        BY <1>1, <2>1, ItemSheet
  <2>3. ItemOK(n)'
        BY <1>2, <1>3, <1>4, <2>1, <2>2 DEF ItemOK, HasSheet, Fetched, Applying, Exists
  <2> QED BY <1>1, <1>3, <2>1, <2>3, WithinItem DEF InItem, Applying
<1> QED BY <1>5, <1>6

\* A write to the item's own sheet.
LEMMA OwnSheet ==
    ASSUME Calm, NEW n \in Runs, Process(n), proc[n].at \in Applying, Item(n).known,
           NEW f \in Ids, f = proc[n].f, NEW S, NEW C,
           \/ sheet' = [sheet EXCEPT ![f].vals = S]
           \/ sheet' = [sheet EXCEPT ![f].completion = C]
    PROVE  /\ Exists(f)' /\ sheet'[f].record = Item(n).id
           /\ \A g \in Ids : sheet'[g] = sheet[g] \/ Touches(n, g)
           /\ sheet' = [sheet EXCEPT ![f].vals = S] => sheet'[f].vals = S
           /\ sheet' = [sheet EXCEPT ![f].completion = C] => sheet'[f].completion = C
<1>1. /\ sheet[f] \in LiveSheet /\ Exists(f) /\ sheet[f].record = Item(n).id /\ TypeInv
      BY ItemSheet DEF Applying, InItem, HasSheet, Fetched
<1>2. \A g \in Ids : g # f => sheet'[g] = sheet[g]
      BY <1>1 DEF TypeInv, TypeOK
<1>3. sheet'[f].state = "live" /\ sheet'[f].record = Item(n).id
      BY <1>1 DEF LiveSheet, TypeInv, TypeOK
<1>4. /\ sheet' = [sheet EXCEPT ![f].vals = S] => sheet'[f].vals = S
      /\ sheet' = [sheet EXCEPT ![f].completion = C] => sheet'[f].completion = C
      BY <1>1 DEF LiveSheet, TypeInv, TypeOK
<1> QED BY <1>1, <1>2, <1>3, <1>4 DEF Touches, Exists

\* The attributes go on.
LEMMA OnwardKeeps ==
    ASSUME Calm, NEW n \in Runs, Process(n), proc[n].at \in {"read", "put", "cut"},
           UNCHANGED <<run, mapping>>, Item(n).known,
           NEW f \in Ids, f = proc[n].f,
           NEW p \in Processing, p.i = proc[n].i, p.f = f, ProcIs(n, Onward(p)),
           Exists(f)', sheet'[f].record = Item(n).id,
           \A g \in Ids : sheet'[g] = sheet[g] \/ Touches(n, g),
           p.put \subseteq Item(n).data, p.cut \subseteq sheet'[f].vals,
           Full(n) => sheet'[f].vals \subseteq Item(n).data \cup p.cut
    PROVE  ItemsInv'
<1>1. /\ run[n] \in SyncRun /\ p.i \in 1 .. Len(run[n].content) /\ proc[n].at \in InItem
      /\ proc'[n] = Onward(p)
      BY ItemSheet DEF InItem
<1>2. /\ \/ proc'[n].at = "put"
         \/ proc'[n].at = "cut"
         \/ proc'[n].at = "count" /\ p.cut = {}
      /\ proc'[n].i = p.i /\ proc'[n].f = f /\ proc'[n].put = p.put /\ proc'[n].cut = p.cut
  <2>1. CASE p.put = {} /\ p.cut = {}
        BY <1>1, <2>1, OnwardTyped
  <2>2. CASE ~(p.put = {} /\ p.cut = {})
    <3>1. Onward(p).at # "count"
          BY <2>2 DEF Onward, Processing
    <3> QED BY <1>1, <3>1, OnwardTyped
  <2> QED BY <2>1, <2>2
<1>3. Item(n)' = Item(n) /\ (Full(n)' <=> Full(n))
      BY <1>2 DEF Item, Full
<1>4. ItemOK(n)'
      BY <1>2, <1>3 DEF ItemOK, HasSheet, Fetched, Applying, InItem
<1>5. proc'[n].at \in InItem /\ proc'[n].at \in Applying
      BY <1>2 DEF InItem, Applying
<1> QED BY <1>1, <1>2, <1>4, <1>5, WithinItem

\* The attributes are read, set and removed.
LEMMA AttributesKeep ==
    ASSUME Calm, NEW n \in Runs, Process(n),
           ReadValues(n) \/ (\E a \in Attrs : Put(n, a) \/ Cut(n, a))
    PROVE  ItemsInv'
<1>f. PICK f : f = proc[n].f
      OBVIOUS
<1> USE <1>f
<1> DEFINE data == Item(n).data
<1>1. /\ proc[n].at \in {"read", "put", "cut"} /\ proc[n].at \in InItem /\ HasSheet(n)
      /\ UNCHANGED <<run, mapping>>
      BY DEF ReadValues, Put, Cut, InItem, HasSheet, Fetched
<1>2. /\ proc[n] \in Processing /\ f \in Ids /\ Exists(f) /\ sheet[f].record = Item(n).id
      /\ sheet[f] \in LiveSheet /\ Item(n).known /\ ItemOK(n) /\ data \subseteq Attrs
      BY <1>1, ItemSheet, OneRuns DEF ItemOK, InItem
<1>3. CASE ReadValues(n)
  <2> DEFINE put == Given(n)
             cut == IF Full(n) THEN Values(f) \ data ELSE {}
             p == [proc[n] EXCEPT !.put = put, !.cut = cut]
  <2>1. /\ put = data /\ cut \subseteq sheet[f].vals /\ cut \subseteq Attrs
        /\ Full(n) => sheet[f].vals \subseteq data \cup cut
        BY <1>2 DEF Given, Values, LiveSheet
  <2>2. ProcIs(n, Onward(p)) /\ sheet' = sheet
        BY <1>3 DEF ReadValues
  <2> HIDE DEF put, cut
  <2>3. p \in Processing /\ p.i = proc[n].i /\ p.f = f /\ p.put = put /\ p.cut = cut
        BY <1>2, <2>1 DEF Processing
  <2>4. Exists(f)' /\ sheet'[f].record = Item(n).id
        BY <1>2, <2>2 DEF Exists
  <2> HIDE DEF p
  <2> QED BY <1>1, <1>2, <2>1, <2>2, <2>3, <2>4, OnwardKeeps
<1>4. ASSUME NEW a \in Attrs, Put(n, a) PROVE ItemsInv'
  <2> DEFINE p == [proc[n] EXCEPT !.put = proc[n].put \ {a}]
  <2>0. PICK S : S = sheet[f].vals \cup {a}
        OBVIOUS
  <2>1. ProcIs(n, Onward(p)) /\ proc[n].at = "put" /\ a \in proc[n].put
        BY <1>2, <1>4 DEF Put, Processing
  <2>2. /\ p \in Processing /\ p.i = proc[n].i /\ p.f = f /\ p.put = proc[n].put \ {a}
        /\ p.cut = proc[n].cut
        BY <1>2 DEF Processing
  <2>3. sheet' = [sheet EXCEPT ![f].vals = S]
        BY <2>0, <1>2, <1>4, ItemSheet, <1>1 DEF Put, TypeInv, TypeOK
  <2>4. /\ Exists(f)' /\ sheet'[f].record = Item(n).id
        /\ \A g \in Ids : sheet'[g] = sheet[g] \/ Touches(n, g)
        /\ sheet'[f].vals = S
        BY <1>2, <2>1, <2>3, OwnSheet DEF Applying
  <2>5. /\ proc[n].put \subseteq data /\ proc[n].cut \subseteq sheet[f].vals
        /\ Full(n) => sheet[f].vals \subseteq data \cup proc[n].cut
        BY <1>2, <2>1 DEF ItemOK
  <2> HIDE DEF p
  <2>6. /\ p.put \subseteq data /\ p.cut \subseteq sheet'[f].vals
        /\ Full(n) => sheet'[f].vals \subseteq data \cup p.cut
        BY <2>0, <2>1, <2>2, <2>4, <2>5
  <2> QED BY <1>1, <1>2, <2>1, <2>2, <2>4, <2>6, OnwardKeeps
<1>5. ASSUME NEW a \in Attrs, Cut(n, a) PROVE ItemsInv'
  <2> DEFINE p == [proc[n] EXCEPT !.cut = proc[n].cut \ {a}]
  <2>0. PICK S : S = sheet[f].vals \ {a}
        OBVIOUS
  <2>1. ProcIs(n, Onward(p)) /\ proc[n].at = "cut" /\ a \in proc[n].cut
        BY <1>2, <1>5 DEF Cut, Processing
  <2>2. /\ p \in Processing /\ p.i = proc[n].i /\ p.f = f /\ p.put = proc[n].put
        /\ p.cut = proc[n].cut \ {a}
        BY <1>2 DEF Processing
  <2>3. sheet' = [sheet EXCEPT ![f].vals = S]
        BY <2>0, <1>2, <1>5, ItemSheet, <1>1 DEF Cut, TypeInv, TypeOK
  <2>4. /\ Exists(f)' /\ sheet'[f].record = Item(n).id
        /\ \A g \in Ids : sheet'[g] = sheet[g] \/ Touches(n, g)
        /\ sheet'[f].vals = S
        BY <1>2, <2>1, <2>3, OwnSheet DEF Applying
  <2>5. /\ proc[n].put = {} /\ proc[n].cut \subseteq sheet[f].vals
        /\ Full(n) => sheet[f].vals \subseteq data \cup proc[n].cut
        BY <1>2, <2>1, OneRuns DEF ItemOK, AppliedOK, Applying
  <2> HIDE DEF p
  <2>6. /\ p.put \subseteq data /\ p.cut \subseteq sheet'[f].vals
        /\ Full(n) => sheet'[f].vals \subseteq data \cup p.cut
        BY <2>0, <2>1, <2>2, <2>4, <2>5
  <2> QED BY <1>1, <1>2, <2>1, <2>2, <2>4, <2>6, OnwardKeeps
<1> QED BY <1>3, <1>4, <1>5

\* The completion and the log.
LEMMA CompletionKeeps ==
    ASSUME Calm, NEW n \in Runs, Process(n), Count(n) \/ Store(n) \/ LogItem(n)
    PROVE  ItemsInv'
<1>f. PICK f : f = proc[n].f
      OBVIOUS
<1> USE <1>f
<1>1. /\ proc[n].at \in {"count", "store", "log"} /\ proc[n].at \in InItem
      /\ proc[n].at \in Applying /\ HasSheet(n) /\ UNCHANGED <<run, mapping>>
      BY DEF Count, Store, LogItem, InItem, HasSheet, Fetched, Applying
<1>2. /\ proc[n] \in Processing /\ f \in Ids /\ Exists(f) /\ sheet[f].record = Item(n).id
      /\ sheet[f] \in LiveSheet /\ Item(n).known /\ ItemOK(n) /\ TypeInv
      BY <1>1, ItemSheet, OneRuns DEF ItemOK, InItem
<1>3. Full(n) => sheet[f].vals \subseteq Item(n).data
      BY <1>1, <1>2 DEF ItemOK, Applying
<1>4. /\ proc'[n].at \in {"store", "log", "map"} /\ proc'[n].i = proc[n].i /\ proc'[n].f = f
  <2>1. CASE Count(n)
        BY <1>1, <1>2, <2>1, ItemSheet DEF Count, Processing
  <2>2. CASE Store(n) \/ LogItem(n)
    <3>1. PICK label \in {"log", "map"} : ProcAt(n, label)
          BY <2>2 DEF Store, LogItem
    <3>2. label \in Statements
          BY <3>1 DEF Statements, InItem
    <3>3. /\ ProcIs(n, [proc[n] EXCEPT !.at = label])
          /\ [proc[n] EXCEPT !.at = label].at = label
          /\ [proc[n] EXCEPT !.at = label].i = proc[n].i
          /\ [proc[n] EXCEPT !.at = label].f = proc[n].f
          BY <1>2, <3>1, <3>2, Labelled
    <3>4. proc'[n] = [proc[n] EXCEPT !.at = label]
          BY <1>1, <3>3, ItemSheet
    <3> QED BY <3>1, <3>3, <3>4
  <2> QED BY <2>1, <2>2
<1>5. /\ Exists(f)' /\ sheet'[f].record = Item(n).id /\ sheet'[f].vals = sheet[f].vals
      /\ \A g \in Ids : sheet'[g] = sheet[g] \/ Touches(n, g)
  <2>1. CASE sheet' = sheet
        BY <1>2, <2>1 DEF Exists
  <2>2. CASE Store(n)
    <3>1. sheet' = [sheet EXCEPT ![f].completion = proc[n].filled]
          BY <2>2 DEF Store
    <3>2. sheet'[f].vals = sheet[f].vals
          BY <1>2, <3>1 DEF LiveSheet, TypeInv, TypeOK
    <3> QED BY <1>1, <1>2, <3>1, <3>2, OwnSheet
  <2> QED BY <2>1, <2>2 DEF Count, LogItem
<1>6. Item(n)' = Item(n) /\ (Full(n)' <=> Full(n))
      BY <1>1, <1>4 DEF Item, Full
<1>7. ItemOK(n)'
      BY <1>2, <1>3, <1>4, <1>5, <1>6 DEF ItemOK, HasSheet, Fetched, Applying, InItem
<1>8. proc'[n].at \in InItem /\ proc'[n].at \in Applying
      BY <1>4 DEF InItem, Applying
<1> QED BY <1>1, <1>4, <1>5, <1>7, <1>8, WithinItem

\* The end of an item: rejected, skipped, or mapped.
LEMMA EndKeeps ==
    ASSUME Calm, NEW n \in Runs, Process(n), Reject(n) \/ Skip(n) \/ Map(n)
    PROVE  ItemsInv'
<1>a. PICK r, i, f, item : r = Item(n).id /\ i = proc[n].i /\ f = proc[n].f /\ item = Item(n)
      OBVIOUS
<1>1. /\ proc[n].at \in {"reject", "skip", "map"} /\ proc[n].at \in InItem
      /\ UNCHANGED <<run, sheet>> /\ proc'[n] = NextItem(n, proc[n])
      BY ItemSheet DEF Reject, Skip, Map, InItem
<1>2. /\ proc[n] \in Processing /\ run[n] \in SyncRun /\ i \in 1 .. Len(run[n].content)
      /\ i \in Nat /\ r \in Records /\ TypeInv /\ ItemOK(n)
      BY <1>a, <1>1, ItemSheet, OneRuns
<1>3. proc'[n].at \in {"find", "finish"} /\ proc'[n].i = proc[n].i + 1
      BY <1>a, <1>1, <1>2, NextItemTyped
<1>4. Sound(r) /\ Settled(r) /\ item = run[n].content[i] /\ r = item.id
      BY <1>a, <1>2 DEF Calm, ItemsInv, Item
<1>5. CASE Reject(n) \/ Skip(n)
  <2>1. mapping' = mapping /\ proc[n].at \in {"reject", "skip"}
        BY <1>5 DEF Reject, Skip
  <2>2. \A k \in Runs : ~AppliesTo(k, r)
    <3>1. \A k \in Runs : k # n => proc[k].at \notin Statements
          BY OneRuns DEF Active
    <3> QED BY <2>1, <3>1 DEF AppliesTo, Applying, Statements, InItem
  <2>3. mapping[r].sheet # NoSheet => mapping[r].hash \subseteq sheet[mapping[r].sheet].vals
        BY <1>4, <2>2 DEF Settled
  <2>4. Sound(r)'
        BY <1>1, <1>4, <2>1 DEF Sound, Exists
  <2>5. ASSUME item.known PROVE Has(n, i)
    <3>1. /\ proc[n].at = "skip" /\ f = mapping[r].sheet /\ item.data = mapping[r].hash
          /\ ~Full(n)
          BY <1>a, <1>2, <2>1, <2>5 DEF ItemOK
    <3>2. f \in Ids /\ Exists(f)
          BY <1>a, <1>1, <3>1, ItemSheet DEF HasSheet, Fetched
    <3> QED BY <1>4, <2>3, <3>1, <3>2, NoSheetIsNone DEF Has
  <2>6. item.known => Has(n, i)'
        BY <1>1, <2>1, <2>5 DEF Has, Exists, Full
  <2> QED BY <1>a, <1>1, <1>2, <1>3, <2>1, <2>3, <2>4, <2>6, NextOne
<1>6. CASE Map(n)
  <2>1. /\ mapping' = [mapping EXCEPT ![r] = Mapped(f, item.data)] /\ proc[n].at = "map"
        BY <1>a, <1>6 DEF Map
  <2>2. /\ mapping'[r] = Mapped(f, item.data)
        /\ \A x \in Records : x # r => mapping'[x] = mapping[x]
        BY <1>2, <2>1 DEF TypeInv, TypeOK
  <2>3. f \in Ids /\ Exists(f) /\ sheet[f].record = r
        BY <1>a, <1>1, <2>1, ItemSheet DEF HasSheet, Fetched
  <2>4. /\ item.known /\ item.data \subseteq sheet[f].vals
        /\ Full(n) => item.data = sheet[f].vals
    <3>1. ItemOK(n) /\ AppliedOK(n) /\ proc[n].at \in Applying \ {"put", "cut"}
          BY <2>1, OneRuns DEF Applying
    <3>2. item.known /\ (Full(n) => sheet[f].vals \subseteq item.data)
          BY <1>a, <2>1, <3>1 DEF ItemOK, InItem
    <3>3. item.data \subseteq sheet[f].vals
          BY <1>a, <2>3, <3>1 DEF AppliedOK
    <3> QED BY <3>2, <3>3
  <2>5. mapping'[r].sheet = f /\ mapping'[r].hash = item.data
        BY <2>2 DEF Mapped
  <2>6. \A x \in Records : mapping'[x] = mapping[x] \/ (x = r /\ item.known)
        BY <2>2, <2>4
  <2>9. Sound(r)'
        BY <1>1, <2>3, <2>5 DEF Sound, Exists
  <2>10. Has(n, i)'
        BY <1>1, <1>4, <2>3, <2>4, <2>5 DEF Has, Exists, Full
  <2>11. mapping'[r].sheet # NoSheet => mapping'[r].hash \subseteq sheet[mapping'[r].sheet].vals
        BY <2>4, <2>5
  <2> QED BY <1>a, <1>1, <1>2, <1>3, <2>6, <2>9, <2>10, <2>11, NextOne
<1> QED BY <1>1, <1>5, <1>6

\* Nothing throws in an undisturbed run.
LEMMA NothingThrown ==
    ASSUME Calm, NEW n \in Runs, Process(n)
    PROVE  /\ ~Orphaned(n) /\ ~LogError(n) /\ ~LogAbort(n) /\ ~MarkFailed(n)
           /\ \A a \in Attrs : ~CutNothing(n, a)
<1>1. ItemOK(n)
      BY OneRuns
<1>2. ~LogError(n) /\ ~LogAbort(n) /\ ~MarkFailed(n)
      BY <1>1 DEF ItemOK, LogError, LogAbort, MarkFailed
<1>3. ASSUME Orphaned(n) PROVE FALSE
      BY <1>1, <1>3 DEF Orphaned, ItemOK, HasSheet, Fetched
<1>4. ASSUME NEW a \in Attrs, CutNothing(n, a) PROVE FALSE
  <2>1. proc[n].at = "cut" /\ a \in proc[n].cut /\ a \notin Values(proc[n].f)
        BY <1>4 DEF CutNothing
  <2> QED BY <1>1, <2>1 DEF ItemOK, HasSheet, Fetched, Values
<1> QED BY <1>2, <1>3, <1>4

\* The beginning and the end of a run: the sheets and mappings stay.
LEMMA RunMoves ==
    ASSUME Calm, TypeInv', NEW n \in Runs, Process(n), UNCHANGED <<sheet, mapping>>,
           run'[n] \in SyncRun, run'[n].content = run[n].content, run'[n].mode = run[n].mode,
           \A k \in Runs : k # n => run'[k] = run[k],
           proc[n].at \in {"running", "finish"},
           proc'[n].at \notin (InItem \ {"find"}) \cup {"error", "abort", "fail"},
           Active(n)' => run'[n].status # "FINISHED" /\ Until(n, proc[n].i)',
           Newest(n)' => Until(n, Len(run[n].content) + 1)'
    PROVE  ItemsInv'
<1>1. TypeInv /\ run[n] \in SyncRun
      BY OneRuns
<1>2. \A k \in Runs : proc[k].at \notin Applying
  <2>1. \A k \in Runs : k # n => proc[k].at \notin Statements
        BY OneRuns DEF Active
  <2> QED BY <2>1 DEF Applying, Statements, InItem
<1>3. ASSUME NEW r \in Records PROVE Sound(r)' /\ Settled(r)'
  <2>1. Sound(r) /\ Settled(r)
        BY DEF Calm, ItemsInv
  <2>2. mapping[r].sheet # NoSheet => mapping[r].hash \subseteq sheet[mapping[r].sheet].vals
        BY <1>2, <2>1 DEF Settled, AppliesTo
  <2> QED BY <2>1, <2>2 DEF Sound, Settled, Exists, AppliesTo, Item
<1>4. ASSUME NEW f \in Ids PROVE Origin(f)'
  <2>1. Origin(f) /\ f[1] \in Runs
        BY DEF Calm, ItemsInv, Ids
  <2> QED BY <1>1, <2>1 DEF Origin, Exists
<1>5. Latest(n)' /\ ItemOK(n)'
  <2>1. \A k \in Runs : k > n => run'[k] = NoRun
        BY OneRuns DEF Runs
  <2>2. Latest(n)'
        BY <2>1 DEF Latest
  <2>3. proc'[n].at = "find" \/ proc'[n].at \notin InItem \cup {"error", "abort", "fail"}
        OBVIOUS
  <2>4. ItemOK(n)'
        BY <2>3 DEF ItemOK, HasSheet, InItem, Fetched, Applying
  <2> QED BY <2>2, <2>4
<1>6. \A k \in Runs : k # n => Latest(k)' /\ ItemOK(k)' /\ ~Active(k)' /\ ~Newest(k)'
  <2>1. run'[n] # NoRun
        BY DEF SyncRun, NoRun
  <2> QED BY <2>1, OthersRest
<1> QED BY <1>3, <1>4, <1>5, <1>6 DEF ItemsInv

\* A run begins: none of its items is done.
LEMMA MarkRunningKeeps ==
    ASSUME Calm, TypeInv', NEW n \in Runs, Process(n), MarkRunning(n) PROVE ItemsInv'
<1>1. /\ run[n] \in SyncRun /\ TypeInv /\ proc[n].at = "running" /\ proc[n] \in Processing
      /\ proc[n].i = 1 /\ UNCHANGED <<sheet, mapping>>
      BY OneRuns DEF MarkRunning, TypeInv, PlaceOK
<1>2. run' = [run EXCEPT ![n].status = "RUNNING"]
      BY DEF MarkRunning
<1>3. /\ run'[n] \in SyncRun /\ run'[n].content = run[n].content /\ run'[n].mode = run[n].mode
      /\ run'[n].status = "RUNNING" /\ \A k \in Runs : k # n => run'[k] = run[k]
      BY <1>1, <1>2 DEF TypeInv, TypeOK, SyncRun
<1>4. proc' = [proc EXCEPT ![n].at = Iteration(n, 1)] /\ Iteration(n, 1) \in {"find", "finish"}
      BY DEF MarkRunning, ProcAt, Iteration
<1>5. proc'[n].at \in {"find", "finish"} /\ proc'[n].i = 1
      BY <1>1, <1>4 DEF TypeInv, TypeOK, Processing
<1>6. Until(n, proc[n].i)'
  <2>1. \A i \in DOMAIN run'[n].content : ~(i < 1)
        BY <1>3, ContentTyped
  <2> QED BY <1>5, <2>1 DEF Until
<1>7. ~Newest(n)'
      BY <1>3 DEF Newest
<1> QED BY <1>1, <1>3, <1>5, <1>6, <1>7, RunMoves DEF InItem

\* A run ends: all of its items are done.
LEMMA MarkFinishedKeeps ==
    ASSUME Calm, TypeInv', NEW n \in Runs, Process(n), MarkFinished(n) PROVE ItemsInv'
<1>1. /\ run[n] \in SyncRun /\ TypeInv /\ proc[n].at = "finish" /\ proc[n] \in Processing
      /\ proc[n].i = Len(run[n].content) + 1 /\ UNCHANGED <<sheet, mapping>> /\ Active(n)
      BY OneRuns DEF MarkFinished, TypeInv, PlaceOK
<1>2. run' = [run EXCEPT ![n].status = Result(proc[n].counts), ![n].counts = proc[n].counts]
      BY DEF MarkFinished
<1>3. /\ run'[n].content = run[n].content /\ run'[n].mode = run[n].mode
      /\ \A k \in Runs : k # n => run'[k] = run[k]
      BY <1>1, <1>2 DEF TypeInv, TypeOK, SyncRun
<1>4. run'[n] \in SyncRun
  <2>1. Result(proc[n].counts) \in {"FINISHED", "FAILED"} /\ proc[n].counts \in Counts
        BY <1>1 DEF Result, Processing
  <2> QED BY <1>1, <1>2, <2>1 DEF TypeInv, TypeOK, SyncRun
<1>5. proc'[n].at = "ended"
      BY <1>1 DEF MarkFinished, ProcAt, TypeInv, TypeOK, Processing
<1>6. Until(n, Len(run[n].content) + 1)'
  <2>m. PICK m : m = Len(run[n].content) + 1
        OBVIOUS
  <2>1. Until(n, m)
        BY <1>1, <2>m DEF Calm, ItemsInv
  <2>2. Until(n, m)'
    <3>1. ASSUME NEW i, Has(n, i) PROVE Has(n, i)'
          BY <1>1, <1>3, <3>1 DEF Has, Exists, Full
    <3>2. ASSUME NEW i, Superseded(n, i, m) PROVE Superseded(n, i, m)'
          BY <1>3, <3>2 DEF Superseded
    <3> QED BY <1>3, <2>1, <3>1, <3>2 DEF Until
  <2>3. Len(run'[n].content) + 1 = m
        BY <1>3, <2>m
  <2> QED BY <2>2, <2>3
<1>7. ~Active(n)'
      BY <1>5 DEF Active, Statements, InItem
<1> QED BY <1>1, <1>3, <1>4, <1>5, <1>6, <1>7, RunMoves DEF InItem

\* A new run, while none is under way.
LEMMA StartKeeps ==
    ASSUME Calm, TypeInv', NEW n \in Runs, NEW mode, NEW c, Start(n, mode, c), overlaps' = 0
    PROVE  ItemsInv'
<1>1. /\ TypeInv /\ overlaps = 0 /\ run[n] = NoRun /\ UNCHANGED <<sheet, mapping>>
      /\ \A k \in Runs : k < n => run[k] # NoRun
      BY DEF Calm, Undisturbed, AppliedInv, Start, Runs
<1>2. \A k \in Runs : ~Active(k) /\ proc[k].at \notin Applying
  <2>1. \A k \in Runs : ~Active(k)
        BY <1>1 DEF Start
  <2> QED BY <2>1 DEF Active, Statements, InItem, Applying
<1>3. /\ run'[n] = Row("CREATED", mode, c, Zero) /\ proc'[n] = [Idle EXCEPT !.at = "running"]
      /\ \A k \in Runs : k # n => run'[k] = run[k] /\ proc'[k] = proc[k]
      BY <1>1 DEF Start, TypeInv, TypeOK
<1>4. proc'[n].at = "running" /\ proc'[n].i = 1 /\ run'[n].status = "CREATED"
      BY <1>3 DEF Idle, Row
<1>5. \A k \in Runs : k # n => ~Active(k)' /\ proc'[k].at \notin Statements
      BY <1>2, <1>3 DEF Active
<1>6. \A k \in Runs : proc'[k].at \notin Applying
      BY <1>4, <1>5 DEF Applying, Statements, InItem
<1>7. ASSUME NEW r \in Records PROVE Sound(r)' /\ Settled(r)'
  <2>1. Sound(r) /\ Settled(r)
        BY DEF Calm, ItemsInv
  <2>2. mapping[r].sheet # NoSheet => mapping[r].hash \subseteq sheet[mapping[r].sheet].vals
        BY <1>2, <2>1 DEF Settled, AppliesTo
  <2> QED BY <1>1, <2>1, <2>2 DEF Sound, Settled, Exists, AppliesTo, Item
<1>8. ASSUME NEW f \in Ids PROVE Origin(f)'
  <2>1. Origin(f) /\ f[1] \in Runs
        BY DEF Calm, ItemsInv, Ids
  <2>2. Exists(f) => f[1] # n
        BY <1>1, <2>1 DEF Origin, SyncRun, NoRun
  <2> QED BY <1>1, <1>3, <2>1, <2>2 DEF Origin, Exists
<1>9. \A k \in Runs : k > n => run'[k] = NoRun
      BY <1>1, <1>3 DEF Calm, ItemsInv, Latest, Runs
<1>10. Latest(n)' /\ ItemOK(n)' /\ Until(n, proc[n].i)' /\ ~Newest(n)'
  <2>1. Latest(n)'
        BY <1>4, <1>9 DEF Latest
  <2>2. ItemOK(n)'
        BY <1>4 DEF ItemOK, HasSheet, Fetched, InItem, Applying
  <2>3. run'[n] \in SyncRun
        BY <1>4 DEF TypeInv, TypeOK, NoRun
  <2>4. \A i \in DOMAIN run'[n].content : ~(i < 1)
        BY <2>3, ContentTyped
  <2> QED BY <1>4, <2>1, <2>2, <2>4 DEF Until, Newest
<1>11. ASSUME NEW k \in Runs, k # n
       PROVE  Latest(k)' /\ ItemOK(k)' /\ ~Active(k)' /\ ~Newest(k)'
  <2>1. Latest(k)' /\ ~Active(k)'
    <3>1. run'[k] = NoRun => k > n
          BY <1>1, <1>3, <1>11 DEF Runs
    <3> QED BY <1>5, <1>9, <1>11, <3>1 DEF Latest, Runs
  <2>2. ItemOK(k)'
        BY <1>5, <1>11 DEF ItemOK, HasSheet, Fetched, Statements, InItem, Applying
  <2>3. ~Newest(k)'
    <3>1. k > n => run'[k] = NoRun
          BY <1>9
    <3>2. run'[n] # NoRun
          BY <1>4 DEF NoRun
    <3> QED BY <1>11, <3>1, <3>2 DEF Newest, NoRun, Runs
  <2> QED BY <2>1, <2>2, <2>3
<1> QED BY <1>7, <1>8, <1>10, <1>11 DEF ItemsInv

\* No item has been touched yet.
LEMMA ItemsInit == Init => ItemsInv
<1> SUFFICES ASSUME Init PROVE ItemsInv
    OBVIOUS
<1>1. \A n \in Runs : run[n] = NoRun /\ proc[n].at = "none"
      BY DEF Init, Idle
<1>2. ASSUME NEW r \in Records PROVE Sound(r) /\ Settled(r)
  <2>1. mapping[r].sheet = NoSheet
        BY DEF Init, Unmapped, Mapped
  <2> QED BY <2>1 DEF Sound, Settled
<1>3. \A f \in Ids : Origin(f)
      BY DEF Init, Origin, Exists, Absent
<1>4. ASSUME NEW n \in Runs PROVE Latest(n) /\ ItemOK(n) /\ ~Active(n) /\ ~Newest(n)
  <2>1. ~Active(n) /\ ~Newest(n)
        BY <1>1 DEF Active, Newest, NoRun, Statements, InItem
  <2>2. Latest(n)
        BY <1>1, <2>1 DEF Latest
  <2>3. ItemOK(n)
        BY <1>1 DEF ItemOK, HasSheet, Fetched, InItem, Applying
  <2> QED BY <2>1, <2>2, <2>3
<1> QED BY <1>2, <1>3, <1>4 DEF ItemsInv

\* What holds until something disturbs the runs.
KeptInv == AppliedInv /\ SheetsInv /\ (Undisturbed => ItemsInv)

\* The statements of a run.
LEMMA ProcessKeeps ==
    ASSUME Calm, TypeInv', NEW n \in Runs, Process(n) PROVE ItemsInv'
<1>1. CASE ProcessItem(n)
      BY <1>1, FindKeeps, MatchKeeps, WriteKeeps, AttributesKeep, CompletionKeeps, EndKeeps,
         NothingThrown DEF ProcessItem
<1>2. CASE MarkRunning(n) \/ MarkFinished(n)
      BY <1>2, MarkRunningKeeps, MarkFinishedKeeps
<1> QED BY <1>1, <1>2, NothingThrown DEF Process

\* Every other step is a disturbance.
LEMMA KeptNext == KeptInv /\ [Next]_vars => KeptInv'
<1> SUFFICES ASSUME KeptInv, [Next]_vars PROVE KeptInv'
    OBVIOUS
<1>1. AppliedInv' /\ SheetsInv' /\ TypeInv /\ TypeInv'
      BY AppliedNext, SheetsNext DEF KeptInv, AppliedInv
<1> SUFFICES ASSUME Undisturbed' PROVE ItemsInv'
    BY <1>1 DEF KeptInv
<1>2. overlaps \in Nat /\ deletes \in Nat /\ faults \in Nat
      BY <1>1 DEF TypeInv, TypeOK
<1>3. overlaps' = 0 /\ deletes' = 0 /\ faults' = 0
      BY DEF Undisturbed
<1>4. CASE UNCHANGED vars
  <2>1. ItemsInv
        BY <1>3, <1>4 DEF KeptInv, Undisturbed, vars
  <2>2. UNCHANGED <<sheet, mapping, run, proc>>
        BY <1>4 DEF vars
  <2>3. \A n \in Runs : ItemOK(n) => ItemOK(n)'
        BY <2>2 DEF ItemOK, Exists, Item, HasSheet, Full
  <2>4. /\ \A r \in Records : (Sound(r) => Sound(r)') /\ (Settled(r) => Settled(r)')
        /\ \A f \in Ids : Origin(f) => Origin(f)'
        BY <2>2 DEF Sound, Settled, AppliesTo, Item, Origin, Exists
  <2>5. ASSUME NEW n \in Runs
        PROVE  /\ Latest(n) => Latest(n)'
               /\ Active(n)' => Active(n) /\ (Until(n, proc[n].i) => Until(n, proc[n].i)')
               /\ Newest(n)' => /\ Newest(n)
                                /\ Until(n, Len(run[n].content) + 1) =>
                                      Until(n, Len(run[n].content) + 1)'
        BY <2>2 DEF Latest, Active, Newest, Until, Superseded, Has, Exists, Full
  <2> QED BY <2>1, <2>3, <2>4, <2>5 DEF ItemsInv
<1>5. ASSUME NEW n \in Runs, Process(n) PROVE ItemsInv'
  <2>1. UNCHANGED Steady
        BY <1>5 DEF Process, ProcessItem, MarkRunning, Find, Reject, Match, Orphaned, Skip, Create,
                    Update, ReadValues, Put, Cut, CutNothing, Count, Store, LogItem, Map, LogError,
                    MarkFinished, LogAbort, MarkFailed
  <2>2. Calm
        BY <1>3, <2>1 DEF KeptInv, Calm, Undisturbed, Steady
  <2> QED BY <1>1, <1>5, <2>2, ProcessKeeps
<1>6. ASSUME NEW n \in Runs, NEW mode, NEW c, Start(n, mode, c) PROVE ItemsInv'
  <2>1. overlaps = 0 /\ deletes' = deletes /\ faults' = faults
        BY <1>2, <1>3, <1>6 DEF Start
  <2>2. Calm
        BY <1>3, <2>1 DEF KeptInv, Calm, Undisturbed
  <2> QED BY <1>1, <1>3, <1>6, <2>2, StartKeeps
<1>7. ASSUME NEW f \in Ids, Delete(f) PROVE FALSE
      BY <1>2, <1>3, <1>7 DEF Delete
<1>8. ~Fault
      BY <1>2, <1>3 DEF Fault
<1> QED BY <1>4, <1>5, <1>6, <1>7, <1>8 DEF Next, StatementFails, Crash

\* As long as runs do not overlap, no sheet is deleted and nothing fails, a run
\* that is FINISHED has all its items in their sheets: the attributes of each
\* record's last item are there, and in full mode no others.
THEOREM PersistedUndisturbed == Spec => []PersistedWithoutFaults
<1>1. KeptInv => PersistedWithoutFaults
  <2> SUFFICES ASSUME KeptInv, Undisturbed, NEW n \in Runs, Newest(n) PROVE Persisted(n)
      BY DEF PersistedWithoutFaults, PersistedWhenFinished, Undisturbed
  <2>1. Until(n, Len(run[n].content) + 1)
        BY DEF KeptInv, ItemsInv
  <2>2. run[n] \in SyncRun
        BY DEF KeptInv, AppliedInv, TypeInv, TypeOK, Newest, NoRun
  <2>3. \A i \in DOMAIN run[n].content : i \in Nat /\ i < Len(run[n].content) + 1
        BY <2>2, ContentTyped
  <2> QED BY <2>1, <2>3 DEF Persisted, Until, Superseded, Has
<1>2. Init => KeptInv
      BY AppliedInit, SheetsInit, ItemsInit DEF KeptInv
<1>3. Spec => []KeptInv
      BY <1>2, KeptNext, PTL DEF Spec
<1> QED BY <1>1, <1>3, PTL
=============================================================================
