----------------------- MODULE WebhookDeliveryProofs -----------------------
(***************************************************************************)
(* For any number of subscriptions, events, workers and attempts, and any  *)
(* faults: the attempts of a delivery are made in order, deliveries keep   *)
(* the promise of DeliveryContract, the log has what was requested         *)
(* (LogAccurate), and failed deliveries are retried as configured          *)
(* (RetriesAsConfigured).  With one worker, only faults repeat a delivery  *)
(* that was answered (RepeatedByFaultsOnly).                               *)
(***************************************************************************)
EXTENDS WebhookDelivery, FiniteSetTheorems, TLAPS

-----------------------------------------------------------------------------
(* Types                                                                   *)

LEMMA IdleType == Idle \in [at : AtLabels, job : Jobs, ignore : BOOLEAN, ok : BOOLEAN]
<1>1. NoJob \in Jobs
      BY ConstantsAssumption DEF NoJob, Jobs
<1> QED BY <1>1 DEF Idle, AtLabels

LEMMA FirstType == \A e \in Events, h \in Hooks : First(e, h) \in Jobs
BY ConstantsAssumption DEF First, Jobs

\* What each worker holds is well typed.
LEMMA WorkerTypes ==
    ASSUME TypeOK, NEW w \in Workers
    PROVE  /\ worker[w] \in [at : AtLabels, job : Jobs, ignore : BOOLEAN, ok : BOOLEAN]
           /\ worker[w].at \in AtLabels /\ worker[w].job \in Jobs
           /\ worker[w].job.hook \in Hooks
BY DEF TypeOK, Jobs

\* An existing subscription has a configuration.
LEMMA ActiveType ==
    ASSUME TypeOK, NEW h \in Hooks, Active(h)
    PROVE  hook[h].config \in Settings /\ hook[h].config.ignoreError \in BOOLEAN
<1>1. hook[h] \in {Unused, Gone} \cup {Row(c) : c \in Settings} /\ hook[h].state = "exists"
      BY DEF TypeOK, Active, Exists
<1>2. PICK c \in Settings : hook[h] = Row(c)
      BY <1>1 DEF Unused, Gone
<1> QED BY <1>2 DEF Row, Settings

\* Counting one more row of an attempt.
LEMMA LogType ==
    ASSUME TypeOK, NEW j \in Jobs
    PROVE  /\ [log EXCEPT ![j].good = @ + 1] \in [Jobs -> [good : Nat, bad : Nat]]
           /\ [log EXCEPT ![j].bad = @ + 1] \in [Jobs -> [good : Nat, bad : Nat]]
<1>1. log[j] \in [good : Nat, bad : Nat] /\ log[j].good + 1 \in Nat /\ log[j].bad + 1 \in Nat
      BY DEF TypeOK
<1>2. [log[j] EXCEPT !.good = @ + 1] \in [good : Nat, bad : Nat]
      BY <1>1
<1>3. [log[j] EXCEPT !.bad = @ + 1] \in [good : Nat, bad : Nat]
      BY <1>1
<1> QED BY <1>2, <1>3 DEF TypeOK

LEMMA WorkerAtType ==
    ASSUME TypeOK, NEW w \in Workers, NEW l \in AtLabels, WorkerAt(w, l)
    PROVE  worker' \in [Workers -> [at : AtLabels, job : Jobs, ignore : BOOLEAN, ok : BOOLEAN]]
BY DEF TypeOK, WorkerAt

\* A retry is an attempt within the bound.
LEMMA NextType ==
    ASSUME NEW j \in Jobs, j.attempt < MaxAttempts
    PROVE  /\ NextAttempt(j) \in Jobs
           /\ NextAttempt(j).event = j.event /\ NextAttempt(j).hook = j.hook
           /\ NextAttempt(j).attempt = j.attempt + 1
           /\ NextAttempt(j).attempt > 1
           /\ [NextAttempt(j) EXCEPT !.attempt = @ - 1] = j
<1>1. /\ j.event \in Events /\ j.hook \in Hooks
      /\ j.attempt \in Nat /\ j.attempt >= 1 /\ MaxAttempts \in Nat
      BY ConstantsAssumption DEF Jobs
<1>2. j = [event |-> j.event, hook |-> j.hook, attempt |-> j.attempt]
      BY DEF Jobs
<1>3. NextAttempt(j) = [event |-> j.event, hook |-> j.hook, attempt |-> j.attempt + 1]
      BY <1>2 DEF NextAttempt, Jobs
<1>4. j.attempt + 1 \in 1 .. MaxAttempts /\ j.attempt + 1 - 1 = j.attempt
      BY <1>1
<1>5. NextAttempt(j) \in Jobs
      BY <1>1, <1>3, <1>4 DEF Jobs
<1> DEFINE k == [NextAttempt(j) EXCEPT !.attempt = @ - 1]
<1>6. NextAttempt(j).attempt - 1 = j.attempt
      BY <1>1, <1>3, <1>4
<1>7. k \in Jobs /\ k.event = j.event /\ k.hook = j.hook /\ k.attempt = j.attempt
      BY <1>1, <1>3, <1>5, <1>6 DEF Jobs
<1>8. k = j
      BY <1>7 DEF Jobs
<1> QED BY <1>1, <1>3, <1>5, <1>8

LEMMA ThrownType == \A w \in Workers : Thrown(worker[w].at) \in AtLabels
BY DEF Thrown, AtLabels

LEMMA TypeInit == Init => TypeOK
<1> SUFFICES ASSUME Init PROVE TypeOK
    OBVIOUS
<1>1. hook \in [Hooks -> {Unused, Gone} \cup {Row(c) : c \in Settings}]
      BY ConstantsAssumption DEF Init
<1> QED BY <1>1, IdleType DEF Init, TypeOK

LEMMA TypeStep == TypeOK /\ [Next]_vars => TypeOK'
<1> SUFFICES ASSUME TypeOK, [Next]_vars PROVE TypeOK'
    OBVIOUS
<1> USE DEF TypeOK
<1>1. ASSUME Edits PROVE TypeOK'
    <2>1. ASSUME NEW h \in Hooks, Remove(h) PROVE TypeOK'
          BY <2>1 DEF Remove, Edit
    <2>2. ASSUME NEW h \in Hooks, NEW c \in Configs, Register(h, c) \/ Update(h, c)
          PROVE  TypeOK'
        <3>1. Row(c) \in {Row(d) : d \in Settings}
              BY ConstantsAssumption
        <3> QED BY <2>2, <3>1 DEF Register, Update, Edit
    <2>3. ASSUME NEW S \in SUBSET Tags, Retag(S) PROVE TypeOK'
          BY <2>3 DEF Retag, Edit
    <2> QED BY <1>1, <2>1, <2>2, <2>3 DEF Edits
<1>2. ASSUME NEW e \in Events, Emit(e) \/ Handle(e) \/ HandlerFails(e) PROVE TypeOK'
    <2>1. CASE Emit(e)
          BY <2>1 DEF Emit, HandlerAt
    <2>2. CASE FindHooks(e)
        <3> DEFINE found == {[id |-> h, tagSets |-> hook[h].config.tagSets] :
                                h \in {g \in Hooks : Interested(g, e)}}
        <3>1. \A h \in Hooks : Interested(h, e) => hook[h].config \in Settings
              BY ActiveType DEF Interested
        <3>2. found \in SUBSET Found
              BY <3>1 DEF Found, Settings
        <3>3. todo' = [todo EXCEPT ![e] = found]
              BY <2>2 DEF FindHooks
        <3>4. todo' \in [Events -> SUBSET Found]
              BY <3>2, <3>3
        <3> QED BY <2>2, <3>4 DEF FindHooks, HandlerAt
    <2>3. CASE FilterByTagSets(e)
          BY <2>3 DEF FilterByTagSets, HandlerAt
    <2>4. ASSUME NEW t \in todo[e], Enqueue(e, t) PROVE TypeOK'
          BY <2>4 DEF Enqueue, HandlerAt, Open
    <2>5. CASE HandlerFails(e)
          BY <2>5 DEF HandlerFails, HandlerAt, Fault
    <2> QED BY <1>2, <2>1, <2>2, <2>3, <2>4, <2>5 DEF Handle
<1>3. ASSUME NEW j \in Jobs, Promote(j) \/ Recover(j) PROVE TypeOK'
      BY <1>3 DEF Promote, Recover, Open
<1>4. ASSUME NEW j \in Jobs, NEW w \in Workers, Take(w, j) PROVE TypeOK'
    <2>1. [Idle EXCEPT !.at = "load", !.job = j]
              \in [at : AtLabels, job : Jobs, ignore : BOOLEAN, ok : BOOLEAN]
          BY IdleType DEF AtLabels
    <2> QED BY <1>4, <2>1 DEF Take, Open
<1>5. ASSUME NEW w \in Workers, Process(w) PROVE TypeOK'
    <2> USE WorkerTypes
    <2>1. CASE Load(w)
        <3>1. Active(worker[w].job.hook) => hook[worker[w].job.hook].config.ignoreError \in BOOLEAN
              BY ActiveType
        <3>2. worker' \in [Workers -> [at : AtLabels, job : Jobs,
                                       ignore : BOOLEAN, ok : BOOLEAN]]
            <4>1. CASE Active(worker[w].job.hook)
                <5>1. worker' = [worker EXCEPT ![w].at = "post",
                                    ![w].ignore = hook[worker[w].job.hook].config.ignoreError]
                      BY <2>1, <4>1 DEF Load
                <5> QED BY <3>1, <4>1, <5>1 DEF AtLabels
            <4>2. CASE ~Active(worker[w].job.hook)
                  BY <2>1, <4>2, WorkerAtType DEF Load, AtLabels
            <4> QED BY <4>1, <4>2
        <3> QED BY <2>1, <3>2 DEF Load, Local
    <2>2. ASSUME NEW o \in {"ok", "bad", "none"}, Post(w, o) PROVE TypeOK'
          BY <2>2 DEF Post, AtLabels, Local
    <2>3. CASE Record(w)
        <3>1. AfterRecord(w) \in AtLabels
              BY DEF AfterRecord, AtLabels
        <3>2. log' \in [Jobs -> [good : Nat, bad : Nat]]
              BY <2>3, LogType DEF Record
        <3> QED BY <2>3, <3>1, <3>2, WorkerAtType DEF Record, Local
    <2>4. CASE RecordError(w)
        <3>1. log' \in [Jobs -> [good : Nat, bad : Nat]]
              BY <2>4, LogType DEF RecordError
        <3> QED BY <2>4, <3>1, WorkerAtType DEF RecordError, Local, AtLabels
    <2>5. CASE RecordOrphan(w)
          BY <2>5, WorkerAtType, ThrownType DEF RecordOrphan, Local
    <2>6. CASE ScheduleRetry(w)
          BY <2>6, WorkerAtType DEF ScheduleRetry, Local, AtLabels, Added, Open
    <2>7. CASE Close(w)
          BY <2>7, IdleType DEF Close
    <2> QED BY <1>5, <2>1, <2>2, <2>3, <2>4, <2>5, <2>6, <2>7 DEF Process
<1>6. ASSUME NEW w \in Workers, StatementFails(w) PROVE TypeOK'
      BY <1>6, WorkerAtType, ThrownType DEF StatementFails, Local, Fault
<1>7. CASE Crash
      BY <1>7, IdleType DEF Crash, Fault
<1>8. CASE UNCHANGED vars
      BY <1>8 DEF vars
<1> QED BY <1>1, <1>2, <1>3, <1>4, <1>5, <1>6, <1>7, <1>8 DEF Next

\* Every variable of the delivery keeps its type; no attempt beyond the bound is
\* ever queued, logged or made.
THEOREM TypeCorrect == Spec => []TypeOK
<1> QED BY TypeInit, TypeStep, PTL DEF Spec

-----------------------------------------------------------------------------
(* The inductive invariant                                                 *)

Busy(w) == worker[w].at # "idle"

\* The labels after the request of an attempt.
Made == {"record", "recordError", "retry", "retryError"}

\* A worker's job is active and nobody else's.
Owned ==
    \A w \in Workers :
        Busy(w) =>
            /\ job[worker[w].job] = "active"
            /\ worker[w].at \in Made => sent[worker[w].job].posts > 0
            /\ \A v \in Workers : Busy(v) /\ worker[v].job = worker[w].job => v = w

\* What a handler has still to queue is not queued, and stands there once.
Fanning ==
    \A e \in Events :
        /\ handler[e] \in {"new", "query"} =>
              todo[e] = {} /\ \A h \in Hooks : job[First(e, h)] = "none"
        /\ \A t \in todo[e] :
              /\ job[First(e, t.id)] = "none"
              /\ \A u \in todo[e] : u.id = t.id => u = t

\* A delivery begins with its first attempt.
FirstKnown == \A j \in Jobs : job[j] # "none" => job[First(j.event, j.hook)] # "none"

Inv == TypeOK /\ Owned /\ Fanning /\ FirstKnown /\ AttemptsInOrder

\* A job has the fields of a job, and the first attempt is the one numbered 1.
LEMMA JobFields ==
    ASSUME NEW j \in Jobs
    PROVE  /\ j.event \in Events /\ j.hook \in Hooks /\ j.attempt \in Nat
           /\ First(j.event, j.hook) \in Jobs
           /\ j.attempt = 1 => j = First(j.event, j.hook)
           /\ j.attempt > 1 => [j EXCEPT !.attempt = @ - 1] \in Jobs
<1>1. /\ j.event \in Events /\ j.hook \in Hooks /\ j.attempt \in 1 .. MaxAttempts
      /\ MaxAttempts \in Nat
      BY ConstantsAssumption DEF Jobs
<1>2. j.attempt > 1 => j.attempt - 1 \in 1 .. MaxAttempts
      BY <1>1
<1>3. j.attempt > 1 => [j EXCEPT !.attempt = @ - 1] \in Jobs
      BY <1>1, <1>2 DEF Jobs
<1>4. j.attempt = 1 => j = First(j.event, j.hook)
      BY DEF First, Jobs
<1> QED BY <1>1, <1>3, <1>4, FirstType

\* First is injective, and its attempts are numbered 1.
LEMMA FirstFields ==
    \A e \in Events, h \in Hooks :
        First(e, h).event = e /\ First(e, h).hook = h /\ First(e, h).attempt = 1
BY DEF First

LEMMA InvInit == Init => Inv
<1> SUFFICES ASSUME Init PROVE Inv
    OBVIOUS
<1>1. TypeOK
      BY TypeInit
<1>2. Owned
      BY DEF Init, Owned, Busy, Idle
<1>3. Fanning
      BY FirstType DEF Init, Fanning
<1>4. FirstKnown /\ AttemptsInOrder
      BY DEF Init, FirstKnown, AttemptsInOrder
<1> QED BY <1>1, <1>2, <1>3, <1>4 DEF Inv

\* A step that neither queues a job nor makes an attempt keeps the order.
LEMMA OrderKept ==
    ASSUME Inv, sent' = sent, \A j \in Jobs : job'[j] = "none" <=> job[j] = "none"
    PROVE  FirstKnown' /\ AttemptsInOrder'
<1>1. FirstKnown'
      BY JobFields DEF Inv, FirstKnown
<1>2. AttemptsInOrder'
      BY DEF Inv, AttemptsInOrder
<1> QED BY <1>1, <1>2

\* And, if it leaves the handlers alone, what they are about to queue.
LEMMA FanningKept ==
    ASSUME Inv, UNCHANGED <<handler, todo>>,
           \A j \in Jobs : j.attempt = 1 => (job'[j] = "none" <=> job[j] = "none")
    PROVE  Fanning'
<1>1. \A e \in Events, h \in Hooks :
          First(e, h) \in Jobs /\ (job'[First(e, h)] = "none" <=> job[First(e, h)] = "none")
      BY FirstType, FirstFields
<1>2. \A e \in Events : \A t \in todo[e] : t.id \in Hooks
      BY DEF Inv, TypeOK, Found
<1> QED BY <1>1, <1>2 DEF Inv, Fanning

\* Workers that keep their jobs, while no active job changes.
LEMMA OwnedKept ==
    ASSUME Inv, UNCHANGED worker,
           \A j \in Jobs : sent'[j].posts = sent[j].posts,
           \A w \in Workers : Busy(w) => job'[worker[w].job] = job[worker[w].job]
    PROVE  Owned'
BY WorkerTypes DEF Inv, Owned, Busy

\* A step of one worker that keeps its job.
LEMMA OwnedStep ==
    ASSUME Inv, NEW w \in Workers, Busy(w), worker[w].at # "post",
           NEW l \in AtLabels, WorkerAt(w, l), l \in Made => worker[w].at \in Made,
           sent' = sent, \A j \in Jobs : job[j] = "active" => job'[j] = "active"
    PROVE  Owned'
<1>1. \A v \in Workers : /\ worker'[v].job = worker[v].job
                         /\ v # w => worker'[v].at = worker[v].at
      BY DEF WorkerAt, Inv, TypeOK
<1>2. worker'[w].at = l
      BY DEF WorkerAt, Inv, TypeOK
<1>3. \A v \in Workers : worker[v].job \in Jobs
      BY WorkerTypes DEF Inv
<1> QED BY <1>1, <1>2, <1>3 DEF Inv, Owned, Busy

LEMMA EditsStep ==
    ASSUME Inv, Edits PROVE Inv'
<1>1. UNCHANGED <<handler, todo, job, worker, sent>>
      BY DEF Edits, Remove, Register, Update, Retag
<1>2. TypeOK'
      BY TypeStep DEF Inv, Next
<1> QED BY <1>1, <1>2, OwnedKept, OrderKept, FanningKept DEF Inv

LEMMA HandlerStep ==
    ASSUME Inv, NEW e \in Events, Emit(e) \/ Handle(e) \/ HandlerFails(e)
    PROVE  Inv'
<1>1. TypeOK'
      BY TypeStep DEF Inv, Next
<1>2. UNCHANGED <<worker, sent>>
      BY DEF Emit, Handle, FindHooks, FilterByTagSets, Enqueue, HandlerFails
<1>3. ASSUME UNCHANGED job, todo'[e] \subseteq todo[e],
             handler'[e] \in {"new", "query"} => handler[e] \in {"new", "query"},
             \A f \in Events \ {e} : handler'[f] = handler[f] /\ todo'[f] = todo[f]
      PROVE  Inv'
    <2>1. Fanning'
          BY <1>3 DEF Inv, Fanning
    <2> QED BY <1>1, <1>2, <1>3, <2>1, OwnedKept, OrderKept DEF Inv
<1>4. CASE Emit(e)
      BY <1>3, <1>4 DEF Emit, HandlerAt, Inv, TypeOK
<1>5. CASE FindHooks(e)
    <2> DEFINE found == {[id |-> h, tagSets |-> hook[h].config.tagSets] :
                            h \in {g \in Hooks : Interested(g, e)}}
    <2>1. /\ todo' = [todo EXCEPT ![e] = found] /\ handler[e] = "query"
          /\ UNCHANGED job
          BY <1>5 DEF FindHooks
    <2>2. \A f \in Events : f # e => handler'[f] = handler[f]
          BY <1>5 DEF FindHooks, HandlerAt, Inv, TypeOK
    <2>3. handler'[e] \notin {"new", "query"}
          BY <1>5 DEF FindHooks, HandlerAt, Inv, TypeOK
    <2>4. \A t \in found : t.id \in Hooks /\ \A u \in found : u.id = t.id => u = t
          OBVIOUS
    <2>5. \A t \in todo'[e] : /\ job'[First(e, t.id)] = "none"
                              /\ \A u \in todo'[e] : u.id = t.id => u = t
          BY <2>1, <2>4 DEF Inv, Fanning, TypeOK
    <2>6. Fanning'
          BY <2>1, <2>2, <2>3, <2>5 DEF Inv, Fanning, TypeOK
    <2> QED BY <1>1, <1>2, <2>1, <2>6, OwnedKept, OrderKept DEF Inv
<1>6. CASE FilterByTagSets(e)
      BY <1>3, <1>6 DEF FilterByTagSets, HandlerAt, Inv, TypeOK
<1>7. ASSUME NEW t \in todo[e], Enqueue(e, t) PROVE Inv'
    <2> DEFINE j == First(e, t.id)
    <2>1. t.id \in Hooks /\ j \in Jobs /\ job[j] = "none"
          BY FirstType DEF Inv, TypeOK, Found, Fanning
    <2>2. job' = [job EXCEPT ![j] = "wait"] /\ todo' = [todo EXCEPT ![e] = @ \ {t}]
          BY <1>7 DEF Enqueue
    <2>3. \A k \in Jobs : k # j => job'[k] = job[k]
          BY <2>2 DEF Inv, TypeOK
    <2>4. job'[j] = "wait"
          BY <2>1, <2>2 DEF Inv, TypeOK
    <2>5. Owned'
        <3>1. \A w \in Workers : Busy(w) => worker[w].job # j
              BY <2>1 DEF Inv, Owned
        <3>2. \A w \in Workers : worker[w].job \in Jobs
              BY WorkerTypes DEF Inv
        <3> QED BY <1>2, <2>3, <3>1, <3>2, OwnedKept
    <2>6. FirstKnown'
        <3>1. First(j.event, j.hook) = j /\ j.attempt = 1
              BY <2>1, FirstFields
        <3>2. \A k \in Jobs : job[k] # "none" => job'[k] # "none"
              BY <2>3, <2>4
        <3>3. \A k \in Jobs : First(k.event, k.hook) \in Jobs
              BY JobFields
        <3>4. ASSUME NEW k \in Jobs, job'[k] # "none" PROVE job'[First(k.event, k.hook)] # "none"
            <4>1. CASE k = j
                  BY <3>1, <4>1, <2>4
            <4>2. CASE k # j
                  BY <2>3, <3>2, <3>3, <3>4, <4>2 DEF Inv, FirstKnown
            <4> QED BY <4>1, <4>2
        <3> QED BY <3>4 DEF FirstKnown
    <2>7. AttemptsInOrder'
        <3>1. ASSUME NEW k \in Jobs
              PROVE  /\ k.attempt > 1 /\ job'[k] # "none" =>
                            sent'[[k EXCEPT !.attempt = @ - 1]].posts > 0
                     /\ sent'[k].posts > 0 => job'[k] # "none"
            <4>1. CASE k = j
                <5>1. k.attempt = 1
                      BY <2>1, <4>1, FirstFields
                <5> QED BY <2>4, <4>1, <5>1
            <4>2. CASE k # j
                  BY <1>2, <2>3, <4>2 DEF Inv, AttemptsInOrder
            <4> QED BY <4>1, <4>2
        <3> QED BY <3>1 DEF AttemptsInOrder
    <2>8. Fanning'
        <3>1. \A f \in Events : /\ f # e => handler'[f] = handler[f] /\ todo'[f] = todo[f]
                                /\ todo'[f] \subseteq todo[f]
              BY <1>7, <2>2 DEF Enqueue, HandlerAt, Inv, TypeOK
        <3>2. handler'[e] \notin {"new", "query"}
              BY <1>7 DEF Enqueue, HandlerAt, Inv, TypeOK
        <3>3. \A f \in Events, h \in Hooks : First(f, h) \in Jobs
              BY FirstType
        <3>4. \A f \in Events, h \in Hooks : f # e => First(f, h) # j
              BY FirstFields, <2>1
        <3>5. \A u \in todo'[e] : u \in todo[e] /\ u # t
              BY <2>2 DEF Inv, TypeOK
        <3>6. \A u \in todo'[e] : u.id \in Hooks /\ First(e, u.id) # j
              BY <3>5, <2>1, FirstFields DEF Inv, Fanning, TypeOK, Found
        <3>7. \A u \in todo'[e] : /\ job'[First(e, u.id)] = "none"
                                  /\ \A v \in todo'[e] : v.id = u.id => v = u
              BY <2>3, <3>3, <3>5, <3>6 DEF Inv, Fanning
        <3>8. \A f \in Events \ {e} :
                 \A u \in todo[f] : u.id \in Hooks
              BY DEF Inv, TypeOK, Found
        <3>9. \A f \in Events \ {e}, h \in Hooks : job'[First(f, h)] = job[First(f, h)]
              BY <2>3, <3>3, <3>4
        <3> QED BY <3>1, <3>2, <3>7, <3>8, <3>9 DEF Inv, Fanning
    <2> QED BY <1>1, <2>5, <2>6, <2>7, <2>8 DEF Inv
<1>8. CASE HandlerFails(e)
      BY <1>3, <1>8 DEF HandlerFails, HandlerAt, Inv, TypeOK
<1> QED BY <1>4, <1>5, <1>6, <1>7, <1>8 DEF Handle

LEMMA QueueStep ==
    ASSUME Inv, NEW j \in Jobs, Promote(j) \/ Recover(j)
    PROVE  Inv'
<1>1. TypeOK'
      BY TypeStep DEF Inv, Next
<1>2. UNCHANGED <<worker, sent, handler, todo>>
      BY DEF Promote, Recover
<1>3. \A k \in Jobs : k # j => job'[k] = job[k]
      BY DEF Promote, Recover, Inv, TypeOK
<1>4. job[j] # "none" /\ job'[j] # "none"
      BY DEF Promote, Recover, Inv, TypeOK
<1>5. \A w \in Workers : Busy(w) => worker[w].job # j
      BY DEF Promote, Recover, Inv, Owned, Busy
<1>6. \A w \in Workers : worker[w].job \in Jobs
      BY WorkerTypes DEF Inv
<1>7. Owned'
      BY <1>2, <1>3, <1>5, <1>6, OwnedKept
<1> QED BY <1>1, <1>2, <1>3, <1>4, <1>7, OrderKept, FanningKept DEF Inv

LEMMA TakeStep ==
    ASSUME Inv, NEW j \in Jobs, NEW w \in Workers, Take(w, j)
    PROVE  Inv'
<1>1. TypeOK'
      BY TypeStep DEF Inv, Next
<1>2. UNCHANGED <<sent, handler, todo>> /\ job[j] = "wait"
      BY DEF Take
<1>3. job'[j] = "active" /\ \A k \in Jobs : k # j => job'[k] = job[k]
      BY DEF Take, Inv, TypeOK
<1>4. worker'[w].job = j /\ worker'[w].at = "load"
      BY DEF Take, Inv, TypeOK, Idle
<1>5. \A v \in Workers : v # w => worker'[v] = worker[v]
      BY DEF Take, Inv, TypeOK
<1>6. \A v \in Workers : Busy(v) => worker[v].job # j
      BY <1>2 DEF Inv, Owned
<1>7. \A v \in Workers : worker[v].job \in Jobs
      BY WorkerTypes DEF Inv
<1>8. Owned'
      BY <1>2, <1>3, <1>4, <1>5, <1>6, <1>7 DEF Inv, Owned, Busy, Made
<1> QED BY <1>1, <1>2, <1>3, <1>8, OrderKept, FanningKept DEF Inv

LEMMA CloseStep ==
    ASSUME Inv, NEW w \in Workers, Close(w)
    PROVE  Inv'
<1> DEFINE j == worker[w].job
<1>1. TypeOK'
      BY TypeStep DEF Inv, Next, Process
<1>2. UNCHANGED <<sent, handler, todo>> /\ j \in Jobs /\ job[j] = "active"
      BY WorkerTypes DEF Close, Inv, Owned, Busy
<1>3. job'[j] # "none" /\ \A k \in Jobs : k # j => job'[k] = job[k]
      BY <1>2 DEF Close, Inv, TypeOK
<1>4. worker'[w].at = "idle"
      BY DEF Close, Inv, TypeOK, Idle
<1>5. \A v \in Workers : v # w => worker'[v] = worker[v]
      BY DEF Close, Inv, TypeOK
<1>6. \A v \in Workers : Busy(v) /\ v # w => worker[v].job # j
      BY DEF Close, Inv, Owned, Busy
<1>7. \A v \in Workers : worker[v].job \in Jobs
      BY WorkerTypes DEF Inv
<1>8. Owned'
      BY <1>2, <1>3, <1>4, <1>5, <1>6, <1>7 DEF Inv, Owned, Busy
<1> QED BY <1>1, <1>2, <1>3, <1>8, OrderKept, FanningKept DEF Inv

LEMMA PostStep ==
    ASSUME Inv, NEW w \in Workers, NEW o \in {"ok", "bad", "none"}, Post(w, o)
    PROVE  Inv'
<1> DEFINE j == worker[w].job
<1>1. TypeOK'
      BY TypeStep DEF Inv, Next, Process
<1>2. UNCHANGED <<job, handler, todo>> /\ j \in Jobs /\ job[j] = "active"
      BY WorkerTypes DEF Post, Local, Inv, Owned, Busy
<1>3. sent'[j].posts = sent[j].posts + 1 /\ sent[j].posts \in Nat
      BY <1>2 DEF Post, Inv, TypeOK
<1>4. \A k \in Jobs : k # j => sent'[k] = sent[k]
      BY <1>2 DEF Post, Inv, TypeOK
<1>5. worker'[w].job = j /\ \A v \in Workers : v # w => worker'[v] = worker[v]
      BY DEF Post, Inv, TypeOK
<1>6. worker[w].at = "post" /\ worker'[w].at # "idle"
      BY DEF Post, Inv, TypeOK
<1>7. \A v \in Workers : worker[v].job \in Jobs
      BY WorkerTypes DEF Inv
<1>8. \A k \in Jobs : sent[k].posts > 0 => sent'[k].posts > 0
      BY <1>3, <1>4
<1>9. sent'[j].posts > 0
      BY <1>3
<1>10. Owned'
      BY <1>2, <1>5, <1>6, <1>7, <1>8, <1>9 DEF Inv, Owned, Busy
<1>11. FirstKnown'
      BY <1>2 DEF Inv, FirstKnown
<1>12. \A k \in Jobs : k.attempt > 1 => [k EXCEPT !.attempt = @ - 1] \in Jobs
      BY JobFields
<1>13. AttemptsInOrder'
      BY <1>2, <1>4, <1>8, <1>12 DEF Inv, AttemptsInOrder
<1> QED BY <1>1, <1>2, <1>10, <1>11, <1>13, FanningKept DEF Inv

\* The steps of a worker that make no attempt and queue none.
LEMMA LocalStep ==
    ASSUME Inv, NEW w \in Workers,
           Load(w) \/ Record(w) \/ RecordError(w) \/ RecordOrphan(w) \/ StatementFails(w)
    PROVE  Inv'
<1>1. TypeOK'
      BY TypeStep DEF Inv, Next, Process
<1>2. UNCHANGED <<job, sent, handler, todo>>
      BY DEF Load, Record, RecordError, RecordOrphan, StatementFails, Local
<1>3. CASE Load(w)
    <2> DEFINE Moved == /\ \A v \in Workers : worker'[v].job = worker[v].job
                        /\ \A v \in Workers : v # w => worker'[v].at = worker[v].at
                        /\ worker'[w].at \notin Made
    <2>1. ASSUME Active(worker[w].job.hook) PROVE Moved
        <3>1. worker' = [worker EXCEPT ![w].at = "post",
                             ![w].ignore = hook[worker[w].job.hook].config.ignoreError]
              BY <1>3, <2>1 DEF Load
        <3>2. \A v \in Workers : v # w => worker'[v] = worker[v]
              BY <3>1 DEF Inv, TypeOK
        <3>3. worker'[w].job = worker[w].job /\ worker'[w].at = "post"
              BY <3>1, WorkerTypes DEF Inv, TypeOK
        <3> QED BY <3>2, <3>3 DEF Made
    <2>2. ASSUME ~Active(worker[w].job.hook) PROVE Moved
        <3>1. worker' = [worker EXCEPT ![w].at = "completed"]
              BY <1>3, <2>2 DEF Load, WorkerAt
        <3> QED BY <3>1 DEF Inv, TypeOK, Made
    <2>3. Moved /\ Busy(w)
          BY <1>3, <2>1, <2>2 DEF Load, Busy
    <2>4. Owned'
          BY <1>2, <2>3 DEF Inv, Owned, Busy
    <2> QED BY <1>1, <1>2, <2>4, OrderKept, FanningKept DEF Inv
<1>4. ASSUME NEW l \in AtLabels, WorkerAt(w, l), worker[w].at # "post", Busy(w),
             l \in Made => worker[w].at \in Made
      PROVE  Inv'
    <2>1. Owned'
          BY <1>2, <1>4, OwnedStep
    <2> QED BY <1>1, <1>2, <2>1, OrderKept, FanningKept DEF Inv
<1>5. CASE Record(w)
      BY <1>4, <1>5 DEF Record, AfterRecord, AtLabels, Busy, Made
<1>6. CASE RecordError(w)
      BY <1>4, <1>6 DEF RecordError, AtLabels, Busy, Made
<1>7. CASE RecordOrphan(w)
      BY <1>4, <1>7 DEF RecordOrphan, Thrown, AtLabels, Busy, Made
<1>8. CASE StatementFails(w)
      BY <1>4, <1>8 DEF StatementFails, Thrown, AtLabels, Busy, Made
<1> QED BY <1>3, <1>5, <1>6, <1>7, <1>8

\* The attempt a worker queues comes after its own, which it has made.
LEMMA RetryStep ==
    ASSUME Inv, NEW w \in Workers, ScheduleRetry(w)
    PROVE  Inv'
<1> DEFINE k == NextAttempt(worker[w].job)
<1>1. TypeOK'
      BY TypeStep DEF Inv, Next, Process
<1>2. /\ UNCHANGED <<sent, handler, todo>> /\ Busy(w) /\ worker[w].at \in Made
      /\ WorkerAt(w, "completed") /\ worker[w].at # "post"
      BY DEF ScheduleRetry, Local, Busy, Made
<1>3. CASE UNCHANGED job
    <2>1. Owned'
          BY <1>2, <1>3, OwnedStep DEF AtLabels, Made
    <2> QED BY <1>1, <1>2, <1>3, <2>1, OrderKept, FanningKept DEF Inv
<1>4. CASE job' # job
    <2>1. /\ worker[w].job \in Jobs /\ worker[w].job.attempt < MaxAttempts
          /\ job' = Added(k)
          BY <1>4, WorkerTypes DEF ScheduleRetry, Again, Inv
    <2>2. /\ k \in Jobs /\ k.attempt > 1 /\ [k EXCEPT !.attempt = @ - 1] = worker[w].job
          /\ k.event = worker[w].job.event /\ k.hook = worker[w].job.hook
          BY <2>1, NextType
    <2>3. job' = [job EXCEPT ![k] = IF @ = "none" THEN "delayed" ELSE @]
          BY <2>1 DEF Added
    <2>4. \A j \in Jobs : j # k => job'[j] = job[j]
          BY <2>3 DEF Inv, TypeOK
    <2>5. job'[k] # "none" /\ (job[k] # "none" => job'[k] = job[k])
          BY <2>2, <2>3 DEF Inv, TypeOK
    <2>6. Owned'
        <3>1. \A j \in Jobs : job[j] = "active" => job'[j] = "active"
              BY <2>4, <2>5
        <3> QED BY <1>2, <3>1, OwnedStep DEF AtLabels, Made
    <2>7. Fanning'
          BY <1>2, <2>2, <2>4, FanningKept
    <2>8. sent[worker[w].job].posts > 0 /\ job[worker[w].job] # "none"
          BY <1>2 DEF Inv, Owned
    <2>9. job[First(k.event, k.hook)] # "none" /\ First(k.event, k.hook) \in Jobs
          BY <2>1, <2>2, <2>8, JobFields DEF Inv, FirstKnown
    <2>10. FirstKnown'
        <3>1. \A j \in Jobs : job[j] # "none" => job'[j] # "none"
              BY <2>4, <2>5
        <3>2. \A j \in Jobs : job'[j] # "none" => j = k \/ job[j] # "none"
              BY <2>4
        <3>3. \A j \in Jobs : First(j.event, j.hook) \in Jobs
              BY JobFields
        <3> QED BY <2>9, <3>1, <3>2, <3>3 DEF Inv, FirstKnown
    <2>11. AttemptsInOrder'
        <3>1. ASSUME NEW j \in Jobs
              PROVE  /\ j.attempt > 1 /\ job'[j] # "none" =>
                            sent'[[j EXCEPT !.attempt = @ - 1]].posts > 0
                     /\ sent'[j].posts > 0 => job'[j] # "none"
            <4>1. CASE j = k
                  BY <1>2, <2>2, <2>5, <2>8, <4>1
            <4>2. CASE j # k
                  BY <1>2, <2>4, <4>2 DEF Inv, AttemptsInOrder
            <4> QED BY <4>1, <4>2
        <3> QED BY <3>1 DEF AttemptsInOrder
    <2> QED BY <1>1, <2>6, <2>7, <2>10, <2>11 DEF Inv
<1> QED BY <1>3, <1>4

LEMMA CrashStep ==
    ASSUME Inv, Crash PROVE Inv'
<1>1. TypeOK'
      BY TypeStep DEF Inv, Next
<1>2. UNCHANGED <<job, sent>>
      BY DEF Crash
<1>3. \A w \in Workers : worker'[w].at = "idle"
      BY DEF Crash, Idle
<1>4. \A e \in Events : /\ todo'[e] = {}
                        /\ handler'[e] \in {"new", "query"} => handler[e] = "new"
      BY DEF Crash
<1>5. Owned'
      BY <1>3 DEF Owned, Busy
<1>6. Fanning'
      BY <1>2, <1>4 DEF Inv, Fanning
<1> QED BY <1>1, <1>2, <1>5, <1>6, OrderKept DEF Inv

LEMMA InvStep == Inv /\ [Next]_vars => Inv'
<1> SUFFICES ASSUME Inv, [Next]_vars PROVE Inv'
    OBVIOUS
<1>1. CASE UNCHANGED vars
    <2>1. TypeOK'
          BY TypeStep DEF Inv
    <2>2. UNCHANGED <<handler, todo, job, worker, sent>>
          BY <1>1 DEF vars
    <2> QED BY <2>1, <2>2, OwnedKept, OrderKept, FanningKept DEF Inv
<1>2. ASSUME NEW w \in Workers, Process(w) \/ StatementFails(w) PROVE Inv'
      BY <1>2, LocalStep, PostStep, RetryStep, CloseStep DEF Process
<1>3. ASSUME NEW j \in Jobs, Promote(j) \/ Recover(j) \/ \E w \in Workers : Take(w, j)
      PROVE  Inv'
      BY <1>3, QueueStep, TakeStep
<1> QED BY <1>1, <1>2, <1>3, EditsStep, HandlerStep, CrashStep DEF Next

LEMMA Inductive == Spec => []Inv
<1> QED BY InvInit, InvStep, PTL DEF Spec

\* An attempt is queued only after the one before it was queued and made,
\* whatever crashes, stalls or is edited, for any number of workers.
THEOREM InOrder == Spec => []AttemptsInOrder
<1>1. Inv => AttemptsInOrder
      BY DEF Inv
<1> QED BY <1>1, Inductive, PTL

-----------------------------------------------------------------------------
(* Deliveries keep their contract                                          *)

\* No more jobs than attempts are allowed.
LEMMA DeliverySize ==
    ASSUME NEW e \in Events, NEW h \in Hooks
    PROVE  IsFiniteSet(Delivery(e, h)) /\ Cardinality(Delivery(e, h)) <= MaxAttempts
<1> DEFINE D == Delivery(e, h)
           f == [n \in 1 .. MaxAttempts |-> [event |-> e, hook |-> h, attempt |-> n]]
<1>1. MaxAttempts \in Nat /\ MaxAttempts >= 1
      BY ConstantsAssumption
<1>2. \A n \in 1 .. MaxAttempts : f[n] \in D
      BY DEF Delivery, Jobs
<1>3. ASSUME NEW j \in D PROVE j.attempt \in 1 .. MaxAttempts /\ f[j.attempt] = j
      BY DEF Delivery, Jobs
<1>4. f \in Surjection(1 .. MaxAttempts, D)
      BY <1>2, <1>3 DEF Surjection
<1>5. IsFiniteSet(1 .. MaxAttempts) /\ Cardinality(1 .. MaxAttempts) = MaxAttempts
      BY <1>1, FS_Interval
<1> HIDE DEF D, f
<1>6. IsFiniteSet(D) /\ Cardinality(D) <= MaxAttempts
      BY <1>4, <1>5, FS_Surjection
<1> QED BY <1>6 DEF D

LEMMA KnownSize ==
    ASSUME NEW e \in Events, NEW h \in Hooks
    PROVE  /\ IsFiniteSet(Known(e, h)) /\ Cardinality(Known(e, h)) \in Nat
           /\ Cardinality(Known(e, h)) <= MaxAttempts
<1>1. Known(e, h) \in SUBSET Delivery(e, h)
      BY DEF Known
<1>2. IsFiniteSet(Known(e, h)) /\ Cardinality(Known(e, h)) <= Cardinality(Delivery(e, h))
      BY <1>1, DeliverySize, FS_Subset
<1>3. Cardinality(Known(e, h)) \in Nat /\ Cardinality(Delivery(e, h)) \in Nat
      BY <1>2, DeliverySize, FS_CardinalityType
<1>4. MaxAttempts \in Nat
      BY ConstantsAssumption
<1> QED BY <1>2, <1>3, <1>4, DeliverySize

\* What the contract is told about a delivery, and that only the jobs of a
\* delivery count for it.
Attempts == [d \in Events \X Hooks |-> Cardinality(Known(d[1], d[2]))]
IsOpen == [d \in Events \X Hooks |-> OpenJobs(d[1], d[2]) # {}]

LEMMA OthersUnchanged ==
    ASSUME NEW j \in Jobs, \A k \in Jobs : k # j => job'[k] = job[k],
           NEW e \in Events, NEW h \in Hooks, <<e, h>> # <<j.event, j.hook>>
    PROVE  Known(e, h)' = Known(e, h) /\ OpenJobs(e, h)' = OpenJobs(e, h)
<1>1. \A k \in Delivery(e, h) : k \in Jobs /\ k # j
      BY DEF Delivery
<1> QED BY <1>1 DEF Known, OpenJobs, Delivery

\* A step that queues nothing ends a delivery or leaves it alone.
LEMMA FiledStep ==
    ASSUME TypeOK, NEW j \in Jobs, job[j] \in Open, job'[j] # "none",
           \A k \in Jobs : k # j => job'[k] = job[k]
    PROVE  [Contract!Next]_<<Attempts, IsOpen>>
<1> DEFINE e == j.event
           h == j.hook
           d == <<e, h>>
<1>1. e \in Events /\ h \in Hooks /\ d \in Events \X Hooks
      BY JobFields
<1>2. job[j] # "none" /\ job[j] \in Open
      BY DEF Open
<1>3. \A f \in Events, g \in Hooks : Known(f, g)' = Known(f, g)
      BY <1>2 DEF Known, Delivery
<1>4. Attempts' = Attempts
      BY <1>3 DEF Attempts
<1>5. \A c \in Events \X Hooks : c # d => IsOpen'[c] = IsOpen[c]
      BY <1>1, OthersUnchanged DEF IsOpen
<1>6. IsOpen[d]
      BY <1>1, <1>2 DEF IsOpen, OpenJobs, Delivery
<1>7. IsOpen'[d] \in BOOLEAN
      BY <1>1 DEF IsOpen
<1>8. IsOpen' = [IsOpen EXCEPT ![d] = IsOpen'[d]]
      BY <1>1, <1>5 DEF IsOpen
<1>9. CASE IsOpen'[d]
    <2>1. IsOpen' = IsOpen
          BY <1>1, <1>5, <1>6, <1>9 DEF IsOpen
    <2> QED BY <1>4, <2>1
<1>10. CASE ~IsOpen'[d]
    <2>1. Contract!End(d)
          BY <1>4, <1>6, <1>7, <1>8, <1>10 DEF Contract!End, Attempts, IsOpen
    <2> QED BY <1>1, <2>1 DEF Contract!Next
<1> QED BY <1>9, <1>10

\* A step that queues job j: one more attempt of its delivery, which is open
\* afterwards.
LEMMA QueuedStep ==
    ASSUME Inv, NEW j \in Jobs, job[j] = "none", job'[j] \in Open,
           \A k \in Jobs : k # j => job'[k] = job[k]
    PROVE  LET d == <<j.event, j.hook>>
           IN  /\ d \in Events \X Hooks
               /\ Attempts' = [Attempts EXCEPT ![d] = @ + 1]
               /\ Attempts[d] \in Nat /\ Attempts[d] < MaxAttempts
               /\ IsOpen' = [IsOpen EXCEPT ![d] = TRUE]
<1> DEFINE e == j.event
           h == j.hook
           d == <<e, h>>
<1>1. e \in Events /\ h \in Hooks /\ d \in Events \X Hooks
      BY JobFields
<1>2. job'[j] # "none"
      BY DEF Open
<1>3. \A f \in Events, g \in Hooks :
          <<f, g>> # d => Known(f, g)' = Known(f, g) /\ OpenJobs(f, g)' = OpenJobs(f, g)
      BY OthersUnchanged
<1>4. Known(e, h)' = Known(e, h) \cup {j} /\ j \notin Known(e, h)
      BY <1>1, <1>2 DEF Known, Delivery
<1>5. /\ IsFiniteSet(Known(e, h)) /\ Cardinality(Known(e, h)) \in Nat
      BY <1>1, KnownSize
<1>6. Cardinality(Known(e, h)') = Cardinality(Known(e, h)) + 1
      BY <1>4, <1>5, FS_AddElement
<1>7. Cardinality(Known(e, h)) < MaxAttempts
    <2>1. Known(e, h)' \in SUBSET Delivery(e, h)
          BY DEF Known
    <2>2. Cardinality(Known(e, h)') <= Cardinality(Delivery(e, h))
          BY <1>1, <2>1, DeliverySize, FS_Subset
    <2>3. Cardinality(Delivery(e, h)) \in Nat /\ MaxAttempts \in Nat
          BY <1>1, DeliverySize, FS_CardinalityType, ConstantsAssumption
    <2> QED BY <1>1, <1>5, <1>6, <2>2, <2>3, DeliverySize
<1>8. /\ Attempts[d] = Cardinality(Known(e, h))
      /\ Attempts'[d] = Cardinality(Known(e, h)')
      BY <1>1 DEF Attempts
<1>9. \A c \in Events \X Hooks : c # d => Attempts'[c] = Attempts[c] /\ IsOpen'[c] = IsOpen[c]
      BY <1>3 DEF Attempts, IsOpen
<1>10. Attempts' = [Attempts EXCEPT ![d] = Attempts[d] + 1]
      BY <1>1, <1>6, <1>8, <1>9 DEF Attempts
<1>11. j \in OpenJobs(e, h)'
      BY DEF OpenJobs, Delivery
<1>12. IsOpen' = [IsOpen EXCEPT ![d] = TRUE]
    <2>1. IsOpen'[d] = TRUE
          BY <1>1, <1>11 DEF IsOpen
    <2> QED BY <1>1, <1>9, <2>1 DEF IsOpen
<1> QED BY <1>1, <1>5, <1>7, <1>8, <1>10, <1>12

\* Every step is one of the contract's or invisible to it.
LEMMA RefineStep == Inv /\ [Next]_vars => [Contract!Next]_<<Attempts, IsOpen>>
<1> SUFFICES ASSUME Inv, [Next]_vars PROVE [Contract!Next]_<<Attempts, IsOpen>>
    OBVIOUS
<1>1. ASSUME UNCHANGED job PROVE UNCHANGED <<Attempts, IsOpen>>
      BY <1>1 DEF Attempts, IsOpen, Known, OpenJobs, Delivery
<1>2. CASE Edits \/ Crash \/ UNCHANGED vars
      BY <1>1, <1>2 DEF Edits, Remove, Register, Update, Retag, Crash, vars
<1>3. ASSUME NEW e \in Events, Emit(e) \/ Handle(e) \/ HandlerFails(e)
      PROVE  [Contract!Next]_<<Attempts, IsOpen>>
    <2>1. CASE Emit(e) \/ FindHooks(e) \/ FilterByTagSets(e) \/ HandlerFails(e)
          BY <1>1, <2>1 DEF Emit, FindHooks, FilterByTagSets, HandlerFails
    <2>2. ASSUME NEW t \in todo[e], Enqueue(e, t)
          PROVE  [Contract!Next]_<<Attempts, IsOpen>>
        <3> DEFINE j == First(e, t.id)
                   d == <<e, t.id>>
        <3>1. t.id \in Hooks /\ j \in Jobs /\ job[j] = "none" /\ j.event = e /\ j.hook = t.id
              BY FirstType, FirstFields DEF Inv, TypeOK, Found, Fanning
        <3>2. job'[j] \in Open /\ \A k \in Jobs : k # j => job'[k] = job[k]
              BY <2>2, <3>1 DEF Enqueue, Inv, TypeOK, Open
        <3>3. \A k \in Delivery(e, t.id) : k \in Jobs /\ job[k] = "none"
              BY <3>1 DEF Delivery, Inv, FirstKnown
        <3>4. Known(e, t.id) = {}
              BY <3>3 DEF Known
        <3>5. d \in Events \X Hooks /\ Attempts[d] = 0
              BY <3>1, <3>4, FS_EmptySet DEF Attempts
        <3>6. /\ Attempts' = [Attempts EXCEPT ![d] = @ + 1]
              /\ IsOpen' = [IsOpen EXCEPT ![d] = TRUE]
              BY <3>1, <3>2, QueuedStep
        <3>7. Attempts' = [Attempts EXCEPT ![d] = 1]
              BY <3>5, <3>6
        <3>8. Contract!Start(d)
              BY <3>5, <3>6, <3>7 DEF Contract!Start, Attempts, IsOpen
        <3> QED BY <3>5, <3>8 DEF Contract!Next
    <2> QED BY <1>3, <2>1, <2>2 DEF Handle
<1>4. ASSUME NEW j \in Jobs, Promote(j) \/ Recover(j) \/ \E w \in Workers : Take(w, j)
      PROVE  [Contract!Next]_<<Attempts, IsOpen>>
    <2>1. /\ job[j] \in Open /\ job'[j] # "none"
          /\ \A k \in Jobs : k # j => job'[k] = job[k]
          BY <1>4 DEF Promote, Recover, Take, Inv, TypeOK, Open
    <2> QED BY <2>1, FiledStep DEF Inv
<1>5. ASSUME NEW w \in Workers, Process(w) \/ StatementFails(w)
      PROVE  [Contract!Next]_<<Attempts, IsOpen>>
    <2>1. CASE Load(w) \/ Record(w) \/ RecordError(w) \/ RecordOrphan(w) \/ StatementFails(w)
          BY <1>1, <2>1 DEF Load, Record, RecordError, RecordOrphan, StatementFails, Local
    <2>2. ASSUME NEW o \in {"ok", "bad", "none"}, Post(w, o)
          PROVE  [Contract!Next]_<<Attempts, IsOpen>>
          BY <1>1, <2>2 DEF Post
    <2>3. CASE Close(w)
        <3> DEFINE j == worker[w].job
        <3>1. j \in Jobs /\ job[j] = "active"
              BY <2>3, WorkerTypes DEF Close, Inv, Owned, Busy
        <3>2. job'[j] # "none" /\ \A k \in Jobs : k # j => job'[k] = job[k]
              BY <2>3, <3>1 DEF Close, Inv, TypeOK
        <3> QED BY <3>1, <3>2, FiledStep DEF Inv, Open
    <2>4. CASE ScheduleRetry(w)
        <3> DEFINE j == worker[w].job
                   k == NextAttempt(j)
                   d == <<j.event, j.hook>>
        <3>1. j \in Jobs /\ job[j] = "active"
              BY <2>4, WorkerTypes DEF ScheduleRetry, Inv, Owned, Busy
        <3>2. CASE UNCHANGED job
              BY <1>1, <3>2
        <3>3. CASE job' # job
            <4>1. j.attempt < MaxAttempts /\ job' = Added(k)
                  BY <2>4, <3>3 DEF ScheduleRetry, Again
            <4>2. k \in Jobs /\ k.event = j.event /\ k.hook = j.hook
                  BY <3>1, <4>1, NextType
            <4>3. job' = [job EXCEPT ![k] = IF @ = "none" THEN "delayed" ELSE @]
                  BY <4>1 DEF Added
            <4>4. \A i \in Jobs : i # k => job'[i] = job[i]
                  BY <4>3 DEF Inv, TypeOK
            <4>5. job[k] = "none" /\ job'[k] \in Open
                  BY <3>3, <4>2, <4>3 DEF Inv, TypeOK, Open
            <4>6. /\ d \in Events \X Hooks
                  /\ Attempts' = [Attempts EXCEPT ![d] = @ + 1]
                  /\ Attempts[d] < MaxAttempts
                  /\ IsOpen' = [IsOpen EXCEPT ![d] = TRUE]
                  BY <4>2, <4>4, <4>5, QueuedStep
            <4>7. IsOpen[d] = TRUE
                <5>1. j \in OpenJobs(j.event, j.hook)
                      BY <3>1 DEF OpenJobs, Delivery, Open
                <5> QED BY <4>6, <5>1 DEF IsOpen
            <4>8. IsOpen' = IsOpen
                  BY <4>6, <4>7 DEF IsOpen
            <4>9. Contract!Retry(d)
                  BY <4>6, <4>7, <4>8 DEF Contract!Retry, Attempts, IsOpen
            <4> QED BY <4>6, <4>9 DEF Contract!Next
        <3> QED BY <3>2, <3>3
    <2> QED BY <1>5, <2>1, <2>2, <2>3, <2>4 DEF Process
<1> QED BY <1>2, <1>3, <1>4, <1>5 DEF Next

\* Whatever workers, crashes, stalled jobs and edits do, the attempts of a
\* delivery keep the promise of DeliveryContract.
THEOREM Refinement == Spec => ImplementsContract
<1>1. Init => Contract!Init
    <2> SUFFICES ASSUME Init PROVE Contract!Init
        OBVIOUS
    <2>1. \A e \in Events, h \in Hooks : Known(e, h) = {} /\ OpenJobs(e, h) = {}
          BY DEF Init, Known, OpenJobs, Delivery, Open
    <2>2. \A d \in Events \X Hooks : /\ Cardinality(Known(d[1], d[2])) = 0
                                     /\ OpenJobs(d[1], d[2]) = {}
          BY <2>1, FS_EmptySet
    <2> QED BY <2>2 DEF Contract!Init
<1>2. Inv /\ [Next]_vars => [Contract!Next]_<<Attempts, IsOpen>>
      BY RefineStep
<1> QED BY <1>1, <1>2, Inductive, PTL DEF Spec, ImplementsContract, Contract!Spec,
                                        Attempts, IsOpen

-----------------------------------------------------------------------------
(* Who moves where                                                         *)

\* What a step of a worker does to it, and to nobody else.
LEMMA AtMoves ==
    ASSUME TypeOK, NEW w \in Workers, NEW l, WorkerAt(w, l)
    PROVE  /\ worker'[w].at = l /\ worker'[w].job = worker[w].job
           /\ worker'[w].ok = worker[w].ok /\ worker'[w].ignore = worker[w].ignore
           /\ \A v \in Workers : v # w => worker'[v] = worker[v]
BY DEF WorkerAt, TypeOK

LEMMA LoadMoves ==
    ASSUME TypeOK, NEW w \in Workers, Load(w)
    PROVE  LET h == worker[w].job.hook
           IN  /\ worker'[w].job = worker[w].job
               /\ Active(h) => /\ worker'[w].at = "post"
                               /\ worker'[w].ignore = hook[h].config.ignoreError
               /\ ~Active(h) => worker'[w].at = "completed"
               /\ \A v \in Workers : v # w => worker'[v] = worker[v]
<1>1. CASE Active(worker[w].job.hook)
    <2>1. worker' = [worker EXCEPT ![w].at = "post",
                        ![w].ignore = hook[worker[w].job.hook].config.ignoreError]
          BY <1>1 DEF Load
    <2>2. \A v \in Workers : v # w => worker'[v] = worker[v]
          BY <2>1 DEF TypeOK
    <2>3. /\ worker'[w].job = worker[w].job /\ worker'[w].at = "post"
          /\ worker'[w].ignore = hook[worker[w].job.hook].config.ignoreError
          BY <2>1, WorkerTypes DEF TypeOK
    <2> QED BY <1>1, <2>2, <2>3
<1>2. CASE ~Active(worker[w].job.hook)
      BY <1>2, AtMoves DEF Load
<1> QED BY <1>1, <1>2

LEMMA PostMoves ==
    ASSUME TypeOK, NEW w \in Workers, NEW o \in {"ok", "bad", "none"}, Post(w, o)
    PROVE  /\ worker'[w].at = IF o = "none" THEN "recordError" ELSE "record"
           /\ worker'[w].job = worker[w].job /\ worker'[w].ignore = worker[w].ignore
           /\ worker'[w].ok <=> o = "ok"
           /\ \A v \in Workers : v # w => worker'[v] = worker[v]
BY DEF Post, TypeOK

LEMMA CloseMoves ==
    ASSUME TypeOK, NEW w \in Workers, Close(w)
    PROVE  worker'[w].at = "idle" /\ \A v \in Workers : v # w => worker'[v] = worker[v]
BY DEF Close, TypeOK, Idle

LEMMA TakeMoves ==
    ASSUME TypeOK, NEW w \in Workers, NEW j \in Jobs, Take(w, j)
    PROVE  /\ worker'[w].at = "load" /\ worker'[w].job = j
           /\ \A v \in Workers : v # w => worker'[v] = worker[v]
BY DEF Take, TypeOK, Idle

-----------------------------------------------------------------------------
(* The log                                                                 *)

Unlogged == {"record", "recordError"}

\* A worker that has looked its subscription up works for one that was there.
Met == \A w \in Workers :
          worker[w].at \in Made \cup {"post"} => hook[worker[w].job.hook] # Unused

\* The rows of an attempt are those of its requests, but for a result that a
\* worker has yet to write.
Logged(j) ==
    /\ (\A w \in Workers : worker[w].job = j => worker[w].at \notin Unlogged) =>
          log[j].good = sent[j].oks /\ log[j].good + log[j].bad = sent[j].posts
    /\ \A w \in Workers : worker[w].job = j /\ worker[w].at \in Unlogged =>
          /\ worker[w].ok => log[j].good + 1 = sent[j].oks
          /\ ~worker[w].ok => log[j].good = sent[j].oks
          /\ log[j].good + log[j].bad + 1 = sent[j].posts
          /\ worker[w].at = "recordError" => ~worker[w].ok

LogInv == Met /\ (faults = 0 => \A j \in Jobs : hook[j.hook] # Gone => Logged(j))

\* A subscription is there, or unused, or gone for good.
LEMMA ExistsUnless ==
    ASSUME TypeOK, NEW h \in Hooks
    PROVE  Exists(h) <=> hook[h] \notin {Unused, Gone}
<1>1. hook[h] \in {Unused, Gone} \cup {Row(c) : c \in Settings}
      BY DEF TypeOK
<1>2. Unused.state # "exists" /\ Gone.state # "exists"
      BY DEF Unused, Gone
<1>3. \A c \in Settings : Row(c).state = "exists"
      BY DEF Row
<1> QED BY <1>1, <1>2, <1>3 DEF Exists

LEMMA OnlyEditsTouchHooks ==
    ASSUME [Next]_vars
    PROVE  Edits \/ hook' = hook
BY DEF Next, Emit, Handle, FindHooks, FilterByTagSets, Enqueue, HandlerFails, Promote,
       Recover, Take, Process, Load, Post, Record, RecordError, RecordOrphan,
       ScheduleRetry, Close, StatementFails, Crash, Local, vars

LEMMA HooksLeave ==
    ASSUME TypeOK, [Next]_vars, NEW h \in Hooks
    PROVE  /\ hook[h] # Unused => hook'[h] # Unused
           /\ hook[h] = Gone => hook'[h] = Gone
<1>1. \A c : Row(c) # Unused /\ Gone # Unused
      BY DEF Row, Unused, Gone
<1>2. Exists(h) => hook[h] # Gone
      BY ExistsUnless
<1>3. ASSUME NEW g \in Hooks, Remove(g) PROVE hook' = [hook EXCEPT ![g] = Gone]
      BY <1>3 DEF Remove
<1>4. ASSUME NEW g \in Hooks, NEW c \in Configs, Register(g, c) \/ Update(g, c)
      PROVE  hook' = [hook EXCEPT ![g] = Row(c)] /\ hook[g] # Gone
      BY <1>4, <1>1, ExistsUnless DEF Register, Update
<1>5. ASSUME NEW S, Retag(S) PROVE hook' = hook
      BY <1>5 DEF Retag
<1> QED BY <1>1, <1>3, <1>4, <1>5, OnlyEditsTouchHooks DEF Edits, TypeOK

\* A worker reaches its request only through a subscription that is active.
LEMMA MetStep == Inv /\ Met /\ [Next]_vars => Met'
<1> SUFFICES ASSUME Inv, Met, [Next]_vars,
                    NEW v \in Workers, worker'[v].at \in Made \cup {"post"}
             PROVE  hook'[worker'[v].job.hook] # Unused
    BY DEF Met
<1>0. TypeOK /\ worker[v].job.hook \in Hooks
      BY WorkerTypes DEF Inv
<1>1. ASSUME worker'[v].job = worker[v].job,
             worker[v].at \in Made \cup {"post"} \/ Active(worker[v].job.hook)
      PROVE  hook'[worker'[v].job.hook] # Unused
    <2>1. hook[worker[v].job.hook] # Unused
          BY <1>0, <1>1, ExistsUnless DEF Met, Active
    <2> QED BY <1>0, <1>1, <2>1, HooksLeave
<1>2. CASE worker'[v] = worker[v]
      BY <1>1, <1>2
<1>3. ASSUME NEW w \in Workers, Load(w) PROVE hook'[worker'[v].job.hook] # Unused
    <2>1. CASE w = v
        <3>1. worker'[w].job = worker[w].job /\ Active(worker[w].job.hook)
              BY <1>0, <1>3, <2>1, LoadMoves DEF Made
        <3> QED BY <1>1, <2>1, <3>1
    <2>2. CASE w # v
        <3>1. worker'[v] = worker[v]
              BY <1>0, <1>3, <2>2, LoadMoves
        <3> QED BY <1>2, <3>1
    <2> QED BY <2>1, <2>2
<1>4. ASSUME NEW w \in Workers, NEW o \in {"ok", "bad", "none"}, Post(w, o)
      PROVE  hook'[worker'[v].job.hook] # Unused
    <2>1. worker[w].at = "post"
          BY <1>4 DEF Post
    <2>2. worker'[w].job = worker[w].job /\ \A u \in Workers : u # w => worker'[u] = worker[u]
          BY <1>0, <1>4, PostMoves
    <2>3. CASE v = w
          BY <1>1, <2>1, <2>2, <2>3
    <2>4. CASE v # w
          BY <1>2, <2>2, <2>4
    <2> QED BY <2>3, <2>4
<1>5. ASSUME NEW w \in Workers,
             Record(w) \/ RecordError(w) \/ RecordOrphan(w) \/ ScheduleRetry(w)
      PROVE  hook'[worker'[v].job.hook] # Unused
    <2>1. \E l : WorkerAt(w, l)
          BY <1>5 DEF Record, RecordError, RecordOrphan, ScheduleRetry
    <2>2. worker[w].at \in Made
          BY <1>5 DEF Record, RecordError, RecordOrphan, ScheduleRetry, Made
    <2>3. worker'[v] = worker[v] \/ (w = v /\ worker'[v].job = worker[v].job)
          BY <1>0, <2>1, AtMoves
    <2> QED BY <1>1, <1>2, <2>2, <2>3
<1>6. ASSUME NEW w \in Workers, Close(w) PROVE hook'[worker'[v].job.hook] # Unused
    <2>1. worker'[v] = worker[v]
          BY <1>0, <1>6, CloseMoves DEF Made
    <2> QED BY <1>2, <2>1
<1>7. ASSUME NEW w \in Workers, StatementFails(w) PROVE hook'[worker'[v].job.hook] # Unused
    <2>1. WorkerAt(w, Thrown(worker[w].at))
          BY <1>7 DEF StatementFails
    <2>2. worker[w].at \notin Made => Thrown(worker[w].at) \notin Made \cup {"post"}
          BY DEF Thrown, Made
    <2>3. worker'[v] = worker[v] \/ (w = v /\ worker'[v].job = worker[v].job
                                           /\ worker[v].at \in Made)
          BY <1>0, <2>1, <2>2, AtMoves
    <2> QED BY <1>1, <1>2, <2>3
<1>8. ASSUME NEW w \in Workers, NEW j \in Jobs, Take(w, j)
      PROVE  hook'[worker'[v].job.hook] # Unused
    <2>1. worker'[v] = worker[v]
          BY <1>0, <1>8, TakeMoves DEF Made
    <2> QED BY <1>2, <2>1
<1>9. CASE Crash
      BY <1>9 DEF Crash, Idle, Made
<1>10. worker' = worker \/ Crash \/ (\E w \in Workers : StatementFails(w) \/ Process(w))
          \/ \E j \in Jobs, w \in Workers : Take(w, j)
    <2>1. Edits => worker' = worker
          BY DEF Edits, Remove, Register, Update, Retag
    <2>2. \A e \in Events : Emit(e) \/ Handle(e) \/ HandlerFails(e) => worker' = worker
          BY DEF Emit, Handle, FindHooks, FilterByTagSets, Enqueue, HandlerFails
    <2>3. \A j \in Jobs : Promote(j) \/ Recover(j) => worker' = worker
          BY DEF Promote, Recover
    <2> QED BY <2>1, <2>2, <2>3 DEF Next, vars
<1> QED BY <1>2, <1>3, <1>4, <1>5, <1>6, <1>7, <1>8, <1>9, <1>10 DEF Process

\* A step that changes neither the log nor what was sent, while those who have
\* a result to write for a subscription that is not gone stay where they are.
LEMMA LogKept ==
    ASSUME Inv, LogInv, Met', [Next]_vars, UNCHANGED <<log, sent, faults>>,
           \A w \in Workers :
              (worker[w].at \in Unlogged \/ worker'[w].at \in Unlogged)
              /\ hook[worker[w].job.hook] # Gone => worker'[w] = worker[w],
           \A w \in Workers : worker'[w].at \in Unlogged => worker'[w].job = worker[w].job
    PROVE  LogInv'
<1> SUFFICES ASSUME faults = 0, NEW j \in Jobs, hook'[j.hook] # Gone
             PROVE  Logged(j)'
    BY DEF LogInv
<1>1. j.hook \in Hooks /\ hook[j.hook] # Gone
      BY HooksLeave, JobFields DEF Inv
<1>2. Logged(j)
      BY <1>1 DEF LogInv
<1>3. \A w \in Workers : worker[w].job = j /\ worker[w].at \in Unlogged => worker'[w] = worker[w]
      BY <1>1
<1>4. \A w \in Workers : worker'[w].job = j /\ worker'[w].at \in Unlogged => worker'[w] = worker[w]
      BY <1>1
<1>5. log'[j] = log[j] /\ sent'[j] = sent[j]
      OBVIOUS
<1>6. ASSUME \A w \in Workers : worker'[w].job = j => worker'[w].at \notin Unlogged
      PROVE  \A w \in Workers : worker[w].job = j => worker[w].at \notin Unlogged
      BY <1>3, <1>6
<1>7. ASSUME NEW w \in Workers, worker'[w].job = j, worker'[w].at \in Unlogged
      PROVE  worker[w].job = j /\ worker[w].at \in Unlogged /\ worker'[w] = worker[w]
      BY <1>4, <1>7
<1> QED BY <1>2, <1>5, <1>6, <1>7 DEF Logged

\* Only the worker that does the step and its job are concerned.
LEMMA LogOthers ==
    ASSUME Inv, LogInv, [Next]_vars, faults = 0, NEW w \in Workers, Busy(w),
           worker'[w].job = worker[w].job,
           \A v \in Workers : v # w => worker'[v] = worker[v],
           \A k \in Jobs : k # worker[w].job => log'[k] = log[k] /\ sent'[k] = sent[k],
           NEW j \in Jobs, j # worker[w].job, hook'[j.hook] # Gone
    PROVE  Logged(j)'
<1>1. j.hook \in Hooks /\ hook[j.hook] # Gone
      BY HooksLeave, JobFields DEF Inv
<1>2. Logged(j)
      BY <1>1 DEF LogInv
<1>3. \A v \in Workers : worker'[v].job = j <=> worker[v].job = j
      OBVIOUS
<1>4. \A v \in Workers : worker[v].job = j => worker'[v] = worker[v]
      OBVIOUS
<1>5. log'[j] = log[j] /\ sent'[j] = sent[j]
      OBVIOUS
<1> QED BY <1>2, <1>3, <1>4, <1>5 DEF Logged

\* A worker that is not on the way to the log leaves it complete behind it.
LEMMA LogDone ==
    ASSUME Inv, NEW w \in Workers, Busy(w), worker'[w].at \notin Unlogged,
           \A v \in Workers : v # w => worker'[v] = worker[v],
           log'[worker[w].job].good = sent'[worker[w].job].oks,
           log'[worker[w].job].good + log'[worker[w].job].bad = sent'[worker[w].job].posts,
           NEW j \in Jobs, j = worker[w].job
    PROVE  Logged(j)'
<1>1. \A v \in Workers : v # w /\ worker[v].at \in Unlogged => worker[v].job # j
      BY DEF Inv, Owned, Busy, Unlogged
<1>2. \A v \in Workers : worker'[v].job = j => worker'[v].at \notin Unlogged
      BY <1>1
<1> QED BY <1>2 DEF Logged

LEMMA RecordLog ==
    ASSUME Inv, LogInv, Met', [Next]_vars, NEW w \in Workers, Record(w)
    PROVE  LogInv'
<1> DEFINE l == worker[w].job
<1> SUFFICES ASSUME faults' = 0, NEW j \in Jobs, hook'[j.hook] # Gone
             PROVE  Logged(j)'
    BY DEF LogInv
<1>1. /\ worker[w].at = "record" /\ Busy(w) /\ l \in Jobs /\ WorkerAt(w, AfterRecord(w))
      /\ AfterRecord(w) \notin Unlogged /\ hook' = hook
      /\ faults = 0 /\ sent' = sent
      BY WorkerTypes DEF Record, Busy, Inv, AfterRecord, Unlogged, Local
<1>2. /\ worker'[w].job = l /\ worker'[w].at \notin Unlogged
      /\ \A v \in Workers : v # w => worker'[v] = worker[v]
      BY <1>1, AtMoves DEF Inv
<1>3. log[l] \in [good : Nat, bad : Nat] /\ sent[l] \in [posts : Nat, oks : Nat]
      BY <1>1 DEF Inv, TypeOK
<1>4. CASE worker[w].ok
    <2>1. log' = [log EXCEPT ![l].good = @ + 1]
          BY <1>4 DEF Record
    <2>2. /\ log'[l].good = log[l].good + 1 /\ log'[l].bad = log[l].bad
          /\ \A k \in Jobs : k # l => log'[k] = log[k]
          BY <1>1, <1>3, <2>1 DEF Inv, TypeOK
    <2>3. CASE j # l
          BY <1>1, <1>2, <2>2, <2>3, LogOthers
    <2>4. CASE j = l
        <3>1. Logged(l)
              BY <1>1, <2>4 DEF LogInv
        <3>2. log[l].good + 1 = sent[l].oks /\ log[l].good + log[l].bad + 1 = sent[l].posts
              BY <1>1, <1>4, <3>1 DEF Logged, Unlogged
        <3>3. log'[l].good = sent[l].oks /\ log'[l].good + log'[l].bad = sent[l].posts
              BY <1>3, <2>2, <3>2
        <3> QED BY <1>1, <1>2, <2>4, <3>3, LogDone
    <2> QED BY <2>3, <2>4
<1>5. CASE ~worker[w].ok
    <2>1. log' = [log EXCEPT ![l].bad = @ + 1]
          BY <1>5 DEF Record
    <2>2. /\ log'[l].bad = log[l].bad + 1 /\ log'[l].good = log[l].good
          /\ \A k \in Jobs : k # l => log'[k] = log[k]
          BY <1>1, <1>3, <2>1 DEF Inv, TypeOK
    <2>3. CASE j # l
          BY <1>1, <1>2, <2>2, <2>3, LogOthers
    <2>4. CASE j = l
        <3>1. Logged(l)
              BY <1>1, <2>4 DEF LogInv
        <3>2. log[l].good = sent[l].oks /\ log[l].good + log[l].bad + 1 = sent[l].posts
              BY <1>1, <1>5, <3>1 DEF Logged, Unlogged
        <3>3. log'[l].good = sent[l].oks /\ log'[l].good + log'[l].bad = sent[l].posts
              BY <1>3, <2>2, <3>2
        <3> QED BY <1>1, <1>2, <2>4, <3>3, LogDone
    <2> QED BY <2>3, <2>4
<1> QED BY <1>4, <1>5

LEMMA RecordErrorLog ==
    ASSUME Inv, LogInv, Met', [Next]_vars, NEW w \in Workers, RecordError(w)
    PROVE  LogInv'
<1> DEFINE l == worker[w].job
<1> SUFFICES ASSUME faults' = 0, NEW j \in Jobs, hook'[j.hook] # Gone
             PROVE  Logged(j)'
    BY DEF LogInv
<1>1. /\ worker[w].at = "recordError" /\ Busy(w) /\ l \in Jobs /\ WorkerAt(w, "retryError")
      /\ hook' = hook /\ faults = 0 /\ sent' = sent
      /\ log' = [log EXCEPT ![l].bad = @ + 1]
      BY WorkerTypes DEF RecordError, Busy, Inv, Local
<1>2. /\ worker'[w].job = l /\ worker'[w].at \notin Unlogged
      /\ \A v \in Workers : v # w => worker'[v] = worker[v]
      BY <1>1, AtMoves DEF Inv, Unlogged
<1>3. log[l] \in [good : Nat, bad : Nat] /\ sent[l] \in [posts : Nat, oks : Nat]
      BY <1>1 DEF Inv, TypeOK
<1>4. /\ log'[l].bad = log[l].bad + 1 /\ log'[l].good = log[l].good
      /\ \A k \in Jobs : k # l => log'[k] = log[k]
      BY <1>1, <1>3 DEF Inv, TypeOK
<1>5. CASE j # l
      BY <1>1, <1>2, <1>4, <1>5, LogOthers
<1>6. CASE j = l
    <2>1. Logged(l)
          BY <1>1, <1>6 DEF LogInv
    <2>2. log[l].good = sent[l].oks /\ log[l].good + log[l].bad + 1 = sent[l].posts
          BY <1>1, <2>1 DEF Logged, Unlogged
    <2>3. log'[l].good = sent[l].oks /\ log'[l].good + log'[l].bad = sent[l].posts
          BY <1>3, <1>4, <2>2
    <2> QED BY <1>1, <1>2, <1>6, <2>3, LogDone
<1> QED BY <1>5, <1>6

\* A request leaves a result to be written.
LEMMA PostLog ==
    ASSUME Inv, LogInv, Met', [Next]_vars, NEW w \in Workers,
           NEW o \in {"ok", "bad", "none"}, Post(w, o)
    PROVE  LogInv'
<1> DEFINE l == worker[w].job
<1> SUFFICES ASSUME faults' = 0, NEW j \in Jobs, hook'[j.hook] # Gone
             PROVE  Logged(j)'
    BY DEF LogInv
<1>1. /\ worker[w].at = "post" /\ Busy(w) /\ l \in Jobs /\ hook' = hook
      /\ faults = 0 /\ log' = log
      BY WorkerTypes DEF Post, Busy, Inv, Local
<1>2. /\ worker'[w].at = IF o = "none" THEN "recordError" ELSE "record"
      /\ worker'[w].job = l /\ (worker'[w].ok <=> o = "ok")
      /\ \A v \in Workers : v # w => worker'[v] = worker[v]
      BY PostMoves DEF Inv
<1>3. log[l] \in [good : Nat, bad : Nat] /\ sent[l] \in [posts : Nat, oks : Nat]
      BY <1>1 DEF Inv, TypeOK
<1>4. /\ sent'[l].posts = sent[l].posts + 1
      /\ o = "ok" => sent'[l].oks = sent[l].oks + 1
      /\ o # "ok" => sent'[l].oks = sent[l].oks
      /\ \A k \in Jobs : k # l => sent'[k] = sent[k]
      BY <1>1, <1>3 DEF Post, Inv, TypeOK
<1>5. CASE j # l
      BY <1>1, <1>2, <1>4, <1>5, LogOthers
<1>6. CASE j = l
    <2>1. Logged(l)
          BY <1>1, <1>6 DEF LogInv
    <2>2. \A v \in Workers : worker[v].job = l /\ worker[v].at # "idle" => v = w
          BY <1>1 DEF Inv, Owned, Busy
    <2>3. \A v \in Workers : worker[v].job = l => worker[v].at \notin Unlogged
          BY <1>1, <2>2 DEF Unlogged
    <2>4. log[l].good = sent[l].oks /\ log[l].good + log[l].bad = sent[l].posts
          BY <2>1, <2>3 DEF Logged
    <2>5. /\ o = "ok" => log'[l].good + 1 = sent'[l].oks
          /\ o # "ok" => log'[l].good = sent'[l].oks
          /\ log'[l].good + log'[l].bad + 1 = sent'[l].posts
          BY <1>1, <1>3, <1>4, <2>4
    <2>6. \A v \in Workers : worker'[v].job = l /\ worker'[v].at \in Unlogged => v = w
          BY <1>2, <2>3
    <2>7. worker'[w].at \in Unlogged /\ (worker'[w].at = "recordError" => o # "ok")
          BY <1>2 DEF Unlogged
    <2> QED BY <1>2, <1>6, <2>5, <2>6, <2>7 DEF Logged
<1> QED BY <1>5, <1>6

LEMMA LogStep == Inv /\ LogInv /\ [Next]_vars => LogInv'
<1> SUFFICES ASSUME Inv, LogInv, [Next]_vars PROVE LogInv'
    OBVIOUS
<1>0. TypeOK /\ Met /\ Met'
      BY MetStep DEF Inv, LogInv
<1>1. ASSUME UNCHANGED <<log, sent, worker, faults>> PROVE LogInv'
      BY <1>0, <1>1, LogKept
<1>2. ASSUME faults' # 0 PROVE LogInv'
      BY <1>0, <1>2 DEF LogInv
<1>3. CASE Edits
    <2>1. ASSUME NEW h \in Hooks, Remove(h) PROVE LogInv'
        <3> SUFFICES ASSUME faults' = 0, NEW j \in Jobs, hook'[j.hook] # Gone
                     PROVE  Logged(j)'
            BY <1>0 DEF LogInv
        <3>1. j.hook \in Hooks /\ hook[j.hook] # Gone
              BY <1>0, HooksLeave, JobFields
        <3>2. hook' = [hook EXCEPT ![h] = Gone] /\ UNCHANGED <<worker, sent, faults>>
              BY <2>1 DEF Remove
        <3>3. j.hook # h
              BY <1>0, <3>1, <3>2 DEF TypeOK
        <3>4. log'[j] = log[j]
              BY <2>1, <3>3 DEF Remove
        <3>5. Logged(j)
              BY <3>1, <3>2 DEF LogInv
        <3> QED BY <3>2, <3>4, <3>5 DEF Logged
    <2>2. ASSUME NEW h \in Hooks, NEW c \in Configs, Register(h, c) \/ Update(h, c) PROVE LogInv'
          BY <1>1, <2>2 DEF Register, Update
    <2>3. ASSUME NEW S \in SUBSET Tags, Retag(S) PROVE LogInv'
          BY <1>1, <2>3 DEF Retag
    <2> QED BY <1>3, <2>1, <2>2, <2>3 DEF Edits
<1>4. ASSUME NEW e \in Events, Emit(e) \/ Handle(e) \/ HandlerFails(e) PROVE LogInv'
    <2>1. CASE HandlerFails(e)
        <3>1. faults' = faults + 1
              BY <2>1 DEF HandlerFails, Fault
        <3> QED BY <1>0, <1>2, <3>1 DEF TypeOK
    <2> QED BY <1>1, <1>4, <2>1 DEF Emit, Handle, FindHooks, FilterByTagSets, Enqueue
<1>5. ASSUME NEW j \in Jobs, Promote(j) \/ Recover(j) PROVE LogInv'
      BY <1>1, <1>5 DEF Promote, Recover
<1>6. ASSUME NEW w \in Workers, NEW l \in AtLabels, worker'[w].at = l,
             \A v \in Workers : v # w => worker'[v] = worker[v],
             UNCHANGED <<log, sent, faults>>,
             worker[w].at \notin Unlogged, l \notin Unlogged
      PROVE  LogInv'
    <2>1. \A v \in Workers : worker[v].at \in Unlogged \/ worker'[v].at \in Unlogged
                                 => worker'[v] = worker[v]
          BY <1>6
    <2> QED BY <1>0, <1>6, <2>1, LogKept
<1>7. ASSUME NEW j \in Jobs, NEW w \in Workers, Take(w, j) PROVE LogInv'
    <2>1. UNCHANGED <<log, sent, faults>> /\ worker[w].at \notin Unlogged
          BY <1>7 DEF Take, Unlogged
    <2> QED BY <1>0, <1>6, <1>7, <2>1, TakeMoves DEF AtLabels, Unlogged
<1>8. ASSUME NEW w \in Workers, Load(w) PROVE LogInv'
    <2>1. UNCHANGED <<log, sent, faults>> /\ worker[w].at \notin Unlogged
          BY <1>8 DEF Load, Unlogged
    <2>2. worker'[w].at \in {"post", "completed"}
          BY <1>0, <1>8, LoadMoves
    <2> QED BY <1>0, <1>6, <1>8, <2>1, <2>2, LoadMoves DEF AtLabels, Unlogged
<1>9. ASSUME NEW w \in Workers, ScheduleRetry(w) PROVE LogInv'
    <2>1. UNCHANGED <<log, sent, faults>> /\ worker[w].at \notin Unlogged
          BY <1>9 DEF ScheduleRetry, Unlogged
    <2>2. WorkerAt(w, "completed")
          BY <1>9 DEF ScheduleRetry
    <2> QED BY <1>0, <1>6, <2>1, <2>2, AtMoves DEF AtLabels, Unlogged
<1>10. ASSUME NEW w \in Workers, Close(w) PROVE LogInv'
    <2>1. UNCHANGED <<log, sent, faults>> /\ worker[w].at \notin Unlogged
          BY <1>10 DEF Close, Unlogged
    <2> QED BY <1>0, <1>6, <1>10, <2>1, CloseMoves DEF AtLabels, Unlogged
<1>11. ASSUME NEW w \in Workers, RecordOrphan(w) PROVE LogInv'
    <2>1. UNCHANGED <<log, sent, faults>> /\ WorkerAt(w, Thrown(worker[w].at))
          BY <1>11 DEF RecordOrphan
    <2>2. worker[w].at \in Made /\ ~Exists(worker[w].job.hook)
          BY <1>11 DEF RecordOrphan, Made
    <2>3. hook[worker[w].job.hook] = Gone
          BY <1>0, <2>2, WorkerTypes, ExistsUnless DEF Met
    <2>4. /\ worker'[w].job = worker[w].job
          /\ \A v \in Workers : v # w => worker'[v] = worker[v]
          BY <1>0, <2>1, AtMoves
    <2> QED BY <1>0, <2>1, <2>3, <2>4, LogKept
<1>12. ASSUME Crash \/ \E w \in Workers : StatementFails(w) PROVE LogInv'
    <2>1. faults' = faults + 1
          BY <1>12 DEF Crash, StatementFails, Fault
    <2> QED BY <1>0, <1>2, <2>1 DEF TypeOK
<1>13. CASE UNCHANGED vars
      BY <1>1, <1>13 DEF vars
<1>14. ASSUME NEW w \in Workers, Process(w) PROVE LogInv'
      BY <1>0, <1>8, <1>9, <1>10, <1>11, <1>14, RecordLog, RecordErrorLog, PostLog DEF Process
<1> QED BY <1>3, <1>4, <1>5, <1>7, <1>12, <1>13, <1>14 DEF Next

\* With all statements succeeding, the delivery log has one row for every
\* finished request of an attempt, with its result, for any number of workers
\* and subscriptions, and whatever is edited meanwhile.
THEOREM LogTellsRequests == Spec => []LogAccurate
<1>1. Init => LogInv
    <2> SUFFICES ASSUME Init PROVE LogInv
        OBVIOUS
    <2>1. \A w \in Workers : worker[w].at = "idle"
          BY DEF Init, Idle
    <2>2. \A j \in Jobs : /\ log[j].good = 0 /\ log[j].bad = 0
                          /\ sent[j].oks = 0 /\ sent[j].posts = 0
          BY DEF Init
    <2> QED BY <2>1, <2>2 DEF LogInv, Met, Logged, Made, Unlogged
<1>2. Inv /\ LogInv => LogAccurate
    <2> SUFFICES ASSUME Inv, LogInv, faults = 0, NEW j \in Jobs, Exists(j.hook),
                        \A w \in Workers : worker[w].job = j =>
                            worker[w].at \notin {"record", "recordError"}
                 PROVE  log[j].good = sent[j].oks /\ log[j].good + log[j].bad = sent[j].posts
        BY DEF LogAccurate
    <2>1. hook[j.hook] # Gone
          BY JobFields, ExistsUnless DEF Inv
    <2> QED BY <2>1 DEF LogInv, Logged, Unlogged
<1> QED BY <1>1, <1>2, LogStep, Inductive, PTL DEF Spec

-----------------------------------------------------------------------------
(* Retries                                                                 *)

Ignored(h) == hook[h].config.ignoreError

\* What holds until the first edit: deliveries are those of active
\* subscriptions, and workers go by the setting that is stored.
Configured ==
    /\ \A j \in Jobs : job[j] # "none" => Active(j.hook)
    /\ \A e \in Events : \A t \in todo[e] : Active(t.id)
    /\ \A w \in Workers : worker[w].at \in Made \cup {"post"} =>
          (worker[w].ignore <=> Ignored(worker[w].job.hook))
    /\ \A j \in Jobs : job[j] # "none" /\ Ignored(j.hook) => j.attempt = 1

\* Why no more attempts than this one: it succeeded, errors do not matter, it
\* was the last, or the next one is queued.
Decided(j) ==
    \/ sent[j].oks > 0
    \/ Ignored(j.hook)
    \/ j.attempt = MaxAttempts /\ sent[j].posts > 0
    \/ j.attempt < MaxAttempts /\ job[NextAttempt(j)] # "none"

\* What holds until the first edit or fault: jobs do not fail, an active one
\* has its worker, and no attempt ends undecided.
Undisturbed ==
    /\ \A j \in Jobs :
          /\ job[j] # "failed"
          /\ job[j] = "active" => \E w \in Workers : Busy(w) /\ worker[w].job = j
          /\ job[j] = "completed" => Decided(j)
    /\ \A w \in Workers :
          /\ worker[w].at # "failed"
          /\ worker[w].at = "record" /\ worker[w].ok => sent[worker[w].job].oks > 0
          /\ worker[w].at = "completed" => Decided(worker[w].job)

RetryInv == edits = 0 => Configured /\ (faults = 0 => Undisturbed)

\* Edits and faults are counted, and nothing else touches a subscription.
LEMMA Uncounted ==
    ASSUME TypeOK, [Next]_vars
    PROVE  /\ edits' = 0 => edits = 0 /\ hook' = hook /\ ~Edits
           /\ faults' = 0 => /\ faults = 0 /\ ~Crash
                             /\ \A e \in Events : ~HandlerFails(e)
                             /\ \A w \in Workers : ~StatementFails(w)
<1>1. edits \in Nat /\ faults \in Nat
      BY DEF TypeOK
<1>2. Edits => edits' = edits + 1 /\ faults' = faults
      BY DEF Edits, Remove, Register, Update, Retag, Edit
<1>3. ~Edits => edits' = edits
      BY DEF Next, Emit, Handle, FindHooks, FilterByTagSets, Enqueue, HandlerFails, Promote,
             Recover, Take, Process, Load, Post, Record, RecordError, RecordOrphan,
             ScheduleRetry, Close, StatementFails, Crash, Local, vars
<1>4. /\ Crash => faults' = faults + 1
      /\ \A e \in Events : HandlerFails(e) => faults' = faults + 1
      /\ \A w \in Workers : StatementFails(w) => faults' = faults + 1
      BY DEF Crash, HandlerFails, StatementFails, Fault
<1>5. faults' = faults \/ faults' = faults + 1
      BY <1>2 DEF Next, Emit, Handle, FindHooks, FilterByTagSets, Enqueue, HandlerFails, Promote,
             Recover, Take, Process, Load, Post, Record, RecordError, RecordOrphan,
             ScheduleRetry, Close, StatementFails, Crash, Local, vars, Fault
<1>6. edits' = 0 => edits = 0 /\ ~Edits
      BY <1>1, <1>2, <1>3
<1>7. faults' = 0 => faults = 0 /\ faults' # faults + 1
      BY <1>1, <1>5
<1> QED BY <1>4, <1>6, <1>7, OnlyEditsTouchHooks

\* A worker moves by a step of its own, or falls with the process.
LEMMA OwnMove ==
    ASSUME TypeOK, [Next]_vars, NEW v \in Workers
    PROVE  \/ worker'[v] = worker[v] \/ Crash
           \/ Process(v) \/ StatementFails(v) \/ \E j \in Jobs : Take(v, j)
<1>1. ASSUME NEW w \in Workers, w # v, Process(w) \/ StatementFails(w)
      PROVE  worker'[v] = worker[v]
    <2>1. Load(w) => worker'[v] = worker[v]
          BY <1>1, LoadMoves
    <2>2. \A o \in {"ok", "bad", "none"} : Post(w, o) => worker'[v] = worker[v]
          BY <1>1, PostMoves
    <2>3. Close(w) => worker'[v] = worker[v]
          BY <1>1, CloseMoves
    <2>4. Record(w) \/ RecordError(w) \/ RecordOrphan(w) \/ ScheduleRetry(w) \/ StatementFails(w)
              => \E l : WorkerAt(w, l)
          BY DEF Record, RecordError, RecordOrphan, ScheduleRetry, StatementFails
    <2> QED BY <1>1, <2>1, <2>2, <2>3, <2>4, AtMoves DEF Process
<1>2. ASSUME NEW w \in Workers, w # v, NEW j \in Jobs, Take(w, j)
      PROVE  worker'[v] = worker[v]
      BY <1>2, TakeMoves
<1>3. Edits \/ UNCHANGED vars => worker' = worker
      BY DEF Edits, Remove, Register, Update, Retag, vars
<1>4. \A e \in Events : Emit(e) \/ Handle(e) \/ HandlerFails(e) => worker' = worker
      BY DEF Emit, Handle, FindHooks, FilterByTagSets, Enqueue, HandlerFails
<1>5. \A j \in Jobs : Promote(j) \/ Recover(j) => worker' = worker
      BY DEF Promote, Recover
<1> QED BY <1>1, <1>2, <1>3, <1>4, <1>5 DEF Next

\* The jobs a step may queue: a first attempt that a handler was about to, or
\* the next one of a worker that retries.
LEMMA NewJobs ==
    ASSUME Inv, [Next]_vars, NEW j \in Jobs
    PROVE  /\ job[j] # "none" => job'[j] # "none"
           /\ job[j] = "none" /\ job'[j] # "none" =>
                \/ \E e \in Events : \E t \in todo[e] : j = First(e, t.id)
                \/ \E w \in Workers : /\ ScheduleRetry(w) /\ Again(w)
                                      /\ j = NextAttempt(worker[w].job)
<1>0. TypeOK
      BY DEF Inv
<1>1. ASSUME NEW e \in Events, NEW t \in todo[e], Enqueue(e, t)
      PROVE  job' = [job EXCEPT ![First(e, t.id)] = "wait"]
      BY <1>1 DEF Enqueue
<1>2. ASSUME NEW w \in Workers, ScheduleRetry(w)
      PROVE  \/ job' = job
             \/ /\ Again(w)
                /\ job' = [job EXCEPT ![NextAttempt(worker[w].job)] =
                                         IF @ = "none" THEN "delayed" ELSE @]
      BY <1>2 DEF ScheduleRetry, Added
<1>3. ASSUME NEW k \in Jobs, Promote(k) \/ Recover(k) \/ \E w \in Workers : Take(w, k)
      PROVE  job[k] # "none" /\ \E x \in {"wait", "failed", "active"} : job' = [job EXCEPT ![k] = x]
      BY <1>3 DEF Promote, Recover, Take
<1>4. ASSUME NEW w \in Workers, Close(w)
      PROVE  /\ worker[w].job \in Jobs /\ job[worker[w].job] # "none"
             /\ \E x \in {"completed", "failed"} : job' = [job EXCEPT ![worker[w].job] = x]
      BY <1>4, WorkerTypes DEF Close, Inv, Owned, Busy
<1>5. \/ job' = job
      \/ \E e \in Events : \E t \in todo[e] : Enqueue(e, t)
      \/ \E w \in Workers : ScheduleRetry(w) \/ Close(w)
      \/ \E k \in Jobs : Promote(k) \/ Recover(k) \/ \E w \in Workers : Take(w, k)
      BY DEF Next, Edits, Remove, Register, Update, Retag, Emit, Handle, FindHooks,
             FilterByTagSets, HandlerFails, Process, Load, Post, Record, RecordError,
             RecordOrphan, StatementFails, Crash, Local, vars
<1>6. ASSUME NEW e \in Events, NEW t \in todo[e], Enqueue(e, t)
      PROVE  /\ job[j] # "none" => job'[j] # "none"
             /\ job[j] = "none" /\ job'[j] # "none" => j = First(e, t.id)
      BY <1>0, <1>1, <1>6 DEF TypeOK
<1>7. ASSUME NEW w \in Workers, ScheduleRetry(w)
      PROVE  /\ job[j] # "none" => job'[j] # "none"
             /\ job[j] = "none" /\ job'[j] # "none" =>
                   Again(w) /\ j = NextAttempt(worker[w].job)
      BY <1>0, <1>2, <1>7 DEF TypeOK
<1>8. ASSUME NEW k \in Jobs, job[k] # "none", NEW x, x # "none", job' = [job EXCEPT ![k] = x]
      PROVE  (job[j] # "none" => job'[j] # "none") /\ (job[j] = "none" => job'[j] = "none")
      BY <1>0, <1>8 DEF TypeOK
<1> QED BY <1>3, <1>4, <1>5, <1>6, <1>7, <1>8

\* What the handlers have found is what was active.
LEMMA FoundActive ==
    ASSUME Inv, [Next]_vars, hook' = hook, NEW e \in Events, NEW t \in todo'[e]
    PROVE  t \in todo[e] \/ Active(t.id)
<1>0. TypeOK
      BY DEF Inv
<1>1. ASSUME NEW f \in Events, FindHooks(f) PROVE t \in todo[e] \/ Active(t.id)
    <2> DEFINE found == {[id |-> h, tagSets |-> hook[h].config.tagSets] :
                            h \in {g \in Hooks : Interested(g, f)}}
    <2>1. todo' = [todo EXCEPT ![f] = found]
          BY <1>1 DEF FindHooks
    <2>2. \A u \in found : Active(u.id)
          BY DEF Interested
    <2> HIDE DEF found
    <2> QED BY <1>0, <2>1, <2>2 DEF TypeOK
<1>2. ASSUME NEW f \in Events, FilterByTagSets(f) \/ HandlerFails(f)
                               \/ \E u \in todo[f] : Enqueue(f, u)
      PROVE  t \in todo[e]
      BY <1>0, <1>2 DEF FilterByTagSets, HandlerFails, Enqueue, TypeOK
<1>3. Crash => t \in todo[e]
      BY DEF Crash
<1>4. \/ todo' = todo \/ Crash
      \/ \E f \in Events : FindHooks(f) \/ FilterByTagSets(f) \/ HandlerFails(f)
                           \/ \E u \in todo[f] : Enqueue(f, u)
      BY DEF Next, Edits, Remove, Register, Update, Retag, Emit, Handle, Promote, Recover,
             Take, Process, Load, Post, Record, RecordError, RecordOrphan, ScheduleRetry,
             Close, StatementFails, Local, vars
<1> QED BY <1>1, <1>2, <1>3, <1>4

LEMMA ConfiguredStep ==
    ASSUME Inv, Configured, [Next]_vars, hook' = hook, ~Edits
    PROVE  Configured'
<1>0. TypeOK
      BY DEF Inv
<1>1. \A h : /\ Active(h)' <=> Active(h)
             /\ Ignored(h)' <=> Ignored(h)
      BY DEF Active, Exists, Ignored
<1>2. ASSUME NEW j \in Jobs, job'[j] # "none"
      PROVE  Active(j.hook) /\ (Ignored(j.hook) => j.attempt = 1)
    <2>1. CASE job[j] # "none"
          BY <2>1 DEF Configured
    <2>2. ASSUME NEW e \in Events, NEW t \in todo[e], j = First(e, t.id)
          PROVE  Active(j.hook) /\ (Ignored(j.hook) => j.attempt = 1)
          BY <2>2 DEF Configured, First
    <2>3. ASSUME NEW w \in Workers, ScheduleRetry(w), Again(w), j = NextAttempt(worker[w].job)
          PROVE  Active(j.hook) /\ (Ignored(j.hook) => j.attempt = 1)
        <3>1. worker[w].job \in Jobs /\ worker[w].at \in Made /\ Busy(w)
              BY <1>0, <2>3, WorkerTypes DEF ScheduleRetry, Made, Busy
        <3>2. j.hook = worker[w].job.hook
              BY <2>3, <3>1, NextType DEF Again
        <3>3. job[worker[w].job] # "none"
              BY <3>1 DEF Inv, Owned
        <3>4. Active(j.hook)
              BY <3>1, <3>2, <3>3 DEF Configured
        <3>5. ~Ignored(j.hook)
              BY <2>3, <3>1, <3>2 DEF Configured, Again
        <3> QED BY <3>4, <3>5
    <2> QED BY <1>2, <2>1, <2>2, <2>3, NewJobs
<1>3. ASSUME NEW e \in Events, NEW t \in todo'[e] PROVE Active(t.id)
      BY <1>3, FoundActive DEF Configured
<1>4. ASSUME NEW v \in Workers, worker'[v].at \in Made \cup {"post"}
      PROVE  worker'[v].ignore <=> Ignored(worker'[v].job.hook)
    <2>1. ASSUME worker[v].at \in Made \cup {"post"}, worker'[v].job = worker[v].job,
                 worker'[v].ignore = worker[v].ignore
          PROVE  worker'[v].ignore <=> Ignored(worker'[v].job.hook)
          BY <2>1 DEF Configured
    <2>2. CASE worker'[v] = worker[v]
          BY <1>4, <2>1, <2>2
    <2>3. CASE Load(v)
          BY <1>0, <1>4, <2>3, LoadMoves DEF Made, Ignored
    <2>4. ASSUME NEW o \in {"ok", "bad", "none"}, Post(v, o)
          PROVE  worker'[v].ignore <=> Ignored(worker'[v].job.hook)
        <3>1. worker[v].at = "post"
              BY <2>4 DEF Post
        <3> QED BY <1>0, <2>1, <2>4, <3>1, PostMoves
    <2>5. CASE Record(v) \/ RecordError(v) \/ RecordOrphan(v) \/ ScheduleRetry(v)
               \/ StatementFails(v)
        <3>1. \E l : WorkerAt(v, l)
              BY <2>5 DEF Record, RecordError, RecordOrphan, ScheduleRetry, StatementFails
        <3>2. worker[v].at \in Made \/ WorkerAt(v, "failed")
              BY <2>5 DEF Record, RecordError, RecordOrphan, ScheduleRetry, StatementFails,
                          Thrown, Made
        <3>3. worker[v].at \in Made
              BY <1>0, <1>4, <3>2, AtMoves DEF Made
        <3> QED BY <1>0, <2>1, <3>1, <3>3, AtMoves
    <2>6. CASE Close(v)
          BY <1>0, <1>4, <2>6, CloseMoves DEF Made
    <2>7. ASSUME NEW j \in Jobs, Take(v, j) PROVE FALSE
          BY <1>0, <1>4, <2>7, TakeMoves DEF Made
    <2>8. CASE Crash
          BY <1>4, <2>8 DEF Crash, Idle, Made
    <2> QED BY <1>0, <2>2, <2>3, <2>4, <2>5, <2>6, <2>7, <2>8, OwnMove DEF Process
<1> QED BY <1>1, <1>2, <1>3, <1>4 DEF Configured

\* An attempt stays decided.
LEMMA DecidedKept ==
    ASSUME hook' = hook, NEW j \in Jobs,
           sent[j].oks > 0 => sent'[j].oks > 0,
           sent[j].posts > 0 => sent'[j].posts > 0,
           \A k \in Jobs : job[k] # "none" => job'[k] # "none",
           Decided(j)
    PROVE  Decided(j)'
<1>1. Ignored(j.hook) => Ignored(j.hook)'
      BY DEF Ignored
<1>2. j.attempt < MaxAttempts => NextAttempt(j) \in Jobs
      BY NextType
<1>3. (NextAttempt(j) = NextAttempt(j)')
      BY DEF NextAttempt
<1> QED BY <1>1, <1>2 DEF Decided, NextAttempt

\* A step of one worker that keeps its job.
LEMMA UndisturbedStep ==
    ASSUME Inv, Undisturbed, hook' = hook, NEW w \in Workers, Busy(w),
           \A v \in Workers : v # w => worker'[v] = worker[v],
           worker'[w].job = worker[w].job, worker'[w].at \notin {"idle", "failed"},
           \A j \in Jobs : job'[j] = job[j] \/ (job[j] = "none" /\ job'[j] = "delayed"),
           \A j \in Jobs : /\ sent[j].oks > 0 => sent'[j].oks > 0
                           /\ sent[j].posts > 0 => sent'[j].posts > 0,
           NEW l \in Jobs, l = worker[w].job,
           worker'[w].at = "record" /\ worker'[w].ok => sent'[l].oks > 0,
           worker'[w].at = "completed" => Decided(l)'
    PROVE  Undisturbed'
<1>1. \A j \in Jobs : job[j] # "none" => job'[j] # "none"
      OBVIOUS
<1>2. \A j \in Jobs : Decided(j) => Decided(j)'
      BY <1>1, DecidedKept
<1>3. ASSUME NEW j \in Jobs
      PROVE  /\ job'[j] # "failed"
             /\ job'[j] = "active" => \E v \in Workers : Busy(v)' /\ worker'[v].job = j
             /\ job'[j] = "completed" => Decided(j)'
    <2>1. CASE job'[j] = "delayed"
          BY <2>1
    <2>2. CASE job'[j] = job[j]
        <3>1. ASSUME job[j] = "active"
              PROVE  \E v \in Workers : Busy(v)' /\ worker'[v].job = j
            <4>1. PICK v \in Workers : Busy(v) /\ worker[v].job = j
                  BY <3>1 DEF Undisturbed
            <4>2. worker'[v].job = j /\ worker'[v].at # "idle"
                  BY <4>1 DEF Busy
            <4> QED BY <4>2 DEF Busy
        <3> QED BY <1>2, <2>2, <3>1 DEF Undisturbed
    <2> QED BY <2>1, <2>2
<1>4. ASSUME NEW v \in Workers
      PROVE  /\ worker'[v].at # "failed"
             /\ worker'[v].at = "record" /\ worker'[v].ok => sent'[worker'[v].job].oks > 0
             /\ worker'[v].at = "completed" => Decided(worker[v].job)'
    <2>1. CASE v = w
          BY <2>1
    <2>2. CASE v # w
        <3>1. worker[v].job \in Jobs /\ worker'[v] = worker[v]
              BY <2>2, WorkerTypes DEF Inv
        <3>2. worker[v].at = "completed" => Decided(worker[v].job)
              BY DEF Undisturbed
        <3> QED BY <1>2, <3>1, <3>2 DEF Undisturbed
    <2> QED BY <2>1, <2>2
<1> QED BY <1>3, <1>4 DEF Undisturbed

\* The queue's steps: a job waits, or an idle worker takes it.
LEMMA UndisturbedQueue ==
    ASSUME Inv, Undisturbed, hook' = hook, NEW j \in Jobs,
           Promote(j) \/ Recover(j) \/ \E w \in Workers : Take(w, j)
    PROVE  Undisturbed'
<1>0. TypeOK
      BY DEF Inv
<1>1. sent' = sent
      BY DEF Promote, Recover, Take
<1>2. ~Recover(j)
      BY DEF Recover, Undisturbed, Busy
<1>3. job[j] # "none" /\ job'[j] \in {"wait", "active"}
      BY <1>0, <1>2 DEF Promote, Take, TypeOK
<1>4. \A k \in Jobs : k # j => job'[k] = job[k]
      BY <1>0, <1>2 DEF Promote, Take, TypeOK
<1>5. \A k \in Jobs : Decided(k) => Decided(k)'
      BY <1>1, <1>3, <1>4, DecidedKept
<1>6. ASSUME NEW v \in Workers PROVE worker'[v] = worker[v] \/ Take(v, j)
      BY <1>0, <1>2, TakeMoves DEF Promote
<1>7. ASSUME NEW v \in Workers
      PROVE  /\ worker'[v].at # "failed"
             /\ worker'[v].at = "record" /\ worker'[v].ok => sent'[worker'[v].job].oks > 0
             /\ worker'[v].at = "completed" => Decided(worker[v].job)'
    <2>1. CASE worker'[v] = worker[v]
        <3>1. worker[v].job \in Jobs
              BY <1>0, WorkerTypes
        <3> QED BY <1>1, <1>5, <2>1, <3>1 DEF Undisturbed
    <2>2. CASE Take(v, j)
          BY <1>0, <2>2, TakeMoves
    <2> QED BY <1>6, <2>1, <2>2
<1>8. ASSUME NEW k \in Jobs, job'[k] = "active"
      PROVE  \E v \in Workers : Busy(v)' /\ worker'[v].job = k
    <2>1. CASE k = j
        <3>1. PICK v \in Workers : Take(v, j)
              BY <1>0, <1>2, <1>3, <1>8, <2>1 DEF Promote, TypeOK
        <3> QED BY <1>0, <2>1, <3>1, TakeMoves DEF Busy
    <2>2. CASE k # j
        <3>1. PICK v \in Workers : Busy(v) /\ worker[v].job = k
              BY <1>4, <1>8, <2>2 DEF Undisturbed
        <3>2. ~Take(v, j)
              BY <3>1 DEF Take, Busy
        <3> QED BY <1>6, <3>1, <3>2 DEF Busy
    <2> QED BY <2>1, <2>2
<1>9. \A k \in Jobs : job'[k] # "failed" /\ (job'[k] = "completed" => Decided(k)')
      BY <1>3, <1>4, <1>5 DEF Undisturbed
<1> QED BY <1>7, <1>8, <1>9 DEF Undisturbed

LEMMA UndisturbedClose ==
    ASSUME Inv, Undisturbed, hook' = hook, NEW w \in Workers, Close(w)
    PROVE  Undisturbed'
<1>0. TypeOK /\ sent' = sent
      BY DEF Inv, Close
<1> PICK l \in Jobs : l = worker[w].job
    BY <1>0, WorkerTypes
<1>1. worker[w].at = "completed" /\ job[l] = "active"
      BY DEF Close, Undisturbed, Inv, Owned, Busy
<1>2. job'[l] = "completed" /\ \A k \in Jobs : k # l => job'[k] = job[k]
      BY <1>0, <1>1 DEF Close, TypeOK
<1>3. \A k \in Jobs : Decided(k) => Decided(k)'
      BY <1>0, <1>1, <1>2, DecidedKept
<1>4. worker'[w].at = "idle" /\ \A v \in Workers : v # w => worker'[v] = worker[v]
      BY <1>0, CloseMoves
<1>5. ASSUME NEW k \in Jobs
      PROVE  /\ job'[k] # "failed"
             /\ job'[k] = "active" => \E v \in Workers : Busy(v)' /\ worker'[v].job = k
             /\ job'[k] = "completed" => Decided(k)'
    <2>1. CASE k = l
          BY <1>1, <1>2, <1>3, <2>1 DEF Undisturbed
    <2>2. CASE k # l
        <3>1. ASSUME job[k] = "active"
              PROVE  \E v \in Workers : Busy(v)' /\ worker'[v].job = k
            <4>1. PICK v \in Workers : Busy(v) /\ worker[v].job = k
                  BY <3>1 DEF Undisturbed
            <4>2. worker'[v] = worker[v]
                  BY <1>4, <2>2, <4>1
            <4> QED BY <4>1, <4>2 DEF Busy
        <3> QED BY <1>2, <1>3, <2>2, <3>1 DEF Undisturbed
    <2> QED BY <2>1, <2>2
<1>6. ASSUME NEW v \in Workers
      PROVE  /\ worker'[v].at # "failed"
             /\ worker'[v].at = "record" /\ worker'[v].ok => sent'[worker'[v].job].oks > 0
             /\ worker'[v].at = "completed" => Decided(worker[v].job)'
    <2>1. CASE v = w
          BY <1>4, <2>1
    <2>2. CASE v # w
        <3>1. worker[v].job \in Jobs /\ worker'[v] = worker[v]
              BY <1>0, <1>4, <2>2, WorkerTypes
        <3> QED BY <1>0, <1>3, <3>1 DEF Undisturbed
    <2> QED BY <2>1, <2>2
<1> QED BY <1>5, <1>6 DEF Undisturbed

LEMMA UndisturbedProcess ==
    ASSUME Inv, Configured, Undisturbed, hook' = hook, NEW w \in Workers, Process(w)
    PROVE  Undisturbed'
<1>0. TypeOK
      BY DEF Inv
<1> PICK l \in Jobs : l = worker[w].job
    BY <1>0, WorkerTypes
<1>1. ASSUME Busy(w) PROVE Active(l.hook)
      BY <1>1 DEF Inv, Owned, Configured
<1>2. CASE Load(w)
    <2>1. Busy(w) /\ UNCHANGED <<job, sent>>
          BY <1>2 DEF Load, Busy
    <2>2. worker'[w].at = "post"
          BY <1>0, <1>1, <1>2, <2>1, LoadMoves
    <2> QED BY <1>0, <1>2, <2>1, <2>2, LoadMoves, UndisturbedStep
<1>3. ASSUME NEW o \in {"ok", "bad", "none"}, Post(w, o) PROVE Undisturbed'
    <2>1. Busy(w) /\ UNCHANGED job
          BY <1>3 DEF Post, Busy
    <2>2. /\ sent[l].oks \in Nat /\ sent[l].posts \in Nat
          /\ sent[l] \in [posts : Nat, oks : Nat]
          BY <1>0 DEF TypeOK
    <2>3. /\ sent'[l].posts = sent[l].posts + 1
          /\ o = "ok" => sent'[l].oks = sent[l].oks + 1
          /\ o # "ok" => sent'[l].oks = sent[l].oks
          /\ \A k \in Jobs : k # l => sent'[k] = sent[k]
          BY <1>0, <1>3, <2>2 DEF Post, TypeOK
    <2>4. \A k \in Jobs : /\ sent[k].oks > 0 => sent'[k].oks > 0
                          /\ sent[k].posts > 0 => sent'[k].posts > 0
          BY <2>2, <2>3
    <2>5. o = "ok" => sent'[l].oks > 0
          BY <2>2, <2>3
    <2>6. /\ worker'[w].at \in {"record", "recordError"} /\ worker'[w].job = worker[w].job
          /\ worker'[w].ok => o = "ok"
          /\ \A v \in Workers : v # w => worker'[v] = worker[v]
          BY <1>0, <1>3, PostMoves
    <2> QED BY <2>1, <2>4, <2>5, <2>6, UndisturbedStep
<1>4. CASE Record(w)
    <2>1. /\ Busy(w) /\ UNCHANGED <<job, sent>> /\ WorkerAt(w, AfterRecord(w))
          /\ worker[w].at = "record"
          BY <1>4 DEF Record, Busy
    <2>2. /\ worker'[w].at \in {"completed", "retry"} /\ worker'[w].job = worker[w].job
          /\ worker'[w].at = "completed" => worker[w].ok
          /\ \A v \in Workers : v # w => worker'[v] = worker[v]
          BY <1>0, <2>1, AtMoves DEF AfterRecord
    <2>3. worker'[w].at = "completed" => sent'[l].oks > 0
          BY <2>1, <2>2 DEF Undisturbed
    <2>4. worker'[w].at = "completed" => Decided(l)'
          BY <2>3 DEF Decided
    <2> QED BY <2>1, <2>2, <2>4, UndisturbedStep
<1>5. CASE RecordError(w)
    <2>1. Busy(w) /\ UNCHANGED <<job, sent>> /\ WorkerAt(w, "retryError")
          BY <1>5 DEF RecordError, Busy
    <2>2. /\ worker'[w].at = "retryError" /\ worker'[w].job = worker[w].job
          /\ \A v \in Workers : v # w => worker'[v] = worker[v]
          BY <1>0, <2>1, AtMoves
    <2> QED BY <2>1, <2>2, UndisturbedStep
<1>6. ASSUME RecordOrphan(w) PROVE FALSE
      BY <1>1, <1>6 DEF RecordOrphan, Busy, Active
<1>7. CASE ScheduleRetry(w)
    <2>1. /\ Busy(w) /\ UNCHANGED sent /\ WorkerAt(w, "completed") /\ worker[w].at \in Made
          /\ ~Again(w) => job' = job
          /\ Again(w) => job' = Added(NextAttempt(l))
          BY <1>7 DEF ScheduleRetry, Busy, Made
    <2>2. /\ worker'[w].at = "completed" /\ worker'[w].job = worker[w].job
          /\ \A v \in Workers : v # w => worker'[v] = worker[v]
          BY <1>0, <2>1, AtMoves
    <2>3. \A j \in Jobs : job'[j] = job[j] \/ (job[j] = "none" /\ job'[j] = "delayed")
        <3>1. CASE Again(w)
            <4>1. job' = [job EXCEPT ![NextAttempt(l)] = IF @ = "none" THEN "delayed" ELSE @]
                  BY <2>1, <3>1 DEF Added
            <4> QED BY <1>0, <4>1 DEF TypeOK
        <3> QED BY <2>1, <3>1
    <2>4. Decided(l)'
        <3>1. CASE Again(w)
            <4>1. l.attempt < MaxAttempts /\ NextAttempt(l) \in Jobs
                  BY <3>1, NextType DEF Again
            <4>2. job' = [job EXCEPT ![NextAttempt(l)] = IF @ = "none" THEN "delayed" ELSE @]
                  BY <2>1, <3>1 DEF Added
            <4>3. job'[NextAttempt(l)] # "none"
                  BY <1>0, <4>1, <4>2 DEF TypeOK
            <4> QED BY <4>1, <4>3 DEF Decided, NextAttempt
        <3>2. CASE worker[w].ignore
            <4>1. Ignored(l.hook)
                  BY <2>1, <3>2 DEF Configured
            <4> QED BY <4>1 DEF Decided, Ignored
        <3>3. CASE l.attempt >= MaxAttempts
            <4>1. l.attempt \in 1 .. MaxAttempts /\ MaxAttempts \in Nat
                  BY ConstantsAssumption DEF Jobs
            <4>2. l.attempt = MaxAttempts
                  BY <3>3, <4>1
            <4>3. sent'[l].posts > 0
                  BY <2>1 DEF Inv, Owned
            <4> QED BY <4>2, <4>3 DEF Decided
        <3>4. Again(w) \/ worker[w].ignore \/ l.attempt >= MaxAttempts
            <4>1. l.attempt \in Nat /\ MaxAttempts \in Nat
                  BY ConstantsAssumption DEF Jobs
            <4>2. l.attempt < MaxAttempts \/ l.attempt >= MaxAttempts
                  BY <4>1
            <4> QED BY <4>2 DEF Again
        <3> QED BY <3>1, <3>2, <3>3, <3>4
    <2> QED BY <2>1, <2>2, <2>3, <2>4, UndisturbedStep
<1> QED BY <1>2, <1>3, <1>4, <1>5, <1>6, <1>7, UndisturbedClose DEF Process

LEMMA RetryStepInv == Inv /\ RetryInv /\ [Next]_vars => RetryInv'
<1> SUFFICES ASSUME Inv, RetryInv, [Next]_vars, edits' = 0
             PROVE  Configured' /\ (faults' = 0 => Undisturbed')
    BY DEF RetryInv
<1>0. TypeOK
      BY DEF Inv
<1>1. edits = 0 /\ hook' = hook /\ ~Edits /\ Configured
      BY <1>0, Uncounted DEF RetryInv
<1>2. Configured'
      BY <1>1, ConfiguredStep
<1>3. ASSUME faults' = 0 PROVE Undisturbed'
    <2>1. /\ faults = 0 /\ ~Crash /\ Undisturbed
          /\ \A e \in Events : ~HandlerFails(e)
          /\ \A w \in Workers : ~StatementFails(w)
          BY <1>0, <1>1, <1>3, Uncounted DEF RetryInv
    <2>2. ASSUME UNCHANGED <<sent, worker>>,
                 \A j \in Jobs : job'[j] = job[j] \/ (job[j] = "none" /\ job'[j] = "wait")
          PROVE  Undisturbed'
        <3>1. \A j \in Jobs : Decided(j) => Decided(j)'
              BY <1>1, <2>2, DecidedKept
        <3>2. \A v \in Workers : worker[v].job \in Jobs
              BY <1>0, WorkerTypes
        <3>3. \A v \in Workers : Busy(v) => Busy(v)'
              BY <2>2 DEF Busy
        <3> QED BY <2>1, <2>2, <3>1, <3>2, <3>3 DEF Undisturbed
    <2>3. ASSUME NEW e \in Events, NEW t \in todo[e], Enqueue(e, t) PROVE Undisturbed'
        <3>1. UNCHANGED <<sent, worker>> /\ job' = [job EXCEPT ![First(e, t.id)] = "wait"]
              BY <2>3 DEF Enqueue
        <3>2. job[First(e, t.id)] = "none"
              BY DEF Inv, Fanning
        <3>3. \A j \in Jobs : job'[j] = job[j] \/ (job[j] = "none" /\ job'[j] = "wait")
              BY <1>0, <3>1, <3>2 DEF TypeOK
        <3> QED BY <2>2, <3>1, <3>3
    <2>4. ASSUME NEW e \in Events, Emit(e) \/ FindHooks(e) \/ FilterByTagSets(e)
          PROVE  Undisturbed'
          BY <2>2, <2>4 DEF Emit, FindHooks, FilterByTagSets
    <2>5. CASE UNCHANGED vars
          BY <2>2, <2>5 DEF vars
    <2> QED BY <1>1, <2>1, <2>3, <2>4, <2>5, UndisturbedQueue, UndisturbedProcess
            DEF Next, Handle
<1> QED BY <1>2, <1>3

\* A delivery of which no job is open and no attempt was the last, or
\* successful, would have a next attempt for each of its attempts.
LEMMA EndsDecided ==
    ASSUME Inv, Undisturbed, NEW e \in Events, NEW h \in Hooks,
           Known(e, h) # {}, OpenJobs(e, h) = {}, ~Ignored(h)
    PROVE  \E j \in Delivery(e, h) :
               sent[j].oks > 0 \/ (j.attempt = MaxAttempts /\ sent[j].posts > 0)
<1> SUFFICES ASSUME \A j \in Delivery(e, h) :
                       ~(sent[j].oks > 0) /\ ~(j.attempt = MaxAttempts /\ sent[j].posts > 0)
             PROVE  FALSE
    OBVIOUS
<1> DEFINE K == Known(e, h)
           R == K \ {First(e, h)}
           f == [j \in K |-> NextAttempt(j)]
<1>1. ASSUME NEW j \in K
      PROVE  /\ j \in Jobs /\ j.attempt < MaxAttempts
             /\ NextAttempt(j) \in R /\ [NextAttempt(j) EXCEPT !.attempt = @ - 1] = j
    <2>1. j \in Delivery(e, h) /\ j \in Jobs /\ j.event = e /\ j.hook = h /\ job[j] # "none"
          BY <1>1 DEF Known, Delivery
    <2>2. job[j] \notin Open
          BY <2>1 DEF OpenJobs
    <2>3. job[j] = "completed"
          BY <2>1, <2>2 DEF Inv, TypeOK, Undisturbed
    <2>4. Decided(j)
          BY <2>1, <2>3 DEF Undisturbed
    <2>5. j.attempt < MaxAttempts /\ job[NextAttempt(j)] # "none"
          BY <2>1, <2>4 DEF Decided
    <2>6. /\ NextAttempt(j) \in Jobs /\ NextAttempt(j).event = e /\ NextAttempt(j).hook = h
          /\ NextAttempt(j).attempt > 1
          /\ [NextAttempt(j) EXCEPT !.attempt = @ - 1] = j
          BY <2>1, <2>5, NextType
    <2>7. NextAttempt(j) # First(e, h)
          BY <2>6, FirstFields
    <2> QED BY <2>1, <2>5, <2>6, <2>7 DEF Known, Delivery
<1>2. First(e, h) \in K
    <2>1. PICK j \in K : TRUE
          OBVIOUS
    <2>2. j \in Jobs /\ j.event = e /\ j.hook = h /\ job[j] # "none"
          BY <2>1 DEF Known, Delivery
    <2>3. job[First(e, h)] # "none" /\ First(e, h) \in Jobs
          BY <2>2, FirstType DEF Inv, FirstKnown
    <2> QED BY <2>3, FirstFields DEF Known, Delivery
<1>3. IsFiniteSet(K) /\ Cardinality(K) \in Nat
      BY KnownSize
<1>4. IsFiniteSet(R) /\ Cardinality(R) = Cardinality(K) - 1
      BY <1>2, <1>3, FS_RemoveElement
<1>5. f \in Injection(K, R)
    <2>1. f \in [K -> R]
          BY <1>1
    <2>2. \A i, j \in K : f[i] = f[j] => i = j
          BY <1>1
    <2> QED BY <2>1, <2>2 DEF Injection, IsInjective
<1> HIDE DEF K, R, f
<1>6. Cardinality(K) <= Cardinality(R)
      BY <1>4, <1>5, FS_Injection
<1> QED BY <1>3, <1>4, <1>6

\* As long as nobody edits and nothing fails, a delivery is abandoned only after
\* a success or its last attempt, and one whose subscription ignores errors has
\* one attempt, for any number of workers and any bound on the attempts.
THEOREM DeliveriesPersist == Spec => []RetriesAsConfigured
<1>1. Init => RetryInv
    <2> SUFFICES ASSUME Init PROVE Configured /\ Undisturbed
        BY DEF RetryInv
    <2>1. \A w \in Workers : worker[w].at = "idle"
          BY DEF Init, Idle
    <2>2. \A j \in Jobs : job[j] = "none"
          BY DEF Init
    <2> QED BY <2>1, <2>2 DEF Init, Configured, Undisturbed, Made
<1>2. Inv /\ RetryInv => RetriesAsConfigured
    <2> SUFFICES ASSUME Inv, RetryInv, NEW e \in Events, NEW h \in Hooks,
                        edits = 0, Known(e, h) # {}
                 PROVE  /\ Ignored(h) => Known(e, h) = {First(e, h)}
                        /\ (faults = 0 /\ OpenJobs(e, h) = {} /\ ~Ignored(h)) =>
                              \E j \in Delivery(e, h) :
                                  sent[j].oks > 0 \/ (j.attempt = MaxAttempts /\ sent[j].posts > 0)
        BY DEF RetriesAsConfigured, Ignored
    <2>1. ASSUME Ignored(h) PROVE Known(e, h) = {First(e, h)}
        <3>1. \A j \in Known(e, h) : j \in Jobs /\ j.event = e /\ j.hook = h /\ j.attempt = 1
              BY <2>1 DEF Known, Delivery, RetryInv, Configured
        <3>2. \A j \in Known(e, h) : j = First(e, h)
              BY <3>1, JobFields
        <3> QED BY <3>2
    <2>2. faults = 0 /\ OpenJobs(e, h) = {} /\ ~Ignored(h) =>
              \E j \in Delivery(e, h) :
                  sent[j].oks > 0 \/ (j.attempt = MaxAttempts /\ sent[j].posts > 0)
          BY EndsDecided DEF RetryInv
    <2> QED BY <2>1, <2>2
<1> QED BY <1>1, <1>2, RetryStepInv, Inductive, PTL DEF Spec

-----------------------------------------------------------------------------
(* Repetitions                                                             *)

\* The worker's attempt is still to be made, or may yet queue another one.
LiveAt(w) ==
    \/ worker[w].at \in {"load", "post", "retry", "retryError"}
    \/ worker[w].at = "record" /\ ~worker[w].ok
    \/ worker[w].at = "recordError" /\ Exists(worker[w].job.hook)

\* A job that waits, that has lost its worker, or whose worker is not done.
Live(j) ==
    \/ job[j] \in {"delayed", "wait"}
    \/ job[j] = "active" /\ \A w \in Workers : Busy(w) => worker[w].job # j
    \/ \E w \in Workers : worker[w].job = j /\ LiveAt(w)

Answered(e, h) == {j \in Delivery(e, h) : sent[j].oks > 0}
Lives(e, h) == {j \in Delivery(e, h) : Live(j)}

\* Between them the attempts that were answered 2xx and those that still may be
\* are one, and one more for each fault.
Balanced(e, h) == Cardinality(Answered(e, h)) + Cardinality(Lives(e, h)) <= 1 + faults

OnceInv ==
    /\ \A j \in Jobs : sent[j].oks > 0 => job[j] # "none"
    /\ \A e \in Events, h \in Hooks : Balanced(e, h)

\* Every set of attempts of one delivery is finite.
LEMMA AttemptSets ==
    ASSUME NEW e \in Events, NEW h \in Hooks, NEW T \in SUBSET Delivery(e, h)
    PROVE  IsFiniteSet(T) /\ Cardinality(T) \in Nat
BY DeliverySize, FS_Subset, FS_CardinalityType

LEMMA AnsweredAndLive ==
    ASSUME NEW e \in Events, NEW h \in Hooks
    PROVE  /\ Answered(e, h) \in SUBSET Delivery(e, h) /\ Lives(e, h) \in SUBSET Delivery(e, h)
           /\ Answered(e, h)' \in SUBSET Delivery(e, h) /\ Lives(e, h)' \in SUBSET Delivery(e, h)
BY DEF Answered, Lives, Delivery

LEMMA AddOne ==
    ASSUME NEW T, IsFiniteSet(T), NEW x
    PROVE  /\ IsFiniteSet(T \cup {x}) /\ Cardinality(T \cup {x}) \in Nat
           /\ Cardinality(T \cup {x}) <= Cardinality(T) + 1
<1>1. Cardinality(T) \in Nat
      BY FS_CardinalityType
<1>2. CASE x \in T
    <2>1. T \cup {x} = T
          BY <1>2
    <2> QED BY <1>1, <2>1
<1>3. CASE x \notin T
    <2>1. IsFiniteSet(T \cup {x}) /\ Cardinality(T \cup {x}) = Cardinality(T) + 1
          BY <1>3, FS_AddElement
    <2> QED BY <1>1, <2>1
<1> QED BY <1>2, <1>3

LEMMA BalanceQuiet ==
    ASSUME TypeOK, faults' \in {faults, faults + 1},
           \A j \in Jobs : /\ sent'[j].oks > 0 => sent[j].oks > 0
                           /\ Live(j)' => Live(j),
           NEW e \in Events, NEW h \in Hooks, Balanced(e, h)
    PROVE  Balanced(e, h)'
<1> DEFINE A == Answered(e, h)
           L == Lives(e, h)
<1>1. A' \subseteq A /\ L' \subseteq L
      BY DEF Answered, Lives, Delivery
<1>2. IsFiniteSet(A) /\ IsFiniteSet(L)
      BY AttemptSets, AnsweredAndLive
<1>3. /\ Cardinality(A) \in Nat /\ Cardinality(A') \in Nat
      /\ Cardinality(L) \in Nat /\ Cardinality(L') \in Nat
      BY AttemptSets, AnsweredAndLive
<1>4. Cardinality(A') <= Cardinality(A) /\ Cardinality(L') <= Cardinality(L)
      BY <1>1, <1>2, FS_Subset
<1>5. faults \in Nat /\ Cardinality(A) + Cardinality(L) <= 1 + faults
      BY DEF TypeOK, Balanced
<1> HIDE DEF A, L
<1>6. Cardinality(A') + Cardinality(L') <= 1 + faults'
      BY <1>3, <1>4, <1>5
<1> QED BY <1>6 DEF Balanced, A, L

\* A fault may bring one attempt back to life.
LEMMA BalanceFault ==
    ASSUME TypeOK, faults' = faults + 1, NEW l,
           \A j \in Jobs : /\ sent'[j].oks > 0 => sent[j].oks > 0
                           /\ j # l /\ Live(j)' => Live(j),
           NEW e \in Events, NEW h \in Hooks, Balanced(e, h)
    PROVE  Balanced(e, h)'
<1> DEFINE A == Answered(e, h)
           L == Lives(e, h)
<1>1. A' \subseteq A /\ L' \subseteq L \cup {l}
      BY DEF Answered, Lives, Delivery
<1>2. IsFiniteSet(A) /\ IsFiniteSet(L)
      BY AttemptSets, AnsweredAndLive
<1>3. /\ Cardinality(A) \in Nat /\ Cardinality(A') \in Nat
      /\ Cardinality(L) \in Nat /\ Cardinality(L') \in Nat
      BY AttemptSets, AnsweredAndLive
<1>4. IsFiniteSet(L \cup {l}) /\ Cardinality(L \cup {l}) <= Cardinality(L) + 1
      BY <1>2, AddOne
<1>5. Cardinality(A') <= Cardinality(A) /\ Cardinality(L') <= Cardinality(L \cup {l})
      BY <1>1, <1>2, <1>4, FS_Subset
<1>6. Cardinality(L \cup {l}) \in Nat
      BY <1>4, FS_CardinalityType
<1>7. faults \in Nat /\ Cardinality(A) + Cardinality(L) <= 1 + faults
      BY DEF TypeOK, Balanced
<1> HIDE DEF A, L
<1>8. Cardinality(A') + Cardinality(L') <= 1 + faults'
      BY <1>3, <1>4, <1>5, <1>6, <1>7
<1> QED BY <1>8 DEF Balanced, A, L

\* A 2xx makes an attempt that was live an answered one.
LEMMA BalanceAnswer ==
    ASSUME TypeOK, faults' = faults, NEW l \in Jobs, Live(l), ~Live(l)',
           \A j \in Jobs : /\ j # l /\ sent'[j].oks > 0 => sent[j].oks > 0
                           /\ j # l /\ Live(j)' => Live(j),
           NEW e \in Events, NEW h \in Hooks, Balanced(e, h)
    PROVE  Balanced(e, h)'
<1> DEFINE A == Answered(e, h)
           L == Lives(e, h)
<1>1. CASE l \notin Delivery(e, h)
    <2>1. A' \subseteq A /\ L' \subseteq L
          BY <1>1 DEF Answered, Lives, Delivery
    <2>2. IsFiniteSet(A) /\ IsFiniteSet(L)
          BY AttemptSets, AnsweredAndLive
    <2>3. /\ Cardinality(A) \in Nat /\ Cardinality(A') \in Nat
          /\ Cardinality(L) \in Nat /\ Cardinality(L') \in Nat
          BY AttemptSets, AnsweredAndLive
    <2>4. Cardinality(A') <= Cardinality(A) /\ Cardinality(L') <= Cardinality(L)
          BY <2>1, <2>2, FS_Subset
    <2>5. faults \in Nat /\ Cardinality(A) + Cardinality(L) <= 1 + faults
          BY DEF TypeOK, Balanced
    <2> HIDE DEF A, L
    <2>6. Cardinality(A') + Cardinality(L') <= 1 + faults'
          BY <2>3, <2>4, <2>5
    <2> QED BY <2>6 DEF Balanced, A, L
<1>2. CASE l \in Delivery(e, h)
    <2>1. A' \subseteq A \cup {l} /\ L' \subseteq L \ {l} /\ l \in L
          BY <1>2 DEF Answered, Lives, Delivery
    <2>2. IsFiniteSet(A) /\ IsFiniteSet(L)
          BY AttemptSets, AnsweredAndLive
    <2>3. /\ Cardinality(A) \in Nat /\ Cardinality(A') \in Nat
          /\ Cardinality(L) \in Nat /\ Cardinality(L') \in Nat
          BY AttemptSets, AnsweredAndLive
    <2>4. IsFiniteSet(A \cup {l}) /\ Cardinality(A \cup {l}) <= Cardinality(A) + 1
          BY <2>2, AddOne
    <2>5. IsFiniteSet(L \ {l}) /\ Cardinality(L \ {l}) = Cardinality(L) - 1
          BY <2>1, <2>2, FS_RemoveElement
    <2>6. Cardinality(A') <= Cardinality(A \cup {l}) /\ Cardinality(L') <= Cardinality(L \ {l})
          BY <2>1, <2>4, <2>5, FS_Subset
    <2>7. Cardinality(A \cup {l}) \in Nat /\ Cardinality(L \ {l}) \in Nat
          BY <2>4, <2>5, FS_CardinalityType
    <2>8. faults \in Nat /\ Cardinality(A) + Cardinality(L) <= 1 + faults
          BY DEF TypeOK, Balanced
    <2> HIDE DEF A, L
    <2>9. Cardinality(A') + Cardinality(L') <= 1 + faults'
          BY <2>3, <2>4, <2>5, <2>6, <2>7, <2>8
    <2> QED BY <2>9 DEF Balanced, A, L
<1> QED BY <1>1, <1>2

\* An attempt that gives way to the next one of its delivery.
LEMMA BalanceNext ==
    ASSUME TypeOK, faults' = faults, sent' = sent, NEW l \in Jobs, Live(l), ~Live(l)',
           NEW k \in Jobs, k.event = l.event, k.hook = l.hook,
           \A j \in Jobs : j # k /\ Live(j)' => Live(j),
           NEW e \in Events, NEW h \in Hooks, Balanced(e, h)
    PROVE  Balanced(e, h)'
<1> DEFINE A == Answered(e, h)
           L == Lives(e, h)
<1>1. A' = A
      BY DEF Answered, Delivery
<1>2. IsFiniteSet(L) /\ Cardinality(L) \in Nat /\ Cardinality(L') \in Nat
      BY AttemptSets, AnsweredAndLive
<1>3. Cardinality(L') <= Cardinality(L)
    <2>1. CASE l \notin Delivery(e, h)
        <3>1. L' \subseteq L
              BY <2>1 DEF Lives, Delivery
        <3> QED BY <1>2, <3>1, FS_Subset
    <2>2. CASE l \in Delivery(e, h)
        <3>1. l \in L /\ L' \subseteq (L \ {l}) \cup {k}
              BY <2>2 DEF Lives, Delivery
        <3>2. IsFiniteSet(L \ {l}) /\ Cardinality(L \ {l}) = Cardinality(L) - 1
              BY <1>2, <3>1, FS_RemoveElement
        <3>3. /\ IsFiniteSet((L \ {l}) \cup {k})
              /\ Cardinality((L \ {l}) \cup {k}) <= Cardinality(L \ {l}) + 1
              BY <3>2, AddOne
        <3>4. Cardinality(L') <= Cardinality((L \ {l}) \cup {k})
              BY <3>1, <3>3, FS_Subset
        <3>5. Cardinality((L \ {l}) \cup {k}) \in Nat
              BY <3>3, FS_CardinalityType
        <3> HIDE DEF L
        <3> QED BY <1>2, <3>2, <3>3, <3>4, <3>5
    <2> QED BY <2>1, <2>2
<1>4. faults \in Nat /\ Cardinality(A) + Cardinality(L) <= 1 + faults /\ Cardinality(A) \in Nat
      BY AttemptSets, AnsweredAndLive DEF TypeOK, Balanced
<1> HIDE DEF A, L
<1>5. Cardinality(A') + Cardinality(L') <= 1 + faults'
      BY <1>1, <1>2, <1>3, <1>4
<1> QED BY <1>5 DEF Balanced, A, L

\* A worker's own job is live when the worker is where it may still be answered.
LEMMA LiveOwn ==
    ASSUME Inv, NEW w \in Workers, Busy(w), NEW l, l = worker[w].job
    PROVE  Live(l) <=> LiveAt(w)
<1>1. job[l] = "active" /\ \A v \in Workers : Busy(v) /\ worker[v].job = l => v = w
      BY DEF Inv, Owned
<1>2. \A v \in Workers : LiveAt(v) => Busy(v)
      BY DEF LiveAt, Busy
<1> QED BY <1>1, <1>2 DEF Live

\* The other jobs are as live as they were.
LEMMA LiveOthers ==
    ASSUME hook' = hook, NEW w \in Workers, NEW l,
           \A v \in Workers : v # w => worker'[v] = worker[v],
           Busy(w) => worker[w].job = l, Busy(w)' => worker'[w].job = l,
           NEW j \in Jobs, j # l, job'[j] = job[j]
    PROVE  Live(j)' => Live(j)
<1>1. \A v \in Workers : LiveAt(v) => Busy(v)
      BY DEF LiveAt, Busy
<1>2. \A v \in Workers : LiveAt(v)' => Busy(v)'
      BY DEF LiveAt, Busy
<1>3. \A v \in Workers : v # w => (LiveAt(v)' <=> LiveAt(v)) /\ (Busy(v)' <=> Busy(v))
      BY DEF LiveAt, Busy, Exists
<1>4. ASSUME NEW v \in Workers, worker'[v].job = j, LiveAt(v)'
      PROVE  worker[v].job = j /\ LiveAt(v)
      BY <1>2, <1>3, <1>4
<1>5. ASSUME \A v \in Workers : Busy(v)' => worker'[v].job # j
      PROVE  \A v \in Workers : Busy(v) => worker[v].job # j
      BY <1>3, <1>5
<1> QED BY <1>4, <1>5 DEF Live

\* One step of a worker on its job: the job's own life decides.
LEMMA WorkerBalance ==
    ASSUME Inv, Inv', hook' = hook, NEW w \in Workers, Busy(w),
           NEW l \in Jobs, l = worker[w].job,
           \A v \in Workers : v # w => worker'[v] = worker[v],
           Busy(w)', worker'[w].job = l, job' = job
    PROVE  /\ \A j \in Jobs : j # l /\ Live(j)' => Live(j)
           /\ Live(l) <=> LiveAt(w)
           /\ Live(l)' <=> LiveAt(w)'
<1>1. \A j \in Jobs : j # l /\ Live(j)' => Live(j)
      BY LiveOthers
<1>2. Live(l) <=> LiveAt(w)
      BY LiveOwn
<1>3. Live(l)' <=> LiveAt(w)'
    <2>1. \A v \in Workers : LiveAt(v)' => Busy(v)'
          BY DEF LiveAt, Busy
    <2>2. \A v \in Workers : Busy(v)' /\ worker'[v].job = l => v = w
          BY DEF Inv, Owned
    <2>3. job'[l] = "active"
          BY DEF Inv, Owned
    <2> QED BY <2>1, <2>2, <2>3 DEF Live
<1> QED BY <1>1, <1>2, <1>3

\* A job that is in no worker's hands lives by its state.
LEMMA FreeJob ==
    ASSUME Inv, NEW l \in Jobs, job[l] \in {"none", "completed", "failed"}
    PROVE  ~Live(l)
<1>1. \A v \in Workers : LiveAt(v) => Busy(v)
      BY DEF LiveAt, Busy
<1>2. \A v \in Workers : Busy(v) => worker[v].job # l
      BY DEF Inv, Owned
<1> QED BY <1>1, <1>2 DEF Live

LEMMA ProcessBalance ==
    ASSUME Inv, Inv', Met, NEW w \in Workers, Process(w),
           NEW e \in Events, NEW h \in Hooks, Balanced(e, h)
    PROVE  Balanced(e, h)'
<1>0. TypeOK
      BY DEF Inv
<1> PICK l \in Jobs : l = worker[w].job
    BY <1>0, WorkerTypes
<1>1. Busy(w) /\ hook' = hook /\ faults' = faults
      BY DEF Process, Load, Post, Record, RecordError, RecordOrphan, ScheduleRetry, Close,
             Busy, Local
<1>2. ASSUME job' = job, sent' = sent, Busy(w)', worker'[w].job = l,
             \A v \in Workers : v # w => worker'[v] = worker[v],
             LiveAt(w)' => LiveAt(w)
      PROVE  Balanced(e, h)'
    <2>1. \A j \in Jobs : Live(j)' => Live(j)
          BY <1>1, <1>2, WorkerBalance
    <2> QED BY <1>0, <1>1, <1>2, <2>1, BalanceQuiet
<1>3. CASE Load(w)
    <2>1. UNCHANGED <<job, sent>> /\ LiveAt(w)
          BY <1>3 DEF Load, LiveAt
    <2>2. Busy(w)'
          BY <1>0, <1>3, LoadMoves DEF Busy
    <2> QED BY <1>0, <1>2, <1>3, <2>1, <2>2, LoadMoves
<1>4. ASSUME NEW o \in {"ok", "bad", "none"}, Post(w, o) PROVE Balanced(e, h)'
    <2>1. /\ job' = job /\ LiveAt(w)
          /\ \A j \in Jobs : j # l => sent'[j] = sent[j]
          BY <1>0, <1>4 DEF Post, LiveAt, TypeOK
    <2>2. Busy(w)' /\ worker'[w].job = l /\ \A v \in Workers : v # w => worker'[v] = worker[v]
          BY <1>0, <1>4, PostMoves DEF Busy
    <2>3. CASE o = "ok"
        <3>1. ~LiveAt(w)'
              BY <1>0, <1>4, <2>3, PostMoves DEF LiveAt
        <3>2. Live(l) /\ ~Live(l)' /\ \A j \in Jobs : j # l /\ Live(j)' => Live(j)
              BY <1>1, <2>1, <2>2, <3>1, WorkerBalance
        <3> QED BY <1>0, <1>1, <2>1, <3>2, BalanceAnswer
    <2>4. CASE o # "ok"
        <3>1. sent[l] \in [posts : Nat, oks : Nat]
              BY <1>0 DEF TypeOK
        <3>2. sent'[l].oks = sent[l].oks
              BY <1>0, <1>4, <2>4, <3>1 DEF Post, TypeOK
        <3>3. \A j \in Jobs : sent'[j].oks = sent[j].oks
              BY <2>1, <3>2
        <3>4. \A j \in Jobs : Live(j)' => Live(j)
              BY <1>1, <2>1, <2>2, WorkerBalance
        <3> QED BY <1>0, <1>1, <3>3, <3>4, BalanceQuiet
    <2> QED BY <2>3, <2>4
<1>5. ASSUME NEW x, WorkerAt(w, x), x # "idle"
      PROVE  /\ worker'[w].at = x /\ worker'[w].job = l /\ Busy(w)'
             /\ \A v \in Workers : v # w => worker'[v] = worker[v]
      BY <1>0, <1>5, AtMoves DEF Busy
<1>6. CASE Record(w)
    <2>1. /\ UNCHANGED <<job, sent>> /\ WorkerAt(w, AfterRecord(w)) /\ worker[w].at = "record"
          /\ AfterRecord(w) # "idle"
          BY <1>6 DEF Record, AfterRecord
    <2>2. worker'[w].at = AfterRecord(w)
          BY <1>5, <2>1
    <2>3. CASE worker[w].ok
        <3>1. ~LiveAt(w)'
              BY <2>2, <2>3 DEF AfterRecord, LiveAt
        <3> QED BY <1>2, <1>5, <2>1, <3>1
    <2>4. CASE ~worker[w].ok
        <3>1. LiveAt(w)
              BY <2>1, <2>4 DEF LiveAt
        <3> QED BY <1>2, <1>5, <2>1, <3>1
    <2> QED BY <2>3, <2>4
<1>7. CASE RecordError(w)
    <2>1. UNCHANGED <<job, sent>> /\ WorkerAt(w, "retryError") /\ LiveAt(w)
          BY <1>7 DEF RecordError, LiveAt
    <2> QED BY <1>2, <1>5, <2>1
<1>8. CASE RecordOrphan(w)
    <2>1. /\ UNCHANGED <<job, sent>> /\ WorkerAt(w, Thrown(worker[w].at))
          /\ ~Exists(l.hook) /\ Thrown(worker[w].at) \in {"recordError", "failed"}
          BY <1>8 DEF RecordOrphan, Thrown
    <2>2. worker'[w].at \in {"recordError", "failed"} /\ worker'[w].job = l
          BY <1>5, <2>1
    <2>3. ~LiveAt(w)'
          BY <1>1, <2>1, <2>2 DEF LiveAt, Exists
    <2> QED BY <1>2, <1>5, <2>1, <2>3
<1>9. CASE ScheduleRetry(w)
    <2> DEFINE k == NextAttempt(l)
    <2>1. /\ sent' = sent /\ WorkerAt(w, "completed") /\ LiveAt(w)
          /\ job' # job => Again(w) /\ job' = Added(k)
          BY <1>9 DEF ScheduleRetry, LiveAt
    <2>2. worker'[w].at = "completed" /\ worker'[w].job = l /\ Busy(w)'
          /\ \A v \in Workers : v # w => worker'[v] = worker[v]
          BY <1>5, <2>1
    <2>3. CASE job' = job
          BY <1>2, <2>1, <2>2, <2>3
    <2>4. CASE job' # job
        <3>1. k \in Jobs /\ k.event = l.event /\ k.hook = l.hook
              BY <2>1, <2>4, NextType DEF Again
        <3>2. job' = [job EXCEPT ![k] = IF @ = "none" THEN "delayed" ELSE @]
              BY <2>1, <2>4 DEF Added
        <3>3. job[k] = "none" /\ \A j \in Jobs : j # k => job'[j] = job[j]
              BY <1>0, <2>4, <3>1, <3>2 DEF TypeOK
        <3>4. Live(l) /\ job[l] = "active"
              BY <1>1, <2>1, LiveOwn DEF Inv, Owned
        <3>5. ~Live(l)'
            <4>1. job'[l] = "active"
                  BY <3>3, <3>4
            <4>2. \A v \in Workers : LiveAt(v)' => Busy(v)' /\ v # w
                  BY <2>2 DEF LiveAt, Busy
            <4>3. \A v \in Workers : Busy(v)' /\ worker'[v].job = l => v = w
                  BY <2>2 DEF Inv, Owned
            <4> QED BY <2>2, <4>1, <4>2, <4>3 DEF Live
        <3>6. \A j \in Jobs : j # k /\ Live(j)' => Live(j)
            <4>1. ASSUME NEW j \in Jobs, j # k, j # l PROVE Live(j)' => Live(j)
                  BY <1>1, <2>2, <3>3, <4>1, LiveOthers
            <4> QED BY <3>4, <4>1
        <3> QED BY <1>0, <1>1, <2>1, <3>1, <3>4, <3>5, <3>6, BalanceNext
    <2> QED BY <2>3, <2>4
<1>10. CASE Close(w)
    <2>1. job' = [job EXCEPT ![l] = worker[w].at] /\ worker[w].at \in {"completed", "failed"}
          /\ sent' = sent
          BY <1>10 DEF Close
    <2>2. job'[l] \in {"completed", "failed"} /\ \A j \in Jobs : j # l => job'[j] = job[j]
          BY <1>0, <2>1 DEF TypeOK
    <2>3. ~Busy(w)' /\ \A v \in Workers : v # w => worker'[v] = worker[v]
          BY <1>0, <1>10, CloseMoves DEF Busy
    <2>4. ~Live(l)'
        <3>1. \A v \in Workers : LiveAt(v)' => Busy(v)'
              BY DEF LiveAt, Busy
        <3>2. \A v \in Workers : Busy(v)' => worker'[v].job # l
              BY <2>2 DEF Inv, Owned
        <3> QED BY <2>2, <3>1, <3>2 DEF Live
    <2>5. \A j \in Jobs : Live(j)' => Live(j)
        <3>1. ASSUME NEW j \in Jobs, j # l PROVE Live(j)' => Live(j)
              BY <1>1, <2>2, <2>3, <3>1, LiveOthers
        <3> QED BY <2>4, <3>1
    <2> QED BY <1>0, <1>1, <2>1, <2>5, BalanceQuiet
<1> QED BY <1>3, <1>4, <1>6, <1>7, <1>8, <1>9, <1>10 DEF Process

\* A delivery that begins has one live attempt and none that was answered.
LEMMA EnqueueBalance ==
    ASSUME Inv, OnceInv, NEW f \in Events, NEW t \in todo[f], Enqueue(f, t),
           NEW e \in Events, NEW h \in Hooks
    PROVE  Balanced(e, h)'
<1> DEFINE k == First(f, t.id)
<1>1. TypeOK /\ t.id \in Hooks /\ k \in Jobs /\ job[k] = "none"
      BY FirstType DEF Inv, TypeOK, Found, Fanning
<1>2. /\ UNCHANGED <<hook, worker, sent, faults>>
      /\ job' = [job EXCEPT ![k] = "wait"]
      BY DEF Enqueue
<1>3. \A j \in Jobs : j # k => job'[j] = job[j]
      BY <1>1, <1>2 DEF TypeOK
<1>4. \A v \in Workers : (LiveAt(v)' <=> LiveAt(v)) /\ (Busy(v)' <=> Busy(v))
      BY <1>2 DEF LiveAt, Busy, Exists
<1>5. \A j \in Jobs : j # k /\ Live(j)' => Live(j)
      BY <1>2, <1>3, <1>4 DEF Live
<1>6. CASE e = f /\ h = t.id
    <2>1. \A j \in Delivery(e, h) : j \in Jobs /\ job[j] = "none"
          BY <1>1, <1>6 DEF Delivery, Inv, FirstKnown
    <2>2. \A j \in Delivery(e, h) : ~Live(j) /\ ~(sent[j].oks > 0)
          BY <2>1, FreeJob DEF OnceInv
    <2>3. Answered(e, h)' = {}
          BY <1>2, <2>2 DEF Answered, Delivery
    <2>4. Lives(e, h)' \subseteq {k}
          BY <1>5, <2>1, <2>2 DEF Lives, Delivery
    <2>5. Cardinality(Answered(e, h)') = 0
          BY <2>3, FS_EmptySet
    <2>6. Cardinality(Lives(e, h)') <= 1
        <3>1. IsFiniteSet({k}) /\ Cardinality({k}) = 1
              BY FS_Singleton
        <3> QED BY <2>4, <3>1, FS_Subset
    <2>7. Cardinality(Lives(e, h)') \in Nat /\ faults' \in Nat
          BY <1>1, <1>2, AttemptSets, AnsweredAndLive DEF TypeOK
    <2>8. Cardinality(Answered(e, h)') + Cardinality(Lives(e, h)') <= 1 + faults'
          BY <2>5, <2>6, <2>7
    <2> QED BY <2>8 DEF Balanced
<1>7. CASE ~(e = f /\ h = t.id)
    <2>1. k \notin Delivery(e, h)
          BY <1>7, FirstFields, <1>1 DEF Delivery
    <2>2. Answered(e, h)' = Answered(e, h)
          BY <1>2 DEF Answered, Delivery
    <2>3. Lives(e, h)' \subseteq Lives(e, h)
          BY <1>5, <2>1 DEF Lives, Delivery
    <2>4. Cardinality(Lives(e, h)') <= Cardinality(Lives(e, h))
          BY <2>3, AttemptSets, AnsweredAndLive, FS_Subset
    <2>5. /\ Cardinality(Lives(e, h)') \in Nat /\ Cardinality(Lives(e, h)) \in Nat
          /\ Cardinality(Answered(e, h)) \in Nat /\ faults \in Nat
          BY <1>1, AttemptSets, AnsweredAndLive DEF TypeOK
    <2>6. Cardinality(Answered(e, h)) + Cardinality(Lives(e, h)) <= 1 + faults
          BY DEF OnceInv, Balanced
    <2>7. Cardinality(Answered(e, h)') + Cardinality(Lives(e, h)') <= 1 + faults'
          BY <1>2, <2>2, <2>4, <2>5, <2>6
    <2> QED BY <2>7 DEF Balanced
<1> QED BY <1>6, <1>7

\* A job changes hands between the queue and a worker, and stays as live.
LEMMA QueueBalance ==
    ASSUME Inv, NEW j \in Jobs, Promote(j) \/ Recover(j) \/ \E w \in Workers : Take(w, j),
           NEW e \in Events, NEW h \in Hooks, Balanced(e, h)
    PROVE  Balanced(e, h)'
<1>1. TypeOK /\ UNCHANGED <<hook, sent, faults>>
      BY DEF Inv, Promote, Recover, Take
<1>2. \A k \in Jobs : k # j => job'[k] = job[k]
      BY <1>1 DEF Promote, Recover, Take, TypeOK
<1>3. Live(j)
      BY DEF Promote, Recover, Take, Live, Busy
<1>4. CASE Promote(j) \/ Recover(j)
    <2>1. worker' = worker
          BY <1>4 DEF Promote, Recover
    <2>2. \A v \in Workers : (LiveAt(v)' <=> LiveAt(v)) /\ (Busy(v)' <=> Busy(v))
          BY <1>1, <2>1 DEF LiveAt, Busy, Exists
    <2>3. \A k \in Jobs : k # j /\ Live(k)' => Live(k)
          BY <1>2, <2>1, <2>2 DEF Live
    <2> QED BY <1>1, <1>3, <2>3, BalanceQuiet
<1>5. ASSUME NEW w \in Workers, Take(w, j) PROVE Balanced(e, h)'
    <2>1. ~Busy(w)
          BY <1>5 DEF Take, Busy
    <2>2. worker'[w].job = j /\ \A v \in Workers : v # w => worker'[v] = worker[v]
          BY <1>1, <1>5, TakeMoves
    <2>3. \A k \in Jobs : k # j /\ Live(k)' => Live(k)
          BY <1>1, <1>2, <2>1, <2>2, LiveOthers
    <2> QED BY <1>1, <1>3, <2>3, BalanceQuiet
<1> QED BY <1>4, <1>5

\* An edit brings nothing back to life: what is gone stays gone.
LEMMA EditBalance ==
    ASSUME Inv, Met, Edits, NEW e \in Events, NEW h \in Hooks, Balanced(e, h)
    PROVE  Balanced(e, h)'
<1>1. TypeOK /\ UNCHANGED <<worker, job, sent, faults>>
      BY DEF Inv, Edits, Remove, Register, Update, Retag
<1>2. [Next]_vars
      BY DEF Next
<1>3. ASSUME NEW v \in Workers, LiveAt(v)' PROVE LiveAt(v)
    <2>1. CASE worker[v].at = "recordError"
        <3>1. worker[v].job.hook \in Hooks /\ worker'[v] = worker[v]
              BY <1>1, WorkerTypes
        <3>2. hook'[worker[v].job.hook] # Gone
            <4>1. TypeOK'
                  BY <1>1, <1>2, TypeStep
            <4>2. \A g \in Hooks : Exists(g)' => hook'[g] # Gone
                  BY DEF Exists, Gone
            <4>3. Exists(worker[v].job.hook)'
                  BY <1>3, <2>1, <3>1 DEF LiveAt
            <4> QED BY <1>1, <3>1, <4>2, <4>3
        <3>3. hook[worker[v].job.hook] # Gone
              BY <1>1, <1>2, <3>1, <3>2, HooksLeave
        <3>4. hook[worker[v].job.hook] # Unused
              BY <2>1 DEF Met, Made
        <3> QED BY <1>1, <2>1, <3>1, <3>3, <3>4, ExistsUnless DEF LiveAt
    <2>2. CASE worker[v].at # "recordError"
          BY <1>1, <1>3, <2>2 DEF LiveAt
    <2> QED BY <2>1, <2>2
<1>4. \A v \in Workers : Busy(v)' <=> Busy(v)
      BY <1>1 DEF Busy
<1>5. \A j \in Jobs : Live(j)' => Live(j)
      BY <1>1, <1>3, <1>4 DEF Live
<1> QED BY <1>1, <1>5, BalanceQuiet

\* A statement fails in one worker.
LEMMA FailureBalance ==
    ASSUME Inv, NEW w \in Workers, StatementFails(w),
           NEW e \in Events, NEW h \in Hooks, Balanced(e, h)
    PROVE  Balanced(e, h)'
<1> DEFINE l == worker[w].job
<1>1. /\ TypeOK /\ UNCHANGED <<hook, job, sent>> /\ faults' = faults + 1 /\ Busy(w)
      /\ WorkerAt(w, Thrown(worker[w].at))
      BY DEF Inv, StatementFails, Fault, Local, Busy
<1>2. worker'[w].job = l /\ \A v \in Workers : v # w => worker'[v] = worker[v]
      BY <1>1, AtMoves
<1> PICK k : k = l
    OBVIOUS
<1>3. \A j \in Jobs : j # k /\ Live(j)' => Live(j)
      BY <1>1, <1>2, LiveOthers
<1> QED BY <1>1, <1>3, BalanceFault

\* A crash takes one job from its worker, as there is one worker.
LEMMA CrashBalance ==
    ASSUME Inv, \A v, w \in Workers : v = w, Crash,
           NEW e \in Events, NEW h \in Hooks, Balanced(e, h)
    PROVE  Balanced(e, h)'
<1>1. TypeOK /\ UNCHANGED <<hook, job, sent>> /\ faults' = faults + 1
      BY DEF Inv, Crash, Fault
<1>2. \E l : \A w \in Workers : worker[w].job = l
      OBVIOUS
<1> PICK l : \A w \in Workers : worker[w].job = l
    BY <1>2
<1>3. \A w \in Workers : ~LiveAt(w)'
      BY DEF Crash, Idle, LiveAt
<1>4. \A j \in Jobs : j # l /\ Live(j)' => Live(j)
      BY <1>1, <1>3 DEF Live
<1> QED BY <1>1, <1>4, BalanceFault

LEMMA OnceStep ==
    ASSUME \A v, w \in Workers : v = w
    PROVE  Inv /\ Met /\ OnceInv /\ [Next]_vars => OnceInv'
<1> SUFFICES ASSUME Inv, Met, OnceInv, [Next]_vars PROVE OnceInv'
    OBVIOUS
<1>0. TypeOK /\ Inv'
      BY InvStep DEF Inv
<1>1. ASSUME NEW j \in Jobs, sent'[j].oks > 0 PROVE job'[j] # "none"
    <2>1. CASE sent[j].oks > 0
          BY <2>1, NewJobs DEF OnceInv
    <2>2. CASE ~(sent[j].oks > 0)
        <3>1. ASSUME NEW w \in Workers, NEW o \in {"ok", "bad", "none"}, Post(w, o)
              PROVE  job'[j] # "none"
            <4>1. j = worker[w].job
                  BY <1>0, <1>1, <2>2, <3>1 DEF Post, TypeOK
            <4>2. Busy(w) /\ job' = job
                  BY <3>1 DEF Post, Busy
            <4> QED BY <4>1, <4>2 DEF Inv, Owned
        <3>2. sent' = sent \/ \E w \in Workers, o \in {"ok", "bad", "none"} : Post(w, o)
              BY DEF Next, Edits, Remove, Register, Update, Retag, Emit, Handle, FindHooks,
                     FilterByTagSets, Enqueue, HandlerFails, Promote, Recover, Take, Process,
                     Load, Record, RecordError, RecordOrphan, ScheduleRetry, Close,
                     StatementFails, Crash, vars
        <3> QED BY <1>1, <2>2, <3>1, <3>2
    <2> QED BY <2>1, <2>2
<1>2. ASSUME NEW e \in Events, NEW h \in Hooks PROVE Balanced(e, h)'
    <2>1. Balanced(e, h)
          BY DEF OnceInv
    <2>2. ASSUME UNCHANGED <<hook, worker, job, sent>>, faults' \in {faults, faults + 1}
          PROVE  Balanced(e, h)'
        <3>1. \A j \in Jobs : Live(j)' => Live(j)
              BY <2>2 DEF Live, LiveAt, Busy, Exists
        <3> QED BY <1>0, <2>1, <2>2, <3>1, BalanceQuiet
    <2>3. ASSUME NEW f \in Events, Emit(f) \/ FindHooks(f) \/ FilterByTagSets(f) \/ HandlerFails(f)
          PROVE  Balanced(e, h)'
          BY <2>2, <2>3 DEF Emit, FindHooks, FilterByTagSets, HandlerFails, Fault
    <2>4. CASE UNCHANGED vars
          BY <2>2, <2>4 DEF vars
    <2>5. ASSUME NEW f \in Events, NEW t \in todo[f], Enqueue(f, t) PROVE Balanced(e, h)'
          BY <2>5, EnqueueBalance
    <2>6. ASSUME NEW j \in Jobs, Promote(j) \/ Recover(j) \/ \E w \in Workers : Take(w, j)
          PROVE  Balanced(e, h)'
          BY <2>1, <2>6, QueueBalance
    <2>7. ASSUME NEW w \in Workers, Process(w) \/ StatementFails(w) PROVE Balanced(e, h)'
          BY <1>0, <2>1, <2>7, ProcessBalance, FailureBalance
    <2> QED BY <2>1, <2>3, <2>4, <2>5, <2>6, <2>7, EditBalance, CrashBalance DEF Next, Handle
<1> QED BY <1>1, <1>2 DEF OnceInv

\* With the one worker the process runs, a delivery that was answered 2xx is not
\* repeated, except once for each crash or failed statement, for any number of
\* subscriptions, attempts, edits and faults.  A crash of several workers could
\* repeat an attempt of each.
THEOREM RepeatedOnlyByFaults ==
    ASSUME \A v, w \in Workers : v = w
    PROVE  Spec => []RepeatedByFaultsOnly
<1>1. Init => Met /\ OnceInv
    <2> SUFFICES ASSUME Init PROVE Met /\ OnceInv
        OBVIOUS
    <2>1. \A w \in Workers : worker[w].at = "idle"
          BY DEF Init, Idle
    <2>2. \A j \in Jobs : job[j] = "none" /\ sent[j].oks = 0
          BY DEF Init
    <2>3. ASSUME NEW e \in Events, NEW h \in Hooks PROVE Balanced(e, h)
        <3>1. Answered(e, h) = {} /\ Lives(e, h) = {}
              BY <2>1, <2>2 DEF Answered, Lives, Live, LiveAt, Delivery
        <3> QED BY <3>1, FS_EmptySet DEF Balanced, Init
    <2> QED BY <2>1, <2>2, <2>3 DEF Met, OnceInv, Made
<1>2. Inv /\ Met /\ OnceInv /\ [Next]_vars => Met' /\ OnceInv'
      BY MetStep, OnceStep
<1>3. Inv /\ OnceInv => RepeatedByFaultsOnly
    <2> SUFFICES ASSUME Inv, OnceInv, NEW e \in Events, NEW h \in Hooks
                 PROVE  Cardinality(Answered(e, h)) <= 1 + faults
        BY DEF RepeatedByFaultsOnly, Answered
    <2>1. Cardinality(Answered(e, h)) + Cardinality(Lives(e, h)) <= 1 + faults
          BY DEF OnceInv, Balanced
    <2>2. /\ Cardinality(Answered(e, h)) \in Nat /\ Cardinality(Lives(e, h)) \in Nat
          /\ faults \in Nat
          BY AttemptSets, AnsweredAndLive DEF Inv, TypeOK
    <2> QED BY <2>1, <2>2
<1> QED BY <1>1, <1>2, <1>3, Inductive, PTL DEF Spec
=============================================================================
