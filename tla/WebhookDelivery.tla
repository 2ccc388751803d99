--------------------------- MODULE WebhookDelivery ---------------------------
(***************************************************************************)
(* From a fact-sheet event to the HTTP requests of its webhooks: the       *)
(* subscriptions and their delivery log (PostgreSQL), the event handler    *)
(* that queues one delivery per matching subscription, the BullMQ queue    *)
(* (Redis, survives a crash), and the worker that makes an attempt, logs   *)
(* it and queues the next one itself.                                      *)
(*                                                                         *)
(* BullMQ as this code uses it: a job id is accepted once (no option       *)
(* removes finished jobs), a job that throws is not retried (no attempts   *)
(* option), and a job whose worker died is run again, once.  The delays of *)
(* webhookRetryDelayMs are left out: a delayed job becomes ready some time *)
(* later.                                                                  *)
(***************************************************************************)
EXTENDS Integers, FiniteSets

CONSTANTS Hooks,        \* ids of subscriptions
          Events,       \* occurrences of factsheet.event, about one sheet
          TypeOf,       \* the event type of each
          Tags,         \* tags the sheet may carry
          Configs,      \* configurations clients give a subscription
          Workers,      \* workers of the queue: one for each API process
          MaxAttempts,  \* WEBHOOK_MAX_ATTEMPTS
          DeliveryEnabled,
          MaxEdits,     \* bound: changes of subscriptions or tags
          MaxFaults     \* bound: failing statements and crashes

EventTypes == {TypeOf[e] : e \in Events}

Settings == [active : BOOLEAN, ignoreError : BOOLEAN, events : SUBSET EventTypes,
             tagSets : SUBSET SUBSET Tags]

ASSUME ConstantsAssumption ==
    /\ Hooks # {} /\ Events # {} /\ DOMAIN TypeOf = Events
    /\ Configs \subseteq Settings
    /\ MaxAttempts \in Nat \ {0}
    /\ DeliveryEnabled \in BOOLEAN
    /\ MaxEdits \in Nat /\ MaxFaults \in Nat

VARIABLES
    hook,      \* each subscription's row, or Unused or Gone
    log,       \* webhook_deliveries: rows of each attempt, by success
    tags,      \* the tags of the sheet
    handler,   \* where the handler of each event is
    todo,      \* the subscriptions it has found and not served yet
    job,       \* the queue: the state of each job
    stalled,   \* jobs that were taken back from a dead worker
    worker,    \* what each worker is doing
    sent,      \* requests made, and those answered 2xx, per attempt
    edits, faults

vars == <<hook, log, tags, handler, todo, job, stalled, worker, sent, edits, faults>>

\* A delivery is an event and a subscription; the code draws a UUID for it and
\* numbers its jobs <deliveryId>-<attempt>.
Jobs == [event : Events, hook : Hooks, attempt : 1 .. MaxAttempts]
First(e, h) == [event |-> e, hook |-> h, attempt |-> 1]

Unused == [state |-> "unused"]
Gone == [state |-> "gone"]
Row(c) == [state |-> "exists", config |-> c]

\* A subscription found by the handler, as it was then.
Found == [id : Hooks, tagSets : SUBSET SUBSET Tags]

Open == {"delayed", "wait", "active"}
AtLabels == {"idle", "load", "post", "record", "recordError", "retry", "retryError",
             "completed", "failed"}
NoJob == [event |-> CHOOSE e \in Events : TRUE, hook |-> CHOOSE h \in Hooks : TRUE,
          attempt |-> 1]
Idle == [at |-> "idle", job |-> NoJob, ignore |-> FALSE, ok |-> FALSE]

TypeOK ==
    /\ hook \in [Hooks -> {Unused, Gone} \cup {Row(c) : c \in Settings}]
    /\ log \in [Jobs -> [good : Nat, bad : Nat]]
    /\ tags \subseteq Tags
    /\ handler \in [Events -> {"new", "query", "filter", "add", "done"}]
    /\ todo \in [Events -> SUBSET Found]
    /\ job \in [Jobs -> Open \cup {"none", "completed", "failed"}]
    /\ stalled \subseteq Jobs
    /\ worker \in [Workers -> [at : AtLabels, job : Jobs, ignore : BOOLEAN, ok : BOOLEAN]]
    /\ sent \in [Jobs -> [posts : Nat, oks : Nat]]
    /\ edits \in Nat /\ faults \in Nat

Init ==
    /\ hook \in [Hooks -> {Unused} \cup {Row(c) : c \in Configs}]
    /\ log = [j \in Jobs |-> [good |-> 0, bad |-> 0]]
    /\ tags \in SUBSET Tags
    /\ handler = [e \in Events |-> "new"]
    /\ todo = [e \in Events |-> {}]
    /\ job = [j \in Jobs |-> "none"]
    /\ stalled = {}
    /\ worker = [w \in Workers |-> Idle]
    /\ sent = [j \in Jobs |-> [posts |-> 0, oks |-> 0]]
    /\ edits = 0 /\ faults = 0

Exists(h) == hook[h].state = "exists"
Active(h) == Exists(h) /\ hook[h].config.active

Fault == faults < MaxFaults /\ faults' = faults + 1

-----------------------------------------------------------------------------
(* Subscriptions (WebhookService)                                          *)

Edit == edits < MaxEdits /\ edits' = edits + 1

Register(h, c) ==
    /\ Edit /\ hook[h] = Unused
    /\ hook' = [hook EXCEPT ![h] = Row(c)]
    /\ UNCHANGED <<log, tags, handler, todo, job, stalled, worker, sent, faults>>

Update(h, c) ==
    /\ Edit /\ Exists(h)
    /\ hook' = [hook EXCEPT ![h] = Row(c)]
    /\ UNCHANGED <<log, tags, handler, todo, job, stalled, worker, sent, faults>>

\* The delivery log goes with its subscription (onDelete: Cascade).
Remove(h) ==
    /\ Edit /\ Exists(h)
    /\ hook' = [hook EXCEPT ![h] = Gone]
    /\ log' = [j \in Jobs |-> IF j.hook = h THEN [good |-> 0, bad |-> 0] ELSE log[j]]
    /\ UNCHANGED <<tags, handler, todo, job, stalled, worker, sent, faults>>

Retag(S) ==
    /\ Edit /\ tags' = S
    /\ UNCHANGED <<hook, log, handler, todo, job, stalled, worker, sent, faults>>

-----------------------------------------------------------------------------
(* handleFactSheetEvent                                                    *)

HandlerAt(e, label) == handler' = [handler EXCEPT ![e] = label]

\* The mutation or the sync run emits and goes on; the handler runs by itself.
Emit(e) ==
    /\ handler[e] = "new"
    /\ HandlerAt(e, IF DeliveryEnabled THEN "query" ELSE "done")
    /\ UNCHANGED <<hook, log, tags, todo, job, stalled, worker, sent, edits, faults>>

\* No events configured means every event.
Interested(h, e) ==
    Active(h) /\ (hook[h].config.events = {} \/ TypeOf[e] \in hook[h].config.events)

FindHooks(e) ==
    /\ handler[e] = "query"
    /\ LET found == {[id |-> h, tagSets |-> hook[h].config.tagSets] :
                        h \in {g \in Hooks : Interested(g, e)}}
       IN  /\ todo' = [todo EXCEPT ![e] = found]
           /\ HandlerAt(e, IF found = {} THEN "done"
                           ELSE IF \E t \in found : t.tagSets # {} THEN "filter" ELSE "add")
    /\ UNCHANGED <<hook, log, tags, job, stalled, worker, sent, edits, faults>>

\* Every group of tagSets must share a tag with the sheet.
TagsMatch(tagSets) == \A group \in tagSets : group \cap tags # {}

\* The sheet's tags are those of now, not those of the event.
FilterByTagSets(e) ==
    /\ handler[e] = "filter"
    /\ LET matching == {t \in todo[e] : TagsMatch(t.tagSets)}
       IN  /\ todo' = [todo EXCEPT ![e] = matching]
           /\ HandlerAt(e, IF matching = {} THEN "done" ELSE "add")
    /\ UNCHANGED <<hook, log, tags, job, stalled, worker, sent, edits, faults>>

\* Mutant: the loop does not advance and queues the same delivery again.
EnqueueAgain(e, t) ==
    /\ handler[e] = "add" /\ t \in todo[e]
    /\ job' = [job EXCEPT ![First(e, t.id)] = "wait"]
    /\ UNCHANGED <<hook, log, tags, handler, todo, stalled, worker, sent, edits, faults>>

\* Mutant: the loop returns after its first delivery.
EnqueueOne(e, t) ==
    /\ handler[e] = "add" /\ t \in todo[e]
    /\ job' = [job EXCEPT ![First(e, t.id)] = "wait"]
    /\ todo' = [todo EXCEPT ![e] = {}]
    /\ HandlerAt(e, "done")
    /\ UNCHANGED <<hook, log, tags, stalled, worker, sent, edits, faults>>

\* One queue.add of the loop.
Enqueue(e, t) ==
    /\ handler[e] = "add" /\ t \in todo[e]
    /\ job' = [job EXCEPT ![First(e, t.id)] = "wait"]
    /\ todo' = [todo EXCEPT ![e] = @ \ {t}]
    /\ HandlerAt(e, IF todo[e] = {t} THEN "done" ELSE "add")
    /\ UNCHANGED <<hook, log, tags, stalled, worker, sent, edits, faults>>

\* A statement fails: the handler rejects, and nobody retries it.
HandlerFails(e) ==
    /\ Fault
    /\ handler[e] \in {"query", "filter", "add"}
    /\ HandlerAt(e, "done") /\ todo' = [todo EXCEPT ![e] = {}]
    /\ UNCHANGED <<hook, log, tags, job, stalled, worker, sent, edits>>

-----------------------------------------------------------------------------
(* The queue                                                               *)

Promote(j) ==
    /\ job[j] = "delayed"
    /\ job' = [job EXCEPT ![j] = "wait"]
    /\ UNCHANGED <<hook, log, tags, handler, todo, stalled, worker, sent, edits, faults>>

Take(w, j) ==
    /\ worker[w].at = "idle" /\ job[j] = "wait"
    /\ job' = [job EXCEPT ![j] = "active"]
    /\ worker' = [worker EXCEPT ![w] = [Idle EXCEPT !.at = "load", !.job = j]]
    /\ UNCHANGED <<hook, log, tags, handler, todo, stalled, sent, edits, faults>>

\* process has returned or thrown; BullMQ files the job.
Close(w) ==
    /\ worker[w].at \in {"completed", "failed"}
    /\ job' = [job EXCEPT ![worker[w].job] = worker[w].at]
    /\ worker' = [worker EXCEPT ![w] = Idle]
    /\ UNCHANGED <<hook, log, tags, handler, todo, stalled, sent, edits, faults>>

\* The lock of an active job has expired: back to the queue, the first time.
Recover(j) ==
    /\ job[j] = "active" /\ \A w \in Workers : worker[w].at = "idle" \/ worker[w].job # j
    /\ job' = [job EXCEPT ![j] = IF j \in stalled THEN "failed" ELSE "wait"]
    /\ stalled' = stalled \cup {j}
    /\ UNCHANGED <<hook, log, tags, handler, todo, worker, sent, edits, faults>>

-----------------------------------------------------------------------------
(* process (HttpDispatcher)                                                *)

WorkerAt(w, label) == worker' = [worker EXCEPT ![w].at = label]

Local == <<hook, tags, handler, todo, stalled, edits>>

\* ignoreError is read here and used after the request.
Load(w) ==
    /\ worker[w].at = "load"
    /\ LET h == worker[w].job.hook IN
       IF Active(h)
       THEN worker' = [worker EXCEPT ![w].at = "post",
                                     ![w].ignore = hook[h].config.ignoreError]
       ELSE WorkerAt(w, "completed")
    /\ UNCHANGED <<log, job, sent, faults, Local>>

\* "ok" is a 2xx, "bad" any other status, "none" a timeout or a network error.
Post(w, outcome) ==
    /\ worker[w].at = "post"
    /\ sent' = [sent EXCEPT ![worker[w].job].posts = @ + 1,
                            ![worker[w].job].oks = IF outcome = "ok" THEN @ + 1 ELSE @]
    /\ worker' = [worker EXCEPT ![w].ok = (outcome = "ok"),
                                ![w].at = IF outcome = "none" THEN "recordError" ELSE "record"]
    /\ UNCHANGED <<log, job, faults, Local>>

\* Mutant: a 2xx does not end the delivery.
RetriesAlways(w) == "retry"

\* Where the try block goes on once the row is written.
AfterRecord(w) == IF worker[w].ok THEN "completed" ELSE "retry"

\* Mutant: only successful attempts are logged in the try block.
LogSuccess(w) ==
    /\ worker[w].at = "record" /\ Exists(worker[w].job.hook)
    /\ log' = IF worker[w].ok THEN [log EXCEPT ![worker[w].job].good = @ + 1] ELSE log
    /\ WorkerAt(w, AfterRecord(w))
    /\ UNCHANGED <<job, sent, faults, Local>>

\* webhookDelivery.create in the try block.
Record(w) ==
    /\ worker[w].at = "record" /\ Exists(worker[w].job.hook)
    /\ log' = IF worker[w].ok THEN [log EXCEPT ![worker[w].job].good = @ + 1]
                               ELSE [log EXCEPT ![worker[w].job].bad = @ + 1]
    /\ WorkerAt(w, AfterRecord(w))
    /\ UNCHANGED <<job, sent, faults, Local>>

\* webhookDelivery.create in the catch block: a failure, whatever the answer was.
RecordError(w) ==
    /\ worker[w].at = "recordError" /\ Exists(worker[w].job.hook)
    /\ log' = [log EXCEPT ![worker[w].job].bad = @ + 1]
    /\ WorkerAt(w, "retryError")
    /\ UNCHANGED <<job, sent, faults, Local>>

\* Mutant: the catch block catches its own failures.
ThrownAgain(at) == "recordError"

\* A statement of process throws: the try block hands over to the catch block,
\* the catch block to BullMQ.
Thrown(at) == IF at \in {"record", "retry"} THEN "recordError" ELSE "failed"

\* The row violates its foreign key once the subscription is deleted.
RecordOrphan(w) ==
    /\ worker[w].at \in {"record", "recordError"} /\ ~Exists(worker[w].job.hook)
    /\ WorkerAt(w, Thrown(worker[w].at))
    /\ UNCHANGED <<log, job, sent, faults, Local>>

\* Mutant: the bound on the attempts is one too low.
StopsEarly(w) == ~worker[w].ignore /\ worker[w].job.attempt + 1 < MaxAttempts

\* Mutant: ignoreError is not looked at.
RetriesIgnored(w) == worker[w].job.attempt < MaxAttempts

\* scheduleRetry's two early returns.
Again(w) == ~worker[w].ignore /\ worker[w].job.attempt < MaxAttempts

\* Mutant: the retry has no jobId, so it is always accepted.
AddAnyway(j) == [job EXCEPT ![j] = "delayed"]

\* queue.add with a jobId: a job of that id, finished or not, makes it a no-op.
Added(j) == [job EXCEPT ![j] = IF @ = "none" THEN "delayed" ELSE @]

\* Mutant: attempt + 2.
NextButOne(j) ==
    [j EXCEPT !.attempt = IF j.attempt + 2 > MaxAttempts THEN MaxAttempts ELSE @ + 2]

NextAttempt(j) == [j EXCEPT !.attempt = @ + 1]

ScheduleRetry(w) ==
    /\ worker[w].at \in {"retry", "retryError"}
    /\ job' = IF Again(w) THEN Added(NextAttempt(worker[w].job)) ELSE job
    /\ WorkerAt(w, "completed")
    /\ UNCHANGED <<log, sent, faults, Local>>

\* A database or Redis call fails.
StatementFails(w) ==
    /\ Fault
    /\ \/ worker[w].at \in {"load", "record", "recordError"}
       \/ worker[w].at \in {"retry", "retryError"} /\ Again(w)
    /\ WorkerAt(w, Thrown(worker[w].at))
    /\ UNCHANGED <<log, job, sent, Local>>

\* The API process dies and is started again: handlers are lost, jobs are not.
Crash ==
    /\ Fault
    /\ handler' = [e \in Events |-> IF handler[e] = "new" THEN "new" ELSE "done"]
    /\ todo' = [e \in Events |-> {}]
    /\ worker' = [w \in Workers |-> Idle]
    /\ UNCHANGED <<hook, log, tags, job, stalled, sent, edits>>

-----------------------------------------------------------------------------
Handle(e) ==
    FindHooks(e) \/ FilterByTagSets(e) \/ \E t \in todo[e] : Enqueue(e, t)

Process(w) ==
    \/ Load(w) \/ (\E outcome \in {"ok", "bad", "none"} : Post(w, outcome))
    \/ Record(w) \/ RecordError(w) \/ RecordOrphan(w) \/ ScheduleRetry(w) \/ Close(w)

Edits ==
    \/ \E h \in Hooks : Remove(h) \/ \E c \in Configs : Register(h, c) \/ Update(h, c)
    \/ \E S \in SUBSET Tags : Retag(S)

Next ==
    \/ Edits
    \/ \E e \in Events : Emit(e) \/ Handle(e) \/ HandlerFails(e)
    \/ \E j \in Jobs : Promote(j) \/ Recover(j) \/ \E w \in Workers : Take(w, j)
    \/ \E w \in Workers : Process(w) \/ StatementFails(w)
    \/ Crash

Spec == Init /\ [][Next]_vars

\* A started handler and a worker run on, an idle worker takes a job if there
\* is one, delays end, and BullMQ finds stalled jobs.  Nobody is obliged to
\* emit, to edit, or to answer 2xx.
Fairness ==
    /\ \A e \in Events : WF_vars(Handle(e))
    /\ \A w \in Workers : WF_vars(Process(w) \/ \E j \in Jobs : Take(w, j))
    /\ \A j \in Jobs : WF_vars(Promote(j)) /\ WF_vars(Recover(j))

FairSpec == Spec /\ Fairness

-----------------------------------------------------------------------------
(* Properties                                                              *)

Delivery(e, h) == {j \in Jobs : j.event = e /\ j.hook = h}
Known(e, h) == {j \in Delivery(e, h) : job[j] # "none"}
OpenJobs(e, h) == {j \in Delivery(e, h) : job[j] \in Open}

\* Attempts follow one another without gaps: an attempt is queued only after
\* the one before it was queued and made.
AttemptsInOrder ==
    \A j \in Jobs :
        /\ j.attempt > 1 /\ job[j] # "none" =>
              sent[[j EXCEPT !.attempt = @ - 1]].posts > 0
        /\ sent[j].posts > 0 => job[j] # "none"

\* A delivery that was answered 2xx is not repeated, except that each crash or
\* failed statement may cost one repetition.
RepeatedByFaultsOnly ==
    \A e \in Events, h \in Hooks :
        Cardinality({j \in Delivery(e, h) : sent[j].oks > 0}) <= 1 + faults

\* With all statements succeeding, the log of a subscription has one row for
\* every finished request, with its result.
LogAccurate ==
    \A j \in Jobs :
        /\ faults = 0 /\ Exists(j.hook)
        /\ \A w \in Workers : worker[w].job = j => worker[w].at \notin {"record", "recordError"}
        => log[j].good = sent[j].oks /\ log[j].good + log[j].bad = sent[j].posts

\* A delivery is abandoned only after its last attempt, or after the first if
\* the subscription ignores errors, unless somebody edits the subscription or
\* something fails; a subscription that ignores errors never sees a retry.
RetriesAsConfigured ==
    \A e \in Events, h \in Hooks :
        edits = 0 /\ Known(e, h) # {} =>
            /\ hook[h].config.ignoreError => Known(e, h) = {First(e, h)}
            /\ (faults = 0 /\ OpenJobs(e, h) = {} /\ ~hook[h].config.ignoreError) =>
                  \E j \in Delivery(e, h) :
                      sent[j].oks > 0 \/ (j.attempt = MaxAttempts /\ sent[j].posts > 0)

\* For its subscriber a delivery is a numbered series of attempts that ends
\* once and for all, crashes and repeated jobs notwithstanding.
Contract ==
    INSTANCE DeliveryContract WITH
        Deliveries <- Events \X Hooks,
        attempts   <- [d \in Events \X Hooks |-> Cardinality(Known(d[1], d[2]))],
        open       <- [d \in Events \X Hooks |-> OpenJobs(d[1], d[2]) # {}]
ImplementsContract == Contract!Spec

Wanted(h, e) == Interested(h, e) /\ TagsMatch(hook[h].config.tagSets)

\* An event reaches every subscription that wants it, unless a change of the
\* subscription or of the tags comes between, or the handler dies.  The handler
\* filters by the tagSets it read and the tags of later: a subscription may also
\* fail by tagSets it no longer has.
FanOut ==
    \A e \in Events, h \in Hooks :
        (handler[e] = "query" /\ Wanted(h, e)) ~>
            \/ job[First(e, h)] # "none"
            \/ ~Wanted(h, e) \/ \E t \in todo[e] : t.id = h /\ ~TagsMatch(t.tagSets)
            \/ faults > 0

\* Every queued attempt is filed in the end, one way or the other.
JobsEnd == \A j \in Jobs : job[j] \in Open ~> job[j] \in {"completed", "failed"}

=============================================================================
