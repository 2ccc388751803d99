# A verification project for leanIX-sap-mock-server

TLA+ specifications of the mock LeanIX server, kept beside its code: modules
that translate the code, TLC configurations that check them on small instances,
and TLAPS proofs for every size. Paths below are relative to the repository
root; `graphql/`, `webhooks/`, ... stand for `apps/api/src/graphql/`, ....

## 1. Inventory

One NestJS process (`apps/api`) serves GraphQL, REST and an MCP endpoint. Its
state is in PostgreSQL (through Prisma) and Redis (the BullMQ queue of webhook
deliveries and the rate limiter's sorted sets); the process itself keeps only
requests under way, so it can die and be started again. Inside it, parts call
each other directly, except that fact-sheet and relation writes announce what
they did with an in-process event (`factsheet.event`, EventEmitter2) that the
webhook service listens to. Two global guards and the rate limiter's interceptor
stand before every handler. `apps/mcp` is a client of the REST and GraphQL
interface; the MCP endpoint inside the API calls that interface over the
loopback with the same client.

| Component | State | Operations | What is hard | What makes it correct |
|---|---|---|---|---|
| Lifecycle and trash bin (`graphql/services/fact-sheet.service.ts`, `trash-bin/`) | `fact_sheets.status/trash_bin/auto_delete_at/rev`, `trash_bin` rows | archive, revive, permanentDelete, hourly sweep | checks before the transaction, two tables without a foreign key, lock order, timeouts, stale sweep list | tables agree, operations atomic, expired sheets leave, deletion from the trash bin only (it is not: section 4) |
| Creation and patches (`fact-sheet.service.ts`, `fact-sheet-patch.service.ts`), AI agent discovery | `fact_sheets` columns, `attribute_values` | create (with patches), discover, update with rev and validateOnly | lost updates, optimistic concurrency, a derived column | completion current, rev counts changes, unique external ids |
| Relations (`fact-sheet.service.ts`, patches, `ldif.processor.ts`) | `relations` | upsertRelation, deleteRelation, relation patches, an LDIF run's second pass, permanentDelete; explain_architecture reads them | sheets deleted meanwhile, lock order, workspaces, reads of many queries | one workspace, nothing dangling, who changes relations behind a rev, events only after commits |
| Comments, to-dos, surveys (`comments/`, `todos/`, `surveys/`) | their five tables | create, list, update, complete, invite, submitResponse, getResults | check and insert are two statements, partial updates, results in two queries | nothing on deleted sheets, acknowledged writes stay, results complete |
| Fact sheet queries (`fact-sheet.service.ts`, `search_fact_sheets`) | none | filters, facets, search, order, cursor pages | a dozen ways to combine filters, pages over changing data | a filter selects what it says, missing values included, pages neither skip nor repeat, a traversal ends |
| Webhooks (`webhooks/`) | `webhooks`, `webhook_deliveries`, the queue | register, update, remove, fan-out, attempts, retries | at-least-once queue, crashes, hand-made retries, edits in between | attempts in order, no needless repetition, log accurate, every event reaches its subscribers |
| LDIF sync (`integration/`, `rest/services`) | `sync_runs`, `sync_mappings`, `sync_logs`, sheets | start a run, process items, link relations | fire and forget, no transaction around an item, concurrent runs | runs end, one sheet per source record, counts add up |
| Rate limiting (`rate-limit/`) | a Redis sorted set for each user and workspace | checkAndIncrement | interleaved pipelines, window edges, several processes, refused requests count | a window never lets through more than its limit, and refuses nobody without reason |
| Access (`auth/`, `mcp-server/`, `apps/mcp/src/leanix-client.ts`) | JWTs, the client's cached token | issue, verify, role check, refresh, header resolution | expiry on the way, concurrent refreshes, stale roles | the client's token is good when it arrives, roles are recent |
| Meta model, health, DTOs, error filters, seed | seeded tables | reads | nothing | not modelled: no state of their own |

The hazards, each at its line and with the properties that watch it, are in
`PROJECT.json`.

## 2. Modules

| Module | What it is |
|---|---|
| `FactSheetLifecycle` | archive, revive, permanentDelete and the sweep, one action per SQL statement |
| `TrashBinContract` | what a client is promised: three atomic operations on two tables |
| `FactSheetLifecycleProofs` | type correctness, the tables agree, one writer, refinement, events |
| `FactSheetPatch` | create, discover and update, one action per SQL statement, with each transaction's own view |
| `FactSheetPatchProofs` | type correctness, one writer, completion current, rev counts changes; without overlap, unique ids, kept phases |
| `RelationGraph` | every writer of relations over several workspaces, statement by statement, and explain_architecture |
| `RelationGraphProofs` | types, one workspace, nothing dangling, events, what changes behind a rev; exact deletions, explanations and full items |
| `Collaboration` | comments, to-dos and surveys, composed with `RelationGraph`: same handlers, same sheets |
| `CollaborationProofs` | the composition implements `RelationGraph`; nothing on deleted sheets, complete results, what stays |
| `FactSheetQuery` | what a filter selects, against what its parts mean; cursor pages while others write |
| `FactSheetQueryProofs` | type correctness, plain filters select what they mean and none what is foreign or hidden, pages complete |
| `WebhookDelivery` | subscriptions, fan-out, queue, dispatcher |
| `DeliveryContract` | what a subscriber is promised about the attempts of a delivery |
| `WebhookDeliveryProofs` | type correctness, attempts in order, refinement, log, retries, repetitions |
| `LdifSync` | sync runs and their items, one action per SQL statement, with failures and crashes |
| `LdifSyncProofs` | type correctness, hashes after data, one sheet for a record, results as logged, items persisted |
| `RateLimit` | the sliding-window limiter, one action per Redis pipeline |
| `Access` | callers, tokens and guards, composed with `RateLimit` |
| `AccessProofs` | type correctness, both bounds of the limiter, the composition implements it, tokens accepted, roles recent |
| `MC...` | model values, inputs and symmetry for TLC (`MCInventory` is that of `Collaboration`) |

Two compositions: `Access` EXTENDS `RateLimit` and wraps its actions, and
`Collaboration` EXTENDS `RelationGraph` likewise; both are proved to implement
what they wrap, so its theorems hold in them. Four components write fact sheets,
each in a module of its own that keeps of a sheet what its properties need:
`FactSheetLifecycle` the trash bin, `FactSheetPatch` the columns,
`RelationGraph` existence and rev, `LdifSync` values and completion.

### How the state corresponds to the code

*Transactions.* Prisma's interactive transactions run statement by statement
under READ COMMITTED: each statement sees what is committed when it starts, a
written row stays locked until the writer ends, and a statement that needs a
locked row waits and then sees the new version. In `FactSheetLifecycle` what a
transaction has written follows from where it is (`pc`, `req`), so pending
writes are not stored and `Commit` installs them at once. In `FactSheetPatch`
and `RelationGraph` they depend on the input and are kept in `tx[p]`; `RowSeen`,
`ValsSeen` and `Seen` are what the transaction sees, `holdsRow`, `holds`,
`Written` and `Shared` what it has locked. `WaitsFor`, `Blockers`, `Conflict`
and `Deadlocked` are PostgreSQL's lock waits; they are marked external, as are
BullMQ's `Promote`, `Take`, `Close` and `Recover`.

*Faults.* `TimeOut` is the 20 s (or the 10 s wait for a connection) of
`common/prisma/transaction-options.ts`; `Crash` the death of the process, which
loses requests, sweeps, handlers and events, and leaves the tables and the
queue. In `WebhookDelivery` and `LdifSync`, `StatementFails` and `HandlerFails`
are failing database or Redis calls; in `RateLimit`, `ErrorReplies` is a pipeline
that Redis answers with errors and `Unreachable` a lost connection or reply.

*FactSheetLifecycle.* `status` stands for the columns `status` and `trash_bin`,
always written together; `deadline` is `auto_delete_at` of the sheet, `entry`
that of its `trash_bin` row; `Archived` are the sheets that are in the trash bin
from the start, as after an earlier archive. `Load` is `requireById` with `permanentDelete`'s
guard; `WriteSheet` and `WriteEntry` are the statements, in the order of each
operation; `Emit` follows the commit. `Sweep` reads the list, `NextDue` starts
the next deletion of the loop, whatever became of the last one.

*FactSheetPatch.* `row` and `vals` are the committed rows. A patch is one of:
an external id, any other column (`description` stands for name and quality
seal too), the whole lifecycle, one phase of it, setting or removing a custom
attribute, or one that fails validation. Texts and dates are present or absent.
`lifecycle` says that the column is not NULL: a lifecycle without phases counts
as filled. To set it to NULL is among the patches that fail. `Touch` is the rev increment,
`CountFilled` and `StoreCompletion` are `recalculateCompletionWithinTx`;
`CallDiscover` is the discovery of an AI agent, a create followed by attribute
patches. The claims are about the GraphQL mutations: LDIF sync writes the same
rows without these transactions and is a module of its own, `LdifSync`.

*RelationGraph.* `rel[i]` is the row with id `i`; ids are never used again
(`cuid()`). `call[p]` is a handler: what it was asked for, and its
remaining statements as a list. A statement is `link` (INSERT ... ON CONFLICT),
`unlink`, `move` (an UPDATE of the target), `touch` (the source's rev),
`unlinkAll` and `drop` (permanentDelete), `keepOnly` (full mode's deleteMany) or
`visit` (a query of explain_architecture). A handler looks up what it needs,
`Start`s with its statements, and each of them runs (`Link`, `Unlink`, ...),
waits (`Blockers`) or is impossible and rolls the transaction back (`Fail`).
Handlers of LDIF runs commit after every statement and announce each relation
before the next (`Emit`). A new row locks both its sheets against deletion
(`Shared`): the foreign keys of `schema.prisma:195`. `quiet` and `linked` are
history: whether anybody else has committed since the handler started, and every
relation there ever was.

*Collaboration.* `desk[p]` is a handler of this module. `CreateComment`,
`CreateTodo`, `UpdateTodo`, `SubmitResponse`, `GetResults` are the checks,
`InsertComment` to `ReadResponses` the statements after them, `Reject` and
`Lost` the ways they fail. `Cascade` is `onDelete: Cascade` of comments and
to-dos, in the step that commits a deletion. Invitations name a sheet without a
foreign key and outlive it.

*FactSheetQuery.* `Selected` is the `where` that `buildWhere` and `search` make,
`Means` what its parts are documented to mean. `Facts` holds what does not
change here, `row` what does. `description` stands for the nullable base columns,
`externalId` too: a comparison with NULL is not true and neither is its negation,
so NOT_IN leaves out the rows without a value. `Take` is the page size; it has
no least value, and a page of none or fewer is empty. The reader is a client of `allFactSheets` that
follows `endCursor`; `Count` and `List` are the two queries of one page, in
either order, with writes in between. `Behind` is Prisma's `cursor`, `skip: 1`:
the place of the cursor's row is looked up when the page is read, and nothing is
promised for a row the filter no longer finds. `Listing` is the `orderBy`: the
k-th row is the one with k - 1 rows `Ahead` of it, which is a function of the
rows because names and dates are kept distinct (a bound: the database may order
equal keys differently for every page, and promises nothing then).

*WebhookDelivery.* A delivery is an event and a subscription, a job a delivery
and an attempt. `Emit`, `FindHooks`, `FilterByTagSets` and `Enqueue` are the
handler; `Load`, `Post`, `Record`, `RecordError` and `ScheduleRetry` the
dispatcher, with `Thrown` saying where an exception goes: from the try block to
the catch block, from the catch block to BullMQ, which does not retry it.

*LdifSync.* `proc[n]` is the promise of run `n`: its place in
`LdifProcessor.process` and its local variables. `Find` to `Map` are
`processItem` in its order, `Thrown` the catch block around it, `LogAbort` and
`MarkFailed` the handler of `startSyncRun`; if that fails too, Node ends the
process (`Die`). A sheet has the id of the run and item that create it. The data
of an item, which the code hashes, is the set of custom attributes it gives.

*RateLimit.* `window[k]` is the members of a sorted set, `at[r]` a request's
stamp (the score), `expires[k]` the PEXPIRE. The five commands of a pipeline are
one step (`Pipeline`): Redis runs them back to back. The two pipelines of a
request, and those of other requests, come in any order, up to `Lag` after the
stamp: the limiter's state is shared, so another process may run between.

*Access.* `call[r]` is a call on its way: `asking` and `minted` are the client's
token request, `sent` the request before the guards, `limiting` behind them. A
token is its user, role and expiry; `cache[c]` is `LeanIxClient`'s token and
`tokenExpiresAt`. `Allowed` is the table of every handler's `@Roles`, one set for
each controller and resolver, with the default of `roles.guard.ts`. Times are
ticks; `Second` is how many make the whole second that `iat` and `exp` are cut
to.

## 3. Runs

| Run | Bounds | What it shows |
|---|---|---|
| `lifecycle` | 2 sheets, both in the trash bin at the start, 2 users, 1 sweep, 2 calls, 1 fault, 1 tick | the tables agree at every commit; operations refine the contract; events are never ahead of commits and none is lost without a fault; calls and sweeps return; expired sheets leave |
| `lifecycle_trash_only` | 1 sheet in the trash bin, 2 users, 1 sweep, 2 calls | violated: a sheet is deleted that is not in the trash bin |
| `patch_concurrent` | 1 sheet, 2 handlers, 2 attributes, 4 patch lists, 3 calls, 1 fault | completion current, rev counts changes, calls return |
| `patch_sequential` | 2 sheets, 1 handler, 4 calls, 1 fault | what holds of one request at a time: unique external ids, phases kept |
| `patch_stale_rev` | 1 sheet, 2 handlers, 2 calls | violated: both of two updates with one rev commit |
| `inventory` | 4 sheets in 2 workspaces, 2 relation types (calls for one), 7 relation ids, 2 handlers, 2 calls, 1 fault; 2 comments, 3 to-dos, 3 survey runs and invitations | relations: one workspace, nothing dangling, deletions not in their own way, a rev tells of changed relations but in three named cases, events tell the truth, a full item leaves what it names, explanations exact; comments and to-dos go with their sheets only and survey results are complete; calls return |
| `query` | 4 sheets in 2 workspaces, 5 names, 19 filters, 3 orders, page sizes 0, 1 and 3 (cut to 2), 2 writes | plain filters select what they mean, none what is foreign or hidden; pages add up to what is there; a traversal of pages with room for a sheet ends |
| `access` | 2 requests, 2 users of one workspace, limits 1, window 2, lag 1, 2 ticks, 1 client, 1 role change, 1 fault | the limiter's bounds with everything in front of it; a client's token is accepted; whoever writes was a writer within a token's lifetime |
| `webhook_delivery` | 1 subscription, 1 event, 3 attempts, 1 edit, 2 faults | attempts in order, repetitions only through faults, accurate log, retries as configured, refinement of the contract, every job is filed |
| `webhook_fanout` | 2 subscriptions, 2 events, 1 tag, 2 edits | every event reaches every subscription that wants it |
| `ldif_sync` | 2 runs (partial or full), 1 overlap, 1 record, 2 attributes, 1 deletion, 1 fault | one sheet per record and overlap, results agree with logs, hashes after data, what a FINISHED run reports is there, runs end |
| `ldif_skip` | 3 runs in a row, 1 attribute, 1 fault | violated: a FINISHED run whose data is not there |

*Why the bounds are enough.* All interference in these modules is pairwise and
per row: two transactions on one sheet, one sweep against one user, one handler
against one edit. Two users and a sweep on one sheet produce every order of the
locks. That both sheets of `lifecycle` start in the trash bin stands for two
earlier archives: the two calls left can revive a sheet, archive it again or
delete it while the sweep holds an old list, and the second sheet is there
because one failing deletion must not stop the next. Three calls are two racing
updates after one that set the attribute they fight over.

In `inventory` two calls are every pair of operations, one beside or after the
other; the initial relations, to-do, invitations and survey runs are what a third
call would have made. Calls are for the sheets `a` and `b` (`Called`); `c` is
the other workspace's, `d` two hops away from `a`, so that explain_architecture
has a second hop. Calls are for one type (`CalledTypes`); the initial relation of
the other type has the source and a target of calls, and a full item must leave
it alone. Seven ids are the three initial relations and two that each of two
calls can link. Patches (`MCInventory`) link the same two relations in opposite
orders, so that two updates can deadlock, link across workspaces, and remove or
move another sheet's relation; LDIF targets name them in an order of their own.

In `query`, three sheets are the reader's and one is not; page sizes are none,
a page of one and one that holds everything but a row; two writes can move, hide or
delete a cursor's row and one more. Names are distinct, since the database may
return equal keys in another order for every page: with equal sort keys nothing
is promised, and `SortAssumption` leaves out the orders by columns whose values
repeat or may be missing. One of the three sheets has no description. A client
fetches three of the filters (`Fetched`); the other sixteen are only compared.

In `access` the margin is as short as the messages' delay, so a token can expire
at the last moment; a window of two ticks has requests that leave it; limits of 1
make the second request the refused one. `WindowBound` counts what a window let
through per span of a minute less the lag: with pipelines up to `Lag` late, a
request stamped earlier may find a window trimmed for a later one, and a whole
minute may hold more.

Three webhook attempts are the first, one in the middle and the last; two faults
let a job stall twice, which is when BullMQ gives it up. One worker, because the
process runs one (BullMQ's default concurrency) and the repository deploys one
process; with several, one crash can repeat more than one attempt and
`RepeatedByFaultsOnly` would have to count per process. Two sync runs are a run
and one that finds what it left, or a pair that races for the same record and
the same attributes; one item before the other shows that an error does not
stop the loop; the third run of `ldif_skip` is the one that trusts the hash of
the first after the second has failed.

*Deadlock checking* is off in the configurations: users need not call, and the
counters that bound the model end every behaviour. That nobody waits for ever
is what `CallsReturn`, `ExpiredLeaves`, `FanOut`, `JobsEnd`, `RunsEnd` and
`TraversalEnds` check.

*Fairness.* Weak fairness of a started handler (`Step`, `Handle`, `Process`,
`Proceed`, `Statements`): Node's event loop resumes what is ready, PostgreSQL
grants locks and breaks deadlocks, a request ends by its timeout at the latest.
Weak fairness of the sweep (the cron fires every hour) and of the queue (idle
workers take jobs, delays end, the stalled check runs). In `query`, weak fairness
of the reader: a page's queries are answered, and the traversal is of a client
that goes on to its last page. Nothing obliges a user to call, a subscriber to
answer, or a fault to happen. `Access` has no liveness property and no fairness.

*Types.* Every `TypeOK` is proved, and left out of the runs.

## 4. Findings

With a run that shows them:

- `lifecycle_trash_only`: `permanentDelete` looks for the trash bin
  (`fact-sheet.service.ts:276`) before its transaction, and none of its
  statements looks again: a sheet revived in between is deleted while it is
  ACTIVE. `docs/API_REFERENCE.md:90` has deletion "trash-bin only", line 208 lists
  "delete-outside-trash-bin" as an error, and `docs/BUILD_STATUS.md:99` has it
  rejected.
- `patch_stale_rev`: the rev check (`fact-sheet-patch.service.ts:37`) reads
  before the transaction, and the UPDATE at line 72 has no rev condition.
- `ldif_skip`: a partial run skips an item whose hash is that of the last
  completed sync (`ldif.processor.ts:106`), although a full run may since have
  removed attributes and died before it stored its own hash (line 169). The run
  is FINISHED and the sheet lacks the data.

Met while modelling, in the models as the code has it, without a run:

- The sweep's list (`trash-bin.scheduler.ts:25`) is not checked again, and
  `permanentDelete` does not look at the date: a sheet revived and re-archived
  while the sweep works is deleted before its new date.
- The check of `fact-sheet.service.ts:173` runs before the insert, and
  `schema.prisma:140` is an index, not a constraint: two concurrent creates may
  share an external id. `ExternalIdUnique` is checked of one request at a time.
- A patch by relation id does not ask whose relation it is
  (`fact-sheet-patch.service.ts:323`), and `permanentDelete` removes the relations
  that others have to its sheet (`fact-sheet.service.ts:282`): both change what a
  client has read of a third sheet and leave that sheet's rev as it is. So does
  an LDIF run. `RevTellsOfRelations` says that nothing else does.
- `first` has no lower bound (`fact-sheet.service.ts:78`, `:123`): a page of 0 or
  fewer says that more follow and has no `endCursor`, so a client that follows
  the cursors starts again for ever. `TraversalEnds` is about `first` above 0.
- NOT_IN on `description` or `externalId` (`fact-sheet.service.ts:561`) does not
  find the sheets that have none. `Plain` leaves it out.
- `buildWhere` stores the field filters over the facet filters in `where.AND`
  (`fact-sheet.service.ts:495`), while `docs/BUILD_STATUS.md:157` has them
  combined via AND.
- `search_fact_sheets` drops `factSheetType` and `status` when there is a query
  text (`apps/mcp/src/tools/inventory.tools.ts`), although its description
  offers them as restrictions of it.
- The type of a relation filter's other end is asked for in outgoing relations
  only (`fact-sheet.service.ts:513`); a type facet with AND takes a repeated type
  for two, drops unknown ones and finds nothing when asked for all of none (line
  540); the operator of a filter on a custom
  attribute is ignored and several values are compared as one list (line 560).
  `Plain`, in `FactSheetQuery`, names these combinations, and `FiltersExact` is
  about all the others.
- `ai-agent-discovery.service.ts:16` says it upserts; it only creates.
- Overlapping sync runs may store a stale completion (`ldif.processor.ts:236`)
  and two sheets for one record; `AppliedBeforeMapped` is about runs that do not
  overlap, `OneSheetPerRecord` counts the overlaps.

## 5. Proofs

All for any constants that satisfy the named assumptions of the modules: any
number of sheets, users, sweeps, attributes, patches, relations, workspaces,
subscriptions, events, workers, requests, clients and runs, any bound on faults,
edits and time.

*FactSheetLifecycleProofs.* `TypeCorrect` (TypeOK), `OneWriter` (SheetsLocked),
`TablesAgree` (TrashConsistent), `Refinement` (the specification implements
TrashBinContract) and `EventsMatchRevisions` (Announced). `TrashConsistent` is not inductive: a commit of archive or
revive keeps it only if no other transaction has written the same sheet, if the
sheet still exists, and if a revive whose `deleteMany` found nothing still faces
an empty trash bin. Those three facts are `SheetsLocked`; the conjunction of
both with `TypeOK` is inductive, and the refinement follows from it: `Commit`
maps to `Archive`, `Revive` or `Delete`, everything else to a stutter. For the
events, `Counted` counts: what was announced and the handlers that have committed
and still owe an event are together as many as the revisions, or fewer after a
fault. A commit moves a handler into that set, an emission out of it. The contract
lets `Delete` take an ACTIVE sheet, because the code does; that it should not is
the run `lifecycle_trash_only`.

*FactSheetPatchProofs.* `TypeCorrect`, `OneRowWriter` (RowLocked),
`CompletionIsCurrent` (CompletionCurrent), `RevCounts` (RevCountsWrites). The
completion is current because the rev UPDATE takes the row lock before the
count: `RowLocked` says that one transaction holds a row, that its version is
the committed one with rev one higher, and that after the count the result
belongs to the fields it sees. No other transaction can commit attribute values
of that sheet in between, since to commit it needs the row too.

Two more theorems have a hypothesis, `[]OneAtATime`: at most one request is
under way. `ExternalIdsUnique` (ExternalIdUnique) and `PhasesAreKept` (PhasesKept)
are about a check or a read that comes before the write it is for, and hold only
of requests that do not overlap; `patch_sequential` checks both. The rev check is
of that kind too, and nothing is proved of it: `patch_stale_rev` shows that it
does not hold. Their invariants say what the read is still worth when the write
comes: `IdInv` that the id about to be written, or to be committed, is nobody
else's; `PhaseInv` that the phases read, and those of the row to be committed,
hold all of the stored ones. The hypothesis bounds the requests in
progress, not what they do: crashes, timeouts and any list of patches are in.

*WebhookDeliveryProofs.* `TypeCorrect`, `InOrder` (AttemptsInOrder),
`Refinement` (the specification implements DeliveryContract), `LogTellsRequests`
(LogAccurate) and `DeliveriesPersist` (RetriesAsConfigured), for any number of
workers, and `RepeatedOnlyByFaults` (RepeatedByFaultsOnly), for one. The
invariant adds what makes the steps safe: a worker's job is active and nobody
else's (`Owned`), what a handler has still to queue is not queued yet
(`Fanning`), and a delivery with any job has its first (`FirstKnown`). An
attempt is queued only by a worker that holds the one before it, so a new job
extends an open delivery, and a finished one can never be reopened. `LogInv`
compares the rows of an attempt with its requests: they agree except for the one
result its worker has yet to write. `RetryInv` says that, until an edit, workers
go by the setting that is stored, and that, until a fault, an attempt that is
over succeeded, was the last, or has its successor queued. `OnceInv` counts: the
attempts of a delivery that were answered 2xx and those that still may be
(`Live`) are together one, and one more for each fault. A crash revives the
attempt of every worker at once, so that count needs the one worker the process
runs (`\A v, w \in Workers : v = w`); it is the only theorem that does.

*RelationGraphProofs.* `GraphSafe` (types, OneWorkspace, NoDangling,
AnnouncedWereLinked), `GraphTells` (RevTellsOfRelations), `RemovalUnhindered`
(NotInItsOwnWay), `ExplanationExact` (ExplainExact) and `FullItemsExact`
(FullModeExact). The invariant
`GraphInv` adds two things to the types. `CallsOK`: a handler's remaining
statements are those its operation starts with, so whoever has relations to
commit has its own sheet's rev still to raise, or has raised it. `StoreOK`: every
stored row is within one workspace and between sheets that exist, so is every row
a transaction is about to commit, a transaction that drops a sheet sees no row
that refers to it, and of two transactions the rows one writes do not refer to
the sheets the other drops (`Apart`). That last part is where the foreign keys'
locks are needed: without `Shared`, a link and a drop pass each other.

`GraphTells` rests on `TellInv`, which adds to `GraphInv` whose relations a handler
writes (`Owns`): those of its own sheet, or around it if it deletes the sheet
(`RowsOwned`), and so are those it has still to write (`TodoOwned`). That stays
true while others commit because an id is used once and its source never
changes (`Keeps`). What is left are the three exceptions the property names: LDIF
runs, patches of another sheet by relation id, and deletions of the target.

`RemovalUnhindered` and `ExplanationExact` are about handlers beside which nobody
commits; `FullItemsExact` says that the last statement of a full item leaves no
relation of its type and source but those it names, and touches no others,
whoever commits beside it, and that all it names are there if nobody does. That
it always gets to carry the statement out is `KeepOnlyEnds`: the statement cannot
fail, and a handler that commits after every statement holds no lock a deadlock
is made of (`EmptyIsFree`). All three rest on `QuietInv`, which adds to `GraphInv`
what each handler has done and has left to do (`Planned`). A removal
still has an unlink before it for every relation of its sheet (`Removing`); an
explanation has found the rows around the sheets it has asked for, and will ask
for the rest (`Exploring`); a full item links what it names and unlinks the other
relations of its sheet, in whatever order its statements come (`Syncing`).

*CollaborationProofs.* `GraphImplemented` (the composition implements
RelationGraph's specification), and from it by the theorems above
`RelationsSafe` `RelationsTell` and `RelationsExact`; `CollaborationSafe`
(TypeOK, NoOrphans), `ResultsHold` (ResultsComplete) and `WhatWasAcknowledged`
(AcknowledgedStay). `CollaborationInv` adds to `GraphInv` that comments and
to-dos are on sheets that exist, and that what a reader of results knows of the
first query is still there at the second.

*LdifSyncProofs.* `LdifTypeCorrect` (TypeOK), `HashAfterData`
(AppliedBeforeMapped), `OneSheet` (OneSheetPerRecord), `LogsTell`
(LogsTellResult), `PersistedUndisturbed` (PersistedWithoutFaults). `TypeInv` adds
to the types where a run is in its content. For the hashes, `AppliedInv` follows the
attributes that are set and removed: with no overlap, the sheet of the one active
run has all that is not left to do. For the sheets, `SheetsInv` counts: the
sheets of a record and the runs about to create one are together at most one
more than the overlaps. A run decides to create only when there is no sheet, and
then the runs about to create are at most those under way, which are at most one
more than the overlaps. For the logs, `LogInv` follows the loop: as long as no
item has failed, the counts are those of the rows of the items that are over,
and one more from the moment the sheet is written until the loop goes on; once
one has failed, an error is logged or about to be. For the items, `ItemsInv`
holds as long as no runs overlap, nobody deletes a sheet and nothing fails: what a
mapping names exists, is its record's sheet and has the data of the hash, except
while a run works on it; and every item before the one in progress is in its
sheet (`Has`) unless a later one gives the same record other data
(`Superseded`). An item that is skipped is in its sheet for the first reason,
one that is mapped because `AppliedInv` says so, and creating a sheet disturbs
none because `SheetsInv` leaves no other of that record. That the hypotheses are
needed is what `ldif_skip` shows: after a fault the first reason fails.

*FactSheetQueryProofs.* `QueryTypeCorrect` (TypeOK), `FiltersMean` (FiltersExact)
and `PagesComplete` (PagesAddUp). A filter is a conjunction of parts, and each
part is shown to select what it means (`FacetExact`, `FieldExact`), of columns
without a value too: a pattern matches none of them, and IN and EQUALS find none,
in the code as in their meaning. The attempts found two cases `Plain` now leaves
out: a type facet that asks for all of no types, and NOT_IN on a column that may
be NULL. Of every filter, plain or not, `FiltersMean` says that it shows nothing
of another workspace, nothing deleted and nothing archived that was not asked
for.
For the pages, `KeysApart` (names and dates are distinct, none lies ahead) makes
the order total, so that the number of rows ahead of a row is its place
(`RankGrows`, `RankReached`) and the listing holds every row once, in order
(`Listed`). `PageInv` says that of the sheets nobody has written, those fetched are
the cursor's and those before it, none of them twice: a page that takes the rows
from place p to q moves that line from p to q (`PageAdds`), and a write of any
other sheet than the cursor's moves only rows that no longer count. A write of
the cursor's own row (`moved`) is where the argument ends, and the code's promise
too. That the two queries of a page agree without writes is the total's part of
`PageInv`.

*AccessProofs, the limiter.* `WindowsBounded` (WindowBound) and `RefusalsAreBacked`
(RefusalsBacked), from `LimiterInv`: stamps are not in the future and pipelines
not later than the lag, a set keeps every member of the last minute, and what was
let through is in the set or has left the window.

*AccessProofs, the composition.* `AccessTypeCorrect`, `LimitsHold` (the composition implements
RateLimit's specification and inherits both bounds), `ClientsAccepted`
(CachedAccepted) and `RolesRecent` (RecentRole). `AccessInv` adds that a token's
role was the user's at some time within its lifetime, and that a cached token
expires a transit after the client gives it up; `MarginAssumption` is what the
client's 30 s must cover.

*Only model-checked.* Liveness: fairness and ENABLED are beyond the prover. Every
other property of a passing run is stated by a theorem.

## 6. Not modelled, and the plan

Left for later, in this order: tag patches and native fields of LDIF items; how
`RepeatedByFaultsOnly` grows with the number of workers.

Operations of modelled components that are left out: tag patches (three upserts,
of a tag group, a tag and an assignment); subscriptions of a sheet; native fields,
warnings and connector configurations of LDIF (texts no property is about, and
one upsert); `getFilterOptions` (a read without inputs); the MCP tools other than
`explain_architecture`, `get_relations` and `search_fact_sheets` (each passes its
arguments to one query or mutation); the rate limit's headers.

Left out for good: routing, DTO validation, error formats, Swagger, the seed and
the meta model's reads (no state that changes; where the workspace of a type
matters, it is a guard of `FactSheetQuery` and `RelationGraph`); the HTTP and MCP
protocols, payloads and signatures of webhooks (data no property is about);
workspace constraints and payload modes of subscriptions (stored, never read by
the delivery code); induction over data, which the installed provers cannot do.
