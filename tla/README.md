# Specifications of the credit operating system

TLA+ models of the concurrent core of `src/caos`: the queues, budget and admission
of the server, and two parts of the web client together with the server state they
work on. With them come their TLC runs, and TLAPS proofs of what matters most
about them. The server is a FastAPI application over async SQLAlchemy; one or two
processes (`WEB_CONCURRENCY`) share a Postgres database, or one process uses
SQLite. It has no broker: every background activity is a loop over rows of a
table, and the rows' status, attempt counter, lease and owner columns are the only
coordination there is. The web client (Next.js) keeps its own copies of server
state, sends commands and reloads; answers come late or never, and the
analyst goes on editing meanwhile. That coordination is what the modules here are
about.

## 1. Inventory

| Part | Source (under `src/caos/server`) | State | Operations | What must hold |
|---|---|---|---|---|
| Run queue | `run_executor.py` (QueueWorker) | `runs` rows: status, attempts, lease, worker_id, tokens_used; per process `_inflight_ids`, the loop, the tasks | create, claim, heartbeat, reap, execute, commit, fail, stop | a stale attempt never publishes or fails over its successor; every run ends; the analyst is told |
| Local runs | `run_executor.py` (InProcessExecutor), `executor_base.py` | the same rows, a semaphore | boot sweep, enqueue, execute | nothing is stranded by a restart |
| Run admission | `routes/runs.py` (create_run) | process lock, unique indexes | check, insert, conflict | limits, one active run per issuer, one run per idempotency key |
| Run orchestration | `engine/runner.py`, `gate.py`, `registry.py`, `planner.py` | module outputs and findings of the open transaction | layer by layer: gate, synthesize, persist | blocked modules block what depends on them, whatever finishes first |
| Token budget | `engine/budget.py`, `engine/llm_client.py` | used, reserved, a condition | reserve, wait, shrink, refuse, charge, release | concurrent calls never overrun the cap; nobody waits for nothing |
| Alert delivery | `alert_dispatch.py` | `alert_delivery_intents` rows: status, attempt_count, lease token | materialize, claim, render, complete, fail, give up | one outcome per intent, from the holder of the lease |
| Research and report queues | `research_executor.py`, `research_report_executor.py` | rows with owner token and attempt | as the run queue, every write guarded by the token | as the run queue |
| Pipeline jobs | `engine/pipeline_executor.py`, `engine/locks.py`, `routes/autonomy.py` | rows with attempts in a JSON summary, session advisory locks | claim, execute, heartbeat, single-flight enqueue | one job at a time; a lock is not leaked into the pool |
| Alert state | `routes/alerts.py` | `alert_states` rows | PATCH an event, POST a state | a state never moves backward |
| Alert triage (client) | `frontend/.../usePersistedMonitorController.ts` | the list, its request, the PATCHes in flight, fence, review holds, selection, batch | reload, change, acknowledge a selection, retry, dismiss | nothing older than an answer is shown; a retry names the failures; a batch ends |
| Model draft | `routes/model_v2.py`, `model_engine_v2.py` | the draft of an analyst and issuer, its revision, the override log, checkpoints | save, commit a batch, undo and redo, checkpoint, restore | one write per revision; log and checkpoints account for the draft |
| Model workbench (client) | `frontend/.../ModelV2Workbench.tsx` | record, pending edits, editor, preview, the command in flight, history, expiry | edit, preview, commit, undo and redo, checkpoint, restore, recalculate | what is shown is what is stored; what is committed was previewed |
| Alert rules | `alert_triggers.py`, `alert_evaluation.py`, `watch_rules.py` | rules | evaluate | deterministic data processing |
| Committee, decisions, workbooks, ingestion, sector, exports, identity, notifications, other pages | `routes/*.py`, `frontend/src` and others | request-scoped, or presentation | CRUD, parsing, rendering | listed in `PROJECT.json`, mostly data processing |

How they interact: `create_run` commits a queued row and calls `enqueue`, which
does nothing on Postgres: the loop of any worker claims the row. An attempt
(`execute_run_by_id`) runs `execute_run` in one long transaction; the modules'
provider calls share the `RunBudget` of the attempt; the budget is seeded from
and written back to the row. After the commit, the run triggers alert
evaluation, which materializes intents that a dispatcher delivers. Analysts see
the alerts in the triage list and change their states, which other sessions
change too. The workbench edits the draft of a model; every command names the
revision it expects, and a conditional UPDATE on that revision is what keeps two
tabs apart.

What is hard: leases that expire under a living worker; selects without locks
followed by updates by primary key; row locks that an attempt takes by accident
(the flush of a module output also writes the dirty `Run` row) and that both
fence and block; commits whose result is not heard; processes that die anywhere;
lists that land after the change they do not know of; edits made while a command
is in flight; overrides that expire in between.
`PROJECT.json` lists each hazard at its line.

## 2. Order of the modules

1. `RetryQueue`: the promise of a durable queue (abstract).
2. `RunQueue`, `RunQueueProps`, `RunQueueProofs`: the core.
3. `AlertDelivery`, `AlertDeliveryProps`, `AlertDeliveryProofs`.
4. `TokenBudget`, `TokenBudgetProps`, `TokenBudgetProofs`.
5. `IdempotentCreation`: the promise of an idempotency key (abstract);
   `RunAdmission`, `RunAdmissionProps`, `RunAdmissionProofs`,
   `AdmissionPromiseProofs`.
6. `MonitorAlerts`, `MonitorAlertsProps`, `MonitorAlertsProofs`: the client's
   triage composed with the alert rows of the server.
7. `ModelDraft` (the server), `ModelWorkbench` (the client, which extends it),
   `ModelWorkbenchProps`, `ModelWorkbenchProofs`, `ModelAuditProofs`.

Properties live in the `Props` modules, with the named parts of the inductive
invariant; the `MC` modules give constants their values.

## 3. Modules

### RetryQueue
What a queue promises: an item is submitted once, taken at most `MaxAttempts`
times, and never taken again after it is settled. `phase` and `tries` are all it
knows. `RunQueue` maps `queued` to waiting, `running` to taken, and both terminal
statuses to settled; `AlertDelivery` maps a row that waits for a retry to taken
as well. `Settle(S)` may name settled items again: the reaper of the run queue
does so (finding `run_final`).

### RunQueue
One action is one database transaction, or its part up to the next await at
which another process can be seen: reaping and claiming are two actions each, an
attempt is many.

* `row` is the committed row. The lease is the boolean `lapsed`: whether
  `lease_expires_at` has passed. `result` says which attempt's module outputs
  are committed; `notified` collects the terminal notifications.
* `loop[w]` walks a worker through `_run_loop`: `Heartbeat`, `ReapSelect`,
  `ReapCommit`, then `ClaimSelect` and `Claim` until full or `ClaimNothing`, then
  `Wake`. `orphans[w]` is what the reaper has read: the select takes no lock, and
  the update is by primary key.
* `held[w]` is the row that the claim in progress of `w` has selected FOR UPDATE
  SKIP LOCKED. It is committed as it was until `Claim`, and other workers skip it
  meanwhile: they may start a younger run first. `TickFails` and `Crash` roll the
  claim back, and the row waits again.
* `task[<<r, a>>]` is the `execute_run_by_id` of attempt `a` of run `r`, the
  pair being the claim token: `Load` (both token checks), `Flush` (the first
  flush of a module output takes the row lock and keeps it: `dirty`),
  `CheckOwner`, `Commit`, `AfterCommit`; `AttemptRaises` and
  `RetryTransaction` leave the normal path; `MarkRunFailed` is
  `_mark_run_failed` with its two early returns.
* `LoopWaits(w)`: heartbeat and reaper wait for row locks (`RowLocked`: of
  attempts that have flushed, of claims). `Claimable` skips locked rows.
* `Stop`, `Exit`, `Crash`, `Restart`: processes. A stop cancels the tasks, which
  then go to `_mark_run_failed` unless they have committed. A restarted process
  may have the same `worker_id` (host name and object address).
* `ClaimLost`, `TickFails`, `LoadFails`, `MarkRunFailedLost`: the database fails
  a statement, or the answer to a commit is lost. `Commit` may lead to `fail`:
  the server committed and the client was told otherwise.

Constants that are modes: `PromptLoops` (TRUE: no lease lapses while the worker
of the run lives, executes it and is not waiting for a lock: the configuration
600 s lease, 1 s poll), `EarlyFlush` (TRUE: every attempt flushes an output
before it ends; FALSE lets it reach the owner check unflushed, as a route whose
modules are all blocked does).

Left out: runs without an analyst (no notification), deletion, `health()`,
notification contents, the cumulative tokens (see TokenBudget), runs of one
issuer (admission lets one be active). `uq_run_module` appears as the conflict
of `Flush` and `CommitConflicts` with outputs already committed.

### AlertDelivery
`intent` is the row of `alert_delivery_intents`; the attempt number stands for
the lease token, since each claim draws a fresh one. `call[d]` is the
`dispatch_once` of a dispatcher: `Claim` (`_mark_exhausted` and the claim in one
transaction), `Render` outside any transaction, `Finish` under
`_owned_lease_predicates`, `Return`. Clocks are read before each transaction and
differ: a call sees any subset `seen` of what the foremost clock has made
eligible, and judges its own lease by its own clock (`late`). The order of claims
by `available_at` is left open. `Crash` is death or any exception. Materialization
is the insert with ON CONFLICT DO NOTHING; which alerts are materialized is left
out. The Postgres and SQLite claims have the same effect and are one action.

### TokenBudget
The lanes of one attempt share `used`, `reserved` and a condition
(`Ask`, then `Grant`, `Wait`, `Shrink` or `Refuse`; `Charge`; `Release`, which
wakes all). `Start`, `Retry`, `Finish` and `Die` carry `used` through
`tokensUsed`, the committed column; `spent` is what the provider billed, a
quantity the program does not keep. An attempt that dies leaves calls in flight,
and the provider bills any part of them (`Die`). `Tokens(S)` is what the lanes of
`S` have reserved, token by token, and `Held(S)` their number. A call is assumed to cost at most its
reservation, which bounds the input by request bytes plus 8192
(`_input_reservation`). The limit is positive (zero means no budget). `NextRun`
only closes the graph. A transaction retry happens with idle lanes, because the
modules that raise it run serially, before the concurrent ones of their layer.

### IdempotentCreation
What `POST /runs` promises to a client that sends an Idempotency-Key: the first
request with a key that gets through creates a run (`Create`, whose answer may be
lost), and a repetition with the same body is answered with that run (`Again`).
`made` and `told` only grow. `RunAdmission` implements it (`KeepsPromise`): the
committed rows with a key are what was made, the 201 answers to requests with a key
what was told. The commit of such a row is a `Create`, a replay an `Again`, and
everything else, the end of a run included, a stutter.

### RunAdmission
`create_run` of `routes/runs.py`; every handler runs it for one request at a time.
`Enter` takes `_create_run_lock` of the handler's process and looks for the run of
an earlier try with the same idempotency key; `CountMine`, `CountAll` and
`CheckIssuer` are the three selects that may refuse the request, `Insert` the
flush of the row, `Commit` the snapshot and the commit, `Recheck` the branch of
`IntegrityError`, `Abort` everything that rolls back (404, `LookupError`,
cancellation, death). A lock is held exactly while some handler of its process is
not idle, so it needs no variable. READ COMMITTED: a statement sees committed rows
(`Committed`, `Active`); `inserted` rows are seen by the unique indexes only, and
an insert that meets one waits for its transaction (`MustWait`). On SQLite there is
one process, whose handlers never meet at the indexes.

A request is its analyst, issuer, key and the rest of its body; the hash of the
body is modelled by its equality (`SameHash`), so a collision is left out. A
client sends a request any number of times, to any process: `Commit` may lose its
answer. `RunEnds` is the run queue as admission sees it; a terminal row without a
key matches no statement any more and becomes `free` again, which keeps the graph
finite without bounding the number of runs. The request rate limit, access checks
before the lock, the portfolio binding, audit and lineage rows are left out:
they decide nothing about other requests. So is the lock of the row of the analysis
context that a commit with a context takes (FOR UPDATE): it is taken after the
insert, so requests wait for each other's insert and context in one order and
never in a circle.

### MonitorAlerts
The hook `usePersistedMonitorController` and the rows it talks about. A callback of
the client, up to its next await, is one action, and the React effects that it
causes are part of it: the effect that drops the error of another selection is in
`Select`. A row carries the number of writes to it, so that an answer or a page of
a list is as new as its number; `told` is what the answers have spoken of.

* `load` is the current list request (`requestRef`); one that has been replaced
  does nothing any more and is forgotten. `ListSent` is the end of the wait for the
  PATCHes in flight behind the fence, `ReadPage` one page (`drainPages`: pages are
  read one after another, between them rows may change), `ListDropped` and
  `ListLands` the comparison of the fence's epoch.
* `patch[a]` is the request of `mutateEvent` for an alert, from `Mutate` over
  `Serve` or `Lose` to one of four answers. `Fenced` is `requireAuthoritativeReload`.
* `batch` is `acknowledgeSelected`. Its continuation after `Promise.allSettled` is
  a microtask and runs before any other callback: `Next` gives it priority.
* `Serve(a)` is a step of the PATCH's handler. If the row exists, its SELECT FOR
  UPDATE locks it and the rest is one step (`PatchLocked`). If there is no row,
  nothing is locked (`PatchUnlocked`), `upsert_alert_state` selects again
  (`PatchReads`) and writes (`PatchWrites`), and a session that inserts or changes
  the row in between is not seen. `POST /state` is two steps as well, because it
  never locks. A write of what was read leaves the state column alone, an insert
  of a row that exists by then fails (`Written`, `InsertFails`).

`Refresh` may be called at any time: components, tests and visibility changes do.
Left out: the filter, the active event and the view, unmounting, the joining of
equal changes in flight, the evaluation of events and their visibility; and the
PATCHes of other sessions: with a lock, one is a `POST /state` whose two steps
happen together, without one it is a `POST /state`. The answer of a PATCH tells the
row as it wrote it; a refresh that reads a still later write is left out. A PATCH
that the client has given up (`Lose`) writes before that or not at all.

### ModelDraft and ModelWorkbench
`ModelDraft` is the server: the row, the log of override events (one group per
revision) and the checkpoints. A request reads the draft and checks what it is
asked to do (`Accepts`, by kind `MaySave`, `MayCommit`, `MayReplay`,
`MayCheckpoint`), then `Writes` commits what was computed from the draft that was
read, under the condition on the revision (`Unmoved`). The calculation is modelled
by the only thing that matters to the coordination: overrides of derived cells
that have expired do not count. All of them expire at one instant (`late`); what a
handler calculates depends on whether that instant had passed when it read the
draft (`expired`), which may be before its UPDATE. A checkpoint keeps the
calculation that its handler made, and `MayCheckpoint` refuses a draft whose own
differs. `Audit` gives the event of a restore two equal calculations, because the
handler reads the one before from a row that its UPDATE has refreshed already.

`ModelWorkbench` is one tab. `call` is the command in flight (`busy`), from `Send`
over `ServeRead`, `ServeWrite` or `ServeConflict` to its answer, and may be lost at
any point, before or after the server has carried it out. The editor stays usable
meanwhile: `QueueOverride` does not ask whether a command is in flight, and takes
the preview away (`Outdated`). `Replayable` derives what can be undone and redone
from the history the tab has read, which may be older than the log. `call.shown`
and `call.edits` record what the analyst was shown and what was confirmed; the
program does not keep them. Other tabs of the analyst (`OtherTabs`) commit and make
checkpoints; what else they may do moves the draft in the same way.

Left out: import and export of workbooks, the route for a single override (a batch
of one), the length limit of the history (500), the list of checkpoints (any
checkpoint may be asked for), scenario sensitivity, and leaving the page. The two
GETs of `refreshArtifacts` are one read.

## 4. Runs

| Run | Bounds | Shows |
|---|---|---|
| `run_fence` | 2 workers with 2 slots, 1 run, 3 attempts, 2 faults | claims, flushes and commits of three generations of one run: outputs are those of the current claim, only the owner fails it, outcomes stay before the last attempt, no run twice on one worker; and every queued run ends |
| `run_two` | 2 workers, 2 runs, 2 attempts, no process fails, attempts may end unflushed | types, notifications, no waiting run passed over but for a claim of it in progress, refinement of RetryQueue |
| `run_final` (violation) | 2 workers, 1 run, 2 attempts | the reaper rewrites a completed run |
| `run_twice` (violation) | 2 workers with 2 slots, 2 runs, no fault | one run executed twice at once though nothing failed |
| `delivery` | 3 dispatchers, 1 intent, 3 attempts | fencing, true reports, final outcomes, refinement; every intent is settled |
| `budget_lanes` | 3 lanes, 1 call each per attempt, limit 5, calls of 2 and 4, one retry, one death | no overrun, no leak, bounded spend; every asking lane is answered |
| `budget_cap` (violation) | 2 lanes, one death | the cap is per surviving attempt, not per run |
| `admission_race` | 3 handlers on 2 processes, 5 requests over 2 analysts, 3 issuers, 1 key; limits 1 and 1 | one active run per issuer, true replies, refinement of IdempotentCreation (one run per key, for good); each further process overruns a limit by at most one run; every request gets out of `create_run` |
| `alerts_triage` | 2 alerts on 2 pages, one write to the first row and two to the second (`MaxWrites`), the first changed by itself too, another session that resolves it | nothing older than an answer is shown without the fence; the status follows the list request; a retry names the failures; every batch ends |
| `alerts_regress` (violation) | 1 alert, 3 writes, the analyst reopens or resolves, another session acknowledges | `POST /state` takes a resolution back |
| `workbench` | an input cell and a derived one, one value, 3 revisions; this tab edits the derived cell, other tabs both | the tab shows the draft of its revision, commits what it previewed, checkpoints are the draft with a calculation that is not stale, the log accounts for it |
| `workbench_lost` (violation) | the same cells, both edited here, 3 revisions | edits queued during a command are discarded with its answer |

Why the bounds are enough. A stale attempt, its successor and the successor's
successor are three attempts: with three the second token is neither the first nor
the last, which the exceptions for the last attempt need. Two workers and two
faults let a worker lose its claim, crash and come back while the other executes.
Two runs are the fewest for the order of starts and for one update that waits for
one run's lock while another's lease lapses. `run_two` has no fault, so a claim that
rolls back after a younger run has started is seen by `run_fence`, as far as one
run shows it, and by the proofs. `MaxFaults` counts crashes, stops
and database failures together; lapses of leases and exceptions of attempts are
not bounded, so a fault on top of them reaches every handler. The proofs of
section 5 hold for every value. For the budget, a limit of 5 fits a small and a
shrunk large call, so all four answers occur, and three lanes make two waiters.
For admission, two handlers share a process and a third has its own, so the lock
and its absence both matter; the one key is used with two bodies, two issuers and
by two analysts; three issuers let three requests be admitted at once where the
lock fails, two where only the limits do. The table has more rows (`MaxRuns`) than rows with a key and
handlers can fill together, so `Insert` always finds a free one. For the triage,
two alerts are the fewest for a batch that fails in part, two pages for a row that
changes behind the page that was read. One write to a row is the fewest that makes
a list stale, two let a PATCH find the row or not find it; a PATCH that finds no
write left waits until it is lost. An UPDATE by a PATCH that had no row to lock needs
a row written between its two selects: `alerts_regress` has the writes for it, and
the theorems speak of any number. For the workbench, three revisions are
the first save and two writes on top of it, of this tab or another, such as an
edit and its undo, or a checkpoint and its restoration; one derived cell expires, the input cell does not.

Only `alerts_regress` switches deadlock checking off, because its rows run out of
writes (`MaxWrites`) while it looks for the violation. Elsewhere nothing stops:
workers poll for ever, and so do dispatchers; the budget goes on to the next run,
clients send requests for ever, the analyst can always reload or type.

Fairness. `RunQueue!Fairness`: asyncio runs every loop and task that can run, a
supervisor restarts processes (`Restart` is part of `LoopStep`), Postgres grants
row locks, time passes. Nothing is fair about faults or about an attempt raising.
`AlertDelivery!Fairness`: no loop of the server calls `dispatch_once`; the
operations notes describe an operator's dispatcher process that drains it, and
that process is assumed to go on and to have a clock that advances; `Crash` can
strike for ever, and the attempt counter bounds it. `TokenBudget!FairSpec`: the
event loop runs the lanes and provider calls return (they have timeouts).
`RunAdmission!FairSpec`: handlers that can go on do, and, strongly, an insert that
waits for a transaction of another process is not overtaken by newcomers for
ever, because Postgres queues the waiters of a transaction. Nothing is fair about
`Abort`, about clients or about runs ending. `MonitorAlerts!Fairness`: requests
are answered or time out, list requests proceed, and the event loop runs what has
been answered; nothing is fair about the analyst, about other sessions, or about a
request succeeding. `ModelWorkbench` states none: an analyst need not go on, and a
command that is never answered leaves the tab busy.

### Findings

1. `run_final`: a reaper that read an exhausted run just before its last attempt
   commits turns complete into failed, and notifies twice. Needs the lease of a
   living last attempt to lapse, or its heartbeat to be blocked as in 2.
2. `run_twice`: the one heartbeat UPDATE of a worker waits for the row locked by
   one of its own attempts; the leases of its other runs lapse, and another
   worker executes them again. The claim token keeps the outcome right.
3. `budget_cap`: the spend of an attempt that dies is not in `tokens_used`.
4. `alerts_regress`: `POST /state` reads an open alert, another session resolves
   it, and the UPDATE writes the acknowledgment over the resolution. A PATCH whose
   SELECT FOR UPDATE finds no row can do the same: it reads again without a lock
   (`alerts.py:387-391`).
5. `workbench_lost`: `adoptRecord` clears the pending edits as they are when an
   answer lands. An override queued while a save, commit, undo or restore is in
   flight was neither sent nor confirmed as discarded, and is gone.
6. Without a run of its own: the audit event of a restore tells the new calculation
   twice. `restore_model_v2_checkpoint` reads `before_value` from
   `draft.calculation_hash` (`model_v2.py:1428`) after `_cas_update`, whose
   UPDATE … RETURNING has refreshed that row in place; the history of the workbench
   shows the same hash as BEFORE and AFTER (`ModelV2Workbench.tsx:1904`), whatever the
   restore replaced. `Audit` models it as it is, so `AuditAccountsForDraft` asks of
   the event of a restore only what it leaves. `AuditAfterwards` is the same fault
   in the other handlers, which do not have it.

## 5. Proofs

For all values of the constants satisfying the named assumptions; TLAPS checks
every leaf. Each safety theorem is proved from one inductive invariant per
component, defined beside the properties, checked by TLC first.

`RunQueueProofs` (assumes `QueueAssumption`). The properties are not inductive:
that the committed outputs belong to the current claim needs that nobody could
claim the row while its attempt was between check and commit, which needs that
lock holders are at work (`LockHoldersWork`), that tasks stand for granted claims
(`TasksWereClaimed`), and, for failures, that a run failed before its last attempt
was failed by its owner, which is gone (`FailedOwnerGone`); the reaper's stale
reads are harmless below the last attempt because what it has read stays
exhausted (`OrphansExhausted`). `ResultsAreFenced` and `OutcomeIsStable` assume
`EarlyFlush`. Without it they are false: the owner check takes no lock, so it
fences only attempts that have flushed, and with `EarlyFlush = FALSE` in
`MCRunQueue_fence.cfg` TLC shows a stale attempt that publishes. The others hold
in both modes, `StatusTellsOutputs` among them. `ClaimsAreExclusive`: what a claim in
progress has locked stays claimable until it commits (`HeldIsTakeable`), so no claim
is granted on a row that has moved on. `PassedOnlyIfClaimed` rests on that and on
`UnstartedRows`: a queued row has used no attempt, so no attempt locks or executes
it, and every claim sees it unless another worker's claim has it locked. That a
younger run starts first is then possible, and no property denies it.
`QueueKeepsPromise` shows each step of the queue to be a
step of `RetryQueue` or a stutter.

`AlertDeliveryProofs` (assumes `DeliveryAssumption`). The invariant adds that
calls in progress carry granted claims (`CallsWereClaimed`), which attempt
counters fit which status (`AttemptsFit`), and that a finishing call has an
outcome (`RendersHaveOutcome`); a stale call is then told from the owner by its
attempt alone, and what a call reported cannot be overturned.

`TokenBudgetProofs` (assumes `BudgetAssumption`; the lanes are finitely many). A
sum over lanes would need an induction; the number of tokens held needs only that
the tokens of one lane are a finite part of them, apart from those of the others
(`TokensSplit`, `HeldByLane`). The invariant adds that idle lanes hold nothing
(`OnlyCallersHold`) and that what was spent and is not counted was spent by
attempts that died, at most the limit by each (`LostSpendIsOfDeaths`); the bound
on the spend follows. `CapNeedsSurvivors` complements finding 3: where no attempt
dies, the documented cap holds.

`RunAdmissionProofs` (assumes `AdmissionAssumption`). That committed rows differ in
issuer and key is not inductive: a commit could publish a second one. The
invariant says the same of uncommitted rows (`IndexesHold`), which `Insert` alone
can disturb and does not, since it waits. It adds that a row in use has a
request (`InUseHasRequest`) and that an uncommitted row has one handler
(`InsertedOnce`, so an abort frees no row of another handler). The process lock
plays no part here: the indexes alone are enough. `OverrunHasBound` rests on it
(`LockHolds`): the active runs and the handlers that have passed the count and may
still add one are together fewer than the limit and the processes
(`ComingRunsFit`), because a handler passes the count only below the limit and of
the other processes at most one handler each has passed it.

`AdmissionPromiseProofs`. `AdmissionKeepsPromise` is the refinement, a step or a
stutter of the promise for each action. `AnswersAgree`: two 201 to one key name one
run and answer one body. `NoWaitingCircle`: an insert that waits has in its way a
handler that has inserted and only has to commit, so handlers never wait in a circle;
it is the safety half of `HandlersFinish`.

`MonitorAlertsProofs` (assumes `AlertsAssumption`). That nothing older than an
answer is shown is about lists that have landed; the invariant says it of lists
that may still land (`PagesAreNew`): in front of the fence an answer abandons the
list that is read, and behind it the list that may land was asked for when no
PATCH was in flight, and none can be sent. Versions grow from the page or the
answer to the row (`ToldIsWritten`). That a retry names the failures needs that a
batch under way has no retry on offer and owns all PATCHes (`BatchOwnsPending`).
`NobodyWaitsForNothing`: while a request is open the list says loading, and it says
so without one only behind the fence. `OnlyRacesRegress` says where finding 4 can
happen and that these are the only places: a state moves backward only in the UPDATE
of a `POST /state`, or of a PATCH that found no row to lock, whose row was written
after its read (`ReadsAreOfRows`). `ResolvingIsSafe`: where other sessions only
resolve, states never regress, whether a PATCH finds a row or not.

`ModelWorkbenchProofs` (assumes `DraftAssumption`, `WorkbenchAssumption`). The tab
is never ahead of the server (`RecordIsPast`), a command that has not been carried
out expects the tab's revision (`CallIsPresent`), so its write moves the draft
away from the tab until the answer is adopted, and the answer brings the draft of
its revision (`ReplyIsReal`). A commit and a checkpoint are computed from the
record, and the calculation that a checkpoint has found is not stale
(`ReadIsRecord`), a preview that counts is of its edits over the record
(`PreviewIsOfItsEdits`); the two action properties follow. `OnlyLateEditsAreLost`
encloses finding 5: what an answer takes away unasked was queued after its command
was sent, because otherwise the command holds all that is pending (`PendingIsSent`;
`EditsHaveRecord`: nothing can be edited before there is a record).

`ModelAuditProofs`. That the log accounts for the draft is said of a trail: one
point of overrides after each group of events, from the blank draft to the present
one. The group of an edit, an undo or a redo tells the values before it of the cells
it changes (`Found`), and every group what it leaves (`Left`), that of a restore as a
calculation. Every write adds a point. It fits
because the request had read the draft it replaces (`ReadIsPast`, with the
condition on the revision), a save sends no overrides but those of its record
(`SaveKeepsOverrides`, `NothingIsBlank`), and a restore names a checkpoint that
exists (`RestoresAreOfShelf`).

Proved under a condition beyond the named assumptions: `ResultsAreFenced` and
`OutcomeIsStable` (`EarlyFlush`), `CapNeedsSurvivors` (no attempt dies),
`ResolvingIsSafe` (other sessions only resolve). Each says how the program is used
where the property holds; without it TLC has a counterexample.

Only model-checked: the five liveness properties (`EveryRunEnds`,
`EveryIntentSettles`, `EveryCallIsAnswered`, `HandlersFinish`, `EveryBatchEnds`),
since fairness and ENABLED are beyond the prover. Every safety invariant and
action property that a passing run checks is a theorem.

## 6. Not modelled

`PROJECT.json` lists every part under `components`. The reasons, in short:

* Research and report queues: the scheme of the run queue with the token fence of
  the delivery; a third model of the same protocol would ask nothing new.
* Pipeline jobs and advisory locks, and the navigation guard of the client: what
  makes them right is the order of events in a connection pool, in Postgres
  sessions, in the browser's history and in the router, none of which is in the
  sources.
* In-process executors, watch rules, committee and decisions, analyst settings:
  single transactions in one process, or the optimistic revision that `ModelDraft`
  models.
* The layers, gates and planning of a run: computed from the results of a whole
  layer after its gather.
* Alert triggers, modules, prompts, retrieval, workbook arithmetic, parsing,
  lineage, exports, access control, and the client's other pages: data processing,
  input and output, or presentation.
