------------------------------ MODULE RunQueue ------------------------------
(***************************************************************************)
(* The durable run queue of caos/server/run_executor.py on Postgres: the   *)
(* QueueWorker loop of every server process (heartbeat, reap, claim) and   *)
(* the attempts it spawns (execute_run_by_id, _mark_run_failed), which     *)
(* race on the rows of the runs table.                                     *)
(*                                                                         *)
(* One action is one database transaction, or the part of one up to the    *)
(* next await at which another process can be seen.  Two transactions hold *)
(* a row lock across several actions: a claim, from its SELECT FOR UPDATE  *)
(* SKIP LOCKED to its commit, and an attempt that has flushed a module     *)
(* output, since the flush also writes the dirty Run row and the           *)
(* transaction stays open until the attempt commits or rolls back.         *)
(***************************************************************************)
EXTENDS Naturals, FiniteSets

CONSTANTS
  Workers,      \* server processes that run a QueueWorker
  NoWorker,     \* worker_id NULL
  NumRuns,      \* runs are numbered in created_at order
  MaxAttempts,  \* caos_run_max_attempts
  Cap,          \* caos_run_concurrency
  MaxFaults,    \* bound on crashes, stops and database failures together
  PromptLoops,  \* TRUE: no lease lapses on a run whose worker's loop can run
  EarlyFlush    \* TRUE: every attempt flushes some output before it ends

ASSUME QueueAssumption ==
  /\ NoWorker \notin Workers
  /\ NumRuns \in Nat
  /\ MaxAttempts \in Nat \ {0}
  /\ Cap \in Nat \ {0}
  /\ MaxFaults \in Nat
  /\ PromptLoops \in BOOLEAN
  /\ EarlyFlush \in BOOLEAN

Runs     == 1..NumRuns
Attempts == 1..MaxAttempts
Claims   == Runs \X Attempts      \* the claim token: a run and its attempts value
Terminal == {"complete", "failed"}

VARIABLES
  row,       \* [Runs -> RowType], the committed row of the runs table
  result,    \* [Runs -> 0..MaxAttempts], attempt whose module outputs are committed
  notified,  \* terminal notifications, as <<run, status>>
  loop,      \* [Workers -> where the worker's _run_loop is]
  orphans,   \* [Workers -> runs its _reap_orphans has read]
  held,      \* [Workers -> runs its _claim_one has locked: none, or one]
  task,      \* [Claims -> TaskType], the execute_run_by_id task of a claim
  faults     \* faults so far

vars == <<row, result, notified, loop, orphans, held, task, faults>>

RowType == [status   : {"absent", "queued", "running"} \cup Terminal,
            attempts : 0..MaxAttempts,
            worker   : Workers \cup {NoWorker},
            lapsed   : BOOLEAN]             \* lease_expires_at < now

TaskType == [pc      : {"none", "load", "run", "commit", "post", "fail"},
             worker  : Workers \cup {NoWorker},
             dirty   : BOOLEAN,             \* has flushed: holds the row lock
             retried : BOOLEAN]             \* second transaction attempt

NoTask == [pc |-> "none", worker |-> NoWorker, dirty |-> FALSE, retried |-> FALSE]

LoopPlaces == {"beat", "reap", "sweep", "claim", "sleep", "drain", "down"}

Init ==
  /\ row = [r \in Runs |-> [status |-> "absent", attempts |-> 0,
                            worker |-> NoWorker, lapsed |-> FALSE]]
  /\ result = [r \in Runs |-> 0]
  /\ notified = {}
  /\ loop = [w \in Workers |-> "beat"]
  /\ orphans = [w \in Workers |-> {}]
  /\ held = [w \in Workers |-> {}]
  /\ task = [c \in Claims |-> NoTask]
  /\ faults = 0

-----------------------------------------------------------------------------
\* What the code reads.

TasksOf(w) == {c \in Claims : task[c].pc # "none" /\ task[c].worker = w}

\* _inflight_ids of a worker.
Inflight(w) == {c[1] : c \in TasksOf(w)}

\* Some open transaction has written the row, or selected it FOR UPDATE, and
\* not ended.
RowLocked(r) == \/ \E a \in Attempts : task[<<r, a>>].dirty
                \/ \E w \in Workers : r \in held[w]

\* The row still carries the claim token (attempts, worker_id) of the task.
Owns(c) == /\ row[c[1]].attempts = c[2]
           /\ row[c[1]].worker = task[c].worker

\* The rows a worker's heartbeat UPDATE matches.
Beatable(w) == {r \in Inflight(w) : row[r].status = "running" /\ row[r].worker = w}

\* Mutants of the two selects below.
AbandonedTooLate == {r \in Runs : /\ row[r].status = "running"
                                  /\ row[r].lapsed
                                  /\ row[r].attempts > MaxAttempts}

AbandonedTooSoon == {r \in Runs : row[r].status = "running" /\ row[r].lapsed}

\* A row waits, or its worker went silent with attempts left.
Takeable(r) == \/ row[r].status = "queued"
               \/ /\ row[r].status = "running"
                  /\ row[r].lapsed
                  /\ row[r].attempts < MaxAttempts

ClaimableLocked(w) == {r \in Runs : Takeable(r) /\ r \notin Inflight(w)}
ClaimableOwn(w)    == {r \in Runs : Takeable(r) /\ ~RowLocked(r)}
ClaimableForever(w) ==
  {r \in Runs : /\ row[r].status \in {"queued", "running"}
                /\ row[r].status = "running" => row[r].lapsed
                /\ ~RowLocked(r)
                /\ r \notin Inflight(w)}

\* The rows _reap_orphans selects: plain SELECT, no lock.
Abandoned == {r \in Runs : /\ row[r].status = "running"
                           /\ row[r].lapsed
                           /\ row[r].attempts >= MaxAttempts}

\* The rows _claim_one can select: FOR UPDATE SKIP LOCKED, own runs excluded.
Claimable(w) ==
  {r \in Runs : Takeable(r) /\ ~RowLocked(r) /\ r \notin Inflight(w)}

AnyOf(S)  == S                    \* mutant: no ORDER BY created_at
Oldest(S) == {r \in S : \A q \in S : r <= q}

\* The loop of w waits in Postgres for a row lock held by an attempt.
LoopWaits(w) ==
  \/ loop[w] = "beat"  /\ \E r \in Beatable(w) : RowLocked(r)
  \/ loop[w] = "sweep" /\ \E r \in orphans[w] : RowLocked(r)

-----------------------------------------------------------------------------
\* The worker loop: heartbeat, reap, claim until full or empty, sleep.

Goto(w, place) == loop' = [loop EXCEPT ![w] = place]

Fault == faults < MaxFaults /\ faults' = faults + 1

\* create_run commits the row as queued.
CreateRun(r) ==
  /\ row[r].status = "absent"
  /\ \A q \in Runs : q < r => row[q].status # "absent"
  /\ row' = [row EXCEPT ![r].status = "queued"]
  /\ UNCHANGED <<result, notified, loop, orphans, held, task, faults>>

Heartbeat(w) ==
  /\ loop[w] = "beat"
  /\ ~LoopWaits(w)
  /\ row' = [r \in Runs |-> IF r \in Beatable(w)
                            THEN [row[r] EXCEPT !.lapsed = FALSE] ELSE row[r]]
  /\ Goto(w, "reap")
  /\ UNCHANGED <<result, notified, orphans, held, task, faults>>

\* _reap_orphans, the SELECT.
ReapSelect(w) ==
  /\ loop[w] = "reap"
  /\ orphans' = [orphans EXCEPT ![w] = Abandoned]
  /\ Goto(w, "sweep")
  /\ UNCHANGED <<row, result, notified, held, task, faults>>

\* Mutant: the reaper does not notify.
ReapSilently(w) ==
  /\ loop[w] = "sweep"
  /\ ~LoopWaits(w)
  /\ row' = [r \in Runs |-> IF r \in orphans[w]
                            THEN [row[r] EXCEPT !.status = "failed", !.lapsed = FALSE]
                            ELSE row[r]]
  /\ orphans' = [orphans EXCEPT ![w] = {}]
  /\ Goto(w, "claim")
  /\ UNCHANGED <<result, notified, held, task, faults>>

\* _reap_orphans, the UPDATE by primary key and the commit, which wait for the
\* row locks but look at nothing else the row has become.
ReapCommit(w) ==
  /\ loop[w] = "sweep"
  /\ ~LoopWaits(w)
  /\ row' = [r \in Runs |-> IF r \in orphans[w]
                            THEN [row[r] EXCEPT !.status = "failed", !.lapsed = FALSE]
                            ELSE row[r]]
  /\ notified' = notified \cup (orphans[w] \X {"failed"})
  /\ orphans' = [orphans EXCEPT ![w] = {}]
  /\ Goto(w, "claim")
  /\ UNCHANGED <<result, held, task, faults>>

\* _claim_one, the SELECT: the oldest row that nobody has locked is locked, and
\* is committed as it was until the claim is.
ClaimSelect(w, r) ==
  /\ loop[w] = "claim" /\ held[w] = {}
  /\ Cardinality(TasksOf(w)) < Cap
  /\ r \in Oldest(Claimable(w))
  /\ held' = [held EXCEPT ![w] = {r}]
  /\ UNCHANGED <<row, result, notified, loop, orphans, task, faults>>

\* _claim_one, the UPDATE and the COMMIT, which end the lock.
TakeRow(w, r) ==
  /\ loop[w] = "claim"
  /\ r \in held[w]
  /\ row' = [row EXCEPT ![r] = [status |-> "running", attempts |-> @.attempts + 1,
                                worker |-> w, lapsed |-> FALSE]]
  /\ held' = [held EXCEPT ![w] = {}]

\* The claim is granted, and _run_loop creates its task.
Claim(w, r) ==
  /\ TakeRow(w, r)
  /\ task' = [task EXCEPT ![<<r, row[r].attempts + 1>>] =
                [pc |-> "load", worker |-> w, dirty |-> FALSE, retried |-> FALSE]]
  /\ UNCHANGED <<result, notified, loop, orphans, faults>>

\* The claim commits but the connection fails before the worker hears of it:
\* the tick ends in its except branch and no task exists for the claim.
ClaimLost(w, r) ==
  /\ TakeRow(w, r)
  /\ Fault
  /\ Goto(w, "sleep")
  /\ UNCHANGED <<result, notified, orphans, task>>

ClaimNothing(w) ==
  /\ loop[w] = "claim" /\ held[w] = {}
  /\ Cardinality(TasksOf(w)) >= Cap \/ Claimable(w) = {}
  /\ Goto(w, "sleep")
  /\ UNCHANGED <<row, result, notified, orphans, held, task, faults>>

Wake(w) ==
  /\ loop[w] = "sleep"
  /\ Goto(w, "beat")
  /\ UNCHANGED <<row, result, notified, orphans, held, task, faults>>

\* Any statement of the tick raises: the open transaction, a claim's with its
\* lock too, is rolled back and the loop sleeps until the next tick.
TickFails(w) ==
  /\ loop[w] \in {"beat", "reap", "sweep", "claim"}
  /\ Fault
  /\ orphans' = [orphans EXCEPT ![w] = {}]
  /\ held' = [held EXCEPT ![w] = {}]
  /\ Goto(w, "sleep")
  /\ UNCHANGED <<row, result, notified, task>>

-----------------------------------------------------------------------------
\* An attempt: execute_run_by_id for the claim c = <<run, attempts value>>.

\* The task goes on at pc, holding the row lock or not.
GoOn(c, pc, dirty) == task' = [task EXCEPT ![c].pc = pc, ![c].dirty = dirty]

\* The task ends and its transaction with it.
End(c) == task' = [task EXCEPT ![c] = NoTask]

\* What an exception or task.cancel() makes of a task.  Before the try block of
\* the first transaction, after the commit, and inside _mark_run_failed the task
\* ends; elsewhere the handler goes on to mark the run failed.
Unwound(t) ==
  IF t.pc \in {"post", "fail"} \/ (t.pc = "load" /\ ~t.retried)
  THEN NoTask
  ELSE [t EXCEPT !.pc = "fail", !.dirty = FALSE]

\* session.get and the claim-token check, before the first try of the
\* transaction and again, on a fresh read, before the second.
Load(c) ==
  /\ task[c].pc = "load"
  /\ IF row[c[1]].status = "running" /\ Owns(c)
     THEN GoOn(c, "run", FALSE)
     ELSE End(c)
  /\ UNCHANGED <<row, result, notified, loop, orphans, held, faults>>

\* The database fails the load.
LoadFails(c) ==
  /\ task[c].pc = "load"
  /\ Fault
  /\ task' = [task EXCEPT ![c] = Unwound(@)]
  /\ UNCHANGED <<row, result, notified, loop, orphans, held>>

\* The first flush of a module output writes the Run row too.  It waits for
\* the row lock; outputs another attempt committed make it violate
\* uq_run_module, and the attempt fails.
Flush(c) ==
  /\ task[c].pc = "run" /\ ~task[c].dirty
  /\ ~RowLocked(c[1])
  /\ IF result[c[1]] = 0
     THEN GoOn(c, "run", TRUE)
     ELSE GoOn(c, "fail", FALSE)
  /\ UNCHANGED <<row, result, notified, loop, orphans, held, faults>>

\* A session-bound synthesizer poisons the transaction: roll back, start over once.
RetryTransaction(c) ==
  /\ task[c].pc = "run" /\ ~task[c].retried
  /\ Fault
  /\ task' = [task EXCEPT ![c] = [@ EXCEPT !.pc = "load", !.dirty = FALSE,
                                           !.retried = TRUE]]
  /\ UNCHANGED <<row, result, notified, loop, orphans, held>>

\* Any other exception: the handler rolls back and goes to _mark_run_failed.
AttemptRaises(c) ==
  /\ task[c].pc \in {"run", "commit"}
  /\ GoOn(c, "fail", FALSE)
  /\ UNCHANGED <<row, result, notified, loop, orphans, held, faults>>

\* Mutant: commit without reading the owner again.
CheckNothing(c) ==
  /\ task[c].pc = "run"
  /\ EarlyFlush => task[c].dirty
  /\ GoOn(c, "commit", task[c].dirty)
  /\ UNCHANGED <<row, result, notified, loop, orphans, held, faults>>

\* execute_run has returned: the owner columns are read once more.
CheckOwner(c) ==
  /\ task[c].pc = "run"
  /\ EarlyFlush => task[c].dirty
  /\ IF Owns(c)
     THEN GoOn(c, "commit", task[c].dirty)
     ELSE End(c)
  /\ UNCHANGED <<row, result, notified, loop, orphans, held, faults>>

\* Notification and commit.  An attempt that has flushed nothing yet does so
\* here.  The task may be told of a failure or be cancelled after the server
\* has committed: it then goes to _mark_run_failed all the same.
Commit(c) ==
  /\ task[c].pc = "commit"
  /\ task[c].dirty \/ ~RowLocked(c[1])
  /\ result[c[1]] = 0
  /\ row' = [row EXCEPT ![c[1]].status = "complete"]
  /\ result' = [result EXCEPT ![c[1]] = c[2]]
  /\ notified' = notified \cup {<<c[1], "complete">>}
  /\ \E pc \in {"post", "fail"} : GoOn(c, pc, FALSE)
  /\ UNCHANGED <<loop, orphans, held, faults>>

CommitConflicts(c) ==
  /\ task[c].pc = "commit" /\ ~task[c].dirty
  /\ ~RowLocked(c[1])
  /\ result[c[1]] # 0
  /\ GoOn(c, "fail", FALSE)
  /\ UNCHANGED <<row, result, notified, loop, orphans, held, faults>>

\* Alert trigger and vault export: errors are swallowed, the run is left alone.
AfterCommit(c) ==
  /\ task[c].pc = "post"
  /\ End(c)
  /\ UNCHANGED <<row, result, notified, loop, orphans, held, faults>>

\* Mutants of _mark_run_failed: one of its guards dropped, or the run put back.
FailWhere(c, guard, status) ==
  /\ task[c].pc = "fail"
  /\ ~RowLocked(c[1])
  /\ IF guard
     THEN /\ row' = [row EXCEPT ![c[1]].status = status, ![c[1]].lapsed = FALSE]
          /\ notified' = notified \cup {<<c[1], "failed">>}
     ELSE UNCHANGED <<row, notified>>
  /\ End(c)
  /\ UNCHANGED <<result, loop, orphans, held, faults>>

FailTerminal(c) == FailWhere(c, Owns(c), "failed")
FailStale(c)    == FailWhere(c, row[c[1]].status \notin Terminal, "failed")
FailRequeues(c) == FailWhere(c, row[c[1]].status \notin Terminal /\ Owns(c), "queued")

\* _mark_run_failed: SELECT FOR UPDATE, the two early returns, the update.
MarkRunFailed(c) ==
  /\ task[c].pc = "fail"
  /\ ~RowLocked(c[1])
  /\ IF row[c[1]].status \notin Terminal /\ Owns(c)
     THEN /\ row' = [row EXCEPT ![c[1]].status = "failed", ![c[1]].lapsed = FALSE]
          /\ notified' = notified \cup {<<c[1], "failed">>}
     ELSE UNCHANGED <<row, notified>>
  /\ End(c)
  /\ UNCHANGED <<result, loop, orphans, held, faults>>

\* _mark_run_failed never raises: when the database fails it, the row stays.
MarkRunFailedLost(c) ==
  /\ task[c].pc = "fail"
  /\ Fault
  /\ End(c)
  /\ UNCHANGED <<row, result, notified, loop, orphans, held>>

-----------------------------------------------------------------------------
\* Processes and time.

\* stop(): the loop ends at its next sleep and its tasks are cancelled.
Stop(w) ==
  /\ loop[w] = "sleep"
  /\ Fault
  /\ Goto(w, "drain")
  /\ task' = [c \in Claims |-> IF c \in TasksOf(w) THEN Unwound(task[c]) ELSE task[c]]
  /\ UNCHANGED <<row, result, notified, orphans, held>>

Exit(w) ==
  /\ loop[w] = "drain"
  /\ TasksOf(w) = {}
  /\ Goto(w, "down")
  /\ UNCHANGED <<row, result, notified, orphans, held, task, faults>>

\* The process dies: its tasks vanish and Postgres rolls their transactions back.
Crash(w) ==
  /\ loop[w] # "down"
  /\ Fault
  /\ Goto(w, "down")
  /\ orphans' = [orphans EXCEPT ![w] = {}]
  /\ held' = [held EXCEPT ![w] = {}]
  /\ task' = [c \in Claims |-> IF c \in TasksOf(w) THEN NoTask ELSE task[c]]
  /\ UNCHANGED <<row, result, notified>>

\* A new process.  worker_id is host name and object address, which a restart
\* can repeat: the model lets it be the same.
Restart(w) ==
  /\ loop[w] = "down"
  /\ Goto(w, "beat")
  /\ UNCHANGED <<row, result, notified, orphans, held, task, faults>>

\* A live worker executes r and its loop can reach the next heartbeat.
Kept(r) == LET w == row[r].worker
           IN  /\ w \in Workers
               /\ loop[w] \notin {"drain", "down"}
               /\ r \in Inflight(w)
               /\ ~LoopWaits(w)

\* The lease of a running row passes its time.
LeaseLapses(r) ==
  /\ row[r].status = "running" /\ ~row[r].lapsed
  /\ PromptLoops => ~Kept(r)
  /\ row' = [row EXCEPT ![r].lapsed = TRUE]
  /\ UNCHANGED <<result, notified, loop, orphans, held, task, faults>>

LoopStep(w) == \/ Heartbeat(w) \/ ReapSelect(w) \/ ReapCommit(w)
               \/ (\E r \in Runs : ClaimSelect(w, r) \/ Claim(w, r))
               \/ ClaimNothing(w) \/ Wake(w) \/ Exit(w) \/ Restart(w)

TaskStep(c) == \/ Load(c) \/ Flush(c) \/ CheckOwner(c) \/ Commit(c)
               \/ CommitConflicts(c) \/ AfterCommit(c) \/ MarkRunFailed(c)

Disturbance ==
  \/ \E w \in Workers : \/ TickFails(w) \/ Stop(w) \/ Crash(w)
                        \/ \E r \in Runs : ClaimLost(w, r)
  \/ \E c \in Claims  : \/ RetryTransaction(c) \/ AttemptRaises(c)
                        \/ MarkRunFailedLost(c) \/ LoadFails(c)

Next ==
  \/ \E r \in Runs    : CreateRun(r) \/ LeaseLapses(r)
  \/ \E w \in Workers : LoopStep(w)
  \/ \E c \in Claims  : TaskStep(c)
  \/ Disturbance

Spec == Init /\ [][Next]_vars

\* asyncio schedules every task and every loop that can run, processes are
\* restarted, row locks are granted, and time passes.
Fairness ==
  /\ \A w \in Workers : WF_vars(LoopStep(w))
  /\ \A c \in Claims  : WF_vars(TaskStep(c))
  /\ \A r \in Runs    : WF_vars(LeaseLapses(r))

FairSpec == Spec /\ Fairness
=============================================================================
