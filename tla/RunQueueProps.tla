--------------------------- MODULE RunQueueProps ---------------------------
(***************************************************************************)
(* What the run queue must guarantee.                                      *)
(***************************************************************************)
EXTENDS RunQueue

\* Rows, tasks and loops stay within their types; a run is claimed at most
\* MaxAttempts times.
TypeOK ==
  /\ row \in [Runs -> RowType]
  /\ result \in [Runs -> 0..MaxAttempts]
  /\ notified \in SUBSET (Runs \X Terminal)
  /\ loop \in [Workers -> LoopPlaces]
  /\ orphans \in [Workers -> SUBSET Runs]
  /\ held \in [Workers -> SUBSET Runs]
  /\ task \in [Claims -> TaskType]
  /\ faults \in 0..MaxFaults

\* An attempt that has flushed and passed the owner check still owns the row
\* when it commits: nobody can claim a row whose lock it holds.  This is what
\* the last check of execute_run_by_id rests on.
CheckedOwnerKeepsRow ==
  \A c \in Claims : task[c].pc = "commit" /\ task[c].dirty => Owns(c)

\* The committed module outputs are those of the attempt that holds the claim:
\* a worker that lost its lease never publishes over its successor.
ResultIsCurrent == \A r \in Runs : result[r] # 0 => result[r] = row[r].attempts

\* A worker never executes one run twice at the same time (the reason for
\* _inflight_ids): a run whose lease lapses is not claimed by its own worker.
OneAttemptPerWorker ==
  \A c, d \in Claims :
     /\ c[1] = d[1] /\ c # d
     /\ task[c].pc # "none" /\ task[d].pc # "none"
     => task[c].worker # task[d].worker

\* A terminal row has told its analyst so, whichever of the three writers
\* (attempt, _mark_run_failed, reaper) made it terminal.
TerminalIsNotified ==
  \A r \in Runs : row[r].status \in Terminal => <<r, row[r].status>> \in notified

\* Status and outputs agree until the last permitted attempt: complete means
\* that outputs are committed, and committed outputs mean complete.
OutputsMatchStatus ==
  \A r \in Runs : /\ row[r].status = "complete" => result[r] # 0
                  /\ result[r] # 0 => row[r].status \in Terminal
                  /\ result[r] # 0 /\ row[r].attempts < MaxAttempts
                        => row[r].status = "complete"

\* Nothing brings a terminal run back, and before the last permitted attempt
\* its outcome is final.
OutcomeStays ==
  [][\A r \in Runs : row[r].status \in Terminal =>
        /\ row'[r].status \in Terminal
        /\ row[r].attempts < MaxAttempts => row'[r].status = row[r].status]_vars

\* Only the attempt that owns the claim fails a run, unless the run has used
\* up its attempts: a stale attempt cannot fail its successor.
FailedByOwner ==
  [][\A r \in Runs :
        /\ row[r].status = "running" /\ row'[r].status = "failed"
        /\ row[r].attempts < MaxAttempts
        => \E c \in Claims : c[1] = r /\ task[c].pc = "fail" /\ Owns(c)]_vars

\* A claim that selects a queued run passes over an older one that is queued
\* too only while another worker's claim has it locked (SKIP LOCKED): nothing
\* else, a task of its own or a late attempt, hides a waiting run.  The younger
\* run may then start first, and the older claim may even roll back.
PassesOnlyClaimed ==
  [][\A w \in Workers : \A r \in held'[w] \ held[w] : \A q \in Runs :
        q < r /\ row[r].status = "queued" /\ row[q].status = "queued"
        => \E v \in Workers \ {w} : q \in held[v]]_vars

\* Every queued run ends, through crashes, lost claims and failed ticks.
EveryRunEnds ==
  \A r \in Runs : row[r].status = "queued" ~> row[r].status \in Terminal

PhaseOf(status) == IF status = "absent" THEN "absent"
                   ELSE IF status = "queued" THEN "waiting"
                   ELSE IF status = "running" THEN "taken"
                   ELSE "settled"

\* The queue implements the promise of RetryQueue.
Promise == INSTANCE RetryQueue WITH
  Items <- Runs,
  phase <- [r \in Runs |-> PhaseOf(row[r].status)],
  tries <- [r \in Runs |-> row[r].attempts]

KeepsPromise == Promise!RetrySpec

-----------------------------------------------------------------------------
\* The inductive invariant behind the safety properties (RunQueueProofs).

\* A row lock belongs to a transaction that is open.
LockHoldersWork ==
  \A c \in Claims : task[c].dirty => task[c].pc \in {"run", "commit"}

\* A task exists only for a claim that was granted.
TasksWereClaimed ==
  \A c \in Claims : task[c].pc # "none" =>
     task[c].worker \in Workers /\ c[2] <= row[c[1]].attempts

\* A row that has not been started has used no attempt.
UnstartedRows ==
  \A r \in Runs : row[r].status \in {"absent", "queued"} => row[r].attempts = 0

\* What the reaper has read still has no attempt left, whatever became of it.
OrphansExhausted ==
  \A w \in Workers : \A r \in orphans[w] :
     row[r].attempts >= MaxAttempts /\ row[r].status \notin {"absent", "queued"}

\* What a claim has locked is still what its SELECT saw, and its own: the row
\* can be taken, no attempt and no other claim has it locked, and the worker
\* has not executed it meanwhile.  So attempts + 1 is computed from the row.
HeldIsTakeable ==
  \A w \in Workers : \A r \in held[w] :
     /\ Takeable(r)
     /\ r \notin Inflight(w)
     /\ \A a \in Attempts : ~task[<<r, a>>].dirty
     /\ \A v \in Workers : r \in held[v] => v = w

\* Under EarlyFlush, who passed the last owner check holds the row lock.
CheckedIsFlushed ==
  EarlyFlush => \A c \in Claims : task[c].pc = "commit" => task[c].dirty

\* A run failed before its last attempt was failed by its owner, which is gone.
FailedOwnerGone ==
  EarlyFlush => \A r \in Runs :
     row[r].status = "failed" /\ row[r].attempts < MaxAttempts =>
       \A c \in Claims : c[1] = r /\ task[c].pc # "none" => c[2] # row[r].attempts

FlushedResults == EarlyFlush => ResultIsCurrent

IInv == /\ TypeOK
        /\ LockHoldersWork
        /\ TasksWereClaimed
        /\ UnstartedRows
        /\ OrphansExhausted
        /\ HeldIsTakeable
        /\ CheckedOwnerKeepsRow
        /\ CheckedIsFlushed
        /\ FailedOwnerGone
        /\ OutputsMatchStatus
        /\ FlushedResults
        /\ OneAttemptPerWorker
        /\ TerminalIsNotified

-----------------------------------------------------------------------------
\* What the comments of run_executor.py say, and the code does not keep.

\* The diagram of QueueWorker: no arrow leaves complete or failed.
TerminalIsFinal ==
  [][\A r \in Runs : row[r].status \in Terminal => row'[r].status = row[r].status]_vars

\* "a run whose wall clock legitimately exceeds the fixed lease window is not
\* re-claimed (by any worker) and executed twice concurrently".
OneAttemptAtATime ==
  \A c, d \in Claims :
     /\ c[1] = d[1]
     /\ task[c].pc \in {"run", "commit"}
     /\ task[d].pc \in {"run", "commit"}
     => c = d
=============================================================================
