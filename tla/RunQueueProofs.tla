--------------------------- MODULE RunQueueProofs ---------------------------
(***************************************************************************)
(* Proofs about the run queue, for every number of runs and workers, every *)
(* attempt limit, capacity and number of faults.                           *)
(***************************************************************************)
EXTENDS RunQueueProps, TLAPS

-----------------------------------------------------------------------------
\* Types.

Pcs == {"none", "load", "run", "commit", "post", "fail"}

\* A task that goes on stays a task.
LEMMA GoOnType ==
  ASSUME TypeOK, NEW c \in Claims, NEW pc \in Pcs, NEW d \in BOOLEAN, GoOn(c, pc, d)
  PROVE  task' \in [Claims -> TaskType]
<1>1. task[c] \in TaskType
  BY DEF TypeOK
<1>2. [task[c] EXCEPT !.pc = pc, !.dirty = d] \in TaskType
  BY <1>1 DEF TaskType, Pcs
<1>3. task' = [task EXCEPT ![c] = [task[c] EXCEPT !.pc = pc, !.dirty = d]]
  BY DEF GoOn
<1>4. QED
  BY <1>2, <1>3 DEF TypeOK

\* A task that ends leaves NoTask.
LEMMA EndType ==
  ASSUME TypeOK, NEW c \in Claims, End(c)
  PROVE  task' \in [Claims -> TaskType]
<1>1. NoTask \in TaskType
  BY DEF NoTask, TaskType
<1>2. QED
  BY <1>1 DEF End, TypeOK

\* Every step keeps the types.
LEMMA TypeStep == TypeOK /\ UnstartedRows /\ HeldIsTakeable /\ [Next]_vars => TypeOK'
<1> SUFFICES ASSUME TypeOK, UnstartedRows, HeldIsTakeable, [Next]_vars PROVE TypeOK'
  OBVIOUS
<1> USE DEF TypeOK, LoopPlaces, Goto
<1>1. ASSUME NEW r \in Runs, CreateRun(r) \/ LeaseLapses(r) PROVE TypeOK'
  <2>1. /\ [row[r] EXCEPT !.status = "queued"] \in RowType
        /\ [row[r] EXCEPT !.lapsed = TRUE] \in RowType
    BY DEF RowType
  <2>2. row' \in [Runs -> RowType]
    BY <1>1, <2>1 DEF CreateRun, LeaseLapses
  <2>3. QED
    BY <1>1, <2>2 DEF CreateRun, LeaseLapses
<1>2. ASSUME NEW w \in Workers, Heartbeat(w) PROVE TypeOK'
  <2>1. \A q \in Runs : [row[q] EXCEPT !.lapsed = FALSE] \in RowType
    BY DEF RowType
  <2>2. row' \in [Runs -> RowType]
    BY <1>2, <2>1 DEF Heartbeat
  <2>3. QED
    BY <1>2, <2>2 DEF Heartbeat
<1>3. ASSUME NEW w \in Workers, ReapSelect(w) PROVE TypeOK'
  BY <1>3 DEF ReapSelect, Abandoned
<1>4. ASSUME NEW w \in Workers, NEW r \in Runs, ClaimSelect(w, r) PROVE TypeOK'
  BY <1>4 DEF ClaimSelect
<1>5. ASSUME NEW w \in Workers, ReapCommit(w) PROVE TypeOK'
  <2>1. \A q \in Runs : [row[q] EXCEPT !.status = "failed", !.lapsed = FALSE] \in RowType
    BY DEF RowType, Terminal
  <2>2. row' \in [Runs -> RowType]
    BY <1>5, <2>1 DEF ReapCommit
  <2>3. notified' \in SUBSET (Runs \X Terminal)
    BY <1>5 DEF ReapCommit, Terminal
  <2>4. QED
    BY <1>5, <2>2, <2>3 DEF ReapCommit
<1>6. ASSUME NEW w \in Workers, NEW r \in Runs, TakeRow(w, r)
      PROVE  row' \in [Runs -> RowType] /\ held' \in [Workers -> SUBSET Runs]
  <2>1. row[r].attempts + 1 \in 0..MaxAttempts
    <3>1. row[r].attempts \in 0..MaxAttempts
      BY DEF RowType
    <3>2. row[r].attempts < MaxAttempts
      BY <1>6, QueueAssumption DEF TakeRow, HeldIsTakeable, Takeable, UnstartedRows
    <3>3. QED
      BY <3>1, <3>2, QueueAssumption
  <2>2. [status |-> "running", attempts |-> row[r].attempts + 1,
         worker |-> w, lapsed |-> FALSE] \in RowType
    BY <2>1 DEF RowType
  <2>3. QED
    BY <1>6, <2>2 DEF TakeRow
<1>7. ASSUME NEW w \in Workers, NEW r \in Runs, Claim(w, r) PROVE TypeOK'
  <2>1. row' \in [Runs -> RowType] /\ held' \in [Workers -> SUBSET Runs]
    BY <1>6, <1>7 DEF Claim
  <2>2. [pc |-> "load", worker |-> w, dirty |-> FALSE, retried |-> FALSE] \in TaskType
    BY DEF TaskType
  <2>3. task' \in [Claims -> TaskType]
    BY <1>7, <2>2 DEF Claim
  <2>4. QED
    BY <1>7, <2>1, <2>3 DEF Claim
<1>8. ASSUME NEW w \in Workers, NEW r \in Runs, ClaimLost(w, r) PROVE TypeOK'
  <2>1. row' \in [Runs -> RowType] /\ held' \in [Workers -> SUBSET Runs]
    BY <1>6, <1>8 DEF ClaimLost
  <2>2. faults' \in 0..MaxFaults
    BY <1>8, QueueAssumption DEF ClaimLost, Fault
  <2>3. QED
    BY <1>8, <2>1, <2>2 DEF ClaimLost
<1>9. ASSUME NEW w \in Workers,
             ClaimNothing(w) \/ Wake(w) \/ Exit(w) \/ Restart(w) \/ TickFails(w)
      PROVE  TypeOK'
  BY <1>9, QueueAssumption DEF ClaimNothing, Wake, Exit, Restart, TickFails, Fault
<1>10. ASSUME NEW c \in Claims,
             \/ Load(c) \/ Flush(c) \/ AttemptRaises(c) \/ CheckOwner(c)
             \/ CommitConflicts(c) \/ AfterCommit(c) \/ MarkRunFailedLost(c)
      PROVE  TypeOK'
  <2>1. task[c].dirty \in BOOLEAN
    BY DEF TaskType
  <2>2. task' \in [Claims -> TaskType]
    BY <1>10, <2>1, GoOnType, EndType
       DEF Load, Flush, AttemptRaises, CheckOwner, CommitConflicts, AfterCommit,
           MarkRunFailedLost, Pcs
  <2>3. faults' \in 0..MaxFaults
    <3>1. CASE MarkRunFailedLost(c)
      BY <3>1, QueueAssumption DEF MarkRunFailedLost, Fault
    <3>2. CASE ~MarkRunFailedLost(c)
      BY <1>10, <3>2 DEF Load, Flush, AttemptRaises, CheckOwner, CommitConflicts, AfterCommit
    <3>3. QED
      BY <3>1, <3>2
  <2>4. QED
    BY <1>10, <2>2, <2>3
       DEF Load, Flush, AttemptRaises, CheckOwner, CommitConflicts, AfterCommit,
           MarkRunFailedLost
<1>11. ASSUME NEW c \in Claims, RetryTransaction(c) \/ LoadFails(c) PROVE TypeOK'
  <2>1. /\ [task[c] EXCEPT !.pc = "load", !.dirty = FALSE, !.retried = TRUE] \in TaskType
        /\ [task[c] EXCEPT !.pc = "fail", !.dirty = FALSE] \in TaskType
        /\ NoTask \in TaskType
    BY DEF TaskType, NoTask
  <2>2. Unwound(task[c]) \in TaskType
    BY <2>1 DEF Unwound
  <2>3. task' \in [Claims -> TaskType]
    BY <1>11, <2>1, <2>2 DEF RetryTransaction, LoadFails
  <2>4. QED
    BY <1>11, <2>3, QueueAssumption DEF RetryTransaction, LoadFails, Fault
<1>12. ASSUME NEW c \in Claims, Commit(c) PROVE TypeOK'
  <2>1. c[1] \in Runs /\ c[2] \in 0..MaxAttempts
    BY QueueAssumption DEF Claims, Attempts
  <2>2. row' \in [Runs -> RowType]
    BY <1>12, <2>1 DEF Commit, RowType, Terminal
  <2>3. task' \in [Claims -> TaskType]
    BY <1>12, GoOnType DEF Commit, Pcs
  <2>4. notified' \in SUBSET (Runs \X Terminal)
    BY <1>12, <2>1 DEF Commit, Terminal
  <2>5. result' \in [Runs -> 0..MaxAttempts]
    BY <1>12, <2>1 DEF Commit
  <2>6. QED
    BY <1>12, <2>2, <2>3, <2>4, <2>5 DEF Commit
<1>13. ASSUME NEW c \in Claims, MarkRunFailed(c) PROVE TypeOK'
  <2>1. c[1] \in Runs
    BY DEF Claims
  <2>2. row' \in [Runs -> RowType]
    BY <1>13, <2>1 DEF MarkRunFailed, RowType, Terminal
  <2>3. task' \in [Claims -> TaskType]
    BY <1>13, EndType DEF MarkRunFailed
  <2>4. notified' \in SUBSET (Runs \X Terminal)
    BY <1>13, <2>1 DEF MarkRunFailed, Terminal
  <2>5. QED
    BY <1>13, <2>2, <2>3, <2>4 DEF MarkRunFailed
<1>14. ASSUME NEW w \in Workers, Stop(w) \/ Crash(w) PROVE TypeOK'
  <2>1. NoTask \in TaskType
    BY DEF NoTask, TaskType
  <2>2. \A c \in Claims : Unwound(task[c]) \in TaskType
    <3>1. \A c \in Claims : [task[c] EXCEPT !.pc = "fail", !.dirty = FALSE] \in TaskType
      BY DEF TaskType
    <3>2. QED
      BY <2>1, <3>1 DEF Unwound
  <2>3. task' \in [Claims -> TaskType]
    BY <1>14, <2>1, <2>2 DEF Stop, Crash
  <2>4. QED
    BY <1>14, <2>3, QueueAssumption DEF Stop, Crash, Fault
<1>15. CASE UNCHANGED vars
  BY <1>15 DEF vars
<1>16. QED
  BY <1>1, <1>2, <1>3, <1>4, <1>5, <1>7, <1>8, <1>9, <1>10, <1>11, <1>12, <1>13,
     <1>14, <1>15
     DEF Next, LoopStep, TaskStep, Disturbance

-----------------------------------------------------------------------------
\* The inductive invariant.  Most steps leave it alone for one of two reasons,
\* which the next two lemmas state.

\* A step that changes neither tasks nor who owns which row in which state, that
\* reads no orphans but abandoned rows, and that leaves locked rows alone.
LEMMA SameClaims ==
  ASSUME IInv, TypeOK', UNCHANGED <<task, result, notified>>,
         \A r \in Runs : /\ row'[r].status = row[r].status
                         /\ row'[r].attempts = row[r].attempts
                         /\ row'[r].worker = row[r].worker,
         \A w \in Workers : orphans'[w] \subseteq orphans[w] \cup Abandoned,
         \A w \in Workers : \A r \in held'[w] : r \in held[w] /\ row'[r] = row[r]
  PROVE  IInv'
<1> USE DEF IInv
<1>1. /\ LockHoldersWork' /\ CheckedIsFlushed' /\ OneAttemptPerWorker'
  BY DEF LockHoldersWork, CheckedIsFlushed, OneAttemptPerWorker
<1>2. \A c \in Claims : c[1] \in Runs
  BY DEF Claims
<1>3. TasksWereClaimed' /\ CheckedOwnerKeepsRow' /\ FailedOwnerGone'
  BY <1>2 DEF TasksWereClaimed, CheckedOwnerKeepsRow, Owns, FailedOwnerGone
<1>4. UnstartedRows' /\ OutputsMatchStatus' /\ FlushedResults' /\ TerminalIsNotified'
  BY DEF UnstartedRows, OutputsMatchStatus, FlushedResults, ResultIsCurrent,
         TerminalIsNotified
<1>5. OrphansExhausted'
  <2> SUFFICES ASSUME NEW w \in Workers, NEW r \in orphans'[w]
               PROVE  /\ row'[r].attempts >= MaxAttempts
                      /\ row'[r].status \notin {"absent", "queued"}
    BY DEF OrphansExhausted
  <2>1. r \in Runs
    BY DEF TypeOK
  <2>2. r \in orphans[w] \/ r \in Abandoned
    OBVIOUS
  <2>3. QED
    BY <2>1, <2>2 DEF OrphansExhausted, Abandoned
<1>6. HeldIsTakeable'
  BY DEF HeldIsTakeable, Takeable, Inflight, TasksOf
<1>7. QED
  BY <1>1, <1>3, <1>4, <1>5, <1>6

\* A claim selects its row and locks it.
LEMMA Selecting ==
  ASSUME IInv, TypeOK', NEW w \in Workers, NEW r \in Runs, ClaimSelect(w, r)
  PROVE  IInv'
<1> USE DEF IInv
<1>1. UNCHANGED <<row, result, notified, orphans, task>>
  BY DEF ClaimSelect
<1>2. /\ LockHoldersWork' /\ CheckedIsFlushed' /\ OneAttemptPerWorker'
      /\ TasksWereClaimed' /\ CheckedOwnerKeepsRow' /\ FailedOwnerGone'
  BY <1>1 DEF LockHoldersWork, CheckedIsFlushed, OneAttemptPerWorker, TasksWereClaimed,
     CheckedOwnerKeepsRow, Owns, FailedOwnerGone
<1>3. /\ UnstartedRows' /\ OrphansExhausted' /\ OutputsMatchStatus'
      /\ FlushedResults' /\ TerminalIsNotified'
  BY <1>1 DEF UnstartedRows, OrphansExhausted, OutputsMatchStatus, FlushedResults,
     ResultIsCurrent, TerminalIsNotified
<1>4. Takeable(r) /\ ~RowLocked(r) /\ r \notin Inflight(w)
  BY DEF ClaimSelect, Oldest, Claimable
<1>5. held'[w] = {r} /\ \A v \in Workers \ {w} : held'[v] = held[v]
  BY DEF ClaimSelect, TypeOK
<1>6. HeldIsTakeable'
  BY <1>1, <1>4, <1>5 DEF HeldIsTakeable, Takeable, RowLocked, Inflight, TasksOf
<1>7. QED
  BY <1>2, <1>3, <1>6

\* What a step may make of a task without touching the tables.
TaskMoves(c) ==
  \/ task'[c] = task[c]
  \/ task'[c] = NoTask
  \/ /\ task[c].pc # "none" /\ task'[c].pc # "none"
     /\ task'[c].worker = task[c].worker
     /\ task'[c].dirty => task'[c].pc \in {"run", "commit"}
     /\ task'[c].dirty => task[c].dirty \/ ~RowLocked(c[1])
     /\ task'[c].pc = "commit" => Owns(c) /\ (EarlyFlush => task'[c].dirty)

\* A step that only moves tasks.
LEMMA SameTables ==
  ASSUME IInv, TypeOK', UNCHANGED <<row, result, notified>>,
         \A c \in Claims : TaskMoves(c),
         \A w \in Workers : orphans'[w] \subseteq orphans[w] /\ held'[w] \subseteq held[w]
  PROVE  IInv'
<1> USE DEF IInv
<1>1. \A c \in Claims : task'[c].pc # "none" => /\ task[c].pc # "none"
                                               /\ task'[c].worker = task[c].worker
  BY DEF TaskMoves, NoTask
<1>2. LockHoldersWork' /\ CheckedIsFlushed'
  BY DEF LockHoldersWork, CheckedIsFlushed, TaskMoves, NoTask
<1>3. CheckedOwnerKeepsRow'
  BY DEF CheckedOwnerKeepsRow, TaskMoves, NoTask, Owns
<1>4. TasksWereClaimed' /\ OneAttemptPerWorker' /\ FailedOwnerGone'
  BY <1>1 DEF TasksWereClaimed, OneAttemptPerWorker, FailedOwnerGone
<1>5. /\ UnstartedRows' /\ OrphansExhausted' /\ OutputsMatchStatus'
      /\ FlushedResults' /\ TerminalIsNotified'
  BY DEF UnstartedRows, OrphansExhausted, OutputsMatchStatus, FlushedResults,
         ResultIsCurrent, TerminalIsNotified
<1>6. HeldIsTakeable'
  <2> SUFFICES ASSUME NEW w \in Workers, NEW r \in held'[w]
               PROVE  /\ Takeable(r)' /\ (r \notin Inflight(w))'
                      /\ \A a \in Attempts : ~task'[<<r, a>>].dirty
                      /\ \A v \in Workers : r \in held'[v] => v = w
    BY DEF HeldIsTakeable
  <2>1. r \in Runs /\ r \in held[w]
    BY DEF TypeOK
  <2>2. Takeable(r)' /\ \A v \in Workers : r \in held'[v] => v = w
    BY <2>1 DEF HeldIsTakeable, Takeable
  <2>3. (r \notin Inflight(w))'
    BY <1>1, <2>1 DEF HeldIsTakeable, Inflight, TasksOf
  <2>4. ASSUME NEW a \in Attempts PROVE ~task'[<<r, a>>].dirty
    <3>1. <<r, a>> \in Claims /\ <<r, a>>[1] = r
      BY <2>1 DEF Claims
    <3>2. RowLocked(r) /\ ~task[<<r, a>>].dirty
      BY <2>1 DEF RowLocked, HeldIsTakeable
    <3>3. QED
      BY <3>1, <3>2 DEF TaskMoves, NoTask
  <2>5. QED
    BY <2>2, <2>3, <2>4
<1>7. QED
  BY <1>2, <1>3, <1>4, <1>5, <1>6

\* A worker takes the row it holds: no task has it locked, and none of its own
\* tasks is on the run.  Only the granted claim may get a task.
LEMMA TakingARow ==
  ASSUME IInv, TypeOK', NEW w \in Workers, NEW r \in Runs, TakeRow(w, r),
         UNCHANGED <<result, notified, orphans>>,
         \A c \in Claims :
            \/ task'[c] = task[c]
            \/ /\ c = <<r, row[r].attempts + 1>>
               /\ task'[c] = [pc |-> "load", worker |-> w, dirty |-> FALSE, retried |-> FALSE]
  PROVE  IInv'
<1> USE DEF IInv
<1>1. /\ \/ row[r].status = "queued" \/ row[r].status = "running"
      /\ row[r].attempts < MaxAttempts
      /\ \A a \in Attempts : ~task[<<r, a>>].dirty
      /\ r \notin Inflight(w)
  BY QueueAssumption DEF TakeRow, HeldIsTakeable, Takeable, UnstartedRows
<1>2. /\ row'[r].status = "running"
      /\ row'[r].attempts = row[r].attempts + 1
      /\ row'[r].worker = w
      /\ \A q \in Runs : q # r => row'[q] = row[q]
  BY DEF TakeRow, TypeOK
<1>3. \A q \in Runs : row[q].attempts \in Nat /\ row'[q].attempts \in Nat
  BY QueueAssumption DEF TypeOK, RowType
<1>4. \A c \in Claims : c[1] \in Runs /\ c[2] \in Attempts /\ c = <<c[1], c[2]>>
  BY DEF Claims
<1>5. \A c \in Claims : c[1] = r => ~task[c].dirty
  BY <1>1, <1>4
<1>6. \A c \in Claims : c[1] = r /\ task[c].pc # "none" => task[c].worker # w
  BY <1>1, <1>4 DEF Inflight, TasksOf
<1>7. LockHoldersWork' /\ CheckedIsFlushed'
  BY DEF LockHoldersWork, CheckedIsFlushed
<1>8. TasksWereClaimed'
  <2> SUFFICES ASSUME NEW c \in Claims, task'[c].pc # "none"
               PROVE  task'[c].worker \in Workers /\ c[2] <= row'[c[1]].attempts
    BY DEF TasksWereClaimed
  <2>1. CASE task'[c] = task[c]
    <3>1. task[c].worker \in Workers /\ c[2] <= row[c[1]].attempts
      BY <2>1 DEF TasksWereClaimed
    <3>2. row[c[1]].attempts <= row'[c[1]].attempts
      BY <1>2, <1>3, <1>4
    <3>3. c[2] \in Nat
      BY <1>4, QueueAssumption DEF Attempts
    <3>4. QED
      BY <2>1, <3>1, <3>2, <3>3, <1>3, <1>4
  <2>2. CASE c = <<r, row[r].attempts + 1>> /\ task'[c].worker = w
    BY <2>2, <1>2, <1>3
  <2>3. QED
    BY <2>1, <2>2
<1>9. OneAttemptPerWorker'
  BY <1>4, <1>6 DEF OneAttemptPerWorker
<1>10. CheckedOwnerKeepsRow'
  <2> SUFFICES ASSUME NEW c \in Claims, task'[c].pc = "commit", task'[c].dirty
               PROVE  Owns(c)'
    BY DEF CheckedOwnerKeepsRow
  <2>1. task'[c] = task[c]
    OBVIOUS
  <2>2. c[1] # r
    BY <2>1, <1>5
  <2>3. QED
    BY <2>1, <2>2, <1>2, <1>4 DEF CheckedOwnerKeepsRow, Owns
<1>11. FailedOwnerGone'
  <2> SUFFICES ASSUME EarlyFlush, NEW q \in Runs, NEW c \in Claims,
                      row'[q].status = "failed", row'[q].attempts < MaxAttempts,
                      c[1] = q, task'[c].pc # "none"
               PROVE  c[2] # row'[q].attempts
    BY DEF FailedOwnerGone
  <2>1. q # r
    BY <1>2
  <2>2. QED
    BY <2>1, <1>2 DEF FailedOwnerGone
<1>12. UnstartedRows' /\ OrphansExhausted'
  <2>1. UnstartedRows'
    BY <1>2 DEF UnstartedRows
  <2>2. ASSUME NEW v \in Workers, NEW q \in orphans[v]
        PROVE  row'[q].attempts >= MaxAttempts /\ row'[q].status \notin {"absent", "queued"}
    <3>1. q \in Runs /\ row[q].attempts >= MaxAttempts
          /\ row[q].status \notin {"absent", "queued"}
      BY DEF OrphansExhausted, TypeOK
    <3>2. CASE q = r
      BY <1>2, <1>3, <3>1, <3>2, QueueAssumption
    <3>3. CASE q # r
      BY <1>2, <3>1, <3>3
    <3>4. QED
      BY <3>2, <3>3
  <2>3. QED
    BY <2>1, <2>2 DEF OrphansExhausted
<1>13. OutputsMatchStatus' /\ FlushedResults' /\ TerminalIsNotified'
  BY <1>1, <1>2 DEF OutputsMatchStatus, FlushedResults, ResultIsCurrent,
     TerminalIsNotified, Terminal
<1>14. HeldIsTakeable'
  <2>1. /\ held'[w] = {}
        /\ \A v \in Workers \ {w} : held'[v] = held[v] /\ r \notin held[v]
    BY DEF TakeRow, HeldIsTakeable, TypeOK
  <2>2. ASSUME NEW v \in Workers, NEW q \in held'[v]
        PROVE  /\ Takeable(q)' /\ (q \notin Inflight(v))'
               /\ \A a \in Attempts : ~task'[<<q, a>>].dirty
               /\ \A u \in Workers : q \in held'[u] => u = v
    <3>1. v # w /\ q # r /\ q \in Runs /\ q \in held[v]
      BY <2>1 DEF TypeOK
    <3>2. row'[q] = row[q] /\ \A c \in Claims : c[1] = q => task'[c] = task[c]
      BY <3>1, <1>2
    <3>3. Takeable(q)'
      BY <3>1, <3>2 DEF HeldIsTakeable, Takeable
    <3>4. (q \notin Inflight(v))'
      BY <3>1, <3>2 DEF HeldIsTakeable, Inflight, TasksOf
    <3>5. \A a \in Attempts : ~task'[<<q, a>>].dirty
      BY <3>1, <3>2 DEF HeldIsTakeable, Claims
    <3>6. \A u \in Workers : q \in held'[u] => u = v
      BY <2>1, <3>1 DEF HeldIsTakeable
    <3>7. QED
      BY <3>3, <3>4, <3>5, <3>6
  <2>3. QED
    BY <2>2 DEF HeldIsTakeable
<1>15. QED
  BY <1>7, <1>8, <1>9, <1>10, <1>11, <1>12, <1>13, <1>14

\* A step that writes rows of S and their tasks, without taking one, leaves the rows
\* that claims have locked alone when none of them is in S.
LEMMA OtherRows ==
  ASSUME IInv, TypeOK', UNCHANGED held, NEW S \in SUBSET Runs,
         \A w \in Workers : \A r \in held[w] : r \notin S,
         \A q \in Runs \ S : row'[q] = row[q],
         \A c \in Claims : /\ c[1] \notin S => task'[c] = task[c]
                           /\ task'[c].pc # "none" => task[c].pc # "none"
                                                       /\ task'[c].worker = task[c].worker
  PROVE  HeldIsTakeable'
<1> USE DEF IInv
<1> SUFFICES ASSUME NEW w \in Workers, NEW r \in held[w]
             PROVE  /\ Takeable(r)' /\ (r \notin Inflight(w))'
                    /\ \A a \in Attempts : ~task'[<<r, a>>].dirty
                    /\ \A v \in Workers : r \in held[v] => v = w
  BY DEF HeldIsTakeable
<1>1. r \in Runs /\ r \notin S
  BY DEF TypeOK
<1>2. row'[r] = row[r] /\ \A a \in Attempts : task'[<<r, a>>] = task[<<r, a>>]
  BY <1>1 DEF Claims
<1>3. Takeable(r)'
  BY <1>2 DEF HeldIsTakeable, Takeable
<1>4. (r \notin Inflight(w))'
  BY DEF HeldIsTakeable, Inflight, TasksOf
<1>5. QED
  BY <1>2, <1>3, <1>4 DEF HeldIsTakeable

\* The reaper writes rows that have no attempt left.
LEMMA Reaping ==
  ASSUME IInv, TypeOK', NEW w \in Workers, ReapCommit(w)
  PROVE  IInv'
<1> USE DEF IInv
<1>1. \A r \in orphans[w] : r \in Runs /\ row[r].attempts >= MaxAttempts
  BY DEF OrphansExhausted, TypeOK
<1>2. \A r \in Runs : /\ row'[r].attempts = row[r].attempts
                      /\ row'[r].worker = row[r].worker
                      /\ r \in orphans[w] => row'[r].status = "failed"
                      /\ r \notin orphans[w] => row'[r] = row[r]
  <2> SUFFICES ASSUME NEW r \in Runs
               PROVE  /\ row'[r].attempts = row[r].attempts
                      /\ row'[r].worker = row[r].worker
                      /\ r \in orphans[w] => row'[r].status = "failed"
                      /\ r \notin orphans[w] => row'[r] = row[r]
    OBVIOUS
  <2>1. row[r] \in RowType
    BY DEF TypeOK
  <2>2. row'[r] = IF r \in orphans[w]
                  THEN [row[r] EXCEPT !.status = "failed", !.lapsed = FALSE] ELSE row[r]
    BY DEF ReapCommit
  <2>3. CASE r \in orphans[w]
    BY <2>1, <2>2, <2>3 DEF RowType
  <2>4. CASE r \notin orphans[w]
    BY <2>2, <2>4
  <2>5. QED
    BY <2>3, <2>4
<1>3. \A r \in Runs : row[r].attempts \in Nat
  BY QueueAssumption DEF TypeOK, RowType
<1>4. \A c \in Claims : c[1] \in Runs
  BY DEF Claims
<1>5. UNCHANGED <<task, result>>
  BY DEF ReapCommit
<1>6. /\ LockHoldersWork' /\ CheckedIsFlushed' /\ OneAttemptPerWorker'
       /\ TasksWereClaimed' /\ CheckedOwnerKeepsRow'
  BY <1>2, <1>4, <1>5 DEF LockHoldersWork, CheckedIsFlushed, OneAttemptPerWorker,
     TasksWereClaimed, CheckedOwnerKeepsRow, Owns
<1>7. FailedOwnerGone'
  <2> SUFFICES ASSUME EarlyFlush, NEW r \in Runs, NEW c \in Claims,
                      row'[r].status = "failed", row'[r].attempts < MaxAttempts,
                      c[1] = r, task'[c].pc # "none"
               PROVE  c[2] # row'[r].attempts
    BY DEF FailedOwnerGone
  <2>1. r \notin orphans[w]
    BY <1>1, <1>2, <1>3, QueueAssumption
  <2>2. QED
    BY <2>1, <1>2, <1>5 DEF FailedOwnerGone
<1>8. UnstartedRows' /\ OrphansExhausted'
  <2>1. /\ orphans' \in [Workers -> SUBSET Runs]
        /\ \A v \in Workers : orphans'[v] \subseteq orphans[v]
    BY DEF ReapCommit, TypeOK
  <2>2. UnstartedRows'
    BY <1>2 DEF UnstartedRows
  <2>3. OrphansExhausted'
    BY <1>2, <2>1 DEF OrphansExhausted
  <2>4. QED
    BY <2>2, <2>3
<1>9. OutputsMatchStatus' /\ TerminalIsNotified'
  <2>1. \A r \in Runs : row[r].attempts < MaxAttempts => r \notin orphans[w]
    BY <1>1, <1>3, QueueAssumption
  <2>2. OutputsMatchStatus'
    BY <1>2, <1>5, <2>1 DEF OutputsMatchStatus, Terminal
  <2>3. /\ notified \subseteq notified'
        /\ \A r \in orphans[w] : <<r, "failed">> \in notified'
    BY DEF ReapCommit
  <2>4. TerminalIsNotified'
    BY <1>2, <2>3 DEF TerminalIsNotified
  <2>5. QED
    BY <2>2, <2>4
<1>10. FlushedResults'
  BY <1>2 DEF FlushedResults, ResultIsCurrent, ReapCommit
<1>11. HeldIsTakeable'
  <2>1. orphans[w] \in SUBSET Runs /\ UNCHANGED held
    BY DEF ReapCommit, TypeOK
  <2>2. \A v \in Workers : \A r \in held[v] : r \notin orphans[w]
    BY <1>1, <1>3, QueueAssumption
       DEF HeldIsTakeable, Takeable, UnstartedRows
  <2>3. QED
    BY <1>2, <1>5, <2>1, <2>2, OtherRows
<1>12. QED
  BY <1>6, <1>7, <1>8, <1>9, <1>10, <1>11

\* An attempt commits.
LEMMA Committing ==
  ASSUME IInv, TypeOK', NEW c \in Claims, Commit(c)
  PROVE  IInv'
<1> USE DEF IInv
<1> DEFINE r == c[1]
<1>1. r \in Runs /\ c[2] # 0 /\ \A d \in Claims : d[1] \in Runs
  BY QueueAssumption DEF Claims, Attempts
<1>2. /\ row'[r].status = "complete" /\ row'[r].attempts = row[r].attempts
      /\ row'[r].worker = row[r].worker
      /\ \A q \in Runs : q # r => row'[q] = row[q]
  BY <1>1 DEF Commit, TypeOK, RowType
<1>3. /\ result[r] = 0 /\ result'[r] = c[2]
      /\ \A q \in Runs : q # r => result'[q] = result[q]
  BY <1>1 DEF Commit, TypeOK
<1>4. /\ task[c].pc = "commit"
      /\ task'[c].pc \in {"post", "fail"} /\ ~task'[c].dirty
      /\ task'[c].worker = task[c].worker
      /\ \A d \in Claims : d # c => task'[d] = task[d]
  BY DEF Commit, GoOn, TypeOK, TaskType
<1>5. /\ LockHoldersWork' /\ CheckedIsFlushed' /\ OneAttemptPerWorker'
  BY <1>4 DEF LockHoldersWork, CheckedIsFlushed, OneAttemptPerWorker
<1>6. TasksWereClaimed' /\ CheckedOwnerKeepsRow'
  BY <1>1, <1>2, <1>4 DEF TasksWereClaimed, CheckedOwnerKeepsRow, Owns
<1>7. FailedOwnerGone'
  BY <1>2, <1>4 DEF FailedOwnerGone
<1>8. row[r].status \notin {"absent", "queued"}
  <2>1. c[2] <= row[r].attempts
    BY <1>4 DEF TasksWereClaimed
  <2>2. row[r].attempts # 0
    BY <2>1, QueueAssumption DEF Claims, Attempts
  <2>3. QED
    BY <1>1, <2>2 DEF UnstartedRows
<1>9. UnstartedRows' /\ OrphansExhausted'
  BY <1>1, <1>2, <1>8 DEF UnstartedRows, OrphansExhausted, Commit, TypeOK
<1>10. OutputsMatchStatus' /\ TerminalIsNotified'
  BY <1>1, <1>2, <1>3 DEF OutputsMatchStatus, TerminalIsNotified, Terminal, Commit
<1>11. FlushedResults'
  <2>1. EarlyFlush => c[2] = row[r].attempts
    BY <1>4 DEF CheckedIsFlushed, CheckedOwnerKeepsRow, Owns
  <2>2. QED
    BY <1>2, <1>3, <2>1 DEF FlushedResults, ResultIsCurrent
<1>12. HeldIsTakeable'
  <2>1. \A w \in Workers : \A q \in held[w] : q \notin {r}
    BY <1>1 DEF Commit, HeldIsTakeable, RowLocked, Claims
  <2>2. UNCHANGED held /\ {r} \in SUBSET Runs
    BY <1>1 DEF Commit
  <2>3. QED
    BY <1>1, <1>2, <1>4, <2>1, <2>2, OtherRows
<1>13. QED
  BY <1>5, <1>6, <1>7, <1>9, <1>10, <1>11, <1>12

\* The owner of a claim fails its run and is gone.
LEMMA Failing ==
  ASSUME IInv, TypeOK', NEW c \in Claims, MarkRunFailed(c),
         row[c[1]].status \notin Terminal, Owns(c)
  PROVE  IInv'
<1> USE DEF IInv
<1> DEFINE r == c[1]
<1>1. r \in Runs /\ \A d \in Claims : d[1] \in Runs /\ d = <<d[1], d[2]>>
  BY DEF Claims
<1>2. /\ row'[r].status = "failed" /\ row'[r].attempts = row[r].attempts
      /\ row'[r].worker = row[r].worker
      /\ \A q \in Runs : q # r => row'[q] = row[q]
  BY <1>1 DEF MarkRunFailed, TypeOK, RowType
<1>3. /\ task[c].pc = "fail" /\ task'[c] = NoTask
      /\ \A d \in Claims : d # c => task'[d] = task[d]
  BY DEF MarkRunFailed, End, TypeOK
<1>4. result' = result /\ result[r] = 0
  BY <1>1 DEF MarkRunFailed, OutputsMatchStatus
<1>5. /\ LockHoldersWork' /\ CheckedIsFlushed' /\ OneAttemptPerWorker'
  BY <1>3 DEF LockHoldersWork, CheckedIsFlushed, OneAttemptPerWorker, NoTask
<1>6. TasksWereClaimed' /\ CheckedOwnerKeepsRow'
  BY <1>1, <1>2, <1>3 DEF TasksWereClaimed, CheckedOwnerKeepsRow, Owns, NoTask
<1>7. FailedOwnerGone'
  <2> SUFFICES ASSUME EarlyFlush, NEW q \in Runs, NEW d \in Claims,
                      row'[q].status = "failed", row'[q].attempts < MaxAttempts,
                      d[1] = q, task'[d].pc # "none"
               PROVE  d[2] # row'[q].attempts
    BY DEF FailedOwnerGone
  <2>1. CASE q # r
    BY <2>1, <1>2, <1>3 DEF FailedOwnerGone, NoTask
  <2>2. CASE q = r
    <3>1. d # c
      BY <1>3 DEF NoTask
    <3>2. c[2] = row[r].attempts
      BY DEF Owns
    <3>3. QED
      BY <2>2, <3>1, <3>2, <1>1, <1>2
  <2>3. QED
    BY <2>1, <2>2
<1>8. row[r].status \notin {"absent", "queued"}
  <2>1. c[2] <= row[r].attempts
    BY <1>3 DEF TasksWereClaimed
  <2>2. row[r].attempts # 0
    BY <2>1, QueueAssumption DEF Claims, Attempts
  <2>3. QED
    BY <1>1, <2>2 DEF UnstartedRows
<1>9. UnstartedRows' /\ OrphansExhausted'
  BY <1>1, <1>2, <1>8 DEF UnstartedRows, OrphansExhausted, MarkRunFailed, TypeOK
<1>10. OutputsMatchStatus' /\ FlushedResults' /\ TerminalIsNotified'
  BY <1>1, <1>2, <1>4 DEF OutputsMatchStatus, FlushedResults, ResultIsCurrent,
     TerminalIsNotified, Terminal, MarkRunFailed
<1>11. HeldIsTakeable'
  <2>1. \A w \in Workers : \A q \in held[w] : q \notin {r}
    BY DEF MarkRunFailed, RowLocked
  <2>2. UNCHANGED held /\ {r} \in SUBSET Runs
    BY <1>1 DEF MarkRunFailed
  <2>3. \A d \in Claims : /\ d[1] \notin {r} => task'[d] = task[d]
                          /\ task'[d].pc # "none" => task[d].pc # "none"
                                                      /\ task'[d].worker = task[d].worker
    BY <1>3 DEF NoTask
  <2>4. \A q \in Runs \ {r} : row'[q] = row[q]
    BY <1>2
  <2>5. QED
    BY <2>1, <2>2, <2>3, <2>4, OtherRows
<1>12. QED
  BY <1>5, <1>6, <1>7, <1>9, <1>10, <1>11

\* A request creates a run.
LEMMA Creating ==
  ASSUME IInv, TypeOK', NEW r \in Runs, CreateRun(r)
  PROVE  IInv'
<1> USE DEF IInv
<1>1. /\ row[r].status = "absent" /\ row'[r].status = "queued"
      /\ row'[r].attempts = row[r].attempts /\ row'[r].worker = row[r].worker
      /\ \A q \in Runs : q # r => row'[q] = row[q]
  BY DEF CreateRun, TypeOK, RowType
<1>2. UNCHANGED <<task, result, notified, orphans, held>>
  BY DEF CreateRun
<1>3. \A c \in Claims : c[1] \in Runs
  BY DEF Claims
<1>4. /\ LockHoldersWork' /\ CheckedIsFlushed' /\ OneAttemptPerWorker'
      /\ TasksWereClaimed' /\ CheckedOwnerKeepsRow'
  BY <1>1, <1>2, <1>3 DEF LockHoldersWork, CheckedIsFlushed, OneAttemptPerWorker,
     TasksWereClaimed, CheckedOwnerKeepsRow, Owns
<1>5. FailedOwnerGone' /\ UnstartedRows' /\ OrphansExhausted'
  BY <1>1, <1>2, <1>3 DEF FailedOwnerGone, UnstartedRows, OrphansExhausted, TypeOK
<1>6. OutputsMatchStatus' /\ FlushedResults' /\ TerminalIsNotified'
  BY <1>1, <1>2 DEF OutputsMatchStatus, FlushedResults, ResultIsCurrent,
     TerminalIsNotified, Terminal
<1>7. HeldIsTakeable'
  <2>1. \A w \in Workers : \A q \in held[w] : q \notin {r}
    BY <1>1 DEF HeldIsTakeable, Takeable
  <2>2. QED
    BY <1>1, <1>2, <2>1, OtherRows
<1>8. QED
  BY <1>4, <1>5, <1>6, <1>7

\* Every step keeps the invariant.
LEMMA InvariantStep == IInv /\ [Next]_vars => IInv'
<1> SUFFICES ASSUME IInv, [Next]_vars PROVE IInv'
  OBVIOUS
<1>1. TypeOK'
  BY TypeStep DEF IInv
<1>2. ASSUME NEW r \in Runs, CreateRun(r) PROVE IInv'
  BY <1>1, <1>2, Creating
<1>3. ASSUME NEW r \in Runs, LeaseLapses(r) PROVE IInv'
  <2>1. \A q \in Runs : /\ row'[q].status = row[q].status
                        /\ row'[q].attempts = row[q].attempts
                        /\ row'[q].worker = row[q].worker
    BY <1>3 DEF LeaseLapses, IInv, TypeOK, RowType
  <2>2. \A w \in Workers : \A q \in held[w] : row'[q] = row[q]
    BY <1>3 DEF LeaseLapses, IInv, TypeOK, HeldIsTakeable, Takeable
  <2>3. QED
    BY <1>1, <1>3, <2>1, <2>2, SameClaims DEF LeaseLapses
<1>4. ASSUME NEW w \in Workers, Heartbeat(w) PROVE IInv'
  <2>1. \A q \in Runs : /\ row'[q].status = row[q].status
                        /\ row'[q].attempts = row[q].attempts
                        /\ row'[q].worker = row[q].worker
    <3>1. \A q \in Runs : row[q] \in RowType
      BY DEF IInv, TypeOK
    <3>2. \A q \in Runs : \/ row'[q] = row[q]
                         \/ row'[q] = [row[q] EXCEPT !.lapsed = FALSE]
      BY <1>4 DEF Heartbeat
    <3>3. QED
      BY <3>1, <3>2 DEF RowType
  <2>2. ASSUME NEW v \in Workers, NEW q \in held[v] PROVE row'[q] = row[q]
    <3>1. q \in Runs /\ RowLocked(q)
      BY DEF IInv, TypeOK, RowLocked
    <3>2. q \notin Beatable(w)
      BY <1>4, <3>1 DEF Heartbeat, LoopWaits
    <3>3. QED
      BY <1>4, <3>1, <3>2 DEF Heartbeat
  <2>3. QED
    BY <1>1, <1>4, <2>1, <2>2, SameClaims DEF Heartbeat
<1>5. ASSUME NEW w \in Workers, ReapSelect(w) PROVE IInv'
  <2>1. \A v \in Workers : orphans'[v] \subseteq orphans[v] \cup Abandoned
    BY <1>5 DEF ReapSelect, IInv, TypeOK
  <2>2. QED
    BY <1>1, <1>5, <2>1, SameClaims DEF ReapSelect
<1>6. ASSUME NEW w \in Workers, ReapCommit(w) PROVE IInv'
  BY <1>1, <1>6, Reaping
<1>7. ASSUME NEW w \in Workers, NEW r \in Runs, ClaimSelect(w, r) PROVE IInv'
  BY <1>1, <1>7, Selecting
<1>8. ASSUME NEW w \in Workers, NEW r \in Runs, Claim(w, r) PROVE IInv'
  <2>1. TakeRow(w, r) /\ UNCHANGED <<result, notified, orphans>>
    BY <1>8 DEF Claim
  <2>2. \A c \in Claims :
            \/ task'[c] = task[c]
            \/ /\ c = <<r, row[r].attempts + 1>>
               /\ task'[c] = [pc |-> "load", worker |-> w, dirty |-> FALSE, retried |-> FALSE]
    BY <1>8 DEF Claim, IInv, TypeOK
  <2>3. QED
    BY <1>1, <2>1, <2>2, TakingARow
<1>9. ASSUME NEW w \in Workers, NEW r \in Runs, ClaimLost(w, r) PROVE IInv'
  <2>1. TakeRow(w, r) /\ UNCHANGED <<result, notified, orphans, task>>
    BY <1>9 DEF ClaimLost
  <2>2. QED
    BY <1>1, <2>1, TakingARow
<1>10. ASSUME NEW w \in Workers,
             ClaimNothing(w) \/ Wake(w) \/ Exit(w) \/ Restart(w) \/ TickFails(w)
      PROVE  IInv'
  <2>1. UNCHANGED <<row, task, result, notified>>
    BY <1>10 DEF ClaimNothing, Wake, Exit, Restart, TickFails
  <2>2. \A v \in Workers : orphans'[v] \subseteq orphans[v] \cup Abandoned
    BY <1>10 DEF ClaimNothing, Wake, Exit, Restart, TickFails, IInv, TypeOK
  <2>3. \A v \in Workers : held'[v] \subseteq held[v]
    BY <1>10 DEF ClaimNothing, Wake, Exit, Restart, TickFails, IInv, TypeOK
  <2>4. QED
    BY <1>1, <2>1, <2>2, <2>3, SameClaims
<1>11. ASSUME NEW c \in Claims,
              \/ Load(c) \/ Flush(c) \/ RetryTransaction(c) \/ AttemptRaises(c)
              \/ CheckOwner(c) \/ CommitConflicts(c) \/ AfterCommit(c)
              \/ MarkRunFailedLost(c) \/ LoadFails(c)
       PROVE  IInv'
  <2>1. UNCHANGED <<row, result, notified, orphans, held>>
    BY <1>11 DEF Load, Flush, RetryTransaction, AttemptRaises, CheckOwner,
       CommitConflicts, AfterCommit, MarkRunFailedLost, LoadFails
  <2>2. \A d \in Claims : d # c => task'[d] = task[d]
    BY <1>11 DEF Load, Flush, RetryTransaction, AttemptRaises, CheckOwner,
       CommitConflicts, AfterCommit, MarkRunFailedLost, LoadFails, GoOn, End, IInv, TypeOK
  <2>3. TaskMoves(c)
    <3>1. task[c] \in TaskType
      BY DEF IInv, TypeOK
    <3>2. /\ task[c].pc # "none"
          /\ \/ task'[c] = NoTask
             \/ \E pc \in Pcs : task'[c] = [task[c] EXCEPT !.pc = pc, !.dirty = FALSE]
                               /\ pc \in {"load", "run", "fail"}
             \/ task'[c] = [task[c] EXCEPT !.pc = "load", !.dirty = FALSE, !.retried = TRUE]
             \/ /\ task'[c] = [task[c] EXCEPT !.pc = "run", !.dirty = TRUE]
                /\ ~RowLocked(c[1])
             \/ /\ task'[c] = [task[c] EXCEPT !.pc = "commit", !.dirty = task[c].dirty]
                /\ Owns(c) /\ (EarlyFlush => task[c].dirty)
      BY <1>11 DEF Load, Flush, RetryTransaction, AttemptRaises, CheckOwner,
         CommitConflicts, AfterCommit, MarkRunFailedLost, LoadFails, Unwound, GoOn, End,
         IInv, TypeOK, Pcs
    <3>3. QED
      BY <3>1, <3>2 DEF TaskMoves, TaskType, Pcs
  <2>4. QED
    BY <1>1, <2>1, <2>2, <2>3, SameTables DEF TaskMoves
<1>12. ASSUME NEW c \in Claims, Commit(c) PROVE IInv'
  BY <1>1, <1>12, Committing
<1>13. ASSUME NEW c \in Claims, MarkRunFailed(c) PROVE IInv'
  <2>1. CASE row[c[1]].status \notin Terminal /\ Owns(c)
    BY <1>1, <1>13, <2>1, Failing
  <2>2. CASE ~(row[c[1]].status \notin Terminal /\ Owns(c))
    <3>1. UNCHANGED <<row, result, notified, orphans, held>>
      BY <1>13, <2>2 DEF MarkRunFailed
    <3>2. \A d \in Claims : TaskMoves(d)
      BY <1>13 DEF MarkRunFailed, End, TaskMoves, IInv, TypeOK
    <3>3. QED
      BY <1>1, <3>1, <3>2, SameTables
  <2>3. QED
    BY <2>1, <2>2
<1>14. ASSUME NEW w \in Workers, Stop(w) \/ Crash(w) PROVE IInv'
  <2>1. UNCHANGED <<row, result, notified>>
    BY <1>14 DEF Stop, Crash
  <2>2. \A v \in Workers : orphans'[v] \subseteq orphans[v] /\ held'[v] \subseteq held[v]
    BY <1>14 DEF Stop, Crash, IInv, TypeOK
  <2>3. \A c \in Claims : TaskMoves(c)
    <3>1. \A c \in Claims : task[c] \in TaskType
      BY DEF IInv, TypeOK
    <3>2. \A c \in Claims : \/ task'[c] = task[c] \/ task'[c] = NoTask
                           \/ /\ task[c].pc # "none"
                              /\ task'[c] = [task[c] EXCEPT !.pc = "fail", !.dirty = FALSE]
      BY <1>14 DEF Stop, Crash, Unwound, TasksOf
    <3>3. QED
      BY <3>1, <3>2 DEF TaskMoves, TaskType
  <2>4. QED
    BY <1>1, <2>1, <2>2, <2>3, SameTables
<1>15. CASE UNCHANGED vars
  BY <1>1, <1>15, SameClaims DEF vars
<1>16. QED
  BY <1>2, <1>3, <1>4, <1>5, <1>6, <1>7, <1>8, <1>9, <1>10, <1>11, <1>12, <1>13,
     <1>14, <1>15
     DEF Next, LoopStep, TaskStep, Disturbance

LEMMA InvariantInit == Init => IInv
<1> SUFFICES ASSUME Init PROVE IInv
  OBVIOUS
<1>1. [status |-> "absent", attempts |-> 0, worker |-> NoWorker, lapsed |-> FALSE]
        \in RowType
  BY QueueAssumption DEF RowType
<1>2. NoTask \in TaskType
  BY DEF NoTask, TaskType
<1>3. TypeOK
  BY <1>1, <1>2, QueueAssumption DEF Init, TypeOK, LoopPlaces
<1>4. \A c \in Claims : task[c].pc = "none" /\ ~task[c].dirty
  BY DEF Init, NoTask
<1>5. \A r \in Runs : row[r].status = "absent" /\ row[r].attempts = 0 /\ result[r] = 0
  BY DEF Init
<1>6. QED
  BY <1>3, <1>4, <1>5
     DEF IInv, LockHoldersWork, TasksWereClaimed, UnstartedRows, OrphansExhausted,
         HeldIsTakeable, CheckedOwnerKeepsRow, CheckedIsFlushed, FailedOwnerGone, OutputsMatchStatus,
         FlushedResults, ResultIsCurrent, OneAttemptPerWorker,
         TerminalIsNotified, Terminal, Init

-----------------------------------------------------------------------------
\* The theorems.

\* The invariant is inductive: it holds in every reachable state.
THEOREM Invariant == Spec => []IInv
BY InvariantInit, InvariantStep, PTL DEF Spec

\* Every variable keeps its type.  In particular no run is ever claimed more
\* than MaxAttempts times, whatever crashes and whichever claims are lost.
THEOREM TypeCorrect == Spec => []TypeOK
BY Invariant, PTL DEF IInv

\* An attempt that flushed and passed the owner check still owns the row when
\* it commits: the check needs no lock of its own.
THEOREM OwnerKeepsRow == Spec => []CheckedOwnerKeepsRow
BY Invariant, PTL DEF IInv

\* _inflight_ids does its work: no worker executes a run twice at once.
THEOREM NeverTwiceOnOneWorker == Spec => []OneAttemptPerWorker
BY Invariant, PTL DEF IInv

\* Every terminal row has been notified with the status it has.
THEOREM AnalystIsTold == Spec => []TerminalIsNotified
BY Invariant, PTL DEF IInv

\* When every attempt flushes before it ends, only the attempt that holds the
\* claim publishes outputs.
THEOREM ResultsAreFenced ==
  ASSUME EarlyFlush PROVE Spec => []ResultIsCurrent
<1>1. IInv => ResultIsCurrent
  BY DEF IInv, FlushedResults
<1>2. QED
  BY <1>1, Invariant, PTL

\* Status and outputs agree until the last permitted attempt, whether attempts
\* flush before they end or not (execute_run_by_id, _mark_run_failed, _reap_orphans).
THEOREM StatusTellsOutputs == Spec => []OutputsMatchStatus
BY Invariant, PTL DEF IInv

\* Before the attempts are used up, only the owner of the claim fails a run.
THEOREM FailureIsOwned == Spec => FailedByOwner
<1> DEFINE Owned ==
      \A r \in Runs :
        /\ row[r].status = "running" /\ row'[r].status = "failed"
        /\ row[r].attempts < MaxAttempts
        => \E c \in Claims : c[1] = r /\ task[c].pc = "fail" /\ Owns(c)
<1>1. IInv /\ [Next]_vars => [Owned]_vars
  <2> SUFFICES ASSUME IInv, [Next]_vars,
                      NEW r \in Runs,
                      row[r].status = "running", row'[r].status = "failed",
                      row[r].attempts < MaxAttempts
               PROVE  \E c \in Claims : c[1] = r /\ task[c].pc = "fail" /\ Owns(c)
    OBVIOUS
  <2>1. row[r] \in RowType /\ row[r].attempts \in Nat
    BY QueueAssumption DEF IInv, TypeOK, RowType
  <2>2. row'[r] # row[r]
    OBVIOUS
  <2>3. ASSUME NEW w \in Workers PROVE ~ReapCommit(w)
    <3> SUFFICES ASSUME ReapCommit(w) PROVE FALSE
      OBVIOUS
    <3>1. r \in orphans[w]
      BY <2>2 DEF ReapCommit
    <3>2. QED
      BY <3>1, <2>1, QueueAssumption DEF IInv, OrphansExhausted
  <2>4. ASSUME NEW w \in Workers PROVE ~Heartbeat(w)
    <3>1. Heartbeat(w) => \/ row'[r] = row[r]
                          \/ row'[r] = [row[r] EXCEPT !.lapsed = FALSE]
      BY DEF Heartbeat
    <3>2. QED
      BY <3>1, <2>1 DEF RowType
  <2>5. ASSUME NEW q \in Runs PROVE ~CreateRun(q) /\ ~LeaseLapses(q)
    BY <2>1 DEF CreateRun, LeaseLapses, IInv, TypeOK, RowType
  <2>6. ASSUME NEW w \in Workers, NEW q \in Runs PROVE ~TakeRow(w, q)
    BY <2>1 DEF TakeRow, IInv, TypeOK, RowType
  <2>7. ASSUME NEW c \in Claims PROVE ~Commit(c)
    <3>1. Commit(c) => row'[r].status \in {"complete", row[r].status}
      BY <2>1 DEF Commit, IInv, TypeOK, RowType
    <3>2. QED
      BY <3>1
  <2>8. PICK c \in Claims : MarkRunFailed(c)
    BY <2>2, <2>3, <2>4, <2>5, <2>6, <2>7
       DEF Next, LoopStep, TaskStep, Disturbance, ReapSelect, ClaimSelect, Claim, ClaimLost,
           ClaimNothing, Wake, Exit, Restart, TickFails, Stop, Crash, Load, Flush,
           RetryTransaction, AttemptRaises, CheckOwner, CommitConflicts, AfterCommit,
           MarkRunFailedLost, LoadFails, vars
  <2>9. c[1] = r
    BY <2>2, <2>8 DEF MarkRunFailed, IInv, TypeOK
  <2>10. task[c].pc = "fail" /\ Owns(c)
    BY <2>2, <2>8 DEF MarkRunFailed
  <2>11. QED
    BY <2>9, <2>10
<1>2. QED
  BY <1>1, Invariant, PTL DEF Spec, FailedByOwner

\* Only five actions write a status or an attempts count.
LEMMA WritersOfStatus ==
  ASSUME IInv, [Next]_vars
  PROVE  \/ \E r \in Runs : CreateRun(r)
         \/ \E w \in Workers : ReapCommit(w) \/ \E r \in Runs : TakeRow(w, r)
         \/ \E c \in Claims : Commit(c) \/ MarkRunFailed(c)
         \/ \A r \in Runs : /\ row'[r].status = row[r].status
                            /\ row'[r].attempts = row[r].attempts
<1> DEFINE Same == \A r \in Runs : /\ row'[r].status = row[r].status
                                   /\ row'[r].attempts = row[r].attempts
<1>1. \A r \in Runs : row[r] \in RowType
  BY DEF IInv, TypeOK
<1>2. ASSUME NEW w \in Workers, Heartbeat(w) PROVE Same
  <2>1. \A r \in Runs : \/ row'[r] = row[r]
                        \/ row'[r] = [row[r] EXCEPT !.lapsed = FALSE]
    BY <1>2 DEF Heartbeat
  <2>2. QED
    BY <1>1, <2>1 DEF RowType
<1>3. ASSUME NEW r \in Runs, LeaseLapses(r) PROVE Same
  BY <1>1, <1>3 DEF LeaseLapses, IInv, TypeOK, RowType
<1>4. row' = row => Same
  OBVIOUS
<1>5. QED
  BY <1>2, <1>3, <1>4
     DEF Next, LoopStep, TaskStep, Disturbance, ReapSelect, ClaimSelect, Claim, ClaimLost,
         ClaimNothing, Wake, Exit, Restart, TickFails, Stop, Crash, Load, Flush,
         RetryTransaction, AttemptRaises, CheckOwner, CommitConflicts, AfterCommit,
         MarkRunFailedLost, LoadFails, vars

\* When every attempt flushes before it ends, a terminal run stays terminal,
\* and its outcome is final unless the run has used all its attempts.
THEOREM OutcomeIsStable ==
  ASSUME EarlyFlush PROVE Spec => OutcomeStays
<1> DEFINE Stays ==
      \A r \in Runs : row[r].status \in Terminal =>
        /\ row'[r].status \in Terminal
        /\ row[r].attempts < MaxAttempts => row'[r].status = row[r].status
<1>1. IInv /\ [Next]_vars => [Stays]_vars
  <2> SUFFICES ASSUME IInv, [Next]_vars,
                      NEW r \in Runs, row[r].status \in Terminal
               PROVE  /\ row'[r].status \in Terminal
                      /\ row[r].attempts < MaxAttempts => row'[r].status = row[r].status
    OBVIOUS
  <2>1. row[r] \in RowType /\ row[r].attempts \in Nat
    BY QueueAssumption DEF IInv, TypeOK, RowType
  <2>2. ASSUME NEW q \in Runs, CreateRun(q) PROVE row'[r] = row[r]
    BY <2>2 DEF CreateRun, IInv, TypeOK, Terminal
  <2>3. ASSUME NEW w \in Workers, NEW q \in Runs, TakeRow(w, q) PROVE row'[r] = row[r]
    BY <2>3 DEF TakeRow, HeldIsTakeable, Takeable, IInv, TypeOK, Terminal
  <2>4. ASSUME NEW w \in Workers, ReapCommit(w)
        PROVE  row'[r] = row[r] \/ (row'[r].status = "failed" /\ row[r].attempts >= MaxAttempts)
    <3>1. CASE r \in orphans[w]
      <4>1. row'[r] = [row[r] EXCEPT !.status = "failed", !.lapsed = FALSE]
        BY <2>4, <3>1 DEF ReapCommit
      <4>2. QED
        BY <3>1, <4>1, <2>1 DEF IInv, OrphansExhausted, RowType
    <3>2. CASE r \notin orphans[w]
      BY <2>4, <3>2 DEF ReapCommit
    <3>3. QED
      BY <3>1, <3>2
  <2>5. ASSUME NEW c \in Claims, Commit(c)
        PROVE  row'[r] = row[r] \/ (row'[r].status = "complete" /\ row[r].attempts >= MaxAttempts)
    <3>1. CASE c[1] = r
      <4>1. row'[r].status = "complete"
        BY <2>5, <3>1 DEF Commit, IInv, TypeOK, RowType
      <4>2. row[r].status = "failed"
        BY <2>5, <3>1 DEF Commit, IInv, OutputsMatchStatus, Terminal
      <4>3. task[c].pc = "commit" /\ c[2] = row[r].attempts
        BY <2>5, <3>1, EarlyFlush
           DEF Commit, IInv, CheckedIsFlushed, CheckedOwnerKeepsRow, Owns
      <4>4. ~(row[r].attempts < MaxAttempts)
        BY <3>1, <4>2, <4>3, EarlyFlush DEF IInv, FailedOwnerGone
      <4>5. QED
        BY <4>1, <4>4, <2>1, QueueAssumption
    <3>2. CASE c[1] # r
      BY <2>5, <3>2 DEF Commit, IInv, TypeOK
    <3>3. QED
      BY <3>1, <3>2
  <2>6. ASSUME NEW c \in Claims, MarkRunFailed(c) PROVE row'[r] = row[r]
    BY <2>6 DEF MarkRunFailed, IInv, TypeOK
  <2>7. QED
    BY <2>1, <2>2, <2>3, <2>4, <2>5, <2>6, WritersOfStatus, QueueAssumption DEF Terminal
<1>2. QED
  BY <1>1, Invariant, PTL DEF Spec, OutcomeStays

\* What a claim has selected and locked stays as it was until it commits, is
\* locked by no attempt, and belongs to one claim (_claim_one, FOR UPDATE SKIP
\* LOCKED): it is never granted on a row that has moved on.
THEOREM ClaimsAreExclusive == Spec => []HeldIsTakeable
BY Invariant, PTL DEF IInv

\* A queued run is passed over only while another worker's claim has it locked:
\* no attempt has flushed it and no worker executes it.
THEOREM PassedOnlyIfClaimed == Spec => PassesOnlyClaimed
<1> DEFINE InTurn ==
      \A w \in Workers : \A r \in held'[w] \ held[w] : \A q \in Runs :
        q < r /\ row[r].status = "queued" /\ row[q].status = "queued"
        => \E v \in Workers \ {w} : q \in held[v]
<1>1. IInv /\ [Next]_vars => [InTurn]_vars
  <2> SUFFICES ASSUME IInv, [Next]_vars,
                      NEW w \in Workers, NEW r \in held'[w] \ held[w], NEW q \in Runs,
                      q < r, row[q].status = "queued"
               PROVE  \E v \in Workers \ {w} : q \in held[v]
    OBVIOUS
  <2>1. \A c \in Claims : c[1] = q => task[c].pc = "none" /\ ~task[c].dirty
    <3> SUFFICES ASSUME NEW c \in Claims, c[1] = q, task[c].pc # "none" PROVE FALSE
      BY DEF IInv, LockHoldersWork
    <3>1. c[2] <= row[q].attempts /\ row[q].attempts = 0
      BY DEF IInv, TasksWereClaimed, UnstartedRows
    <3>2. QED
      BY <3>1, QueueAssumption DEF Claims, Attempts
  <2>2. PICK v \in Workers, p \in Runs : ClaimSelect(v, p)
    <3>1. held \in [Workers -> SUBSET Runs]
      BY DEF IInv, TypeOK
    <3>2. QED
      BY <3>1
         DEF Next, LoopStep, TaskStep, Disturbance, CreateRun, LeaseLapses, Heartbeat,
             ReapSelect, ReapCommit, TakeRow, Claim, ClaimLost, ClaimNothing, Wake, Exit,
             Restart, TickFails, Stop, Crash, Load, Flush, RetryTransaction,
             AttemptRaises, CheckOwner, Commit, CommitConflicts, AfterCommit,
             MarkRunFailed, MarkRunFailedLost, LoadFails, vars
  <2>3. v = w /\ p = r
    BY <2>2 DEF ClaimSelect, IInv, TypeOK
  <2>4. q \notin Inflight(w) /\ Takeable(q)
    BY <2>1 DEF Inflight, TasksOf, Takeable
  <2>5. q \notin Claimable(w)
    <3>1. q \in Claimable(w) => r <= q
      BY <2>2, <2>3 DEF ClaimSelect, Oldest
    <3>2. QED
      BY <3>1, <2>2, <2>3, QueueAssumption DEF Runs
  <2>6. RowLocked(q)
    BY <2>4, <2>5 DEF Claimable
  <2>7. PICK u \in Workers : q \in held[u]
    BY <2>1, <2>6 DEF RowLocked, Claims
  <2>8. u # w
    BY <2>2, <2>3, <2>7 DEF ClaimSelect
  <2>9. QED
    BY <2>7, <2>8
<1>2. QED
  BY <1>1, Invariant, PTL DEF Spec, PassesOnlyClaimed

-----------------------------------------------------------------------------
\* The queue implements RetryQueue.

\* A step in which some started or terminal runs become or stay terminal.
LEMMA SettleStep ==
  ASSUME NEW S \in SUBSET Runs,
         \A r \in S : row[r].status \notin {"absent", "queued"} /\ row'[r].status \in Terminal,
         \A r \in Runs \ S : row'[r].status = row[r].status,
         \A r \in Runs : row'[r].attempts = row[r].attempts
  PROVE  Promise!Settle(S)
BY DEF Promise!Settle, PhaseOf, Terminal

\* Every behaviour of the queue keeps the promise of RetryQueue: a run is taken
\* at most MaxAttempts times, in turn, and never again once it is settled.
THEOREM QueueKeepsPromise == Spec => KeepsPromise
<1>1. Init => Promise!RetryInit
  BY DEF Init, Promise!RetryInit, PhaseOf
<1>2. IInv /\ [Next]_vars => [Promise!RetryNext]_(Promise!retryVars)
  <2> SUFFICES ASSUME IInv, [Next]_vars
               PROVE  Promise!RetryNext \/ UNCHANGED Promise!retryVars
    OBVIOUS
  <2>1. \A r \in Runs : row[r] \in RowType
    BY DEF IInv, TypeOK
  <2>2. ASSUME NEW r \in Runs, CreateRun(r) PROVE Promise!Submit(r)
    BY <2>1, <2>2 DEF CreateRun, Promise!Submit, PhaseOf, IInv, TypeOK, RowType
  <2>3. ASSUME NEW w \in Workers, NEW r \in Runs, TakeRow(w, r) PROVE Promise!Take(r)
    <3>1. row[r].status \in {"queued", "running"} /\ row[r].attempts < MaxAttempts
      BY <2>3, QueueAssumption DEF TakeRow, HeldIsTakeable, Takeable, IInv, UnstartedRows
    <3>2. /\ row'[r].status = "running" /\ row'[r].attempts = row[r].attempts + 1
          /\ \A q \in Runs : q # r => row'[q] = row[q]
      BY <2>3 DEF TakeRow, IInv, TypeOK
    <3>3. QED
      BY <3>1, <3>2 DEF Promise!Take, PhaseOf
  <2>4. ASSUME NEW w \in Workers, ReapCommit(w) PROVE Promise!Settle(orphans[w])
    <3>1. orphans[w] \in SUBSET Runs
      BY DEF IInv, TypeOK
    <3>2. \A r \in orphans[w] : row[r].status \notin {"absent", "queued"}
      BY DEF IInv, OrphansExhausted
    <3>3. \A r \in Runs :
            row'[r] = IF r \in orphans[w]
                      THEN [row[r] EXCEPT !.status = "failed", !.lapsed = FALSE]
                      ELSE row[r]
      BY <2>4 DEF ReapCommit
    <3>4. \A r \in Runs : /\ row'[r].attempts = row[r].attempts
                          /\ r \in orphans[w] => row'[r].status = "failed"
                          /\ r \notin orphans[w] => row'[r].status = row[r].status
      BY <2>1, <3>3 DEF RowType
    <3>5. QED
      BY <3>1, <3>2, <3>4, SettleStep DEF Terminal
  <2>5. ASSUME NEW c \in Claims, Commit(c) \/ MarkRunFailed(c), row' # row
        PROVE  Promise!Settle({c[1]})
    <3>1. c[1] \in Runs
      BY DEF Claims
    <3>2. task[c].pc # "none"
      BY <2>5 DEF Commit, MarkRunFailed
    <3>3. row[c[1]].status \notin {"absent", "queued"}
      <4>1. c[2] <= row[c[1]].attempts
        BY <3>2 DEF IInv, TasksWereClaimed
      <4>2. row[c[1]].attempts # 0
        BY <4>1, QueueAssumption DEF Claims, Attempts
      <4>3. QED
        BY <3>1, <4>2 DEF IInv, UnstartedRows
    <3>4. /\ row'[c[1]].status \in Terminal
          /\ row'[c[1]].attempts = row[c[1]].attempts
          /\ \A q \in Runs : q # c[1] => row'[q] = row[q]
      <4>1. CASE Commit(c)
        BY <2>1, <4>1, <3>1 DEF Commit, RowType, Terminal, IInv, TypeOK
      <4>2. CASE MarkRunFailed(c)
        BY <2>1, <2>5, <4>2, <3>1 DEF MarkRunFailed, RowType, Terminal, IInv, TypeOK
      <4>3. QED
        BY <2>5, <4>1, <4>2
    <3>5. QED
      BY <3>1, <3>3, <3>4, SettleStep
  <2>6. ASSUME \A r \in Runs : /\ row'[r].status = row[r].status
                               /\ row'[r].attempts = row[r].attempts
        PROVE  UNCHANGED Promise!retryVars
    BY <2>6 DEF Promise!retryVars
  <2>7. \A c \in Claims : {c[1]} \in SUBSET Runs
    BY DEF Claims
  <2>8. \A w \in Workers : orphans[w] \in SUBSET Runs
    BY DEF IInv, TypeOK
  <2>9. QED
    BY <2>2, <2>3, <2>4, <2>5, <2>6, <2>7, <2>8, WritersOfStatus DEF Promise!RetryNext
<1>3. QED
  BY <1>1, <1>2, Invariant, PTL DEF Spec, KeepsPromise, Promise!RetrySpec
=============================================================================
