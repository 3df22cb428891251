---------------------------- MODULE RunAdmission ----------------------------
(***************************************************************************)
(* The admission of runs: create_run of caos/server/routes/runs.py.  The   *)
(* handlers of one process take turns on its _create_run_lock; those of    *)
(* different processes meet only in Postgres, at the two unique indexes of *)
(* the runs table.  A client that hears nothing sends its request again,   *)
(* to any process.                                                         *)
(*                                                                         *)
(* One action is one statement.  An insert waits for a conflicting row     *)
(* that another transaction has inserted and not committed.                *)
(***************************************************************************)
EXTENDS Naturals, FiniteSets

CONSTANTS
  Requests,        \* bodies of POST /runs, [analyst, issuer, key, body]
  NoKey,           \* no Idempotency-Key header
  Handlers,        \* requests that are served at the same time
  ProcessOf,       \* [Handlers -> processes]
  PerAnalystLimit, \* caos_run_per_analyst_limit
  QueueLimit,      \* caos_run_queue_limit
  MaxRuns          \* rows of the table: more than can ever be in use

ASSUME AdmissionAssumption ==
  /\ PerAnalystLimit \in Nat /\ QueueLimit \in Nat /\ MaxRuns \in Nat
  /\ IsFiniteSet(Handlers) /\ Handlers # {}
  /\ DOMAIN ProcessOf = Handlers

RunIds == 1..MaxRuns

VARIABLES
  runs,     \* [RunIds -> RowType]
  handler,  \* [Handlers -> what the handler is at]
  replies   \* <<request, run>> of every 201 to a request with a key

vars == <<runs, handler, replies>>

NoRun == 0
RowType == [state   : {"free", "inserted", "active", "ended"},
            request : Requests \cup {NoKey}]
FreeRow == [state |-> "free", request |-> NoKey]

Places == {"idle", "mine", "all", "issuer", "insert", "commit", "recheck"}
HandlerType == [pc : Places, request : Requests \cup {NoKey}, run : RunIds \cup {NoRun}]
IdleHandler == [pc |-> "idle", request |-> NoKey, run |-> NoRun]

Init == /\ runs = [id \in RunIds |-> FreeRow]
        /\ handler = [h \in Handlers |-> IdleHandler]
        /\ replies = {}

-----------------------------------------------------------------------------
\* What the statements match.

Committed == {id \in RunIds : runs[id].state \in {"active", "ended"}}
Active    == {id \in RunIds : runs[id].state = "active"}

ActiveOf(analyst) == {id \in Active : runs[id].request.analyst = analyst}

SameKey(p, q) == p.key # NoKey /\ p.key = q.key /\ p.analyst = q.analyst

\* The same idempotency_request_hash.
SameHash(p, q) == p.issuer = q.issuer /\ p.body = q.body

\* The committed run of an earlier request with the key of q.
Prior(q) == {id \in Committed : SameKey(runs[id].request, q)}

\* uq_runs_analyst_idempotency and uq_runs_issuer_active, against rows in the
\* given states.
KeyTaken(q, states) ==
  \E id \in RunIds : runs[id].state \in states /\ SameKey(runs[id].request, q)

IssuerTaken(q, states) ==
  \E id \in RunIds : runs[id].state \in states /\ runs[id].request.issuer = q.issuer

\* Mutants: one of the unique indexes is missing.
ConflictsOnIssuer(q) == IssuerTaken(q, {"active"})
ConflictsOnKey(q)    == KeyTaken(q, {"active", "ended"})

Conflicts(q) == KeyTaken(q, {"active", "ended"}) \/ IssuerTaken(q, {"active"})

MustWait(q) == KeyTaken(q, {"inserted"}) \/ IssuerTaken(q, {"inserted"})

\* _create_run_lock of the handler's process is free.
LockIsFree(h) ==
  \A g \in Handlers : ProcessOf[g] = ProcessOf[h] => handler[g].pc = "idle"

\* A 201 that names the run.
Answered(q, id) == IF q.key = NoKey THEN replies ELSE replies \cup {<<q, id>>}

-----------------------------------------------------------------------------
\* Steps of a handler.  Every way out releases the lock.

At(h, pc) == handler[h].pc = pc
RequestOf(h) == handler[h].request
Move(h, pc) == handler' = [handler EXCEPT ![h].pc = pc]
Leave(h) == handler' = [handler EXCEPT ![h] = IdleHandler]

\* An earlier run answers the request if it came from the same body; with
\* another body the answer is 409.
Replay(h, q, id) ==
  /\ Leave(h)
  /\ replies' = IF SameHash(runs[id].request, q) THEN Answered(q, id) ELSE replies

\* Mutants of the entry: no lock, and no look at the hash.
EnterWhere(h, q, free, same) ==
  /\ At(h, "idle") /\ free
  /\ IF Prior(q) # {}
     THEN /\ Leave(h)
          /\ replies' = replies \cup
               {<<q, id>> : id \in {i \in Prior(q) : same => SameHash(runs[i].request, q)}}
     ELSE /\ handler' = [handler EXCEPT ![h] = [pc |-> "mine", request |-> q, run |-> NoRun]]
          /\ UNCHANGED replies
  /\ UNCHANGED runs

EnterUnlocked(h, q) == EnterWhere(h, q, TRUE, TRUE)
EnterUnhashed(h, q) == EnterWhere(h, q, LockIsFree(h), FALSE)

\* The lock, then the run of an earlier try with the same key.
Enter(h, q) ==
  /\ At(h, "idle") /\ LockIsFree(h)
  /\ \/ /\ Prior(q) = {}
        /\ handler' = [handler EXCEPT ![h] = [pc |-> "mine", request |-> q, run |-> NoRun]]
        /\ UNCHANGED replies
     \/ \E id \in Prior(q) : Replay(h, q, id)
  /\ UNCHANGED runs

\* The three checks, each a count or select of its own: 429, 503 and 409.
Check(h, at, passed, next) ==
  /\ At(h, at)
  /\ IF passed THEN Move(h, next) ELSE Leave(h)
  /\ UNCHANGED <<runs, replies>>

CountMine(h) ==
  Check(h, "mine", Cardinality(ActiveOf(RequestOf(h).analyst)) < PerAnalystLimit, "all")

CountAll(h) == Check(h, "all", Cardinality(Active) < QueueLimit, "issuer")

CheckIssuer(h) == Check(h, "issuer", ~IssuerTaken(RequestOf(h), {"active"}), "insert")

\* The flush of the new row; IntegrityError where it conflicts.  Postgres looks
\* at one index after the other, in an order that is left open.
Insert(h) ==
  /\ At(h, "insert")
  /\ \/ /\ Conflicts(RequestOf(h))
        /\ Move(h, "recheck")
        /\ UNCHANGED runs
     \/ /\ ~Conflicts(RequestOf(h)) /\ ~MustWait(RequestOf(h))
        /\ \E id \in RunIds :
             /\ runs[id].state = "free" /\ \A i \in 1..(id - 1) : runs[i].state # "free"
             /\ runs' = [runs EXCEPT ![id] = [state |-> "inserted", request |-> RequestOf(h)]]
             /\ handler' = [handler EXCEPT ![h].pc = "commit", ![h].run = id]
  /\ UNCHANGED replies

\* The snapshot of the inputs is taken and the row committed; the answer
\* reaches the client, or it is lost.
Commit(h) ==
  /\ At(h, "commit")
  /\ runs' = [runs EXCEPT ![handler[h].run].state = "active"]
  /\ replies' \in {replies, Answered(RequestOf(h), handler[h].run)}
  /\ Leave(h)

\* Mutant: the conflict is tried away.
RecheckAgain(h) == At(h, "recheck") /\ Move(h, "insert") /\ UNCHANGED <<runs, replies>>

\* After IntegrityError: rollback, then the run of the same key, or 409.
Recheck(h) ==
  /\ At(h, "recheck")
  /\ \/ Prior(RequestOf(h)) = {} /\ Leave(h) /\ UNCHANGED replies
     \/ \E id \in Prior(RequestOf(h)) : Replay(h, RequestOf(h), id)
  /\ UNCHANGED runs

\* Mutant: no rollback.
AbortKeeps(h) == ~At(h, "idle") /\ Leave(h) /\ UNCHANGED <<runs, replies>>

\* 404, a failing snapshot, a lost connection or the death of the process: the
\* transaction is rolled back and the lock released.
Abort(h) ==
  /\ ~At(h, "idle")
  /\ runs' = [id \in RunIds |-> IF id = handler[h].run THEN FreeRow ELSE runs[id]]
  /\ Leave(h)
  /\ UNCHANGED replies

\* The run queue ends a run.  Without a key nothing looks at it any more, and
\* its row is used again.
RunEnds(id) ==
  /\ runs[id].state = "active"
  /\ runs' = [runs EXCEPT ![id] = IF runs[id].request.key = NoKey THEN FreeRow
                                  ELSE [runs[id] EXCEPT !.state = "ended"]]
  /\ UNCHANGED <<handler, replies>>

HandlerStep(h) == \/ CountMine(h) \/ CountAll(h) \/ CheckIssuer(h)
                  \/ Insert(h) \/ Commit(h) \/ Recheck(h)

Next == \/ \E h \in Handlers : \/ \E q \in Requests : Enter(h, q)
                               \/ HandlerStep(h)
                               \/ Abort(h)
        \/ \E id \in RunIds : RunEnds(id)

Spec == Init /\ [][Next]_vars

\* asyncio and Postgres run every handler that can go on, and an insert that
\* waits is not overtaken by others for ever.
FairSpec == Spec /\ \A h \in Handlers : WF_vars(HandlerStep(h)) /\ SF_vars(Insert(h))
=============================================================================
