------------------------- MODULE RunAdmissionProps -------------------------
(***************************************************************************)
(* What the admission of runs must guarantee.                              *)
(***************************************************************************)
EXTENDS RunAdmission

\* Rows and handlers stay within their types, and an uncommitted row is that of
\* a handler that is about to commit it.
TypeOK == /\ runs \in [RunIds -> RowType]
          /\ handler \in [Handlers -> HandlerType]
          /\ replies \subseteq Requests \X RunIds
          /\ \A h \in Handlers :
               IF handler[h].pc = "commit"
               THEN /\ handler[h].run \in RunIds
                    /\ runs[handler[h].run] = [state   |-> "inserted",
                                              request |-> handler[h].request]
               ELSE handler[h].run = NoRun
          /\ \A id \in RunIds : runs[id].state = "inserted" =>
               \E h \in Handlers : handler[h].run = id

\* Two processes that race past their own checks still leave one active run
\* per issuer: the headline metrics of an issuer have one writer.
OneActivePerIssuer ==
  \A i, j \in Active : runs[i].request.issuer = runs[j].request.issuer => i = j

\* However often a request with a key is sent, and to whichever process, it
\* creates one run.
OneRunPerKey ==
  \A i, j \in Committed : SameKey(runs[i].request, runs[j].request) => i = j

\* A 201 names a committed run that was created from the same body under the
\* analyst's same key: a replay never hands out another request's run.
RepliesAreRight ==
  \A reply \in replies :
    LET q == reply[1]  id == reply[2]
    IN  id \in Committed /\ SameHash(runs[id].request, q) /\ SameKey(runs[id].request, q)

\* Two 201 to the same key name the same run and answer the same body.
OneAnswerPerKey ==
  \A p, r \in replies : SameKey(p[1], r[1]) => p[2] = r[2] /\ SameHash(p[1], r[1])

\* What a retry may rely on: the admission implements IdempotentCreation, in which
\* a key has one run for good and every answer to it names that run.
Promise == INSTANCE IdempotentCreation WITH
  Requests <- {q \in Requests : q.key # NoKey},
  Runs     <- RunIds,
  made     <- {<<runs[id].request, id>> : id \in {i \in Committed : runs[i].request.key # NoKey}},
  told     <- replies

KeepsPromise == Promise!CreationSpec

Processes == {ProcessOf[h] : h \in Handlers}

\* Processes that count at the same time can overrun the limits, by one run for
\* each process but the first, and by no more in any number of rounds.
OverrunIsBounded ==
  /\ Cardinality(Active) < QueueLimit + Cardinality(Processes)
  /\ \A q \in Requests :
       Cardinality(ActiveOf(q.analyst)) < PerAnalystLimit + Cardinality(Processes)

\* An insert that waits waits for a handler that only has to commit the row in its
\* way: handlers never wait in a circle.
InTheWay(g, h) == \/ SameKey(RequestOf(g), RequestOf(h))
                  \/ RequestOf(g).issuer = RequestOf(h).issuer

WaitsAreForCommits ==
  \A h \in Handlers : At(h, "insert") /\ MustWait(RequestOf(h)) =>
    \E g \in Handlers : g # h /\ At(g, "commit") /\ InTheWay(g, h)

\* No handler waits for ever, not for the insert of another process either.
HandlersFinish == \A h \in Handlers : handler[h].pc # "idle" ~> handler[h].pc = "idle"

-----------------------------------------------------------------------------
\* The inductive invariant (RunAdmissionProofs).

\* Rows in use and handlers at work have a request.
InUseHasRequest ==
  /\ \A id \in RunIds : runs[id].state # "free" => runs[id].request \in Requests
  /\ \A h \in Handlers : handler[h].pc # "idle" => handler[h].request \in Requests

\* An uncommitted row has one handler.
InsertedOnce ==
  \A g, h \in Handlers : handler[g].run = handler[h].run /\ handler[g].run # NoRun => g = h

\* The unique indexes hold for uncommitted rows too.
IndexesHold ==
  \A i, j \in RunIds :
     /\ /\ runs[i].state \in {"inserted", "active"} /\ runs[j].state \in {"inserted", "active"}
        /\ runs[i].request.issuer = runs[j].request.issuer
        => i = j
     /\ /\ runs[i].state # "free" /\ runs[j].state # "free"
        /\ SameKey(runs[i].request, runs[j].request)
        => i = j

IInv == TypeOK /\ InUseHasRequest /\ InsertedOnce /\ IndexesHold
        /\ RepliesAreRight

-----------------------------------------------------------------------------
\* What bounds the overrun (RunAdmissionProofs).

\* _create_run_lock: one handler of a process is at work.
LockHolds ==
  \A g, h \in Handlers :
     ProcessOf[g] = ProcessOf[h] /\ handler[g].pc # "idle" /\ handler[h].pc # "idle"
     => g = h

\* The handlers that have passed the count of all runs, and those of an analyst
\* that have passed the count of the analyst's runs, and can still add a run.
Passed == {h \in Handlers : handler[h].pc \in {"issuer", "insert", "commit"}}
PassedFor(analyst) ==
  {h \in Handlers : /\ handler[h].pc \in {"all", "issuer", "insert", "commit"}
                    /\ RequestOf(h).analyst = analyst}

\* The bound counts the runs that are still to come.
ComingRunsFit ==
  /\ Cardinality(Active) + Cardinality(Passed) < QueueLimit + Cardinality(Processes)
  /\ \A q \in Requests :
       Cardinality(ActiveOf(q.analyst)) + Cardinality(PassedFor(q.analyst))
         < PerAnalystLimit + Cardinality(Processes)

CountInv == LockHolds /\ ComingRunsFit
=============================================================================
