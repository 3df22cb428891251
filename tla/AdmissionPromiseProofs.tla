------------------------ MODULE AdmissionPromiseProofs ------------------------
(***************************************************************************)
(* The admission of runs implements IdempotentCreation.  A step of the     *)
(* promise is the commit of a new row or an answer with an earlier one:    *)
(* everything else, the end of a run included, leaves the rows that have a *)
(* key and are committed as they are.                                      *)
(***************************************************************************)
EXTENDS RunAdmissionProofs

\* The committed rows with a key, and what they say was made.
Keyed == {id \in Committed : runs[id].request.key # NoKey}
Made  == {<<runs[id].request, id>> : id \in Keyed}

Stutters == UNCHANGED Promise!creationVars

LEMMA Promised ==
  ASSUME NEW q \in Requests, q.key # NoKey, NEW id \in RunIds,
         Promise!Create(q, id) \/ Promise!Again(q, id)
  PROVE  Promise!CreationNext
  BY DEF Promise!CreationNext

LEMMA Unmade ==
  ASSUME replies' = replies, Keyed' = Keyed,
         \A id \in Keyed : runs'[id].request = runs[id].request
  PROVE  Stutters
<1>1. Made' = Made
  BY DEF Made
<1>2. QED
  BY <1>1 DEF Stutters, Promise!creationVars, Made, Keyed

\* An answer with an earlier run.
LEMMA Replied ==
  ASSUME IInv, NEW h \in Handlers, NEW q \in Requests, NEW id \in Prior(q),
         Replay(h, q, id), runs' = runs
  PROVE  Promise!CreationNext \/ Stutters
<1>1. id \in RunIds /\ id \in Keyed /\ SameKey(runs[id].request, q)
  BY DEF Prior, Committed, Keyed, SameKey
<1>2. Keyed' = Keyed
  BY DEF Keyed, Committed
<1>3. CASE replies' = replies
  BY <1>2, <1>3, Unmade
<1>4. CASE replies' # replies
  <2>1. SameHash(runs[id].request, q) /\ replies' = replies \cup {<<q, id>>}
    BY <1>4 DEF Replay, Answered
  <2>2. Made' = Made
    BY <1>2 DEF Made
  <2>3. <<runs[id].request, id>> \in Made
    BY <1>1 DEF Made
  <2>4. Promise!OfKey(runs[id].request, q) /\ Promise!OfBody(runs[id].request, q)
    BY <1>1, <2>1 DEF Promise!OfKey, Promise!OfBody, SameKey, SameHash
  <2>5. Promise!Again(q, id)
    BY <2>1, <2>2, <2>3, <2>4 DEF Promise!Again, Made, Keyed
  <2>6. QED
    BY <1>1, <2>5, Promised DEF SameKey
<1>5. QED
  BY <1>3, <1>4

\* What a handler holds.
LEMMA HeldRow ==
  ASSUME IInv, NEW h \in Handlers
  PROVE  /\ handler[h].pc # "commit" => handler[h].run = NoRun
         /\ handler[h].pc = "commit" =>
              /\ handler[h].run \in RunIds
              /\ runs[handler[h].run] = [state |-> "inserted", request |-> handler[h].request]
              /\ runs[handler[h].run].state = "inserted"
              /\ runs[handler[h].run].request = handler[h].request
<1>1. CASE handler[h].pc # "commit"
  BY <1>1 DEF IInv, TypeOK
<1>2. CASE handler[h].pc = "commit"
  <2>1. /\ handler[h].run \in RunIds
        /\ runs[handler[h].run] = [state |-> "inserted", request |-> handler[h].request]
    BY <1>2 DEF IInv, TypeOK
  <2>2. /\ runs[handler[h].run].state = "inserted"
        /\ runs[handler[h].run].request = handler[h].request
    BY <2>1
  <2>3. QED
    BY <1>2, <2>1, <2>2
<1>3. QED
  BY <1>1, <1>2

LEMMA NoRunIsNone == NoRun \notin RunIds
BY DEF NoRun, RunIds

\* A commit makes a run for a key that has none, by the unique index.
LEMMA Committing ==
  ASSUME IInv, NEW h \in Handlers, Commit(h),
         NEW q, handler[h].request = q, NEW id, handler[h].run = id
  PROVE  Promise!CreationNext \/ Stutters
<1>1. /\ id \in RunIds /\ runs[id] = [state |-> "inserted", request |-> q]
      /\ runs \in [RunIds -> RowType] /\ q \in Requests
  BY HeldRow DEF Commit, At, IInv, TypeOK, InUseHasRequest
<1>2. runs' = [runs EXCEPT ![id].state = "active"]
  BY DEF Commit
<1>3. replies' \in {replies, Answered(q, id)}
  BY DEF Commit, RequestOf
<1>4. /\ \A i \in RunIds : i # id => runs'[i] = runs[i]
      /\ runs'[id].request = q /\ runs'[id].state = "active"
  BY <1>1, <1>2 DEF RowType
<1>5. id \notin Committed /\ Committed' = Committed \cup {id}
  BY <1>1, <1>4 DEF Committed
<1>6. \A i \in Keyed : i \in RunIds /\ i # id /\ runs'[i].request = runs[i].request
  BY <1>4, <1>5 DEF Keyed, Committed
<1>7. CASE q.key = NoKey
  <2>1. Keyed' = Keyed
    BY <1>4, <1>5, <1>7 DEF Keyed, Committed
  <2>2. replies' = replies
    BY <1>3, <1>7 DEF Answered
  <2>3. QED
    BY <1>6, <2>1, <2>2, Unmade
<1>8. CASE q.key # NoKey
  <2>1. Keyed' = Keyed \cup {id}
    BY <1>4, <1>5, <1>8 DEF Keyed, Committed
  <2>2. Made' = Made \cup {<<q, id>>}
    BY <1>4, <1>6, <2>1 DEF Made
  <2>3. \A i \in Keyed : ~SameKey(runs[i].request, q)
    <3>1. \A i \in Keyed : runs[i].state # "free"
      BY DEF Keyed, Committed
    <3>2. QED
      BY <1>1, <1>6, <3>1 DEF IInv, IndexesHold
  <2>4. \A m \in Made : ~Promise!OfKey(m[1], q) /\ m[2] # id
    <3>1. ASSUME NEW i \in Keyed PROVE ~Promise!OfKey(runs[i].request, q) /\ i # id
      BY <1>6, <1>8, <2>3 DEF Promise!OfKey, SameKey
    <3>2. QED
      BY <3>1 DEF Made
  <2>5. replies' \in {replies, replies \cup {<<q, id>>}}
    BY <1>3, <1>8 DEF Answered
  <2>6. Promise!Create(q, id)
    BY <2>2, <2>4, <2>5 DEF Promise!Create, Made, Keyed
  <2>7. QED
    BY <1>1, <1>8, <2>6, Promised
<1>9. QED
  BY <1>7, <1>8

\* The other steps free or fill only rows that are not committed, or have no key.
LEMMA Elsewhere ==
  ASSUME IInv, replies' = replies, runs' \in [RunIds -> RowType],
         \A i \in RunIds :
           \/ runs'[i] = runs[i]
           \/ i \notin Keyed /\ runs'[i].state \in {"free", "inserted"}
           \/ /\ runs[i].state = "active" /\ runs'[i].state = "ended"
              /\ runs'[i].request = runs[i].request
  PROVE  Stutters
<1>1. Keyed' = Keyed
  BY DEF Keyed, Committed
<1>2. \A id \in Keyed : runs'[id].request = runs[id].request
  BY DEF Keyed, Committed
<1>3. QED
  BY <1>1, <1>2, Unmade

LEMMA PromiseStep ==
  ASSUME IInv, [Next]_vars
  PROVE  Promise!CreationNext \/ Stutters
<1>1. /\ runs \in [RunIds -> RowType] /\ runs' \in [RunIds -> RowType]
  BY InvariantStep DEF IInv, TypeOK
<1>2. CASE UNCHANGED vars
  BY <1>1, <1>2, Elsewhere DEF vars
<1>3. ASSUME NEW h \in Handlers, NEW q \in Requests, Enter(h, q)
      PROVE  Promise!CreationNext \/ Stutters
  <2>1. CASE \E id \in Prior(q) : Replay(h, q, id)
    BY <1>3, <2>1, Replied DEF Enter
  <2>2. CASE replies' = replies
    BY <1>1, <1>3, <2>2, Elsewhere DEF Enter
  <2>3. QED
    BY <1>3, <2>1, <2>2 DEF Enter
<1>4. ASSUME NEW h \in Handlers, CountMine(h) \/ CountAll(h) \/ CheckIssuer(h)
      PROVE  Stutters
  BY <1>1, <1>4, Elsewhere DEF CountMine, CountAll, CheckIssuer, Check
<1>5. ASSUME NEW h \in Handlers, Insert(h) PROVE Stutters
  <2>1. CASE runs' = runs
    BY <1>1, <1>5, <2>1, Elsewhere DEF Insert
  <2>2. CASE runs' # runs
    <3>1. PICK id \in RunIds :
            /\ runs[id].state = "free"
            /\ runs' = [runs EXCEPT ![id] = [state |-> "inserted", request |-> RequestOf(h)]]
      BY <1>5, <2>2 DEF Insert
    <3>2. id \notin Keyed /\ runs'[id].state = "inserted"
      BY <1>1, <3>1 DEF Keyed, Committed
    <3>3. \A i \in RunIds : i # id => runs'[i] = runs[i]
      BY <1>1, <3>1
    <3>4. QED
      BY <1>1, <1>5, <3>2, <3>3, Elsewhere DEF Insert
  <2>3. QED
    BY <2>1, <2>2
<1>6. ASSUME NEW h \in Handlers, Commit(h) PROVE Promise!CreationNext \/ Stutters
  BY <1>6, Committing
<1>7. ASSUME NEW h \in Handlers, Recheck(h) PROVE Promise!CreationNext \/ Stutters
  <2>1. handler[h].request \in Requests /\ RequestOf(h) = handler[h].request
    BY <1>7 DEF Recheck, At, RequestOf, IInv, InUseHasRequest
  <2>2. CASE \E id \in Prior(RequestOf(h)) : Replay(h, RequestOf(h), id)
    BY <1>7, <2>1, <2>2, Replied DEF Recheck
  <2>3. CASE replies' = replies
    BY <1>1, <1>7, <2>3, Elsewhere DEF Recheck
  <2>4. QED
    BY <1>7, <2>2, <2>3 DEF Recheck
<1>8. ASSUME NEW h \in Handlers, Abort(h) PROVE Stutters
  <2>1. \A i \in RunIds : runs'[i] = IF i = handler[h].run THEN FreeRow ELSE runs[i]
    BY <1>8 DEF Abort
  <2>2. handler[h].run \in RunIds => handler[h].run \notin Committed
    <3>1. handler[h].pc = "commit" => runs[handler[h].run].state = "inserted"
      BY HeldRow
    <3>2. QED
      BY <3>1, HeldRow, NoRunIsNone DEF Committed
  <2>3. FreeRow.state = "free"
    BY DEF FreeRow
  <2>4. QED
    BY <1>1, <1>8, <2>1, <2>2, <2>3, Elsewhere DEF Abort, Keyed
<1>9. ASSUME NEW id \in RunIds, RunEnds(id) PROVE Stutters
  <2>1. \A i \in RunIds : i # id => runs'[i] = runs[i]
    BY <1>1, <1>9 DEF RunEnds
  <2>2. runs[id].state = "active"
    BY <1>9 DEF RunEnds
  <2>3. CASE runs[id].request.key = NoKey
    <3>1. runs'[id] = FreeRow /\ FreeRow.state = "free" /\ id \notin Keyed
      BY <1>1, <1>9, <2>3 DEF RunEnds, FreeRow, Keyed
    <3>2. QED
      BY <1>1, <1>9, <2>1, <3>1, Elsewhere DEF RunEnds
  <2>4. CASE runs[id].request.key # NoKey
    <3>1. runs'[id].state = "ended" /\ runs'[id].request = runs[id].request
      BY <1>1, <1>9, <2>4 DEF RunEnds, RowType
    <3>2. QED
      BY <1>1, <1>9, <2>1, <2>2, <3>1, Elsewhere DEF RunEnds
  <2>5. QED
    BY <2>3, <2>4
<1>10. QED
  BY <1>2, <1>3, <1>4, <1>5, <1>6, <1>7, <1>8, <1>9 DEF Next, HandlerStep

-----------------------------------------------------------------------------
\* The admission keeps its promise to a client that sends a request again: a key
\* gets one run for good, and every 201 to the key names it, in any interleaving of
\* handlers, processes, rollbacks and lost answers (create_run,
\* uq_runs_analyst_idempotency).
THEOREM AdmissionKeepsPromise == Spec => KeepsPromise
<1>1. Init => Promise!CreationInit
  BY DEF Init, Promise!CreationInit, FreeRow, Committed
<1>2. IInv /\ [Next]_vars => [Promise!CreationNext]_(Promise!creationVars)
  BY PromiseStep DEF Stutters
<1>3. QED
  BY <1>1, <1>2, Invariant, PTL DEF Spec, KeepsPromise, Promise!CreationSpec

\* Two 201 to the same key name the same run and answer the same body, whichever
\* processes give them and however far apart (create_run).
THEOREM AnswersAgree == Spec => []OneAnswerPerKey
<1>1. ASSUME IInv, NEW p \in replies, NEW r \in replies, SameKey(p[1], r[1])
      PROVE  p[2] = r[2] /\ SameHash(p[1], r[1])
  <2>1. /\ p[2] \in Committed /\ SameKey(runs[p[2]].request, p[1])
        /\ SameHash(runs[p[2]].request, p[1])
        /\ r[2] \in Committed /\ SameKey(runs[r[2]].request, r[1])
        /\ SameHash(runs[r[2]].request, r[1])
    BY <1>1 DEF IInv, RepliesAreRight
  <2>2. SameKey(runs[p[2]].request, runs[r[2]].request)
    BY <1>1, <2>1 DEF SameKey
  <2>3. p[2] = r[2]
    BY <1>1, <2>1, <2>2 DEF IInv, IndexesHold, Committed
  <2>4. QED
    BY <2>1, <2>3 DEF SameHash
<1>2. IInv => OneAnswerPerKey
  BY <1>1 DEF OneAnswerPerKey
<1>3. QED
  BY <1>2, Invariant, PTL

\* No handlers wait in a circle: an insert that waits waits for another handler
\* that has made the row in its way and only has to commit it (create_run).
THEOREM NoWaitingCircle == Spec => []WaitsAreForCommits
<1>1. ASSUME IInv, NEW h \in Handlers, At(h, "insert"), MustWait(RequestOf(h))
      PROVE  \E g \in Handlers : g # h /\ At(g, "commit") /\ InTheWay(g, h)
  <2>1. PICK id \in RunIds :
          /\ runs[id].state = "inserted"
          /\ \/ SameKey(runs[id].request, RequestOf(h))
             \/ runs[id].request.issuer = RequestOf(h).issuer
    BY <1>1 DEF MustWait, KeyTaken, IssuerTaken
  <2>2. PICK g \in Handlers : handler[g].run = id
    BY <1>1, <2>1 DEF IInv, TypeOK
  <2>3. handler[g].pc = "commit"
    BY <1>1, <2>1, <2>2, HeldRow, NoRunIsNone
  <2>4. runs[id].request = RequestOf(g)
    BY <1>1, <2>2, <2>3, HeldRow DEF RequestOf
  <2>5. InTheWay(g, h) /\ At(g, "commit") /\ g # h
    BY <1>1, <2>1, <2>3, <2>4 DEF At, InTheWay
  <2>6. QED
    BY <2>5
<1>2. IInv => WaitsAreForCommits
  BY <1>1 DEF WaitsAreForCommits
<1>3. QED
  BY <1>2, Invariant, PTL
=============================================================================
