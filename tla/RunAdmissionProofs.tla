------------------------ MODULE RunAdmissionProofs ------------------------
(***************************************************************************)
(* Proofs about the admission of runs, for any requests, handlers,         *)
(* processes and limits.  That a request creates one run, and an issuer    *)
(* has one active run, rests on the unique indexes alone; the proofs carry *)
(* them over from committed rows to the rows of open transactions.         *)
(***************************************************************************)
EXTENDS RunAdmissionProps, FiniteSetTheorems, TLAPS

\* A handler that holds no row goes elsewhere, and the table stays as it is.
LEMMA KeepRuns ==
  ASSUME IInv, NEW h \in Handlers, NEW x \in HandlerType,
         x.run = NoRun, x.pc # "commit", x.pc # "idle" => x.request \in Requests,
         handler[h].pc # "commit",
         handler' = [handler EXCEPT ![h] = x],
         runs' = runs,
         replies' \subseteq Requests \X RunIds
  PROVE  TypeOK' /\ InUseHasRequest' /\ InsertedOnce' /\ IndexesHold'
<1>1. handler \in [Handlers -> HandlerType] /\ runs \in [RunIds -> RowType]
  BY DEF IInv, TypeOK
<1>2. handler[h].run = NoRun
  BY DEF IInv, TypeOK
<1>3. \A g \in Handlers : handler'[g] = IF g = h THEN x ELSE handler[g]
  BY <1>1
<1>4. \A g \in Handlers : handler'[g].run = handler[g].run
  BY <1>2, <1>3
<1>5. TypeOK'
  <2>1. handler' \in [Handlers -> HandlerType] /\ runs' \in [RunIds -> RowType]
    BY <1>1
  <2>2. \A g \in Handlers :
          IF handler'[g].pc = "commit"
          THEN /\ handler'[g].run \in RunIds
               /\ runs'[handler'[g].run] = [state   |-> "inserted",
                                            request |-> handler'[g].request]
          ELSE handler'[g].run = NoRun
    BY <1>3 DEF IInv, TypeOK
  <2>3. \A id \in RunIds : runs'[id].state = "inserted" =>
          \E g \in Handlers : handler'[g].run = id
    BY <1>4 DEF IInv, TypeOK
  <2>4. QED
    BY <2>1, <2>2, <2>3 DEF TypeOK
<1>6. InUseHasRequest'
  BY <1>3 DEF IInv, InUseHasRequest
<1>7. InsertedOnce'
  BY <1>4 DEF IInv, InsertedOnce
<1>8. IndexesHold'
  BY DEF IInv, IndexesHold
<1>9. QED
  BY <1>5, <1>6, <1>7, <1>8

\* A replay answers with a committed run of the same key and body.
LEMMA Replaying ==
  ASSUME IInv, NEW h \in Handlers, NEW q \in Requests, NEW id \in Prior(q),
         Replay(h, q, id), runs' = runs
  PROVE  /\ replies' \subseteq Requests \X RunIds
         /\ RepliesAreRight'
<1>1. id \in RunIds /\ id \in Committed /\ SameKey(runs[id].request, q)
  BY DEF Prior, Committed
<1>2. \/ replies' = replies
      \/ replies' = replies \cup {<<q, id>>} /\ SameHash(runs[id].request, q)
  BY DEF Replay, Answered
<1>3. CASE replies' = replies
  BY <1>3 DEF IInv, TypeOK, RepliesAreRight, Committed
<1>4. CASE replies' = replies \cup {<<q, id>>} /\ SameHash(runs[id].request, q)
  <2>1. replies' \subseteq Requests \X RunIds
    BY <1>1, <1>4 DEF IInv, TypeOK
  <2>2. Committed' = Committed
    BY DEF Committed
  <2>3. \A reply \in replies' : reply \in replies \/ (reply[1] = q /\ reply[2] = id)
    BY <1>4
  <2>4. RepliesAreRight'
    BY <1>1, <1>4, <2>2, <2>3 DEF IInv, RepliesAreRight
  <2>5. QED
    BY <2>1, <2>4
<1>5. QED
  BY <1>2, <1>3, <1>4

LEMMA IdleHandlerType == IdleHandler \in HandlerType /\ IdleHandler.run = NoRun
BY DEF IdleHandler, HandlerType, Places

-----------------------------------------------------------------------------
\* The steps that leave the table alone.

LEMMA Staying ==
  ASSUME IInv, runs' = runs, replies' = replies
  PROVE  /\ replies' \subseteq Requests \X RunIds
         /\ RepliesAreRight'
BY DEF IInv, TypeOK, RepliesAreRight, Committed

LEMMA EnterStep ==
  ASSUME IInv, NEW h \in Handlers, NEW q \in Requests, Enter(h, q)
  PROVE  IInv'
<1>1. handler[h].pc # "commit" /\ runs' = runs
  BY DEF Enter, At
<1>2. CASE \E id \in Prior(q) : Replay(h, q, id)
  <2>1. PICK id \in Prior(q) : Replay(h, q, id)
    BY <1>2
  <2>2. handler' = [handler EXCEPT ![h] = IdleHandler]
    BY <2>1 DEF Replay, Leave
  <2>3. IdleHandler.pc = "idle"
    BY DEF IdleHandler
  <2>4. QED
    BY <1>1, <2>1, <2>2, <2>3, IdleHandlerType, KeepRuns, Replaying DEF IInv
<1>3. CASE ~\E id \in Prior(q) : Replay(h, q, id)
  <2> DEFINE x == [pc |-> "mine", request |-> q, run |-> NoRun]
  <2>1. handler' = [handler EXCEPT ![h] = x] /\ replies' = replies
    BY <1>3 DEF Enter
  <2>2. x \in HandlerType /\ x.run = NoRun /\ x.pc = "mine" /\ x.request \in Requests
    BY DEF HandlerType, Places
  <2>3. QED
    BY <1>1, <2>1, <2>2, KeepRuns, Staying DEF IInv
<1>4. QED
  BY <1>2, <1>3

LEMMA MoveStep ==
  ASSUME IInv, NEW h \in Handlers, NEW pc \in Places \ {"commit", "idle"},
         handler[h].pc \notin {"commit", "idle"},
         Move(h, pc) \/ Leave(h), runs' = runs, replies' = replies
  PROVE  IInv'
<1>1. handler[h] \in HandlerType /\ handler[h].run = NoRun /\ handler[h].request \in Requests
  BY DEF IInv, TypeOK, InUseHasRequest
<1>2. CASE Leave(h)
  BY <1>2, IdleHandlerType, KeepRuns, Staying DEF Leave, IInv, IdleHandler
<1>3. CASE Move(h, pc)
  <2> DEFINE x == [handler[h] EXCEPT !.pc = pc]
  <2>1. handler' = [handler EXCEPT ![h] = x]
    BY <1>3 DEF Move
  <2>2. x \in HandlerType /\ x.run = NoRun /\ x.pc = pc /\ x.request \in Requests
    BY <1>1 DEF HandlerType
  <2>3. QED
    BY <2>1, <2>2, KeepRuns, Staying DEF IInv
<1>4. QED
  BY <1>2, <1>3

LEMMA CheckStep ==
  ASSUME IInv, NEW h \in Handlers, CountMine(h) \/ CountAll(h) \/ CheckIssuer(h)
  PROVE  IInv'
<1>1. PICK pc \in {"all", "issuer", "insert"} : Move(h, pc) \/ Leave(h)
  BY DEF CountMine, CountAll, CheckIssuer, Check
<1>2. handler[h].pc \notin {"commit", "idle"} /\ runs' = runs /\ replies' = replies
  BY DEF CountMine, CountAll, CheckIssuer, Check, At
<1>3. pc \in Places \ {"commit", "idle"}
  BY DEF Places
<1>4. QED
  BY <1>1, <1>2, <1>3, MoveStep

LEMMA RecheckStep ==
  ASSUME IInv, NEW h \in Handlers, Recheck(h)
  PROVE  IInv'
<1>1. handler[h].pc = "recheck" /\ runs' = runs /\ RequestOf(h) \in Requests
  BY DEF Recheck, At, RequestOf, IInv, InUseHasRequest
<1>2. CASE Leave(h) /\ replies' = replies
  BY <1>1, <1>2, MoveStep DEF Places
<1>3. CASE \E id \in Prior(RequestOf(h)) : Replay(h, RequestOf(h), id)
  <2>1. PICK id \in Prior(RequestOf(h)) : Replay(h, RequestOf(h), id)
    BY <1>3
  <2>2. handler' = [handler EXCEPT ![h] = IdleHandler] /\ IdleHandler.pc = "idle"
    BY <2>1 DEF Replay, Leave, IdleHandler
  <2>3. /\ replies' \subseteq Requests \X RunIds
        /\ RepliesAreRight'
    BY <1>1, <2>1, Replaying
  <2>4. QED
    BY <1>1, <2>2, <2>3, IdleHandlerType, KeepRuns DEF IInv
<1>4. QED
  BY <1>2, <1>3 DEF Recheck

-----------------------------------------------------------------------------
\* The steps that write the table.

\* The rows that replies name keep their request and stay committed.
LEMMA RepliesStay ==
  ASSUME IInv, runs' \in [RunIds -> RowType], replies' = replies,
         \A id \in Committed : runs[id].request.key # NoKey =>
            runs'[id].request = runs[id].request /\ runs'[id].state \in {"active", "ended"}
  PROVE  RepliesAreRight'
<1>1. ASSUME NEW reply \in replies
      PROVE  /\ reply[2] \in Committed'
             /\ SameHash(runs'[reply[2]].request, reply[1])
             /\ SameKey(runs'[reply[2]].request, reply[1])
  <2>1. /\ reply[2] \in Committed /\ SameHash(runs[reply[2]].request, reply[1])
        /\ SameKey(runs[reply[2]].request, reply[1])
    BY DEF IInv, RepliesAreRight
  <2>2. /\ runs'[reply[2]].request = runs[reply[2]].request
        /\ runs'[reply[2]].state \in {"active", "ended"}
    BY <2>1 DEF SameKey
  <2>3. reply[2] \in Committed'
    BY <2>1, <2>2 DEF Committed
  <2>4. QED
    BY <2>1, <2>2, <2>3
<1>2. QED
  BY <1>1 DEF RepliesAreRight

LEMMA InsertStep ==
  ASSUME IInv, NEW h \in Handlers, Insert(h)
  PROVE  IInv'
<1> DEFINE q == RequestOf(h)
<1>1. /\ handler[h].pc = "insert" /\ handler[h].run = NoRun
      /\ q = handler[h].request /\ q \in Requests
      /\ handler[h] \in HandlerType /\ replies' = replies
  BY DEF Insert, At, RequestOf, IInv, TypeOK, InUseHasRequest
<1>2. CASE Move(h, "recheck") /\ runs' = runs
  BY <1>1, <1>2, MoveStep DEF Places
<1>3. CASE ~(Move(h, "recheck") /\ runs' = runs)
  <2>1. PICK id \in RunIds :
           /\ runs[id].state = "free"
           /\ runs' = [runs EXCEPT ![id] = [state |-> "inserted", request |-> q]]
           /\ handler' = [handler EXCEPT ![h].pc = "commit", ![h].run = id]
    BY <1>3 DEF Insert
  <2>2. ~MustWait(q) /\ ~Conflicts(q)
    BY <1>3 DEF Insert
  <2>3. handler \in [Handlers -> HandlerType] /\ runs \in [RunIds -> RowType]
    BY DEF IInv, TypeOK
  <2>4. \A i \in RunIds : runs'[i] = IF i = id THEN [state |-> "inserted", request |-> q]
                                     ELSE runs[i]
    BY <2>1, <2>3
  <2>5. /\ \A g \in Handlers : g # h => handler'[g] = handler[g]
        /\ handler'[h] = [pc |-> "commit", request |-> q, run |-> id]
    BY <1>1, <2>1, <2>3 DEF HandlerType
  <2>6. ASSUME NEW g \in Handlers PROVE handler[g].run # id
    <3>1. CASE handler[g].pc = "commit"
      <4>1. runs[handler[g].run] = [state |-> "inserted", request |-> handler[g].request]
        BY <3>1 DEF IInv, TypeOK
      <4>2. runs[handler[g].run].state = "inserted"
        BY <4>1
      <4>3. QED
        BY <2>1, <4>2
    <3>2. CASE handler[g].pc # "commit"
      <4>1. handler[g].run = 0
        BY <3>2 DEF IInv, TypeOK, NoRun
      <4>2. id # 0
        BY AdmissionAssumption DEF RunIds
      <4>3. QED
        BY <4>1, <4>2
    <3>3. QED
      BY <3>1, <3>2
  <2>7. TypeOK'
    <3>1. handler' \in [Handlers -> HandlerType]
      <4>1. handler'[h] \in HandlerType
        BY <1>1, <2>5 DEF HandlerType, Places
      <4>2. QED
        BY <2>1, <2>3, <2>5, <4>1
    <3>2. runs' \in [RunIds -> RowType]
      <4>1. [state |-> "inserted", request |-> q] \in RowType
        BY <1>1 DEF RowType
      <4>2. QED
        BY <2>1, <2>3, <4>1
    <3>3. ASSUME NEW g \in Handlers
          PROVE  IF handler'[g].pc = "commit"
                 THEN /\ handler'[g].run \in RunIds
                      /\ runs'[handler'[g].run] = [state   |-> "inserted",
                                                   request |-> handler'[g].request]
                 ELSE handler'[g].run = NoRun
      <4>1. CASE g = h
        BY <2>4, <2>5, <4>1
      <4>2. CASE g # h
        BY <2>4, <2>5, <2>6, <4>2 DEF IInv, TypeOK
      <4>3. QED
        BY <4>1, <4>2
    <3>4. ASSUME NEW i \in RunIds, runs'[i].state = "inserted"
          PROVE  \E g \in Handlers : handler'[g].run = i
      <4>1. CASE i = id
        BY <2>5, <4>1
      <4>2. CASE i # id
        <5>1. PICK g \in Handlers : handler[g].run = i
          BY <2>4, <3>4, <4>2 DEF IInv, TypeOK
        <5>2. g # h
          BY <1>1, <5>1 DEF NoRun, RunIds
        <5>3. QED
          BY <2>5, <5>1, <5>2
      <4>3. QED
        BY <4>1, <4>2
    <3>5. QED
      BY <1>1, <3>1, <3>2, <3>3, <3>4 DEF TypeOK, IInv
  <2>8. InUseHasRequest'
    BY <1>1, <2>4, <2>5 DEF IInv, InUseHasRequest
  <2>9. InsertedOnce'
    BY <2>5, <2>6 DEF IInv, InsertedOnce
  <2>10. IndexesHold'
    <3>1. ASSUME NEW j \in RunIds, j # id
          PROVE  /\ runs[j].state \in {"inserted", "active"} =>
                      runs[j].request.issuer # q.issuer
                 /\ runs[j].state # "free" =>
                      ~SameKey(runs[j].request, q) /\ ~SameKey(q, runs[j].request)
      <4>1. runs[j].state \in {"free", "inserted", "active", "ended"}
        BY <2>3 DEF RowType
      <4>2. QED
        BY <2>2, <4>1 DEF MustWait, Conflicts, KeyTaken, IssuerTaken, SameKey
    <3>2. QED
      BY <2>4, <3>1 DEF IInv, IndexesHold
  <2>11. RepliesAreRight'
    BY <1>1, <2>1, <2>4, <2>7, RepliesStay DEF Committed, TypeOK
  <2>12. QED
    BY <2>7, <2>8, <2>9, <2>10, <2>11 DEF IInv
<1>4. QED
  BY <1>2, <1>3

LEMMA CommitStep ==
  ASSUME IInv, NEW h \in Handlers, Commit(h)
  PROVE  IInv'
<1> DEFINE q == handler[h].request
           id == handler[h].run
<1>1. /\ handler[h].pc = "commit" /\ id \in RunIds /\ q \in Requests
      /\ runs[id] = [state |-> "inserted", request |-> q]
  BY DEF Commit, At, IInv, TypeOK, InUseHasRequest
<1>2. handler \in [Handlers -> HandlerType] /\ runs \in [RunIds -> RowType]
  BY DEF IInv, TypeOK
<1>3. \A i \in RunIds : runs'[i] = IF i = id THEN [state |-> "active", request |-> q]
                                   ELSE runs[i]
  <2>1. runs' = [runs EXCEPT ![id].state = "active"]
    BY DEF Commit
  <2>2. runs'[id] = [state |-> "active", request |-> q]
    BY <1>1, <1>2, <2>1
  <2>3. QED
    BY <1>2, <2>1, <2>2
<1>4. \A g \in Handlers : handler'[g] = IF g = h THEN IdleHandler ELSE handler[g]
  BY <1>2 DEF Commit, Leave
<1>5. id # NoRun
  BY <1>1, AdmissionAssumption DEF NoRun, RunIds
<1>6. \A g \in Handlers : g # h => handler[g].run # id
  BY <1>5 DEF IInv, InsertedOnce
<1>7. TypeOK'
  <2>1. runs' \in [RunIds -> RowType]
    <3>1. [state |-> "active", request |-> q] \in RowType
      BY <1>1 DEF RowType
    <3>2. DOMAIN runs' = RunIds /\ runs' = [i \in RunIds |-> runs'[i]]
      BY <1>2 DEF Commit
    <3>3. QED
      BY <1>2, <1>3, <3>1, <3>2
  <2>2. handler' \in [Handlers -> HandlerType]
    BY <1>2, IdleHandlerType DEF Commit, Leave
  <2>3. replies' \subseteq Requests \X RunIds
    BY <1>1 DEF Commit, Answered, RequestOf, IInv, TypeOK
  <2>4. ASSUME NEW g \in Handlers
        PROVE  IF handler'[g].pc = "commit"
               THEN /\ handler'[g].run \in RunIds
                    /\ runs'[handler'[g].run] = [state   |-> "inserted",
                                                 request |-> handler'[g].request]
               ELSE handler'[g].run = NoRun
    <3>1. CASE g = h
      BY <1>4, <3>1, IdleHandlerType DEF IdleHandler
    <3>2. CASE g # h
      BY <1>3, <1>4, <1>6, <3>2 DEF IInv, TypeOK
    <3>3. QED
      BY <3>1, <3>2
  <2>5. ASSUME NEW i \in RunIds, runs'[i].state = "inserted"
        PROVE  \E g \in Handlers : handler'[g].run = i
    <3>1. i # id
      BY <1>3, <2>5
    <3>2. PICK g \in Handlers : handler[g].run = i
      BY <1>3, <2>5, <3>1 DEF IInv, TypeOK
    <3>3. QED
      BY <1>4, <3>1, <3>2
  <2>6. QED
    BY <2>1, <2>2, <2>3, <2>4, <2>5 DEF TypeOK
<1>8. InUseHasRequest'
  BY <1>1, <1>3, <1>4 DEF IInv, InUseHasRequest, IdleHandler
<1>9. InsertedOnce'
  BY <1>4, IdleHandlerType DEF IInv, InsertedOnce
<1>10. IndexesHold'
  <2>1. \A i \in RunIds : runs'[i].request = runs[i].request
    BY <1>1, <1>3
  <2>2. \A i \in RunIds : /\ runs'[i].state # "free" => runs[i].state # "free"
                          /\ runs'[i].state \in {"inserted", "active"} =>
                               runs[i].state \in {"inserted", "active"}
    BY <1>1, <1>3
  <2>3. QED
    BY <2>1, <2>2 DEF IInv, IndexesHold
<1>11. RepliesAreRight'
  <2>1. \A i \in Committed : runs'[i] = runs[i] /\ i \in Committed'
    BY <1>1, <1>3 DEF Committed
  <2>2. id \in Committed' /\ runs'[id].request = q
    BY <1>1, <1>3 DEF Committed
  <2>3. \A reply \in replies' :
          reply \in replies \/ (reply[1] = q /\ reply[2] = id /\ q.key # NoKey)
    BY DEF Commit, Answered, RequestOf
  <2>4. ASSUME NEW reply \in replies'
        PROVE  /\ reply[2] \in Committed'
               /\ SameHash(runs'[reply[2]].request, reply[1])
               /\ SameKey(runs'[reply[2]].request, reply[1])
    <3>1. CASE reply \in replies
      BY <2>1, <3>1 DEF IInv, RepliesAreRight
    <3>2. CASE reply[1] = q /\ reply[2] = id /\ q.key # NoKey
      BY <2>2, <3>2 DEF SameHash, SameKey
    <3>3. QED
      BY <2>3, <3>1, <3>2
  <2>5. QED
    BY <2>4 DEF RepliesAreRight
<1>12. QED
  BY <1>7, <1>8, <1>9, <1>10, <1>11 DEF IInv

LEMMA AbortStep ==
  ASSUME IInv, NEW h \in Handlers, Abort(h)
  PROVE  IInv'
<1> DEFINE id == handler[h].run
<1>1. handler \in [Handlers -> HandlerType] /\ runs \in [RunIds -> RowType]
  BY DEF IInv, TypeOK
<1>2. runs' = [i \in RunIds |-> IF i = id THEN FreeRow ELSE runs[i]]
  BY DEF Abort
<1>3. \A g \in Handlers : handler'[g] = IF g = h THEN IdleHandler ELSE handler[g]
  BY <1>1 DEF Abort, Leave
<1>4. id \in RunIds => runs[id].state = "inserted"
  <2>1. NoRun \notin RunIds
    BY AdmissionAssumption DEF NoRun, RunIds
  <2>2. IF handler[h].pc = "commit"
        THEN runs[id] = [state |-> "inserted", request |-> handler[h].request]
        ELSE id = NoRun
    <3> HIDE DEF id
    <3>1. IF handler[h].pc = "commit"
          THEN /\ handler[h].run \in RunIds
               /\ runs[handler[h].run] = [state   |-> "inserted",
                                          request |-> handler[h].request]
          ELSE handler[h].run = NoRun
      BY DEF IInv, TypeOK
    <3>2. QED
      BY <3>1 DEF id
  <2>3. QED
    BY <2>1, <2>2
<1>5. \A g \in Handlers : g # h /\ handler[g].run \in RunIds => handler[g].run # id
  <2>1. NoRun \notin RunIds
    BY AdmissionAssumption DEF NoRun, RunIds
  <2>2. QED
    BY <2>1 DEF IInv, InsertedOnce
<1>6. FreeRow \in RowType /\ FreeRow.state = "free"
  BY DEF FreeRow, RowType
<1>7. TypeOK'
  <2>1. runs' \in [RunIds -> RowType]
    BY <1>1, <1>2, <1>6
  <2>2. handler' \in [Handlers -> HandlerType]
    BY <1>1, IdleHandlerType DEF Abort, Leave
  <2>3. replies' \subseteq Requests \X RunIds
    BY DEF Abort, IInv, TypeOK
  <2>4. ASSUME NEW g \in Handlers
        PROVE  IF handler'[g].pc = "commit"
               THEN /\ handler'[g].run \in RunIds
                    /\ runs'[handler'[g].run] = [state   |-> "inserted",
                                                 request |-> handler'[g].request]
               ELSE handler'[g].run = NoRun
    <3>1. CASE g = h
      BY <1>3, <3>1, IdleHandlerType DEF IdleHandler
    <3>2. CASE g # h
      BY <1>2, <1>3, <1>5, <3>2 DEF IInv, TypeOK
    <3>3. QED
      BY <3>1, <3>2
  <2>5. ASSUME NEW i \in RunIds, runs'[i].state = "inserted"
        PROVE  \E g \in Handlers : handler'[g].run = i
    <3>1. i # id
      BY <1>2, <1>6, <2>5
    <3>2. PICK g \in Handlers : handler[g].run = i
      BY <1>2, <2>5, <3>1 DEF IInv, TypeOK
    <3>3. QED
      BY <1>3, <3>1, <3>2
  <2>6. QED
    BY <2>1, <2>2, <2>3, <2>4, <2>5 DEF TypeOK
<1>8. InUseHasRequest'
  BY <1>2, <1>3, <1>6 DEF IInv, InUseHasRequest, IdleHandler
<1>9. InsertedOnce'
  BY <1>3, IdleHandlerType DEF IInv, InsertedOnce
<1>10. IndexesHold'
  BY <1>2, <1>6 DEF IInv, IndexesHold
<1>11. RepliesAreRight'
  BY <1>2, <1>4, <1>7, RepliesStay DEF Abort, Committed, TypeOK
<1>12. QED
  BY <1>7, <1>8, <1>9, <1>10, <1>11 DEF IInv

LEMMA EndStep ==
  ASSUME IInv, NEW id \in RunIds, RunEnds(id)
  PROVE  IInv'
<1>1. runs \in [RunIds -> RowType] /\ handler' = handler /\ replies' = replies
  BY DEF RunEnds, IInv, TypeOK
<1>2. FreeRow \in RowType /\ FreeRow.state = "free"
  BY DEF FreeRow, RowType
<1>3. runs[id].state = "active" /\ runs[id] \in RowType
  BY <1>1 DEF RunEnds
<1>4. PICK new \in RowType :
         /\ runs' = [runs EXCEPT ![id] = new]
         /\ \/ new.state = "free" /\ runs[id].request.key = NoKey
            \/ new.state = "ended" /\ new.request = runs[id].request
  <2>1. CASE runs[id].request.key = NoKey
    BY <1>2, <2>1 DEF RunEnds
  <2>2. CASE runs[id].request.key # NoKey
    <3> DEFINE new == [runs[id] EXCEPT !.state = "ended"]
    <3>1. /\ new \in RowType /\ new.state = "ended" /\ new.request = runs[id].request
          /\ runs' = [runs EXCEPT ![id] = new]
      BY <1>3, <2>2 DEF RunEnds, RowType
    <3>2. QED
      BY <3>1
  <2>3. QED
    BY <2>1, <2>2
<1>5. \A i \in RunIds : runs'[i] = IF i = id THEN new ELSE runs[i]
  BY <1>1, <1>4
<1>6. ASSUME NEW h \in Handlers, handler[h].pc = "commit"
      PROVE  handler[h].run # id
  <2>1. runs[handler[h].run] = [state |-> "inserted", request |-> handler[h].request]
    BY <1>6 DEF IInv, TypeOK
  <2>2. runs[handler[h].run].state = "inserted"
    BY <2>1
  <2>3. QED
    BY <1>3, <2>2
<1>7. TypeOK'
  <2>1. runs' \in [RunIds -> RowType]
    BY <1>1, <1>4
  <2>2. \A h \in Handlers :
          IF handler[h].pc = "commit"
          THEN /\ handler[h].run \in RunIds
               /\ runs'[handler[h].run] = [state   |-> "inserted",
                                           request |-> handler[h].request]
          ELSE handler[h].run = NoRun
    BY <1>5, <1>6 DEF IInv, TypeOK
  <2>3. \A i \in RunIds : runs'[i].state = "inserted" => runs[i].state = "inserted"
    BY <1>4, <1>5
  <2>4. QED
    BY <1>1, <2>1, <2>2, <2>3 DEF IInv, TypeOK
<1>8. InUseHasRequest'
  BY <1>1, <1>3, <1>4, <1>5 DEF IInv, InUseHasRequest
<1>9. InsertedOnce'
  BY <1>1 DEF IInv, InsertedOnce
<1>10. IndexesHold'
  <2>1. \A i \in RunIds : runs'[i].state # "free" =>
          runs[i].state # "free" /\ runs'[i].request = runs[i].request
    BY <1>3, <1>4, <1>5
  <2>2. \A i \in RunIds : runs'[i].state \in {"inserted", "active"} =>
          runs[i].state \in {"inserted", "active"}
    BY <1>4, <1>5
  <2>3. QED
    BY <2>1, <2>2 DEF IInv, IndexesHold
<1>11. RepliesAreRight'
  BY <1>1, <1>4, <1>5, <1>7, RepliesStay DEF Committed, TypeOK
<1>12. QED
  BY <1>7, <1>8, <1>9, <1>10, <1>11 DEF IInv

-----------------------------------------------------------------------------
LEMMA InvariantInit == Init => IInv
<1> SUFFICES ASSUME Init PROVE IInv
  OBVIOUS
<1>1. /\ \A h \in Handlers : handler[h] = IdleHandler
      /\ \A id \in RunIds : runs[id] = FreeRow
      /\ replies = {}
  BY DEF Init
<1>2. IdleHandler.pc = "idle" /\ FreeRow.state = "free" /\ FreeRow \in RowType
  BY DEF IdleHandler, FreeRow, RowType
<1>3. TypeOK
  <2>1. handler \in [Handlers -> HandlerType] /\ runs \in [RunIds -> RowType]
    BY <1>2, IdleHandlerType DEF Init
  <2>2. QED
    BY <1>1, <1>2, <2>1, IdleHandlerType DEF TypeOK
<1>4. InUseHasRequest /\ IndexesHold /\ RepliesAreRight
  BY <1>1, <1>2 DEF InUseHasRequest, IndexesHold, RepliesAreRight
<1>5. InsertedOnce
  BY <1>1, IdleHandlerType DEF InsertedOnce
<1>6. QED
  BY <1>3, <1>4, <1>5 DEF IInv

LEMMA InvariantStep == IInv /\ [Next]_vars => IInv'
<1> SUFFICES ASSUME IInv, [Next]_vars PROVE IInv'
  OBVIOUS
<1>1. CASE UNCHANGED vars
  BY <1>1 DEF vars, IInv, TypeOK, InUseHasRequest, InsertedOnce, IndexesHold,
              RepliesAreRight, Committed
<1>2. CASE Next
  BY <1>2, EnterStep, CheckStep, InsertStep, CommitStep, RecheckStep, AbortStep, EndStep
     DEF Next, HandlerStep
<1>3. QED
  BY <1>1, <1>2

\* The inductive invariant of the admission holds in every reachable state.
THEOREM Invariant == Spec => []IInv
BY InvariantInit, InvariantStep, PTL DEF Spec

\* Rows and handlers keep their types, and an uncommitted row its handler.
THEOREM TypeCorrect == Spec => []TypeOK
<1>1. IInv => TypeOK
  BY DEF IInv
<1>2. QED
  BY <1>1, Invariant, PTL

\* An issuer never has two active runs, however many processes race.
THEOREM IssuerHasOneRun == Spec => []OneActivePerIssuer
<1>1. IInv => OneActivePerIssuer
  BY DEF IInv, IndexesHold, OneActivePerIssuer, Active
<1>2. QED
  BY <1>1, Invariant, PTL

\* A request with a key creates one run, however often it is sent.
THEOREM KeyHasOneRun == Spec => []OneRunPerKey
<1>1. IInv => OneRunPerKey
  BY DEF IInv, IndexesHold, OneRunPerKey, Committed
<1>2. QED
  BY <1>1, Invariant, PTL

\* Every 201 names a run that was created from the request's own body.
THEOREM RepliesAreOwn == Spec => []RepliesAreRight
<1>1. IInv => RepliesAreRight
  BY DEF IInv
<1>2. QED
  BY <1>1, Invariant, PTL

-----------------------------------------------------------------------------
(***************************************************************************)
(* The overrun.  Runs that are active and handlers that have passed a      *)
(* count are counted together: a run that is committed moves from the one  *)
(* to the other, and a handler passes a count when it finds room below the *)
(* limit.  The others that have passed by then are of other processes.     *)
(***************************************************************************)

LEMMA ProcessesFinite ==
  IsFiniteSet(Processes) /\ Cardinality(Processes) \in Nat /\ Cardinality(Processes) > 0
<1> DEFINE f == [h \in Handlers |-> ProcessOf[h]]
<1>1. IsFiniteSet(Handlers) /\ Handlers # {}
  BY AdmissionAssumption
<1>2. f \in Surjection(Handlers, Processes)
  BY DEF Surjection, Processes
<1>3. IsFiniteSet(Processes)
  BY <1>1, <1>2, FS_Surjection
<1>4. Cardinality(Processes) \in Nat
  BY <1>3, FS_CardinalityType
<1>5. Processes # {}
  BY <1>1 DEF Processes
<1>6. Cardinality(Processes) # 0
  BY <1>3, <1>5, FS_EmptySet
<1>7. QED
  BY <1>3, <1>4, <1>6

LEMMA RunsFinite ==
  ASSUME NEW A \in SUBSET RunIds
  PROVE  IsFiniteSet(A) /\ Cardinality(A) \in Nat
<1>1. IsFiniteSet(RunIds)
  BY FS_Interval, AdmissionAssumption DEF RunIds
<1>2. IsFiniteSet(A)
  BY <1>1, FS_Subset
<1>3. QED
  BY <1>2, FS_CardinalityType

LEMMA HandlersFinite ==
  ASSUME NEW P \in SUBSET Handlers
  PROVE  IsFiniteSet(P) /\ Cardinality(P) \in Nat
<1>1. IsFiniteSet(P)
  BY AdmissionAssumption, FS_Subset
<1>2. QED
  BY <1>1, FS_CardinalityType

\* Handlers of different processes are at most as many as the processes.
LEMMA OnePerProcess ==
  ASSUME NEW P \in SUBSET Handlers,
         \A g, h \in P : ProcessOf[g] = ProcessOf[h] => g = h
  PROVE  Cardinality(P) <= Cardinality(Processes)
<1> DEFINE f == [h \in P |-> ProcessOf[h]]
<1>1. f \in [P -> Processes]
  BY DEF Processes
<1>2. f \in Injection(P, Processes)
  BY <1>1 DEF Injection, IsInjective
<1>3. QED
  BY <1>2, ProcessesFinite, FS_Injection

\* The count of runs and handlers does not grow when either shrinks ...
LEMMA CountShrinks ==
  ASSUME NEW A \in SUBSET RunIds, NEW B \in SUBSET A,
         NEW P \in SUBSET Handlers, NEW Q \in SUBSET P
  PROVE  Cardinality(B) + Cardinality(Q) <= Cardinality(A) + Cardinality(P)
<1>1. IsFiniteSet(A) /\ IsFiniteSet(P)
  BY RunsFinite, HandlersFinite
<1>2. Cardinality(B) <= Cardinality(A)
  BY <1>1, FS_Subset
<1>3. Cardinality(Q) <= Cardinality(P)
  BY <1>1, FS_Subset
<1>4. B \in SUBSET RunIds /\ Q \in SUBSET Handlers
  OBVIOUS
<1>5. /\ Cardinality(A) \in Nat /\ Cardinality(B) \in Nat
      /\ Cardinality(P) \in Nat /\ Cardinality(Q) \in Nat
  BY <1>4, RunsFinite, HandlersFinite
<1>6. QED
  BY <1>2, <1>3, <1>5

\* ... nor when a run takes the place of its handler.
LEMMA CountMoves ==
  ASSUME NEW A \in SUBSET RunIds, NEW id \in RunIds, NEW P \in SUBSET Handlers, NEW h \in P
  PROVE  Cardinality(A \cup {id}) + Cardinality(P \ {h}) <= Cardinality(A) + Cardinality(P)
<1>1. IsFiniteSet(A) /\ IsFiniteSet(P) /\ Cardinality(A) \in Nat /\ Cardinality(P) \in Nat
  BY RunsFinite, HandlersFinite
<1>2. Cardinality(A \cup {id}) = IF id \in A THEN Cardinality(A) ELSE Cardinality(A) + 1
  BY <1>1, FS_AddElement
<1>3. Cardinality(P \ {h}) = Cardinality(P) - 1
  BY <1>1, FS_RemoveElement
<1>4. QED
  BY <1>1, <1>2, <1>3

\* The numbers that the bound compares.
LEMMA Counts ==
  /\ Active \in SUBSET RunIds /\ Passed \in SUBSET Handlers
  /\ \A a : ActiveOf(a) \in SUBSET RunIds /\ PassedFor(a) \in SUBSET Handlers
  /\ Cardinality(Active) \in Nat /\ Cardinality(Passed) \in Nat
  /\ \A a : Cardinality(ActiveOf(a)) \in Nat /\ Cardinality(PassedFor(a)) \in Nat
<1>1. /\ Active \in SUBSET RunIds /\ Passed \in SUBSET Handlers
      /\ \A a : ActiveOf(a) \in SUBSET RunIds /\ PassedFor(a) \in SUBSET Handlers
  BY DEF Active, ActiveOf, Passed, PassedFor
<1>2. QED
  BY <1>1, RunsFinite, HandlersFinite

\* A handler at work keeps the lock, and another one gets it when it is free.
LEMMA Locking ==
  ASSUME IInv, LockHolds, NEW h \in Handlers, NEW x,
         handler' = [handler EXCEPT ![h] = x],
         handler[h].pc # "idle" \/ LockIsFree(h)
  PROVE  LockHolds'
<1>1. handler \in [Handlers -> HandlerType]
  BY DEF IInv, TypeOK
<1>2. \A g \in Handlers : g # h => handler'[g] = handler[g]
  BY <1>1
<1>3. \A g \in Handlers : g # h /\ ProcessOf[g] = ProcessOf[h] => handler[g].pc = "idle"
  BY DEF LockHolds, LockIsFree
<1>4. QED
  BY <1>2, <1>3 DEF LockHolds

LEMMA LockStep == IInv /\ LockHolds /\ [Next]_vars => LockHolds'
<1> SUFFICES ASSUME IInv, LockHolds, [Next]_vars PROVE LockHolds'
  OBVIOUS
<1>1. ASSUME handler' = handler PROVE LockHolds'
  BY <1>1 DEF LockHolds
<1>2. ASSUME NEW h \in Handlers, Leave(h), handler[h].pc # "idle" \/ LockIsFree(h)
      PROVE  LockHolds'
  BY <1>2, Locking DEF Leave
<1>3. ASSUME NEW h \in Handlers, NEW pc, Move(h, pc), handler[h].pc # "idle"
      PROVE  LockHolds'
  BY <1>3, Locking DEF Move
<1>4. ASSUME NEW h \in Handlers, NEW q \in Requests, Enter(h, q) PROVE LockHolds'
  <2>1. CASE \E id \in Prior(q) : Replay(h, q, id)
    BY <1>2, <1>4, <2>1 DEF Enter, Replay
  <2>2. CASE ~\E id \in Prior(q) : Replay(h, q, id)
    BY <1>4, <2>2, Locking DEF Enter
  <2>3. QED
    BY <2>1, <2>2
<1>5. ASSUME NEW h \in Handlers, CountMine(h) \/ CountAll(h) \/ CheckIssuer(h)
      PROVE  LockHolds'
  BY <1>2, <1>3, <1>5 DEF CountMine, CountAll, CheckIssuer, Check, At
<1>6. ASSUME NEW h \in Handlers, Insert(h) PROVE LockHolds'
  <2>1. CASE Move(h, "recheck")
    BY <1>3, <1>6, <2>1 DEF Insert, At
  <2>2. CASE ~Move(h, "recheck")
    <3>1. PICK id \in RunIds : handler' = [handler EXCEPT ![h].pc = "commit", ![h].run = id]
      BY <1>6, <2>2 DEF Insert
    <3>2. handler[h].pc # "idle"
      BY <1>6 DEF Insert, At
    <3>3. QED
      BY <3>1, <3>2, Locking
  <2>3. QED
    BY <2>1, <2>2
<1>7. ASSUME NEW h \in Handlers, Commit(h) \/ Abort(h) \/ Recheck(h) PROVE LockHolds'
  <2>1. Leave(h) /\ handler[h].pc # "idle"
    BY <1>7 DEF Commit, Abort, Recheck, Replay, At
  <2>2. QED
    BY <1>2, <2>1
<1>8. ASSUME NEW id \in RunIds, RunEnds(id) PROVE LockHolds'
  BY <1>1, <1>8 DEF RunEnds
<1>9. CASE UNCHANGED vars
  BY <1>1, <1>9 DEF vars
<1>10. QED
  BY <1>4, <1>5, <1>6, <1>7, <1>8, <1>9 DEF Next, HandlerStep

\* No run becomes active, and no handler passes a count.
LEMMA NoMoreCome ==
  ASSUME ComingRunsFit,
         \A id \in RunIds : runs'[id].state = "active" => runs'[id] = runs[id],
         \A h \in Passed' : h \in Passed,
         \A a : \A h \in PassedFor(a)' : h \in PassedFor(a)
  PROVE  ComingRunsFit'
<1>1. \A a : Active' \in SUBSET Active /\ ActiveOf(a)' \in SUBSET ActiveOf(a)
  BY DEF Active, ActiveOf
<1>2. \A a : Passed' \in SUBSET Passed /\ PassedFor(a)' \in SUBSET PassedFor(a)
  OBVIOUS
<1>3. Cardinality(Active') + Cardinality(Passed') <= Cardinality(Active) + Cardinality(Passed)
  BY <1>1, <1>2, Counts, CountShrinks
<1>4. \A a : Cardinality(ActiveOf(a)') + Cardinality(PassedFor(a)')
               <= Cardinality(ActiveOf(a)) + Cardinality(PassedFor(a))
  BY <1>1, <1>2, Counts, CountShrinks
<1>5. Cardinality(Active') \in Nat /\ Cardinality(Passed') \in Nat
  <2>1. Active' \in SUBSET RunIds /\ Passed' \in SUBSET Handlers
    BY <1>1, <1>2, Counts
  <2>2. QED
    BY <2>1, RunsFinite, HandlersFinite
<1>6. \A a : Cardinality(ActiveOf(a)') \in Nat /\ Cardinality(PassedFor(a)') \in Nat
  <2>1. \A a : ActiveOf(a)' \in SUBSET RunIds /\ PassedFor(a)' \in SUBSET Handlers
    BY <1>1, <1>2, Counts
  <2>2. QED
    BY <2>1, RunsFinite, HandlersFinite
<1>7. Cardinality(Active') + Cardinality(Passed') < QueueLimit + Cardinality(Processes)
  BY <1>3, <1>5, Counts, ProcessesFinite, AdmissionAssumption DEF ComingRunsFit
<1>8. ASSUME NEW q \in Requests
      PROVE  Cardinality(ActiveOf(q.analyst)') + Cardinality(PassedFor(q.analyst)')
               < PerAnalystLimit + Cardinality(Processes)
  <2> DEFINE a == q.analyst
  <2>1. Cardinality(ActiveOf(a)) + Cardinality(PassedFor(a))
          < PerAnalystLimit + Cardinality(Processes)
    BY DEF ComingRunsFit
  <2> HIDE DEF a
  <2>2. Cardinality(ActiveOf(a)') + Cardinality(PassedFor(a)')
          < PerAnalystLimit + Cardinality(Processes)
    BY <1>4, <1>6, <2>1, Counts, ProcessesFinite, AdmissionAssumption
  <2>3. QED
    BY <2>2 DEF a
<1>9. QED
  BY <1>7, <1>8 DEF ComingRunsFit

\* A handler that finds room below a limit: those that have passed the count with
\* it are of different processes.
LEMMA RoomForAll ==
  ASSUME NEW limit \in Nat, NEW A \in SUBSET RunIds, NEW P \in SUBSET Handlers,
         Cardinality(A) < limit,
         \A g, h \in P : ProcessOf[g] = ProcessOf[h] => g = h
  PROVE  Cardinality(A) + Cardinality(P) < limit + Cardinality(Processes)
<1>1. Cardinality(P) <= Cardinality(Processes)
  BY OnePerProcess
<1>2. Cardinality(A) \in Nat /\ Cardinality(P) \in Nat /\ Cardinality(Processes) \in Nat
  BY RunsFinite, HandlersFinite, ProcessesFinite
<1>3. QED
  BY <1>1, <1>2

\* A handler that goes on stays with its request.
LEMMA Moving ==
  ASSUME IInv, NEW h \in Handlers, NEW pc, Move(h, pc)
  PROVE  /\ handler'[h] = [handler[h] EXCEPT !.pc = pc]
         /\ handler'[h].pc = pc /\ handler'[h].request = handler[h].request
         /\ \A g \in Handlers : g # h => handler'[g] = handler[g]
<1>1. handler \in [Handlers -> HandlerType]
  BY DEF IInv, TypeOK
<1>2. QED
  BY <1>1 DEF Move, HandlerType

LEMMA Leaving ==
  ASSUME IInv, NEW h \in Handlers, Leave(h)
  PROVE  /\ handler'[h].pc = "idle"
         /\ \A g \in Handlers : g # h => handler'[g] = handler[g]
<1>1. handler \in [Handlers -> HandlerType]
  BY DEF IInv, TypeOK
<1>2. QED
  BY <1>1 DEF Leave, IdleHandler

LEMMA NobodyPasses ==
  ASSUME NEW h \in Handlers,
         \A g \in Handlers : g # h => handler'[g] = handler[g],
         \/ handler'[h].pc \notin {"all", "issuer", "insert", "commit"}
         \/ /\ handler[h].pc \in {"issuer", "insert", "commit"}
            /\ handler'[h].request = handler[h].request
  PROVE  /\ \A g \in Passed' : g \in Passed
         /\ \A a : \A g \in PassedFor(a)' : g \in PassedFor(a)
BY DEF Passed, PassedFor, RequestOf

LEMMA MinePasses ==
  ASSUME IInv, LockHolds', ComingRunsFit, NEW h \in Handlers, CountMine(h), Move(h, "all")
  PROVE  ComingRunsFit'
<1> DEFINE mine == handler[h].request.analyst
<1>1. /\ handler[h].pc = "mine" /\ runs' = runs
      /\ handler'[h].pc = "all" /\ handler'[h].request = handler[h].request
      /\ \A g \in Handlers : g # h => handler'[g] = handler[g]
  BY Moving DEF CountMine, Check, At
<1>2. Cardinality(ActiveOf(mine)) < PerAnalystLimit
  <2>1. CASE Cardinality(ActiveOf(mine)) < PerAnalystLimit
    BY <2>1
  <2>2. CASE ~(Cardinality(ActiveOf(mine)) < PerAnalystLimit)
    <3>1. Leave(h)
      BY <2>2 DEF CountMine, Check, RequestOf
    <3>2. QED
      BY <1>1, <3>1, Leaving
  <2>3. QED
    BY <2>1, <2>2
<1>3. Active' = Active /\ Passed' = Passed /\ \A a : ActiveOf(a)' = ActiveOf(a)
  BY <1>1 DEF Active, Passed, ActiveOf
<1>4. ASSUME NEW q \in Requests
      PROVE  Cardinality(ActiveOf(q.analyst)') + Cardinality(PassedFor(q.analyst)')
               < PerAnalystLimit + Cardinality(Processes)
  <2> DEFINE a == q.analyst
             P == PassedFor(a)'
  <2>1. CASE a = mine
    <3>1. P \in SUBSET Handlers /\ ActiveOf(a) \in SUBSET RunIds
      BY Counts DEF PassedFor
    <3>2. \A g \in P : handler'[g].pc # "idle"
      BY DEF PassedFor
    <3>3. \A g, k \in P : ProcessOf[g] = ProcessOf[k] => g = k
      BY <3>1, <3>2 DEF LockHolds
    <3>4. Cardinality(ActiveOf(a)) < PerAnalystLimit
      BY <1>2, <2>1
    <3> HIDE DEF a, P
    <3>5. Cardinality(ActiveOf(a)) + Cardinality(P) < PerAnalystLimit + Cardinality(Processes)
      BY <3>1, <3>3, <3>4, RoomForAll, AdmissionAssumption
    <3>6. QED
      BY <1>3, <3>5 DEF a, P
  <2>2. CASE a # mine
    <3>1. PassedFor(a)' = PassedFor(a)
      BY <1>1, <2>2 DEF PassedFor, RequestOf
    <3>2. Cardinality(ActiveOf(a)) + Cardinality(PassedFor(a))
            < PerAnalystLimit + Cardinality(Processes)
      BY DEF ComingRunsFit
    <3>3. QED
      BY <1>3, <3>1, <3>2
  <2>3. QED
    BY <2>1, <2>2
<1>5. QED
  BY <1>3, <1>4 DEF ComingRunsFit

LEMMA AllPasses ==
  ASSUME IInv, LockHolds', ComingRunsFit, NEW h \in Handlers, CountAll(h), Move(h, "issuer")
  PROVE  ComingRunsFit'
<1>1. /\ handler[h].pc = "all" /\ runs' = runs
      /\ handler'[h].pc = "issuer" /\ handler'[h].request = handler[h].request
      /\ \A g \in Handlers : g # h => handler'[g] = handler[g]
  BY Moving DEF CountAll, Check, At
<1>2. Cardinality(Active) < QueueLimit
  <2>1. CASE Cardinality(Active) < QueueLimit
    BY <2>1
  <2>2. CASE ~(Cardinality(Active) < QueueLimit)
    <3>1. Leave(h)
      BY <2>2 DEF CountAll, Check
    <3>2. QED
      BY <1>1, <3>1, Leaving
  <2>3. QED
    BY <2>1, <2>2
<1>3. /\ Active' = Active /\ \A a : ActiveOf(a)' = ActiveOf(a)
      /\ \A a : PassedFor(a)' = PassedFor(a)
  BY <1>1 DEF Active, ActiveOf, PassedFor, RequestOf
<1>4. Cardinality(Active) + Cardinality(Passed') < QueueLimit + Cardinality(Processes)
  <2> DEFINE P == Passed'
  <2>1. P \in SUBSET Handlers /\ \A g \in P : handler'[g].pc # "idle"
    BY DEF Passed
  <2>2. \A g, k \in P : ProcessOf[g] = ProcessOf[k] => g = k
    BY <2>1 DEF LockHolds
  <2> HIDE DEF P
  <2>3. Cardinality(Active) + Cardinality(P) < QueueLimit + Cardinality(Processes)
    BY <1>2, <2>1, <2>2, Counts, RoomForAll, AdmissionAssumption
  <2>4. QED
    BY <2>3 DEF P
<1>5. QED
  BY <1>3, <1>4 DEF ComingRunsFit

\* A run that is committed takes the place of its handler.
LEMMA CommitFits ==
  ASSUME IInv, ComingRunsFit, NEW h \in Handlers, Commit(h)
  PROVE  ComingRunsFit'
<1> DEFINE id == handler[h].run
           mine == handler[h].request.analyst
<1>1. /\ handler[h].pc = "commit" /\ id \in RunIds
      /\ runs[id] = [state |-> "inserted", request |-> handler[h].request]
  BY DEF Commit, At, IInv, TypeOK
<1>2. runs \in [RunIds -> RowType] /\ runs' = [runs EXCEPT ![id].state = "active"]
  BY DEF Commit, IInv, TypeOK
<1>3. /\ \A i \in RunIds : i # id => runs'[i] = runs[i]
      /\ runs'[id].request = handler[h].request
  BY <1>1, <1>2
<1>4. handler'[h].pc = "idle" /\ \A g \in Handlers : g # h => handler'[g] = handler[g]
  BY Leaving DEF Commit
<1>5. h \in Passed /\ h \in PassedFor(mine)
  BY <1>1 DEF Passed, PassedFor, RequestOf
<1>6. Passed' \in SUBSET (Passed \ {h}) /\ \A a : PassedFor(a)' \in SUBSET (PassedFor(a) \ {h})
  BY <1>4 DEF Passed, PassedFor, RequestOf
<1>7. Active' \in SUBSET (Active \cup {id})
  BY <1>3 DEF Active
<1>8. \A a : /\ ActiveOf(a)' \in SUBSET (ActiveOf(a) \cup {id})
             /\ a # mine => ActiveOf(a)' \in SUBSET ActiveOf(a)
  BY <1>3 DEF Active, ActiveOf
<1> HIDE DEF id, mine
<1>9. ASSUME NEW A \in SUBSET RunIds, NEW B \in SUBSET (A \cup {id}),
             NEW P \in SUBSET Handlers, h \in P, NEW Q \in SUBSET (P \ {h})
      PROVE  /\ Cardinality(B) + Cardinality(Q) <= Cardinality(A) + Cardinality(P)
             /\ Cardinality(B) + Cardinality(Q) \in Nat
             /\ Cardinality(A) + Cardinality(P) \in Nat
  <2> DEFINE A1 == A \cup {id}
             P1 == P \ {h}
  <2>1. A1 \in SUBSET RunIds /\ P1 \in SUBSET Handlers
    BY <1>1
  <2>2. Cardinality(A1) + Cardinality(P1) <= Cardinality(A) + Cardinality(P)
    BY <1>1, <1>9, CountMoves
  <2>3. B \in SUBSET A1 /\ Q \in SUBSET P1
    OBVIOUS
  <2> HIDE DEF A1, P1
  <2>4. Cardinality(B) + Cardinality(Q) <= Cardinality(A1) + Cardinality(P1)
    BY <2>1, <2>3, CountShrinks
  <2>5. B \in SUBSET RunIds /\ Q \in SUBSET Handlers
    BY <2>1, <2>3
  <2>6. /\ Cardinality(A) \in Nat /\ Cardinality(P) \in Nat
        /\ Cardinality(A1) \in Nat /\ Cardinality(P1) \in Nat
    BY <2>1, RunsFinite, HandlersFinite
  <2>7. Cardinality(B) \in Nat /\ Cardinality(Q) \in Nat
    BY <2>5, RunsFinite, HandlersFinite
  <2>8. QED
    BY <2>2, <2>4, <2>6, <2>7
<1>10. Cardinality(Active') + Cardinality(Passed') < QueueLimit + Cardinality(Processes)
  <2>1. /\ Cardinality(Active') + Cardinality(Passed') <= Cardinality(Active) + Cardinality(Passed)
        /\ Cardinality(Active') + Cardinality(Passed') \in Nat
        /\ Cardinality(Active) + Cardinality(Passed) \in Nat
    BY <1>5, <1>6, <1>7, <1>9, Counts
  <2>2. Cardinality(Active) + Cardinality(Passed) < QueueLimit + Cardinality(Processes)
    BY DEF ComingRunsFit
  <2>3. QED
    BY <2>1, <2>2, ProcessesFinite, AdmissionAssumption
<1>11. ASSUME NEW q \in Requests
       PROVE  Cardinality(ActiveOf(q.analyst)') + Cardinality(PassedFor(q.analyst)')
                < PerAnalystLimit + Cardinality(Processes)
  <2> DEFINE a == q.analyst
  <2>1. Cardinality(ActiveOf(a)) + Cardinality(PassedFor(a))
          < PerAnalystLimit + Cardinality(Processes)
    BY DEF ComingRunsFit
  <2> HIDE DEF a
  <2>2. /\ Cardinality(ActiveOf(a)') + Cardinality(PassedFor(a)')
             <= Cardinality(ActiveOf(a)) + Cardinality(PassedFor(a))
        /\ Cardinality(ActiveOf(a)') + Cardinality(PassedFor(a)') \in Nat
        /\ Cardinality(ActiveOf(a)) + Cardinality(PassedFor(a)) \in Nat
    <3>1. CASE a = mine
      BY <1>5, <1>6, <1>8, <1>9, <3>1, Counts
    <3>2. CASE a # mine
      <4>1. ActiveOf(a)' \in SUBSET ActiveOf(a) /\ PassedFor(a)' \in SUBSET PassedFor(a)
        BY <1>6, <1>8, <3>2
      <4>2. ActiveOf(a)' \in SUBSET RunIds /\ PassedFor(a)' \in SUBSET Handlers
        BY <4>1, Counts
      <4>3. Cardinality(ActiveOf(a)') \in Nat /\ Cardinality(PassedFor(a)') \in Nat
        BY <4>2, RunsFinite, HandlersFinite
      <4>4. QED
        BY <4>1, <4>3, Counts, CountShrinks
    <3>3. QED
      BY <3>1, <3>2
  <2>3. Cardinality(ActiveOf(a)') + Cardinality(PassedFor(a)')
          < PerAnalystLimit + Cardinality(Processes)
    BY <2>1, <2>2, ProcessesFinite, AdmissionAssumption
  <2>4. QED
    BY <2>3 DEF a
<1>12. QED
  BY <1>10, <1>11 DEF ComingRunsFit

LEMMA FitStep == IInv /\ LockHolds /\ LockHolds' /\ ComingRunsFit /\ [Next]_vars => ComingRunsFit'
<1> SUFFICES ASSUME IInv, LockHolds, LockHolds', ComingRunsFit, [Next]_vars
             PROVE  ComingRunsFit'
  OBVIOUS
<1>1. ASSUME NEW h \in Handlers, Leave(h),
             \A id \in RunIds : runs'[id].state = "active" => runs'[id] = runs[id]
      PROVE  ComingRunsFit'
  BY <1>1, Leaving, NobodyPasses, NoMoreCome
<1>2. ASSUME NEW h \in Handlers, NEW q \in Requests, Enter(h, q) PROVE ComingRunsFit'
  <2>1. runs' = runs
    BY <1>2 DEF Enter
  <2>2. CASE \E id \in Prior(q) : Replay(h, q, id)
    BY <1>1, <2>1, <2>2 DEF Replay
  <2>3. CASE ~\E id \in Prior(q) : Replay(h, q, id)
    <3>1. handler' = [handler EXCEPT ![h] = [pc |-> "mine", request |-> q, run |-> NoRun]]
      BY <1>2, <2>3 DEF Enter
    <3>2. handler'[h].pc = "mine" /\ \A g \in Handlers : g # h => handler'[g] = handler[g]
      BY <3>1 DEF IInv, TypeOK
    <3>3. QED
      BY <2>1, <3>2, NobodyPasses, NoMoreCome
  <2>4. QED
    BY <2>2, <2>3
<1>3. ASSUME NEW h \in Handlers, CountMine(h) \/ CountAll(h) \/ CheckIssuer(h)
      PROVE  ComingRunsFit'
  <2>1. runs' = runs
    BY <1>3 DEF CountMine, CountAll, CheckIssuer, Check
  <2>2. CASE Leave(h)
    BY <1>1, <2>1, <2>2
  <2>3. CASE ~Leave(h)
    <3>1. CASE CountMine(h)
      BY <2>3, <3>1, MinePasses DEF CountMine, Check
    <3>2. CASE CountAll(h)
      BY <2>3, <3>2, AllPasses DEF CountAll, Check
    <3>3. CASE CheckIssuer(h)
      <4>1. Move(h, "insert") /\ handler[h].pc = "issuer"
        BY <2>3, <3>3 DEF CheckIssuer, Check, At
      <4>2. QED
        BY <2>1, <4>1, Moving, NobodyPasses, NoMoreCome
    <3>4. QED
      BY <1>3, <3>1, <3>2, <3>3
  <2>4. QED
    BY <2>2, <2>3
<1>4. ASSUME NEW h \in Handlers, Insert(h) PROVE ComingRunsFit'
  <2>1. CASE Move(h, "recheck") /\ runs' = runs
    BY <2>1, Moving, NobodyPasses, NoMoreCome
  <2>2. CASE ~(Move(h, "recheck") /\ runs' = runs)
    <3>1. PICK id \in RunIds :
             /\ runs' = [runs EXCEPT ![id] = [state |-> "inserted", request |-> RequestOf(h)]]
             /\ handler' = [handler EXCEPT ![h].pc = "commit", ![h].run = id]
      BY <1>4, <2>2 DEF Insert
    <3>2. \A i \in RunIds : runs'[i].state = "active" => runs'[i] = runs[i]
      BY <3>1 DEF IInv, TypeOK
    <3>3. handler[h].pc = "insert" /\ handler \in [Handlers -> HandlerType]
      BY <1>4 DEF Insert, At, IInv, TypeOK
    <3>4. /\ handler'[h].request = handler[h].request
          /\ \A g \in Handlers : g # h => handler'[g] = handler[g]
      BY <3>1, <3>3 DEF HandlerType
    <3>5. QED
      BY <3>2, <3>3, <3>4, NobodyPasses, NoMoreCome
  <2>3. QED
    BY <2>1, <2>2
<1>5. ASSUME NEW h \in Handlers, Recheck(h) PROVE ComingRunsFit'
  BY <1>1, <1>5 DEF Recheck, Replay
<1>6. ASSUME NEW h \in Handlers, Abort(h) PROVE ComingRunsFit'
  <2>1. \A id \in RunIds : runs'[id].state = "active" => runs'[id] = runs[id]
    BY <1>6 DEF Abort, FreeRow
  <2>2. QED
    BY <1>1, <1>6, <2>1 DEF Abort
<1>7. ASSUME NEW id \in RunIds, RunEnds(id) PROVE ComingRunsFit'
  <2>1. runs \in [RunIds -> RowType] /\ handler' = handler
    BY <1>7 DEF RunEnds, IInv, TypeOK
  <2>2. \A i \in RunIds : runs'[i].state = "active" => runs'[i] = runs[i]
    BY <1>7, <2>1 DEF RunEnds, FreeRow, RowType
  <2>3. /\ \A g \in Passed' : g \in Passed
        /\ \A a : \A g \in PassedFor(a)' : g \in PassedFor(a)
    BY <2>1 DEF Passed, PassedFor, RequestOf
  <2>4. QED
    BY <2>2, <2>3, NoMoreCome
<1>8. CASE UNCHANGED vars
  <2>1. runs' = runs /\ handler' = handler
    BY <1>8 DEF vars
  <2>2. /\ \A g \in Passed' : g \in Passed
        /\ \A a : \A g \in PassedFor(a)' : g \in PassedFor(a)
    BY <2>1 DEF Passed, PassedFor, RequestOf
  <2>3. QED
    BY <2>1, <2>2, NoMoreCome
<1>9. QED
  BY <1>2, <1>3, <1>4, <1>5, <1>6, <1>7, <1>8, CommitFits DEF Next, HandlerStep

LEMMA FitInit == Init => CountInv
<1> SUFFICES ASSUME Init PROVE CountInv
  OBVIOUS
<1>1. \A h \in Handlers : handler[h].pc = "idle"
  BY DEF Init, IdleHandler
<1>2. \A id \in RunIds : runs[id].state = "free"
  BY DEF Init, FreeRow
<1>3. /\ Active = {} /\ Passed = {}
      /\ \A a : ActiveOf(a) = {} /\ PassedFor(a) = {}
  BY <1>1, <1>2 DEF Active, Passed, ActiveOf, PassedFor
<1>4. Cardinality({}) + Cardinality({}) = 0
  BY FS_EmptySet
<1>5. ComingRunsFit
  BY <1>3, <1>4, ProcessesFinite, AdmissionAssumption DEF ComingRunsFit
<1>6. QED
  BY <1>1, <1>5 DEF CountInv, LockHolds

\* However many handlers race, the limits are overrun by one run for each process
\* but the first, in all and for each analyst (_create_run_lock and the counts of
\* create_run).
THEOREM OverrunHasBound == Spec => []OverrunIsBounded
<1>1. Init => CountInv
  BY FitInit
<1>2. IInv /\ CountInv /\ [Next]_vars => CountInv'
  BY LockStep, FitStep DEF CountInv
<1>3. CountInv => OverrunIsBounded
  <2> SUFFICES ASSUME CountInv PROVE OverrunIsBounded
    OBVIOUS
  <2>1. Cardinality(Active) < QueueLimit + Cardinality(Processes)
    BY Counts, ProcessesFinite, AdmissionAssumption DEF CountInv, ComingRunsFit
  <2>2. ASSUME NEW q \in Requests
        PROVE  Cardinality(ActiveOf(q.analyst)) < PerAnalystLimit + Cardinality(Processes)
    BY Counts, ProcessesFinite, AdmissionAssumption DEF CountInv, ComingRunsFit
  <2>3. QED
    BY <2>1, <2>2 DEF OverrunIsBounded
<1>4. QED
  BY <1>1, <1>2, <1>3, Invariant, PTL DEF Spec
=============================================================================
