--------------------------- MODULE ModelAuditProofs ---------------------------
(***************************************************************************)
(* That the audit log accounts for the draft, for any nodes, values and    *)
(* number of revisions.  The trail of overrides that the log tells is      *)
(* carried along and gets one more point with every group of events; what  *)
(* makes the point fit is that a request writes only when the draft is     *)
(* still the one that it has read.                                         *)
(***************************************************************************)
EXTENDS ModelWorkbenchProofs

\* The parts of AuditInv that are about the server alone.
LogInv == NothingIsBlank /\ RestoresAreOfShelf /\ AuditAccountsForDraft

Trails(n) == [0..n -> Overrides]

\* A trail that the log tells, up to its end.
Tells(trail) ==
  /\ trail[0] = Blank
  /\ \A i \in 1..Len(log) :
       /\ Found(log[i], trail[i - 1])
       /\ trail[i] = After(log[i], trail[i - 1])
       /\ Left(log[i], trail[i])

LEMMA LogStays ==
  ASSUME LogInv, draft'.rev = 0 => draft.rev = 0, draft'.overrides = draft.overrides,
         log' = log, log \in Seq(GroupType),
         DOMAIN shelf \subseteq DOMAIN shelf', \A i \in DOMAIN shelf : shelf'[i] = shelf[i]
  PROVE  LogInv'
<1>1. NothingIsBlank' /\ RestoresAreOfShelf'
  BY DEF LogInv, NothingIsBlank, RestoresAreOfShelf
<1>2. AuditAccountsForDraft'
  <2>1. PICK trail \in Trails(Len(log)) : Tells(trail) /\ trail[Len(log)] = draft.overrides
    BY DEF LogInv, AuditAccountsForDraft, Trails, Tells
  <2>2. ASSUME NEW i \in 1..Len(log)
        PROVE  After(log[i], trail[i - 1])' = After(log[i], trail[i - 1])
    <3>1. i \in DOMAIN log
      OBVIOUS
    <3>2. log[i].mode = "restore" => shelf'[log[i].of] = shelf[log[i].of]
      BY <3>1 DEF LogInv, RestoresAreOfShelf
    <3>3. QED
      BY <3>2 DEF After
  <2>3. QED
    BY <2>1, <2>2 DEF Trails, Tells, AuditAccountsForDraft, Found, Left, Calculated
<1>3. QED
  BY <1>1, <1>2 DEF LogInv

\* A group that a request appends says what was there before, and what it leaves.
LEMMA GroupFits ==
  ASSUME ServerType, NEW q, IsRequest(q), q.kind \notin {"save", "checkpoint"},
         NEW read \in DraftType, NEW expired \in BOOLEAN,
         q.kind # "restore" => read.overrides = draft.overrides
  PROVE  /\ Found(Audit(q, read, expired), draft.overrides)
         /\ After(Audit(q, read, expired), draft.overrides) = Result(q, read)
         /\ Left(Audit(q, read, expired), Result(q, read))
<1> DEFINE g == Audit(q, read, expired)
           cells == CASE q.kind = "commit"  -> Touched(q.edits)
                      [] q.kind = "restore" -> {}
                      [] OTHER              -> Group(q.of).cells
<1>1. /\ g.cells = cells
      /\ q.kind # "restore" => /\ g.before = Kept(cells, read.overrides)
                               /\ g.after = Kept(cells, Result(q, read))
      /\ q.kind = "restore" => g.after = Calculated(Result(q, read), expired)
      /\ g.mode = "restore" <=> q.kind = "restore"
      /\ q.kind = "restore" => g.of = q.of
  BY DEF Audit, IsRequest, Kinds
<1>2. g \in GroupType
  BY AuditType DEF ServerType
<1> HIDE DEF g
<1>3. cells \in SUBSET Nodes
  BY <1>1, <1>2 DEF GroupType
<1>4. q.kind \in {"commit", "undo", "redo", "restore"}
  BY DEF IsRequest, Kinds
<1>5. Found(g, draft.overrides) /\ Left(g, Result(q, read))
  <2>1. CASE q.kind = "restore"
    BY <1>1, <2>1 DEF Found, Left
  <2>2. CASE q.kind # "restore"
    <3>1. \A n \in cells : g.before[n] = draft.overrides[n]
      BY <1>1, <1>3, <2>2 DEF Kept
    <3>2. QED
      BY <1>1, <2>2, <3>1 DEF Found, Left
  <2>3. QED
    BY <2>1, <2>2
<1>6. After(g, draft.overrides) = Result(q, read)
  <2>1. CASE q.kind = "restore"
    BY <1>1, <2>1 DEF After, Result
  <2>2. CASE q.kind # "restore"
    <3>1. \A n \in Nodes : n \notin cells => Result(q, read)[n] = draft.overrides[n]
      <4>1. CASE q.kind = "commit"
        <5>1. Result(q, read) = Applied(draft.overrides, q.edits) /\ cells = Touched(q.edits)
          BY <2>2, <4>1 DEF Result
        <5>2. \A n \in Nodes : n \notin Touched(q.edits) =>
                 Applied(draft.overrides, q.edits)[n] = draft.overrides[n]
          BY DraftAssumption DEF Applied, Touched
        <5>3. QED
          BY <5>1, <5>2
      <4>2. CASE q.kind \in {"undo", "redo"}
        <5>1. Result(q, read) = Replay(q, read) /\ cells = Group(q.of).cells
          BY <4>2 DEF Result
        <5>2. \A n \in Nodes : n \notin Group(q.of).cells =>
                 Replay(q, read)[n] = draft.overrides[n]
          BY <2>2 DEF Replay
        <5>3. QED
          BY <5>1, <5>2
      <4>3. QED
        BY <1>4, <2>2, <4>1, <4>2
    <3>2. \A n \in cells : g.after[n] = Result(q, read)[n]
      BY <1>1, <1>3 DEF Kept
    <3>3. Result(q, read) \in Overrides
      BY ResultType DEF ServerType
    <3>4. After(g, draft.overrides) =
            [n \in Nodes |-> IF n \in cells THEN g.after[n] ELSE draft.overrides[n]]
      BY <1>1, <2>2 DEF After
    <3> HIDE DEF cells
    <3>5. QED
      BY <3>1, <3>2, <3>3, <3>4 DEF Overrides
  <2>3. QED
    BY <2>1, <2>2
<1>7. QED
  BY <1>1, <1>5, <1>6 DEF g

\* A transaction that writes keeps the log in step with the draft.
LEMMA WriteIsLogged ==
  ASSUME ServerType, LogInv, NEW q, IsRequest(q), NEW read \in DraftType,
         NEW expired \in BOOLEAN, Writes(q, read, expired),
         q.kind \notin {"save", "restore"} => read.overrides = draft.overrides,
         q.kind = "save" => q.payload = draft.overrides
  PROVE  LogInv'
<1>1. /\ ServerType' /\ draft'.rev = q.rev + 1 /\ q.rev \in Nat
      /\ q.kind # "checkpoint" => draft'.overrides = Result(q, read) /\ shelf' = shelf
      /\ q.kind = "checkpoint" => draft' = [draft EXCEPT !.rev = q.rev + 1]
  BY Writing DEF IsRequest
<1>2. draft'.rev # 0
  BY <1>1
<1>3. draft \in DraftType /\ log \in Seq(GroupType) /\ shelf \in Seq(DraftType)
  BY DEF ServerType
<1>4. CASE q.kind = "checkpoint"
  <2> DEFINE checkpoint == [rev |-> q.rev + 1, overrides |-> read.overrides,
                            calc |-> Calculated(read.overrides, expired)]
  <2>1. log' = log /\ shelf' = Append(shelf, checkpoint)
    BY <1>4 DEF Writes
  <2>2. checkpoint \in DraftType
    BY <1>1, CalculatedType DEF DraftType
  <2> HIDE DEF checkpoint
  <2>3. DOMAIN shelf \subseteq DOMAIN shelf' /\ \A i \in DOMAIN shelf : shelf'[i] = shelf[i]
    BY <1>3, <2>1, <2>2
  <2>4. draft'.overrides = draft.overrides
    BY <1>1, <1>3, <1>4 DEF DraftType
  <2>5. QED
    BY <1>2, <1>3, <2>1, <2>3, <2>4, LogStays
<1>5. CASE q.kind = "save"
  <2>1. draft'.overrides = draft.overrides /\ log' = log
    BY <1>1, <1>5 DEF Writes, Result
  <2>2. QED
    BY <1>1, <1>2, <1>3, <1>5, <2>1, LogStays
<1>6. CASE q.kind \notin {"save", "checkpoint"}
  <2> DEFINE g == Audit(q, read, expired)
             n == Len(log)
  <2>1. log' = Append(log, g) /\ shelf' = shelf /\ draft'.overrides = Result(q, read)
    BY <1>1, <1>6 DEF Writes
  <2>2. g \in GroupType
    BY <1>3, <1>6, AuditType
  <2>3. /\ Found(g, draft.overrides) /\ Left(g, Result(q, read))
        /\ After(g, draft.overrides) = Result(q, read)
    BY <1>6, GroupFits
  <2>4. g.mode = "restore" => g.of \in DOMAIN shelf
    BY <1>6 DEF Audit, IsRequest, Kinds
  <2>5. Result(q, read) \in Overrides
    BY <1>3, ResultType
  <2> HIDE DEF g
  <2>6. /\ n \in Nat /\ Len(log') = n + 1 /\ log'[n + 1] = g
        /\ \A i \in 1..n : log'[i] = log[i]
    BY <1>3, <2>1, <2>2
  <2>7. DOMAIN log = 1..n /\ DOMAIN log' = 1..(n + 1)
    BY <1>3, <2>1, <2>2
  <2>8. NothingIsBlank' /\ RestoresAreOfShelf'
    <3>1. RestoresAreOfShelf'
      <4>1. ASSUME NEW i \in 1..(n + 1), log'[i].mode = "restore" PROVE log'[i].of \in DOMAIN shelf
        <5>1. CASE i = n + 1
          BY <2>4, <2>6, <4>1, <5>1
        <5>2. CASE i # n + 1
          <6>1. i \in 1..n
            BY <2>6, <5>2
          <6>2. QED
            BY <2>6, <2>7, <4>1, <6>1 DEF LogInv, RestoresAreOfShelf
        <5>3. QED
          BY <5>1, <5>2
      <4>2. QED
        BY <2>1, <2>7, <4>1 DEF RestoresAreOfShelf
    <3>2. QED
      BY <1>2, <3>1 DEF NothingIsBlank
  <2>9. PICK trail \in Trails(n) : Tells(trail) /\ trail[n] = draft.overrides
    BY DEF LogInv, AuditAccountsForDraft, Trails, Tells
  <2>10. PICK longer \in [0..(n + 1) -> Overrides] :
           /\ longer[n + 1] = Result(q, read)
           /\ \A i \in 0..n : longer[i] = trail[i]
    <3> DEFINE f == [i \in 0..(n + 1) |-> IF i = n + 1 THEN Result(q, read) ELSE trail[i]]
    <3>1. /\ f \in [0..(n + 1) -> Overrides]
          /\ f[n + 1] = Result(q, read)
          /\ \A i \in 0..n : f[i] = trail[i]
      BY <2>5, <2>6, <2>9 DEF Trails
    <3>2. QED
      BY <3>1
  <2>11. ASSUME NEW i \in 1..(n + 1)
         PROVE  /\ Found(log'[i], longer[i - 1])
                /\ longer[i] = After(log'[i], longer[i - 1])
                /\ Left(log'[i], longer[i])
    <3>1. CASE i = n + 1
      <4>1. longer[i - 1] = draft.overrides
        BY <2>6, <2>9, <2>10, <3>1
      <4>2. QED
        BY <2>3, <2>6, <2>10, <3>1, <4>1
    <3>2. CASE i # n + 1
      <4>1. i \in 1..n /\ i \in 0..n /\ i - 1 \in 0..n
        BY <2>6, <3>2
      <4>2. /\ Found(log[i], trail[i - 1]) /\ Left(log[i], trail[i])
            /\ trail[i] = After(log[i], trail[i - 1])
        BY <2>9, <4>1 DEF Tells
      <4>3. QED
        BY <2>6, <2>10, <4>1, <4>2
    <3>3. QED
      BY <3>1, <3>2
  <2>12. longer[0] = Blank
    BY <2>6, <2>9, <2>10 DEF Tells
  <2>13. AuditAccountsForDraft'
    <3>1. ASSUME NEW i \in 1..(n + 1)
          PROVE  longer[i] = IF log'[i].mode = "restore" THEN shelf'[log'[i].of].overrides
                             ELSE [m \in Nodes |-> IF m \in log'[i].cells THEN log'[i].after[m]
                                                   ELSE longer[i - 1][m]]
      BY <2>1, <2>11 DEF After
    <3>2. longer \in [0..Len(log') -> Overrides] /\ longer[Len(log')] = draft'.overrides
      BY <2>1, <2>6, <2>10
    <3>3. \A i \in 1..Len(log') :
             /\ log'[i].mode # "restore" =>
                  \A m \in log'[i].cells : log'[i].before[m] = longer[i - 1][m]
             /\ log'[i].mode = "restore" =>
                  \E e \in BOOLEAN : log'[i].after = Calculated(longer[i], e)
      BY <2>6, <2>11 DEF Found, Left
    <3>4. \A i \in 1..Len(log') :
             longer[i] = IF log'[i].mode = "restore" THEN shelf'[log'[i].of].overrides
                         ELSE [m \in Nodes |-> IF m \in log'[i].cells THEN log'[i].after[m]
                                               ELSE longer[i - 1][m]]
      BY <2>6, <3>1
    <3>5. QED
      BY <2>12, <3>2, <3>3, <3>4 DEF AuditAccountsForDraft, After, Found, Left, Calculated
  <2>14. QED
    BY <2>8, <2>13 DEF LogInv
<1>7. QED
  BY <1>4, <1>5, <1>6

-----------------------------------------------------------------------------
(***************************************************************************)
(* The command in flight.                                                  *)
(***************************************************************************)
CallInv == ReadIsPast /\ SaveKeepsOverrides

LEMMA CallStays ==
  ASSUME IInv, CallInv, record' = record, call' = call \/ Outdated,
         draft' = draft \/ draft.rev < draft'.rev, draft'.rev \in Nat
  PROVE  CallInv'
<1>1. /\ call'.kind = call.kind /\ call'.stage = call.stage /\ call'.rev = call.rev
      /\ call'.payload = call.payload /\ call'.read = call.read
  BY DEF Outdated, IInv, TypeOK, CallType
<1>2. call.read.rev \in Nat /\ draft.rev \in Nat
  BY DEF IInv, TypeOK, CallType, DraftType
<1>3. ReadIsPast'
  <2>1. CASE draft' = draft
    BY <1>1, <2>1 DEF CallInv, ReadIsPast
  <2>2. CASE draft.rev < draft'.rev
    BY <1>1, <1>2, <2>2 DEF CallInv, ReadIsPast
  <2>3. QED
    BY <2>1, <2>2
<1>4. SaveKeepsOverrides'
  BY <1>1 DEF CallInv, SaveKeepsOverrides
<1>5. QED
  BY <1>3, <1>4 DEF CallInv

LEMMA CallIsElsewhere ==
  ASSUME call'.stage \notin {"sent", "read"}
  PROVE  CallInv'
BY DEF CallInv, ReadIsPast, SaveKeepsOverrides

LEMMA CallIsSent ==
  ASSUME NEW kind, NEW payload, NEW edits, NEW of, NEW shown,
         Send(kind, record.rev, payload, edits, of, shown),
         kind = "save" => payload = IF record.rev = 0 THEN Blank ELSE record.overrides
  PROVE  CallInv'
<1>1. /\ call'.kind = kind /\ call'.stage = "sent" /\ call'.rev = record.rev
      /\ call'.payload = payload /\ record' = record
  BY DEF Send, Idle
<1>2. QED
  BY <1>1 DEF CallInv, ReadIsPast, SaveKeepsOverrides

LEMMA CallIsRead ==
  ASSUME IInv, CallInv, ServeRead
  PROVE  CallInv'
<1>1. /\ call.stage = "sent" /\ call.kind # "preview" /\ draft' = draft /\ record' = record
  BY DEF ServeRead, server, ClientUnchanged
<1>2. call \in CallType /\ draft \in DraftType
  BY DEF IInv, TypeOK
<1>3. CASE ~Accepts(call, draft)
  <2>1. call'.stage = "refused"
    BY <1>2, <1>3 DEF ServeRead, CallType
  <2>2. QED
    BY <2>1, CallIsElsewhere
<1>4. CASE Accepts(call, draft)
  <2>1. call' = [call EXCEPT !.stage = "read", !.read = draft, !.expired = late]
    BY <1>4 DEF ServeRead
  <2>2. /\ call'.kind = call.kind /\ call'.rev = call.rev /\ call'.payload = call.payload
        /\ call'.read = draft
    BY <1>2, <2>1 DEF CallType
  <2>3. call.kind \in {"save", "commit", "undo", "redo", "checkpoint", "restore"}
    BY <1>1, <1>2 DEF CallType, Commands, Kinds
  <2>4. call.kind \notin {"save", "restore"} => draft.rev = call.rev
    BY <1>4, <2>3 DEF Accepts, MayCommit, MayReplay, MayCheckpoint
  <2>5. draft.rev \in Nat
    BY <1>2 DEF DraftType
  <2>6. ReadIsPast'
    BY <1>1, <2>2, <2>4, <2>5 DEF ReadIsPast
  <2>7. SaveKeepsOverrides'
    BY <1>1, <2>2 DEF CallInv, SaveKeepsOverrides
  <2>8. QED
    BY <2>6, <2>7 DEF CallInv
<1>5. QED
  BY <1>3, <1>4

-----------------------------------------------------------------------------
(***************************************************************************)
(* Every step.                                                             *)
(***************************************************************************)

LEMMA LogUntouched ==
  ASSUME IInv, LogInv, draft' = draft, log' = log, shelf' = shelf
  PROVE  LogInv'
BY LogStays DEF IInv, TypeOK

\* A step in which the server writes nothing.
LEMMA AuditAside ==
  ASSUME IInv, AuditInv, draft' = draft, log' = log, shelf' = shelf, CallInv'
  PROVE  AuditInv'
BY LogUntouched DEF AuditInv, LogInv, CallInv

LEMMA AuditOfAnalyst ==
  ASSUME IInv, AuditInv, Analyst
  PROVE  AuditInv'
<1>1. CallInv /\ draft.rev \in Nat
  BY DEF AuditInv, CallInv, IInv, TypeOK, DraftType
<1>2. UNCHANGED server /\ record' = record
  BY DEF Analyst, BeginEdit, RestoreNode, Type, CancelEdit, QueueOverride, Queued,
         SaveSuggestion, RecalculateAndSave, PreviewPending, CommitPending, ReplayHistory,
         CreateCheckpoint, RestoreCheckpoint, Send
<1> SUFFICES CallInv'
  BY <1>2, AuditAside DEF server
<1>3. ASSUME call' = call \/ Outdated PROVE CallInv'
  BY <1>1, <1>2, <1>3, CallStays DEF server
<1>4. CASE \/ \E n \in Here : BeginEdit(n) \/ RestoreNode(n)
           \/ Type \/ CancelEdit \/ \E v \in Values : QueueOverride(v)
  BY <1>3, <1>4 DEF BeginEdit, RestoreNode, Type, CancelEdit, QueueOverride, Queued
<1>5. CASE SaveSuggestion
  <2>1. Send("save", record.rev, Blank, NoEdits, 0, Blank) /\ record.rev = 0
    BY <1>5 DEF SaveSuggestion
  <2>2. QED
    BY <2>1, CallIsSent
<1>6. CASE RecalculateAndSave
  <2>1. /\ Send("save", record.rev, record.overrides, NoEdits, 0, Blank)
        /\ record.rev # 0
    BY <1>6 DEF RecalculateAndSave
  <2>2. QED
    BY <2>1, CallIsSent
<1>7. CASE PreviewPending \/ CommitPending \/ CreateCheckpoint
  BY <1>7, CallIsSent DEF PreviewPending, CommitPending, CreateCheckpoint
<1>8. CASE ReplayHistory("undo") \/ ReplayHistory("redo")
  BY <1>8, CallIsSent DEF ReplayHistory
<1>9. CASE \E i \in DOMAIN shelf : RestoreCheckpoint(i)
  BY <1>9, CallIsSent DEF RestoreCheckpoint
<1>10. QED
  BY <1>4, <1>5, <1>6, <1>7, <1>8, <1>9 DEF Analyst

\* The write of the tab's command is made from the draft that it finds.
LEMMA AuditOfWrite ==
  ASSUME IInv, AuditInv, ServeWrite
  PROVE  AuditInv'
<1>1. /\ call.stage = "read" /\ Writes(call, call.read, call.expired) /\ draft.rev = call.rev
      /\ call' = [call EXCEPT !.stage = "done", !.reply = draft']
  BY DEF ServeWrite, Writes, Unmoved
<1>2. call.kind # "preview"
  BY <1>1 DEF IInv, ReadIsRecord
<1>3. /\ ServerType /\ IsRequest(call) /\ call.read \in DraftType
      /\ call.expired \in BOOLEAN /\ call.rev = record.rev
  BY <1>1, <1>2, CallIsRequest
<1>4. call.kind \notin {"save", "restore"} => call.read.overrides = draft.overrides
  BY <1>1 DEF AuditInv, ReadIsPast
<1>5. call.kind = "save" => call.payload = draft.overrides
  <2>1. record = draft
    BY <1>1, <1>3 DEF IInv, RecordIsReal
  <2>2. QED
    BY <1>1, <2>1 DEF AuditInv, SaveKeepsOverrides, NothingIsBlank
<1>6. LogInv'
  BY <1>1, <1>3, <1>4, <1>5, WriteIsLogged DEF AuditInv, LogInv
<1>7. call'.stage = "done"
  BY <1>1 DEF IInv, TypeOK, CallType
<1>8. QED
  BY <1>6, <1>7, CallIsElsewhere DEF AuditInv, LogInv, CallInv

LEMMA AuditOfAnswer ==
  ASSUME IInv, AuditInv, Answer
  PROVE  AuditInv'
<1>1. call \in CallType /\ Idle.stage = "idle" /\ CallInv
  BY DEF IInv, TypeOK, Idle, AuditInv, CallInv
<1>2. CASE ServeWrite
  BY <1>2, AuditOfWrite
<1>3. CASE ServeRead
  BY <1>1, <1>3, CallIsRead, AuditAside DEF ServeRead, server
<1>4. CASE ~ServeWrite /\ ~ServeRead
  <2>1. call'.stage \notin {"sent", "read"}
    BY <1>1, <1>4 DEF Answer, ServePreview, ServeConflict, ServeList, Lose, Reach, PreviewLands,
                      PreviewFails, AdoptRecord, CheckpointLands, CommandFails, ListLands, CallType
  <2>2. UNCHANGED server
    BY <1>4 DEF Answer, ServePreview, ServeConflict, ServeList, Lose, PreviewLands,
                PreviewFails, AdoptRecord, CheckpointLands, CommandFails, ListLands
  <2>3. QED
    BY <2>1, <2>2, CallIsElsewhere, AuditAside DEF server
<1>5. QED
  BY <1>2, <1>3, <1>4

\* Another tab writes from the draft that it finds, too.
LEMMA AuditOfOthers ==
  ASSUME IInv, AuditInv, NEW q, IsRequest(q), q.kind \in {"commit", "checkpoint"}, OtherTab(q)
  PROVE  AuditInv'
<1>1. /\ Writes(q, draft, late) /\ call' = call /\ record' = record
      /\ ServerType /\ draft \in DraftType /\ late \in BOOLEAN
  BY DEF OtherTab, ClientUnchanged, IInv, TypeOK, ServerType
<1>2. LogInv'
  BY <1>1, WriteIsLogged DEF AuditInv, LogInv
<1>3. draft.rev < draft'.rev /\ draft'.rev \in Nat
  BY <1>1, Writing DEF DraftType, IsRequest
<1>4. CallInv'
  BY <1>1, <1>3, CallStays DEF AuditInv, CallInv
<1>5. QED
  BY <1>2, <1>4 DEF AuditInv, LogInv, CallInv

LEMMA AuditInBackground ==
  ASSUME IInv, AuditInv, Background
  PROVE  AuditInv'
<1>1. CallInv /\ draft.rev \in Nat
  BY DEF AuditInv, CallInv, IInv, TypeOK, DraftType
<1>2. ASSUME draft' = draft, log' = log, shelf' = shelf, record' = record,
             call' = call \/ Outdated
      PROVE  AuditInv'
  BY <1>1, <1>2, CallStays, AuditAside
<1>3. CASE ServeFirstList \/ FirstListLands \/ ExpiryTimer \/ ServeExpiry \/ ExpiryLands
  BY <1>2, <1>3 DEF ServeFirstList, FirstListLands, ExpiryTimer, ServeExpiry, ExpiryLands, server
<1>4. CASE Expire
  BY <1>2, <1>4 DEF Expire, ClientUnchanged
<1>5. CASE OtherTabs
  <2>1. ASSUME NEW edits \in Edits PROVE IsRequest(Request("commit", draft.rev, Blank, edits, 0))
    BY Standing, BlankTypes DEF IsRequest, Request, Kinds, DraftType
  <2>2. IsRequest(Request("checkpoint", draft.rev, draft.calc, NoEdits, 0))
    BY Standing, BlankTypes DEF IsRequest, Request, Kinds, DraftType
  <2>3. ASSUME NEW kind, NEW payload, NEW edits PROVE Request(kind, draft.rev, payload, edits, 0).kind = kind
    BY DEF Request
  <2>4. QED
    BY <1>5, <2>1, <2>2, <2>3, AuditOfOthers DEF OtherTabs
<1>6. QED
  BY <1>3, <1>4, <1>5 DEF Background

LEMMA AuditStarts == Init => AuditInv
<1> SUFFICES ASSUME Init PROVE AuditInv
  OBVIOUS
<1>1. /\ log = <<>> /\ draft.rev = 0 /\ draft.overrides = Blank /\ call.stage = "idle"
  BY DEF Init, NoDraft, Idle
<1>2. Len(log) = 0 /\ DOMAIN log = {} /\ 1..0 = {}
  BY <1>1
<1>3. AuditAccountsForDraft
  <2> DEFINE trail == [i \in 0..0 |-> Blank]
  <2>1. trail \in [0..0 -> Overrides] /\ trail[0] = Blank
    BY BlankTypes
  <2>2. QED
    BY <1>1, <1>2, <2>1 DEF AuditAccountsForDraft
<1>4. QED
  BY <1>1, <1>2, <1>3 DEF AuditInv, ReadIsPast, SaveKeepsOverrides, NothingIsBlank,
                          RestoresAreOfShelf

\* Taken in order, the events of the log and the checkpoints lead to the draft: each
\* event of a cell from the value it says was there, each restore to the checkpoint
\* it names and the calculation it tells, whatever tabs race and whichever answers
\* are lost (the batch, replay and restore handlers).
THEOREM AuditIsComplete == Spec => []AuditAccountsForDraft
<1>1. Init => AuditInv
  BY AuditStarts
<1>2. IInv /\ AuditInv /\ [Next]_vars => AuditInv'
  <2> SUFFICES ASSUME IInv, AuditInv, [Next]_vars PROVE AuditInv'
    OBVIOUS
  <2>1. CASE UNCHANGED vars
    <3>1. /\ draft' = draft /\ log' = log /\ shelf' = shelf /\ record' = record /\ call' = call
          /\ draft.rev \in Nat /\ CallInv
      BY <2>1 DEF vars, server, IInv, TypeOK, DraftType, AuditInv, CallInv
    <3>2. QED
      BY <3>1, CallStays, AuditAside
  <2>2. QED
    BY <2>1, AuditOfAnalyst, AuditOfAnswer, AuditInBackground DEF Next
<1>3. AuditInv => AuditAccountsForDraft
  BY DEF AuditInv
<1>4. QED
  BY <1>1, <1>2, <1>3, Invariant, PTL DEF Spec
=============================================================================
