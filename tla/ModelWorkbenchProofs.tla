------------------------- MODULE ModelWorkbenchProofs -------------------------
(***************************************************************************)
(* Proofs about the model workbench, for any nodes, values and number of   *)
(* revisions.  That the tab shows the server's draft rests on one fact: a  *)
(* write lands only on the revision that its request expects, so an answer *)
(* that is late brings a revision the server has left behind.              *)
(***************************************************************************)
EXTENDS ModelWorkbenchProps, TLAPS

-----------------------------------------------------------------------------
(***************************************************************************)
(* Overrides, edits and groups.                                            *)
(***************************************************************************)

LEMMA AppliedType ==
  ASSUME NEW o \in Overrides, NEW e \in Edits
  PROVE  Applied(o, e) \in Overrides
  BY DraftAssumption DEF Applied, Overrides, Edits

LEMMA KeptType ==
  ASSUME NEW o \in Overrides, NEW c \in SUBSET Nodes
  PROVE  Kept(c, o) \in Overrides
  BY DEF Kept, Overrides

LEMMA CalculatedType ==
  ASSUME NEW o \in Overrides, NEW e \in BOOLEAN
  PROVE  Calculated(o, e) \in Overrides
  BY DEF Calculated, Overrides

LEMMA BlankTypes ==
  Blank \in Overrides /\ NoEdits \in Edits /\ NoDraft \in DraftType
  BY DEF Blank, NoEdits, NoDraft, Overrides, Edits, DraftType

LEMMA GroupIsLogged ==
  ASSUME log \in Seq(GroupType), NEW r, Logged(r)
  PROVE  Group(r) \in GroupType
<1>1. \E i \in DOMAIN log : log[i].rev = r
  BY DEF Logged
<1>2. (CHOOSE i \in DOMAIN log : log[i].rev = r) \in DOMAIN log
  BY <1>1
<1>3. QED
  BY <1>2 DEF Group

\* A request as the server takes it.
IsRequest(q) == /\ q.kind \in Kinds /\ q.rev \in Nat /\ q.of \in Nat
                /\ q.payload \in Overrides /\ q.edits \in Edits
                /\ q.kind \in {"undo", "redo"} => Logged(q.of)
                /\ q.kind = "restore" => q.of \in DOMAIN shelf

LEMMA ResultType ==
  ASSUME log \in Seq(GroupType), shelf \in Seq(DraftType),
         NEW q, IsRequest(q), NEW read \in DraftType
  PROVE  Result(q, read) \in Overrides
<1>1. read.overrides \in Overrides
  BY DEF DraftType
<1>2. CASE q.kind = "save"
  BY <1>2 DEF Result, IsRequest
<1>3. CASE q.kind = "commit"
  BY <1>1, <1>3, AppliedType DEF Result, IsRequest
<1>4. CASE q.kind \in {"undo", "redo"}
  <2>1. Group(q.of) \in GroupType
    BY <1>4, GroupIsLogged DEF IsRequest
  <2>2. Desired(q.kind, q.of) \in Overrides
    BY <2>1 DEF Desired, GroupType
  <2>3. Replay(q, read) \in Overrides
    BY <1>1, <2>2 DEF Replay, Overrides
  <2>4. QED
    BY <1>4, <2>3 DEF Result
<1>5. CASE q.kind = "restore"
  <2>1. shelf[q.of] \in DraftType
    BY <1>5 DEF IsRequest
  <2>2. QED
    BY <1>5, <2>1 DEF Result, DraftType
<1>6. CASE q.kind = "checkpoint"
  BY <1>1, <1>6 DEF Result
<1>7. QED
  BY <1>2, <1>3, <1>4, <1>5, <1>6 DEF IsRequest, Kinds

LEMMA AuditType ==
  ASSUME log \in Seq(GroupType), shelf \in Seq(DraftType),
         NEW q, IsRequest(q), NEW read \in DraftType, NEW expired \in BOOLEAN,
         q.kind \notin {"save", "checkpoint"}
  PROVE  Audit(q, read, expired) \in GroupType
<1> DEFINE cells == CASE q.kind = "commit"  -> Touched(q.edits)
                      [] q.kind = "restore" -> {}
                      [] OTHER              -> Group(q.of).cells
           left == Result(q, read)
           before == IF q.kind = "restore" THEN Calculated(left, expired)
                                           ELSE Kept(cells, read.overrides)
           after  == IF q.kind = "restore" THEN Calculated(left, expired) ELSE Kept(cells, left)
<1>1. cells \in SUBSET Nodes
  <2>1. Touched(q.edits) \in SUBSET Nodes
    BY DEF Touched
  <2>2. q.kind \in {"undo", "redo"} => Group(q.of).cells \in SUBSET Nodes
    BY GroupIsLogged DEF IsRequest, GroupType
  <2>3. CASE q.kind = "commit"
    BY <2>1, <2>3
  <2>4. CASE q.kind \in {"undo", "redo"}
    BY <2>2, <2>4
  <2>5. CASE q.kind = "restore"
    BY <2>5
  <2>6. QED
    BY <2>3, <2>4, <2>5 DEF IsRequest, Kinds
<1>2. read.overrides \in Overrides /\ Result(q, read) \in Overrides
  BY ResultType DEF DraftType
<1>3. before \in Overrides /\ after \in Overrides
  <2>1. Kept(cells, read.overrides) \in Overrides /\ Kept(cells, left) \in Overrides
    BY <1>1, <1>2, KeptType
  <2>2. Calculated(left, expired) \in Overrides
    BY <1>2, CalculatedType
  <2>3. QED
    BY <2>1, <2>2
<1>4. /\ q.rev + 1 \in Nat
      /\ (IF q.kind = "commit" THEN "edit" ELSE q.kind) \in {"edit", "undo", "redo", "restore"}
      /\ (IF q.kind = "commit" THEN q.rev + 1 ELSE q.of) \in Nat
  BY DEF IsRequest, Kinds
<1>5. Audit(q, read, expired) =
        [rev |-> q.rev + 1, mode |-> IF q.kind = "commit" THEN "edit" ELSE q.kind,
         of |-> IF q.kind = "commit" THEN q.rev + 1 ELSE q.of, cells |-> cells,
         before |-> before, after |-> after]
  BY DEF Audit
<1> HIDE DEF cells, before, after
<1>6. QED
  BY <1>1, <1>3, <1>4, <1>5 DEF GroupType

-----------------------------------------------------------------------------
(***************************************************************************)
(* A write: the draft goes one revision on, the log and the checkpoints    *)
(* only grow.                                                              *)
(***************************************************************************)

ServerType == /\ draft \in DraftType /\ log \in Seq(GroupType)
              /\ shelf \in Seq(DraftType) /\ late \in BOOLEAN

LEMMA Writing ==
  ASSUME ServerType, NEW q, IsRequest(q), NEW read \in DraftType, NEW expired \in BOOLEAN,
         Writes(q, read, expired)
  PROVE  /\ ServerType'
         /\ draft.rev = q.rev /\ draft'.rev = q.rev + 1
         /\ Len(log) <= Len(log') /\ DOMAIN shelf \subseteq DOMAIN shelf'
         /\ \A r : Logged(r) => Logged(r)'
         /\ q.kind # "checkpoint" =>
              draft'.overrides = Result(q, read) /\ shelf' = shelf
         /\ q.kind = "checkpoint" =>
              /\ draft' = [draft EXCEPT !.rev = q.rev + 1]
              /\ Last(shelf') = [rev |-> q.rev + 1, overrides |-> read.overrides,
                                 calc |-> Calculated(read.overrides, expired)]
<1>1. draft.rev = q.rev /\ late' = late /\ q.rev + 1 \in Nat
  BY DEF Writes, Unmoved, IsRequest
<1>2. CASE q.kind = "checkpoint"
  <2> DEFINE checkpoint == [rev |-> q.rev + 1, overrides |-> read.overrides,
                            calc |-> Calculated(read.overrides, expired)]
  <2>1. /\ draft' = [draft EXCEPT !.rev = q.rev + 1] /\ log' = log
        /\ shelf' = Append(shelf, checkpoint)
    BY <1>2 DEF Writes
  <2>2. draft' \in DraftType /\ draft'.rev = q.rev + 1
    BY <1>1, <2>1 DEF ServerType, DraftType
  <2>3. checkpoint \in DraftType
    BY <1>1, CalculatedType DEF DraftType
  <2> HIDE DEF checkpoint
  <2>4. /\ shelf' \in Seq(DraftType) /\ DOMAIN shelf \subseteq DOMAIN shelf'
        /\ Last(shelf') = checkpoint
    BY <2>1, <2>3 DEF ServerType, Last
  <2>5. \A r : Logged(r) => Logged(r)'
    BY <2>1 DEF Logged
  <2>6. QED
    BY <1>1, <1>2, <2>1, <2>2, <2>4, <2>5 DEF ServerType, checkpoint
<1>3. CASE q.kind # "checkpoint"
  <2>1. /\ draft' = [rev |-> q.rev + 1, overrides |-> Result(q, read),
                     calc |-> Calculated(Result(q, read), expired)]
        /\ log' = IF q.kind = "save" THEN log ELSE Append(log, Audit(q, read, expired))
        /\ shelf' = shelf
    BY <1>3 DEF Writes
  <2>2. Result(q, read) \in Overrides /\ Calculated(Result(q, read), expired) \in Overrides
    BY ResultType, CalculatedType DEF ServerType
  <2>3. draft' \in DraftType
    BY <1>1, <2>1, <2>2 DEF DraftType
  <2>4. log' \in Seq(GroupType) /\ Len(log) <= Len(log') /\ \A r : Logged(r) => Logged(r)'
    <3>1. CASE q.kind = "save"
      BY <2>1, <3>1 DEF ServerType, Logged
    <3>2. CASE q.kind # "save"
      <4>1. Audit(q, read, expired) \in GroupType
        BY <1>3, <3>2, AuditType DEF ServerType
      <4>2. log' = Append(log, Audit(q, read, expired))
        BY <2>1, <3>2
      <4>3. log' \in Seq(GroupType) /\ Len(log') = Len(log) + 1
        BY <4>1, <4>2 DEF ServerType
      <4>4. \A i \in DOMAIN log : i \in DOMAIN log' /\ log'[i] = log[i]
        BY <4>1, <4>2 DEF ServerType
      <4>5. QED
        BY <4>3, <4>4 DEF ServerType, Logged
    <3>3. QED
      BY <3>1, <3>2
  <2>5. QED
    BY <1>1, <1>3, <2>1, <2>3, <2>4 DEF ServerType
<1>4. QED
  BY <1>2, <1>3

-----------------------------------------------------------------------------
(***************************************************************************)
(* The steps of the tab that leave the server and the record alone.        *)
(***************************************************************************)

LEMMA IdleType == Idle \in CallType
  BY BlankTypes DEF Idle, CallType, Commands

LEMMA StartsRight == Init => IInv
<1> SUFFICES ASSUME Init PROVE IInv
  OBVIOUS
<1>1. /\ draft = NoDraft /\ log = <<>> /\ shelf = <<>> /\ late = FALSE /\ record = NoDraft
      /\ pending = NoEdits /\ editor = None /\ typed = FALSE /\ preview = NoPreview
      /\ stale = FALSE /\ call = Idle /\ known = 0
      /\ listing = [stage |-> "none", groups |-> 0]
      /\ noticed = FALSE /\ expiry = [stage |-> "none", rev |-> 0]
  BY DEF Init
<1>2. call.stage = "idle" /\ call.groups = 0 /\ call.kind = "preview"
  BY <1>1 DEF Idle
<1>3. TypeOK
  <2>1. preview \in [edits : Edits, result : DraftType]
    BY <1>1, BlankTypes DEF NoPreview
  <2>2. log \in Seq(GroupType) /\ shelf \in Seq(DraftType)
    BY <1>1
  <2>3. /\ listing \in [stage : {"none", "sent", "read"}, groups : Nat]
        /\ expiry \in [stage : {"none", "sent", "same"}, rev : Nat]
    BY <1>1
  <2>4. draft \in DraftType /\ record \in DraftType /\ pending \in Edits /\ call \in CallType
    BY <1>1, BlankTypes, IdleType
  <2>5. /\ editor \in Nodes \cup {None} /\ late \in BOOLEAN /\ typed \in BOOLEAN
        /\ stale \in BOOLEAN /\ noticed \in BOOLEAN /\ known \in Nat
    BY <1>1
  <2>6. QED
    BY <2>1, <2>2, <2>3, <2>4, <2>5 DEF TypeOK
<1>4. HistoriesArePrefixes /\ CallIsAboutSomething /\ CallIsPresent /\ ReadIsRecord
  BY <1>1, <1>2 DEF HistoriesArePrefixes, CallIsAboutSomething, CallIsPresent, ReadIsRecord
<1>5. RecordIsPast /\ RecordIsReal
  BY <1>1 DEF RecordIsPast, RecordIsReal, NoDraft
<1>6. ReplyIsReal /\ PreviewIsOfItsEdits
  BY <1>1, <1>2 DEF ReplyIsReal, PreviewIsOfItsEdits
<1>7. QED
  BY <1>3, <1>4, <1>5, <1>6 DEF IInv

\* What a step does besides: the two action properties.
StepIsRight ==
  /\ call.kind = "commit" /\ call.stage = "read" /\ call'.stage = "done"
       => draft'.overrides = call.shown
  /\ shelf' # shelf =>
       /\ Last(shelf') = draft'
       /\ draft'.calc = Calculated(draft'.overrides, IF call' = call THEN late ELSE call.expired)

\* A step that leaves the draft, the record and the command in flight alone, but
\* for the command's being up to date, and may take the preview away.
LEMMA Aside ==
  ASSUME IInv, draft' = draft, log' = log, shelf' = shelf, record' = record,
         call' = call \/ Outdated, preview' = preview \/ preview' = NoPreview,
         late' \in BOOLEAN, pending' \in Edits, editor' \in Nodes \cup {None},
         typed' \in BOOLEAN, stale' \in BOOLEAN, noticed' \in BOOLEAN,
         known' \in Nat, known' <= Len(log), listing'.groups <= Len(log),
         listing' \in [stage : {"none", "sent", "read"}, groups : Nat],
         expiry' \in [stage : {"none", "sent", "same"}, rev : Nat]
  PROVE  IInv' /\ StepIsRight
<1>1. /\ call' \in CallType
      /\ call'.kind = call.kind /\ call'.stage = call.stage /\ call'.rev = call.rev
      /\ call'.payload = call.payload /\ call'.edits = call.edits /\ call'.of = call.of
      /\ call'.read = call.read /\ call'.expired = call.expired
      /\ call'.reply = call.reply /\ call'.shown = call.shown /\ call'.groups = call.groups
  BY DEF Outdated, IInv, TypeOK, CallType
<1>2. TypeOK'
  <2>1. preview' \in [edits : Edits, result : DraftType]
    BY BlankTypes DEF NoPreview, IInv, TypeOK
  <2>2. QED
    BY <1>1, <2>1 DEF IInv, TypeOK
<1>3. HistoriesArePrefixes' /\ CallIsAboutSomething' /\ CallIsPresent' /\ ReadIsRecord'
  BY <1>1 DEF IInv, HistoriesArePrefixes, CallIsAboutSomething, Logged, CallIsPresent,
              ReadIsRecord, Calculated
<1>4. RecordIsPast' /\ RecordIsReal' /\ ReplyIsReal'
  BY <1>1 DEF IInv, RecordIsPast, RecordIsReal, ReplyIsReal
<1>5. PreviewIsOfItsEdits'
  BY <1>1 DEF IInv, PreviewIsOfItsEdits, Applied
<1>6. StepIsRight
  BY <1>1 DEF StepIsRight
<1>7. QED
  BY <1>2, <1>3, <1>4, <1>5, <1>6 DEF IInv

\* A command is sent with the revision of the tab.
LEMMA Sending ==
  ASSUME IInv, NEW kind \in Commands, NEW payload \in Overrides, NEW edits \in Edits,
         NEW of \in Nat, NEW shown \in Overrides,
         kind \in {"undo", "redo"} => Logged(of),
         kind = "restore" => of \in DOMAIN shelf,
         kind = "preview" => payload = Applied(record.overrides, edits),
         kind = "commit" => shown = Applied(record.overrides, edits),
         Send(kind, record.rev, payload, edits, of, shown)
  PROVE  IInv' /\ StepIsRight
<1>1. /\ draft' = draft /\ log' = log /\ shelf' = shelf /\ late' = late /\ record' = record
      /\ pending' = pending /\ preview' = preview /\ editor' = editor /\ typed' = typed
      /\ stale' = stale /\ known' = known /\ listing' = listing /\ noticed' = noticed
      /\ expiry' = expiry
  BY DEF Send, server, editing
<1>2. call' = [kind |-> kind, stage |-> "sent", rev |-> record.rev, payload |-> payload,
               edits |-> edits, of |-> of, read |-> NoDraft, expired |-> FALSE,
               reply |-> NoDraft, shown |-> shown, current |-> TRUE, groups |-> 0]
  BY DEF Send, Idle
<1>3. call' \in CallType
  BY <1>2, BlankTypes DEF IInv, TypeOK, CallType, DraftType
<1>4. TypeOK'
  BY <1>1, <1>3 DEF IInv, TypeOK
<1>5. HistoriesArePrefixes'
  BY <1>1, <1>2 DEF IInv, TypeOK, HistoriesArePrefixes
<1>6. CallIsAboutSomething'
  BY <1>1, <1>2 DEF CallIsAboutSomething, Logged
<1>7. CallIsPresent' /\ ReadIsRecord' /\ ReplyIsReal'
  BY <1>1, <1>2 DEF CallIsPresent, ReadIsRecord, ReplyIsReal
<1>8. RecordIsPast' /\ RecordIsReal'
  BY <1>1 DEF IInv, RecordIsPast, RecordIsReal
<1>9. PreviewIsOfItsEdits'
  BY <1>1, <1>2 DEF IInv, PreviewIsOfItsEdits, Applied
<1>10. StepIsRight
  BY <1>1, <1>2 DEF StepIsRight
<1>11. QED
  BY <1>4, <1>5, <1>6, <1>7, <1>8, <1>9, <1>10 DEF IInv

-----------------------------------------------------------------------------
(***************************************************************************)
(* The server's part.                                                      *)
(***************************************************************************)

\* A step of the command in flight that changes nothing else.
LEMMA Proceeding ==
  ASSUME IInv, UNCHANGED server, ClientUnchanged, call' \in CallType,
         call'.groups <= Len(log), call'.stage # "sent",
         call'.stage = "done" => call.stage = "sent" /\ call'.kind = "preview",
         call'.stage = "read" =>
           /\ call.stage = "sent" /\ call.kind # "preview"
           /\ call'.kind = call.kind /\ call'.rev = call.rev
           /\ call'.of = call.of /\ call'.edits = call.edits /\ call'.shown = call.shown
           /\ call.kind \in {"commit", "checkpoint"} => call'.read = record
           /\ call.kind = "checkpoint" => record.calc = Calculated(record.overrides, call'.expired),
         call'.kind = "preview" /\ call'.stage = "done" =>
           call'.reply.overrides = Applied(record.overrides, call'.edits)
  PROVE  IInv' /\ StepIsRight
<1>1. /\ draft' = draft /\ log' = log /\ shelf' = shelf /\ late' = late /\ record' = record
      /\ pending' = pending /\ preview' = preview /\ editor' = editor /\ typed' = typed
      /\ stale' = stale /\ known' = known /\ listing' = listing /\ noticed' = noticed
      /\ expiry' = expiry
  BY DEF ClientUnchanged, server, editing
<1>2. TypeOK'
  BY <1>1 DEF IInv, TypeOK
<1>3. HistoriesArePrefixes'
  BY <1>1 DEF IInv, HistoriesArePrefixes
<1>4. CallIsAboutSomething' /\ CallIsPresent' /\ ReadIsRecord'
  BY <1>1 DEF IInv, CallIsAboutSomething, Logged, CallIsPresent, ReadIsRecord, Calculated
<1>5. RecordIsPast' /\ RecordIsReal' /\ ReplyIsReal'
  BY <1>1 DEF IInv, RecordIsPast, RecordIsReal, ReplyIsReal
<1>6. PreviewIsOfItsEdits'
  BY <1>1 DEF IInv, PreviewIsOfItsEdits, Applied
<1>7. StepIsRight
  BY <1>1 DEF StepIsRight
<1>8. QED
  BY <1>2, <1>3, <1>4, <1>5, <1>6, <1>7 DEF IInv

LEMMA Refusing ==
  ASSUME IInv, NEW stage \in {"sent", "read", "done", "listing"}, Reach(stage, "refused"),
         UNCHANGED server, ClientUnchanged
  PROVE  IInv' /\ StepIsRight
<1>1. /\ call' \in CallType /\ call'.stage = "refused" /\ call'.groups = call.groups
  BY DEF IInv, TypeOK, CallType, Reach
<1>2. call.groups <= Len(log)
  BY DEF IInv, HistoriesArePrefixes
<1>3. QED
  BY <1>1, <1>2, Proceeding

LEMMA Previewing ==
  ASSUME IInv, ServePreview
  PROVE  IInv' /\ StepIsRight
<1>1. call \in CallType /\ late \in BOOLEAN /\ call.groups <= Len(log)
  BY DEF IInv, TypeOK, HistoriesArePrefixes
<1>2. /\ call.stage = "sent" /\ call.kind = "preview"
      /\ call.payload = Applied(record.overrides, call.edits)
  BY DEF ServePreview, IInv, PreviewIsOfItsEdits
<1> DEFINE reply == [rev |-> call.rev, overrides |-> call.payload,
                     calc |-> Calculated(call.payload, late)]
<1>3. reply \in DraftType /\ reply.overrides = call.payload
  BY <1>1, CalculatedType DEF CallType, DraftType
<1>4. call' = [call EXCEPT !.stage = "done", !.reply = reply]
  BY DEF ServePreview
<1> HIDE DEF reply
<1>5. /\ call' \in CallType /\ call'.stage = "done" /\ call'.kind = "preview"
      /\ call'.reply = reply /\ call'.edits = call.edits /\ call'.groups = call.groups
  BY <1>1, <1>2, <1>3, <1>4 DEF CallType
<1>6. UNCHANGED server /\ ClientUnchanged
  BY DEF ServePreview
<1>7. QED
  BY <1>1, <1>2, <1>3, <1>5, <1>6, Proceeding

\* What the server reads for a commit or a checkpoint is what the tab knows.
LEMMA Reading ==
  ASSUME IInv, ServeRead
  PROVE  IInv' /\ StepIsRight
<1>1. call \in CallType /\ draft \in DraftType /\ late \in BOOLEAN /\ call.groups <= Len(log)
  BY DEF IInv, TypeOK, HistoriesArePrefixes
<1>2. UNCHANGED server /\ ClientUnchanged /\ call.stage = "sent" /\ call.kind # "preview"
  BY DEF ServeRead
<1>3. CASE ~Accepts(call, draft)
  <2>1. call' = [call EXCEPT !.stage = "refused"]
    BY <1>3 DEF ServeRead
  <2>2. Reach("sent", "refused")
    BY <1>2, <2>1 DEF Reach
  <2>3. QED
    BY <1>2, <2>2, Refusing
<1>4. CASE Accepts(call, draft)
  <2>1. call' = [call EXCEPT !.stage = "read", !.read = draft, !.expired = late]
    BY <1>4 DEF ServeRead
  <2>2. /\ call' \in CallType /\ call'.stage = "read" /\ call'.read = draft
        /\ call'.expired = late
        /\ call'.kind = call.kind /\ call'.rev = call.rev /\ call'.of = call.of
        /\ call'.edits = call.edits /\ call'.shown = call.shown /\ call'.groups = call.groups
    BY <1>1, <2>1 DEF CallType
  <2>3. call.rev = record.rev
    BY <1>2 DEF IInv, CallIsPresent
  <2>4. call.kind = "commit" => draft = record
    BY <1>4, <2>3 DEF Accepts, MayCommit, IInv, RecordIsReal
  <2>5. call.kind = "checkpoint" =>
          draft = record /\ draft.calc = Calculated(draft.overrides, late)
    BY <1>4, <2>3 DEF Accepts, MayCheckpoint, IInv, RecordIsReal
  <2>6. QED
    BY <1>1, <1>2, <2>2, <2>4, <2>5, Proceeding
<1>5. QED
  BY <1>3, <1>4

\* The request that the tab's command is.
LEMMA CallIsRequest ==
  ASSUME IInv, call.stage = "read" \/ call.stage = "sent", call.kind # "preview"
  PROVE  /\ ServerType /\ IsRequest(call) /\ call.read \in DraftType
         /\ call.expired \in BOOLEAN /\ call.rev = record.rev
<1>1. call \in CallType /\ ServerType
  BY DEF IInv, TypeOK, ServerType
<1>2. call.kind \in Kinds /\ call.rev = record.rev
  BY <1>1 DEF CallType, Commands, IInv, CallIsPresent
<1>3. QED
  BY <1>1, <1>2 DEF CallType, IsRequest, IInv, CallIsAboutSomething

\* What is written for the tab is the revision after the tab's.
LEMMA ServingWrite ==
  ASSUME IInv, ServeWrite
  PROVE  IInv' /\ StepIsRight
<1>1. /\ call.stage = "read" /\ Writes(call, call.read, call.expired) /\ ClientUnchanged
      /\ call' = [call EXCEPT !.stage = "done", !.reply = draft']
  BY DEF ServeWrite
<1>2. call.kind # "preview"
  BY <1>1 DEF IInv, ReadIsRecord
<1>3. /\ ServerType /\ IsRequest(call) /\ call.read \in DraftType
      /\ call.expired \in BOOLEAN /\ call.rev = record.rev
  BY <1>1, <1>2, CallIsRequest
<1>4. /\ ServerType'
      /\ draft.rev = call.rev /\ draft'.rev = call.rev + 1
      /\ Len(log) <= Len(log') /\ DOMAIN shelf \subseteq DOMAIN shelf'
      /\ call.kind # "checkpoint" =>
           draft'.overrides = Result(call, call.read) /\ shelf' = shelf
      /\ call.kind = "checkpoint" =>
           /\ draft' = [draft EXCEPT !.rev = call.rev + 1]
           /\ Last(shelf') = [rev |-> call.rev + 1, overrides |-> call.read.overrides,
                              calc |-> Calculated(call.read.overrides, call.expired)]
  BY <1>1, <1>3, Writing
<1>5. record = draft
  BY <1>3, <1>4 DEF IInv, RecordIsReal
<1>6. /\ record' = record /\ pending' = pending /\ preview' = preview /\ editor' = editor
      /\ typed' = typed /\ stale' = stale /\ known' = known /\ listing' = listing
      /\ noticed' = noticed /\ expiry' = expiry
  BY <1>1 DEF ClientUnchanged, editing
<1>7. call \in CallType /\ draft' \in DraftType /\ record \in DraftType
  BY <1>4 DEF IInv, TypeOK, ServerType
<1>8. /\ call' \in CallType /\ call'.stage = "done" /\ call'.reply = draft'
      /\ call'.kind = call.kind /\ call'.groups = call.groups
  BY <1>1, <1>7 DEF CallType
<1>9. TypeOK'
  BY <1>4, <1>6, <1>8 DEF IInv, TypeOK, ServerType
<1>10. HistoriesArePrefixes'
  <2>1. Len(log) \in Nat /\ Len(log') \in Nat /\ known \in Nat /\ listing.groups \in Nat
        /\ call.groups \in Nat
    BY <1>3, <1>4, <1>7 DEF ServerType, IInv, TypeOK, CallType
  <2>2. QED
    BY <1>4, <1>6, <1>8, <2>1 DEF IInv, HistoriesArePrefixes
<1>11. CallIsAboutSomething' /\ CallIsPresent' /\ ReadIsRecord'
  BY <1>8 DEF CallIsAboutSomething, CallIsPresent, ReadIsRecord
<1>12. RecordIsPast' /\ RecordIsReal'
  BY <1>3, <1>4, <1>6, <1>7 DEF RecordIsPast, RecordIsReal, DraftType
<1>13. ReplyIsReal'
  <2>1. call.kind = "checkpoint" => draft' = [record EXCEPT !.rev = draft'.rev]
    BY <1>4, <1>5
  <2>2. QED
    BY <1>6, <1>7, <1>8, <2>1 DEF ReplyIsReal, DraftType
<1>14. PreviewIsOfItsEdits'
  BY <1>2, <1>6, <1>8 DEF IInv, PreviewIsOfItsEdits, Applied
<1>15. call.kind = "commit" => draft'.overrides = call.shown
  <2> SUFFICES ASSUME call.kind = "commit" PROVE draft'.overrides = call.shown
    OBVIOUS
  <2>1. call.read = record /\ call.shown = Applied(record.overrides, call.edits)
    BY <1>1 DEF IInv, ReadIsRecord, PreviewIsOfItsEdits
  <2>2. Result(call, call.read) = Applied(call.read.overrides, call.edits)
    BY DEF Result
  <2>3. QED
    BY <1>4, <2>1, <2>2
<1>16. shelf' # shelf =>
          /\ Last(shelf') = draft'
          /\ draft'.calc = Calculated(draft'.overrides, IF call' = call THEN late ELSE call.expired)
  <2> SUFFICES ASSUME shelf' # shelf
               PROVE  /\ Last(shelf') = draft'
                      /\ draft'.calc = Calculated(draft'.overrides, call.expired)
    BY <1>1, <1>8
  <2>1. /\ call.kind = "checkpoint" /\ call.read = draft
        /\ draft.calc = Calculated(draft.overrides, call.expired)
    BY <1>1, <1>4, <1>5 DEF IInv, ReadIsRecord
  <2>2. draft' = [rev |-> call.rev + 1, overrides |-> draft.overrides, calc |-> draft.calc]
    BY <1>4, <1>5, <1>7, <2>1 DEF DraftType
  <2>3. QED
    BY <1>4, <2>1, <2>2
<1>17. QED
  BY <1>9, <1>10, <1>11, <1>12, <1>13, <1>14, <1>15, <1>16 DEF IInv, StepIsRight

\* Another tab moves the draft away from the tab's revision.
LEMMA ElsewhereWritten ==
  ASSUME IInv, NEW q, IsRequest(q), q.rev = draft.rev, OtherTab(q)
  PROVE  IInv' /\ StepIsRight
<1>1. ServerType /\ draft \in DraftType /\ late \in BOOLEAN /\ Writes(q, draft, late)
  BY DEF IInv, TypeOK, ServerType, OtherTab
<1>2. /\ ServerType'
      /\ draft.rev = q.rev /\ draft'.rev = q.rev + 1
      /\ Len(log) <= Len(log') /\ DOMAIN shelf \subseteq DOMAIN shelf'
      /\ \A r : Logged(r) => Logged(r)'
      /\ q.kind # "checkpoint" => shelf' = shelf
      /\ q.kind = "checkpoint" =>
           /\ draft' = [draft EXCEPT !.rev = q.rev + 1]
           /\ Last(shelf') = [rev |-> q.rev + 1, overrides |-> draft.overrides,
                              calc |-> Calculated(draft.overrides, late)]
  BY <1>1, Writing
<1>3. /\ record' = record /\ pending' = pending /\ preview' = preview /\ editor' = editor
      /\ typed' = typed /\ stale' = stale /\ known' = known /\ listing' = listing
      /\ noticed' = noticed /\ expiry' = expiry /\ call' = call
  BY DEF OtherTab, ClientUnchanged, editing
<1>4. TypeOK'
  BY <1>2, <1>3 DEF IInv, TypeOK, ServerType
<1>5. call \in CallType /\ record \in DraftType /\ known \in Nat /\ listing.groups \in Nat
  BY DEF IInv, TypeOK
<1>6. HistoriesArePrefixes'
  <2>1. Len(log) \in Nat /\ Len(log') \in Nat /\ call.groups \in Nat
    BY <1>1, <1>2, <1>5 DEF ServerType, CallType
  <2>2. QED
    BY <1>2, <1>3, <1>5, <2>1 DEF IInv, HistoriesArePrefixes
<1>7. CallIsAboutSomething'
  BY <1>2, <1>3 DEF IInv, CallIsAboutSomething
<1>8. CallIsPresent' /\ ReadIsRecord'
  BY <1>3 DEF IInv, CallIsPresent, ReadIsRecord, Calculated
<1>9. record.rev \in Nat /\ draft.rev \in Nat /\ call.reply.rev \in Nat
  BY <1>1, <1>5 DEF DraftType, CallType
<1>10. RecordIsPast' /\ RecordIsReal'
  BY <1>2, <1>3, <1>9 DEF IInv, RecordIsPast, RecordIsReal
<1>11. ReplyIsReal'
  BY <1>2, <1>3, <1>9 DEF IInv, ReplyIsReal
<1>12. PreviewIsOfItsEdits'
  BY <1>3 DEF IInv, PreviewIsOfItsEdits, Applied
<1>13. StepIsRight
  <2>1. ASSUME shelf' # shelf
        PROVE  Last(shelf') = draft' /\ draft'.calc = Calculated(draft'.overrides, late)
    <3>1. q.kind = "checkpoint" /\ draft.calc = Calculated(draft.overrides, late)
      BY <1>2, <2>1 DEF OtherTab, Accepts, MayCheckpoint
    <3>2. draft' = [rev |-> q.rev + 1, overrides |-> draft.overrides, calc |-> draft.calc]
      BY <1>1, <1>2, <3>1 DEF DraftType
    <3>3. QED
      BY <1>2, <3>1, <3>2
  <2>2. QED
    BY <1>3, <2>1 DEF StepIsRight
<1>14. QED
  BY <1>4, <1>6, <1>7, <1>8, <1>10, <1>11, <1>12, <1>13 DEF IInv

-----------------------------------------------------------------------------
(***************************************************************************)
(* Answers.                                                                *)
(***************************************************************************)

\* A command ends, or is followed by the history; the tab knows a draft that is
\* the server's if its revision is.
LEMMA Ending ==
  ASSUME IInv, UNCHANGED server, call' \in CallType, call'.groups <= Len(log),
         call'.stage \notin {"sent", "read", "done"},
         record' \in DraftType, record'.rev <= draft.rev,
         record'.rev = draft.rev => record' = draft,
         preview' \in [edits : Edits, result : DraftType],
         preview' # NoPreview =>
           preview'.result.overrides = Applied(record'.overrides, preview'.edits),
         pending' \in Edits, editor' \in Nodes \cup {None}, typed' \in BOOLEAN,
         stale' \in BOOLEAN, noticed' = noticed, expiry' = expiry,
         known' \in Nat, known' <= Len(log), listing'.groups <= Len(log),
         listing' \in [stage : {"none", "sent", "read"}, groups : Nat]
  PROVE  IInv' /\ StepIsRight
<1>1. draft' = draft /\ log' = log /\ shelf' = shelf /\ late' = late
  BY DEF server
<1>2. TypeOK'
  BY <1>1 DEF IInv, TypeOK
<1>3. HistoriesArePrefixes' /\ CallIsAboutSomething' /\ CallIsPresent' /\ ReadIsRecord'
  BY <1>1 DEF HistoriesArePrefixes, CallIsAboutSomething, CallIsPresent, ReadIsRecord
<1>4. RecordIsPast' /\ RecordIsReal' /\ ReplyIsReal'
  BY <1>1 DEF RecordIsPast, RecordIsReal, ReplyIsReal
<1>5. PreviewIsOfItsEdits'
  BY <1>1 DEF PreviewIsOfItsEdits, Applied
<1>6. StepIsRight
  BY <1>1 DEF StepIsRight
<1>7. QED
  BY <1>2, <1>3, <1>4, <1>5, <1>6 DEF IInv

\* What every state of the tab offers for the lemma above.
LEMMA Standing ==
  ASSUME IInv
  PROVE  /\ record \in DraftType /\ record.rev <= draft.rev
         /\ record.rev = draft.rev => record = draft
         /\ preview \in [edits : Edits, result : DraftType]
         /\ preview # NoPreview =>
              preview.result.overrides = Applied(record.overrides, preview.edits)
         /\ pending \in Edits /\ editor \in Nodes \cup {None} /\ typed \in BOOLEAN
         /\ stale \in BOOLEAN /\ noticed \in BOOLEAN /\ late \in BOOLEAN
         /\ known \in Nat /\ known <= Len(log) /\ listing.groups <= Len(log)
         /\ listing \in [stage : {"none", "sent", "read"}, groups : Nat]
         /\ expiry \in [stage : {"none", "sent", "same"}, rev : Nat]
         /\ draft \in DraftType /\ log \in Seq(GroupType) /\ Len(log) \in Nat
         /\ call \in CallType /\ call.groups <= Len(log)
         /\ Idle \in CallType /\ Idle.groups = 0 /\ Idle.stage = "idle"
         /\ NoPreview \in [edits : Edits, result : DraftType]
<1>1. /\ record.rev <= draft.rev
      /\ record.rev = draft.rev => record = draft
      /\ preview # NoPreview =>
           preview.result.overrides = Applied(record.overrides, preview.edits)
  BY DEF IInv, RecordIsPast, RecordIsReal, PreviewIsOfItsEdits
<1>2. known <= Len(log) /\ listing.groups <= Len(log) /\ call.groups <= Len(log)
  BY DEF IInv, HistoriesArePrefixes
<1>3. Idle.groups = 0 /\ Idle.stage = "idle"
  BY DEF Idle
<1>4. NoPreview \in [edits : Edits, result : DraftType]
  BY BlankTypes DEF NoPreview
<1>5. QED
  BY <1>1, <1>2, <1>3, <1>4, IdleType DEF IInv, TypeOK

LEMMA PreviewAnswered ==
  ASSUME IInv, PreviewLands \/ PreviewFails
  PROVE  IInv' /\ StepIsRight
<1>1. /\ UNCHANGED server /\ record' = record /\ pending' = pending /\ editor' = editor
      /\ typed' = typed /\ stale' = stale /\ known' = known /\ listing' = listing
      /\ noticed' = noticed /\ expiry' = expiry /\ call' = Idle
  BY DEF PreviewLands, PreviewFails, server
<1>2. /\ preview' \in [edits : Edits, result : DraftType]
      /\ preview' # NoPreview =>
           preview'.result.overrides = Applied(record.overrides, preview'.edits)
  <2>1. CASE preview' = NoPreview
    BY <2>1, Standing
  <2>2. CASE preview' # NoPreview
    <3>1. /\ call.stage = "done" /\ call.kind = "preview"
          /\ preview' = [edits |-> call.edits, result |-> call.reply]
      BY <2>2 DEF PreviewLands, PreviewFails
    <3>2. call.reply.overrides = Applied(record.overrides, call.edits)
      BY <3>1 DEF IInv, PreviewIsOfItsEdits
    <3>3. call.edits \in Edits /\ call.reply \in DraftType
      BY Standing DEF CallType
    <3>4. QED
      BY <3>1, <3>2, <3>3
  <2>3. QED
    BY <2>1, <2>2
<1>3. QED
  BY <1>1, <1>2, Standing, Ending

LEMMA Adopting ==
  ASSUME IInv, AdoptRecord
  PROVE  IInv' /\ StepIsRight
<1>1. /\ UNCHANGED server /\ known' = known /\ noticed' = noticed /\ expiry' = expiry
      /\ record' = call.reply /\ pending' = NoEdits /\ preview' = NoPreview
      /\ editor' = None /\ typed' = FALSE /\ stale' = FALSE
      /\ call.stage = "done" /\ call.kind # "preview" /\ call.kind # "checkpoint"
  BY DEF AdoptRecord, server
<1>2. /\ record' \in DraftType /\ record'.rev <= draft.rev
      /\ record'.rev = draft.rev => record' = draft
  BY <1>1, Standing DEF IInv, ReplyIsReal, CallType
<1>3. /\ call' \in CallType /\ call'.groups <= Len(log)
      /\ call'.stage \notin {"sent", "read", "done"}
  <2>1. CASE record.rev = 0
    BY <2>1, Standing DEF AdoptRecord
  <2>2. CASE record.rev # 0
    <3>1. call' = [call EXCEPT !.stage = "listing"]
      BY <2>2 DEF AdoptRecord
    <3>2. call' \in CallType /\ call'.stage = "listing" /\ call'.groups = call.groups
      BY <3>1, Standing DEF CallType
    <3>3. QED
      BY <3>2, Standing
  <2>3. QED
    BY <2>1, <2>2
<1>4. /\ listing' \in [stage : {"none", "sent", "read"}, groups : Nat]
      /\ listing'.groups <= Len(log)
  <2>1. listing' = listing \/ listing' = [listing EXCEPT !.stage = "sent"]
    BY DEF AdoptRecord
  <2>2. QED
    BY <2>1, Standing
<1>5. QED
  BY <1>1, <1>2, <1>3, <1>4, Standing, BlankTypes, Ending

LEMMA CheckpointAnswered ==
  ASSUME IInv, CheckpointLands
  PROVE  IInv' /\ StepIsRight
<1>1. /\ UNCHANGED server /\ pending' = pending /\ preview' = preview /\ editor' = editor
      /\ typed' = typed /\ stale' = stale /\ known' = known /\ listing' = listing
      /\ noticed' = noticed /\ expiry' = expiry /\ call' = Idle
      /\ record' = [record EXCEPT !.rev = call.reply.rev]
      /\ call.stage = "done" /\ call.kind = "checkpoint"
  BY DEF CheckpointLands, server, editing
<1>2. /\ record' \in DraftType /\ record'.rev = call.reply.rev
      /\ record'.overrides = record.overrides
  BY <1>1, Standing DEF DraftType, CallType
<1>3. record'.rev <= draft.rev /\ (record'.rev = draft.rev => record' = draft)
  BY <1>1, <1>2 DEF IInv, ReplyIsReal
<1>4. preview' # NoPreview =>
        preview'.result.overrides = Applied(record'.overrides, preview'.edits)
  BY <1>1, <1>2, Standing DEF Applied
<1>5. QED
  BY <1>1, <1>2, <1>3, <1>4, Standing, Ending

LEMMA Listing ==
  ASSUME IInv, CommandFails \/ ListLands \/ ServeList
  PROVE  IInv' /\ StepIsRight
<1>1. /\ UNCHANGED server /\ record' = record /\ pending' = pending /\ preview' = preview
      /\ editor' = editor /\ typed' = typed /\ stale' = stale /\ listing' = listing
      /\ noticed' = noticed /\ expiry' = expiry
  BY DEF CommandFails, ListLands, ServeList, ClientUnchanged, editing, server
<1>2. /\ call' \in CallType /\ call'.groups <= Len(log)
      /\ call'.stage \notin {"sent", "read", "done"}
  <2>1. CASE call' = Idle
    BY <2>1, Standing
  <2>2. CASE call' = [call EXCEPT !.stage = "listed", !.groups = Len(log)]
    <3>1. call \in CallType /\ Len(log) \in Nat
      BY Standing
    <3>2. call' \in CallType /\ call'.stage = "listed" /\ call'.groups = Len(log)
      BY <2>2, <3>1 DEF CallType
    <3>3. QED
      BY <3>1, <3>2
  <2>3. QED
    BY <2>1, <2>2 DEF CommandFails, ListLands, ServeList
<1>3. known' \in Nat /\ known' <= Len(log)
  BY Standing DEF CommandFails, ListLands, ServeList, ClientUnchanged, CallType
<1>4. QED
  BY <1>1, <1>2, <1>3, Standing, Ending DEF Applied

-----------------------------------------------------------------------------
(***************************************************************************)
(* Every step.                                                             *)
(***************************************************************************)

LEMMA AnalystSteps ==
  ASSUME IInv, Analyst
  PROVE  IInv' /\ StepIsRight
<1>1. ASSUME NEW n \in Here, BeginEdit(n) PROVE IInv' /\ StepIsRight
  BY <1>1, Aside, Standing, WorkbenchAssumption DEF BeginEdit, server
<1>2. ASSUME NEW n \in Here, RestoreNode(n) PROVE IInv' /\ StepIsRight
  <2>1. [pending EXCEPT ![n] = IF Active(n) THEN Reset ELSE Untouched] \in Edits
    BY Standing DEF Edits
  <2>2. Queued([pending EXCEPT ![n] = IF Active(n) THEN Reset ELSE Untouched])
    BY <1>2 DEF RestoreNode
  <2>3. QED
    BY <2>1, <2>2, Aside, Standing DEF Queued, server
<1>3. CASE Type \/ CancelEdit
  BY <1>3, Aside, Standing DEF Type, CancelEdit, server
<1>4. ASSUME NEW v \in Values, QueueOverride(v) PROVE IInv' /\ StepIsRight
  <2>1. [pending EXCEPT ![editor] = v] \in Edits
    BY Standing DEF Edits
  <2>2. Queued([pending EXCEPT ![editor] = v])
    BY <1>4 DEF QueueOverride
  <2>3. QED
    BY <2>1, <2>2, Aside, Standing DEF Queued, server
<1>5. CASE SaveSuggestion
  <2>1. Send("save", record.rev, Blank, NoEdits, 0, Blank)
    BY <1>5 DEF SaveSuggestion
  <2>2. QED
    BY <2>1, Sending, BlankTypes DEF Commands, Kinds
<1>6. CASE RecalculateAndSave
  <2>1. Send("save", record.rev, record.overrides, NoEdits, 0, Blank)
    BY <1>6 DEF RecalculateAndSave
  <2>2. record.overrides \in Overrides
    BY Standing DEF DraftType
  <2>3. QED
    BY <2>1, <2>2, Sending, BlankTypes DEF Commands, Kinds
<1>7. CASE PreviewPending
  <2>1. Send("preview", record.rev, Applied(record.overrides, pending), pending, 0, Blank)
    BY <1>7 DEF PreviewPending
  <2>2. Applied(record.overrides, pending) \in Overrides /\ pending \in Edits
    BY Standing, AppliedType DEF DraftType
  <2>3. QED
    BY <2>1, <2>2, Sending, BlankTypes DEF Commands
<1>8. CASE CommitPending
  <2>1. Send("commit", record.rev, Blank, pending, 0, preview.result.overrides)
    BY <1>8 DEF CommitPending
  <2>2. /\ preview.result.overrides \in Overrides /\ pending \in Edits
        /\ preview.result.overrides = Applied(record.overrides, pending)
    BY <1>8, Standing DEF CommitPending, Previewed, DraftType
  <2>3. QED
    BY <2>1, <2>2, Sending, BlankTypes DEF Commands, Kinds
<1>9. ASSUME NEW mode \in {"undo", "redo"}, ReplayHistory(mode) PROVE IInv' /\ StepIsRight
  <2>1. PICK i \in 1..known : Send(mode, record.rev, Blank, NoEdits, log[i].rev, Blank)
    BY <1>9 DEF ReplayHistory
  <2>2. i \in DOMAIN log /\ log[i].rev \in Nat
    <3>1. log \in Seq(GroupType) /\ known \in Nat /\ known <= Len(log)
      BY Standing
    <3>2. i \in 1..Len(log) /\ DOMAIN log = 1..Len(log)
      BY <3>1
    <3>3. log[i] \in GroupType
      BY <3>1, <3>2
    <3>4. QED
      BY <3>2, <3>3 DEF GroupType
  <2>3. Logged(log[i].rev)
    BY <2>2 DEF Logged
  <2>4. QED
    BY <2>1, <2>2, <2>3, Sending, BlankTypes DEF Commands, Kinds
<1>10. CASE CreateCheckpoint
  <2>1. Send("checkpoint", record.rev, record.calc, NoEdits, 0, Blank)
    BY <1>10 DEF CreateCheckpoint
  <2>2. record.calc \in Overrides
    BY Standing DEF DraftType
  <2>3. QED
    BY <2>1, <2>2, Sending, BlankTypes DEF Commands, Kinds
<1>11. ASSUME NEW i \in DOMAIN shelf, RestoreCheckpoint(i) PROVE IInv' /\ StepIsRight
  <2>1. Send("restore", record.rev, Blank, pending, i, Blank)
    BY <1>11 DEF RestoreCheckpoint
  <2>2. i \in Nat
    BY DEF IInv, TypeOK
  <2>3. QED
    BY <2>1, <2>2, Sending, BlankTypes, Standing DEF Commands, Kinds
<1>12. QED
  BY <1>1, <1>2, <1>3, <1>4, <1>5, <1>6, <1>7, <1>8, <1>9, <1>10, <1>11 DEF Analyst

LEMMA AnswerSteps ==
  ASSUME IInv, Answer
  PROVE  IInv' /\ StepIsRight
<1>1. CASE ServeConflict
  <2>1. Reach("read", "refused") /\ UNCHANGED server /\ ClientUnchanged
    BY <1>1 DEF ServeConflict
  <2>2. QED
    BY <2>1, Refusing
<1>2. CASE Lose
  <2>1. /\ \E stage \in {"sent", "read", "done", "listing"} : Reach(stage, "refused")
        /\ UNCHANGED server /\ ClientUnchanged
    BY <1>2 DEF Lose
  <2>2. QED
    BY <2>1, Refusing
<1>3. QED
  BY <1>1, <1>2, Previewing, Reading, ServingWrite, PreviewAnswered, Adopting,
     CheckpointAnswered, Listing DEF Answer

LEMMA BackgroundSteps ==
  ASSUME IInv, Background
  PROVE  IInv' /\ StepIsRight
<1>1. CASE ServeFirstList
  <2>1. listing'.groups <= Len(log) /\ listing' \in [stage : {"none", "sent", "read"}, groups : Nat]
    BY <1>1, Standing DEF ServeFirstList
  <2>2. QED
    BY <1>1, <2>1, Aside, Standing DEF ServeFirstList, server, editing
<1>2. CASE FirstListLands
  <2>1. /\ known' \in Nat /\ known' <= Len(log)
        /\ listing'.groups <= Len(log)
        /\ listing' \in [stage : {"none", "sent", "read"}, groups : Nat]
    BY <1>2, Standing DEF FirstListLands
  <2>2. QED
    BY <1>2, <2>1, Aside, Standing DEF FirstListLands, server, editing
<1>3. CASE ExpiryTimer
  <2>1. record.rev \in Nat
    BY Standing DEF DraftType
  <2>2. QED
    BY <1>3, <2>1, Aside, Standing DEF ExpiryTimer, server
<1>4. CASE ServeExpiry \/ ExpiryLands
  <2>1. expiry' \in [stage : {"none", "sent", "same"}, rev : Nat] /\ stale' \in BOOLEAN
    <3>1. expiry \in [stage : {"none", "sent", "same"}, rev : Nat] /\ stale \in BOOLEAN
      BY Standing
    <3>2. \/ expiry' = [expiry EXCEPT !.stage = "same"]
          \/ expiry' = [stage |-> "none", rev |-> 0]
      BY <1>4 DEF ServeExpiry, ExpiryLands
    <3>3. expiry' \in [stage : {"none", "sent", "same"}, rev : Nat]
      BY <3>1, <3>2
    <3>4. stale' \in BOOLEAN
      BY <1>4, <3>1 DEF ServeExpiry, ExpiryLands
    <3>5. QED
      BY <3>3, <3>4
  <2>2. QED
    BY <1>4, <2>1, Aside, Standing DEF ServeExpiry, ExpiryLands, server, editing
<1>5. CASE Expire
  BY <1>5, Aside, Standing DEF Expire, ClientUnchanged, editing
<1>6. ASSUME NEW edits \in Edits, OtherTab(Request("commit", draft.rev, Blank, edits, 0))
      PROVE  IInv' /\ StepIsRight
  <2>1. IsRequest(Request("commit", draft.rev, Blank, edits, 0))
    BY Standing, BlankTypes DEF IsRequest, Request, Kinds, DraftType
  <2>2. QED
    BY <1>6, <2>1, ElsewhereWritten DEF Request
<1>7. CASE OtherTab(Request("checkpoint", draft.rev, draft.calc, NoEdits, 0))
  <2>1. IsRequest(Request("checkpoint", draft.rev, draft.calc, NoEdits, 0))
    BY Standing, BlankTypes DEF IsRequest, Request, Kinds, DraftType
  <2>2. QED
    BY <1>7, <2>1, ElsewhereWritten DEF Request
<1>8. QED
  BY <1>1, <1>2, <1>3, <1>4, <1>5, <1>6, <1>7 DEF Background, OtherTabs

LEMMA Stepping == IInv /\ [Next]_vars => IInv' /\ (StepIsRight \/ UNCHANGED vars)
<1> SUFFICES ASSUME IInv, [Next]_vars PROVE IInv' /\ (StepIsRight \/ UNCHANGED vars)
  OBVIOUS
<1>1. CASE UNCHANGED vars
  BY <1>1, Aside, Standing DEF vars, server, editing
<1>2. CASE Next
  BY <1>2, AnalystSteps, AnswerSteps, BackgroundSteps DEF Next
<1>3. QED
  BY <1>1, <1>2

-----------------------------------------------------------------------------
(***************************************************************************)
(* The theorems.                                                           *)
(***************************************************************************)

\* The inductive invariant holds.
THEOREM Invariant == Spec => []IInv
<1>1. Init => IInv
  BY StartsRight
<1>2. IInv /\ [Next]_vars => IInv'
  BY Stepping
<1>3. QED
  BY <1>1, <1>2, PTL DEF Spec

\* Every variable keeps its type: an edit is a value, a reset or nothing, and
\* the log and the checkpoints hold what the handlers write (TypeOK).
THEOREM TypeCorrect == Spec => []TypeOK
<1>1. IInv => TypeOK
  BY DEF IInv
<1>2. QED
  BY <1>1, Invariant, PTL

\* While the tab's revision is the server's, the tab shows the server's draft,
\* whatever other tabs write and whichever answers are lost or late
\* (_cas_update, adoptRecord, createCheckpoint).
THEOREM RecordsAreReal == Spec => []RecordIsReal
<1>1. IInv => RecordIsReal
  BY DEF IInv
<1>2. QED
  BY <1>1, Invariant, PTL

\* What a commit leaves is what the analyst was shown (previewPending,
\* commitPending, the batch handler).
THEOREM CommitsArePreviewed == Spec => CommitWasPreviewed
<1>1. IInv /\ [Next]_vars =>
        [call.kind = "commit" /\ call.stage = "read" /\ call'.stage = "done"
           => draft'.overrides = call.shown]_vars
  BY Stepping DEF StepIsRight
<1>2. QED
  BY <1>1, Invariant, PTL DEF Spec, CommitWasPreviewed

\* A new checkpoint is the draft whose revision it carries, with a calculation that
\* counts exactly the overrides that had not expired when it was evaluated
\* (create_model_v2_checkpoint, _reserve_draft_for_checkpoint).
THEOREM CheckpointsAreDrafts == Spec => CheckpointIsTheDraft
<1>1. IInv /\ [Next]_vars =>
        [shelf' # shelf =>
           /\ Last(shelf') = draft'
           /\ draft'.calc = Calculated(draft'.overrides,
                                       IF call' = call THEN late ELSE call.expired)]_vars
  BY Stepping DEF StepIsRight
<1>2. QED
  BY <1>1, Invariant, PTL DEF Spec, CheckpointIsTheDraft

-----------------------------------------------------------------------------
(***************************************************************************)
(* Where an edit is lost.                                                  *)
(***************************************************************************)
EditParts == PendingIsSent /\ EditsHaveRecord

LEMMA EditsStand ==
  ASSUME IInv, EditParts, call' = call \/ Outdated, record' = record, pending' = pending
  PROVE  EditParts'
<1>1. /\ call'.kind = call.kind /\ call'.stage = call.stage /\ call'.edits = call.edits
      /\ call'.reply = call.reply /\ (call'.current => call.current)
  BY DEF Outdated, IInv, TypeOK, CallType
<1>2. QED
  BY <1>1 DEF EditParts, PendingIsSent, EditsHaveRecord

\* Every command is sent with the edits that are pending.
LEMMA EditsSent ==
  ASSUME EditParts, NEW kind, NEW rev, NEW payload, NEW of, NEW shown,
         Send(kind, rev, payload, pending, of, shown)
  PROVE  EditParts'
<1>1. /\ call'.stage = "sent" /\ call'.edits = pending /\ record' = record
      /\ pending' = pending
  BY DEF Send, Idle, editing
<1>2. QED
  BY <1>1 DEF EditParts, PendingIsSent, EditsHaveRecord

LEMMA EditsQueued ==
  ASSUME IInv, EditParts, NEW edits, Queued(edits), record.rev # 0
  PROVE  EditParts'
<1>1. /\ call'.kind = call.kind /\ call'.stage = call.stage /\ call'.reply = call.reply
      /\ call'.current = FALSE /\ record' = record
  BY DEF Queued, Outdated, IInv, TypeOK, CallType
<1>2. QED
  BY <1>1 DEF EditParts, PendingIsSent, EditsHaveRecord

LEMMA EditsOfAnalyst ==
  ASSUME IInv, EditParts, Analyst
  PROVE  EditParts'
<1>1. ASSUME NEW n \in Here, BeginEdit(n) PROVE EditParts'
  BY <1>1, EditsStand DEF BeginEdit
<1>2. CASE Type \/ CancelEdit
  BY <1>2, EditsStand DEF Type, CancelEdit
<1>3. ASSUME NEW n \in Here, RestoreNode(n) PROVE EditParts'
  <2>1. n \in Nodes
    BY WorkbenchAssumption
  <2>2. record.rev # 0
    BY <1>3, <2>1, DraftAssumption DEF RestoreNode, Active, EditParts, EditsHaveRecord,
                                       Blank, NoEdits
  <2>3. QED
    BY <1>3, <2>2, EditsQueued DEF RestoreNode
<1>4. ASSUME NEW v \in Values, QueueOverride(v) PROVE EditParts'
  BY <1>4, EditsQueued DEF QueueOverride
<1>5. CASE PreviewPending \/ CommitPending \/ \E i \in DOMAIN shelf : RestoreCheckpoint(i)
  BY <1>5, EditsSent DEF PreviewPending, CommitPending, RestoreCheckpoint
<1>6. CASE SaveSuggestion
  <2>1. pending = NoEdits
    BY <1>6 DEF SaveSuggestion, EditParts, EditsHaveRecord
  <2>2. QED
    BY <1>6, <2>1, EditsSent DEF SaveSuggestion
<1>7. CASE RecalculateAndSave \/ CreateCheckpoint
  <2>1. pending = NoEdits
    BY <1>7 DEF RecalculateAndSave, CreateCheckpoint, Dirty
  <2>2. QED
    BY <1>7, <2>1, EditsSent DEF RecalculateAndSave, CreateCheckpoint
<1>8. ASSUME NEW mode \in {"undo", "redo"}, ReplayHistory(mode) PROVE EditParts'
  <2>1. pending = NoEdits
    BY <1>8 DEF ReplayHistory, Dirty
  <2>2. PICK i \in 1..known : Send(mode, record.rev, Blank, NoEdits, log[i].rev, Blank)
    BY <1>8 DEF ReplayHistory
  <2>3. QED
    BY <2>1, <2>2, EditsSent
<1>9. QED
  BY <1>1, <1>2, <1>3, <1>4, <1>5, <1>6, <1>7, <1>8 DEF Analyst

LEMMA EditsOfAnswer ==
  ASSUME IInv, EditParts, Answer
  PROVE  EditParts'
<1>1. call \in CallType
  BY Standing
<1>2. ASSUME record' = record, pending' = pending, call'.stage \notin {"sent", "read", "done"}
      PROVE  EditParts'
  BY <1>2 DEF EditParts, PendingIsSent, EditsHaveRecord
<1>3. ASSUME record' = record, pending' = pending, call.stage \in {"sent", "read"},
             call'.edits = call.edits, call'.current = call.current,
             call'.stage = "done" /\ call'.kind # "preview" => call'.reply.rev # 0
      PROVE  EditParts'
  BY <1>3 DEF EditParts, PendingIsSent, EditsHaveRecord
<1>4. CASE ServePreview
  <2>1. /\ call'.edits = call.edits /\ call'.current = call.current
        /\ call'.kind = "preview" /\ call.stage = "sent"
    BY <1>1, <1>4 DEF ServePreview, CallType
  <2>2. QED
    BY <1>3, <1>4, <2>1 DEF ServePreview, ClientUnchanged, editing
<1>5. CASE ServeRead
  <2>1. /\ call'.edits = call.edits /\ call'.current = call.current
        /\ call'.stage \in {"read", "refused"} /\ call.stage = "sent"
    BY <1>1, <1>5 DEF ServeRead, CallType
  <2>2. QED
    BY <1>3, <1>5, <2>1 DEF ServeRead, ClientUnchanged, editing
<1>6. CASE ServeWrite
  <2>1. call.stage = "read" /\ call' = [call EXCEPT !.stage = "done", !.reply = draft']
    BY <1>6 DEF ServeWrite
  <2>2. /\ call'.edits = call.edits /\ call'.current = call.current /\ call'.reply = draft'
    BY <1>1, <2>1 DEF CallType
  <2>3. call.kind # "preview"
    BY <2>1 DEF IInv, ReadIsRecord
  <2>4. ServerType /\ IsRequest(call) /\ call.read \in DraftType
    BY <2>1, <2>3, CallIsRequest
  <2>5. draft'.rev = call.rev + 1 /\ call.rev \in Nat
    BY <1>1, <1>6, <2>4, Writing DEF ServeWrite, CallType
  <2>6. draft'.rev # 0
    BY <2>5
  <2>7. QED
    BY <1>3, <1>6, <2>1, <2>2, <2>6 DEF ServeWrite, ClientUnchanged, editing
<1>7. CASE ServeConflict \/ Lose \/ ServeList
  <2>1. call'.stage \in {"refused", "listed"}
    BY <1>1, <1>7 DEF ServeConflict, Lose, ServeList, Reach, CallType
  <2>2. QED
    BY <1>2, <1>7, <2>1 DEF ServeConflict, Lose, ServeList, ClientUnchanged, editing
<1>8. CASE PreviewLands \/ PreviewFails \/ CommandFails \/ ListLands
  BY <1>2, <1>8, Standing DEF PreviewLands, PreviewFails, CommandFails, ListLands,
                              ClientUnchanged, editing
<1>9. CASE AdoptRecord
  <2>1. record' = call.reply /\ call.reply.rev # 0
    BY <1>9 DEF AdoptRecord, EditParts, EditsHaveRecord
  <2>2. call'.stage \in {"idle", "listing"}
    BY <1>1, <1>9, Standing DEF AdoptRecord, CallType
  <2>3. QED
    BY <2>1, <2>2 DEF EditParts, PendingIsSent, EditsHaveRecord
<1>10. CASE CheckpointLands
  <2>1. record'.rev # 0
    BY <1>10, Standing DEF CheckpointLands, EditParts, EditsHaveRecord, DraftType
  <2>2. call'.stage = "idle"
    BY <1>10, Standing DEF CheckpointLands
  <2>3. QED
    BY <2>1, <2>2 DEF EditParts, PendingIsSent, EditsHaveRecord
<1>11. QED
  BY <1>4, <1>5, <1>6, <1>7, <1>8, <1>9, <1>10 DEF Answer

LEMMA EditStep == EditInv /\ [Next]_vars => EditInv'
<1> SUFFICES ASSUME EditInv, [Next]_vars PROVE EditInv'
  OBVIOUS
<1>1. IInv /\ IInv' /\ EditParts
  BY Stepping DEF EditInv, EditParts
<1>2. CASE Background \/ UNCHANGED vars
  <2>1. record' = record /\ pending' = pending
    <3>1. CASE ServeFirstList \/ FirstListLands \/ ExpiryTimer \/ ServeExpiry \/ ExpiryLands
      BY <3>1 DEF ServeFirstList, FirstListLands, ExpiryTimer, ServeExpiry, ExpiryLands, editing
    <3>2. CASE OtherTabs \/ Expire \/ UNCHANGED vars
      BY <3>2 DEF OtherTabs, OtherTab, Expire, ClientUnchanged, editing, vars
    <3>3. QED
      BY <1>2, <3>1, <3>2 DEF Background
  <2>2. call' = call \/ Outdated
    <3>1. CASE ServeFirstList \/ FirstListLands \/ ExpiryTimer \/ ServeExpiry \/ ExpiryLands
      BY <3>1 DEF ServeFirstList, FirstListLands, ExpiryTimer, ServeExpiry, ExpiryLands
    <3>2. CASE OtherTabs \/ Expire \/ UNCHANGED vars
      BY <3>2 DEF OtherTabs, OtherTab, Expire, vars
    <3>3. QED
      BY <1>2, <3>1, <3>2 DEF Background
  <2>3. QED
    BY <1>1, <2>1, <2>2, EditsStand DEF EditInv, EditParts
<1>3. QED
  BY <1>1, <1>2, EditsOfAnalyst, EditsOfAnswer DEF Next, EditInv, EditParts

\* The pending edits change by the editor of a cell and by the answer of a command.
LEMMA PendingChanges ==
  ASSUME [Next]_vars, pending' # pending
  PROVE  \/ \E n \in Here : RestoreNode(n)
         \/ \E v \in Values : QueueOverride(v)
         \/ AdoptRecord
<1>1. ~UNCHANGED vars /\ ~UNCHANGED editing
  BY DEF vars, editing
<1>2. ASSUME NEW n \in Here, BeginEdit(n) PROVE FALSE
  BY <1>2 DEF BeginEdit
<1>3. ASSUME NEW kind, NEW rev, NEW payload, NEW edits, NEW of, NEW shown,
             Send(kind, rev, payload, edits, of, shown)
      PROVE  FALSE
  BY <1>1, <1>3 DEF Send
<1>4. ~(Type \/ CancelEdit)
  BY DEF Type, CancelEdit
<1>5. CASE Analyst
  BY <1>2, <1>3, <1>4, <1>5 DEF Analyst, SaveSuggestion, RecalculateAndSave, PreviewPending,
     CommitPending, ReplayHistory, CreateCheckpoint, RestoreCheckpoint
<1>6. CASE Answer
  BY <1>1, <1>6 DEF Answer, ServePreview, ServeRead, ServeWrite, ServeConflict, ServeList,
     Lose, PreviewLands, PreviewFails, CheckpointLands, CommandFails, ListLands,
     ClientUnchanged
<1>7. ~Background
  BY <1>1 DEF Background, ServeFirstList, FirstListLands, ExpiryTimer, ServeExpiry,
     ExpiryLands, OtherTabs, OtherTab, Expire, ClientUnchanged
<1>8. QED
  BY <1>1, <1>5, <1>6, <1>7 DEF Next

LEMMA LossStep ==
  ASSUME EditInv, [Next]_vars, NEW n \in Nodes,
         pending[n] # Untouched, pending'[n] = Untouched, Busy, call.edits[n] # pending[n]
  PROVE  ~call.current /\ call.stage = "done" /\ call.kind \in Kinds \ {"checkpoint"}
<1>1. pending' # pending /\ pending \in Edits /\ call \in CallType
  BY Standing DEF EditInv
<1>2. ASSUME NEW m \in Here, RestoreNode(m) PROVE FALSE
  BY <1>2 DEF RestoreNode
<1>3. ASSUME NEW v \in Values, QueueOverride(v) PROVE FALSE
  <2>1. pending' = [pending EXCEPT ![editor] = v]
    BY <1>3 DEF QueueOverride, Queued
  <2>2. pending'[n] = pending[n] \/ pending'[n] = v
    BY <1>1, <2>1 DEF Edits
  <2>3. QED
    BY <2>2, DraftAssumption
<1>4. AdoptRecord
  BY <1>1, <1>2, <1>3, PendingChanges
<1>5. call.stage = "done" /\ call.kind \in Kinds \ {"checkpoint"}
  BY <1>1, <1>4 DEF AdoptRecord, CallType, Commands
<1>6. ~call.current
  BY <1>5 DEF EditInv, PendingIsSent
<1>7. QED
  BY <1>5, <1>6

LEMMA EditsStart == Init => EditInv
<1>1. Init => EditParts
  BY DEF Init, EditParts, PendingIsSent, EditsHaveRecord, Idle, NoDraft
<1>2. QED
  BY <1>1, StartsRight DEF EditInv, EditParts

\* An edit is lost without the analyst knowing only by the answer of a command
\* that had been sent when the edit was queued: every other way out of the
\* pending edits is the commit they were in, a restore that was confirmed with
\* them, or the editor (adoptRecord, queueOverride, restoreNode).
THEOREM OnlyLateEditsAreLost == Spec => LostEditsAreLate
<1>1. EditInv /\ [Next]_vars => EditInv'
  BY EditStep
<1>2. EditInv /\ [Next]_vars =>
        [\A n \in Nodes :
           pending[n] # Untouched /\ pending'[n] = Untouched /\ Busy
             /\ call.edits[n] # pending[n]
           => /\ ~call.current
              /\ call.stage = "done" /\ call.kind \in Kinds \ {"checkpoint"}]_vars
  BY LossStep
<1>3. QED
  BY <1>1, <1>2, EditsStart, PTL DEF Spec, LostEditsAreLate
=============================================================================
