-------------------------- MODULE ModelWorkbenchProps --------------------------
(***************************************************************************)
(* What the model workbench and its server promise together.               *)
(***************************************************************************)
EXTENDS ModelWorkbench

TypeOK ==
  /\ draft \in DraftType /\ log \in Seq(GroupType) /\ shelf \in Seq(DraftType) /\ late \in BOOLEAN
  /\ record \in DraftType /\ pending \in Edits /\ editor \in Nodes \cup {None} /\ typed \in BOOLEAN
  /\ preview \in [edits : Edits, result : DraftType] /\ stale \in BOOLEAN /\ call \in CallType
  /\ known \in Nat /\ listing \in [stage : {"none", "sent", "read"}, groups : Nat]
  /\ noticed \in BOOLEAN /\ expiry \in [stage : {"none", "sent", "same"}, rev : Nat]

\* While the tab's revision is the server's, the tab shows the server's draft:
\* neither the write of another tab nor a lost or late answer leaves it with
\* other overrides, or another calculation, under the revision it will send as
\* the expected one (_cas_update, adoptRecord, createCheckpoint).
RecordIsReal == record.rev = draft.rev => record = draft

\* What a group of events makes of the overrides it finds.
After(g, found) == IF g.mode = "restore" THEN shelf[g.of].overrides
                   ELSE [n \in Nodes |-> IF n \in g.cells THEN g.after[n] ELSE found[n]]

\* A group of events found these overrides.  Of a restore this says nothing: what
\* its event gives for the calculation before is no record of what was there.
Found(g, found) == g.mode # "restore" => \A n \in g.cells : g.before[n] = found[n]

\* The calculation that the event of a restore gives is of the overrides it left.
Left(g, left) == g.mode = "restore" => \E expired \in BOOLEAN : g.after = Calculated(left, expired)

\* The audit log and the checkpoints account for the overrides of the draft on
\* their own: taken in order, every event of a cell finds it with the value it says
\* was there before, a restore names the checkpoint it leaves and a calculation of
\* it, and what the last event leaves is the draft (the batch, replay and restore
\* handlers write their events in the transaction of the draft).
AuditAccountsForDraft ==
  \E trail \in [0..Len(log) -> Overrides] :
    /\ trail[0] = Blank
    /\ \A i \in 1..Len(log) :
         /\ Found(log[i], trail[i - 1])
         /\ trail[i] = After(log[i], trail[i - 1])
         /\ Left(log[i], trail[i])
    /\ trail[Len(log)] = draft.overrides

\* What a commit leaves is what the analyst was shown before: no edit queued
\* while the preview or the commit was in flight, and no write of another tab,
\* gets into the revision (previewPending, commitPending, the batch handler).
CommitWasPreviewed ==
  [][call.kind = "commit" /\ call.stage = "read" /\ call'.stage = "done"
       => draft'.overrides = call.shown]_vars

\* A new checkpoint is the draft whose revision it carries, and its calculation
\* counts exactly the overrides that had not expired when the handler read the
\* draft; no edit gets between the draft that was read and the one that is bound to
\* the checkpoint (create_model_v2_checkpoint, _reserve_draft_for_checkpoint).
CheckpointIsTheDraft ==
  [][shelf' # shelf =>
       LET expired == IF call' = call THEN late ELSE call.expired  \* another tab's, or this one's
       IN  /\ Last(shelf') = draft'
           /\ draft'.calc = Calculated(draft'.overrides, expired)]_vars

-----------------------------------------------------------------------------
(***************************************************************************)
(* The parts of the inductive invariant IInv.                              *)
(***************************************************************************)

\* The histories that the tab has read, or is reading, are prefixes of the log.
HistoriesArePrefixes ==
  known <= Len(log) /\ listing.groups <= Len(log) /\ call.groups <= Len(log)

\* What a command is about is there: its original group, its checkpoint.
Logged(rev) == \E i \in DOMAIN log : log[i].rev = rev

CallIsAboutSomething ==
  call.stage \in {"sent", "read"} =>
    /\ call.kind \in {"undo", "redo"} => Logged(call.of)
    /\ call.kind = "restore" => call.of \in DOMAIN shelf

\* The tab is never ahead of the server, and a command that has not been carried
\* out expects the revision of the tab.
RecordIsPast == record.rev <= draft.rev

CallIsPresent == call.stage \in {"sent", "read"} => call.rev = record.rev

\* A commit and a checkpoint are computed from the draft that the tab knows, a
\* checkpoint of one that is not stale; a preview is not computed from the draft at
\* all.
ReadIsRecord ==
  call.stage = "read" =>
    /\ call.kind # "preview"
    /\ call.kind \in {"commit", "checkpoint"} => call.read = record
    /\ call.kind = "checkpoint" => call.read.calc = Calculated(call.read.overrides, call.expired)

\* What an answer brings is the draft of its revision, and for a checkpoint what
\* the tab has already, under another revision.
ReplyIsReal ==
  call.stage = "done" /\ call.kind # "preview" =>
    /\ call.reply.rev <= draft.rev
    /\ call.reply.rev = draft.rev =>
         draft = IF call.kind = "checkpoint" THEN [record EXCEPT !.rev = call.reply.rev]
                                             ELSE call.reply

\* A preview, under way or landed, is of its edits over the record.
PreviewIsOfItsEdits ==
  /\ preview # NoPreview => preview.result.overrides = Applied(record.overrides, preview.edits)
  /\ call.kind = "preview" /\ call.stage = "sent" =>
       call.payload = Applied(record.overrides, call.edits)
  /\ call.kind = "preview" /\ call.stage = "done" =>
       call.reply.overrides = Applied(record.overrides, call.edits)
  /\ call.kind = "commit" /\ call.stage \in {"sent", "read"} =>
       call.shown = Applied(record.overrides, call.edits)

IInv == /\ TypeOK /\ HistoriesArePrefixes /\ CallIsAboutSomething
        /\ RecordIsPast /\ RecordIsReal /\ CallIsPresent /\ ReadIsRecord /\ ReplyIsReal
        /\ PreviewIsOfItsEdits

-----------------------------------------------------------------------------
(***************************************************************************)
(* What else AuditAccountsForDraft needs (AuditInv).                       *)
(***************************************************************************)

\* What a command has read is the draft unless the draft has moved on, and all but
\* a save and a restore have compared its revision with the one they expect.
ReadIsPast ==
  call.stage = "read" =>
    /\ call.read.rev <= draft.rev
    /\ call.read.rev = draft.rev => call.read = draft
    /\ call.kind \notin {"save", "restore"} => call.read.rev = call.rev

\* A save only calculates anew: it sends the overrides that the tab has.
SaveKeepsOverrides ==
  call.kind = "save" /\ call.stage \in {"sent", "read"} =>
    call.payload = IF call.rev = 0 THEN Blank ELSE record.overrides

NothingIsBlank == draft.rev = 0 => draft.overrides = Blank

RestoresAreOfShelf ==
  \A i \in DOMAIN log : log[i].mode = "restore" => log[i].of \in DOMAIN shelf

AuditInv == /\ ReadIsPast /\ SaveKeepsOverrides /\ NothingIsBlank
            /\ RestoresAreOfShelf /\ AuditAccountsForDraft

-----------------------------------------------------------------------------
\* An edit leaves the pending ones only as the analyst knows: by the commit it
\* was part of, by the restore of a checkpoint that was confirmed while it was
\* pending, or by hand (adoptRecord, queueOverride).
EditsLeaveKnowingly ==
  [][\A n \in Nodes : pending[n] # Untouched /\ pending'[n] = Untouched /\ Busy
       => call.edits[n] = pending[n]]_vars

-----------------------------------------------------------------------------
(***************************************************************************)
(* Where that fails.                                                       *)
(***************************************************************************)

\* What the answer of a command takes away without the analyst knowing has been
\* queued since the command was sent, and the answer is one that adoptRecord
\* takes.
LostEditsAreLate ==
  [][\A n \in Nodes :
       pending[n] # Untouched /\ pending'[n] = Untouched /\ Busy
         /\ call.edits[n] # pending[n]
       => /\ ~call.current
          /\ call.stage = "done" /\ call.kind \in Kinds \ {"checkpoint"}]_vars

\* A command since whose sending no edit has been queued holds, or has been allowed
\* to discard, all that is pending.
PendingIsSent ==
  call.current /\ call.stage \in {"sent", "read", "done"} => pending = call.edits

\* There is nothing to edit before there is a record, and the tab never loses it.
EditsHaveRecord ==
  /\ record.rev = 0 => record.overrides = Blank /\ pending = NoEdits
  /\ call.stage = "done" /\ call.kind # "preview" => call.reply.rev # 0

EditInv == IInv /\ PendingIsSent /\ EditsHaveRecord
=============================================================================
