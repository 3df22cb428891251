---------------------------- MODULE ModelWorkbench ----------------------------
(***************************************************************************)
(* The override editor of the model workbench (ModelV2Workbench.tsx) in one*)
(* browser tab, over the draft that ModelDraft describes.                  *)
(*                                                                         *)
(* The analyst queues edits locally, asks the server for a preview of them,*)
(* commits them as one revision, walks back and forth through the committed*)
(* revisions, and makes and restores checkpoints.  One command is in flight*)
(* at a time (`busy`), but the editor of a cell stays usable meanwhile.    *)
(* Other tabs of the same analyst write the same draft, and the overrides  *)
(* of derived cells expire.                                                *)
(***************************************************************************)
EXTENDS ModelDraft

CONSTANT Here  \* bound: the cells edited in this tab; other tabs edit any

ASSUME WorkbenchAssumption == Here \subseteq Nodes

VARIABLES
  record,   \* the draft as this tab knows it, revision 0 when there is none
  pending,  \* edits queued and not committed
  editor,   \* the cell whose editor is open, or None
  typed,    \* does the open editor differ from the cell (editorDirty)
  preview,  \* the last preview and the edits it is of
  stale,    \* requiresRecalculation
  call,     \* the command in flight (busy)
  known,    \* how many groups of the log the history shown holds
  listing,  \* the history that is read when the first record appears
  noticed,  \* has the expiry timer fired (overrideNow)
  expiry    \* the draft that is read when the timer has fired

editing == <<pending, editor, typed, preview>>
vars == <<server, record, editing, stale, call, known, listing, noticed, expiry>>

Commands == Kinds \cup {"preview"}

CallType ==
  [kind : Commands, stage : {"idle", "sent", "read", "done", "refused", "listing", "listed"},
   rev : Nat, payload : Overrides, edits : Edits, of : Nat,
   read : DraftType, expired : BOOLEAN, reply : DraftType, shown : Overrides, current : BOOLEAN, groups : Nat]

Idle == [kind |-> "preview", stage |-> "idle", rev |-> 0, payload |-> Blank, edits |-> NoEdits,
         of |-> 0, read |-> NoDraft, expired |-> FALSE, reply |-> NoDraft, shown |-> Blank,
         current |-> FALSE, groups |-> 0]
NoPreview == [edits |-> NoEdits, result |-> NoDraft]

Busy  == call.stage # "idle"
Dirty == pending # NoEdits \/ typed

Init ==
  /\ draft = NoDraft /\ log = <<>> /\ shelf = <<>> /\ late = FALSE
  /\ record = NoDraft /\ pending = NoEdits /\ editor = None /\ typed = FALSE
  /\ preview = NoPreview /\ stale = FALSE /\ call = Idle /\ known = 0
  /\ listing = [stage |-> "none", groups |-> 0]
  /\ noticed = FALSE /\ expiry = [stage |-> "none", rev |-> 0]

-----------------------------------------------------------------------------
(***************************************************************************)
(* What the tab shows.                                                     *)
(***************************************************************************)

\* activeOverrideMap: the overrides of the record that have not expired.
Active(n) == record.overrides[n] # None /\ ~(noticed /\ n \in Derived)

\* selectPreviewCalculation: a preview counts while the edits are the same.
Previewed == preview # NoPreview /\ preview.edits = pending

Without(stack, rev) == SelectSeq(stack, LAMBDA r : r # rev)

\* deriveHistoryReplayCandidates: the original revisions that can be undone
\* and redone, the next one last.
Replayable ==
  LET step(stacks, g) ==
        CASE g.mode = "edit" -> [undo |-> Append(stacks.undo, g.rev), redo |-> <<>>]
          [] g.mode = "undo" -> [undo |-> Without(stacks.undo, g.of),
                                 redo |-> Append(Without(stacks.redo, g.of), g.of)]
          [] g.mode = "redo" -> [undo |-> Append(Without(stacks.undo, g.of), g.of),
                                 redo |-> Without(stacks.redo, g.of)]
          [] OTHER           -> [undo |-> <<>>, redo |-> <<>>]
  IN  FoldLeft(step, [undo |-> <<>>, redo |-> <<>>], SubSeq(log, 1, known))

-----------------------------------------------------------------------------
(***************************************************************************)
(* The editor of a cell.  A change of the edits makes a preview in flight  *)
(* out of date (pendingGenerationRef) and takes the last one away.         *)
(***************************************************************************)
Outdated == call' = [call EXCEPT !.current = FALSE]

BeginEdit(n) ==
  /\ record.rev # 0 /\ ~typed /\ ~Busy
  /\ editor' = n
  /\ UNCHANGED <<server, record, pending, typed, preview, stale, call, known, listing, noticed, expiry>>

Type ==
  /\ editor # None
  /\ typed' = ~typed
  /\ UNCHANGED <<server, record, pending, editor, preview, stale, call, known, listing, noticed, expiry>>

CancelEdit ==
  /\ editor # None
  /\ editor' = None /\ typed' = FALSE
  /\ UNCHANGED <<server, record, pending, preview, stale, call, known, listing, noticed, expiry>>

Queued(edits) ==
  /\ pending' = edits /\ preview' = NoPreview /\ editor' = None /\ typed' = FALSE
  /\ Outdated
  /\ UNCHANGED <<server, record, stale, known, listing, noticed, expiry>>

\* queueOverride, which does not ask whether a command is in flight.
QueueOverride(v) ==
  /\ record.rev # 0 /\ editor # None
  /\ editor \in Derived => ~late
  /\ Queued([pending EXCEPT ![editor] = v])

\* A tab that unsets an edit where it should drop it.
RestoreNodeUnset(n) ==
  /\ ~typed /\ ~Busy
  /\ Active(n) \/ pending[n] \in Values
  /\ Queued([pending EXCEPT ![n] = IF Active(n) THEN Reset ELSE None])

RestoreNode(n) ==
  /\ ~typed /\ ~Busy
  /\ Active(n) \/ pending[n] \in Values
  /\ Queued([pending EXCEPT ![n] = IF Active(n) THEN Reset ELSE Untouched])

-----------------------------------------------------------------------------
(***************************************************************************)
(* The commands.  A call carries the request and what is confirmed with it:*)
(* the edits that a commit sends or that a restore was allowed to discard. *)
(***************************************************************************)
Send(kind, rev, payload, edits, of, shown) ==
  /\ ~Busy
  /\ call' = [Idle EXCEPT !.kind = kind, !.stage = "sent", !.rev = rev, !.payload = payload,
                          !.edits = edits, !.of = of, !.shown = shown, !.current = TRUE]
  /\ UNCHANGED <<server, record, editing, stale, known, listing, noticed, expiry>>

SaveSuggestion ==
  /\ record.rev = 0
  /\ Send("save", 0, Blank, NoEdits, 0, Blank)

RecalculateAndSave ==
  /\ record.rev # 0 /\ stale /\ ~Dirty
  /\ Send("save", record.rev, record.overrides, NoEdits, 0, Blank)

PendingActionAllowed == record.rev # 0 /\ ~stale /\ pending # NoEdits /\ ~typed

PreviewPending ==
  /\ PendingActionAllowed
  /\ Send("preview", record.rev, Applied(record.overrides, pending), pending, 0, Blank)

CommitPending ==
  /\ PendingActionAllowed /\ Previewed
  /\ Send("commit", record.rev, Blank, pending, 0, preview.result.overrides)

\* The event that is replayed is one of the history.
ReplayHistory(mode) ==
  LET candidates == IF mode = "undo" THEN Replayable.undo ELSE Replayable.redo IN
  /\ record.rev # 0 /\ candidates # <<>> /\ ~Dirty
  /\ \E i \in 1..known :
       /\ log[i].rev = Last(candidates)
       /\ Send(mode, record.rev, Blank, NoEdits, log[i].rev, Blank)

CreateCheckpoint ==
  /\ record.rev # 0 /\ ~stale /\ ~Dirty
  /\ Send("checkpoint", record.rev, record.calc, NoEdits, 0, Blank)

\* window.confirm asks whether the edits pending now may be discarded.
RestoreCheckpoint(i) ==
  /\ record.rev # 0
  /\ Send("restore", record.rev, Blank, pending, i, Blank)

-----------------------------------------------------------------------------
(***************************************************************************)
(* The server's part of a command, and of the reads.                       *)
(***************************************************************************)
Reach(stage, next) == call.stage = stage /\ call' = [call EXCEPT !.stage = next]

ClientUnchanged == UNCHANGED <<record, editing, stale, known, listing, noticed, expiry>>

\* calculate_model_v2 only calculates.
ServePreview ==
  /\ call.stage = "sent" /\ call.kind = "preview"
  /\ call' = [call EXCEPT !.stage = "done",
                !.reply = [rev |-> call.rev, overrides |-> call.payload,
                           calc |-> Calculated(call.payload, late)]]
  /\ UNCHANGED server /\ ClientUnchanged

ServeRead ==
  /\ call.stage = "sent" /\ call.kind # "preview"
  /\ call' = IF Accepts(call, draft)
             THEN [call EXCEPT !.stage = "read", !.read = draft, !.expired = late]
             ELSE [call EXCEPT !.stage = "refused"]
  /\ UNCHANGED server /\ ClientUnchanged

ServeWrite ==
  /\ call.stage = "read"
  /\ Writes(call, call.read, call.expired)
  /\ call' = [call EXCEPT !.stage = "done", !.reply = draft']
  /\ ClientUnchanged

ServeConflict ==
  /\ ~Unmoved(call) /\ Reach("read", "refused")
  /\ UNCHANGED server /\ ClientUnchanged

\* The request or its answer is lost: the command may have been done.
Lose ==
  /\ \/ Reach("sent", "refused") \/ Reach("read", "refused") \/ Reach("done", "refused")
     \/ Reach("listing", "refused")
  /\ UNCHANGED server /\ ClientUnchanged

ServeList ==
  /\ call.stage = "listing"
  /\ call' = [call EXCEPT !.stage = "listed", !.groups = Len(log)]
  /\ UNCHANGED server /\ ClientUnchanged

ServeFirstList ==
  /\ listing.stage = "sent"
  /\ listing' \in {[stage |-> "read", groups |-> Len(log)], [stage |-> "none", groups |-> 0]}
  /\ UNCHANGED <<server, record, editing, stale, call, known, noticed, expiry>>

\* refreshExpiredModel: whether the draft read is the one the timer was set for.
\* Any other answer, or none, changes nothing that is modelled.
ServeExpiry ==
  /\ expiry.stage = "sent"
  /\ \/ draft.rev = expiry.rev /\ expiry' = [expiry EXCEPT !.stage = "same"]
     \/ expiry' = [stage |-> "none", rev |-> 0]
  /\ UNCHANGED <<server, record, editing, stale, call, known, listing, noticed>>

\* A write of another tab, whose requests are handled in the same way.
OtherTab(q) ==
  /\ Accepts(q, draft) /\ Writes(q, draft, late)
  /\ UNCHANGED call /\ ClientUnchanged

OtherTabs ==
  \/ \E edits \in Edits \ {NoEdits} : OtherTab(Request("commit", draft.rev, Blank, edits, 0))
  \/ OtherTab(Request("checkpoint", draft.rev, draft.calc, NoEdits, 0))

Expire ==
  /\ ~late /\ late' = TRUE
  /\ UNCHANGED <<draft, log, shelf, call>> /\ ClientUnchanged

-----------------------------------------------------------------------------
(***************************************************************************)
(* What the tab does with an answer.                                       *)
(***************************************************************************)
\* A tab that takes any preview for one of the edits pending when it lands.
PreviewLandsAnyway ==
  /\ call.stage = "done" /\ call.kind = "preview"
  /\ preview' = [edits |-> pending, result |-> call.reply]
  /\ call' = Idle
  /\ UNCHANGED <<server, record, pending, editor, typed, stale, known, listing, noticed, expiry>>

PreviewLands ==
  /\ call.stage = "done" /\ call.kind = "preview"
  /\ preview' = IF call.current THEN [edits |-> call.edits, result |-> call.reply] ELSE NoPreview
  /\ call' = Idle
  /\ UNCHANGED <<server, record, pending, editor, typed, stale, known, listing, noticed, expiry>>

PreviewFails ==
  /\ call.stage = "refused" /\ call.kind = "preview"
  /\ preview' = NoPreview /\ call' = Idle
  /\ UNCHANGED <<server, record, pending, editor, typed, stale, known, listing, noticed, expiry>>

\* adoptRecord, then refreshArtifacts; the first record is followed by the
\* reads of the mount effect instead.
AdoptRecord ==
  /\ call.stage = "done" /\ call.kind \notin {"preview", "checkpoint"}
  /\ record' = call.reply
  /\ pending' = NoEdits /\ preview' = NoPreview /\ editor' = None /\ typed' = FALSE
  /\ stale' = FALSE
  /\ IF record.rev = 0
     THEN call' = Idle /\ listing' = [listing EXCEPT !.stage = "sent"]
     ELSE call' = [call EXCEPT !.stage = "listing"] /\ UNCHANGED listing
  /\ UNCHANGED <<server, known, noticed, expiry>>

\* The record takes the revision that the checkpoint left the draft at.
CheckpointLands ==
  /\ call.stage = "done" /\ call.kind = "checkpoint"
  /\ record' = [record EXCEPT !.rev = call.reply.rev]
  /\ call' = Idle
  /\ UNCHANGED <<server, editing, stale, known, listing, noticed, expiry>>

CommandFails ==
  /\ call.stage = "refused" /\ call.kind # "preview"
  /\ call' = Idle
  /\ UNCHANGED server /\ ClientUnchanged

ListLands ==
  /\ call.stage = "listed"
  /\ known' = call.groups /\ call' = Idle
  /\ UNCHANGED <<server, record, editing, stale, listing, noticed, expiry>>

FirstListLands ==
  /\ listing.stage = "read"
  /\ known' = listing.groups /\ listing' = [stage |-> "none", groups |-> 0]
  /\ UNCHANGED <<server, record, editing, stale, call, noticed, expiry>>

\* The expiry timer of the record: a derived override in it has run out.
ExpiryTimer ==
  /\ late /\ ~noticed /\ \E n \in Derived : record.overrides[n] # None
  /\ noticed' = TRUE /\ stale' = TRUE /\ preview' = NoPreview
  /\ Outdated
  /\ expiry' = [stage |-> "sent", rev |-> record.rev]
  /\ UNCHANGED <<server, record, pending, editor, typed, known, listing>>

ExpiryLands ==
  /\ expiry.stage = "same"
  /\ stale' = TRUE /\ expiry' = [stage |-> "none", rev |-> 0]
  /\ UNCHANGED <<server, record, editing, call, known, listing, noticed>>

-----------------------------------------------------------------------------
Analyst ==
  \/ \E n \in Here : BeginEdit(n) \/ RestoreNode(n)
  \/ Type \/ CancelEdit
  \/ \E v \in Values : QueueOverride(v)
  \/ SaveSuggestion \/ RecalculateAndSave \/ PreviewPending \/ CommitPending
  \/ ReplayHistory("undo") \/ ReplayHistory("redo")
  \/ CreateCheckpoint
  \/ \E i \in DOMAIN shelf : RestoreCheckpoint(i)

\* The steps that take the command in flight to its end.
Answer ==
  \/ ServePreview \/ ServeRead \/ ServeWrite \/ ServeConflict \/ ServeList \/ Lose
  \/ PreviewLands \/ PreviewFails \/ AdoptRecord \/ CheckpointLands \/ CommandFails
  \/ ListLands

Background ==
  \/ ServeFirstList \/ FirstListLands
  \/ ExpiryTimer \/ ServeExpiry \/ ExpiryLands
  \/ OtherTabs \/ Expire

Next == Analyst \/ Answer \/ Background

Spec == Init /\ [][Next]_vars
=============================================================================
