---------------------------- MODULE MonitorAlerts ----------------------------
(***************************************************************************)
(* The triage of persisted alerts: the hook usePersistedMonitorController  *)
(* of the web client, composed with the alert rows of the server           *)
(* (routes/alerts.py) and with another session that changes them.          *)
(*                                                                         *)
(* The hook keeps a list of alerts that it reads page by page, sends one   *)
(* PATCH per alert, and raises a fence when an answer shows that its list  *)
(* is out of date: until a later list lands, nothing may be changed.  The  *)
(* components of the client, and its tests, may call refresh at any time.  *)
(*                                                                         *)
(* One action is one callback of the client, or what a request does at the *)
(* server under the lock of the row; a request that locks nothing reads    *)
(* and writes in two actions.                                              *)
(* A row carries the number of writes to it: what a list or an answer says *)
(* of an alert is as new as its number.                                    *)
(***************************************************************************)
EXTENDS Naturals, Sequences

CONSTANTS
  N,         \* alerts of the list, one on each page
  Targets,   \* <<alert, state>> that the analyst asks for, one alert at a time
  Posts,     \* <<alert, state>> of the other session's POSTs
  MaxWrites  \* [Alerts -> Nat], bound: writes to the row of an alert

\* _STATE_RANK
States  == {"open", "ack", "resolved"}
Rank(s) == CASE s = "open" -> 0 [] s = "ack" -> 1 [] s = "resolved" -> 2

Alerts == 1..N

ASSUME AlertsAssumption == /\ N \in Nat \ {0} /\ MaxWrites \in [Alerts -> Nat]
                           /\ Targets \subseteq Alerts \X States
                           /\ Posts \subseteq Alerts \X States

VARIABLES
  row,       \* [Alerts -> state and number of writes], alert_states
  post,      \* POST /state of another session, between its SELECT and its UPDATE
  patch,     \* [Alerts -> the PATCH in flight], pendingPromisesRef
  load,      \* the current list request, requestRef
  status,    \* statusRef
  fence,     \* authorityReloadRequiredRef
  canMutate, \* canMutateRef
  shown,     \* [Alerts -> the row the analyst sees], eventsRef
  told,      \* [Alerts -> the newest write an answer to a PATCH has spoken of]
  hold,      \* workflowHoldIdsRef: alerts whose failure is to be reviewed
  selected,  \* selectedIdsRef
  batch,     \* the batch acknowledgment in progress, batchRef
  batchFail, \* batchFailureIdsRef
  notice     \* batchErrorAction, "off" without a batch error

server == <<row, post>>
review == <<hold, selected, batchFail, notice>>
vars == <<server, patch, load, status, fence, canMutate, shown, told, review, batch>>

RowType   == [state : States, ver : Nat]
Unread    == [state |-> "open", ver |-> 0]
NoPost    == [alert |-> 0, saw |-> "open", to |-> "open", ver |-> 0]
PostType  == [alert : Alerts \cup {0}, saw : States, to : States, ver : Nat]
PatchType == [at : {"none", "sent", "unlocked", "read", "ok", "conflict", "denied", "failed"},
              saw : States, to : States, ver : Nat]
NoPatch   == [at |-> "none", saw |-> "open", to |-> "open", ver |-> 0]
LoadType  == [at : {"none", "draining", "reading"}, preserve : BOOLEAN, current : BOOLEAN,
              rows : Seq(RowType), can : SUBSET BOOLEAN, ofBatch : BOOLEAN]
NoLoad    == [at |-> "none", preserve |-> FALSE, current |-> TRUE, rows |-> <<>>,
              can |-> {}, ofBatch |-> FALSE]
BatchType == [at : {"idle", "patching", "reloading"}, ids : SUBSET Alerts,
              broken : BOOLEAN, failed : SUBSET Alerts]
NoBatch   == [at |-> "idle", ids |-> {}, broken |-> FALSE, failed |-> {}]

\* A new list request; behind the fence it first waits for the PATCHes in flight.
\* "current" is the comparison of its authorityFenceEpoch with the ref; "preserve"
\* makes a difference to the status only in front of the fence.
NewLoad(preserve, fenced, ofBatch) ==
  [NoLoad EXCEPT !.at = IF fenced THEN "draining" ELSE "reading",
                 !.preserve = preserve /\ ~fenced, !.ofBatch = ofBatch]

Init == /\ row = [a \in Alerts |-> Unread]
        /\ post = NoPost
        /\ patch = [a \in Alerts |-> NoPatch]
        /\ load = NewLoad(FALSE, FALSE, FALSE)
        /\ status = "loading"
        /\ fence = FALSE
        /\ canMutate = FALSE
        /\ shown = [a \in Alerts |-> Unread]
        /\ told = [a \in Alerts |-> 0]
        /\ hold = {}
        /\ selected = {}
        /\ batch = NoBatch
        /\ batchFail = {}
        /\ notice = "off"

Pending == {a \in Alerts : patch[a].at # "none"}

\* No workflow is under way that the analyst has to wait for or to review.
SurfaceIsFree == Pending = {} /\ batch.at = "idle" /\ hold = {}

-----------------------------------------------------------------------------
(***************************************************************************)
(* The server and the other session.                                       *)
(***************************************************************************)

\* A write from a read without a lock: an insert, when there was no row, or an
\* UPDATE by primary key that names the columns that differ from what was read.
InsertFails(a, read) == read.ver = 0 /\ row[a].ver > 0
Written(a, read) == [state |-> IF read.ver > 0 /\ read.to = read.saw
                               THEN row[a].state ELSE read.to,
                     ver   |-> row[a].ver + 1]

\* The server answers the PATCH of a; an "ok" tells the row that it has written.
Reply(a, at, to, ver) ==
  patch' = [patch EXCEPT ![a] = [at |-> at, saw |-> "open", to |-> to, ver |-> ver]]

\* PATCH /events/{id}.  The right to change an alert may be lost or regained at
\* any time.
PatchDenied(a) ==
  /\ patch[a].at \in {"sent", "unlocked"}
  /\ Reply(a, "denied", patch[a].to, 0)
  /\ UNCHANGED row

\* SELECT FOR UPDATE finds the row: all the rest happens under its lock.
PatchLocked(a) ==
  /\ patch[a].at = "sent" /\ row[a].ver > 0
  /\ \/ /\ Rank(patch[a].to) < Rank(row[a].state)
        /\ Reply(a, "conflict", patch[a].to, row[a].ver)
        /\ UNCHANGED row
     \/ /\ Rank(patch[a].to) >= Rank(row[a].state)
        /\ row[a].ver < MaxWrites[a]
        /\ row' = [row EXCEPT ![a] = [state |-> patch[a].to, ver |-> row[a].ver + 1]]
        /\ Reply(a, "ok", patch[a].to, row[a].ver + 1)

\* There is no row: SELECT FOR UPDATE locks nothing.
PatchUnlocked(a) ==
  /\ patch[a].at = "sent" /\ row[a].ver = 0
  /\ patch' = [patch EXCEPT ![a].at = "unlocked"]
  /\ UNCHANGED row

\* upsert_alert_state selects again, without a lock, and compares the ranks ...
PatchReads(a) ==
  /\ patch[a].at = "unlocked"
  /\ IF Rank(patch[a].to) < Rank(row[a].state)
     THEN Reply(a, "conflict", patch[a].to, row[a].ver)
     ELSE patch' = [patch EXCEPT ![a].at = "read", ![a].saw = row[a].state,
                                 ![a].ver = row[a].ver]
  /\ UNCHANGED row

\* ... and writes what it was sent.
PatchWrites(a) ==
  /\ patch[a].at = "read"
  /\ IF InsertFails(a, patch[a])
     THEN Reply(a, "failed", patch[a].to, 0) /\ UNCHANGED row
     ELSE /\ row[a].ver < MaxWrites[a]
          /\ row' = [row EXCEPT ![a] = Written(a, patch[a])]
          /\ Reply(a, "ok", row'[a].state, row'[a].ver)

Serve(a) ==
  /\ \/ PatchDenied(a) \/ PatchLocked(a) \/ PatchUnlocked(a)
     \/ PatchReads(a) \/ PatchWrites(a)
  /\ UNCHANGED <<post, load, status, fence, canMutate, shown, told, review, batch>>

\* The request or its answer is lost, or the server fails: the write may have
\* happened or not.
Lose(a) ==
  /\ patch[a].at \in {"sent", "unlocked", "read", "ok"}
  /\ Reply(a, "failed", patch[a].to, 0)
  /\ UNCHANGED <<server, load, status, fence, canMutate, shown, told, review, batch>>

\* POST /state reads the row without a lock ...
PostReads(a, to) ==
  /\ post = NoPost
  /\ row[a].ver < MaxWrites[a]
  /\ Rank(to) >= Rank(row[a].state)
  /\ post' = [alert |-> a, saw |-> row[a].state, to |-> to, ver |-> row[a].ver]
  /\ UNCHANGED <<row, patch, load, status, fence, canMutate, shown, told, review, batch>>

\* ... and writes what it was sent.
PostWrites ==
  /\ post # NoPost
  /\ LET a == post.alert
     IN  IF InsertFails(a, post)
         THEN UNCHANGED row
         ELSE /\ row[a].ver < MaxWrites[a]
              /\ row' = [row EXCEPT ![a] = Written(a, post)]
  /\ post' = NoPost
  /\ UNCHANGED <<patch, load, status, fence, canMutate, shown, told, review, batch>>

-----------------------------------------------------------------------------
(***************************************************************************)
(* The list.                                                               *)
(***************************************************************************)

\* Mutant of refresh: the batch never hears of the request that replaces its own.
RefreshAlone ==
  /\ load' = NewLoad(status = "ready", fence, FALSE)
  /\ status' = "loading"
  /\ UNCHANGED <<server, patch, fence, canMutate, shown, told, review, batch>>

\* refresh: the new request takes the place of the current one.  A batch that was
\* waiting for that one learns that it proves nothing.
Refresh ==
  /\ load' = NewLoad(status = "ready", fence, FALSE)
  /\ status' = "loading"
  /\ IF load.ofBatch THEN notice' = "reload" /\ batch' = NoBatch
                     ELSE UNCHANGED <<notice, batch>>
  /\ UNCHANGED <<server, patch, fence, canMutate, shown, told, hold, selected, batchFail>>

\* Every PATCH that was in flight when the fence went up has been answered: the
\* list that is read from here on proves the present epoch.
ListSent ==
  /\ load.at = "draining"
  /\ Pending = {}
  /\ load' = [load EXCEPT !.at = "reading", !.current = TRUE]
  /\ UNCHANGED <<server, patch, status, fence, canMutate, shown, told, review, batch>>

\* The next page is read, with the caller's present capability in its header; a
\* page that disagrees with the others fails the request.
ReadPage ==
  /\ load.at = "reading"
  /\ Len(load.rows) < N
  /\ \E can \in BOOLEAN :
       /\ load.can \subseteq {can}
       /\ load' = [load EXCEPT !.rows = Append(load.rows, row[Len(load.rows) + 1]),
                               !.can = {can}]
  /\ UNCHANGED <<server, patch, status, fence, canMutate, shown, told, review, batch>>

\* Mutant: the batch is forgotten.
UnprovedQuietly == load' = NoLoad /\ UNCHANGED <<notice, batch>>

\* The end of a request that proves nothing: a batch that waited for it keeps
\* its notice.
Unproved ==
  /\ load' = NoLoad
  /\ IF load.ofBatch THEN notice' = "reload" /\ batch' = NoBatch
                     ELSE UNCHANGED <<notice, batch>>

\* A request fails.
ListFails ==
  /\ load.at = "reading"
  /\ Unproved
  /\ status' = IF load.preserve /\ ~fence THEN "ready" ELSE "error"
  /\ UNCHANGED <<server, patch, fence, canMutate, shown, told, hold, selected, batchFail>>

\* Mutant: the epoch is not compared.
NeverStale == FALSE

\* The fence has gone up since the list was asked for: the list is dropped.
ListIsStale == fence /\ ~load.current

Complete == load.at = "reading" /\ Len(load.rows) = N

ListDropped ==
  /\ Complete
  /\ ListIsStale
  /\ Unproved
  /\ UNCHANGED <<server, patch, status, fence, canMutate, shown, told, hold, selected, batchFail>>

\* The list is published, takes the fence down and ends every review.
ListLands ==
  /\ Complete
  /\ ~ListIsStale
  /\ canMutate' = (TRUE \in load.can)
  /\ shown' = [a \in Alerts |-> load.rows[a]]
  /\ selected' = IF fence \/ ~canMutate' THEN {}
                 ELSE {a \in selected : load.rows[a].state = "open"}
  /\ fence' = FALSE
  /\ hold' = {}
  /\ batchFail' = {}
  /\ load' = NoLoad
  /\ status' = "ready"
  /\ notice' = IF load.ofBatch THEN "review" ELSE "off"
  /\ batch' = IF load.ofBatch THEN NoBatch ELSE batch
  /\ UNCHANGED <<server, patch, told>>

-----------------------------------------------------------------------------
(***************************************************************************)
(* Changes of one alert.                                                   *)
(***************************************************************************)

\* Mutant: the effect is missing.
SelectOnly(sel, held) == /\ selected' = sel /\ hold' = held
                         /\ UNCHANGED <<notice, batchFail>>

\* A new selection, with the effect that drops the error of another selection
\* and the review of its failures.
Select(sel, held) ==
  /\ selected' = sel
  /\ IF notice # "off" /\ sel # selected
     THEN notice' = "off" /\ hold' = held \ batchFail /\ batchFail' = {}
     ELSE hold' = held /\ UNCHANGED <<notice, batchFail>>

\* mutateEvent: an analyst acknowledges, resolves or, in the same state,
\* reassigns an alert.
Mutate(a, to) ==
  /\ status = "ready" /\ ~fence /\ canMutate
  /\ batch.at = "idle"
  /\ hold = {} \/ a \in hold
  /\ patch[a].at = "none"
  /\ shown[a].state # "resolved" /\ Rank(to) >= Rank(shown[a].state)
  /\ patch' = [patch EXCEPT ![a] = [NoPatch EXCEPT !.at = "sent", !.to = to]]
  /\ UNCHANGED <<server, load, status, fence, canMutate, shown, told, review, batch>>

Answered(a) == patch' = [patch EXCEPT ![a] = NoPatch]

OfBatch(a) == batch.at = "patching" /\ a \in batch.ids

\* Mutant: the status stays that of the abandoned list request.
AnswerOkQuietly(a) ==
  /\ patch[a].at = "ok"
  /\ Answered(a)
  /\ shown' = [shown EXCEPT ![a] = [state |-> patch[a].to, ver |-> patch[a].ver]]
  /\ told' = [told EXCEPT ![a] = patch[a].ver]
  /\ load' = IF fence THEN load ELSE NoLoad
  /\ Select(IF patch[a].to = "open" THEN selected ELSE selected \ {a}, hold \ {a})
  /\ UNCHANGED <<server, status, fence, canMutate, batch>>

\* The list request under way is older than the answer: it is abandoned, unless
\* the fence is up.
AnswerOk(a) ==
  /\ patch[a].at = "ok"
  /\ Answered(a)
  /\ shown' = [shown EXCEPT ![a] = [state |-> patch[a].to, ver |-> patch[a].ver]]
  /\ told' = [told EXCEPT ![a] = patch[a].ver]
  /\ load' = IF fence THEN load ELSE NoLoad
  /\ status' = IF status = "error" \/ fence THEN status ELSE "ready"
  /\ Select(IF patch[a].to = "open" THEN selected ELSE selected \ {a}, hold \ {a})
  /\ UNCHANGED <<server, fence, canMutate, batch>>

\* requireAuthoritativeReload
Fenced == /\ fence' = TRUE
          /\ canMutate' = FALSE
          /\ notice' = IF notice = "off" THEN "off" ELSE "reload"

AnswerConflict(a) ==
  /\ patch[a].at = "conflict"
  /\ Answered(a)
  /\ told' = [told EXCEPT ![a] = patch[a].ver]
  /\ Fenced
  /\ load' = [load EXCEPT !.current = FALSE]
  /\ hold' = hold \ {a}
  /\ batch' = IF OfBatch(a) THEN [batch EXCEPT !.broken = TRUE] ELSE batch
  /\ UNCHANGED <<server, status, shown, selected, batchFail>>

\* 403 or 404: an individual change reloads the list at once, a batch when it is
\* over.
AnswerDenied(a) ==
  /\ patch[a].at = "denied"
  /\ Answered(a)
  /\ Fenced
  /\ hold' = hold \ {a}
  /\ IF OfBatch(a)
     THEN /\ batch' = [batch EXCEPT !.broken = TRUE]
          /\ load' = [load EXCEPT !.current = FALSE]
          /\ UNCHANGED status
     ELSE /\ load' = NewLoad(TRUE, TRUE, FALSE)
          /\ status' = "loading"
          /\ UNCHANGED batch
  /\ UNCHANGED <<server, shown, told, selected, batchFail>>

AnswerFailed(a) ==
  /\ patch[a].at = "failed"
  /\ Answered(a)
  /\ hold' = hold \cup {a}
  /\ batch' = IF OfBatch(a) THEN [batch EXCEPT !.failed = batch.failed \cup {a}] ELSE batch
  /\ UNCHANGED <<server, load, status, fence, canMutate, shown, told, selected, batchFail, notice>>

Answer(a) == AnswerOk(a) \/ AnswerConflict(a) \/ AnswerDenied(a) \/ AnswerFailed(a)

-----------------------------------------------------------------------------
(***************************************************************************)
(* The selection and its acknowledgment.                                   *)
(***************************************************************************)

ToggleSelected(a) ==
  /\ SurfaceIsFree /\ canMutate /\ shown[a].state = "open"
  /\ Select(IF a \in selected THEN selected \ {a} ELSE selected \cup {a}, hold)
  /\ UNCHANGED <<server, patch, load, status, fence, canMutate, shown, told, batch>>

ClearSelection ==
  /\ SurfaceIsFree /\ selected # {}
  /\ Select({}, hold)
  /\ UNCHANGED <<server, patch, load, status, fence, canMutate, shown, told, batch>>

\* The analyst dismisses the failure of an alert, or of a batch.
ReleaseWorkflowSurface(a) ==
  /\ a \in hold
  /\ hold' = hold \ {a}
  /\ UNCHANGED <<server, patch, load, status, fence, canMutate, shown, told, selected,
                 batchFail, notice, batch>>

DismissBatchError ==
  /\ notice \notin {"off", "reload"}
  /\ notice' = "off"
  /\ hold' = hold \ batchFail
  /\ batchFail' = {}
  /\ UNCHANGED <<server, patch, load, status, fence, canMutate, shown, told, selected, batch>>

\* acknowledgeSelected, first tried or again after a failure.
MayAcknowledge == /\ batch.at = "idle" /\ selected # {} /\ Pending = {}
                  /\ hold \subseteq batchFail

AcknowledgeRefused ==
  /\ MayAcknowledge
  /\ status # "ready" \/ fence
  /\ notice' = IF fence THEN "reload" ELSE "plain"
  /\ UNCHANGED <<server, patch, load, status, fence, canMutate, shown, told, hold, selected,
                 batchFail, batch>>

AcknowledgeSelected ==
  /\ MayAcknowledge
  /\ status = "ready" /\ ~fence
  /\ notice' = "off"
  /\ batch' = [NoBatch EXCEPT !.at = "patching", !.ids = selected,
                              !.failed = IF canMutate THEN {} ELSE selected]
  /\ patch' = [a \in Alerts |-> IF canMutate /\ a \in selected
                                THEN [NoPatch EXCEPT !.at = "sent", !.to = "ack"]
                                ELSE patch[a]]
  /\ UNCHANGED <<server, load, status, fence, canMutate, shown, told, hold, selected, batchFail>>

\* Promise.allSettled of the batch.
BatchSettled == /\ batch.at = "patching"
                /\ \A a \in batch.ids : patch[a].at = "none"

BatchReloads ==
  /\ BatchSettled /\ batch.broken
  /\ notice' = "reload"
  /\ batch' = [batch EXCEPT !.at = "reloading"]
  /\ load' = NewLoad(status = "ready", fence, TRUE)
  /\ status' = "loading"
  /\ UNCHANGED <<server, patch, fence, canMutate, shown, told, hold, selected, batchFail>>

\* Only the failed alerts stay selected, for a retry.
BatchFails ==
  /\ BatchSettled /\ ~batch.broken /\ batch.failed # {}
  /\ IF fence
     THEN notice' = "reload" /\ UNCHANGED <<batchFail, selected>>
     ELSE /\ notice' = "retry"
          /\ batchFail' = batch.failed
          /\ selected' = batch.failed
  /\ batch' = NoBatch
  /\ UNCHANGED <<server, patch, load, status, fence, canMutate, shown, told, hold>>

BatchSucceeds ==
  /\ BatchSettled /\ ~batch.broken /\ batch.failed = {}
  /\ batchFail' = {}
  /\ selected' = selected \ batch.ids
  /\ batch' = NoBatch
  /\ UNCHANGED <<server, patch, load, status, fence, canMutate, shown, told, hold, notice>>

BatchEnds == BatchReloads \/ BatchFails \/ BatchSucceeds

-----------------------------------------------------------------------------
LoadStep == ListSent \/ ReadPage \/ ListFails \/ ListDropped \/ ListLands

\* The continuation of a batch runs before any other callback of the client.
Next == \/ BatchEnds
        \/ /\ ~BatchSettled
           /\ \/ \E a \in Alerts : Serve(a) \/ Lose(a) \/ Answer(a)
              \/ \E p \in Posts : PostReads(p[1], p[2])
              \/ PostWrites
              \/ Refresh
              \/ LoadStep
              \/ \E t \in Targets : Mutate(t[1], t[2])
              \/ \E a \in Alerts : ToggleSelected(a) \/ ReleaseWorkflowSurface(a)
              \/ ClearSelection \/ DismissBatchError
              \/ AcknowledgeRefused \/ AcknowledgeSelected

Spec == Init /\ [][Next]_vars

\* Requests are answered or time out, and the event loop runs what has been
\* answered; a list that fails again and again does not keep it from a PATCH.
Fairness == /\ WF_vars(\E a \in Alerts : Serve(a) \/ Lose(a) \/ Answer(a))
            /\ WF_vars(LoadStep \/ BatchEnds)

FairSpec == Spec /\ Fairness
=============================================================================
