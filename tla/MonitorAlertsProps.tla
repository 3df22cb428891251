-------------------------- MODULE MonitorAlertsProps --------------------------
(***************************************************************************)
(* What the triage of alerts must guarantee.                               *)
(***************************************************************************)
EXTENDS MonitorAlerts

\* Types; a batch that reloads owns the current list request.
TypeOK == /\ row \in [Alerts -> RowType]
          /\ post \in PostType
          /\ patch \in [Alerts -> PatchType]
          /\ load \in LoadType
          /\ status \in {"loading", "ready", "error"}
          /\ fence \in BOOLEAN /\ canMutate \in BOOLEAN
          /\ shown \in [Alerts -> RowType]
          /\ told \in [Alerts -> Nat]
          /\ hold \subseteq Alerts /\ selected \subseteq Alerts
          /\ batch \in BatchType
          /\ batchFail \subseteq Alerts
          /\ notice \in {"off", "plain", "retry", "reload", "review"}
          /\ batch.at = "reloading" <=> load.ofBatch

\* While the fence is down the analyst sees every alert at least as new as any
\* answer to a PATCH has told: no list that was read before lands on top of it.
UnfencedIsCurrent == fence \/ \A a \in Alerts : shown[a].ver >= told[a]

\* Alerts cannot be changed while a list is read, and the hook never waits for a
\* list that nobody reads, except behind the fence, where a reload is offered.
StatusFollowsLoad == /\ load.at # "none" => status = "loading"
                     /\ status = "loading" => load.at # "none" \/ fence

\* What a retry acknowledges are the alerts that failed, no other.
RetryNamesFailures == notice = "retry" => selected = batchFail /\ selected # {}

-----------------------------------------------------------------------------
(***************************************************************************)
(* The parts of the inductive invariant IInv.                              *)
(***************************************************************************)

\* What an answer tells has been written, and an answer under way is newer than
\* the one before it.
ToldIsWritten ==
  \A a \in Alerts :
    /\ told[a] <= row[a].ver
    /\ patch[a].at \in {"ok", "conflict"} =>
         told[a] <= patch[a].ver /\ patch[a].ver <= row[a].ver

\* The pages of a list that may land are as new as every answer, and behind the
\* fence no answer is under way while they are read.
PagesAreNew ==
  /\ load.at = "draining" => load.rows = <<>>
  /\ load.at = "reading" /\ (fence => load.current) =>
       /\ Len(load.rows) <= N
       /\ \A i \in 1..Len(load.rows) : load.rows[i].ver >= told[i]
       /\ fence => Pending = {}

\* While a batch is under way it owns every PATCH in flight, and it has taken the
\* offer of a retry down.
BatchOwnsPending ==
  batch.at # "idle" =>
    /\ Pending \subseteq IF batch.at = "patching" THEN batch.ids ELSE {}
    /\ notice # "retry"

IInv == /\ TypeOK /\ ToldIsWritten /\ PagesAreNew /\ BatchOwnsPending
        /\ UnfencedIsCurrent /\ RetryNamesFailures

-----------------------------------------------------------------------------
\* A batch ends, also when it needs a reload that another reload replaces.
EveryBatchEnds == batch.at # "idle" ~> batch.at = "idle"

\* "The route layer rejects a regression with 409": the state of an alert never
\* moves backward.
StateNeverRegresses ==
  [][\A a \in Alerts : Rank(row'[a].state) >= Rank(row[a].state)]_vars
-----------------------------------------------------------------------------
(***************************************************************************)
(* Where that fails.                                                       *)
(***************************************************************************)

\* A request that writes the row of a from a read without a lock: a POST, or a
\* PATCH whose SELECT FOR UPDATE found no row.
WritesFrom(a, read) == \/ PostWrites /\ post.alert = a /\ read = post
                       \/ Serve(a) /\ patch[a].at = "read" /\ read = patch[a]

\* A state moves backward only in an UPDATE made from a read without a lock, of a
\* row that has been written since: never in a PATCH that locked the row, in an
\* insert, or while the row is what was read.
RegressionsAreRaces ==
  [][\A a \in Alerts :
       Rank(row'[a].state) < Rank(row[a].state) =>
         \E read \in {post, patch[a]} :
           WritesFrom(a, read) /\ 0 < read.ver /\ read.ver < row[a].ver]_vars

\* What was read without a lock is what the row was at that write, and no later
\* state than the one that is to be written.
IsOfRead(a, read) ==
  /\ Rank(read.saw) <= Rank(read.to)
  /\ read.ver <= row[a].ver
  /\ read.ver = row[a].ver => read.saw = row[a].state

ReadsAreOfRows ==
  /\ post # NoPost => post.alert \in Alerts /\ IsOfRead(post.alert, post)
  /\ \A a \in Alerts : patch[a].at = "read" => IsOfRead(a, patch[a])

ReadInv == IInv /\ ReadsAreOfRows
=============================================================================
