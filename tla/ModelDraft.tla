------------------------------ MODULE ModelDraft ------------------------------
(***************************************************************************)
(* The model draft of one analyst for one issuer as the server keeps it    *)
(* (routes/model_v2.py): a revision, the overrides of model nodes with the *)
(* calculation made from them, the audit log of overrides, and the         *)
(* immutable checkpoints.                                                  *)
(*                                                                         *)
(* A request is handled in two steps: it reads the draft, checks what it   *)
(* is asked to do and calculates, then one conditional UPDATE on the       *)
(* revision that the caller expects writes the next draft.  Between the two*)
(* the draft may change under another request of the same analyst, and an  *)
(* override may expire.                                                    *)
(***************************************************************************)
EXTENDS Integers, Sequences, SequencesExt

CONSTANTS
  Nodes,       \* cells of the model that can be overridden
  Derived,     \* those whose overrides expire: calculated, not put in
  Values,      \* what an override may say
  None,        \* no override
  Untouched,   \* a node that a batch leaves alone
  Reset,       \* a node whose override a batch removes
  MaxRevision  \* bound: revisions of the draft

Kinds == {"save", "commit", "undo", "redo", "checkpoint", "restore"}

ASSUME DraftAssumption ==
  /\ Derived \subseteq Nodes
  /\ None \notin Values /\ Untouched \notin Values /\ Reset \notin Values
  /\ Untouched # Reset
  /\ MaxRevision \in Nat

VARIABLES
  draft,   \* model_drafts_v2: the row, revision 0 when there is none
  log,     \* model_override_events, one group of events for a revision
  shelf,   \* model_checkpoints
  late     \* has the expiry of derived overrides passed

server == <<draft, log, shelf, late>>

Overrides == [Nodes -> Values \cup {None}]
Edits     == [Nodes -> Values \cup {Untouched, Reset}]
Blank     == [n \in Nodes |-> None]
NoEdits   == [n \in Nodes |-> Untouched]

DraftType == [rev : Nat, overrides : Overrides, calc : Overrides]
NoDraft   == [rev |-> 0, overrides |-> Blank, calc |-> Blank]
GroupType == [rev : Nat, mode : {"edit", "undo", "redo", "restore"}, of : Nat,
              cells : SUBSET Nodes, before : Overrides, after : Overrides]

\* calculate_model, as far as the checks of this module tell two calculations
\* apart: an override that has expired does not count.
Calculated(overrides, expired) ==
  [n \in Nodes |-> IF expired /\ n \in Derived THEN None ELSE overrides[n]]

\* payloadWithPendingMutations, and the loop of the batch handler.
Applied(overrides, edits) ==
  [n \in Nodes |-> CASE edits[n] = Untouched -> overrides[n]
                     [] edits[n] = Reset     -> None
                     [] OTHER                -> edits[n]]

Kept(cells, overrides) == [n \in Nodes |-> IF n \in cells THEN overrides[n] ELSE None]

Touched(edits) == {n \in Nodes : edits[n] # Untouched}

\* The group of a revision, and what its undo or redo expects and leaves.
Group(rev)          == log[CHOOSE i \in DOMAIN log : log[i].rev = rev]
Expected(mode, rev) == IF mode = "undo" THEN Group(rev).after ELSE Group(rev).before
Desired(mode, rev)  == IF mode = "undo" THEN Group(rev).before ELSE Group(rev).after

-----------------------------------------------------------------------------
(***************************************************************************)
(* A request names its kind, the revision it expects, and what it is about:*)
(* a whole payload (save), a batch of edits (commit), the revision of an   *)
(* original group (undo, redo) or the number of a checkpoint (restore).    *)
(***************************************************************************)
Request(kind, rev, payload, edits, of) ==
  [kind |-> kind, rev |-> rev, payload |-> payload, edits |-> edits, of |-> of]

\* What the handlers check of the draft that they have read.
MaySave(q, read) ==
  IF read.rev = 0 THEN q.rev = 0 /\ q.payload = Blank
                  ELSE q.rev # 0 /\ q.payload = read.overrides

MayCommit(q, read) ==
  /\ read.rev # 0 /\ read.rev = q.rev
  /\ \A n \in Touched(q.edits) :
       /\ q.edits[n] = Reset => read.overrides[n] # None
       /\ q.edits[n] \in Values /\ n \in Derived => ~late

MayReplay(q, read) ==
  /\ read.rev # 0 /\ read.rev = q.rev
  /\ \A n \in Group(q.of).cells : read.overrides[n] = Expected(q.kind, q.of)[n]

\* A checkpoint of whatever calculation the draft has.
MayCheckpointStale(q, read) ==
  read.rev # 0 /\ read.rev = q.rev /\ q.payload = read.calc

\* The payload of a checkpoint request stands for its calculation_hash; the draft
\* must not be stale, so its overrides are calculated anew.
MayCheckpoint(q, read) ==
  /\ read.rev # 0 /\ read.rev = q.rev /\ q.payload = read.calc
  /\ Calculated(read.overrides, late) = read.calc

Accepts(q, read) == CASE q.kind = "save"             -> MaySave(q, read)
                      [] q.kind = "commit"           -> MayCommit(q, read)
                      [] q.kind \in {"undo", "redo"} -> MayReplay(q, read)
                      [] q.kind = "checkpoint"       -> MayCheckpoint(q, read)
                      [] OTHER                       -> TRUE

Replay(q, read) ==
  [n \in Nodes |-> IF n \in Group(q.of).cells THEN Desired(q.kind, q.of)[n]
                                              ELSE read.overrides[n]]

\* The overrides that q leaves.
Result(q, read) ==
  CASE q.kind = "save"    -> q.payload
    [] q.kind = "commit"  -> Applied(read.overrides, q.edits)
    [] q.kind \in {"undo", "redo"} -> Replay(q, read)
    [] q.kind = "restore" -> shelf[q.of].overrides
    [] OTHER              -> read.overrides

\* A handler that reads the values before when the draft is written already.
AuditAfterwards(q, read, expired) ==
  LET cells == CASE q.kind = "commit"          -> Touched(q.edits)
                 [] q.kind \in {"undo", "redo"} -> Group(q.of).cells
                 [] OTHER                       -> {}
  IN  [rev |-> q.rev + 1, mode |-> IF q.kind = "commit" THEN "edit" ELSE q.kind,
       of |-> IF q.kind = "commit" THEN q.rev + 1 ELSE q.of, cells |-> cells,
       before |-> Kept(cells, Result(q, read)), after |-> Kept(cells, Result(q, read))]

\* The group of audit events that q leaves: an event for each cell it is about.  The
\* one event of a restore tells two calculations; both are of the draft that it
\* leaves, as the handler reads the first from the row that its UPDATE ... RETURNING
\* has refreshed.
Audit(q, read, expired) ==
  LET restore == q.kind = "restore"
      left    == Result(q, read)
      cells   == CASE q.kind = "commit" -> Touched(q.edits)
                   [] restore           -> {}
                   [] OTHER             -> Group(q.of).cells
  IN  [rev |-> q.rev + 1, mode |-> IF q.kind = "commit" THEN "edit" ELSE q.kind,
       of |-> IF q.kind = "commit" THEN q.rev + 1 ELSE q.of, cells |-> cells,
       before |-> IF restore THEN Calculated(left, expired) ELSE Kept(cells, read.overrides),
       after  |-> IF restore THEN Calculated(left, expired) ELSE Kept(cells, left)]

\* An UPDATE without the condition on the revision.
WrittenBefore(q) == draft.rev >= q.rev

\* _cas_update and _reserve_draft_for_checkpoint: the row is still at the
\* revision that the caller expects.
Unmoved(q) == draft.rev = q.rev

\* The transaction that commits q, computed from the draft it has read, when the
\* expiry had passed or not.  A checkpoint keeps the calculation that it has made.
Writes(q, read, expired) ==
  /\ Unmoved(q) /\ draft.rev < MaxRevision
  /\ IF q.kind = "checkpoint"
     THEN /\ draft' = [draft EXCEPT !.rev = q.rev + 1]
          /\ shelf' = Append(shelf, [rev |-> q.rev + 1, overrides |-> read.overrides,
                                     calc |-> Calculated(read.overrides, expired)])
          /\ UNCHANGED log
     ELSE /\ draft' = [rev |-> q.rev + 1, overrides |-> Result(q, read),
                       calc |-> Calculated(Result(q, read), expired)]
          /\ log' = IF q.kind = "save" THEN log ELSE Append(log, Audit(q, read, expired))
          /\ UNCHANGED shelf
  /\ UNCHANGED late
=============================================================================
