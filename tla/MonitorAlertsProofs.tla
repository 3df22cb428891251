-------------------------- MODULE MonitorAlertsProofs --------------------------
(***************************************************************************)
(* Proofs about the triage of alerts, for any number of alerts, of writes  *)
(* and of other sessions' posts.  That no list lands on top of a newer     *)
(* answer rests on two facts: in front of the fence an answer abandons the *)
(* list that is read, and behind it a list that may land was asked for     *)
(* when no answer was left to come.                                        *)
(***************************************************************************)
EXTENDS MonitorAlertsProps, TLAPS

Notices == {"off", "plain", "retry", "reload", "review"}

LEMMA Types ==
  ASSUME TypeOK
  PROVE  /\ row \in [Alerts -> RowType] /\ post \in PostType
         /\ patch \in [Alerts -> PatchType] /\ load \in LoadType
         /\ status \in {"loading", "ready", "error"} /\ fence \in BOOLEAN
         /\ canMutate \in BOOLEAN /\ shown \in [Alerts -> RowType]
         /\ told \in [Alerts -> Nat] /\ hold \subseteq Alerts /\ selected \subseteq Alerts
         /\ batch \in BatchType /\ batchFail \subseteq Alerts /\ notice \in Notices
         /\ batch.at = "reloading" <=> load.ofBatch
  BY DEF TypeOK, Notices

LEMMA NoneTypes ==
  /\ NoPatch \in PatchType /\ NoBatch \in BatchType /\ NoLoad \in LoadType
  /\ NoBatch.at = "idle" /\ NoLoad.at = "none" /\ ~NoLoad.ofBatch /\ NoPatch.at = "none"
<1>1. NoPatch \in PatchType /\ NoPatch.at = "none"
  BY DEF NoPatch, PatchType, States
<1>2. NoBatch \in BatchType /\ NoBatch.at = "idle"
  BY DEF NoBatch, BatchType
<1>3. NoLoad \in LoadType /\ NoLoad.at = "none" /\ ~NoLoad.ofBatch
  <2>1. <<>> \in Seq(RowType) /\ {} \in SUBSET BOOLEAN
    OBVIOUS
  <2>2. QED
    BY <2>1 DEF NoLoad, LoadType
<1>4. QED
  BY <1>1, <1>2, <1>3

LEMMA NewLoads ==
  ASSUME NEW preserve \in BOOLEAN, NEW fenced \in BOOLEAN, NEW ofBatch \in BOOLEAN
  PROVE  /\ NewLoad(preserve, fenced, ofBatch) \in LoadType
         /\ NewLoad(preserve, fenced, ofBatch).ofBatch = ofBatch
         /\ NewLoad(preserve, fenced, ofBatch).rows = <<>>
         /\ fenced => NewLoad(preserve, fenced, ofBatch).at = "draining"
<1>1. NoLoad \in LoadType /\ NoLoad.rows = <<>>
  BY NoneTypes DEF NoLoad
<1>2. (preserve /\ ~fenced) \in BOOLEAN
  OBVIOUS
<1>3. QED
  BY <1>1, <1>2 DEF NewLoad, LoadType

-----------------------------------------------------------------------------
(***************************************************************************)
(* The server and the other session.                                       *)
(***************************************************************************)

LEMMA AtServer ==
  ASSUME IInv,
         row' \in [Alerts -> RowType], post' \in PostType, patch' \in [Alerts -> PatchType],
         \A a \in Alerts :
           /\ row[a].ver <= row'[a].ver
           /\ patch'[a].at = "none" <=> patch[a].at = "none"
           /\ patch'[a].at \in {"ok", "conflict"} =>
                told[a] <= patch'[a].ver /\ patch'[a].ver <= row'[a].ver,
         UNCHANGED <<load, status, fence, canMutate, shown, told, review, batch>>
  PROVE  IInv'
<1>1. /\ load' = load /\ status' = status /\ fence' = fence /\ canMutate' = canMutate
      /\ shown' = shown /\ told' = told /\ hold' = hold /\ selected' = selected
      /\ batchFail' = batchFail /\ notice' = notice /\ batch' = batch
  BY DEF review
<1>2. Pending' = Pending
  BY DEF Pending
<1>3. TypeOK'
  BY <1>1 DEF IInv, TypeOK
<1>4. ToldIsWritten'
  <2>1. \A a \in Alerts : told[a] \in Nat /\ row[a].ver \in Nat /\ row'[a].ver \in Nat
    BY Types DEF IInv, RowType
  <2>2. QED
    BY <1>1, <2>1 DEF IInv, ToldIsWritten
<1>5. PagesAreNew' /\ BatchOwnsPending' /\ UnfencedIsCurrent' /\ RetryNamesFailures'
  BY <1>1, <1>2 DEF IInv, PagesAreNew, BatchOwnsPending, UnfencedIsCurrent, RetryNamesFailures
<1>6. QED
  BY <1>3, <1>4, <1>5 DEF IInv

\* A write from a read without a lock is one more write of the row.
LEMMA WriteTypes ==
  ASSUME IInv, NEW a \in Alerts, NEW read, read.to \in States
  PROVE  /\ Written(a, read) \in RowType
         /\ Written(a, read).ver = row[a].ver + 1
<1>1. row[a].state \in States /\ row[a].ver \in Nat
  BY Types DEF IInv, RowType
<1>2. (IF read.ver > 0 /\ read.to = read.saw THEN row[a].state ELSE read.to) \in States
  BY <1>1
<1>3. QED
  BY <1>1, <1>2 DEF Written, RowType

LEMMA Replying ==
  ASSUME IInv, NEW a \in Alerts, NEW to \in States, NEW ver \in Nat,
         NEW at \in {"ok", "conflict", "denied", "failed"}, Reply(a, at, to, ver)
  PROVE  /\ patch' \in [Alerts -> PatchType]
         /\ patch'[a].at = at /\ patch'[a].ver = ver
         /\ \A b \in Alerts \ {a} : patch'[b] = patch[b]
<1>1. [at |-> at, saw |-> "open", to |-> to, ver |-> ver] \in PatchType
  BY DEF PatchType, States
<1>2. patch \in [Alerts -> PatchType]
  BY Types DEF IInv
<1>3. QED
  BY <1>1, <1>2 DEF Reply

\* A PATCH writes its own row or none, and what it answers is the row's number of
\* writes.
LEMMA Served ==
  ASSUME IInv, NEW a \in Alerts, Serve(a)
  PROVE  /\ patch[a].at # "none" /\ patch'[a].at # "none"
         /\ patch' \in [Alerts -> PatchType] /\ row' \in [Alerts -> RowType]
         /\ \A b \in Alerts \ {a} : patch'[b] = patch[b] /\ row'[b] = row[b]
         /\ row'[a] = row[a] \/ row'[a].ver = row[a].ver + 1
         /\ patch'[a].at \in {"ok", "conflict"} => patch'[a].ver = row'[a].ver
<1>1. /\ row \in [Alerts -> RowType] /\ row[a] \in RowType
      /\ patch \in [Alerts -> PatchType] /\ patch[a] \in PatchType
  BY Types DEF IInv
<1>2. /\ row[a].ver \in Nat /\ row[a].state \in States /\ patch[a].to \in States
      /\ row[a].ver + 1 \in Nat
  BY <1>1 DEF RowType, PatchType
<1>3. CASE PatchDenied(a)
  <2>1. patch[a].at \in {"sent", "unlocked"} /\ Reply(a, "denied", patch[a].to, 0) /\ row' = row
    BY <1>3 DEF PatchDenied
  <2>2. /\ patch' \in [Alerts -> PatchType] /\ patch'[a].at = "denied"
        /\ \A b \in Alerts \ {a} : patch'[b] = patch[b]
    BY <1>2, <2>1, Replying
  <2>3. QED
    BY <1>1, <2>1, <2>2
<1>4. CASE PatchLocked(a)
  <2>1. CASE Reply(a, "conflict", patch[a].to, row[a].ver) /\ UNCHANGED row
    <3>1. patch[a].at = "sent" /\ row' = row
      BY <1>4, <2>1 DEF PatchLocked
    <3>2. /\ patch' \in [Alerts -> PatchType]
          /\ patch'[a].at = "conflict" /\ patch'[a].ver = row[a].ver
          /\ \A b \in Alerts \ {a} : patch'[b] = patch[b]
      BY <1>2, <2>1, Replying
    <3>3. QED
      BY <1>1, <3>1, <3>2
  <2>2. CASE /\ row' = [row EXCEPT ![a] = [state |-> patch[a].to, ver |-> row[a].ver + 1]]
             /\ Reply(a, "ok", patch[a].to, row[a].ver + 1)
    <3>1. [state |-> patch[a].to, ver |-> row[a].ver + 1] \in RowType
      BY <1>2 DEF RowType
    <3>2. /\ row' \in [Alerts -> RowType] /\ row'[a].ver = row[a].ver + 1
          /\ \A b \in Alerts \ {a} : row'[b] = row[b]
      BY <1>1, <2>2, <3>1
    <3>3. /\ patch' \in [Alerts -> PatchType]
          /\ patch'[a].at = "ok" /\ patch'[a].ver = row[a].ver + 1
          /\ \A b \in Alerts \ {a} : patch'[b] = patch[b]
      BY <1>2, <2>2, Replying
    <3>4. patch[a].at = "sent"
      BY <1>4 DEF PatchLocked
    <3>5. QED
      BY <3>2, <3>3, <3>4
  <2>3. QED
    BY <1>4, <2>1, <2>2 DEF PatchLocked
<1>5. CASE PatchUnlocked(a)
  <2>1. patch' = [patch EXCEPT ![a].at = "unlocked"] /\ row' = row /\ patch[a].at = "sent"
    BY <1>5 DEF PatchUnlocked
  <2>2. patch' \in [Alerts -> PatchType] /\ patch'[a].at = "unlocked"
    BY <1>1, <2>1 DEF PatchType
  <2>3. QED
    BY <1>1, <2>1, <2>2
<1>6. CASE PatchReads(a)
  <2>1. row' = row /\ patch[a].at = "unlocked"
    BY <1>6 DEF PatchReads
  <2>2. CASE Reply(a, "conflict", patch[a].to, row[a].ver)
    <3>1. /\ patch' \in [Alerts -> PatchType]
          /\ patch'[a].at = "conflict" /\ patch'[a].ver = row[a].ver
          /\ \A b \in Alerts \ {a} : patch'[b] = patch[b]
      BY <1>2, <2>2, Replying
    <3>2. QED
      BY <1>1, <2>1, <3>1
  <2>3. CASE patch' = [patch EXCEPT ![a].at = "read", ![a].saw = row[a].state,
                                    ![a].ver = row[a].ver]
    <3>1. patch' \in [Alerts -> PatchType] /\ patch'[a].at = "read"
      BY <1>1, <1>2, <2>3 DEF PatchType
    <3>2. QED
      BY <1>1, <2>1, <2>3, <3>1
  <2>4. QED
    BY <1>6, <2>2, <2>3 DEF PatchReads
<1>7. CASE PatchWrites(a)
  <2>1. CASE InsertFails(a, patch[a])
    <3>1. /\ patch[a].at = "read" /\ row' = row
          /\ Reply(a, "failed", patch[a].to, 0)
      BY <1>7, <2>1 DEF PatchWrites
    <3>2. /\ patch' \in [Alerts -> PatchType] /\ patch'[a].at = "failed"
          /\ \A b \in Alerts \ {a} : patch'[b] = patch[b]
      BY <1>2, <3>1, Replying
    <3>3. QED
      BY <1>1, <3>1, <3>2
  <2>2. CASE ~InsertFails(a, patch[a])
    <3>1. /\ patch[a].at = "read" /\ row' = [row EXCEPT ![a] = Written(a, patch[a])]
          /\ Reply(a, "ok", row'[a].state, row'[a].ver)
      BY <1>7, <2>2 DEF PatchWrites
    <3>2. Written(a, patch[a]) \in RowType /\ Written(a, patch[a]).ver = row[a].ver + 1
      BY <1>2, WriteTypes
    <3>3. /\ row' \in [Alerts -> RowType] /\ row'[a] = Written(a, patch[a])
          /\ \A b \in Alerts \ {a} : row'[b] = row[b]
      BY <1>1, <3>1, <3>2
    <3>4. row'[a].state \in States /\ row'[a].ver \in Nat
      BY <3>2, <3>3 DEF RowType
    <3>5. /\ patch' \in [Alerts -> PatchType]
          /\ patch'[a].at = "ok" /\ patch'[a].ver = row'[a].ver
          /\ \A b \in Alerts \ {a} : patch'[b] = patch[b]
      BY <3>1, <3>4, Replying
    <3>6. QED
      BY <3>1, <3>2, <3>3, <3>5
  <2>3. QED
    BY <2>1, <2>2
<1>8. QED
  BY <1>3, <1>4, <1>5, <1>6, <1>7 DEF Serve

LEMMA Serving ==
  ASSUME IInv, NEW a \in Alerts, Serve(a) \/ Lose(a)
  PROVE  IInv'
<1>1. /\ UNCHANGED <<load, status, fence, canMutate, shown, told, review, batch>>
      /\ post' = post
  BY DEF Serve, Lose, server
<1>2. /\ row \in [Alerts -> RowType] /\ patch \in [Alerts -> PatchType]
      /\ told \in [Alerts -> Nat] /\ post \in PostType
  BY Types DEF IInv
<1>3. \A b \in Alerts : /\ row[b].ver \in Nat /\ told[b] \in Nat /\ told[b] <= row[b].ver
                        /\ patch[b].at \in {"ok", "conflict"} =>
                             told[b] <= patch[b].ver /\ patch[b].ver <= row[b].ver
  BY <1>2 DEF IInv, ToldIsWritten, RowType
<1>4. CASE Serve(a)
  <2>1. /\ patch[a].at # "none" /\ patch'[a].at # "none"
        /\ patch' \in [Alerts -> PatchType] /\ row' \in [Alerts -> RowType]
        /\ \A b \in Alerts \ {a} : patch'[b] = patch[b] /\ row'[b] = row[b]
        /\ row'[a] = row[a] \/ row'[a].ver = row[a].ver + 1
        /\ patch'[a].at \in {"ok", "conflict"} => patch'[a].ver = row'[a].ver
    BY <1>4, Served
  <2>2. row[a].ver <= row'[a].ver /\ told[a] <= row'[a].ver /\ row'[a].ver <= row'[a].ver
    BY <1>3, <2>1
  <2>3. \A b \in Alerts :
           /\ row[b].ver <= row'[b].ver
           /\ patch'[b].at = "none" <=> patch[b].at = "none"
           /\ patch'[b].at \in {"ok", "conflict"} =>
                told[b] <= patch'[b].ver /\ patch'[b].ver <= row'[b].ver
    BY <1>3, <2>1, <2>2
  <2>4. QED
    BY <1>1, <1>2, <2>1, <2>3, AtServer
<1>5. CASE Lose(a)
  <2>1. /\ row' = row /\ patch[a].at \in {"sent", "unlocked", "read", "ok"}
        /\ Reply(a, "failed", patch[a].to, 0)
    BY <1>5 DEF Lose, server
  <2>2. patch[a].to \in States /\ 0 \in Nat
    BY <1>2 DEF PatchType
  <2>3. /\ patch' \in [Alerts -> PatchType] /\ patch'[a].at = "failed"
        /\ \A b \in Alerts \ {a} : patch'[b] = patch[b]
    BY <2>1, <2>2, Replying
  <2>4. \A b \in Alerts :
           /\ row[b].ver <= row'[b].ver
           /\ patch'[b].at = "none" <=> patch[b].at = "none"
           /\ patch'[b].at \in {"ok", "conflict"} =>
                told[b] <= patch'[b].ver /\ patch'[b].ver <= row'[b].ver
    BY <1>3, <2>1, <2>3
  <2>5. QED
    BY <1>1, <1>2, <2>1, <2>3, <2>4, AtServer
<1>6. QED
  BY <1>4, <1>5

LEMMA Posting ==
  ASSUME IInv, PostWrites \/ \E p \in Posts : PostReads(p[1], p[2])
  PROVE  IInv'
<1>1. /\ UNCHANGED <<load, status, fence, canMutate, shown, told, review, batch>>
      /\ patch' = patch
  BY DEF PostReads, PostWrites
<1>2. /\ row \in [Alerts -> RowType] /\ patch \in [Alerts -> PatchType]
      /\ told \in [Alerts -> Nat] /\ post \in PostType
  BY Types DEF IInv
<1>3. \A b \in Alerts : /\ row[b].ver \in Nat /\ told[b] \in Nat
                        /\ patch[b].ver \in Nat
                        /\ patch[b].at \in {"ok", "conflict"} =>
                             told[b] <= patch[b].ver /\ patch[b].ver <= row[b].ver
  BY <1>2 DEF IInv, ToldIsWritten, RowType, PatchType
<1>4. post' \in PostType
  <2>1. NoPost \in PostType
    BY DEF NoPost, PostType, States
  <2>2. ASSUME NEW p \in Posts, PostReads(p[1], p[2]) PROVE post' \in PostType
    <3>1. p[1] \in Alerts /\ p[2] \in States
      BY AlertsAssumption
    <3>2. row[p[1]].state \in States /\ row[p[1]].ver \in Nat
      BY <1>2, <3>1 DEF RowType
    <3>3. QED
      BY <2>2, <3>1, <3>2 DEF PostReads, PostType
  <2>3. QED
    BY <2>1, <2>2 DEF PostWrites
<1>5. row' \in [Alerts -> RowType] /\ \A b \in Alerts : row[b].ver <= row'[b].ver
  <2>1. CASE row' = row
    BY <1>2, <1>3, <2>1
  <2>2. CASE row' # row
    <3> DEFINE a == post.alert
    <3>1. row' = [row EXCEPT ![a] = Written(a, post)]
      BY <2>2 DEF PostReads, PostWrites
    <3>2. a \in Alerts
      BY <1>2, <2>2, <3>1
    <3>3. post.to \in States
      BY <1>2 DEF PostType
    <3> HIDE DEF a
    <3>4. Written(a, post) \in RowType /\ Written(a, post).ver = row[a].ver + 1
      BY <3>2, <3>3, WriteTypes
    <3>5. row' \in [Alerts -> RowType]
      BY <1>2, <3>1, <3>2, <3>4
    <3>6. \A b \in Alerts : row'[b].ver = IF b = a THEN row[a].ver + 1 ELSE row[b].ver
      BY <1>2, <3>1, <3>2, <3>4
    <3>7. QED
      BY <1>3, <3>2, <3>5, <3>6
  <2>3. QED
    BY <2>1, <2>2
<1>6. \A b \in Alerts : patch[b].at \in {"ok", "conflict"} =>
                          told[b] <= patch[b].ver /\ patch[b].ver <= row'[b].ver
  <2>1. \A b \in Alerts : row'[b].ver \in Nat
    BY <1>5 DEF RowType
  <2>2. QED
    BY <1>3, <1>5, <2>1
<1>7. QED
  BY <1>1, <1>2, <1>4, <1>5, <1>6, AtServer

-----------------------------------------------------------------------------
(***************************************************************************)
(* The list.                                                               *)
(***************************************************************************)

\* A step of the list request in front of or behind the same fence; a batch that
\* waits for the request goes on waiting or ends with it.
LEMMA Loading ==
  ASSUME IInv,
         UNCHANGED <<server, patch, fence, canMutate, shown, told, hold, selected, batchFail>>,
         load' \in LoadType, status' \in {"loading", "ready", "error"},
         PagesAreNew',
         \/ notice' = "reload" /\ batch' = NoBatch /\ ~load'.ofBatch
         \/ notice' = notice /\ batch' = batch /\ load'.ofBatch = load.ofBatch
  PROVE  IInv'
<1>1. /\ row' = row /\ post' = post /\ patch' = patch /\ fence' = fence
      /\ canMutate' = canMutate /\ shown' = shown /\ told' = told /\ hold' = hold
      /\ selected' = selected /\ batchFail' = batchFail
  BY DEF server
<1>2. notice' \in Notices /\ batch' \in BatchType /\ (batch'.at = "reloading" <=> load'.ofBatch)
  BY Types, NoneTypes DEF IInv, Notices
<1>3. TypeOK'
  BY <1>1, <1>2 DEF IInv, TypeOK, Notices
<1>4. BatchOwnsPending'
  BY <1>1, NoneTypes DEF IInv, BatchOwnsPending, Pending
<1>5. ToldIsWritten' /\ UnfencedIsCurrent' /\ RetryNamesFailures'
  BY <1>1 DEF IInv, ToldIsWritten, UnfencedIsCurrent, RetryNamesFailures
<1>6. QED
  BY <1>3, <1>4, <1>5 DEF IInv

\* A request that has read nothing yet, or is no more, has no old pages.
LEMMA NoPages ==
  ASSUME load'.rows = <<>>, N \in Nat,
         load'.at = "reading" /\ (fence' => load'.current) => ~fence'
  PROVE  PagesAreNew'
  BY DEF PagesAreNew

LEMMA Refreshing ==
  ASSUME IInv, Refresh
  PROVE  IInv'
<1>1. /\ load' = NewLoad(status = "ready", fence, FALSE) /\ status' = "loading"
      /\ UNCHANGED <<server, patch, fence, canMutate, shown, told, hold, selected, batchFail>>
      /\ \/ notice' = "reload" /\ batch' = NoBatch
         \/ notice' = notice /\ batch' = batch /\ ~load.ofBatch
  BY DEF Refresh
<1>2. fence \in BOOLEAN /\ load \in LoadType /\ (status = "ready") \in BOOLEAN
  BY Types DEF IInv
<1>3. /\ load' \in LoadType /\ load'.ofBatch = FALSE /\ load'.rows = <<>>
      /\ fence => load'.at = "draining"
  BY <1>1, <1>2, NewLoads
<1>4. load.ofBatch \in BOOLEAN
  BY <1>2 DEF LoadType
<1>5. PagesAreNew'
  BY <1>1, <1>3, NoPages, AlertsAssumption
<1>6. QED
  BY <1>1, <1>3, <1>4, <1>5, Loading

LEMMA Sent ==
  ASSUME IInv, ListSent
  PROVE  IInv'
<1>1. /\ load' = [load EXCEPT !.at = "reading", !.current = TRUE] /\ Pending = {}
      /\ load.at = "draining"
      /\ UNCHANGED <<server, patch, status, fence, canMutate, shown, told, review, batch>>
  BY DEF ListSent
<1>2. load \in LoadType /\ status \in {"loading", "ready", "error"}
  BY Types DEF IInv
<1>3. /\ load' \in LoadType /\ load'.ofBatch = load.ofBatch /\ load'.rows = load.rows
  BY <1>1, <1>2 DEF LoadType
<1>4. load'.rows = <<>>
  BY <1>1, <1>3 DEF IInv, PagesAreNew
<1>5. Pending' = {}
  BY <1>1 DEF Pending
<1>6. PagesAreNew'
  BY <1>1, <1>4, <1>5, AlertsAssumption DEF PagesAreNew, LoadType
<1>7. QED
  BY <1>1, <1>2, <1>3, <1>6, Loading DEF review

LEMMA PageRead ==
  ASSUME IInv, ReadPage
  PROVE  IInv'
<1>1. PICK can \in BOOLEAN :
        load' = [load EXCEPT !.rows = Append(load.rows, row[Len(load.rows) + 1]),
                             !.can = {can}]
  BY DEF ReadPage
<1>2. /\ load.at = "reading" /\ Len(load.rows) < N
      /\ UNCHANGED <<server, patch, status, fence, canMutate, shown, told, review, batch>>
  BY DEF ReadPage
<1>3. /\ load \in LoadType /\ row \in [Alerts -> RowType] /\ told \in [Alerts -> Nat]
      /\ status \in {"loading", "ready", "error"}
  BY Types DEF IInv
<1>4. N \in Nat /\ load.rows \in Seq(RowType)
  BY <1>3, AlertsAssumption DEF LoadType
<1>5. Len(load.rows) + 1 \in Alerts
  BY <1>2, <1>4 DEF Alerts
<1> DEFINE page == row[Len(load.rows) + 1]
<1>6. page \in RowType /\ page.ver >= told[Len(load.rows) + 1]
  BY <1>3, <1>5 DEF IInv, ToldIsWritten, RowType
<1> HIDE DEF page
<1>7. Append(load.rows, page) \in Seq(RowType) /\ {can} \in SUBSET BOOLEAN
  BY <1>4, <1>6
<1>8. /\ load' \in LoadType /\ load'.at = "reading" /\ load'.ofBatch = load.ofBatch
      /\ load'.rows = Append(load.rows, page) /\ load'.current = load.current
  <2>1. load' = [load EXCEPT !.rows = Append(load.rows, page), !.can = {can}]
    BY <1>1 DEF page
  <2>2. QED
    BY <1>2, <1>3, <1>7, <2>1 DEF LoadType
<1>9. PagesAreNew'
  <2> SUFFICES ASSUME fence => load.current
               PROVE  /\ Len(load'.rows) <= N
                      /\ \A i \in 1..Len(load'.rows) : load'.rows[i].ver >= told[i]
                      /\ fence => Pending = {}
    BY <1>2, <1>8 DEF PagesAreNew, Pending
  <2>1. /\ \A i \in 1..Len(load.rows) : load.rows[i].ver >= told[i]
        /\ fence => Pending = {}
    BY <1>2 DEF IInv, PagesAreNew
  <2>2. Len(load'.rows) = Len(load.rows) + 1 /\ Len(load.rows) \in Nat
    BY <1>4, <1>6, <1>8
  <2>3. \A i \in 1..Len(load'.rows) :
          load'.rows[i] = IF i = Len(load.rows) + 1 THEN page ELSE load.rows[i]
    BY <1>4, <1>6, <1>8, <2>2
  <2>4. Len(load'.rows) <= N
    BY <1>2, <1>4, <2>2
  <2>5. ASSUME NEW i \in 1..Len(load'.rows) PROVE load'.rows[i].ver >= told[i]
    <3>1. CASE i = Len(load.rows) + 1
      BY <1>6, <2>3, <3>1
    <3>2. CASE i # Len(load.rows) + 1
      <4>1. i \in 1..Len(load.rows)
        BY <2>2, <3>2
      <4>2. QED
        BY <2>1, <2>3, <3>2, <4>1
    <3>3. QED
      BY <3>1, <3>2
  <2>6. QED
    BY <2>1, <2>4, <2>5
<1>10. QED
  BY <1>2, <1>3, <1>8, <1>9, Loading DEF review

LEMMA ListUnproved ==
  ASSUME IInv, ListFails \/ ListDropped
  PROVE  IInv'
<1>1. /\ load' = NoLoad
      /\ UNCHANGED <<server, patch, fence, canMutate, shown, told, hold, selected, batchFail>>
      /\ \/ notice' = "reload" /\ batch' = NoBatch
         \/ notice' = notice /\ batch' = batch /\ ~load.ofBatch
  BY DEF ListFails, ListDropped, Unproved
<1>2. status' \in {"loading", "ready", "error"}
  BY Types DEF IInv, ListFails, ListDropped
<1>3. load.ofBatch \in BOOLEAN /\ NoLoad.ofBatch = FALSE
  BY Types DEF IInv, LoadType, NoLoad
<1>4. PagesAreNew'
  BY <1>1, NoneTypes DEF PagesAreNew
<1>5. QED
  BY <1>1, <1>2, <1>3, <1>4, NoneTypes, Loading

\* The list that lands is as new as every answer.
LEMMA Landing ==
  ASSUME IInv, ListLands
  PROVE  IInv'
<1>1. /\ row' = row /\ post' = post /\ patch' = patch /\ told' = told
      /\ fence' = FALSE /\ hold' = {} /\ batchFail' = {} /\ load' = NoLoad
      /\ status' = "ready" /\ notice' = (IF load.ofBatch THEN "review" ELSE "off")
      /\ batch' = (IF load.ofBatch THEN NoBatch ELSE batch)
      /\ shown' = [a \in Alerts |-> load.rows[a]]
      /\ load.at = "reading" /\ Len(load.rows) = N /\ ~ListIsStale
  BY DEF ListLands, Complete, server
<1>2. /\ load \in LoadType /\ selected \subseteq Alerts /\ N \in Nat
      /\ load.rows \in Seq(RowType)
  BY Types, AlertsAssumption DEF IInv, LoadType
<1>3. shown' \in [Alerts -> RowType]
  BY <1>1, <1>2 DEF Alerts
<1>4. canMutate' \in BOOLEAN
  BY DEF ListLands
<1>5. selected' \subseteq Alerts
  <2>1. \/ selected' = {}
        \/ selected' = {a \in selected : load.rows[a].state = "open"}
    BY DEF ListLands
  <2>2. QED
    BY <1>2, <2>1
<1>6. /\ notice' \in Notices /\ batch' \in BatchType
      /\ batch'.at = "reloading" <=> load'.ofBatch
  BY <1>1, Types, NoneTypes DEF IInv, Notices
<1>7. TypeOK'
  BY <1>1, <1>3, <1>4, <1>5, <1>6, Types, NoneTypes DEF IInv, TypeOK, Notices
<1>8. ToldIsWritten'
  BY <1>1 DEF IInv, ToldIsWritten
<1>9. PagesAreNew' /\ RetryNamesFailures'
  BY <1>1, NoneTypes DEF PagesAreNew, RetryNamesFailures
<1>10. BatchOwnsPending'
  BY <1>1, NoneTypes DEF IInv, BatchOwnsPending, Pending
<1>11. UnfencedIsCurrent'
  <2>1. \A i \in 1..N : load.rows[i].ver >= told[i]
    BY <1>1 DEF IInv, PagesAreNew, ListIsStale
  <2>2. QED
    BY <1>1, <2>1 DEF UnfencedIsCurrent, Alerts
<1>12. QED
  BY <1>7, <1>8, <1>9, <1>10, <1>11 DEF IInv

-----------------------------------------------------------------------------
(***************************************************************************)
(* Changes of one alert.                                                   *)
(***************************************************************************)

\* Whatever is selected, the offer of a retry goes with the failures it names.
LEMMA Selecting ==
  ASSUME IInv, NEW sel \in SUBSET Alerts, NEW held \in SUBSET Alerts, Select(sel, held)
  PROVE  /\ selected' \subseteq Alerts /\ hold' \subseteq Alerts /\ batchFail' \subseteq Alerts
         /\ notice' \in Notices /\ (notice' = "retry" => notice = "retry")
         /\ RetryNamesFailures'
<1>1. batchFail \subseteq Alerts /\ notice \in Notices
  BY Types DEF IInv
<1>2. CASE notice # "off" /\ sel # selected
  BY <1>1, <1>2 DEF Select, Notices, RetryNamesFailures
<1>3. CASE ~(notice # "off" /\ sel # selected)
  <2>1. selected' = sel /\ hold' = held /\ notice' = notice /\ batchFail' = batchFail
    BY <1>3 DEF Select
  <2>2. notice = "retry" => sel = selected
    BY <1>3
  <2>3. QED
    BY <1>1, <2>1, <2>2 DEF IInv, RetryNamesFailures
<1>4. QED
  BY <1>2, <1>3

LEMMA Mutating ==
  ASSUME IInv, NEW a \in Alerts, NEW to \in States, Mutate(a, to)
  PROVE  IInv'
<1>1. /\ UNCHANGED <<server, load, status, fence, canMutate, shown, told, review, batch>>
      /\ patch' = [patch EXCEPT ![a] = [NoPatch EXCEPT !.at = "sent", !.to = to]]
      /\ ~fence /\ batch.at = "idle"
  BY DEF Mutate
<1>2. /\ row' = row /\ post' = post /\ load' = load /\ status' = status /\ fence' = fence
      /\ canMutate' = canMutate /\ shown' = shown /\ told' = told /\ hold' = hold
      /\ selected' = selected /\ batchFail' = batchFail /\ notice' = notice /\ batch' = batch
  BY <1>1 DEF server, review
<1>3. /\ [NoPatch EXCEPT !.at = "sent", !.to = to] \in PatchType
      /\ [NoPatch EXCEPT !.at = "sent", !.to = to].at = "sent"
  BY DEF NoPatch, PatchType, States
<1>4. /\ patch' \in [Alerts -> PatchType] /\ patch'[a].at = "sent"
      /\ \A b \in Alerts : b # a => patch'[b] = patch[b]
  BY <1>1, <1>3, Types DEF IInv
<1>5. TypeOK'
  BY <1>2, <1>4 DEF IInv, TypeOK
<1>6. ToldIsWritten'
  BY <1>2, <1>4 DEF IInv, ToldIsWritten
<1>7. PagesAreNew' /\ BatchOwnsPending' /\ UnfencedIsCurrent' /\ RetryNamesFailures'
  BY <1>1, <1>2 DEF IInv, PagesAreNew, BatchOwnsPending, UnfencedIsCurrent, RetryNamesFailures
<1>8. QED
  BY <1>5, <1>6, <1>7 DEF IInv

\* What every answer does to the PATCHes.
LEMMA OneAnswered ==
  ASSUME IInv, NEW a \in Alerts, Answered(a), row' = row, patch[a].at # "none",
         told' = told \/ (/\ patch[a].at \in {"ok", "conflict"}
                          /\ told' = [told EXCEPT ![a] = patch[a].ver])
  PROVE  /\ patch' \in [Alerts -> PatchType] /\ told' \in [Alerts -> Nat]
         /\ Pending' = Pending \ {a} /\ ToldIsWritten'
         /\ \A b \in Alerts : told[b] <= told'[b]
<1>1. /\ patch \in [Alerts -> PatchType] /\ told \in [Alerts -> Nat]
      /\ row \in [Alerts -> RowType]
  BY Types DEF IInv
<1>2. patch[a].ver \in Nat /\ \A b \in Alerts : told[b] \in Nat /\ row[b].ver \in Nat
  BY <1>1 DEF PatchType, RowType
<1>3. /\ patch' \in [Alerts -> PatchType] /\ patch'[a].at = "none"
      /\ \A b \in Alerts : b # a => patch'[b] = patch[b]
  BY <1>1, NoneTypes DEF Answered
<1>4. Pending' = Pending \ {a}
  BY <1>3 DEF Pending
<1>5. told' \in [Alerts -> Nat]
  BY <1>1, <1>2
<1>6. \A b \in Alerts : told'[b] = told[b] \/ (/\ b = a /\ told'[b] = patch[a].ver
                                             /\ patch[a].at \in {"ok", "conflict"})
  BY <1>1
<1>7. patch[a].at \in {"ok", "conflict"} =>
        told[a] <= patch[a].ver /\ patch[a].ver <= row[a].ver
  BY DEF IInv, ToldIsWritten
<1>8. \A b \in Alerts : told[b] <= told'[b] /\ told'[b] <= row[b].ver
  BY <1>2, <1>6, <1>7 DEF IInv, ToldIsWritten
<1>9. ToldIsWritten'
  BY <1>3, <1>6, <1>8 DEF IInv, ToldIsWritten
<1>10. QED
  BY <1>3, <1>4, <1>5, <1>8, <1>9

LEMMA OkAnswered ==
  ASSUME IInv, NEW a \in Alerts, AnswerOk(a)
  PROVE  IInv'
<1>1. /\ Answered(a) /\ patch[a].at = "ok"
      /\ shown' = [shown EXCEPT ![a] = [state |-> patch[a].to, ver |-> patch[a].ver]]
      /\ told' = [told EXCEPT ![a] = patch[a].ver]
      /\ load' = (IF fence THEN load ELSE NoLoad)
      /\ row' = row /\ post' = post /\ fence' = fence /\ canMutate' = canMutate
      /\ batch' = batch
  BY DEF AnswerOk, server
<1>2. /\ patch' \in [Alerts -> PatchType] /\ told' \in [Alerts -> Nat]
      /\ Pending' = Pending \ {a} /\ ToldIsWritten'
  BY <1>1, OneAnswered
<1>3. a \in Pending /\ patch[a] \in PatchType
  BY <1>1, Types DEF IInv, Pending
<1>4. batch.at # "reloading" /\ ~load.ofBatch
  <2>1. batch.at # "reloading"
    BY <1>3 DEF IInv, BatchOwnsPending
  <2>2. QED
    BY <2>1, Types DEF IInv
<1>5. /\ selected' \subseteq Alerts /\ hold' \subseteq Alerts /\ batchFail' \subseteq Alerts
      /\ notice' \in Notices /\ (notice' = "retry" => notice = "retry")
      /\ RetryNamesFailures'
  <2> DEFINE sel == IF patch[a].to = "open" THEN selected ELSE selected \ {a}
  <2>1. Select(sel, hold \ {a})
    BY DEF AnswerOk
  <2>2. sel \in SUBSET Alerts /\ hold \ {a} \in SUBSET Alerts
    BY Types DEF IInv
  <2> HIDE DEF sel
  <2>3. QED
    BY <2>1, <2>2, Selecting
<1>6. shown' \in [Alerts -> RowType] /\ shown'[a].ver = patch[a].ver
  <2>1. [state |-> patch[a].to, ver |-> patch[a].ver] \in RowType
    BY <1>3 DEF PatchType, RowType
  <2>2. QED
    BY <1>1, <2>1, Types DEF IInv
<1>7. status' \in {"loading", "ready", "error"}
  BY Types DEF AnswerOk, IInv
<1>8. TypeOK'
  <2>1. load' \in LoadType /\ (batch'.at = "reloading" <=> load'.ofBatch)
    BY <1>1, <1>4, Types, NoneTypes DEF IInv
  <2>2. /\ row' \in [Alerts -> RowType] /\ post' \in PostType /\ fence' \in BOOLEAN
        /\ canMutate' \in BOOLEAN /\ batch' \in BatchType
    BY <1>1, Types DEF IInv
  <2>3. QED
    BY <1>2, <1>5, <1>6, <1>7, <2>1, <2>2 DEF TypeOK, Notices
<1>9. PagesAreNew'
  <2>1. CASE fence
    BY <1>1, <1>3, <2>1 DEF IInv, PagesAreNew
  <2>2. CASE ~fence
    BY <1>1, <2>2, NoneTypes DEF PagesAreNew
  <2>3. QED
    BY <2>1, <2>2
<1>10. BatchOwnsPending'
  BY <1>1, <1>2, <1>5 DEF IInv, BatchOwnsPending
<1>11. UnfencedIsCurrent'
  <2>1. told'[a] = patch[a].ver /\ patch[a].ver \in Nat
    BY <1>1, <1>3, Types DEF IInv, PatchType
  <2>2. \A b \in Alerts : b # a => shown'[b] = shown[b] /\ told'[b] = told[b]
    BY <1>1, Types DEF IInv
  <2>3. QED
    BY <1>1, <1>6, <2>1, <2>2 DEF IInv, UnfencedIsCurrent
<1>12. QED
  BY <1>2, <1>5, <1>8, <1>9, <1>10, <1>11 DEF IInv

\* An answer that puts the fence up: no list that is being read may land any more.
LEMMA FenceAnswered ==
  ASSUME IInv, NEW a \in Alerts, AnswerConflict(a) \/ AnswerDenied(a)
  PROVE  IInv'
<1>1. /\ Answered(a) /\ patch[a].at \in {"conflict", "denied"}
      /\ row' = row /\ post' = post /\ shown' = shown /\ selected' = selected
      /\ batchFail' = batchFail /\ hold' = hold \ {a} /\ Fenced
      /\ \/ told' = told
         \/ patch[a].at = "conflict" /\ told' = [told EXCEPT ![a] = patch[a].ver]
  BY DEF AnswerConflict, AnswerDenied, server
<1>2. /\ patch' \in [Alerts -> PatchType] /\ told' \in [Alerts -> Nat]
      /\ Pending' = Pending \ {a} /\ ToldIsWritten'
  <2>1. /\ patch[a].at # "none"
        /\ told' = told \/ (/\ patch[a].at \in {"ok", "conflict"}
                            /\ told' = [told EXCEPT ![a] = patch[a].ver])
    BY <1>1
  <2>2. QED
    BY <1>1, <2>1, OneAnswered
<1>3. a \in Pending /\ batch \in BatchType /\ load \in LoadType
  BY <1>1, Types DEF IInv, Pending
<1>4. batch.at # "reloading" /\ load.ofBatch = FALSE
  <2>1. batch.at # "reloading"
    BY <1>3 DEF IInv, BatchOwnsPending
  <2>2. QED
    BY <1>3, <2>1, Types DEF IInv, LoadType
<1>5. /\ fence' = TRUE /\ canMutate' = FALSE /\ notice' \in Notices
      /\ notice' # "retry"
  BY <1>1, Types DEF Fenced, IInv, Notices
<1>6. /\ batch' \in BatchType /\ batch'.at = batch.at /\ batch'.ids = batch.ids
  <2>1. batch' = batch \/ batch' = [batch EXCEPT !.broken = TRUE]
    BY DEF AnswerConflict, AnswerDenied
  <2>2. QED
    BY <1>3, <2>1 DEF BatchType
<1>7. /\ load' \in LoadType /\ load'.ofBatch = FALSE
      /\ load'.at = "draining" => load'.rows = <<>>
      /\ load'.at = "reading" => ~load'.current
      /\ status' \in {"loading", "ready", "error"}
  <2>1. CASE load' = [load EXCEPT !.current = FALSE] /\ status' = status
    <3>1. /\ load' \in LoadType /\ load'.ofBatch = load.ofBatch /\ load'.rows = load.rows
          /\ load'.at = load.at /\ load'.current = FALSE
      BY <1>3, <2>1 DEF LoadType
    <3>2. QED
      BY <1>4, <2>1, <3>1, Types DEF IInv, PagesAreNew
  <2>2. CASE load' = NewLoad(TRUE, TRUE, FALSE) /\ status' = "loading"
    BY <2>2, NewLoads
  <2>3. QED
    BY <2>1, <2>2 DEF AnswerConflict, AnswerDenied
<1>8. TypeOK'
  <2>1. /\ row' \in [Alerts -> RowType] /\ post' \in PostType
        /\ shown' \in [Alerts -> RowType] /\ selected' \subseteq Alerts
        /\ batchFail' \subseteq Alerts /\ hold' \subseteq Alerts
    BY <1>1, Types DEF IInv
  <2>2. batch'.at = "reloading" <=> load'.ofBatch
    BY <1>4, <1>6, <1>7
  <2>3. QED
    BY <1>2, <1>5, <1>6, <1>7, <2>1, <2>2 DEF TypeOK, Notices
<1>9. PagesAreNew'
  BY <1>5, <1>7 DEF PagesAreNew
<1>10. BatchOwnsPending'
  BY <1>2, <1>5, <1>6 DEF IInv, BatchOwnsPending
<1>11. UnfencedIsCurrent' /\ RetryNamesFailures'
  BY <1>5 DEF UnfencedIsCurrent, RetryNamesFailures
<1>12. QED
  BY <1>2, <1>8, <1>9, <1>10, <1>11 DEF IInv

LEMMA FailureAnswered ==
  ASSUME IInv, NEW a \in Alerts, AnswerFailed(a)
  PROVE  IInv'
<1>1. /\ Answered(a) /\ patch[a].at = "failed"
      /\ row' = row /\ post' = post /\ load' = load /\ status' = status /\ fence' = fence
      /\ canMutate' = canMutate /\ shown' = shown /\ told' = told /\ selected' = selected
      /\ batchFail' = batchFail /\ notice' = notice /\ hold' = hold \cup {a}
  BY DEF AnswerFailed, server
<1>2. /\ patch' \in [Alerts -> PatchType]
      /\ Pending' = Pending \ {a} /\ ToldIsWritten'
  BY <1>1, OneAnswered
<1>3. /\ batch' \in BatchType /\ batch'.at = batch.at /\ batch'.ids = batch.ids
  <2>1. \/ batch' = batch
        \/ batch' = [batch EXCEPT !.failed = batch.failed \cup {a}]
    BY DEF AnswerFailed
  <2>2. batch \in BatchType
    BY Types DEF IInv
  <2>3. QED
    BY <2>1, <2>2 DEF BatchType
<1>4. TypeOK'
  BY <1>1, <1>2, <1>3 DEF IInv, TypeOK
<1>5. PagesAreNew'
  BY <1>1, <1>2 DEF IInv, PagesAreNew
<1>6. BatchOwnsPending'
  BY <1>1, <1>2, <1>3 DEF IInv, BatchOwnsPending
<1>7. UnfencedIsCurrent' /\ RetryNamesFailures'
  BY <1>1 DEF IInv, UnfencedIsCurrent, RetryNamesFailures
<1>8. QED
  BY <1>2, <1>4, <1>5, <1>6, <1>7 DEF IInv

-----------------------------------------------------------------------------
(***************************************************************************)
(* The selection and its acknowledgment.                                   *)
(***************************************************************************)

\* A step of the review alone.
LEMMA Reviewing ==
  ASSUME IInv, UNCHANGED <<server, patch, load, status, fence, canMutate, shown, told, batch>>,
         hold' \subseteq Alerts, selected' \subseteq Alerts, batchFail' \subseteq Alerts,
         notice' \in Notices, notice' = "retry" => notice = "retry", RetryNamesFailures'
  PROVE  IInv'
<1>1. /\ row' = row /\ post' = post /\ patch' = patch /\ load' = load /\ status' = status
      /\ fence' = fence /\ canMutate' = canMutate /\ shown' = shown /\ told' = told
      /\ batch' = batch
  BY DEF server
<1>2. TypeOK'
  BY <1>1 DEF IInv, TypeOK, Notices
<1>3. ToldIsWritten' /\ UnfencedIsCurrent'
  BY <1>1 DEF IInv, ToldIsWritten, UnfencedIsCurrent
<1>4. PagesAreNew' /\ BatchOwnsPending'
  BY <1>1 DEF IInv, PagesAreNew, BatchOwnsPending, Pending
<1>5. QED
  BY <1>2, <1>3, <1>4 DEF IInv

LEMMA ReviewSteps ==
  ASSUME IInv,
         \/ \E a \in Alerts : ToggleSelected(a) \/ ReleaseWorkflowSurface(a)
         \/ ClearSelection \/ DismissBatchError \/ AcknowledgeRefused
  PROVE  IInv'
<1>1. ASSUME NEW a \in Alerts, ToggleSelected(a) PROVE IInv'
  <2> DEFINE sel == IF a \in selected THEN selected \ {a} ELSE selected \cup {a}
  <2>1. Select(sel, hold)
    BY <1>1 DEF ToggleSelected
  <2>2. sel \in SUBSET Alerts /\ hold \in SUBSET Alerts
    BY Types DEF IInv
  <2> HIDE DEF sel
  <2>3. QED
    BY <1>1, <2>1, <2>2, Selecting, Reviewing DEF ToggleSelected
<1>2. CASE ClearSelection
  <2>1. Select({}, hold) /\ hold \in SUBSET Alerts
    BY <1>2, Types DEF ClearSelection, IInv
  <2>2. QED
    BY <1>2, <2>1, Selecting, Reviewing DEF ClearSelection
<1>3. ASSUME NEW a \in Alerts, ReleaseWorkflowSurface(a) PROVE IInv'
  BY <1>3, Types, Reviewing DEF ReleaseWorkflowSurface, IInv, RetryNamesFailures
<1>4. CASE DismissBatchError
  BY <1>4, Types, Reviewing DEF DismissBatchError, IInv, RetryNamesFailures, Notices
<1>5. CASE AcknowledgeRefused
  BY <1>5, Types, Reviewing DEF AcknowledgeRefused, IInv, RetryNamesFailures, Notices
<1>6. QED
  BY <1>1, <1>2, <1>3, <1>4, <1>5

LEMMA Acknowledging ==
  ASSUME IInv, AcknowledgeSelected
  PROVE  IInv'
<1>1. /\ row' = row /\ post' = post /\ load' = load /\ status' = status /\ fence' = fence
      /\ canMutate' = canMutate /\ shown' = shown /\ told' = told /\ hold' = hold
      /\ selected' = selected /\ batchFail' = batchFail /\ notice' = "off"
      /\ ~fence /\ Pending = {} /\ batch.at = "idle"
      /\ batch' = [NoBatch EXCEPT !.at = "patching", !.ids = selected,
                                  !.failed = IF canMutate THEN {} ELSE selected]
      /\ patch' = [a \in Alerts |-> IF canMutate /\ a \in selected
                                    THEN [NoPatch EXCEPT !.at = "sent", !.to = "ack"]
                                    ELSE patch[a]]
  BY DEF AcknowledgeSelected, MayAcknowledge, server
<1>2. /\ [NoPatch EXCEPT !.at = "sent", !.to = "ack"] \in PatchType
      /\ [NoPatch EXCEPT !.at = "sent", !.to = "ack"].at = "sent"
  BY DEF NoPatch, PatchType, States
<1>3. /\ patch' \in [Alerts -> PatchType]
      /\ \A a \in Alerts : patch'[a].at \in {"ok", "conflict"} => patch'[a] = patch[a]
      /\ \A a \in Alerts : patch'[a].at # "none" => a \in selected \/ a \in Pending
  BY <1>1, <1>2, Types DEF IInv, Pending
<1>4. /\ batch' \in BatchType /\ batch'.at = "patching" /\ batch'.ids = selected
  <2>1. selected \in SUBSET Alerts
    BY Types DEF IInv
  <2>2. (IF canMutate THEN {} ELSE selected) \in SUBSET Alerts
    BY <2>1
  <2>3. QED
    BY <1>1, <2>1, <2>2 DEF NoBatch, BatchType
<1>5. load.ofBatch <=> batch.at = "reloading"
  BY Types DEF IInv
<1>6. TypeOK'
  BY <1>1, <1>3, <1>4, <1>5 DEF IInv, TypeOK
<1>7. ToldIsWritten'
  BY <1>1, <1>3 DEF IInv, ToldIsWritten
<1>8. PagesAreNew'
  BY <1>1 DEF IInv, PagesAreNew
<1>9. BatchOwnsPending'
  BY <1>1, <1>3, <1>4 DEF BatchOwnsPending, Pending
<1>10. UnfencedIsCurrent' /\ RetryNamesFailures'
  BY <1>1 DEF IInv, UnfencedIsCurrent, RetryNamesFailures
<1>11. QED
  BY <1>6, <1>7, <1>8, <1>9, <1>10 DEF IInv

\* A batch that has settled leaves no PATCH in flight.
LEMMA BatchEnding ==
  ASSUME IInv, BatchEnds
  PROVE  IInv'
<1>1. /\ BatchSettled /\ batch.at = "patching"
      /\ row' = row /\ post' = post /\ patch' = patch /\ fence' = fence
      /\ canMutate' = canMutate /\ shown' = shown /\ told' = told /\ hold' = hold
  BY DEF BatchEnds, BatchReloads, BatchFails, BatchSucceeds, BatchSettled, server
<1>2. Pending = {} /\ Pending' = Pending /\ notice # "retry"
  BY <1>1 DEF IInv, BatchOwnsPending, BatchSettled, Pending
<1>3. ToldIsWritten' /\ UnfencedIsCurrent'
  BY <1>1 DEF IInv, ToldIsWritten, UnfencedIsCurrent
<1>4. batch \in BatchType /\ load \in LoadType /\ ~load.ofBatch /\ selected \subseteq Alerts
  BY <1>1, Types DEF IInv
<1>5. CASE BatchReloads
  <2>1. /\ notice' = "reload" /\ batch' = [batch EXCEPT !.at = "reloading"]
        /\ load' = NewLoad(status = "ready", fence, TRUE) /\ status' = "loading"
        /\ selected' = selected /\ batchFail' = batchFail
    BY <1>5 DEF BatchReloads
  <2>2. /\ load' \in LoadType /\ load'.ofBatch = TRUE /\ load'.rows = <<>>
        /\ fence => load'.at = "draining"
    <3>1. fence \in BOOLEAN /\ (status = "ready") \in BOOLEAN
      BY Types DEF IInv
    <3>2. QED
      BY <2>1, <3>1, NewLoads
  <2>3. batch' \in BatchType /\ batch'.at = "reloading"
    BY <1>4, <2>1 DEF BatchType
  <2>4. TypeOK'
    BY <1>1, <2>1, <2>2, <2>3 DEF IInv, TypeOK
  <2>5. PagesAreNew'
    BY <1>1, <2>2, NoPages, AlertsAssumption
  <2>6. BatchOwnsPending' /\ RetryNamesFailures'
    BY <1>2, <2>1, <2>3 DEF BatchOwnsPending, RetryNamesFailures
  <2>7. QED
    BY <1>3, <2>4, <2>5, <2>6 DEF IInv
<1>6. CASE BatchFails \/ BatchSucceeds
  <2>1. /\ load' = load /\ status' = status /\ batch' = NoBatch
    BY <1>6 DEF BatchFails, BatchSucceeds
  <2>2. /\ selected' \subseteq Alerts /\ batchFail' \subseteq Alerts /\ notice' \in Notices
        /\ RetryNamesFailures'
    <3>1. CASE BatchFails
      <4>1. batch.failed \subseteq Alerts /\ batch.failed # {}
        BY <1>4, <3>1 DEF BatchFails, BatchType
      <4>2. CASE fence
        BY <3>1, <4>2, Types DEF BatchFails, IInv, Notices, RetryNamesFailures
      <4>3. CASE ~fence
        BY <3>1, <4>1, <4>3 DEF BatchFails, Notices, RetryNamesFailures
      <4>4. QED
        BY <4>2, <4>3
    <3>2. CASE BatchSucceeds
      BY <1>2, <1>4, <3>2, Types DEF BatchSucceeds, IInv, Notices, RetryNamesFailures
    <3>3. QED
      BY <1>6, <3>1, <3>2
  <2>3. TypeOK'
    BY <1>1, <1>4, <2>1, <2>2, NoneTypes DEF IInv, TypeOK, Notices
  <2>4. PagesAreNew' /\ BatchOwnsPending'
    BY <1>1, <1>2, <2>1, NoneTypes DEF IInv, PagesAreNew, BatchOwnsPending
  <2>5. QED
    BY <1>3, <2>2, <2>3, <2>4 DEF IInv
<1>7. QED
  BY <1>5, <1>6 DEF BatchEnds

-----------------------------------------------------------------------------
(***************************************************************************)
(* The theorems.                                                           *)
(***************************************************************************)

LEMMA StartsRight == Init => IInv
<1> SUFFICES ASSUME Init PROVE IInv
  OBVIOUS
<1>1. /\ row = [a \in Alerts |-> Unread] /\ post = NoPost
      /\ patch = [a \in Alerts |-> NoPatch] /\ load = NewLoad(FALSE, FALSE, FALSE)
      /\ status = "loading" /\ fence = FALSE /\ canMutate = FALSE
      /\ shown = [a \in Alerts |-> Unread] /\ told = [a \in Alerts |-> 0]
      /\ hold = {} /\ selected = {} /\ batch = NoBatch /\ batchFail = {} /\ notice = "off"
  BY DEF Init
<1>2. Unread \in RowType /\ NoPost \in PostType
  BY DEF Unread, RowType, NoPost, PostType, States
<1>3. load \in LoadType /\ load.ofBatch = FALSE /\ load.rows = <<>>
  BY <1>1, NewLoads
<1>4. TypeOK
  <2>1. /\ row \in [Alerts -> RowType] /\ shown \in [Alerts -> RowType]
        /\ patch \in [Alerts -> PatchType] /\ told \in [Alerts -> Nat] /\ post \in PostType
    BY <1>1, <1>2, NoneTypes
  <2>2. batch \in BatchType /\ (batch.at = "reloading" <=> load.ofBatch)
    BY <1>1, <1>3, NoneTypes
  <2>3. QED
    BY <1>1, <1>3, <2>1, <2>2 DEF TypeOK
<1>5. ToldIsWritten /\ UnfencedIsCurrent
  <2>1. \A a \in Alerts : /\ told[a] = 0 /\ row[a].ver = 0 /\ shown[a].ver = 0
                          /\ patch[a].at = "none"
    BY <1>1, NoneTypes DEF Unread
  <2>2. QED
    BY <2>1 DEF ToldIsWritten, UnfencedIsCurrent
<1>6. PagesAreNew
  <2>1. Len(load.rows) = 0 /\ N \in Nat
    BY <1>3, AlertsAssumption
  <2>2. 0 <= N /\ 1..0 = {} /\ ~fence
    BY <1>1, <2>1
  <2>3. QED
    BY <1>3, <2>1, <2>2 DEF PagesAreNew
<1>7. BatchOwnsPending /\ RetryNamesFailures
  BY <1>1, NoneTypes DEF BatchOwnsPending, RetryNamesFailures
<1>8. QED
  BY <1>4, <1>5, <1>6, <1>7 DEF IInv

LEMMA Stepping == IInv /\ [Next]_vars => IInv'
<1> SUFFICES ASSUME IInv, [Next]_vars PROVE IInv'
  OBVIOUS
<1>1. CASE UNCHANGED vars
  <2>1. /\ UNCHANGED <<server, patch, load, status, fence, canMutate, shown, told, batch>>
        /\ hold' = hold /\ selected' = selected /\ batchFail' = batchFail /\ notice' = notice
    BY <1>1 DEF vars, review
  <2>2. RetryNamesFailures'
    BY <2>1 DEF IInv, RetryNamesFailures
  <2>3. QED
    BY <2>1, <2>2, Types, Reviewing DEF IInv
<1>2. CASE BatchEnds
  BY <1>2, BatchEnding
<1>3. ASSUME NEW a \in Alerts, Serve(a) \/ Lose(a) \/ Answer(a) PROVE IInv'
  BY <1>3, Serving, OkAnswered, FenceAnswered, FailureAnswered DEF Answer
<1>4. CASE PostWrites \/ \E p \in Posts : PostReads(p[1], p[2])
  BY <1>4, Posting
<1>5. CASE Refresh \/ LoadStep
  BY <1>5, Refreshing, Sent, PageRead, ListUnproved, Landing DEF LoadStep
<1>6. ASSUME NEW t \in Targets, Mutate(t[1], t[2]) PROVE IInv'
  <2>1. t[1] \in Alerts /\ t[2] \in States
    BY AlertsAssumption
  <2>2. QED
    BY <1>6, <2>1, Mutating
<1>7. CASE AcknowledgeSelected
  BY <1>7, Acknowledging
<1>8. CASE \/ \E a \in Alerts : ToggleSelected(a) \/ ReleaseWorkflowSurface(a)
           \/ ClearSelection \/ DismissBatchError \/ AcknowledgeRefused
  BY <1>8, ReviewSteps
<1>9. QED
  BY <1>1, <1>2, <1>3, <1>4, <1>5, <1>6, <1>7, <1>8 DEF Next

\* The inductive invariant holds.
THEOREM Invariant == Spec => []IInv
<1>1. Init => IInv
  BY StartsRight
<1>2. IInv /\ [Next]_vars => IInv'
  BY Stepping
<1>3. QED
  BY <1>1, <1>2, PTL DEF Spec

\* Every variable keeps its type, and a batch that reloads owns the current list
\* request (TypeOK).
THEOREM TypeCorrect == Spec => []TypeOK
<1>1. IInv => TypeOK
  BY DEF IInv
<1>2. QED
  BY <1>1, Invariant, PTL

\* While the fence is down no list has landed on top of a newer answer, however
\* many lists and PATCHes are lost, late or denied (refresh, mutateEvent).
THEOREM NothingOlderIsShown == Spec => []UnfencedIsCurrent
<1>1. IInv => UnfencedIsCurrent
  BY DEF IInv
<1>2. QED
  BY <1>1, Invariant, PTL

\* The offer of a retry names the alerts whose acknowledgment failed, and at
\* least one (acknowledgeSelected and the effect on the selection).
THEOREM RetriesNameFailures == Spec => []RetryNamesFailures
<1>1. IInv => RetryNamesFailures
  BY DEF IInv
<1>2. QED
  BY <1>1, Invariant, PTL

-----------------------------------------------------------------------------
\* Where a request, an answer or a batch changes the list request, it changes the
\* status with it.
LEMMA StatusStep == IInv /\ StatusFollowsLoad /\ [Next]_vars => StatusFollowsLoad'
<1> SUFFICES ASSUME IInv, StatusFollowsLoad, [Next]_vars PROVE StatusFollowsLoad'
  OBVIOUS
<1>1. /\ load.at # "none" => status = "loading"
      /\ status = "loading" => load.at # "none" \/ fence
      /\ load \in LoadType /\ NoLoad.at = "none" /\ fence \in BOOLEAN
  BY Types, NoneTypes DEF IInv, StatusFollowsLoad
<1>2. \A preserve, fenced, ofBatch \in BOOLEAN :
         NewLoad(preserve, fenced, ofBatch).at # "none"
  BY DEF NewLoad, NoLoad
<1>3. (status = "ready") \in BOOLEAN /\ TRUE \in BOOLEAN /\ FALSE \in BOOLEAN
  OBVIOUS
<1>4. ASSUME load' = load, status' = status, fence' = fence PROVE StatusFollowsLoad'
  BY <1>1, <1>4 DEF StatusFollowsLoad
<1>5. ASSUME load'.at # "none", status' = "loading" PROVE StatusFollowsLoad'
  BY <1>5 DEF StatusFollowsLoad
<1>6. ASSUME load' = NoLoad, status' # "loading" \/ fence' PROVE StatusFollowsLoad'
  BY <1>1, <1>6 DEF StatusFollowsLoad
<1>7. ASSUME NEW a \in Alerts, Answer(a) PROVE StatusFollowsLoad'
  <2>1. CASE AnswerOk(a)
    <3>1. CASE fence
      BY <1>4, <2>1, <3>1 DEF AnswerOk
    <3>2. CASE ~fence
      BY <1>6, <2>1, <3>2 DEF AnswerOk
    <3>3. QED
      BY <3>1, <3>2
  <2>2. CASE AnswerConflict(a)
    <3>1. load'.at = load.at /\ status' = status /\ fence' = TRUE
      BY <1>1, <2>2 DEF AnswerConflict, Fenced, LoadType
    <3>2. QED
      BY <1>1, <3>1 DEF StatusFollowsLoad
  <2>3. CASE AnswerDenied(a)
    <3>1. CASE OfBatch(a)
      <4>1. load'.at = load.at /\ status' = status /\ fence' = TRUE
        BY <1>1, <2>3, <3>1 DEF AnswerDenied, Fenced, LoadType
      <4>2. QED
        BY <1>1, <4>1 DEF StatusFollowsLoad
    <3>2. CASE ~OfBatch(a)
      BY <1>2, <1>5, <2>3, <3>2 DEF AnswerDenied
    <3>3. QED
      BY <3>1, <3>2
  <2>4. CASE AnswerFailed(a)
    BY <1>4, <2>4 DEF AnswerFailed
  <2>5. QED
    BY <1>7, <2>1, <2>2, <2>3, <2>4 DEF Answer
<1>8. CASE LoadStep
  <2>1. ASSUME ListSent \/ ReadPage PROVE StatusFollowsLoad'
    <3>1. load.at # "none" /\ load'.at = "reading" /\ status' = status
      BY <1>1, <2>1 DEF ListSent, ReadPage, LoadType
    <3>2. QED
      BY <1>1, <1>5, <3>1
  <2>2. CASE ListFails
    BY <1>6, <2>2 DEF ListFails, Unproved
  <2>3. CASE ListDropped
    BY <1>6, <2>3 DEF ListDropped, ListIsStale, Unproved
  <2>4. CASE ListLands
    BY <1>6, <2>4 DEF ListLands
  <2>5. QED
    BY <1>8, <2>1, <2>2, <2>3, <2>4 DEF LoadStep
<1>9. CASE Refresh
  BY <1>1, <1>2, <1>3, <1>5, <1>9 DEF Refresh
<1>10. CASE BatchEnds
  <2>1. CASE BatchReloads
    BY <1>1, <1>2, <1>3, <1>5, <2>1 DEF BatchReloads
  <2>2. CASE BatchFails \/ BatchSucceeds
    BY <1>4, <2>2 DEF BatchFails, BatchSucceeds
  <2>3. QED
    BY <1>10, <2>1, <2>2 DEF BatchEnds
<1>11. ASSUME NEW a \in Alerts, \/ Serve(a) \/ Lose(a) \/ ToggleSelected(a)
                                \/ ReleaseWorkflowSurface(a)
       PROVE  StatusFollowsLoad'
  BY <1>4, <1>11 DEF Serve, Lose, ToggleSelected, ReleaseWorkflowSurface
<1>12. ASSUME NEW t \in Targets, Mutate(t[1], t[2]) PROVE StatusFollowsLoad'
  BY <1>4, <1>12 DEF Mutate
<1>13. ASSUME NEW p \in Posts, PostReads(p[1], p[2]) PROVE StatusFollowsLoad'
  BY <1>4, <1>13 DEF PostReads
<1>14. CASE \/ PostWrites \/ ClearSelection \/ DismissBatchError
            \/ AcknowledgeRefused \/ AcknowledgeSelected
  BY <1>4, <1>14 DEF PostWrites, ClearSelection, DismissBatchError,
                     AcknowledgeRefused, AcknowledgeSelected
<1>15. CASE UNCHANGED vars
  BY <1>4, <1>15 DEF vars
<1>16. QED
  BY <1>7, <1>8, <1>9, <1>10, <1>11, <1>12, <1>13, <1>14, <1>15 DEF Next

\* Nothing can be changed while a list is read, and the hook never waits for a list
\* that nobody reads unless it offers a reload, whichever request replaces, drops
\* or outruns which (refresh, requireAuthoritativeReload, mutateEvent).
THEOREM NobodyWaitsForNothing == Spec => []StatusFollowsLoad
<1>1. Init => StatusFollowsLoad
  BY DEF Init, NewLoad, NoLoad, StatusFollowsLoad
<1>2. IInv /\ StatusFollowsLoad /\ [Next]_vars => StatusFollowsLoad'
  BY StatusStep
<1>3. QED
  BY <1>1, <1>2, Invariant, PTL DEF Spec
-----------------------------------------------------------------------------
(***************************************************************************)
(* Where the state of an alert moves backward.                             *)
(***************************************************************************)

LEMMA Ranks == \A s \in States : Rank(s) \in 0..2
  BY DEF States, Rank

\* The rows are written by PATCHes and by the other session.
LEMMA RowWriters ==
  ASSUME [Next]_vars
  PROVE  \/ UNCHANGED server
         \/ \E a \in Alerts : Serve(a)
         \/ \E p \in Posts : PostReads(p[1], p[2])
         \/ PostWrites
<1>1. CASE UNCHANGED vars
  BY <1>1 DEF vars
<1>2. CASE BatchEnds \/ Refresh \/ LoadStep
  BY <1>2 DEF BatchEnds, BatchReloads, BatchFails, BatchSucceeds, Refresh, LoadStep,
              ListSent, ReadPage, ListFails, ListDropped, ListLands
<1>3. ASSUME NEW a \in Alerts,
             Lose(a) \/ Answer(a) \/ ToggleSelected(a) \/ ReleaseWorkflowSurface(a)
      PROVE  UNCHANGED server
  BY <1>3 DEF Lose, Answer, AnswerOk, AnswerConflict, AnswerDenied, AnswerFailed,
              ToggleSelected, ReleaseWorkflowSurface
<1>4. ASSUME NEW t \in Targets, Mutate(t[1], t[2]) PROVE UNCHANGED server
  BY <1>4 DEF Mutate
<1>5. CASE ClearSelection \/ DismissBatchError \/ AcknowledgeRefused \/ AcknowledgeSelected
  BY <1>5 DEF ClearSelection, DismissBatchError, AcknowledgeRefused, AcknowledgeSelected
<1>6. QED
  BY <1>1, <1>2, <1>3, <1>4, <1>5 DEF Next

\* Every write of a row adds one to its number.
LEMMA RowSteps ==
  ASSUME IInv, [Next]_vars, NEW a \in Alerts
  PROVE  row'[a] = row[a] \/ row'[a].ver = row[a].ver + 1
<1>1. row \in [Alerts -> RowType] /\ post \in PostType
  BY Types DEF IInv
<1>2. CASE UNCHANGED server \/ \E p \in Posts : PostReads(p[1], p[2])
  BY <1>2 DEF server, PostReads
<1>3. ASSUME NEW b \in Alerts, Serve(b) PROVE row'[a] = row[a] \/ row'[a].ver = row[a].ver + 1
  BY <1>3, Served
<1>4. CASE PostWrites
  <2>1. CASE row' = row
    BY <2>1
  <2>2. CASE row' # row
    <3>1. row' = [row EXCEPT ![post.alert] = Written(post.alert, post)]
      BY <1>4, <2>2 DEF PostWrites
    <3>2. CASE a = post.alert
      <4>1. row'[a] = Written(a, post)
        BY <1>1, <3>1, <3>2
      <4>2. post.to \in States
        BY <1>1 DEF PostType
      <4>3. QED
        BY <4>1, <4>2, WriteTypes
    <3>3. CASE a # post.alert
      BY <1>1, <3>1, <3>3
    <3>4. QED
      BY <3>2, <3>3
  <2>3. QED
    BY <2>1, <2>2
<1>5. QED
  BY <1>2, <1>3, <1>4, RowWriters

\* Nothing but the server takes a PATCH to a read without a lock.
LEMMA Unlocking ==
  ASSUME IInv, [Next]_vars, NEW a \in Alerts, patch'[a].at \in {"unlocked", "read"}
  PROVE  patch'[a] = patch[a] \/ Serve(a)
<1>1. patch \in [Alerts -> PatchType]
  BY Types DEF IInv
<1>2. CASE UNCHANGED patch
  BY <1>2
<1>3. ASSUME NEW b \in Alerts, Serve(b) PROVE patch'[a] = patch[a] \/ Serve(a)
  BY <1>3, Served
<1>4. ASSUME NEW b \in Alerts, Lose(b) \/ Answer(b) PROVE patch'[a] = patch[a]
  <2>1. PICK reply : /\ patch' = [patch EXCEPT ![b] = reply]
                     /\ reply.at \in {"none", "failed"}
    <3>1. NoPatch.at = "none"
      BY DEF NoPatch
    <3>2. CASE Lose(b)
      <4>1. Reply(b, "failed", patch[b].to, 0)
        BY <3>2 DEF Lose
      <4> DEFINE failed == [at |-> "failed", saw |-> "open", to |-> patch[b].to, ver |-> 0]
      <4>2. patch' = [patch EXCEPT ![b] = failed] /\ failed.at = "failed"
        BY <4>1 DEF Reply
      <4> HIDE DEF failed
      <4>3. QED
        BY <4>2
    <3>3. CASE Answer(b)
      <4>1. patch' = [patch EXCEPT ![b] = NoPatch]
        BY <3>3 DEF Answer, AnswerOk, AnswerConflict, AnswerDenied, AnswerFailed, Answered
      <4>2. QED
        BY <3>1, <4>1
    <3>4. QED
      BY <1>4, <3>2, <3>3
  <2>2. CASE a = b
    <3>1. patch'[a] = reply
      BY <1>1, <2>1, <2>2
    <3>2. QED
      BY <2>1, <3>1
  <2>3. CASE a # b
    BY <1>1, <2>1, <2>3
  <2>4. QED
    BY <2>2, <2>3
<1>5. ASSUME NEW t \in Targets, Mutate(t[1], t[2]) PROVE patch'[a] = patch[a]
  BY <1>1, <1>5 DEF Mutate, NoPatch
<1>6. CASE AcknowledgeSelected
  BY <1>6 DEF AcknowledgeSelected, NoPatch
<1>7. CASE UNCHANGED vars \/ BatchEnds \/ Refresh \/ LoadStep
  BY <1>2, <1>7 DEF vars, BatchEnds, BatchReloads, BatchFails, BatchSucceeds, Refresh,
                    LoadStep, ListSent, ReadPage, ListFails, ListDropped, ListLands
<1>8. ASSUME NEW b \in Alerts, ToggleSelected(b) \/ ReleaseWorkflowSurface(b)
      PROVE  UNCHANGED patch
  BY <1>8 DEF ToggleSelected, ReleaseWorkflowSurface
<1>9. CASE \/ PostWrites \/ \E p \in Posts : PostReads(p[1], p[2])
           \/ ClearSelection \/ DismissBatchError \/ AcknowledgeRefused
  BY <1>2, <1>9 DEF PostWrites, PostReads, ClearSelection, DismissBatchError,
                    AcknowledgeRefused
<1>10. QED
  BY <1>2, <1>3, <1>4, <1>5, <1>6, <1>7, <1>8, <1>9 DEF Next

LEMMA ReadHolders ==
  ASSUME IInv, [Next]_vars, NEW a \in Alerts, patch'[a].at = "read"
  PROVE  patch'[a] = patch[a] \/ (PatchReads(a) /\ row' = row)
<1>1. patch \in [Alerts -> PatchType]
  BY Types DEF IInv
<1>2. CASE Serve(a)
  <2>1. ASSUME PatchDenied(a) \/ PatchLocked(a) \/ PatchUnlocked(a) \/ PatchWrites(a)
        PROVE  FALSE
    BY <1>1, <2>1 DEF PatchDenied, PatchLocked, PatchUnlocked, PatchWrites, Reply, PatchType
  <2>2. QED
    BY <1>2, <2>1 DEF Serve, PatchReads
<1>3. QED
  BY <1>2, Unlocking

\* A read stays one of an earlier state of its row.
LEMMA ReadsStay ==
  ASSUME IInv, NEW a \in Alerts, NEW read, read.ver \in Nat, IsOfRead(a, read),
         row'[a] = row[a] \/ row'[a].ver = row[a].ver + 1
  PROVE  /\ Rank(read.saw) <= Rank(read.to)
         /\ read.ver <= row'[a].ver
         /\ read.ver = row'[a].ver => read.saw = row'[a].state
<1>1. row[a].ver \in Nat
  BY Types DEF IInv, RowType
<1>2. /\ Rank(read.saw) <= Rank(read.to) /\ read.ver <= row[a].ver
      /\ read.ver = row[a].ver => read.saw = row[a].state
  BY DEF IsOfRead
<1>3. CASE row'[a] = row[a]
  BY <1>2, <1>3
<1>4. CASE row'[a].ver = row[a].ver + 1
  BY <1>1, <1>2, <1>4
<1>5. QED
  BY <1>3, <1>4

LEMMA ReadStep == ReadInv /\ [Next]_vars => ReadInv'
<1> SUFFICES ASSUME ReadInv, [Next]_vars PROVE ReadInv'
  OBVIOUS
<1>1. IInv /\ IInv' /\ ReadsAreOfRows
  BY Stepping DEF ReadInv
<1>2. /\ row \in [Alerts -> RowType] /\ post \in PostType /\ patch \in [Alerts -> PatchType]
      /\ \A b \in Alerts : row[b].ver \in Nat /\ Rank(row[b].state) \in 0..2
      /\ \A b \in Alerts : patch[b].ver \in Nat /\ Rank(patch[b].to) \in 0..2
  BY <1>1, Types, Ranks DEF IInv, RowType, PatchType
<1>3. ASSUME post' # NoPost PROVE post'.alert \in Alerts /\ IsOfRead(post.alert, post)'
  <2>1. CASE post' = post
    <3>1. post.alert \in Alerts /\ IsOfRead(post.alert, post) /\ post.ver \in Nat
      BY <1>1, <1>2, <1>3, <2>1 DEF ReadsAreOfRows, PostType
    <3>2. /\ Rank(post.saw) <= Rank(post.to) /\ post.ver <= row'[post.alert].ver
          /\ post.ver = row'[post.alert].ver => post.saw = row'[post.alert].state
      BY <1>1, <3>1, ReadsStay, RowSteps
    <3>3. QED
      BY <2>1, <3>1, <3>2 DEF IsOfRead
  <2>2. CASE post' # post
    <3>1. PICK p \in Posts : PostReads(p[1], p[2])
      BY <1>3, <2>2, RowWriters DEF server, Serve, PostWrites
    <3>2. p[1] \in Alerts /\ p[2] \in States
      BY AlertsAssumption
    <3>3. /\ post' = [alert |-> p[1], saw |-> row[p[1]].state, to |-> p[2],
                      ver |-> row[p[1]].ver]
          /\ row' = row /\ Rank(p[2]) >= Rank(row[p[1]].state)
      BY <3>1 DEF PostReads
    <3>4. QED
      BY <1>2, <3>2, <3>3, Ranks DEF IsOfRead
  <2>3. QED
    BY <2>1, <2>2
<1>4. ASSUME NEW a \in Alerts, patch'[a].at = "read" PROVE IsOfRead(a, patch[a])'
  <2>1. CASE patch'[a] = patch[a]
    <3>1. IsOfRead(a, patch[a]) /\ patch[a].ver \in Nat
      BY <1>1, <1>2, <1>4, <2>1 DEF ReadsAreOfRows
    <3>2. /\ Rank(patch[a].saw) <= Rank(patch[a].to) /\ patch[a].ver <= row'[a].ver
          /\ patch[a].ver = row'[a].ver => patch[a].saw = row'[a].state
      BY <1>1, <3>1, ReadsStay, RowSteps
    <3>3. QED
      BY <2>1, <3>2 DEF IsOfRead
  <2>2. CASE PatchReads(a) /\ row' = row
    <3>1. CASE Reply(a, "conflict", patch[a].to, row[a].ver)
      BY <1>2, <1>4, <3>1 DEF Reply
    <3>2. CASE /\ ~(Rank(patch[a].to) < Rank(row[a].state))
               /\ patch' = [patch EXCEPT ![a].at = "read", ![a].saw = row[a].state,
                                         ![a].ver = row[a].ver]
      <4>1. patch'[a].saw = row[a].state /\ patch'[a].ver = row[a].ver
            /\ patch'[a].to = patch[a].to
        BY <1>2, <3>2 DEF PatchType
      <4>2. QED
        BY <1>2, <2>2, <3>2, <4>1 DEF IsOfRead
    <3>3. QED
      BY <2>2, <3>1, <3>2 DEF PatchReads
  <2>3. QED
    BY <1>1, <1>4, <2>1, <2>2, ReadHolders
<1>5. QED
  BY <1>1, <1>3, <1>4 DEF ReadInv, ReadsAreOfRows

\* A write whose row is as it was read does not lower the rank, and neither does
\* an insert.
LEMMA WriteKeepsRank ==
  ASSUME IInv, NEW a \in Alerts, NEW read, read.saw \in States, read.to \in States,
         read.ver \in Nat, IsOfRead(a, read), ~InsertFails(a, read),
         Rank(Written(a, read).state) < Rank(row[a].state)
  PROVE  0 < read.ver /\ read.ver < row[a].ver
<1>1. row[a].state \in States /\ row[a].ver \in Nat
  BY Types DEF IInv, RowType
<1>2. /\ Rank(read.saw) \in 0..2 /\ Rank(read.to) \in 0..2 /\ Rank(row[a].state) \in 0..2
  BY <1>1, Ranks
<1>3. Written(a, read).state = read.to
  BY <1>2 DEF Written
<1>4. read.ver # row[a].ver
  BY <1>2, <1>3 DEF IsOfRead
<1>5. read.ver < row[a].ver
  BY <1>1, <1>4 DEF IsOfRead
<1>6. read.ver # 0
  BY <1>1, <1>5 DEF InsertFails
<1>7. QED
  BY <1>5, <1>6

\* A PATCH under the lock of its row compares the ranks it is about to change.
LEMMA ServeRank ==
  ASSUME ReadInv, NEW a \in Alerts, Serve(a), Rank(row'[a].state) < Rank(row[a].state)
  PROVE  /\ patch[a].at = "read" /\ row'[a] = Written(a, patch[a])
         /\ 0 < patch[a].ver /\ patch[a].ver < row[a].ver
<1>1. IInv /\ ReadsAreOfRows /\ row \in [Alerts -> RowType] /\ patch \in [Alerts -> PatchType]
  BY Types DEF ReadInv, IInv
<1>2. /\ Rank(row[a].state) \in 0..2 /\ Rank(patch[a].to) \in 0..2
      /\ patch[a].saw \in States /\ patch[a].to \in States /\ patch[a].ver \in Nat
  BY <1>1, Ranks DEF RowType, PatchType
<1>3. row' # row
  BY <1>2
<1>4. ASSUME PatchLocked(a) PROVE FALSE
  <2>1. /\ Rank(patch[a].to) >= Rank(row[a].state)
        /\ row' = [row EXCEPT ![a] = [state |-> patch[a].to, ver |-> row[a].ver + 1]]
    BY <1>3, <1>4 DEF PatchLocked
  <2>2. row'[a].state = patch[a].to
    BY <1>1, <2>1
  <2>3. QED
    BY <1>2, <2>1, <2>2
<1>5. PatchWrites(a)
  BY <1>3, <1>4 DEF Serve, PatchDenied, PatchUnlocked, PatchReads
<1>6. /\ patch[a].at = "read" /\ ~InsertFails(a, patch[a])
      /\ row' = [row EXCEPT ![a] = Written(a, patch[a])]
  BY <1>3, <1>5 DEF PatchWrites
<1>7. row'[a] = Written(a, patch[a])
  BY <1>1, <1>6
<1>8. IsOfRead(a, patch[a])
  BY <1>1, <1>6 DEF ReadsAreOfRows
<1>9. QED
  BY <1>1, <1>2, <1>6, <1>7, <1>8, WriteKeepsRank

LEMMA PostRank ==
  ASSUME ReadInv, NEW a \in Alerts, PostWrites, Rank(row'[a].state) < Rank(row[a].state)
  PROVE  /\ post # NoPost /\ post.alert = a /\ row'[a] = Written(a, post)
         /\ 0 < post.ver /\ post.ver < row[a].ver
<1>1. IInv /\ ReadsAreOfRows /\ row \in [Alerts -> RowType] /\ post \in PostType
  BY Types DEF ReadInv, IInv
<1>2. /\ Rank(row[a].state) \in 0..2 /\ post.ver \in Nat
      /\ post.saw \in States /\ post.to \in States
  BY <1>1, Ranks DEF RowType, PostType
<1>3. row' # row
  BY <1>2
<1>4. /\ post # NoPost /\ ~InsertFails(post.alert, post)
      /\ row' = [row EXCEPT ![post.alert] = Written(post.alert, post)]
  BY <1>3 DEF PostWrites
<1>5. post.alert = a
  BY <1>1, <1>2, <1>4
<1>6. row'[a] = Written(a, post)
  BY <1>1, <1>4, <1>5
<1>7. IsOfRead(a, post)
  BY <1>1, <1>4, <1>5 DEF ReadsAreOfRows
<1>8. QED
  BY <1>1, <1>2, <1>4, <1>5, <1>6, <1>7, WriteKeepsRank

\* Which request lowers a rank, and what it writes.
LEMMA RankStep ==
  ASSUME ReadInv, [Next]_vars, NEW a \in Alerts,
         Rank(row'[a].state) < Rank(row[a].state)
  PROVE  \E read \in {post, patch[a]} :
            /\ WritesFrom(a, read) /\ 0 < read.ver /\ read.ver < row[a].ver
            /\ row'[a] = Written(a, read)
<1>1. IInv /\ row \in [Alerts -> RowType] /\ Rank(row[a].state) \in 0..2
  BY Types, Ranks DEF ReadInv, IInv, RowType
<1>2. row'[a] # row[a]
  BY <1>1
<1>3. ~UNCHANGED server /\ ~ \E p \in Posts : PostReads(p[1], p[2])
  BY <1>2 DEF server, PostReads
<1>4. CASE PostWrites
  BY <1>4, PostRank DEF WritesFrom
<1>5. ASSUME NEW b \in Alerts, Serve(b)
      PROVE  \E read \in {post, patch[a]} :
                /\ WritesFrom(a, read) /\ 0 < read.ver /\ read.ver < row[a].ver
                /\ row'[a] = Written(a, read)
  <2>1. a = b
    BY <1>1, <1>2, <1>5, Served
  <2>2. /\ Serve(a) /\ patch[a].at = "read" /\ row'[a] = Written(a, patch[a])
        /\ 0 < patch[a].ver /\ patch[a].ver < row[a].ver
    BY <1>5, <2>1, ServeRank
  <2>3. QED
    BY <2>2 DEF WritesFrom
<1>6. QED
  BY <1>3, <1>4, <1>5, RowWriters

LEMMA ReadStarts == Init => ReadInv
<1>1. Init => ReadsAreOfRows
  BY DEF Init, ReadsAreOfRows, NoPatch
<1>2. QED
  BY <1>1, StartsRight DEF ReadInv

\* A state moves backward only when a request that read the row without a lock, a
\* POST or a PATCH whose SELECT FOR UPDATE had found no row, updates a row that has
\* been written since: the comparison of the ranks is right wherever the row is
\* still the one it was made with, for any number of alerts and of PATCHes
\* (upsert_alert_state, patch_alert_event).
THEOREM OnlyRacesRegress == Spec => RegressionsAreRaces
<1>1. ReadInv /\ [Next]_vars => ReadInv'
  BY ReadStep
<1>2. ReadInv /\ [Next]_vars =>
        [\A a \in Alerts :
           Rank(row'[a].state) < Rank(row[a].state) =>
             \E read \in {post, patch[a]} :
               WritesFrom(a, read) /\ 0 < read.ver /\ read.ver < row[a].ver]_vars
  BY RankStep
<1>3. QED
  BY <1>1, <1>2, ReadStarts, PTL DEF Spec, RegressionsAreRaces

\* Where other sessions only resolve alerts, a PATCH that locked nothing finds no
\* row when it looks again, or a resolved one.
OnlyResolves ==
  /\ post # NoPost => post.to = "resolved"
  /\ \A a \in Alerts :
       /\ patch[a].at = "unlocked" => row[a].ver = 0 \/ row[a].state = "resolved"
       /\ patch[a].at = "read" => patch[a].ver = 0 \/ patch[a].to = "resolved"

\* Only a POST writes the row of a PATCH that is still to look again.
LEMMA UnlockedStep ==
  ASSUME ReadInv, OnlyResolves, [Next]_vars, NEW a \in Alerts, patch'[a].at = "unlocked"
  PROVE  row'[a].ver = 0 \/ row'[a].state = "resolved"
<1>1. /\ IInv /\ ReadsAreOfRows /\ row \in [Alerts -> RowType] /\ post \in PostType
      /\ patch \in [Alerts -> PatchType] /\ row[a].ver \in Nat
  BY Types DEF ReadInv, IInv, RowType
<1>2. CASE Serve(a)
  <2>1. PatchUnlocked(a)
    BY <1>1, <1>2 DEF Serve, PatchDenied, PatchLocked, PatchReads, PatchWrites, Reply, PatchType
  <2>2. QED
    BY <2>1 DEF PatchUnlocked
<1>3. CASE ~Serve(a)
  <2>1. row[a].ver = 0 \/ row[a].state = "resolved"
    <3>1. patch[a].at = "unlocked"
      BY <1>1, <1>3, Unlocking
    <3>2. QED
      BY <3>1 DEF OnlyResolves
  <2>2. CASE row'[a] = row[a]
    BY <2>1, <2>2
  <2>3. CASE row'[a] # row[a]
    <3>1. ~UNCHANGED server /\ ~ \E p \in Posts : PostReads(p[1], p[2])
      BY <2>3 DEF server, PostReads
    <3>2. PostWrites
      <4>1. ASSUME NEW b \in Alerts, Serve(b) PROVE FALSE
        BY <1>1, <1>3, <2>3, <4>1, Served
      <4>2. QED
        BY <3>1, <4>1, RowWriters
    <3>3. /\ post # NoPost /\ ~InsertFails(post.alert, post)
          /\ row' = [row EXCEPT ![post.alert] = Written(post.alert, post)]
      BY <2>3, <3>2 DEF PostWrites
    <3>4. post.alert = a /\ row'[a] = Written(a, post) /\ IsOfRead(a, post)
      BY <1>1, <2>3, <3>3 DEF ReadsAreOfRows
    <3>5. post.to = "resolved" /\ post.ver \in Nat
      BY <1>1, <3>3 DEF OnlyResolves, PostType
    <3>6. row[a].ver = 0 => post.ver = 0
      BY <1>1, <3>4, <3>5 DEF IsOfRead
    <3>7. QED
      BY <2>1, <3>4, <3>5, <3>6 DEF Written
  <2>4. QED
    BY <2>2, <2>3
<1>4. QED
  BY <1>2, <1>3

LEMMA Resolving ==
  ASSUME \A p \in Posts : p[2] = "resolved"
  PROVE  Spec => []OnlyResolves
<1>1. Init => OnlyResolves
  BY DEF Init, OnlyResolves, NoPatch
<1>2. ReadInv /\ OnlyResolves /\ [Next]_vars => OnlyResolves'
  <2> SUFFICES ASSUME ReadInv, OnlyResolves, [Next]_vars PROVE OnlyResolves'
    OBVIOUS
  <2>1. post' # NoPost => post'.to = "resolved"
    BY RowWriters DEF OnlyResolves, server, Serve, PostReads, PostWrites
  <2>2. ASSUME NEW a \in Alerts, patch'[a].at = "read"
        PROVE  patch'[a].ver = 0 \/ patch'[a].to = "resolved"
    <3>1. /\ IInv /\ patch \in [Alerts -> PatchType] /\ row[a].state \in States
          /\ patch[a].to \in States
      BY Types DEF ReadInv, IInv, RowType, PatchType
    <3>2. CASE patch'[a] = patch[a]
      BY <2>2, <3>2 DEF OnlyResolves
    <3>3. CASE PatchReads(a) /\ ~(Rank(patch[a].to) < Rank(row[a].state))
      <4>1. patch'[a].ver = row[a].ver /\ patch'[a].to = patch[a].to
        BY <3>1, <3>3 DEF PatchReads, PatchType
      <4>2. row[a].state = "resolved" => patch[a].to = "resolved"
        BY <3>1, <3>3 DEF Rank, States
      <4>3. QED
        BY <3>3, <4>1, <4>2 DEF OnlyResolves, PatchReads
    <3>4. CASE PatchReads(a) /\ Rank(patch[a].to) < Rank(row[a].state)
      BY <2>2, <3>1, <3>4 DEF PatchReads, Reply
    <3>5. QED
      BY <2>2, <3>1, <3>2, <3>3, <3>4, ReadHolders
  <2>3. QED
    BY <2>1, <2>2, UnlockedStep DEF OnlyResolves
<1>3. QED
  BY <1>1, <1>2, ReadStarts, ReadStep, PTL DEF Spec

\* The documented promise (StateNeverRegresses) holds where other sessions only
\* resolve alerts: no write lies above theirs (_STATE_RANK, upsert_alert_state).
THEOREM ResolvingIsSafe ==
  ASSUME \A p \in Posts : p[2] = "resolved"
  PROVE  Spec => StateNeverRegresses
<1>1. ReadInv /\ OnlyResolves /\ [Next]_vars =>
        [\A a \in Alerts : Rank(row'[a].state) >= Rank(row[a].state)]_vars
  <2> SUFFICES ASSUME ReadInv, OnlyResolves, [Next]_vars, NEW a \in Alerts
               PROVE  Rank(row'[a].state) >= Rank(row[a].state)
    OBVIOUS
  <2>1. /\ row \in [Alerts -> RowType] /\ row' \in [Alerts -> RowType]
    BY Stepping, Types DEF ReadInv, IInv, TypeOK
  <2>2. Rank(row[a].state) \in 0..2 /\ Rank(row'[a].state) \in 0..2
    BY <2>1, Ranks DEF RowType
  <2>3. CASE Rank(row'[a].state) < Rank(row[a].state)
    <3>1. PICK read \in {post, patch[a]} :
             WritesFrom(a, read) /\ 0 < read.ver /\ row'[a] = Written(a, read)
      BY <2>3, RankStep
    <3>2. read.to = "resolved"
      <4>1. CASE PostWrites /\ read = post
        BY <2>2, <2>3, <3>1, <4>1 DEF OnlyResolves, NoPost
      <4>2. CASE patch[a].at = "read" /\ read = patch[a]
        BY <3>1, <4>2 DEF OnlyResolves
      <4>3. QED
        BY <3>1, <4>1, <4>2 DEF WritesFrom
    <3>3. row'[a].state = row[a].state \/ row'[a].state = "resolved"
      BY <3>1, <3>2 DEF Written
    <3>4. Rank("resolved") = 2
      BY DEF Rank
    <3>5. QED
      BY <2>2, <2>3, <3>3, <3>4
  <2>4. QED
    BY <2>2, <2>3
<1>2. ReadInv /\ [Next]_vars => ReadInv'
  BY ReadStep
<1>3. Spec => []OnlyResolves
  BY Resolving
<1>4. QED
  BY <1>1, <1>2, <1>3, ReadStarts, PTL DEF Spec, StateNeverRegresses
=============================================================================
