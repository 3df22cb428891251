--------------------------- MODULE AlertDelivery ---------------------------
(***************************************************************************)
(* The delivery of alerts of caos/server/alert_dispatch.py: intents that   *)
(* materialize_alert inserts, and the dispatchers that call dispatch_once: *)
(* one transaction claims a tokenized lease, the sink renders outside any  *)
(* transaction, and a second transaction settles the intent if the lease   *)
(* is still owned.                                                         *)
(*                                                                         *)
(* Every claim adds one to attempt_count and draws a fresh lease token; an *)
(* attempt number of an intent therefore stands for its token.  Clocks are *)
(* read before each transaction and may be slow or skewed: a dispatcher    *)
(* sees any part of the deadlines that the foremost clock has passed.      *)
(***************************************************************************)
EXTENDS Naturals, FiniteSets

CONSTANTS
  Intents,      \* a destination of an alert: one row each
  NoIntent,
  Dispatchers,  \* processes that call dispatch_once
  MaxAttempts   \* max_attempts, the same for every sink

ASSUME DeliveryAssumption ==
  /\ MaxAttempts \in Nat \ {0}
  /\ NoIntent \notin Intents

Final == {"rendered_intent", "not_sent"}

VARIABLES
  intent,  \* [Intents -> IntentType], the rows of alert_delivery_intents
  call     \* [Dispatchers -> CallType], the dispatch_once in progress

vars == <<intent, call>>

IntentType == [status   : {"absent", "pending", "leased"} \cup Final,
               attempts : 0..MaxAttempts,
               ripe     : BOOLEAN,  \* available_at or lease_expires_at has passed
               reason   : {"none", "sink", "render_error", "retry_exhausted"}]

CallType == [pc      : {"idle", "render", "finish", "return"},
             intent  : Intents \cup {NoIntent},
             attempt : 0..MaxAttempts,       \* the lease token
             outcome : Final \cup {"none", "error"},
             late    : BOOLEAN,              \* lease_expires_at <= finish_now
             won     : BOOLEAN]              \* the finishing update hit the row

Absent == [status |-> "absent", attempts |-> 0, ripe |-> FALSE, reason |-> "none"]

NoCall == [pc |-> "idle", intent |-> NoIntent, attempt |-> 0, outcome |-> "none",
           late |-> FALSE, won |-> FALSE]

Init == /\ intent = [i \in Intents |-> Absent]
        /\ call = [d \in Dispatchers |-> NoCall]

-----------------------------------------------------------------------------
\* What the statements match and write.

\* Mutant: a lease that lapsed is not taken over.
EligiblePending == {i \in Intents : intent[i].status = "pending" /\ intent[i].ripe}

\* _eligible on the foremost clock.
Eligible == {i \in Intents : intent[i].status \in {"pending", "leased"} /\ intent[i].ripe}

\* Mutant: one attempt too many.
SpentLate(seen) == {i \in seen : intent[i].attempts > MaxAttempts}

\* Of the intents a transaction sees as eligible, those that _mark_exhausted
\* matches; the others can be claimed.
Spent(seen) == {i \in seen : intent[i].attempts >= MaxAttempts}

Exhausted(row) == [row EXCEPT !.status = "not_sent", !.ripe = FALSE,
                              !.reason = "retry_exhausted"]

GivenUp(seen) == [i \in Intents |-> IF i \in Spent(seen) THEN Exhausted(intent[i])
                                    ELSE intent[i]]

\* delivery_claim_update_statement.
Leased(row) == [row EXCEPT !.status = "leased", !.attempts = row.attempts + 1,
                           !.ripe = FALSE]

\* dispatch_once with the lease that _load_lease has built.
Rendering(i, attempt) == [pc |-> "render", intent |-> i, attempt |-> attempt,
                          outcome |-> "none", late |-> FALSE, won |-> FALSE]

\* Mutants of _owned_lease_predicates.
OwnedByAnyone(c)  == intent[c.intent].status = "leased" /\ ~c.late
OwnedForever(c)   == intent[c.intent].attempts = c.attempt /\ ~c.late

\* _owned_lease_predicates.
Owned(c) == /\ intent[c.intent].status = "leased"
            /\ intent[c.intent].attempts = c.attempt
            /\ ~c.late

\* Mutant of the failure update: no retry.
FailedAtOnce(row, c) == [row EXCEPT !.status = "not_sent", !.ripe = FALSE,
                                    !.reason = "render_error"]

\* delivery_failure_update_statement: terminal on the last attempt, else back
\* to pending, available after the backoff.
Failed(row, c) ==
  IF c.attempt >= MaxAttempts
  THEN [row EXCEPT !.status = "not_sent", !.ripe = FALSE, !.reason = "render_error"]
  ELSE [row EXCEPT !.status = "pending", !.ripe = FALSE]

\* delivery_completion_update_statement.
Completed(row, c) ==
  [row EXCEPT !.status = c.outcome, !.ripe = FALSE,
              !.reason = IF c.outcome = "not_sent" THEN "sink" ELSE "none"]

-----------------------------------------------------------------------------
\* Mutant: ON CONFLICT DO UPDATE.
MaterializeOver(i) ==
  /\ intent[i].status # "leased"
  /\ intent' = [intent EXCEPT ![i] = [Absent EXCEPT !.status = "pending"]]
  /\ UNCHANGED call

\* materialize_alert inserts the intent; a replay conflicts and does nothing.
Materialize(i) ==
  /\ intent[i].status = "absent"
  /\ intent' = [intent EXCEPT ![i].status = "pending"]
  /\ UNCHANGED call

\* available_at or lease_expires_at passes.
TimePasses(i) ==
  /\ intent[i].status \in {"pending", "leased"} /\ ~intent[i].ripe
  /\ intent' = [intent EXCEPT ![i].ripe = TRUE]
  /\ UNCHANGED call

\* claim_delivery_intent when no eligible intent has an attempt left.
ClaimNothing(d, seen) ==
  /\ call[d].pc = "idle"
  /\ seen \subseteq Spent(Eligible)
  /\ intent' = GivenUp(seen)
  /\ UNCHANGED call

\* Mutant: the claim does not count.
ClaimUncounted(d, seen, i) ==
  /\ call[d].pc = "idle"
  /\ seen \subseteq Eligible
  /\ i \in seen \ Spent(seen)
  /\ intent' = [GivenUp(seen) EXCEPT ![i].status = "leased", ![i].ripe = FALSE]
  /\ call' = [call EXCEPT ![d] = Rendering(i, intent[i].attempts)]

\* claim_delivery_intent: _mark_exhausted, then the claim of one intent, the
\* first by available_at, which can be any of them.
Claim(d, seen, i) ==
  /\ call[d].pc = "idle"
  /\ seen \subseteq Eligible
  /\ i \in seen \ Spent(seen)
  /\ intent' = [GivenUp(seen) EXCEPT ![i] = Leased(intent[i])]
  /\ call' = [call EXCEPT ![d] = Rendering(i, intent[i].attempts + 1)]

\* The sink renders, or is missing, or raises, and the clock is read again.
Render(d, outcome, late) ==
  /\ call[d].pc = "render"
  /\ call' = [call EXCEPT ![d].pc = "finish", ![d].outcome = outcome, ![d].late = late]
  /\ UNCHANGED intent

\* Mutant: success is reported without looking at the rows returned.
FinishBlindly(d) ==
  /\ call[d].pc = "finish"
  /\ IF Owned(call[d])
     THEN intent' = [intent EXCEPT ![call[d].intent] =
                       IF call[d].outcome = "error" THEN Failed(@, call[d])
                                                    ELSE Completed(@, call[d])]
     ELSE UNCHANGED intent
  /\ call' = [call EXCEPT ![d].pc = "return", ![d].won = TRUE]

\* complete_delivery_intent or record_delivery_failure in its own transaction.
Finish(d) ==
  /\ call[d].pc = "finish"
  /\ IF Owned(call[d])
     THEN intent' = [intent EXCEPT ![call[d].intent] =
                       IF call[d].outcome = "error" THEN Failed(@, call[d])
                                                    ELSE Completed(@, call[d])]
     ELSE UNCHANGED intent
  /\ call' = [call EXCEPT ![d].pc = "return", ![d].won = Owned(call[d])]

\* dispatch_once returns its SinkResult.
Return(d) ==
  /\ call[d].pc = "return"
  /\ call' = [call EXCEPT ![d] = NoCall]
  /\ UNCHANGED intent

\* The dispatcher dies, or dispatch_once raises: what is committed stays.
Crash(d) ==
  /\ call[d].pc # "idle"
  /\ call' = [call EXCEPT ![d] = NoCall]
  /\ UNCHANGED intent

DispatchSeeing(d, seen) == ClaimNothing(d, seen) \/ \E i \in seen : Claim(d, seen, i)

GoOn(d) == \/ \E outcome \in Final \cup {"error"}, late \in BOOLEAN :
                 Render(d, outcome, late)
           \/ Finish(d)
           \/ Return(d)

Next == \/ \E i \in Intents : Materialize(i) \/ TimePasses(i)
        \/ \E d \in Dispatchers : \/ \E seen \in SUBSET Eligible : DispatchSeeing(d, seen)
                                  \/ GoOn(d)
                                  \/ Crash(d)

Spec == Init /\ [][Next]_vars

\* Dispatchers call dispatch_once again and again on clocks that advance, and
\* a call that is not cut off goes on.
Fairness == /\ \A i \in Intents : WF_vars(TimePasses(i))
            /\ \A d \in Dispatchers : /\ WF_vars(DispatchSeeing(d, Eligible))
                                      /\ WF_vars(GoOn(d))

FairSpec == Spec /\ Fairness
=============================================================================
