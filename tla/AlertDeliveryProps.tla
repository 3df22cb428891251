------------------------- MODULE AlertDeliveryProps -------------------------
(***************************************************************************)
(* What the delivery of alerts must guarantee.                             *)
(***************************************************************************)
EXTENDS AlertDelivery

\* Rows and calls stay within their types; an intent is claimed at most
\* MaxAttempts times.
TypeOK == /\ intent \in [Intents -> IntentType]
          /\ call \in [Dispatchers -> CallType]

Busy(d) == call[d].pc \in {"render", "finish"}

\* Two calls in progress on one intent are different attempts: a lease that
\* lapses under its dispatcher is never shared with its successor.
ClaimsDiffer ==
  \A d, e \in Dispatchers :
     d # e /\ Busy(d) /\ Busy(e) /\ call[d].intent = call[e].intent
     => call[d].attempt # call[e].attempt

\* A call that reports that it finished an attempt tells the truth, and goes
\* on doing so: a rendered outcome is the row's outcome for good, whatever the
\* dispatchers whose leases lapsed do later.
ReportIsTrue ==
  \A d \in Dispatchers :
     call[d].pc = "return" /\ call[d].won =>
       LET row == intent[call[d].intent]
       IN  IF call[d].outcome = "error"
           THEN row.attempts > call[d].attempt \/ row.status \in {"pending", "not_sent"}
           ELSE row.status = call[d].outcome /\ row.attempts = call[d].attempt

\* An intent is given up only after its last attempt, unless its sink itself
\* decided not to send.
GivenUpAtTheEnd ==
  \A i \in Intents :
     intent[i].status = "not_sent" /\ intent[i].reason # "sink"
     => intent[i].attempts = MaxAttempts

\* Only the call that holds the current lease, or the sweep once the attempts
\* are used up, ends an attempt: a dispatcher that lost its lease touches nothing.
EndedByOwner ==
  [][\A i \in Intents :
        intent[i].status = "leased" /\ intent'[i].status # "leased" =>
          \/ \E d \in Dispatchers : /\ call[d].pc = "finish" /\ call'[d].pc = "return"
                                    /\ call[d].intent = i
                                    /\ call[d].attempt = intent[i].attempts
          \/ intent[i].attempts = MaxAttempts /\ intent[i].ripe]_vars

\* A settled intent never changes again: a late renderer, a replayed
\* materialization or a second sweep leaves it alone.
OutcomeIsFinal ==
  [][\A i \in Intents : intent[i].status \in Final => intent'[i] = intent[i]]_vars

\* Every intent is settled in the end, however many calls die under way.
EveryIntentSettles ==
  \A i \in Intents : intent[i].status = "pending" ~> intent[i].status \in Final

\* An intent that goes back to pending for a retry is still taken.
PhaseOf(row) == IF row.status = "absent" THEN "absent"
                ELSE IF row.status \in Final THEN "settled"
                ELSE IF row.attempts = 0 THEN "waiting"
                ELSE "taken"

\* The delivery implements the promise of RetryQueue.
Promise == INSTANCE RetryQueue WITH
  Items <- Intents,
  phase <- [i \in Intents |-> PhaseOf(intent[i])],
  tries <- [i \in Intents |-> intent[i].attempts]

KeepsPromise == Promise!RetrySpec

-----------------------------------------------------------------------------
\* The inductive invariant (AlertDeliveryProofs).

\* A call in progress carries a claim that was granted and has a row.
CallsWereClaimed ==
  \A d \in Dispatchers : call[d].pc # "idle" =>
     /\ call[d].intent \in Intents
     /\ call[d].attempt # 0
     /\ call[d].attempt <= intent[call[d].intent].attempts

\* attempts by status: none before the first claim, one left while pending.
AttemptsFit ==
  \A i \in Intents :
     /\ intent[i].status = "absent" => intent[i].attempts = 0
     /\ intent[i].status = "pending" => intent[i].attempts < MaxAttempts
     /\ intent[i].status \in {"leased"} \cup Final => intent[i].attempts # 0

\* A call that is about to finish has rendered something or failed.
RendersHaveOutcome ==
  \A d \in Dispatchers : call[d].pc \in {"finish", "return"} => call[d].outcome # "none"

IInv == /\ TypeOK
        /\ RendersHaveOutcome
        /\ CallsWereClaimed
        /\ AttemptsFit
        /\ ClaimsDiffer
        /\ ReportIsTrue
        /\ GivenUpAtTheEnd
=============================================================================
