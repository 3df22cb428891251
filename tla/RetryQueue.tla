----------------------------- MODULE RetryQueue -----------------------------
(***************************************************************************)
(* What the durable queues of the server promise, with workers, leases,    *)
(* row locks and failures left out: an item is submitted once, is taken at *)
(* most MaxAttempts times, and once it is settled it is never taken again. *)
(* RunQueue and AlertDelivery implement this specification.                *)
(***************************************************************************)
EXTENDS Naturals

CONSTANTS Items,        \* identities of the runs, or of the delivery intents
          MaxAttempts   \* caos_run_max_attempts, or max_attempts of an intent

VARIABLES phase,   \* [Items -> Phases]
          tries    \* [Items -> how many times the item has been taken]

retryVars == <<phase, tries>>

Phases == {"absent", "waiting", "taken", "settled"}

RetryInit == /\ phase = [i \in Items |-> "absent"]
             /\ tries = [i \in Items |-> 0]

\* A request creates the item.
Submit(i) == /\ phase[i] = "absent"
             /\ phase' = [phase EXCEPT ![i] = "waiting"]
             /\ UNCHANGED tries

\* A worker takes a waiting item, or takes over one whose worker went silent
\* or gave it back.
Take(i) == /\ phase[i] \in {"waiting", "taken"}
           /\ tries[i] < MaxAttempts
           /\ phase' = [phase EXCEPT ![i] = "taken"]
           /\ tries' = [tries EXCEPT ![i] = @ + 1]

\* Items that were taken are settled, several at once when a sweep gives up on
\* several.  A settled item may be named again: it stays settled.
Settle(S) == /\ \A i \in S : phase[i] \in {"taken", "settled"}
             /\ phase' = [i \in Items |-> IF i \in S THEN "settled" ELSE phase[i]]
             /\ UNCHANGED tries

\* A worker settles what it finds spent and takes another item in one step.
SettleAndTake(S, i) ==
  /\ i \notin S
  /\ \A j \in S : phase[j] = "taken"
  /\ phase[i] \in {"waiting", "taken"}
  /\ tries[i] < MaxAttempts
  /\ phase' = [j \in Items |-> IF j \in S THEN "settled"
                               ELSE IF j = i THEN "taken" ELSE phase[j]]
  /\ tries' = [tries EXCEPT ![i] = @ + 1]

RetryNext == \/ \E i \in Items : Submit(i) \/ Take(i)
             \/ \E S \in SUBSET Items : \/ Settle(S)
                                        \/ \E i \in Items : SettleAndTake(S, i)

RetrySpec == RetryInit /\ [][RetryNext]_retryVars
=============================================================================
