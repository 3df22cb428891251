-------------------------- MODULE TokenBudgetProps --------------------------
(***************************************************************************)
(* What the token budget must guarantee.                                   *)
(***************************************************************************)
EXTENDS TokenBudget

\* Counters stay within their ranges: no reservation is ever negative, and
\* neither the budget nor the committed total passes the limit.
TypeOK == /\ phase \in {"ready", "running", "over"}
          /\ tokensUsed \in 0..Limit /\ used \in 0..Limit
          /\ spent \in Nat /\ reserved \in Nat
          /\ exhausted \in BOOLEAN
          /\ lane \in [Lanes -> LaneType]
          /\ retries \in 0..MaxRetries /\ deaths \in 0..MaxDeaths

\* However the lanes interleave, what is spent and what calls in flight may
\* still cost fit the limit together: fan-out never overruns the cap.
NeverOvercommitted == phase = "running" => used + Held(Calling) <= Limit

\* The counter is the sum of the reservations held: none leaks through a call
\* that fails, and none is given back twice.
ReservedIsHeld == phase = "running" => reserved = Held(Lanes)

\* Attempts that commit their spend count against the cap; each attempt that
\* vanishes can cost the cap once more, and no more than that.
SpendIsBounded == spent <= (deaths + 1) * Limit

\* A lane that asks is answered, with a call or with a refusal, unless its
\* attempt ends first.
EveryCallIsAnswered ==
  \A l \in Lanes : lane[l].pc \in {"asking", "waiting"}
                   ~> lane[l].pc \notin {"asking", "waiting"} \/ phase # "running"

-----------------------------------------------------------------------------
(***************************************************************************)
(* The parts of the inductive invariant IInv.                              *)
(***************************************************************************)

\* Only a lane that is calling, or has been charged, holds tokens.
OnlyCallersHold ==
  \A l \in Lanes : lane[l].pc \notin {"calling", "charged"} => lane[l].amount = 0

\* What was spent and is not in the budget of the attempt, or in the total that
\* the next one starts from, was spent by attempts that vanished.
LostSpendIsOfDeaths ==
  /\ phase = "running" => spent <= used + deaths * Limit
  /\ phase = "ready"   => spent <= tokensUsed + deaths * Limit

IInv == /\ TypeOK /\ OnlyCallersHold /\ NeverOvercommitted /\ ReservedIsHeld
        /\ LostSpendIsOfDeaths /\ SpendIsBounded

-----------------------------------------------------------------------------
\* "H-1: seed from tokens already spent on prior attempts so run_token_budget is
\* a CUMULATIVE per-run cap, not a per-attempt one" (runner.py, execute_run).
SpentWithinCap == spent <= Limit
=============================================================================
