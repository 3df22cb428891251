---------------------------- MODULE TokenBudget ----------------------------
(***************************************************************************)
(* The token budget of a run (caos/server/engine/budget.py): the lanes of  *)
(* one attempt that ask for provider calls concurrently, and the total     *)
(* that runner.py and run_executor.py carry from one attempt of the run to *)
(* the next in runs.tokens_used.                                           *)
(*                                                                         *)
(* The lanes are coroutines of one event loop: one action is what a lane   *)
(* does between two awaits.  A reservation bounds what its call costs; the *)
(* budget is capped (limit > 0).                                           *)
(***************************************************************************)
EXTENDS Integers, FiniteSets, FiniteSetsExt

CONSTANTS
  Lanes,     \* coroutines of an attempt that call a provider at the same time
  Limit,     \* run_token_budget
  Requests,  \* what a call may ask for, [input, output] in tokens
  MaxCalls,  \* bound on the calls of a lane in one attempt
  MaxRetries,\* bound on the attempts of a run that persist what they spent
  MaxDeaths  \* bound on the attempts of a run that vanish

ASSUME BudgetAssumption ==
  /\ IsFiniteSet(Lanes)
  /\ Limit \in Nat \ {0}
  /\ Requests \subseteq [input : Nat, output : Nat \ {0}]
  /\ MaxCalls \in Nat /\ MaxRetries \in Nat /\ MaxDeaths \in Nat

VARIABLES
  phase,      \* of the run: "ready" for an attempt, "running" one, or "over"
  tokensUsed, \* runs.tokens_used, committed
  spent,      \* what the provider has billed the run for, all attempts together
  used, reserved, exhausted,  \* the RunBudget of the running attempt
  lane,       \* [Lanes -> LaneType]
  retries, deaths

vars == <<phase, tokensUsed, spent, used, reserved, exhausted, lane, retries, deaths>>
budget == <<used, reserved, exhausted>>
history == <<phase, tokensUsed, retries, deaths>>

LaneType == [pc     : {"idle", "asking", "waiting", "calling", "charged"},
             input  : Nat,  output : Nat,   \* what it asks for
             amount : Nat,                  \* what it has reserved
             calls  : 0..MaxCalls]

IdleLane(calls) == [pc |-> "idle", input |-> 0, output |-> 0, amount |-> 0, calls |-> calls]

NewLanes == [l \in Lanes |-> IdleLane(0)]

Init == /\ phase = "ready"
        /\ tokensUsed = 0 /\ spent = 0
        /\ used = 0 /\ reserved = 0 /\ exhausted = FALSE
        /\ lane = NewLanes
        /\ retries = 0 /\ deaths = 0

-----------------------------------------------------------------------------
\* Mutant: every lane passes on what it saw before the others reserved.
AvailableStale == Max({0, Limit - used})

\* RunBudget.reserve: the headroom that is neither spent nor reserved.
Available == Max({0, Limit - used - reserved})

Requested(l) == lane[l].input + lane[l].output

\* The tokens that the lanes in S have reserved, and their number.
Tokens(lanes, S) == UNION {{l} \X (1..lanes[l].amount) : l \in S}
Held(S)          == Cardinality(Tokens(lane, S))

Calling == {l \in Lanes : lane[l].pc = "calling"}

Idle == \A l \in Lanes : lane[l].pc = "idle"

-----------------------------------------------------------------------------
\* The lanes.

\* llm_allowed() is false: the module degrades without a call.
Skip(l) ==
  /\ phase = "running"
  /\ lane[l].pc = "idle" /\ lane[l].calls < MaxCalls
  /\ used >= Limit
  /\ exhausted' = TRUE
  /\ lane' = [lane EXCEPT ![l].calls = @ + 1]
  /\ UNCHANGED <<history, spent, used, reserved>>

\* reserve_call.
Ask(l, request) ==
  /\ phase = "running"
  /\ lane[l].pc = "idle" /\ lane[l].calls < MaxCalls
  /\ lane' = [lane EXCEPT ![l] = [pc |-> "asking", input |-> request.input,
                                  output |-> request.output, amount |-> 0,
                                  calls |-> lane[l].calls + 1]]
  /\ UNCHANGED <<history, spent, budget>>

Hold(l, amount) ==
  /\ lane' = [lane EXCEPT ![l].pc = "calling", ![l].amount = amount]
  /\ reserved' = reserved + amount

Grant(l) ==
  /\ lane[l].pc = "asking"
  /\ Available >= Requested(l)
  /\ Hold(l, Requested(l))
  /\ UNCHANGED <<history, spent, used, exhausted>>

\* Others hold reservations: sleep on the condition until one is released.
Wait(l) ==
  /\ lane[l].pc = "asking"
  /\ Available < Requested(l)
  /\ reserved > 0
  /\ lane' = [lane EXCEPT ![l].pc = "waiting"]
  /\ UNCHANGED <<history, spent, budget>>

\* Mutant: the output is cut without looking whether any is left.
ShrinkBlindly(l) ==
  /\ lane[l].pc = "asking"
  /\ Available < Requested(l)
  /\ reserved = 0
  /\ Hold(l, Available - lane[l].input)
  /\ UNCHANGED <<history, spent, used, exhausted>>

\* Nobody else holds anything: the output is cut down to what is left.
Shrink(l) ==
  /\ lane[l].pc = "asking"
  /\ Available < Requested(l)
  /\ reserved = 0
  /\ Available > lane[l].input
  /\ Hold(l, Available)
  /\ UNCHANGED <<history, spent, used, exhausted>>

\* Not even the input fits: TokenBudgetExceeded.
Refuse(l) ==
  /\ lane[l].pc = "asking"
  /\ Available < Requested(l)
  /\ reserved = 0
  /\ Available <= lane[l].input
  /\ exhausted' = TRUE
  /\ lane' = [lane EXCEPT ![l] = IdleLane(@.calls)]
  /\ UNCHANGED <<history, spent, used, reserved>>

\* The provider answers and trace_llm records the usage, while the
\* reservation is still held.
Charge(l, cost) ==
  /\ lane[l].pc = "calling"
  /\ cost \in 0..lane[l].amount
  /\ used' = used + cost
  /\ spent' = spent + cost
  /\ lane' = [lane EXCEPT ![l].pc = "charged"]
  /\ UNCHANGED <<history, reserved, exhausted>>

\* Mutants of release: it wakes nobody, or gives back only what was spent.
ReleaseQuietly(l) ==
  /\ lane[l].pc \in {"calling", "charged"}
  /\ reserved' = Max({0, reserved - lane[l].amount})
  /\ lane' = [lane EXCEPT ![l] = IdleLane(@.calls)]
  /\ UNCHANGED <<history, spent, used, exhausted>>

ReleaseCharged(l) ==
  /\ lane[l].pc \in {"calling", "charged"}
  /\ reserved' = IF lane[l].pc = "charged" THEN Max({0, reserved - lane[l].amount})
                                           ELSE reserved
  /\ lane' = [k \in Lanes |-> IF k = l THEN IdleLane(lane[l].calls)
                              ELSE IF lane[k].pc = "waiting"
                                   THEN [lane[k] EXCEPT !.pc = "asking"]
                              ELSE lane[k]]
  /\ UNCHANGED <<history, spent, used, exhausted>>

\* release_call in the finally clause, after the charge or after a call that
\* failed: all waiting lanes look again.
Release(l) ==
  /\ lane[l].pc \in {"calling", "charged"}
  /\ reserved' = Max({0, reserved - lane[l].amount})
  /\ lane' = [k \in Lanes |-> IF k = l THEN IdleLane(lane[l].calls)
                              ELSE IF lane[k].pc = "waiting"
                                   THEN [lane[k] EXCEPT !.pc = "asking"]
                              ELSE lane[k]]
  /\ UNCHANGED <<history, spent, used, exhausted>>

-----------------------------------------------------------------------------
\* The attempts of the run.

\* Mutant: the budget of an attempt starts at zero.
StartAtZero ==
  /\ phase = "ready"
  /\ phase' = "running"
  /\ used' = 0 /\ reserved' = 0 /\ exhausted' = FALSE
  /\ lane' = NewLanes
  /\ UNCHANGED <<tokensUsed, spent, retries, deaths>>

\* execute_run: the budget starts from what the row says was spent.
Start ==
  /\ phase = "ready"
  /\ phase' = "running"
  /\ used' = tokensUsed /\ reserved' = 0 /\ exhausted' = FALSE
  /\ lane' = NewLanes
  /\ UNCHANGED <<tokensUsed, spent, retries, deaths>>

\* A poisoned transaction is rolled back and the spend committed before the
\* second try.
Retry ==
  /\ phase = "running" /\ Idle
  /\ retries < MaxRetries
  /\ phase' = "ready"
  /\ tokensUsed' = used
  /\ retries' = retries + 1
  /\ UNCHANGED <<spent, budget, lane, deaths>>

\* The run completes, or _mark_run_failed ends it: either commits the spend.
Finish ==
  /\ phase = "running" /\ Idle
  /\ phase' = "over"
  /\ tokensUsed' = Max({tokensUsed, used})
  /\ UNCHANGED <<spent, budget, lane, retries, deaths>>

\* The worker dies, or the attempt finds that it lost its claim and rolls back:
\* the row keeps what it said, and the run is claimed again.  The provider bills
\* the calls in flight or does not.
Die ==
  /\ phase = "running"
  /\ deaths < MaxDeaths
  /\ phase' = "ready"
  /\ deaths' = deaths + 1
  /\ \E cost \in 0..Held(Calling) : spent' = spent + cost
  /\ UNCHANGED <<tokensUsed, budget, lane, retries>>

\* The next run has a budget of its own.
NextRun ==
  /\ phase = "over"
  /\ phase' = "ready"
  /\ tokensUsed' = 0 /\ spent' = 0 /\ retries' = 0 /\ deaths' = 0
  /\ UNCHANGED <<budget, lane>>

LaneStep(l) == \/ Grant(l) \/ Wait(l) \/ Shrink(l) \/ Refuse(l)
               \/ (\E cost \in 0..Limit : Charge(l, cost))
               \/ Release(l)

Next == \/ \E l \in Lanes : \/ Skip(l)
                            \/ \E request \in Requests : Ask(l, request)
                            \/ phase = "running" /\ LaneStep(l)
        \/ Start \/ Retry \/ Finish \/ Die \/ NextRun

Spec == Init /\ [][Next]_vars

\* The event loop runs every coroutine that can run, and provider calls return.
FairSpec == Spec /\ \A l \in Lanes : WF_vars(phase = "running" /\ LaneStep(l))
=============================================================================
