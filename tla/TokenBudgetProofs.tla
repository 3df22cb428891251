------------------------- MODULE TokenBudgetProofs -------------------------
(***************************************************************************)
(* Proofs about the token budget: its bounds for any number of lanes, any  *)
(* limit, and any requests, retries and deaths.                            *)
(***************************************************************************)
EXTENDS TokenBudgetProps, FiniteSetTheorems, TLAPS

-----------------------------------------------------------------------------
(***************************************************************************)
(* Tokens held.                                                            *)
(***************************************************************************)

\* The tokens of finitely many lanes are finitely many.
LEMMA TokensFinite ==
  ASSUME NEW lanes \in [Lanes -> LaneType], NEW S \in SUBSET Lanes
  PROVE  IsFiniteSet(Tokens(lanes, S)) /\ Cardinality(Tokens(lanes, S)) \in Nat
<1> DEFINE own(l) == {l} \X (1..lanes[l].amount)
           T == {own(l) : l \in S}
           f == [l \in S |-> own(l)]
<1>1. IsFiniteSet(S)
  BY BudgetAssumption, FS_Subset DEF BudgetAssumption
<1>2. f \in Surjection(S, T)
  BY DEF Surjection
<1>3. IsFiniteSet(T)
  BY <1>1, <1>2, FS_Surjection
<1>4. ASSUME NEW U \in T PROVE IsFiniteSet(U)
  <2>1. PICK l \in S : U = own(l)
    OBVIOUS
  <2>2. lanes[l].amount \in Int
    BY DEF LaneType
  <2>3. IsFiniteSet(1..lanes[l].amount)
    BY <2>2, FS_Interval
  <2>4. IsFiniteSet({l})
    BY FS_Singleton
  <2>5. QED
    BY <2>1, <2>3, <2>4, FS_Product
<1>5. IsFiniteSet(UNION T)
  BY <1>3, <1>4, FS_UNION
<1>6. QED
  BY <1>5, FS_CardinalityType DEF Tokens

\* A lane adds what it has reserved.
LEMMA TokensSplit ==
  ASSUME NEW lanes \in [Lanes -> LaneType], NEW S \in SUBSET Lanes, NEW l \in S
  PROVE  Cardinality(Tokens(lanes, S)) =
           Cardinality(Tokens(lanes, S \ {l})) + lanes[l].amount
<1> DEFINE n == lanes[l].amount
           own == {l} \X (1..n)
           rest == Tokens(lanes, S \ {l})
<1>1. n \in Nat
  BY DEF LaneType
<1> HIDE DEF n
<1>2. IsFiniteSet({l}) /\ Cardinality({l}) = 1
  BY FS_Singleton
<1>3. IsFiniteSet(1..n) /\ Cardinality(1..n) = n
  <2>1. 1 \in Int /\ n \in Int
    BY <1>1
  <2>2. IsFiniteSet(1..n) /\ Cardinality(1..n) = IF 1 > n THEN 0 ELSE n - 1 + 1
    BY <2>1, FS_Interval
  <2>3. QED
    BY <1>1, <2>2
<1>4. IsFiniteSet(own) /\ Cardinality(own) = n
  <2>1. IsFiniteSet(own) /\ Cardinality(own) = Cardinality({l}) * Cardinality(1..n)
    BY <1>2, <1>3, FS_Product
  <2>2. QED
    BY <1>1, <1>2, <1>3, <2>1
<1>5. IsFiniteSet(rest) /\ Cardinality(rest) \in Nat
  BY TokensFinite
<1>6. Tokens(lanes, S) = rest \cup own
  BY DEF Tokens, n
<1>7. rest \cap own = {}
  BY DEF Tokens
<1>8. Cardinality(rest \cap own) = 0
  BY <1>7, FS_EmptySet
<1>9. Cardinality(rest \cup own) = Cardinality(rest) + n - 0
  <2> HIDE DEF own, rest
  <2>1. Cardinality(rest \cup own) =
          Cardinality(rest) + Cardinality(own) - Cardinality(rest \cap own)
    BY <1>4, <1>5, FS_Union
  <2>2. QED
    BY <1>4, <1>8, <2>1
<1>10. QED
  BY <1>1, <1>5, <1>6, <1>9 DEF n

\* Fewer lanes hold no more.
LEMMA TokensMonotonic ==
  ASSUME NEW lanes \in [Lanes -> LaneType], NEW S \in SUBSET Lanes, NEW R \in SUBSET S
  PROVE  Cardinality(Tokens(lanes, R)) <= Cardinality(Tokens(lanes, S))
<1>1. Tokens(lanes, R) \in SUBSET Tokens(lanes, S)
  BY DEF Tokens
<1>2. QED
  BY <1>1, TokensFinite, FS_Subset

\* Only the reservations count.
LEMMA TokensSame ==
  ASSUME NEW S, NEW lanes, NEW others, \A l \in S : lanes[l].amount = others[l].amount
  PROVE  Tokens(lanes, S) = Tokens(others, S)
BY DEF Tokens

\* Lanes that hold nothing hold no token.
LEMMA TokensNone ==
  ASSUME NEW S, NEW lanes, \A l \in S : lanes[l].amount = 0
  PROVE  Tokens(lanes, S) = {} /\ Cardinality(Tokens(lanes, S)) = 0
BY FS_EmptySet DEF Tokens

-----------------------------------------------------------------------------
\* The greater of two numbers.
LEMMA MaxOfTwo ==
  ASSUME NEW a \in Int, NEW b \in Int
  PROVE  Max({a, b}) = IF a >= b THEN a ELSE b
<1>1. \E x \in {a, b} : \A y \in {a, b} : x >= y
  OBVIOUS
<1>2. QED
  BY <1>1 DEF Max

-----------------------------------------------------------------------------
(***************************************************************************)
(* The steps of a lane.                                                    *)
(***************************************************************************)

\* What lane l holds, and the others, in numbers.
LEMMA HeldByLane ==
  ASSUME TypeOK, NEW l \in Lanes
  PROVE  /\ lane \in [Lanes -> LaneType]
         /\ lane[l].amount \in Nat
         /\ Held(Lanes) \in Nat /\ Held(Calling) \in Nat /\ Held(Calling \ {l}) \in Nat
         /\ Held(Calling) <= Held(Lanes)
         /\ Held(Lanes) = Cardinality(Tokens(lane, Lanes \ {l})) + lane[l].amount
         /\ l \in Calling => Held(Calling) = Held(Calling \ {l}) + lane[l].amount
<1>1. lane \in [Lanes -> LaneType] /\ Calling \in SUBSET Lanes /\ Calling \ {l} \in SUBSET Lanes
  BY DEF TypeOK, Calling
<1>2. lane[l].amount \in Nat
  BY <1>1 DEF LaneType
<1>3. Held(Lanes) \in Nat /\ Held(Calling) \in Nat /\ Held(Calling \ {l}) \in Nat
  BY <1>1, TokensFinite DEF Held
<1>4. Held(Calling) <= Held(Lanes)
  BY <1>1, TokensMonotonic DEF Held
<1>5. Held(Lanes) = Cardinality(Tokens(lane, Lanes \ {l})) + lane[l].amount
  BY <1>1, TokensSplit DEF Held
<1>6. l \in Calling => Held(Calling) = Held(Calling \ {l}) + lane[l].amount
  BY <1>1, TokensSplit DEF Held
<1>7. QED
  BY <1>1, <1>2, <1>3, <1>4, <1>5, <1>6

\* The headroom is never negative.
LEMMA AvailableIs ==
  ASSUME TypeOK
  PROVE  Available = IF Limit - used - reserved > 0 THEN Limit - used - reserved ELSE 0
<1>1. Limit - used - reserved \in Int
  BY BudgetAssumption DEF BudgetAssumption, TypeOK
<1>2. QED
  BY <1>1, MaxOfTwo DEF Available

\* A lane that takes a step without holding anything, before or after, changes
\* nothing of what is held.
LEMMA Empty ==
  ASSUME IInv, NEW l \in Lanes, NEW new \in LaneType,
         lane[l].pc \notin {"calling", "charged"},
         new.pc \notin {"calling", "charged"}, new.amount = 0,
         lane' = [lane EXCEPT ![l] = new],
         exhausted' \in BOOLEAN,
         UNCHANGED <<history, spent, used, reserved>>
  PROVE  IInv'
<1>1. lane \in [Lanes -> LaneType] /\ lane' \in [Lanes -> LaneType]
  BY DEF IInv, TypeOK
<1>2. TypeOK'
  BY <1>1 DEF IInv, TypeOK, history
<1>3. \A k \in Lanes : lane[k].amount = lane'[k].amount
  BY <1>1 DEF IInv, OnlyCallersHold
<1>4. Calling' = Calling
  BY <1>1 DEF Calling
<1>5. Tokens(lane, Lanes) = Tokens(lane', Lanes)
  BY <1>3, TokensSame
<1>6. Tokens(lane, Calling) = Tokens(lane', Calling)
  BY <1>3, TokensSame DEF Calling
<1>7. Held(Lanes)' = Held(Lanes) /\ Held(Calling)' = Held(Calling)
  BY <1>4, <1>5, <1>6 DEF Held
<1>8. OnlyCallersHold'
  BY <1>1 DEF IInv, OnlyCallersHold
<1>9. QED
  BY <1>2, <1>7, <1>8
  DEF IInv, NeverOvercommitted, ReservedIsHeld, LostSpendIsOfDeaths, SpendIsBounded, history

\* A lane that is granted a call, in full or cut down to the headroom, holds
\* exactly what the others leave.
LEMMA Granted ==
  ASSUME IInv, phase = "running", NEW l \in Lanes, lane[l].pc = "asking",
         NEW amount \in Nat, amount > 0 => used + reserved + amount <= Limit,
         Hold(l, amount),
         UNCHANGED <<history, spent, used, exhausted>>
  PROVE  IInv'
<1>1. lane \in [Lanes -> LaneType] /\ lane' \in [Lanes -> LaneType]
  BY DEF IInv, TypeOK, Hold, LaneType
<1>2. TypeOK /\ reserved = Held(Lanes) /\ lane[l].amount = 0
  BY DEF IInv, ReservedIsHeld, OnlyCallersHold
<1>3. TypeOK'
  BY <1>1, <1>2 DEF TypeOK, history, Hold
<1>4. lane'[l].amount = amount /\ lane'[l].pc = "calling"
      /\ \A k \in Lanes \ {l} : lane'[k] = lane[k]
  BY <1>1 DEF Hold
<1>5. Calling' = Calling \cup {l} /\ l \notin Calling
  BY <1>4 DEF Calling
<1>6. Held(Lanes)' = Held(Lanes) + amount
  <2>1. Tokens(lane', Lanes \ {l}) = Tokens(lane, Lanes \ {l})
    BY <1>4, TokensSame
  <2>2. Cardinality(Tokens(lane', Lanes)) =
          Cardinality(Tokens(lane', Lanes \ {l})) + lane'[l].amount
    BY <1>1, TokensSplit
  <2>3. Held(Lanes) = Cardinality(Tokens(lane, Lanes \ {l})) + 0
    BY <1>2, HeldByLane
  <2>4. Cardinality(Tokens(lane, Lanes \ {l})) \in Nat
    BY <1>1, TokensFinite
  <2>5. QED
    BY <1>4, <2>1, <2>2, <2>3, <2>4 DEF Held
<1>7. Held(Calling)' = Held(Calling) + amount
  <2>1. Calling' \in SUBSET Lanes /\ l \in Calling' /\ Calling' \ {l} = Calling
    BY <1>5 DEF Calling
  <2>2. Cardinality(Tokens(lane', Calling')) =
          Cardinality(Tokens(lane', Calling)) + amount
    BY <1>1, <1>4, <2>1, TokensSplit
  <2>3. Tokens(lane', Calling) = Tokens(lane, Calling)
    BY <1>4, <1>5, TokensSame DEF Calling
  <2>4. QED
    BY <2>2, <2>3 DEF Held
<1>8. Held(Lanes) \in Nat /\ Held(Calling) \in Nat /\ Held(Calling) <= Held(Lanes)
  BY <1>2, HeldByLane
<1>9. reserved' = reserved + amount
  BY DEF Hold
<1>10. NeverOvercommitted'
  BY <1>2, <1>7, <1>8, BudgetAssumption
  DEF IInv, NeverOvercommitted, history, TypeOK, BudgetAssumption
<1>11. ReservedIsHeld'
  BY <1>2, <1>6, <1>9 DEF ReservedIsHeld
<1>12. OnlyCallersHold'
  BY <1>4 DEF IInv, OnlyCallersHold
<1>13. QED
  BY <1>3, <1>10, <1>11, <1>12 DEF IInv, LostSpendIsOfDeaths, SpendIsBounded, history

\* A bill moves what a call could cost into what is spent.
LEMMA Charged ==
  ASSUME IInv, phase = "running", NEW l \in Lanes, NEW cost, Charge(l, cost)
  PROVE  IInv'
<1>1. lane \in [Lanes -> LaneType] /\ lane' \in [Lanes -> LaneType]
  BY DEF IInv, TypeOK, Charge, LaneType
<1>2. TypeOK /\ l \in Calling /\ cost \in Nat /\ cost <= lane[l].amount
  <2>1. lane[l].amount \in Nat
    BY <1>1 DEF LaneType
  <2>2. QED
    BY <2>1 DEF IInv, Charge, Calling
<1>3. Held(Calling) = Held(Calling \ {l}) + lane[l].amount /\ Held(Calling \ {l}) \in Nat
      /\ lane[l].amount \in Nat
  BY <1>2, HeldByLane
<1>4. used + Held(Calling) <= Limit
  BY DEF IInv, NeverOvercommitted
<1>5. used + cost + Held(Calling \ {l}) <= Limit /\ used + cost \in 0..Limit
  BY <1>2, <1>3, <1>4, BudgetAssumption DEF TypeOK, BudgetAssumption
<1>6. TypeOK'
  BY <1>1, <1>2, <1>5 DEF TypeOK, Charge, history
<1>7. \A k \in Lanes : lane[k].amount = lane'[k].amount
  BY <1>1 DEF Charge
<1>8. Calling' = Calling \ {l}
  BY <1>1 DEF Charge, Calling
<1>9. Held(Lanes)' = Held(Lanes)
  BY <1>7, TokensSame DEF Held
<1>10. Held(Calling)' = Held(Calling \ {l})
  <2>1. Tokens(lane, Calling \ {l}) = Tokens(lane', Calling \ {l})
    BY <1>7, TokensSame DEF Calling
  <2>2. QED
    BY <1>8, <2>1 DEF Held
<1>11. NeverOvercommitted' /\ ReservedIsHeld'
  BY <1>5, <1>9, <1>10 DEF NeverOvercommitted, ReservedIsHeld, Charge, history, IInv
<1>12. OnlyCallersHold'
  BY <1>1 DEF IInv, OnlyCallersHold, Charge
<1>13. LostSpendIsOfDeaths' /\ SpendIsBounded'
  <2> DEFINE lost == deaths * Limit
  <2>1. lost \in Nat /\ (deaths + 1) * Limit = lost + Limit
    BY <1>2, BudgetAssumption DEF TypeOK, BudgetAssumption
  <2>2. spent <= used + lost /\ used \in Nat /\ spent \in Nat
    BY <1>2, BudgetAssumption DEF IInv, LostSpendIsOfDeaths, TypeOK, BudgetAssumption
  <2>3. used' = used + cost /\ spent' = spent + cost /\ deaths' = deaths /\ phase' = phase
    BY DEF Charge, history
  <2> HIDE DEF lost
  <2>4. spent' <= used' + lost /\ spent' <= lost + Limit
    BY <1>2, <1>5, <2>1, <2>2, <2>3, BudgetAssumption DEF BudgetAssumption
  <2>5. deaths' * Limit = lost
    BY <2>3 DEF lost
  <2>6. QED
    BY <2>1, <2>3, <2>4, <2>5 DEF LostSpendIsOfDeaths, SpendIsBounded
<1>14. QED
  BY <1>6, <1>11, <1>12, <1>13 DEF IInv

\* A call that is over gives back what it held; the lanes it wakes hold nothing.
LEMMA Released ==
  ASSUME IInv, phase = "running", NEW l \in Lanes, Release(l)
  PROVE  IInv'
<1>1. lane \in [Lanes -> LaneType] /\ TypeOK
  BY DEF IInv, TypeOK
<1>2. \A k \in Lanes : lane'[k] = IF k = l THEN IdleLane(lane[l].calls)
                                 ELSE IF lane[k].pc = "waiting"
                                      THEN [lane[k] EXCEPT !.pc = "asking"]
                                 ELSE lane[k]
  BY DEF Release
<1>3. lane' \in [Lanes -> LaneType]
  BY <1>1 DEF Release, IdleLane, LaneType
<1>4. /\ lane'[l].amount = 0 /\ lane'[l].pc = "idle"
      /\ \A k \in Lanes \ {l} :
           /\ lane'[k].amount = lane[k].amount
           /\ lane[k].pc = "waiting" => lane'[k].pc = "asking"
           /\ lane[k].pc # "waiting" => lane'[k] = lane[k]
  <2>1. lane'[l] = IdleLane(lane[l].calls)
    BY <1>2
  <2>2. ASSUME NEW k \in Lanes \ {l}
        PROVE  /\ lane'[k].amount = lane[k].amount
               /\ lane[k].pc = "waiting" => lane'[k].pc = "asking"
               /\ lane[k].pc # "waiting" => lane'[k] = lane[k]
    BY <1>1, <1>2 DEF LaneType
  <2>3. QED
    BY <2>1, <2>2 DEF IdleLane
<1>5. Calling' = Calling \ {l}
  BY <1>4 DEF Calling
<1>6. Held(Lanes) = Cardinality(Tokens(lane, Lanes \ {l})) + lane[l].amount
      /\ lane[l].amount \in Nat /\ Held(Calling) \in Nat /\ Held(Calling \ {l}) \in Nat
      /\ (l \in Calling => Held(Calling) = Held(Calling \ {l}) + lane[l].amount)
  BY <1>1, HeldByLane
<1>7. Cardinality(Tokens(lane, Lanes \ {l})) \in Nat
  BY <1>1, TokensFinite
<1>8. Held(Lanes)' = Cardinality(Tokens(lane, Lanes \ {l}))
  <2>1. Tokens(lane', Lanes \ {l}) = Tokens(lane, Lanes \ {l})
    BY <1>4, TokensSame
  <2>2. Cardinality(Tokens(lane', Lanes)) = Cardinality(Tokens(lane', Lanes \ {l})) + 0
    BY <1>3, <1>4, TokensSplit
  <2>3. QED
    BY <1>7, <2>1, <2>2 DEF Held
<1>9. reserved = Held(Lanes)
  BY DEF IInv, ReservedIsHeld
<1>10. reserved' = reserved - lane[l].amount /\ reserved' \in Nat
  <2>1. reserved - lane[l].amount \in Nat
    BY <1>6, <1>7, <1>9
  <2>2. reserved' = Max({0, reserved - lane[l].amount})
    BY DEF Release
  <2>3. QED
    BY <2>1, <2>2, MaxOfTwo
<1>11. TypeOK'
  BY <1>1, <1>3, <1>10 DEF TypeOK, Release, history
<1>12. Held(Calling)' <= Held(Calling) /\ Held(Calling)' \in Nat
  <2>1. Tokens(lane', Calling \ {l}) = Tokens(lane, Calling \ {l})
    BY <1>4, TokensSame DEF Calling
  <2>2. Held(Calling)' = Held(Calling \ {l})
    BY <1>5, <2>1 DEF Held
  <2>3. CASE l \in Calling
    BY <1>6, <2>2, <2>3
  <2>4. CASE l \notin Calling
    <3>1. Calling \ {l} = Calling
      BY <2>4
    <3>2. QED
      BY <1>6, <2>2, <3>1
  <2>5. QED
    BY <2>3, <2>4
<1>13. NeverOvercommitted'
  BY <1>1, <1>6, <1>12, BudgetAssumption
  DEF IInv, NeverOvercommitted, Release, history, TypeOK, BudgetAssumption
<1>14. ReservedIsHeld'
  BY <1>6, <1>7, <1>8, <1>9, <1>10 DEF ReservedIsHeld
<1>15. OnlyCallersHold'
  BY <1>4 DEF IInv, OnlyCallersHold
<1>16. QED
  BY <1>11, <1>13, <1>14, <1>15 DEF IInv, LostSpendIsOfDeaths, SpendIsBounded, Release, history

-----------------------------------------------------------------------------
(***************************************************************************)
(* The invariant.                                                          *)
(***************************************************************************)

\* A step of a running attempt.
LEMMA LaneSteps ==
  ASSUME IInv, phase = "running", NEW l \in Lanes, LaneStep(l)
  PROVE  IInv'
<1>1. TypeOK /\ lane[l] \in LaneType
  BY DEF IInv, TypeOK
<1>2. Available = IF Limit - used - reserved > 0 THEN Limit - used - reserved ELSE 0
  BY <1>1, AvailableIs
<1>3. used \in Nat /\ used <= Limit /\ reserved \in Nat /\ Limit \in Nat
      /\ lane[l].input \in Nat /\ lane[l].output \in Nat /\ lane[l].calls \in 0..MaxCalls
  BY <1>1, BudgetAssumption DEF TypeOK, LaneType, BudgetAssumption
<1>4. CASE Grant(l)
  <2>1. Requested(l) \in Nat
    BY <1>3 DEF Requested
  <2>2. Requested(l) > 0 => used + reserved + Requested(l) <= Limit
    BY <1>2, <1>3, <1>4, <2>1 DEF Grant
  <2>3. QED
    BY <1>4, <2>1, <2>2, Granted DEF Grant
<1>5. CASE Wait(l)
  <2>1. [lane[l] EXCEPT !.pc = "waiting"] \in LaneType
    BY <1>1 DEF LaneType
  <2>2. lane[l].amount = 0
    BY <1>5 DEF Wait, IInv, OnlyCallersHold
  <2>3. lane' = [lane EXCEPT ![l] = [lane[l] EXCEPT !.pc = "waiting"]]
    BY <1>1, <1>5 DEF Wait, TypeOK
  <2>4. QED
    BY <1>1, <1>5, <2>1, <2>2, <2>3, Empty DEF Wait, budget, TypeOK, LaneType
<1>6. CASE Shrink(l)
  <2>1. Available = Limit - used /\ Available \in Nat /\ used + reserved + Available <= Limit
    BY <1>2, <1>3, <1>6 DEF Shrink
  <2>2. QED
    BY <1>6, <2>1, Granted DEF Shrink
<1>7. CASE Refuse(l)
  <2>1. IdleLane(lane[l].calls) \in LaneType
    BY <1>3 DEF IdleLane, LaneType
  <2>2. QED
    BY <1>7, <2>1, Empty DEF Refuse, IdleLane
<1>8. ASSUME NEW cost \in 0..Limit, Charge(l, cost) PROVE IInv'
  BY <1>8, Charged
<1>9. CASE Release(l)
  BY <1>9, Released
<1>10. QED
  BY <1>4, <1>5, <1>6, <1>7, <1>8, <1>9 DEF LaneStep

\* A call that is skipped, or asked for.
LEMMA Asking ==
  ASSUME IInv, NEW l \in Lanes,
         Skip(l) \/ \E request \in Requests : Ask(l, request)
  PROVE  IInv'
<1>1. TypeOK /\ lane[l] \in LaneType /\ MaxCalls \in Nat
  BY BudgetAssumption DEF IInv, TypeOK, BudgetAssumption
<1>2. CASE Skip(l)
  <2>1. [lane[l] EXCEPT !.calls = @ + 1] \in LaneType
    BY <1>1, <1>2 DEF Skip, LaneType
  <2>2. lane[l].amount = 0
    BY <1>2 DEF Skip, IInv, OnlyCallersHold
  <2>3. lane' = [lane EXCEPT ![l] = [lane[l] EXCEPT !.calls = @ + 1]]
    BY <1>1, <1>2 DEF Skip, TypeOK
  <2>4. QED
    BY <1>1, <1>2, <2>1, <2>2, <2>3, Empty DEF Skip, LaneType
<1>3. ASSUME NEW request \in Requests, Ask(l, request) PROVE IInv'
  <2> DEFINE new == [pc |-> "asking", input |-> request.input, output |-> request.output,
                     amount |-> 0, calls |-> lane[l].calls + 1]
  <2>1. request \in [input : Nat, output : Nat \ {0}]
    BY BudgetAssumption DEF BudgetAssumption
  <2>2. new \in LaneType
    BY <1>1, <1>3, <2>1 DEF Ask, LaneType
  <2>3. QED
    BY <1>1, <1>3, <2>2, Empty DEF Ask, budget, TypeOK
<1>4. QED
  BY <1>2, <1>3

\* What a run may have spent, with one attempt more that vanishes.
LEMMA DeathsTimesLimit ==
  ASSUME NEW d \in Nat
  PROVE  d * Limit \in Nat /\ (d + 1) * Limit = d * Limit + Limit
BY BudgetAssumption DEF BudgetAssumption

\* Attempts begin with nothing reserved and the spend of the row.
LEMMA Starting == ASSUME IInv, Start PROVE IInv'
<1>1. lane' = NewLanes /\ NewLanes \in [Lanes -> LaneType]
  BY BudgetAssumption DEF Start, NewLanes, IdleLane, LaneType, BudgetAssumption
<1>2. \A l \in Lanes : lane'[l].amount = 0 /\ lane'[l].pc = "idle"
  BY <1>1 DEF NewLanes, IdleLane
<1>3. Calling' = {}
  BY <1>2 DEF Calling
<1>4. Held(Lanes)' = 0 /\ Held(Calling)' = 0
  <2>1. Cardinality(Tokens(lane', Lanes)) = 0
    BY <1>2, TokensNone
  <2>2. Cardinality(Tokens(lane', {})) = 0
    BY TokensNone
  <2>3. QED
    BY <1>3, <2>1, <2>2 DEF Held
<1>5. TypeOK'
  BY <1>1 DEF Start, IInv, TypeOK
<1>6. OnlyCallersHold'
  BY <1>2 DEF OnlyCallersHold
<1>7. NeverOvercommitted' /\ ReservedIsHeld'
  BY <1>4, <1>5, BudgetAssumption
  DEF NeverOvercommitted, ReservedIsHeld, Start, TypeOK, BudgetAssumption
<1>8. LostSpendIsOfDeaths' /\ SpendIsBounded'
  BY DEF Start, IInv, LostSpendIsOfDeaths, SpendIsBounded
<1>9. QED
  BY <1>5, <1>6, <1>7, <1>8 DEF IInv

\* An attempt that ends, one way or another.
LEMMA Ending == ASSUME IInv, Retry \/ Finish \/ Die \/ NextRun PROVE IInv'
<1>1. TypeOK /\ Limit \in Nat /\ MaxRetries \in Nat /\ MaxDeaths \in Nat /\ deaths \in Nat
  BY BudgetAssumption DEF IInv, TypeOK, BudgetAssumption
<1>2. UNCHANGED <<budget, lane>> /\ phase' # "running"
  BY DEF Retry, Finish, Die, NextRun
<1>3. OnlyCallersHold' /\ NeverOvercommitted' /\ ReservedIsHeld'
  BY <1>2 DEF IInv, OnlyCallersHold, NeverOvercommitted, ReservedIsHeld
<1> DEFINE lost == deaths * Limit
<1>4. lost \in Nat /\ (deaths + 1) * Limit = lost + Limit
  BY <1>1, DeathsTimesLimit
<1>5. phase = "running" => spent <= used + lost
  BY DEF IInv, LostSpendIsOfDeaths
<1> HIDE DEF lost
<1>6. CASE Retry
  <2>1. TypeOK'
    BY <1>1, <1>6 DEF Retry, TypeOK, budget
  <2>2. LostSpendIsOfDeaths'
    BY <1>5, <1>6 DEF Retry, LostSpendIsOfDeaths, lost
  <2>3. SpendIsBounded'
    BY <1>6 DEF Retry, IInv, SpendIsBounded
  <2>4. QED
    BY <1>3, <2>1, <2>2, <2>3 DEF IInv
<1>7. CASE Finish
  <2>1. Max({tokensUsed, used}) \in 0..Limit
    BY <1>1, MaxOfTwo DEF TypeOK
  <2>2. TypeOK'
    BY <1>1, <1>7, <2>1 DEF Finish, TypeOK, budget
  <2>3. LostSpendIsOfDeaths' /\ SpendIsBounded'
    BY <1>7 DEF Finish, IInv, LostSpendIsOfDeaths, SpendIsBounded
  <2>4. QED
    BY <1>3, <2>2, <2>3 DEF IInv
<1>8. CASE Die
  <2>1. PICK cost \in 0..Held(Calling) : spent' = spent + cost
    BY <1>8 DEF Die
  <2>2. Held(Calling) \in Nat
    BY <1>1, TokensFinite DEF Held, Calling, TypeOK
  <2>3. used + Held(Calling) <= Limit /\ phase = "running"
    BY <1>8 DEF Die, IInv, NeverOvercommitted
  <2>4. spent \in Nat /\ used \in Nat /\ tokensUsed \in Nat
    BY <1>1 DEF TypeOK
  <2>5. spent' \in Nat /\ spent' <= lost + Limit
    BY <1>1, <1>4, <1>5, <2>1, <2>2, <2>3, <2>4
  <2>6. TypeOK'
    BY <1>1, <1>8, <2>5 DEF Die, TypeOK, budget
  <2>7. deaths' = deaths + 1 /\ phase' = "ready" /\ tokensUsed' = tokensUsed
    BY <1>8 DEF Die
  <2>8. deaths' * Limit = lost + Limit
    BY <1>4, <2>7
  <2>9. LostSpendIsOfDeaths'
    BY <1>1, <1>4, <2>4, <2>5, <2>7, <2>8 DEF LostSpendIsOfDeaths
  <2>10. SpendIsBounded'
    <3>1. (deaths' + 1) * Limit = lost + Limit + Limit
      BY <1>1, <1>4, <2>7, <2>8, DeathsTimesLimit
    <3>2. QED
      BY <1>1, <1>4, <2>5, <3>1 DEF SpendIsBounded
  <2>11. QED
    BY <1>3, <2>6, <2>9, <2>10 DEF IInv
<1>9. CASE NextRun
  <2>1. TypeOK'
    BY <1>1, <1>9 DEF NextRun, TypeOK, budget
  <2>2. LostSpendIsOfDeaths' /\ SpendIsBounded'
    BY <1>1, <1>9 DEF NextRun, LostSpendIsOfDeaths, SpendIsBounded
  <2>3. QED
    BY <1>3, <2>1, <2>2 DEF IInv
<1>10. QED
  BY <1>6, <1>7, <1>8, <1>9

LEMMA InvariantInit == Init => IInv
<1> SUFFICES ASSUME Init PROVE IInv
  OBVIOUS
<1>1. Limit \in Nat /\ MaxCalls \in Nat /\ MaxRetries \in Nat /\ MaxDeaths \in Nat
  BY BudgetAssumption DEF BudgetAssumption
<1>2. TypeOK
  <2>1. NewLanes \in [Lanes -> LaneType]
    BY <1>1 DEF NewLanes, IdleLane, LaneType
  <2>2. tokensUsed \in 0..Limit /\ used \in 0..Limit /\ spent \in Nat /\ reserved \in Nat
    BY <1>1 DEF Init
  <2>3. retries \in 0..MaxRetries /\ deaths \in 0..MaxDeaths
    BY <1>1 DEF Init
  <2>4. phase \in {"ready", "running", "over"} /\ exhausted \in BOOLEAN
        /\ lane \in [Lanes -> LaneType]
    BY <2>1 DEF Init
  <2>5. QED
    BY <2>2, <2>3, <2>4 DEF TypeOK
<1>3. OnlyCallersHold
  BY DEF Init, OnlyCallersHold, NewLanes, IdleLane
<1>4. NeverOvercommitted /\ ReservedIsHeld /\ LostSpendIsOfDeaths /\ SpendIsBounded
  BY <1>1 DEF Init, NeverOvercommitted, ReservedIsHeld, LostSpendIsOfDeaths, SpendIsBounded
<1>5. QED
  BY <1>2, <1>3, <1>4 DEF IInv

LEMMA InvariantStep == IInv /\ [Next]_vars => IInv'
<1> SUFFICES ASSUME IInv, [Next]_vars PROVE IInv'
  OBVIOUS
<1>1. ASSUME NEW l \in Lanes, Skip(l) \/ \E request \in Requests : Ask(l, request)
      PROVE  IInv'
  BY <1>1, Asking
<1>2. ASSUME NEW l \in Lanes, phase = "running" /\ LaneStep(l) PROVE IInv'
  BY <1>2, LaneSteps
<1>3. CASE Start
  BY <1>3, Starting
<1>4. CASE Retry \/ Finish \/ Die \/ NextRun
  BY <1>4, Ending
<1>5. CASE UNCHANGED vars
  BY <1>5 DEF vars, IInv, TypeOK, OnlyCallersHold, NeverOvercommitted, ReservedIsHeld,
              LostSpendIsOfDeaths, SpendIsBounded, Held, Calling
<1>6. QED
  BY <1>1, <1>2, <1>3, <1>4, <1>5 DEF Next

-----------------------------------------------------------------------------
\* The theorems.

\* The invariant is inductive: it holds in every reachable state.
THEOREM Invariant == Spec => []IInv
BY InvariantInit, InvariantStep, PTL DEF Spec

\* Counters stay in range: no reservation is negative, and neither the budget of
\* an attempt nor the committed total ever passes the limit.
THEOREM TypeCorrect == Spec => []TypeOK
BY Invariant, PTL DEF IInv

\* What is spent and what the calls in flight may cost fit the limit together.
THEOREM FanOutFits == Spec => []NeverOvercommitted
BY Invariant, PTL DEF IInv

\* The counter of reservations is what the lanes hold: nothing leaks.
THEOREM NothingLeaks == Spec => []ReservedIsHeld
BY Invariant, PTL DEF IInv

\* Each attempt that vanishes costs at most one more limit.
THEOREM SpendHasBound == Spec => []SpendIsBounded
BY Invariant, PTL DEF IInv

\* Only attempts that vanish break the cap of the run: without them the budget
\* is cumulative, as execute_run says.
THEOREM CapNeedsSurvivors == ASSUME MaxDeaths = 0 PROVE Spec => []SpentWithinCap
<1>1. IInv => SpentWithinCap
  <2> SUFFICES ASSUME IInv PROVE SpentWithinCap
    OBVIOUS
  <2>1. deaths = 0 /\ Limit \in Nat
    BY MaxDeaths = 0, BudgetAssumption DEF IInv, TypeOK, BudgetAssumption
  <2>2. (0 + 1) * Limit = Limit
    BY <2>1
  <2>3. QED
    BY <2>1, <2>2 DEF IInv, SpendIsBounded, SpentWithinCap
<1>2. QED
  BY <1>1, Invariant, PTL
=============================================================================
