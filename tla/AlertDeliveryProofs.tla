------------------------ MODULE AlertDeliveryProofs ------------------------
(***************************************************************************)
(* The safety of alert delivery for any sets of intents and dispatchers    *)
(* and any number of attempts.                                             *)
(***************************************************************************)
EXTENDS AlertDeliveryProps, TLAPS

\* The rows that statements write have the type of rows.
LEMMA RowTypes ==
  ASSUME NEW row \in IntentType, NEW c \in CallType
  PROVE  /\ Exhausted(row) \in IntentType
         /\ Failed(row, c) \in IntentType
         /\ c.outcome \in Final => Completed(row, c) \in IntentType
         /\ [row EXCEPT !.status = "pending"] \in IntentType
         /\ [row EXCEPT !.ripe = TRUE] \in IntentType
         /\ row.attempts < MaxAttempts => Leased(row) \in IntentType
<1>1. row.attempts < MaxAttempts => row.attempts + 1 \in 0..MaxAttempts
  BY DeliveryAssumption DEF IntentType
<1>2. Exhausted(row) \in IntentType /\ Failed(row, c) \in IntentType
  BY DEF IntentType, Exhausted, Failed, Final
<1>3. c.outcome \in Final => Completed(row, c) \in IntentType
  BY DEF IntentType, Completed, Final
<1>4. QED
  BY <1>1, <1>2, <1>3 DEF IntentType, Final, Leased

\* What the statements write, field by field.
LEMMA RowFields ==
  ASSUME NEW row \in IntentType, NEW c \in CallType
  PROVE  /\ Exhausted(row).status = "not_sent"
         /\ Exhausted(row).attempts = row.attempts
         /\ Exhausted(row).reason = "retry_exhausted"
         /\ Leased(row).status = "leased"
         /\ Leased(row).attempts = row.attempts + 1
         /\ Leased(row).reason = row.reason
         /\ Completed(row, c).status = c.outcome
         /\ Completed(row, c).attempts = row.attempts
         /\ c.outcome = "not_sent" => Completed(row, c).reason = "sink"
         /\ Failed(row, c).attempts = row.attempts
         /\ c.attempt >= MaxAttempts => Failed(row, c).status = "not_sent"
         /\ ~(c.attempt >= MaxAttempts) => Failed(row, c).status = "pending"
BY DEF IntentType, Exhausted, Leased, Completed, Failed

\* A row that the sweep of a claim may have given up.
SweptOrSame(i) ==
  \/ intent'[i] = intent[i]
  \/ /\ intent'[i] = Exhausted(intent[i])
     /\ intent[i].attempts >= MaxAttempts
     /\ intent[i].status \in {"pending", "leased"}
     /\ intent[i].ripe

\* What one claim does to every row.
LEMMA ClaimRows ==
  ASSUME TypeOK, NEW d \in Dispatchers, NEW seen \in SUBSET Eligible,
         NEW i \in seen, Claim(d, seen, i)
  PROVE  /\ i \in Intents /\ intent[i].attempts < MaxAttempts
         /\ intent[i].status \in {"pending", "leased"}
         /\ intent'[i] = Leased(intent[i])
         /\ \A j \in Intents : j # i => SweptOrSame(j)
         /\ call[d].pc = "idle"
         /\ call' = [call EXCEPT ![d] = Rendering(i, intent[i].attempts + 1)]
<1>1. i \in Intents /\ i \notin Spent(seen) /\ intent[i].status \in {"pending", "leased"}
  BY DEF Claim, Eligible
<1>2. intent[i].attempts < MaxAttempts
  BY <1>1, DeliveryAssumption DEF Spent, TypeOK, IntentType
<1>3. intent'[i] = Leased(intent[i])
  BY <1>1 DEF Claim, GivenUp
<1>4. \A j \in Intents : j # i => SweptOrSame(j)
  <2> SUFFICES ASSUME NEW j \in Intents, j # i PROVE SweptOrSame(j)
    OBVIOUS
  <2>1. intent'[j] = IF j \in Spent(seen) THEN Exhausted(intent[j]) ELSE intent[j]
    BY DEF Claim, GivenUp
  <2>2. QED
    BY <2>1 DEF SweptOrSame, Spent, Eligible
<1>5. QED
  BY <1>1, <1>2, <1>3, <1>4 DEF Claim

\* A transaction that claims nothing sweeps some rows.
LEMMA SweepRows ==
  ASSUME TypeOK, NEW d \in Dispatchers, NEW seen \in SUBSET Eligible,
         ClaimNothing(d, seen)
  PROVE  \A j \in Intents : SweptOrSame(j)
<1> SUFFICES ASSUME NEW j \in Intents PROVE SweptOrSame(j)
  OBVIOUS
<1>1. CASE j \in Spent(seen)
  BY <1>1 DEF ClaimNothing, GivenUp, SweptOrSame, Spent, Eligible
<1>2. CASE j \notin Spent(seen)
  BY <1>2 DEF ClaimNothing, GivenUp, SweptOrSame
<1>3. QED
  BY <1>1, <1>2

\* The steps of the system, with the row updates of Finish taken apart.
Finishes(d) ==
  LET c == call[d]
  IN  /\ c.pc = "finish"
      /\ call' = [call EXCEPT ![d].pc = "return", ![d].won = Owned(c)]
      /\ \A j \in Intents : j # c.intent => intent'[j] = intent[j]
      /\ ~Owned(c) => intent' = intent
      /\ Owned(c) => intent'[c.intent] = IF c.outcome = "error"
                                         THEN Failed(intent[c.intent], c)
                                         ELSE Completed(intent[c.intent], c)

LEMMA FinishRows ==
  ASSUME TypeOK, NEW d \in Dispatchers, Finish(d), call[d].intent \in Intents
  PROVE  Finishes(d)
BY DEF Finish, Finishes, TypeOK

-----------------------------------------------------------------------------
LEMMA TypeStep == IInv /\ [Next]_vars => TypeOK'
<1> SUFFICES ASSUME IInv, [Next]_vars PROVE TypeOK'
  OBVIOUS
<1>1. /\ \A i \in Intents : intent[i] \in IntentType
      /\ \A d \in Dispatchers : call[d] \in CallType
      /\ TypeOK
  BY DEF IInv, TypeOK
<1>2. NoCall \in CallType
  BY DeliveryAssumption DEF NoCall, CallType, Final
<1>3. ASSUME NEW i \in Intents, Materialize(i) \/ TimePasses(i) PROVE TypeOK'
  <2>1. /\ [intent[i] EXCEPT !.status = "pending"] \in IntentType
        /\ [intent[i] EXCEPT !.ripe = TRUE] \in IntentType
    BY <1>1 DEF IntentType
  <2>2. QED
    BY <1>3, <2>1 DEF IInv, Materialize, TimePasses, TypeOK
<1>4. ASSUME \A i \in Intents : SweptOrSame(i), NEW d \in Dispatchers,
             NEW seen \in SUBSET Eligible, ClaimNothing(d, seen)
      PROVE  TypeOK'
  <2>1. \A i \in Intents : intent'[i] \in IntentType
    BY <1>1, <1>2, <1>4, RowTypes, Zenon DEF SweptOrSame
  <2>2. intent' = [i \in Intents |-> intent'[i]] /\ call' = call
    BY <1>4 DEF ClaimNothing, GivenUp
  <2>3. QED
    BY <1>1, <2>1, <2>2 DEF TypeOK
<1>5. ASSUME NEW d \in Dispatchers, NEW seen \in SUBSET Eligible, NEW i \in seen,
             Claim(d, seen, i)
      PROVE  TypeOK'
  <2>1. /\ i \in Intents /\ intent[i].attempts < MaxAttempts
        /\ intent'[i] = Leased(intent[i])
        /\ \A j \in Intents : j # i => SweptOrSame(j)
        /\ call' = [call EXCEPT ![d] = Rendering(i, intent[i].attempts + 1)]
    BY <1>1, <1>5, ClaimRows
  <2>2. intent'[i] \in IntentType
    BY <1>1, <1>2, <2>1, RowTypes
  <2>3. \A j \in Intents : j # i => intent'[j] \in IntentType
    BY <1>1, <1>2, <2>1, RowTypes, Zenon DEF SweptOrSame
  <2>4. intent' = [j \in Intents |-> intent'[j]]
    BY <1>5 DEF Claim, GivenUp
  <2>5. Rendering(i, intent[i].attempts + 1) \in CallType
    <3>1. intent[i].attempts + 1 \in 0..MaxAttempts
      BY <1>1, <2>1, DeliveryAssumption DEF IntentType
    <3>2. QED
      BY <2>1, <3>1 DEF Rendering, CallType
  <2>6. call' \in [Dispatchers -> CallType]
    BY <1>1, <2>1, <2>5 DEF TypeOK
  <2>7. QED
    BY <2>2, <2>3, <2>4, <2>6 DEF TypeOK
<1>6. ASSUME NEW d \in Dispatchers, NEW outcome \in Final \cup {"error"},
             NEW late \in BOOLEAN, Render(d, outcome, late)
      PROVE  TypeOK'
  <2>1. [call[d] EXCEPT !.pc = "finish", !.outcome = outcome, !.late = late] \in CallType
    BY <1>1 DEF CallType
  <2>2. QED
    BY <1>6, <2>1 DEF IInv, Render, TypeOK
<1>7. ASSUME NEW d \in Dispatchers, Finish(d) PROVE TypeOK'
  <2>1. call[d].intent \in Intents
    BY <1>7 DEF IInv, Finish, CallsWereClaimed
  <2>2. Owned(call[d]) \in BOOLEAN
    BY DEF Owned
  <2>3. [call[d] EXCEPT !.pc = "return", !.won = Owned(call[d])] \in CallType
    BY <1>1, <2>2 DEF CallType
  <2>4. call' \in [Dispatchers -> CallType]
    BY <1>7, <2>3 DEF IInv, Finish, TypeOK
  <2>5. Failed(intent[call[d].intent], call[d]) \in IntentType
    BY <1>1, <2>1, RowTypes
  <2>6. call[d].outcome # "error" => Completed(intent[call[d].intent], call[d]) \in IntentType
    <3>1. call[d].outcome \in Final \cup {"none", "error"} /\ call[d].outcome # "none"
      BY <1>1, <1>7 DEF IInv, Finish, RendersHaveOutcome, CallType
    <3>2. QED
      BY <1>1, <2>1, <3>1, RowTypes
  <2>7. intent' \in [Intents -> IntentType]
    BY <1>7, <2>1, <2>5, <2>6 DEF IInv, Finish, TypeOK
  <2>8. QED
    BY <2>4, <2>7 DEF TypeOK
<1>8. ASSUME NEW d \in Dispatchers, Return(d) \/ Crash(d) PROVE TypeOK'
  BY <1>2, <1>8 DEF IInv, Return, Crash, TypeOK
<1>9. CASE UNCHANGED vars
  BY <1>9 DEF IInv, vars, TypeOK
<1>10. QED
  BY <1>1, <1>3, <1>4, <1>5, <1>6, <1>7, <1>8, <1>9, SweepRows
     DEF Next, DispatchSeeing, GoOn

-----------------------------------------------------------------------------
\* How a row may change in one step.
Advances(i) ==
  \/ intent'[i] = intent[i]
  \/ /\ intent[i].status = "absent" /\ intent'[i].status = "pending"
     /\ intent'[i].attempts = intent[i].attempts
     /\ intent'[i].reason = intent[i].reason
  \/ /\ intent[i].status \in {"pending", "leased"}
     /\ intent'[i].status = intent[i].status
     /\ intent'[i].attempts = intent[i].attempts
     /\ intent'[i].reason = intent[i].reason
  \/ /\ intent[i].status \in {"pending", "leased"} /\ intent'[i].status = "leased"
     /\ intent[i].attempts < MaxAttempts
     /\ intent'[i].attempts = intent[i].attempts + 1
     /\ intent'[i].reason = intent[i].reason
  \/ /\ intent[i].status \in {"pending", "leased"} /\ intent'[i].status = "not_sent"
     /\ intent[i].attempts >= MaxAttempts /\ intent[i].ripe
     /\ intent'[i].attempts = intent[i].attempts
  \/ /\ intent[i].status = "leased"
     /\ intent'[i].attempts = intent[i].attempts
     /\ \E d \in Dispatchers :
          /\ call[d].pc = "finish" /\ call'[d].pc = "return"
          /\ call[d].intent = i /\ call[d].attempt = intent[i].attempts
          /\ IF call[d].outcome = "error"
             THEN IF call[d].attempt >= MaxAttempts
                  THEN intent'[i].status = "not_sent"
                  ELSE intent'[i].status = "pending"
             ELSE /\ call[d].outcome \in Final
                  /\ intent'[i].status = call[d].outcome
                  /\ call[d].outcome = "not_sent" => intent'[i].reason = "sink"

\* A row that a sweep gives up or leaves alone advances.
LEMMA SweepAdvances ==
  ASSUME TypeOK, NEW i \in Intents, SweptOrSame(i)
  PROVE  Advances(i)
<1>1. /\ Exhausted(intent[i]).status = "not_sent"
      /\ Exhausted(intent[i]).attempts = intent[i].attempts
  BY DEF TypeOK, IntentType, Exhausted
<1>2. QED
  BY <1>1 DEF SweptOrSame, Advances

\* A finishing update advances the row it hits and no other.
LEMMA FinishAdvances ==
  ASSUME IInv, NEW d \in Dispatchers, Finish(d), NEW i \in Intents
  PROVE  Advances(i)
<1>1. /\ TypeOK /\ intent[i] \in IntentType /\ call[d] \in CallType
      /\ call[d].intent \in Intents
      /\ call[d].outcome \in Final \cup {"error"}
  BY DEF IInv, TypeOK, Finish, CallsWereClaimed, RendersHaveOutcome, CallType
<1>2. Finishes(d)
  BY <1>1, FinishRows
<1>3. CASE i = call[d].intent /\ Owned(call[d])
  <2>1. /\ intent[i].status = "leased" /\ intent[i].attempts = call[d].attempt
        /\ call[d].pc = "finish" /\ call'[d].pc = "return"
    BY <1>1, <1>2, <1>3 DEF Finishes, Owned, TypeOK
  <2>2. CASE call[d].outcome = "error"
    <3>1. intent'[i] = Failed(intent[i], call[d])
      BY <1>2, <1>3, <2>2 DEF Finishes
    <3>2. /\ intent'[i].attempts = intent[i].attempts
          /\ call[d].attempt >= MaxAttempts => intent'[i].status = "not_sent"
          /\ ~(call[d].attempt >= MaxAttempts) => intent'[i].status = "pending"
      BY <1>1, <3>1, RowFields
    <3>3. QED
      BY <1>3, <2>1, <2>2, <3>2 DEF Advances
  <2>3. CASE call[d].outcome # "error"
    <3>1. intent'[i] = Completed(intent[i], call[d])
      BY <1>2, <1>3, <2>3 DEF Finishes
    <3>2. /\ intent'[i].attempts = intent[i].attempts
          /\ intent'[i].status = call[d].outcome
          /\ call[d].outcome = "not_sent" => intent'[i].reason = "sink"
      BY <1>1, <3>1, RowFields
    <3>3. QED
      BY <1>1, <1>3, <2>1, <2>3, <3>2 DEF Advances
  <2>4. QED
    BY <2>2, <2>3
<1>4. CASE ~(i = call[d].intent /\ Owned(call[d]))
  BY <1>2, <1>4 DEF Finishes, Advances
<1>5. QED
  BY <1>3, <1>4

\* Every step advances every row.
LEMMA RowsAdvance == ASSUME IInv, [Next]_vars, NEW i \in Intents PROVE Advances(i)
<1>1. TypeOK /\ intent[i] \in IntentType
  BY DEF IInv, TypeOK
<1>2. ASSUME NEW j \in Intents, Materialize(j) \/ TimePasses(j) PROVE Advances(i)
  <2>1. CASE i = j
    <3>1. CASE Materialize(j)
      <4>1. intent'[i] = [intent[i] EXCEPT !.status = "pending"] /\ intent[i].status = "absent"
        BY <1>1, <2>1, <3>1 DEF Materialize, TypeOK
      <4>2. QED
        BY <1>1, <4>1 DEF Advances, IntentType
    <3>2. CASE TimePasses(j)
      <4>1. /\ intent'[i] = [intent[i] EXCEPT !.ripe = TRUE]
            /\ intent[i].status \in {"pending", "leased"}
        BY <1>1, <2>1, <3>2 DEF TimePasses, TypeOK
      <4>2. QED
        BY <1>1, <4>1 DEF Advances, IntentType
    <3>3. QED
      BY <1>2, <3>1, <3>2
  <2>2. CASE i # j
    BY <1>1, <1>2, <2>2 DEF Materialize, TimePasses, TypeOK, Advances
  <2>3. QED
    BY <2>1, <2>2
<1>3. ASSUME NEW d \in Dispatchers, NEW seen \in SUBSET Eligible, ClaimNothing(d, seen)
      PROVE  Advances(i)
  BY <1>1, <1>3, SweepRows, SweepAdvances
<1>4. ASSUME NEW d \in Dispatchers, NEW seen \in SUBSET Eligible, NEW j \in seen,
             Claim(d, seen, j)
      PROVE  Advances(i)
  <2>1. /\ intent[j].attempts < MaxAttempts
        /\ intent[j].status \in {"pending", "leased"}
        /\ intent'[j] = Leased(intent[j])
        /\ \A k \in Intents : k # j => SweptOrSame(k)
    BY <1>1, <1>4, ClaimRows
  <2>2. CASE i = j
    <3>1. /\ Leased(intent[i]).status = "leased"
          /\ Leased(intent[i]).attempts = intent[i].attempts + 1
          /\ Leased(intent[i]).reason = intent[i].reason
      BY <1>1 DEF Leased, IntentType
    <3>2. QED
      BY <2>1, <2>2, <3>1 DEF Advances
  <2>3. CASE i # j
    BY <1>1, <2>1, <2>3, SweepAdvances
  <2>4. QED
    BY <2>2, <2>3
<1>5. ASSUME NEW d \in Dispatchers, Finish(d) PROVE Advances(i)
  BY <1>5, FinishAdvances
<1>6. intent' = intent => Advances(i)
  BY DEF Advances
<1>7. QED
  BY <1>2, <1>3, <1>4, <1>5, <1>6
     DEF Next, DispatchSeeing, GoOn, Render, Return, Crash, vars

-----------------------------------------------------------------------------
\* The inductive invariant.

\* attempts_count never falls and stays within its bounds; the two parts of
\* the invariant that speak of rows alone follow from how rows advance.
LEMMA RowParts ==
  ASSUME IInv, TypeOK', \A i \in Intents : Advances(i)
  PROVE  /\ \A i \in Intents : intent'[i].attempts >= intent[i].attempts
         /\ AttemptsFit'
         /\ GivenUpAtTheEnd'
<1>1. \A i \in Intents : /\ intent[i].attempts \in Nat /\ intent'[i].attempts \in Nat
                         /\ intent[i].attempts <= MaxAttempts
                         /\ intent[i].status \in {"absent", "pending", "leased"} \cup Final
                         /\ intent'[i].status \in {"absent", "pending", "leased"} \cup Final
  BY DeliveryAssumption DEF IInv, TypeOK, IntentType
<1>2. \A i \in Intents : intent'[i].attempts >= intent[i].attempts
  BY <1>1 DEF Advances
<1>3. AttemptsFit'
  <2> SUFFICES ASSUME NEW i \in Intents
               PROVE  /\ intent'[i].status = "absent" => intent'[i].attempts = 0
                      /\ intent'[i].status = "pending" => intent'[i].attempts < MaxAttempts
                      /\ intent'[i].status \in {"leased"} \cup Final
                           => intent'[i].attempts # 0
    BY DEF AttemptsFit
  <2>1. /\ intent[i].status = "absent" => intent[i].attempts = 0
        /\ intent[i].status = "pending" => intent[i].attempts < MaxAttempts
        /\ intent[i].status \in {"leased"} \cup Final => intent[i].attempts # 0
    BY DEF IInv, AttemptsFit
  <2>2. Advances(i)
    OBVIOUS
  <2>3. QED
    BY <1>1, <2>1, <2>2, DeliveryAssumption DEF Advances, Final
<1>4. GivenUpAtTheEnd'
  <2> SUFFICES ASSUME NEW i \in Intents, intent'[i].status = "not_sent",
                      intent'[i].reason # "sink"
               PROVE  intent'[i].attempts = MaxAttempts
    BY DEF GivenUpAtTheEnd
  <2>1. intent[i].status = "not_sent" /\ intent[i].reason # "sink"
          => intent[i].attempts = MaxAttempts
    BY DEF IInv, GivenUpAtTheEnd
  <2>2. Advances(i)
    OBVIOUS
  <2>3. QED
    BY <1>1, <2>1, <2>2, DeliveryAssumption DEF Advances, Final
<1>5. QED
  BY <1>2, <1>3, <1>4

\* What a call in progress says stays true while its row advances.
LEMMA CallStays ==
  ASSUME IInv, TypeOK', \A i \in Intents : Advances(i),
         NEW d \in Dispatchers, call'[d] = call[d], call[d].pc = "return", call[d].won
  PROVE  IF call[d].outcome = "error"
         THEN \/ intent'[call[d].intent].attempts > call[d].attempt
              \/ intent'[call[d].intent].status \in {"pending", "not_sent"}
         ELSE /\ intent'[call[d].intent].status = call[d].outcome
              /\ intent'[call[d].intent].attempts = call[d].attempt
<1> DEFINE i == call[d].intent
<1>1. /\ i \in Intents
      /\ intent[i].attempts \in Nat /\ call[d].attempt \in Nat
      /\ intent'[i].attempts \in Nat
      /\ call[d].attempt <= intent[i].attempts
      /\ call[d].outcome \in Final \cup {"error"}
  BY DeliveryAssumption
     DEF IInv, TypeOK, IntentType, CallType, CallsWereClaimed, RendersHaveOutcome
<1>2. IF call[d].outcome = "error"
      THEN intent[i].attempts > call[d].attempt \/ intent[i].status \in {"pending", "not_sent"}
      ELSE intent[i].status = call[d].outcome /\ intent[i].attempts = call[d].attempt
  BY DEF IInv, ReportIsTrue
<1>3. Advances(i)
  BY <1>1
<1> HIDE DEF i
<1>4. CASE call[d].outcome = "error"
  <2>1. CASE intent[i].attempts > call[d].attempt
    <3>1. intent'[i].attempts >= intent[i].attempts
      BY <1>1, RowParts
    <3>2. intent'[i].attempts > call[d].attempt
      BY <1>1, <2>1, <3>1
    <3>3. QED
      BY <1>4, <3>2 DEF i
  <2>2. CASE intent[i].status \in {"pending", "not_sent"}
    <3>1. \/ intent'[i].status \in {"pending", "not_sent"}
          \/ intent'[i].attempts = intent[i].attempts + 1
      BY <1>3, <2>2 DEF Advances
    <3>2. \/ intent'[i].status \in {"pending", "not_sent"}
          \/ intent'[i].attempts > call[d].attempt
      BY <1>1, <3>1
    <3>3. QED
      BY <1>4, <3>2 DEF i
  <2>3. QED
    BY <1>2, <1>4, <2>1, <2>2
<1>5. CASE call[d].outcome # "error"
  <2>1. intent'[i] = intent[i]
    BY <1>1, <1>2, <1>3, <1>5 DEF Advances, Final
  <2>2. QED
    BY <1>2, <1>5, <2>1 DEF i
<1>6. QED
  BY <1>4, <1>5

\* A step in which every call keeps its claim, ends, or stays as it is.
LEMMA CallParts ==
  ASSUME IInv, TypeOK', \A i \in Intents : Advances(i),
         \A d \in Dispatchers :
            \/ call'[d] = call[d]
            \/ call'[d].pc = "idle"
            \/ /\ call[d].pc = "render" /\ call'[d].pc = "finish"
               /\ call'[d].intent = call[d].intent /\ call'[d].attempt = call[d].attempt
               /\ call'[d].outcome # "none"
  PROVE  IInv'
<1>1. /\ \A i \in Intents : /\ intent'[i].attempts >= intent[i].attempts
                            /\ intent[i].attempts \in Nat
                            /\ intent'[i].attempts \in Nat
      /\ \A d \in Dispatchers : call[d].attempt \in Nat
  BY RowParts DEF IInv, TypeOK, IntentType, CallType
<1>2. RendersHaveOutcome'
  BY DEF IInv, RendersHaveOutcome
<1>3. CallsWereClaimed'
  BY <1>1 DEF IInv, CallsWereClaimed
<1>4. ClaimsDiffer'
  BY DEF IInv, ClaimsDiffer, Busy
<1>5. ReportIsTrue'
  <2> SUFFICES ASSUME NEW d \in Dispatchers, call'[d].pc = "return", call'[d].won
               PROVE  IF call'[d].outcome = "error"
                      THEN \/ intent'[call'[d].intent].attempts > call'[d].attempt
                           \/ intent'[call'[d].intent].status \in {"pending", "not_sent"}
                      ELSE /\ intent'[call'[d].intent].status = call'[d].outcome
                           /\ intent'[call'[d].intent].attempts = call'[d].attempt
    BY DEF ReportIsTrue
  <2>1. call'[d] = call[d] /\ call[d].pc = "return" /\ call[d].won
    OBVIOUS
  <2>2. QED
    BY <2>1, CallStays
<1>6. QED
  BY <1>2, <1>3, <1>4, <1>5, RowParts DEF IInv

\* A claim: the new call carries an attempt number that no other call has.
LEMMA Claiming ==
  ASSUME IInv, TypeOK', \A i \in Intents : Advances(i),
         NEW d \in Dispatchers, NEW seen \in SUBSET Eligible, NEW i \in seen,
         Claim(d, seen, i)
  PROVE  IInv'
<1>1. /\ i \in Intents /\ intent'[i] = Leased(intent[i])
      /\ call' = [call EXCEPT ![d] = Rendering(i, intent[i].attempts + 1)]
  <2>1. TypeOK
    BY DEF IInv
  <2>2. QED
    BY <2>1, ClaimRows
<1>2. /\ call'[d] = Rendering(i, intent[i].attempts + 1)
      /\ \A e \in Dispatchers : e # d => call'[e] = call[e]
  BY <1>1 DEF IInv, TypeOK
<1>3. /\ call'[d].pc = "render" /\ call'[d].intent = i
      /\ call'[d].attempt = intent[i].attempts + 1
  BY <1>2 DEF Rendering
<1>4. intent'[i].attempts = intent[i].attempts + 1
  BY <1>1 DEF Leased, IInv, TypeOK, IntentType
<1>5. /\ \A j \in Intents : /\ intent'[j].attempts >= intent[j].attempts
                            /\ intent[j].attempts \in Nat
                            /\ intent'[j].attempts \in Nat
      /\ \A e \in Dispatchers : call[e].attempt \in Nat
  BY RowParts DEF IInv, TypeOK, IntentType, CallType
<1>6. \A e \in Dispatchers : call[e].pc # "idle" => /\ call[e].intent \in Intents
                                                   /\ call[e].attempt # 0
                                                   /\ call[e].attempt <= intent[call[e].intent].attempts
  BY DEF IInv, CallsWereClaimed
<1>7. RendersHaveOutcome'
  BY <1>2, <1>3 DEF IInv, RendersHaveOutcome
<1>8. CallsWereClaimed'
  BY <1>1, <1>2, <1>3, <1>4, <1>5, <1>6 DEF CallsWereClaimed
<1>9. ClaimsDiffer'
  <2> SUFFICES ASSUME NEW e \in Dispatchers, NEW f \in Dispatchers, e # f,
                      call'[e].pc \in {"render", "finish"},
                      call'[f].pc \in {"render", "finish"},
                      call'[e].intent = call'[f].intent
               PROVE  call'[e].attempt # call'[f].attempt
    BY DEF ClaimsDiffer, Busy
  <2>1. CASE e # d /\ f # d
    BY <1>2, <2>1 DEF IInv, ClaimsDiffer, Busy
  <2>2. \A g \in Dispatchers : g # d /\ call'[g].pc \in {"render", "finish"}
                              /\ call'[g].intent = i
                              => call'[g].attempt < intent[i].attempts + 1
    BY <1>1, <1>2, <1>5, <1>6
  <2>3. CASE e = d \/ f = d
    BY <1>1, <1>3, <1>5, <2>2, <2>3
  <2>4. QED
    BY <2>1, <2>3
<1>10. ReportIsTrue'
  <2> SUFFICES ASSUME NEW e \in Dispatchers, call'[e].pc = "return", call'[e].won
               PROVE  IF call'[e].outcome = "error"
                      THEN \/ intent'[call'[e].intent].attempts > call'[e].attempt
                           \/ intent'[call'[e].intent].status \in {"pending", "not_sent"}
                      ELSE /\ intent'[call'[e].intent].status = call'[e].outcome
                           /\ intent'[call'[e].intent].attempts = call'[e].attempt
    BY DEF ReportIsTrue
  <2>1. call'[e] = call[e] /\ call[e].pc = "return" /\ call[e].won
    BY <1>2, <1>3
  <2>2. QED
    BY <2>1, CallStays
<1>11. QED
  BY <1>7, <1>8, <1>9, <1>10, RowParts DEF IInv

\* A finishing update: the call that made it knows what it did.
LEMMA Finishing ==
  ASSUME IInv, TypeOK', \A i \in Intents : Advances(i),
         NEW d \in Dispatchers, Finish(d)
  PROVE  IInv'
<1> DEFINE c == call[d]
<1>1. /\ c.pc = "finish" /\ c.intent \in Intents /\ c \in CallType
      /\ c.outcome \in Final \cup {"error"}
      /\ intent[c.intent] \in IntentType
  BY DEF IInv, TypeOK, Finish, CallsWereClaimed, RendersHaveOutcome, CallType
<1>2. Finishes(d)
  BY <1>1, FinishRows DEF IInv
<1>3. /\ call'[d] = [c EXCEPT !.pc = "return", !.won = Owned(c)]
      /\ \A e \in Dispatchers : e # d => call'[e] = call[e]
  BY <1>2 DEF Finishes, IInv, TypeOK
<1>4. /\ call'[d].pc = "return" /\ call'[d].won = Owned(c)
      /\ call'[d].intent = c.intent /\ call'[d].attempt = c.attempt
      /\ call'[d].outcome = c.outcome
  BY <1>1, <1>3 DEF CallType
<1>5. /\ \A j \in Intents : /\ intent'[j].attempts >= intent[j].attempts
                            /\ intent[j].attempts \in Nat
                            /\ intent'[j].attempts \in Nat
      /\ \A e \in Dispatchers : call[e].attempt \in Nat
  BY RowParts DEF IInv, TypeOK, IntentType, CallType
<1>6. RendersHaveOutcome'
  BY <1>1, <1>3, <1>4 DEF IInv, RendersHaveOutcome
<1>7. CallsWereClaimed'
  <2>1. \A e \in Dispatchers : /\ call'[e].intent = call[e].intent
                               /\ call'[e].attempt = call[e].attempt
                               /\ call'[e].pc # "idle" => call[e].pc # "idle"
    BY <1>1, <1>3, <1>4
  <2>2. QED
    BY <1>5, <2>1 DEF IInv, CallsWereClaimed
<1>8. ClaimsDiffer'
  <2>1. \A e \in Dispatchers : /\ call'[e].intent = call[e].intent
                               /\ call'[e].attempt = call[e].attempt
                               /\ call'[e].pc \in {"render", "finish"} =>
                                    call[e].pc \in {"render", "finish"}
    BY <1>3, <1>4
  <2>2. QED
    BY <2>1 DEF IInv, ClaimsDiffer, Busy
<1>9. ReportIsTrue'
  <2> SUFFICES ASSUME NEW e \in Dispatchers, call'[e].pc = "return", call'[e].won
               PROVE  IF call'[e].outcome = "error"
                      THEN \/ intent'[call'[e].intent].attempts > call'[e].attempt
                           \/ intent'[call'[e].intent].status \in {"pending", "not_sent"}
                      ELSE /\ intent'[call'[e].intent].status = call'[e].outcome
                           /\ intent'[call'[e].intent].attempts = call'[e].attempt
    BY DEF ReportIsTrue
  <2>1. CASE e # d
    BY <1>3, <2>1, CallStays
  <2>2. CASE e = d
    <3>1. Owned(c) /\ intent[c.intent].attempts = c.attempt
      BY <1>4, <2>2 DEF Owned
    <3>2. CASE c.outcome = "error"
      <4>1. intent'[c.intent] = Failed(intent[c.intent], c)
        BY <1>2, <3>1, <3>2 DEF Finishes
      <4>2. intent'[c.intent].status \in {"pending", "not_sent"}
        BY <1>1, <4>1, RowFields
      <4>3. QED
        BY <1>4, <2>2, <3>2, <4>2
    <3>3. CASE c.outcome # "error"
      <4>1. intent'[c.intent] = Completed(intent[c.intent], c)
        BY <1>2, <3>1, <3>3 DEF Finishes
      <4>2. /\ intent'[c.intent].status = c.outcome
            /\ intent'[c.intent].attempts = intent[c.intent].attempts
        BY <1>1, <4>1, RowFields
      <4>3. QED
        BY <1>4, <2>2, <3>1, <3>3, <4>2
    <3>4. QED
      BY <3>2, <3>3
  <2>3. QED
    BY <2>1, <2>2
<1>10. QED
  BY <1>6, <1>7, <1>8, <1>9, RowParts DEF IInv

LEMMA InvariantStep == IInv /\ [Next]_vars => IInv'
<1> SUFFICES ASSUME IInv, [Next]_vars PROVE IInv'
  OBVIOUS
<1>1. TypeOK' /\ \A i \in Intents : Advances(i)
  BY TypeStep, RowsAdvance
<1>2. ASSUME NEW d \in Dispatchers, NEW seen \in SUBSET Eligible, NEW i \in seen,
             Claim(d, seen, i)
      PROVE  IInv'
  BY <1>1, <1>2, Claiming
<1>3. ASSUME NEW d \in Dispatchers, Finish(d) PROVE IInv'
  BY <1>1, <1>3, Finishing
<1>4. ASSUME NEW d \in Dispatchers, NEW outcome \in Final \cup {"error"},
             NEW late \in BOOLEAN, Render(d, outcome, late)
      PROVE  IInv'
  <2>1. call[d] \in CallType
    BY DEF IInv, TypeOK
  <2>2. /\ call'[d] = [call[d] EXCEPT !.pc = "finish", !.outcome = outcome, !.late = late]
        /\ call[d].pc = "render"
        /\ \A e \in Dispatchers : e # d => call'[e] = call[e]
    BY <1>4 DEF Render, IInv, TypeOK
  <2>3. /\ call'[d].pc = "finish" /\ call'[d].intent = call[d].intent
        /\ call'[d].attempt = call[d].attempt /\ call'[d].outcome # "none"
    BY <2>1, <2>2 DEF CallType, Final
  <2>4. QED
    BY <1>1, <2>2, <2>3, CallParts
<1>5. ASSUME NEW d \in Dispatchers, Return(d) \/ Crash(d) PROVE IInv'
  <2>1. \A e \in Dispatchers : call'[e] = call[e] \/ call'[e].pc = "idle"
    BY <1>5 DEF Return, Crash, NoCall, IInv, TypeOK
  <2>2. QED
    BY <1>1, <2>1, CallParts
<1>6. ASSUME call' = call PROVE IInv'
  BY <1>1, <1>6, CallParts
<1>7. QED
  BY <1>2, <1>3, <1>4, <1>5, <1>6
     DEF Next, DispatchSeeing, GoOn, Materialize, TimePasses, ClaimNothing, vars

LEMMA InvariantInit == Init => IInv
<1> SUFFICES ASSUME Init PROVE IInv
  OBVIOUS
<1>1. Absent \in IntentType /\ NoCall \in CallType
  BY DeliveryAssumption DEF Absent, NoCall, IntentType, CallType, Final
<1>2. /\ \A i \in Intents : intent[i] = Absent
      /\ \A d \in Dispatchers : call[d].pc = "idle"
      /\ TypeOK
  BY <1>1 DEF Init, TypeOK, NoCall
<1>3. QED
  BY <1>2 DEF IInv, RendersHaveOutcome, CallsWereClaimed, AttemptsFit, ClaimsDiffer, Busy,
              ReportIsTrue, GivenUpAtTheEnd, Absent, Final

-----------------------------------------------------------------------------
\* The theorems.

\* The invariant is inductive.
THEOREM Invariant == Spec => []IInv
BY InvariantInit, InvariantStep, PTL DEF Spec

\* No intent is ever claimed more than max_attempts times.
THEOREM TypeCorrect == Spec => []TypeOK
BY Invariant, PTL DEF IInv

\* A call that reports an outcome reports the row's outcome, for good.
THEOREM ReportsAreTrue == Spec => []ReportIsTrue
BY Invariant, PTL DEF IInv

\* Two calls in progress on one intent are different attempts.
THEOREM LeasesAreNotShared == Spec => []ClaimsDiffer
BY Invariant, PTL DEF IInv

\* Delivery is given up only after the last attempt.
THEOREM NoEarlyEnd == Spec => []GivenUpAtTheEnd
BY Invariant, PTL DEF IInv

\* A settled intent never changes again.
THEOREM OutcomesAreFinal == Spec => OutcomeIsFinal
<1>1. IInv /\ [Next]_vars =>
        [\A i \in Intents : intent[i].status \in Final => intent'[i] = intent[i]]_vars
  <2> SUFFICES ASSUME IInv, [Next]_vars, NEW i \in Intents, intent[i].status \in Final
               PROVE  intent'[i] = intent[i]
    OBVIOUS
  <2>1. Advances(i)
    BY RowsAdvance
  <2>2. QED
    BY <2>1 DEF Advances, Final
<1>2. QED
  BY <1>1, Invariant, PTL DEF Spec, OutcomeIsFinal

\* A lease is ended by the call that holds it, or by the sweep after the last
\* attempt.
THEOREM LeasesAreFenced == Spec => EndedByOwner
<1>1. IInv /\ [Next]_vars =>
        [\A i \in Intents :
           intent[i].status = "leased" /\ intent'[i].status # "leased" =>
             \/ \E d \in Dispatchers : /\ call[d].pc = "finish" /\ call'[d].pc = "return"
                                       /\ call[d].intent = i
                                       /\ call[d].attempt = intent[i].attempts
             \/ intent[i].attempts = MaxAttempts /\ intent[i].ripe]_vars
  <2> SUFFICES ASSUME IInv, [Next]_vars, NEW i \in Intents,
                      intent[i].status = "leased", intent'[i].status # "leased"
               PROVE  \/ \E d \in Dispatchers :
                            /\ call[d].pc = "finish" /\ call'[d].pc = "return"
                            /\ call[d].intent = i /\ call[d].attempt = intent[i].attempts
                      \/ intent[i].attempts = MaxAttempts /\ intent[i].ripe
    OBVIOUS
  <2>1. Advances(i)
    BY RowsAdvance
  <2>2. intent[i].attempts \in 0..MaxAttempts
    BY DEF IInv, TypeOK, IntentType
  <2>3. QED
    BY <2>1, <2>2, DeliveryAssumption DEF Advances
<1>2. QED
  BY <1>1, Invariant, PTL DEF Spec, EndedByOwner

-----------------------------------------------------------------------------
\* The delivery implements RetryQueue.

\* A step in which some intents that were taken are settled.
LEMMA SettleStep ==
  ASSUME NEW S \in SUBSET Intents,
         \A i \in S : PhaseOf(intent[i]) = "taken" /\ PhaseOf(intent'[i]) = "settled",
         \A i \in Intents \ S : PhaseOf(intent'[i]) = PhaseOf(intent[i]),
         \A i \in Intents : intent'[i].attempts = intent[i].attempts
  PROVE  Promise!Settle(S)
BY DEF Promise!Settle

\* A row that a sweep gives up was taken.
LEMMA SweptPhase ==
  ASSUME IInv, NEW i \in Intents, SweptOrSame(i), intent'[i] # intent[i]
  PROVE  /\ PhaseOf(intent[i]) = "taken" /\ PhaseOf(intent'[i]) = "settled"
         /\ intent'[i].attempts = intent[i].attempts
<1>1. /\ intent[i] \in IntentType
      /\ intent[i].status \in {"pending", "leased"} /\ intent[i].attempts >= MaxAttempts
      /\ intent'[i] = Exhausted(intent[i])
  BY DEF IInv, TypeOK, SweptOrSame
<1>2. /\ Exhausted(intent[i]).status = "not_sent"
      /\ Exhausted(intent[i]).attempts = intent[i].attempts
  BY <1>1 DEF IntentType, Exhausted
<1>3. intent[i].attempts # 0
  BY <1>1, DeliveryAssumption DEF IntentType
<1>4. QED
  BY <1>1, <1>2, <1>3 DEF PhaseOf, Final

\* Every behaviour of the delivery keeps the promise of RetryQueue.
THEOREM DeliveryKeepsPromise == Spec => KeepsPromise
<1>1. Init => Promise!RetryInit
  BY DEF Init, Promise!RetryInit, PhaseOf, Absent
<1>2. IInv /\ [Next]_vars => [Promise!RetryNext]_(Promise!retryVars)
  <2> SUFFICES ASSUME IInv, [Next]_vars
               PROVE  Promise!RetryNext \/ UNCHANGED Promise!retryVars
    OBVIOUS
  <2>1. TypeOK /\ \A i \in Intents : intent[i] \in IntentType
    BY DEF IInv, TypeOK
  <2>2. ASSUME \A i \in Intents : /\ PhaseOf(intent'[i]) = PhaseOf(intent[i])
                                  /\ intent'[i].attempts = intent[i].attempts
        PROVE  UNCHANGED Promise!retryVars
    BY <2>2 DEF Promise!retryVars
  <2>3. ASSUME NEW i \in Intents, Materialize(i) PROVE Promise!RetryNext
    <3>1. /\ intent'[i].status = "pending" /\ intent'[i].attempts = intent[i].attempts
          /\ intent[i].status = "absent" /\ intent[i].attempts = 0
          /\ \A j \in Intents : j # i => intent'[j] = intent[j]
      BY <2>1, <2>3 DEF Materialize, TypeOK, IntentType, IInv, AttemptsFit
    <3>2. Promise!Submit(i)
      BY <3>1 DEF Promise!Submit, PhaseOf, Final
    <3>3. QED
      BY <3>2 DEF Promise!RetryNext
  <2>4. ASSUME NEW i \in Intents, TimePasses(i) PROVE UNCHANGED Promise!retryVars
    <3>1. \A j \in Intents : /\ intent'[j].status = intent[j].status
                             /\ intent'[j].attempts = intent[j].attempts
      BY <2>1, <2>4 DEF TimePasses, TypeOK, IntentType
    <3>2. QED
      BY <2>2, <3>1 DEF PhaseOf
  <2>5. ASSUME NEW d \in Dispatchers, NEW seen \in SUBSET Eligible, ClaimNothing(d, seen)
        PROVE  Promise!RetryNext
    <3> DEFINE S == {i \in Intents : intent'[i] # intent[i]}
    <3>1. \A i \in Intents : SweptOrSame(i)
      BY <2>1, <2>5, SweepRows
    <3>2. Promise!Settle(S)
      BY <3>1, SweptPhase, SettleStep
    <3>3. S \in SUBSET Intents
      OBVIOUS
    <3>4. QED
      BY <3>2, <3>3 DEF Promise!RetryNext
  <2>6. ASSUME NEW d \in Dispatchers, NEW seen \in SUBSET Eligible, NEW i \in seen,
               Claim(d, seen, i)
        PROVE  Promise!RetryNext
    <3> DEFINE S == {j \in Intents : j # i /\ intent'[j] # intent[j]}
    <3>1. /\ i \in Intents /\ intent[i].attempts < MaxAttempts
          /\ intent[i].status \in {"pending", "leased"}
          /\ intent'[i] = Leased(intent[i])
          /\ \A j \in Intents : j # i => SweptOrSame(j)
      BY <2>1, <2>6, ClaimRows
    <3>2. \A j \in S : /\ PhaseOf(intent[j]) = "taken" /\ PhaseOf(intent'[j]) = "settled"
                       /\ intent'[j].attempts = intent[j].attempts
      BY <3>1, SweptPhase
    <3>3. /\ intent'[i].status = "leased" /\ intent'[i].attempts = intent[i].attempts + 1
          /\ intent'[i].attempts # 0
      BY <2>1, <3>1, DeliveryAssumption DEF Leased, IntentType
    <3>4. /\ PhaseOf(intent[i]) \in {"waiting", "taken"} /\ PhaseOf(intent'[i]) = "taken"
      BY <3>1, <3>3 DEF PhaseOf, Final
    <3>5. \A j \in Intents \ (S \cup {i}) : intent'[j] = intent[j]
      OBVIOUS
    <3>6. Promise!SettleAndTake(S, i)
      BY <3>1, <3>2, <3>3, <3>4, <3>5 DEF Promise!SettleAndTake
    <3>7. S \in SUBSET Intents
      OBVIOUS
    <3>8. QED
      BY <3>1, <3>6, <3>7 DEF Promise!RetryNext
  <2>7. ASSUME NEW d \in Dispatchers, Finish(d)
        PROVE  Promise!RetryNext \/ UNCHANGED Promise!retryVars
    <3> DEFINE i == call[d].intent
    <3>1. i \in Intents
      BY <2>7 DEF IInv, Finish, CallsWereClaimed
    <3>2. Finishes(d)
      BY <2>1, <2>7, <3>1, FinishRows
    <3>3. CASE Owned(call[d])
      <4>1. /\ intent[i].status = "leased" /\ intent[i].attempts # 0
        BY <3>1, <3>3 DEF Owned, IInv, AttemptsFit
      <4>2. /\ intent'[i].attempts = intent[i].attempts
            /\ intent'[i].status \in {"pending"} \cup Final
        <5>1. /\ call[d] \in CallType /\ intent[i] \in IntentType
              /\ call[d].outcome \in Final \cup {"error"}
          BY <2>1, <2>7, <3>1
             DEF IInv, TypeOK, Finish, CallType, RendersHaveOutcome
        <5>2. QED
          BY <3>2, <3>3, <5>1, RowFields DEF Finishes, Final
      <4>3. \A j \in Intents : j # i => intent'[j] = intent[j]
        BY <3>2 DEF Finishes
      <4>4. CASE intent'[i].status = "pending"
        <5>1. \A j \in Intents : /\ PhaseOf(intent'[j]) = PhaseOf(intent[j])
                                 /\ intent'[j].attempts = intent[j].attempts
          BY <4>1, <4>2, <4>3, <4>4 DEF PhaseOf, Final
        <5>2. QED
          BY <2>2, <5>1
      <4>5. CASE intent'[i].status \in Final
        <5>1. PhaseOf(intent[i]) = "taken" /\ PhaseOf(intent'[i]) = "settled"
          BY <4>1, <4>5 DEF PhaseOf, Final
        <5>2. /\ \A j \in Intents \ {i} : PhaseOf(intent'[j]) = PhaseOf(intent[j])
              /\ \A j \in Intents : intent'[j].attempts = intent[j].attempts
          BY <4>2, <4>3
        <5>3. {i} \in SUBSET Intents
          BY <3>1
        <5>4. Promise!Settle({i})
          BY <5>1, <5>2, <5>3, SettleStep
        <5>5. QED
          BY <5>3, <5>4 DEF Promise!RetryNext
      <4>6. QED
        BY <4>2, <4>4, <4>5
    <3>4. CASE ~Owned(call[d])
      BY <2>2, <3>2, <3>4 DEF Finishes
    <3>5. QED
      BY <3>3, <3>4
  <2>8. intent' = intent => UNCHANGED Promise!retryVars
    BY <2>2
  <2>9. QED
    BY <2>3, <2>4, <2>5, <2>6, <2>7, <2>8
       DEF Next, DispatchSeeing, GoOn, Render, Return, Crash, vars
<1>3. QED
  BY <1>1, <1>2, Invariant, PTL DEF Spec, KeepsPromise, Promise!RetrySpec
=============================================================================
