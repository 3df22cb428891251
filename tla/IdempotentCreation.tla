-------------------------- MODULE IdempotentCreation --------------------------
(***************************************************************************)
(* What POST /runs promises to a client that sends an Idempotency-Key, with*)
(* handlers, locks, transactions, limits and lost answers left out: the    *)
(* first request with a key that gets through creates a run, every later   *)
(* 201 to that key names the same run and goes to the same body, and a run *)
(* created once is the key's for good.  RunAdmission implements this.      *)
(***************************************************************************)
CONSTANTS Requests,   \* those with a key
          Runs        \* ids of runs

VARIABLES made,   \* <<request, run>> of every run created under a key
          told    \* <<request, run>> of every 201

creationVars == <<made, told>>

OfKey(p, q)  == p.key = q.key /\ p.analyst = q.analyst
OfBody(p, q) == p.issuer = q.issuer /\ p.body = q.body

CreationInit == made = {} /\ told = {}

\* A run for a key that has none.  Its answer may be lost.
Create(q, run) ==
  /\ \A m \in made : ~OfKey(m[1], q) /\ m[2] # run
  /\ made' = made \cup {<<q, run>>}
  /\ told' \in {told, told \cup {<<q, run>>}}

\* The request is sent again and answered with the run of its key.
Again(q, run) ==
  /\ \E m \in made : OfKey(m[1], q) /\ OfBody(m[1], q) /\ m[2] = run
  /\ told' = told \cup {<<q, run>>}
  /\ UNCHANGED made

CreationNext == \E q \in Requests, run \in Runs : Create(q, run) \/ Again(q, run)

CreationSpec == CreationInit /\ [][CreationNext]_creationVars
=============================================================================
