--------------------------- MODULE PointsAccount ---------------------------
(***************************************************************************)
(* What the points ledger promises a brand, without saying how: each       *)
(* member has points available and points held, every request takes        *)
(* effect at most once, in one step, and never takes more than there is.   *)
(* docs/01-architecture.md section 3 states these promises;                *)
(* PointsLedger is shown to implement them.                                *)
(***************************************************************************)
EXTENDS Integers

CONSTANTS Members,  \* customers of one brand
          Keys,     \* idempotency keys, one per request ever made
          Amounts   \* points one request may move, all positive

VARIABLES available,  \* points a member may spend
          held,       \* points reserved by a redemption in progress
          done        \* requests that have taken effect

vars == <<available, held, done>>

Init ==
  /\ available = [m \in Members |-> 0]
  /\ held = [m \in Members |-> 0]
  /\ done = {}

\* Request k takes effect now, and never again.
Once(k) == k \notin done /\ done' = done \cup {k}

Grant(k, m, n) ==
  /\ Once(k)
  /\ available' = [available EXCEPT ![m] = @ + n]
  /\ UNCHANGED held

Take(k, m, n) ==
  /\ Once(k)
  /\ available[m] >= n
  /\ available' = [available EXCEPT ![m] = @ - n]
  /\ UNCHANGED held

Reserve(k, m, n) ==
  /\ Once(k)
  /\ available[m] >= n
  /\ available' = [available EXCEPT ![m] = @ - n]
  /\ held' = [held EXCEPT ![m] = @ + n]

Spend(k, m, n) ==
  /\ Once(k)
  /\ held[m] >= n
  /\ held' = [held EXCEPT ![m] = @ - n]
  /\ UNCHANGED available

GiveBack(k, m, n) ==
  /\ Once(k)
  /\ held[m] >= n
  /\ available' = [available EXCEPT ![m] = @ + n]
  /\ held' = [held EXCEPT ![m] = @ - n]

\* A claw-back from a member who has nothing: answered, nothing moved.
Nothing(k) == Once(k) /\ UNCHANGED <<available, held>>

Next ==
  \E k \in Keys :
    \/ Nothing(k)
    \/ \E m \in Members, n \in Amounts :
         \/ Grant(k, m, n)
         \/ Take(k, m, n)
         \/ Reserve(k, m, n)
         \/ Spend(k, m, n)
         \/ GiveBack(k, m, n)

Spec == Init /\ [][Next]_vars
=============================================================================
