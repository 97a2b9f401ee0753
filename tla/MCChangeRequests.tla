-------------------------- MODULE MCChangeRequests --------------------------
(* Two requests, reviewed by two consoles; an entity in use and a new one.   *)
EXTENDS ChangeRequests, TLC

CONSTANTS r1, r2, a, b

MCChanges == {[action |-> "create", entity |-> NoEntity],
              [action |-> "update", entity |-> "e1"], [action |-> "delete", entity |-> "e1"]}

Symmetry == Permutations({r1, r2}) \cup Permutations({a, b})
=============================================================================
