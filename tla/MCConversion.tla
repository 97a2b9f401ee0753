---------------------------- MODULE MCConversion ----------------------------
(* Members of one merchant convert points, one and a half partner points each.   *)
EXTENDS Conversion, TLC

Symmetry ==
  Permutations(Keys) \cup Permutations(Sessions) \cup Permutations(Members) \cup
  Permutations(Reviews)
=============================================================================
