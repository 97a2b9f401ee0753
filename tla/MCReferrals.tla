---------------------------- MODULE MCReferrals ----------------------------
(* Three members of a brand, three codes, two transactions at once.         *)
EXTENDS Referrals, TLC

Symmetry == Permutations(Members) \cup Permutations(Codes) \cup Permutations(Calls)
=============================================================================
