---------------------------- MODULE MCSettlement ----------------------------
(* Two sales of different size, a free rule and one whose margin rounds.    *)
EXTENDS Settlement, TLC

CONSTANTS big, small

MCPoints == (big :> 2) @@ (small :> 1)

MCRules == {[cpp |-> 0, bps |-> 0], [cpp |-> 1, bps |-> 5000]}
=============================================================================
