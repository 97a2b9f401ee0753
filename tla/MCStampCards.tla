---------------------------- MODULE MCStampCards ----------------------------
(* Three sales at two tills, one of them no visit; a stamp card, a          *)
(* repeatable challenge of spend that one sale fills twice, and a one-off   *)
(* challenge of lifetime points that awards the badge of the stamp card too. *)
EXTENDS StampCards, TLC

Symmetry == Permutations(Calls)

MCChallenges == {"stamps", "spend", "loyal"}
MCKind == ("stamps" :> "visits") @@ ("spend" :> "spend") @@ ("loyal" :> "lifetime_points")
MCRepeatable == ("stamps" :> TRUE) @@ ("spend" :> TRUE) @@ ("loyal" :> FALSE)
MCTarget == ("stamps" :> 2) @@ ("spend" :> 2) @@ ("loyal" :> 3)
MCRewardPoints == ("stamps" :> 1) @@ ("spend" :> 2) @@ ("loyal" :> 3)
MCBadgeOf == ("stamps" :> "gold") @@ ("spend" :> "none") @@ ("loyal" :> "gold")
MCBadgePoints == ("gold" :> 5)
MCVisits == {"v1", "v2", "v3"}
MCTill == ("v1" :> "t1") @@ ("v2" :> "t2") @@ ("v3" :> "t1")
MCIsVisit == [v \in MCVisits |-> v # "v3"]
MCAmount == ("v1" :> 1) @@ ("v2" :> 5) @@ ("v3" :> 1)
=============================================================================
