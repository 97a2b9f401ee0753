--------------------------- MODULE MCPointsLedger ---------------------------
(***************************************************************************)
(* A small brand: the requests that compete for one member's points, among *)
(* them claw-backs and redemptions larger than what is left by then.       *)
(***************************************************************************)
EXTENDS PointsLedger, TLC

Request(op, m, n) == [op |-> op, member |-> m, points |-> n]

MCRequests == UNION {
  { Request("earn", m, 2), Request("load", m, 1), Request("spend", m, 1),
    Request("adjust", m, -2), Request("adjust", m, 1),
    Request("redeem_auth", m, 1), Request("redeem_capture", m, 1),
    Request("void", m, 1) } : m \in Members }

Symmetry == Permutations(Keys) \cup Permutations(Sessions)
=============================================================================
