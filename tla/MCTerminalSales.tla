-------------------------- MODULE MCTerminalSales --------------------------
(***************************************************************************)
(* One or two members at the tills: sales that earn, redeem, capture and   *)
(* void in any order, and rewards that are held, used online or cancelled. *)
(***************************************************************************)
EXTENDS TerminalSales, TLC

CONSTANTS m1, m2, v1, v2

\* Every voucher is the first member's; a second member shares the tills.
MCOwner == [v \in Vouchers |-> m1]

Symmetry == Permutations(Sales) \cup Permutations(Vouchers) \cup Permutations(Calls)
=============================================================================
