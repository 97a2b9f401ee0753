------------------------------ MODULE Gateway ------------------------------
(***************************************************************************)
(* What the terminal gateway promises a till about its idempotency keys:   *)
(* a request is executed at most once under its key, and an authorized     *)
(* redemption is ended once, by a capture or by a void.  TerminalSales     *)
(* implements this specification; Checkout is a till that relies on it.    *)
(***************************************************************************)
CONSTANT Keys   \* idempotency keys

VARIABLE txn    \* what has become of the request under each key

States == {"none", "authorized", "captured", "voided", "earned"}

Init == txn = [k \in Keys |-> "none"]

Moves(k, from, to) == txn[k] = from /\ txn' = [txn EXCEPT ![k] = to]

Earn(k)      == Moves(k, "none", "earned")
Authorize(k) == Moves(k, "none", "authorized")
Capture(k)   == Moves(k, "authorized", "captured")
Void(k)      == Moves(k, "authorized", "voided")

Next == \E k \in Keys : Earn(k) \/ Authorize(k) \/ Capture(k) \/ Void(k)

Spec == Init /\ [][Next]_txn
=============================================================================
