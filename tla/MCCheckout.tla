----------------------------- MODULE MCCheckout -----------------------------
(* Two payments of one till, both of its replaying coroutines.              *)
EXTENDS Checkout, TLC
=============================================================================
