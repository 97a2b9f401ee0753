--------------------------- MODULE MCOutboxRelay ---------------------------
(* One sale, which customers are told of, and one approved change, which    *)
(* only webhooks are.                                                       *)
EXTENDS OutboxRelay

CONSTANTS sold, approved
=============================================================================
