-------------------------------- MODULE Sums --------------------------------
(* Sums of natural numbers, counted rather than folded: a definition without *)
(* recursion, about which the provers can reason (Accounting_proofs).        *)
EXTENDS Integers, FiniteSets

\* The sum of the values of f: the points below its graph.
SumOf(f) == Cardinality(UNION {{t} \X (1..f[t]) : t \in DOMAIN f})
=============================================================================
