------------------------------ MODULE QuotaUnits ------------------------------
(***************************************************************************)
(* Sums of per-node shares.  A share of k requests per minute is the set   *)
(* of its k quota units, and the total of a split is the number of units   *)
(* all nodes hold together.  Counting units instead of folding an addition *)
(* lets the proofs compare totals by set inclusion.                        *)
(***************************************************************************)
EXTENDS Naturals, FiniteSets

\* The quota units held under the split f, a function from nodes to shares.
Units(f) == UNION {{n} \X (1 .. f[n]) : n \in DOMAIN f}

\* The sum of all shares of f.
Total(f) == Cardinality(Units(f))
=============================================================================
