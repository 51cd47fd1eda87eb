--------------------------- MODULE ProportionalSplit ---------------------------
(***************************************************************************)
(* proportionalSplit of internal/coordinator/peer.go: total is divided in  *)
(* proportion to the weights, and what rounding down leaves goes, one unit *)
(* each, to the largest remainders.  Nodes with equal remainders rank by   *)
(* id: sort.Slice keeps the order of up to twelve elements with equal keys.*)
(* The code's floating-point quotients are modelled by exact fractions     *)
(* over the common denominator Total(w); they are far from float64's       *)
(* precision for the weights and limits the program handles.               *)
(***************************************************************************)
EXTENDS Integers, FiniteSets, QuotaUnits

\* evenWeights
EvenWeights(w) == [n \in DOMAIN w |-> 1]

\* The weights as used: all zero means an even split.
Effective(w) == IF Total(w) = 0 THEN EvenWeights(w) ELSE w

Floors(total, w) == [n \in DOMAIN w |-> (total * w[n]) \div Total(w)]
Remainder(total, w, n) == (total * w[n]) % Total(w)

\* The nodes that come before n when rems is sorted.
Ahead(total, w, n) ==
    {k \in DOMAIN w : \/ Remainder(total, w, k) > Remainder(total, w, n)
                      \/ Remainder(total, w, k) = Remainder(total, w, n) /\ k < n}

\* Mutant of LargestRemainder: what rounding leaves is not given out.
RoundedDown(total, w) == Floors(total, w)

LargestRemainder(total, w) ==
    LET floors == Floors(total, w)
        leftover == total - Total(floors)
    IN  [n \in DOMAIN w |->
            floors[n] + IF Cardinality(Ahead(total, w, n)) < leftover THEN 1 ELSE 0]

Split(total, w) == LargestRemainder(total, Effective(w))
=============================================================================
