----------------------------- MODULE LimiterProofs -----------------------------
(***************************************************************************)
(* Theorems about module Limiter, for every quota, period, burst and       *)
(* number of goroutines: the window bound, and that one stored time        *)
(* implements the pace promised of all the requests admitted.              *)
(***************************************************************************)
EXTENDS Limiter, GcraTheorems, FiniteSetTheorems, TLAPS

-----------------------------------------------------------------------------
\* Arithmetic

\* Numbers less than m apart have different remainders.
LEMMA ModDistinct ==
    ASSUME NEW m \in Nat \ {0}, NEW i \in Nat, NEW j \in Nat, i < j, j - i < m
    PROVE  i % m # j % m
<1> SUFFICES ASSUME i % m = j % m PROVE FALSE
    OBVIOUS
<1> DEFINE a == i \div m
           b == j \div m
<1>1. a \in Int /\ b \in Int /\ i = m * a + (i % m) /\ j = m * b + (j % m)
    OBVIOUS
<1>2. j - i = m * (b - a)
    BY <1>1
<1> HIDE DEF a, b
<1>3. CASE b - a >= 1
    <2>1. m * (b - a) >= m
        BY <1>1, <1>3
    <2> QED BY <2>1, <1>2
<1>4. CASE b - a <= 0
    <2>1. m * (b - a) <= 0
        BY <1>1, <1>4
    <2> QED BY <2>1, <1>2
<1> QED BY <1>1, <1>3, <1>4

\* A set of numbers less than m apart has at most m elements.
LEMMA CloseTogether ==
    ASSUME NEW m \in Nat \ {0}, NEW W \in SUBSET Nat,
           \A i, j \in W : i < j => j - i < m
    PROVE  Cardinality(W) <= m
<1> DEFINE f == [i \in W |-> i % m]
<1>1. f \in Injection(W, 0 .. m - 1)
    <2>1. f \in [W -> 0 .. m - 1]
        OBVIOUS
    <2>2. ASSUME NEW i \in W, NEW j \in W, f[i] = f[j], i # j PROVE FALSE
        <3>1. i % m = j % m /\ i \in Nat /\ j \in Nat
            BY <2>2
        <3>2. i < j \/ j < i
            BY <2>2, <3>1
        <3> QED BY <3>1, <3>2, ModDistinct
    <2> QED BY <2>1, <2>2 DEF Injection, IsInjective
<1>2. IsFiniteSet(0 .. m - 1) /\ Cardinality(0 .. m - 1) = m
    BY FS_Interval
<1> HIDE DEF f
<1> QED BY <1>1, <1>2, FS_Injection

LEMMA Constants ==
    /\ Emission \in Nat \ {0} /\ Burst \in Nat
    /\ Quota * Emission >= Period
BY CeilEmissionCovers, ParamsAssumption DEF Emission

-----------------------------------------------------------------------------
\* The inductive invariant: the stored time stands for all that was admitted.
Inv == TypeOK /\ StandsFor(tat, admitted, Emission, Burst)

LEMMA InitInv == Init => Inv
<1> SUFFICES ASSUME Init PROVE Inv
    OBVIOUS
<1> USE ParamsAssumption
<1>1. TypeOK
    BY DEF Init, TypeOK
<1>2. StandsFor(tat, admitted, Emission, Burst)
    BY DEF Init, StandsFor, Paid, Tight, Spaced
<1> QED BY <1>1, <1>2 DEF Inv

LEMMA AllowAtInv ==
    ASSUME Inv, NEW w \in Workers, AllowAt(w)
    PROVE  Inv'
<1> DEFINE now == arrival[w]
           d == Decide(tat, now, Emission, Burst)
<1>1. now \in Nat \ {0} /\ tat \in Nat /\ admitted \in Seq(Nat)
    BY DEF AllowAt, Inv, TypeOK
<1>2. /\ tat' = d.tat
      /\ admitted' = IF d.allowed THEN Append(admitted, now) ELSE admitted
      /\ answer' = [at |-> now, allowed |-> d.allowed,
                    remaining |-> d.remaining, retryAfter |-> d.retryAfter]
      /\ arrival' = [arrival EXCEPT ![w] = 0]
      /\ clock' = clock
    BY DEF AllowAt
<1> HIDE DEF now
<1>a. Answers(d, tat, now, Emission, Burst)
    BY <1>1, Constants, DecideAnswers
<1> HIDE DEF d
<1>3. /\ d.tat \in Nat /\ d.remaining \in 0 .. Burst /\ d.retryAfter \in Nat
      /\ d.allowed \in BOOLEAN
      /\ d.allowed <=> now >= Earliest(tat, Emission, Burst)
      /\ d.allowed => d.tat = Charged(tat, now, Emission)
      /\ ~d.allowed => d.tat = tat
    BY <1>a, Zenon DEF Answers
<1>4. TypeOK'
    BY <1>1, <1>2, <1>3 DEF Inv, TypeOK
<1>5. StandsFor(tat, admitted, Emission, Burst)'
    <2>1. CASE d.allowed
        <3>1. StandsFor(d.tat, Append(admitted, now), Emission, Burst)
            BY <1>1, <1>a, <2>1, Constants, DecisionPaces DEF Inv
        <3> QED BY <1>2, <2>1, <3>1, Zenon
    <2>2. CASE ~d.allowed
        BY <1>2, <1>3, <2>2, Zenon DEF Inv
    <2> QED BY <2>1, <2>2
<1> QED BY <1>4, <1>5 DEF Inv

LEMMA NextInv == Inv /\ [Next]_vars => Inv'
<1> SUFFICES ASSUME Inv, [Next]_vars PROVE Inv'
    OBVIOUS
<1>1. CASE UNCHANGED vars
    BY <1>1 DEF vars, Inv, TypeOK
<1>2. CASE PassTime
    BY <1>2, TimeAssumption DEF PassTime, Inv, TypeOK
<1>3. ASSUME NEW w \in Workers, Arrive(w) PROVE Inv'
    BY <1>3 DEF Arrive, Inv, TypeOK
<1>4. ASSUME NEW w \in Workers, AllowAt(w) PROVE Inv'
    BY <1>4, AllowAtInv
<1> QED BY <1>1, <1>2, <1>3, <1>4 DEF Next

\* Type correctness, for any goroutines and parameters.
THEOREM LimiterTypeCorrect == Spec => []TypeOK
<1>1. Spec => []Inv
    BY InitInv, NextInv, PTL DEF Spec
<1> QED BY <1>1, PTL DEF Inv

-----------------------------------------------------------------------------
\* The window bound

\* Admissions that lie Quota plus Burst apart in the log lie a Period apart in
\* time, so those of one window are close together in the log.
LEMMA SpacedBound == TypeOK /\ Spaced(admitted, Emission, Burst) => WindowBound
<1> SUFFICES ASSUME TypeOK, Spaced(admitted, Emission, Burst), NEW i \in DOMAIN admitted
             PROVE  Cardinality({j \in DOMAIN admitted :
                        admitted[i] - Period < admitted[j] /\ admitted[j] <= admitted[i]})
                    <= Quota + Burst
    BY DEF WindowBound
<1> DEFINE W == {j \in DOMAIN admitted :
                    admitted[i] - Period < admitted[j] /\ admitted[j] <= admitted[i]}
<1> USE ParamsAssumption
<1>1. /\ DOMAIN admitted \subseteq Nat
      /\ \A j \in DOMAIN admitted : admitted[j] \in Nat
    BY DEF TypeOK
<1>2. ASSUME NEW j \in W, NEW k \in W, j < k PROVE k - j < Quota + Burst
    <2>1. admitted[k] - admitted[j] < Period
        BY <1>1
    <2>2. admitted[k] - admitted[j] >= (k - j - Burst) * Emission
        BY <1>2 DEF Spaced
    <2> DEFINE m == k - j - Burst
    <2>3. m \in Int
        BY <1>1
    <2> HIDE DEF m
    <2>4. ASSUME m >= Quota PROVE FALSE
        <3>1. m * Emission >= Quota * Emission
            BY <2>3, <2>4, Constants
        <3>2. m * Emission \in Int /\ Quota * Emission \in Int
            BY <2>3, Constants
        <3> QED BY <1>1, <2>1, <2>2, <3>1, <3>2, Constants DEF m
    <2> QED BY <1>1, <2>3, <2>4 DEF m
<1>3. W \in SUBSET Nat /\ Quota + Burst \in Nat \ {0}
    BY <1>1
<1> HIDE DEF W
<1>4. Cardinality(W) <= Quota + Burst
    BY <1>2, <1>3, CloseTogether
<1> QED BY <1>4 DEF W

\* In no window of one Period are more than Quota plus Burst requests
\* admitted, in whatever order the goroutines reach the lock.
THEOREM WindowSafe == Spec => []WindowBound
<1>1. Spec => []Inv
    BY InitInv, NextInv, PTL DEF Spec
<1>2. Inv => WindowBound
    BY SpacedBound DEF Inv, StandsFor
<1> QED BY <1>1, <1>2, PTL

-----------------------------------------------------------------------------
\* The refinement

\* A decision under the lock is a decision by the promised pace.
LEMMA AllowAtPaces ==
    ASSUME Inv, Inv', NEW w \in Workers, AllowAt(w)
    PROVE  Pace!PacingNext
<1> DEFINE now == arrival[w]
           d == Decide(tat, now, Emission, Burst)
<1>1. now \in Nat \ {0} /\ tat \in Nat /\ admitted \in Seq(Nat)
    BY DEF AllowAt, Inv, TypeOK
<1>2. /\ admitted' = IF d.allowed THEN Append(admitted, now) ELSE admitted
      /\ answer'.at = now /\ answer'.allowed = d.allowed
      /\ answer'.remaining = d.remaining /\ answer'.retryAfter = d.retryAfter
    BY DEF AllowAt
<1>3. answer' \in Pace!Answers
    BY DEF Inv, TypeOK, Pace!Answers
<1> HIDE DEF now
<1>4. Answers(d, tat, now, Emission, Burst)
    BY <1>1, Constants, DecideAnswers
<1> HIDE DEF d
<1>5. \A log, s, k : Pace!Room(log, s, k) <=> RoomFor(log, s, k, Emission, Burst)
    BY DEF Pace!Room, RoomFor
<1>6. CASE d.allowed
    <2>1. /\ RoomFor(admitted, now, 1, Emission, Burst)
          /\ \A k \in 1 .. Burst + 1 :
                RoomFor(Append(admitted, now), now, k, Emission, Burst) <=> k <= d.remaining
        BY <1>1, <1>4, <1>6, Constants, DecisionPaces DEF Inv
    <2> QED BY <1>2, <1>3, <1>5, <1>6, <2>1, Zenon DEF Pace!PacingNext, Pace!Admit
<1>7. CASE ~d.allowed
    <2>1. /\ ~RoomFor(admitted, now, 1, Emission, Burst)
          /\ RoomFor(admitted, now + d.retryAfter, 1, Emission, Burst)
          /\ ~RoomFor(admitted, now + d.retryAfter - 1, 1, Emission, Burst)
        BY <1>1, <1>4, <1>7, Constants, DecisionPaces DEF Inv
    <2> QED BY <1>2, <1>3, <1>5, <1>7, <2>1, Zenon DEF Pace!PacingNext, Pace!TurnAway
<1> QED BY <1>6, <1>7

\* The limiter implements the promise made of the requests it has admitted:
\* it keeps the pace, turns no request away that could be afforded, and its
\* Remaining and RetryAfter are exact.
THEOREM LimiterKeepsPace == Spec => KeepsPace
<1>1. Init => Pace!PacingInit
    BY DEF Init, Pace!PacingInit
<1>2. Inv /\ Inv' /\ [Next]_vars => [Pace!PacingNext]_Pace!pacingVars
    <2> SUFFICES ASSUME Inv, Inv', [Next]_vars
                 PROVE  Pace!PacingNext \/ UNCHANGED <<admitted, answer>>
        BY DEF Pace!pacingVars
    <2>1. ASSUME NEW w \in Workers, AllowAt(w) PROVE Pace!PacingNext
        BY <2>1, AllowAtPaces
    <2>2. CASE UNCHANGED vars \/ PassTime \/ \E w \in Workers : Arrive(w)
        BY <2>2 DEF vars, PassTime, Arrive
    <2> QED BY <2>1, <2>2 DEF Next
<1>3. Spec => []Inv
    BY InitInv, NextInv, PTL DEF Spec
<1> QED BY <1>1, <1>2, <1>3, PTL DEF Spec, KeepsPace, Pace!PacingSpec
=============================================================================
