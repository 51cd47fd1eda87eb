----------------------------- MODULE FiniteOrders -----------------------------
(***************************************************************************)
(* Facts about finite sets that the proofs need and the library has not:   *)
(* extreme elements, and how many marks that are set apart fit in a span.  *)
(*                                                                         *)
(* Where an induction over a finite set is needed it is by minimal         *)
(* counterexample: the subsets that lack the property, if any, have one    *)
(* with no smaller among them (WFMin).                                     *)
(***************************************************************************)
EXTENDS Integers, FiniteSets, Functions, FiniteSetTheorems, TLAPS

\* A finite, non-empty set of integers has a largest element.
LEMMA LargestInt ==
    ASSUME NEW S \in SUBSET Int, IsFiniteSet(S), S # {}
    PROVE  \E m \in S : \A k \in S : k <= m
<1> DEFINE Bad == {U \in FiniteSubsetsOf(S) : U # {} /\ ~ \E m \in U : \A k \in U : k <= m}
<1>1. SUFFICES ASSUME Bad # {} PROVE FALSE
    <2>1. S \in FiniteSubsetsOf(S)
        BY DEF FiniteSubsetsOf
    <2> QED BY <2>1, <1>1
<1>2. PICK U \in Bad : \A V \in Bad : ~(<<V, U>> \in StrictSubsetOrdering(S))
    <2>1. Bad \subseteq FiniteSubsetsOf(S)
        OBVIOUS
    <2>2. IsWellFoundedOn(StrictSubsetOrdering(S), FiniteSubsetsOf(S))
        BY FS_StrictSubsetOrderingWellFounded
    <2> HIDE DEF Bad
    <2> QED BY <1>1, <2>1, <2>2, WFMin
<1>3. PICK x : x \in U
    BY <1>2
<1> DEFINE V == U \ {x}
<1>4. V \in FiniteSubsetsOf(S) /\ <<V, U>> \in StrictSubsetOrdering(S)
    BY <1>2, <1>3, FS_RemoveElement DEF FiniteSubsetsOf, StrictSubsetOrdering
<1>5. V \notin Bad
    BY <1>2, <1>4
<1>6. CASE V = {}
    BY <1>2, <1>3, <1>6 DEF FiniteSubsetsOf
<1>7. CASE V # {}
    <2>1. PICK m \in V : \A k \in V : k <= m
        BY <1>4, <1>5, <1>7
    <2> QED BY <1>2, <1>3, <2>1 DEF FiniteSubsetsOf
<1> QED BY <1>6, <1>7

\* And a smallest one.
LEMMA SmallestInt ==
    ASSUME NEW S \in SUBSET Int, IsFiniteSet(S), S # {}
    PROVE  \E m \in S : \A k \in S : m <= k
<1> DEFINE T == {k \in Int : -k \in S}
           f == [k \in T |-> -k]
<1>1. T \in SUBSET Int /\ T # {}
    <2>1. PICK k \in S : TRUE
        OBVIOUS
    <2>2. k \in Int /\ -k \in Int /\ -(-k) = k
        OBVIOUS
    <2> QED BY <2>2
<1>2. f \in Injection(T, S)
    <2>1. f \in [T -> S]
        OBVIOUS
    <2>2. \A a, b \in T : f[a] = f[b] => a = b
        OBVIOUS
    <2> HIDE DEF f, T
    <2> QED BY <2>1, <2>2 DEF Injection, IsInjective
<1>3. IsFiniteSet(T)
    BY <1>2, FS_Injection
<1>4. PICK m \in T : \A k \in T : k <= m
    BY <1>1, <1>3, LargestInt
<1>5. \A k \in S : -m <= k
    <2> TAKE k \in S
    <2>1. k \in Int /\ -k \in Int /\ -(-k) = k
        OBVIOUS
    <2>2. -k \in T
        BY <2>1
    <2>3. -k <= m /\ m \in Int
        BY <1>4, <2>2
    <2> QED BY <2>1, <2>3
<1> QED BY <1>4, <1>5

\* What a quotient says of the number.
LEMMA DivStep ==
    ASSUME NEW x \in Nat, NEW e \in Nat \ {0}
    PROVE  /\ x \div e \in Nat
           /\ e * (x \div e) <= x /\ x < e * (x \div e) + e
<1>1. x = e * (x \div e) + (x % e) /\ x % e \in 0 .. e - 1 /\ x \div e \in Nat
    OBVIOUS
<1>2. e * (x \div e) \in Nat
    BY <1>1
<1> QED BY <1>1, <1>2

\* What is worth gap or more apart has different quotients, and what is less
\* than m gaps has a quotient below m.
LEMMA DivApart ==
    ASSUME NEW x \in Nat, NEW y \in Nat, NEW e \in Nat \ {0}, x + e <= y
    PROVE  x \div e # y \div e
<1> DEFINE a == x \div e
           b == y \div e
<1>1. a \in Nat /\ b \in Nat /\ e * a <= x /\ x < e * a + e /\ e * b <= y /\ y < e * b + e
    BY DivStep
<1>2. e * a \in Nat
    BY <1>1
<1> HIDE DEF a, b
<1>3. a # b
    BY <1>1, <1>2
<1> QED BY <1>3 DEF a, b

LEMMA DivBelow ==
    ASSUME NEW x \in Nat, NEW e \in Nat \ {0}, NEW m \in Nat, x < m * e
    PROVE  x \div e \in 0 .. m - 1
<1> DEFINE a == x \div e
<1>1. a \in Nat /\ e * a <= x
    BY DivStep
<1> HIDE DEF a
<1>2. ASSUME a >= m PROVE FALSE
    <2>1. PICK d \in Nat : a = m + d
        BY <1>1, <1>2
    <2>2. e * a = m * e + e * d /\ m * e \in Nat /\ e * d \in Nat /\ e * a \in Nat
        BY <2>1
    <2> QED BY <1>1, <2>2
<1>3. a \in 0 .. m - 1
    BY <1>1, <1>2
<1> QED BY <1>3 DEF a

\* What is less than e later is in the same unit or the next.
LEMMA DivNext ==
    ASSUME NEW x \in Nat, NEW y \in Nat, NEW e \in Nat \ {0}
    PROVE  /\ x < y + e => x \div e <= y \div e + 1
           /\ x <= y => x \div e <= y \div e
<1> DEFINE a == x \div e
           b == y \div e
<1>1. a \in Nat /\ b \in Nat /\ e * a <= x /\ x < e * a + e /\ e * b <= y /\ y < e * b + e
    BY DivStep
<1> HIDE DEF a, b
<1>2. ASSUME x < y + e, a > b + 1 PROVE FALSE
    <2>1. PICK d \in Nat : a = b + 2 + d
        BY <1>1, <1>2
    <2>2. e * a = e * b + e + e + e * d /\ e * d \in Nat /\ e * b \in Nat
        BY <1>1, <2>1
    <2>3. e * a \in Nat /\ e * a >= e * b + e + e
        BY <2>2
    <2> QED BY <1>1, <1>2, <2>2, <2>3
<1>3. ASSUME x <= y, a > b PROVE FALSE
    <2>1. PICK d \in Nat : a = b + 1 + d
        BY <1>1, <1>3
    <2>2. e * a = e * b + e + e * d /\ e * d \in Nat /\ e * b \in Nat
        BY <1>1, <2>1
    <2> QED BY <1>1, <1>3, <2>2
<1>4. (x < y + e => a <= b + 1) /\ (x <= y => a <= b)
    BY <1>1, <1>2, <1>3
<1> QED BY <1>4 DEF a, b

\* Each element of S has a place and a mark there.  Where two marks of one place
\* are a gap or more apart, and less than m gaps, S has no more than m elements
\* for each place.
LEMMA MarksApart ==
    ASSUME NEW S, IsFiniteSet(S), NEW Places, IsFiniteSet(Places),
           NEW gap \in Nat \ {0}, NEW m \in Nat \ {0},
           NEW place \in [S -> Places], NEW mark \in [S -> Nat],
           \A i, j \in S : i # j /\ place[i] = place[j] =>
               /\ mark[i] + gap <= mark[j] \/ mark[j] + gap <= mark[i]
               /\ mark[i] - mark[j] < m * gap
    PROVE  Cardinality(S) <= m * Cardinality(Places)
<1> DEFINE Marks(p) == {mark[i] : i \in {j \in S : place[j] = p}}
           Least(p) == CHOOSE k \in Marks(p) : \A l \in Marks(p) : k <= l
           least == [p \in Places |-> Least(p)]
           slot == [i \in S |-> <<place[i], (mark[i] - least[place[i]]) \div gap>>]
<1>1. ASSUME NEW i \in S
      PROVE  \E j \in S : /\ place[j] = place[i] /\ least[place[i]] = mark[j]
                          /\ least[place[i]] <= mark[i]
    <2> DEFINE M == Marks(place[i])
    <2>1. mark[i] \in M /\ M \subseteq Nat
        OBVIOUS
    <2>2. IsFiniteSet(M)
        <3> DEFINE T == {j \in S : place[j] = place[i]}
                   f == [j \in T |-> mark[j]]
        <3>1. IsFiniteSet(T)
            BY FS_Subset
        <3>2. f \in Surjection(T, M)
            BY DEF Surjection
        <3> HIDE DEF T, f, M
        <3> QED BY <3>1, <3>2, FS_Surjection
    <2>3. \E k \in M : \A l \in M : k <= l
        <3> HIDE DEF M
        <3> QED BY <2>1, <2>2, SmallestInt
    <2>4. Least(place[i]) \in M /\ \A l \in M : Least(place[i]) <= l
        <3> HIDE DEF Marks
        <3> QED BY <2>3
    <2>5. least[place[i]] = Least(place[i])
        OBVIOUS
    <2> HIDE DEF least, Least
    <2> QED BY <2>1, <2>4, <2>5
<1>2. ASSUME NEW i \in S
      PROVE  /\ mark[i] - least[place[i]] \in Nat
             /\ mark[i] - least[place[i]] < m * gap
    <2>1. PICK j \in S : /\ place[j] = place[i] /\ least[place[i]] = mark[j]
                         /\ least[place[i]] <= mark[i]
        BY <1>1
    <2> HIDE DEF least
    <2>2. m * gap \in Nat /\ 0 < m * gap
        OBVIOUS
    <2>3. CASE i = j
        BY <2>1, <2>2, <2>3
    <2>4. CASE i # j
        BY <2>1, <2>4
    <2> QED BY <2>3, <2>4
<1> HIDE DEF least
<1>3. slot \in Injection(S, Places \X (0 .. m - 1))
    <2>1. \A i \in S : slot[i] \in Places \X (0 .. m - 1)
        BY <1>2, DivBelow
    <2>2. ASSUME NEW i \in S, NEW j \in S, slot[i] = slot[j], i # j PROVE FALSE
        <3>1. place[i] = place[j]
              /\ (mark[i] - least[place[i]]) \div gap = (mark[j] - least[place[i]]) \div gap
            BY <2>2
        <3> DEFINE x == mark[i] - least[place[i]]
                   y == mark[j] - least[place[i]]
        <3>2. x \in Nat /\ y \in Nat
            BY <1>2, <3>1
        <3>3. x + gap <= y \/ y + gap <= x
            <4>1. PICK l \in Nat : least[place[i]] = l
                BY <1>1
            <4>2. mark[i] + gap <= mark[j] \/ mark[j] + gap <= mark[i]
                BY <2>2, <3>1
            <4> QED BY <4>1, <4>2
        <3> HIDE DEF x, y
        <3>4. x \div gap # y \div gap
            BY <3>2, <3>3, DivApart
        <3> QED BY <3>1, <3>4 DEF x, y
    <2>3. slot \in [S -> Places \X (0 .. m - 1)]
        BY <2>1
    <2> HIDE DEF slot
    <2> QED BY <2>2, <2>3 DEF Injection, IsInjective
<1>4. IsFiniteSet(0 .. m - 1) /\ Cardinality(0 .. m - 1) = m
    BY FS_Interval
<1>5. /\ IsFiniteSet(Places \X (0 .. m - 1))
      /\ Cardinality(Places \X (0 .. m - 1)) = Cardinality(Places) * m
    BY <1>4, FS_Product
<1>6. Cardinality(S) <= Cardinality(Places) * m
    <2> HIDE DEF slot
    <2> QED BY <1>3, <1>5, FS_Injection
<1> QED BY <1>6, FS_CardinalityType
===============================================================================
