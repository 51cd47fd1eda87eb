--------------------------- MODULE PeerDemandProofs ---------------------------
(***************************************************************************)
(* The demand-driven rebalancer is a rebalancer: what proportionalSplit    *)
(* returns is a split of the whole limit over the nodes polled, for every  *)
(* number of nodes, demand and limit, so whatever PeerRebalanceProofs says *)
(* of any round holds of the rounds the demand asks for.                   *)
(*                                                                         *)
(*   SplitExact        a split gives out the limit, to the unit            *)
(*   DemandRebalances  DemandSpec => RebalancesOnly                        *)
(*   DemandSafe        DemandSpec => []SharesWithinReserve, as QuotaSafe   *)
(***************************************************************************)
EXTENDS PeerDemand, PeerRebalanceProofs

-----------------------------------------------------------------------------
\* Totals

Part(f, U) == [n \in U |-> f[n]]

\* The total of f, one node taken apart.
LEMMA TotalApart ==
    ASSUME NEW U, IsFiniteSet(U), NEW x \in U, NEW f \in [U -> Nat]
    PROVE  Total(f) = Total(Part(f, U \ {x})) + f[x]
<1> DEFINE V == U \ {x}
           g == Part(f, V)
           Slice == {x} \X (1 .. f[x])
<1>1. IsFiniteSet(V) /\ g \in [V -> Nat] /\ \A n \in V : g[n] = f[n]
    BY FS_RemoveElement DEF Part
<1>2. IsFiniteSet(Units(g)) /\ Total(g) \in Nat /\ Total(f) \in Nat
    BY <1>1, UnitsFinite
<1>3. Units(f) = Units(g) \cup Slice
    <2>1. \A u : u \in Units(f) <=> \E n \in U : u \in {n} \X (1 .. f[n])
        BY DEF Units
    <2>2. \A u : u \in Units(g) <=> \E n \in V : u \in {n} \X (1 .. g[n])
        BY <1>1 DEF Units
    <2>3. \A u : u \in Units(g) <=> \E n \in V : u \in {n} \X (1 .. f[n])
        BY <1>1, <2>2
    <2>4. \A n \in U : n \in V \/ n = x
        OBVIOUS
    <2>5. V \subseteq U
        OBVIOUS
    <2>6. \A u : u \in Slice <=> u \in {x} \X (1 .. f[x])
        OBVIOUS
    <2> HIDE DEF g, V, Slice
    <2>7. \A u : u \in Units(f) <=> u \in Units(g) \/ u \in Slice
        <3> SUFFICES ASSUME NEW u
                     PROVE  u \in Units(f) <=> u \in Units(g) \/ u \in Slice
            OBVIOUS
        <3>1. ASSUME u \in Units(f) PROVE u \in Units(g) \/ u \in Slice
            <4>1. PICK n \in U : u \in {n} \X (1 .. f[n])
                BY <2>1, <3>1
            <4>2. CASE n \in V
                BY <2>3, <4>1, <4>2
            <4>3. CASE n = x
                BY <2>6, <4>1, <4>3
            <4> QED BY <2>4, <4>2, <4>3
        <3>2. ASSUME u \in Units(g) PROVE u \in Units(f)
            BY <2>1, <2>3, <2>5, <3>2
        <3>3. ASSUME u \in Slice PROVE u \in Units(f)
            BY <2>1, <2>6, <3>3
        <3> QED BY <3>1, <3>2, <3>3
    <2> QED BY <2>7
<1>4. Units(g) \cap Slice = {}
    <2> SUFFICES ASSUME NEW u \in Slice, u \in Units(g) PROVE FALSE
        OBVIOUS
    <2>1. PICK n \in V : u \in {n} \X (1 .. g[n])
        <3> HIDE DEF g
        <3> QED BY <1>1 DEF Units
    <2> QED BY <2>1
<1>5. IsFiniteSet(Slice) /\ Cardinality(Slice) = f[x]
    <2>1. f[x] \in Nat
        OBVIOUS
    <2>2. IsFiniteSet(1 .. f[x]) /\ Cardinality(1 .. f[x]) = f[x]
        BY <2>1, FS_Interval
    <2>3. IsFiniteSet({x}) /\ Cardinality({x}) = 1
        BY FS_Singleton
    <2>4. /\ IsFiniteSet(Slice)
          /\ Cardinality(Slice) = Cardinality({x}) * Cardinality(1 .. f[x])
        BY <2>2, <2>3, FS_Product
    <2> HIDE DEF Slice
    <2> QED BY <2>1, <2>2, <2>3, <2>4
<1> HIDE DEF g, Slice, V
<1>6. Cardinality(Units(f)) = Cardinality(Units(g)) + Cardinality(Slice) - 0
    BY <1>2, <1>3, <1>4, <1>5, FS_Union, FS_EmptySet
<1> QED BY <1>2, <1>5, <1>6 DEF Total, g, V

LEMMA TotalOfNone == \A f : DOMAIN f = {} => Total(f) = 0
<1> SUFFICES ASSUME NEW f, DOMAIN f = {} PROVE Total(f) = 0
    OBVIOUS
<1>1. Units(f) = {}
    BY DEF Units
<1> QED BY <1>1, FS_EmptySet DEF Total

\* Every node's numbers are in the same linear relation.
Linear(S, a, f, g, b, h) == \A n \in S : a * f[n] + g[n] = b * h[n]

\* What holds of every node's numbers holds of their totals.
LEMMA TotalsLinear ==
    ASSUME NEW S, IsFiniteSet(S), NEW f \in [S -> Nat], NEW g \in [S -> Nat], NEW h \in [S -> Nat],
           NEW a \in Nat, NEW b \in Nat, Linear(S, a, f, g, b, h)
    PROVE  a * Total(f) + Total(g) = b * Total(h)
<1> DEFINE Even(U) == a * Total(Part(f, U)) + Total(Part(g, U)) = b * Total(Part(h, U))
           Bad == {U \in FiniteSubsetsOf(S) : ~Even(U)}
<1>1. \A k \in {f, g, h} : Part(k, S) = k
    BY DEF Part
<1>2. SUFFICES ASSUME Bad # {} PROVE FALSE
    <2>1. S \in FiniteSubsetsOf(S)
        BY DEF FiniteSubsetsOf
    <2>2. Even(S)
        BY <1>2, <2>1
    <2> QED BY <1>1, <2>2
<1>3. PICK U \in Bad : \A V \in Bad : ~(<<V, U>> \in StrictSubsetOrdering(S))
    <2>1. Bad \subseteq FiniteSubsetsOf(S)
        OBVIOUS
    <2>2. IsWellFoundedOn(StrictSubsetOrdering(S), FiniteSubsetsOf(S))
        BY FS_StrictSubsetOrderingWellFounded
    <2> HIDE DEF Bad
    <2> QED BY <1>2, <2>1, <2>2, WFMin
<1>4. U \in FiniteSubsetsOf(S) /\ ~Even(U) /\ U \subseteq S /\ IsFiniteSet(U)
    BY <1>3 DEF FiniteSubsetsOf
<1>5. CASE U = {}
    <2>1. \A k \in {f, g, h} : Total(Part(k, U)) = 0
        BY <1>5, TotalOfNone DEF Part
    <2>2. Even(U)
        BY <2>1
    <2> QED BY <1>4, <2>2
<1>6. CASE U # {}
    <2>1. PICK x : x \in U
        BY <1>6
    <2> DEFINE V == U \ {x}
    <2>2. V \in FiniteSubsetsOf(S) /\ <<V, U>> \in StrictSubsetOrdering(S) /\ IsFiniteSet(V)
        BY <1>4, <2>1, FS_RemoveElement DEF FiniteSubsetsOf, StrictSubsetOrdering
    <2>3. Even(V)
        BY <1>3, <2>2
    <2>4. ASSUME NEW k \in {f, g, h}
          PROVE  /\ Total(Part(k, U)) = Total(Part(k, V)) + k[x]
                 /\ Total(Part(k, V)) \in Nat /\ k[x] \in Nat
        <3>1. Part(k, U) \in [U -> Nat] /\ Part(k, V) \in [V -> Nat] /\ k[x] \in Nat
            BY <1>4, <2>1 DEF Part
        <3>2. Part(Part(k, U), V) = Part(k, V) /\ Part(k, U)[x] = k[x]
            BY <2>1 DEF Part
        <3>3. Total(Part(k, U)) = Total(Part(Part(k, U), V)) + Part(k, U)[x]
            BY <1>4, <2>1, <3>1, TotalApart
        <3>4. Total(Part(k, V)) \in Nat
            BY <2>2, <3>1, UnitsFinite
        <3> QED BY <3>1, <3>2, <3>3, <3>4
    <2> DEFINE fv == Total(Part(f, V))
               gv == Total(Part(g, V))
               hv == Total(Part(h, V))
    <2>5. /\ fv \in Nat /\ gv \in Nat /\ hv \in Nat
          /\ f[x] \in Nat /\ g[x] \in Nat /\ h[x] \in Nat
          /\ Total(Part(f, U)) = fv + f[x] /\ Total(Part(g, U)) = gv + g[x]
          /\ Total(Part(h, U)) = hv + h[x]
        BY <2>4
    <2>6. a * fv + gv = b * hv /\ a * f[x] + g[x] = b * h[x]
        BY <1>4, <2>1, <2>3 DEF Linear
    <2> HIDE DEF fv, gv, hv, V
    <2>7. a * (fv + f[x]) + (gv + g[x]) = b * (hv + h[x])
        <3> DEFINE fx == f[x]
                   gx == g[x]
                   hx == h[x]
        <3>1. fx \in Nat /\ gx \in Nat /\ hx \in Nat /\ a * fx + gx = b * hx
            BY <2>5, <2>6
        <3> HIDE DEF fx, gx, hx
        <3>2. a * (fv + fx) = a * fv + a * fx /\ b * (hv + hx) = b * hv + b * hx
            BY <2>5, <3>1
        <3>3. a * fv \in Nat /\ a * fx \in Nat /\ b * hv \in Nat /\ b * hx \in Nat
            BY <2>5, <3>1
        <3>4. a * (fv + fx) + (gv + gx) = b * (hv + hx)
            BY <2>5, <2>6, <3>1, <3>2, <3>3
        <3> QED BY <3>4 DEF fx, gx, hx
    <2>8. Even(U)
        BY <2>5, <2>7
    <2> QED BY <1>4, <2>8
<1> QED BY <1>5, <1>6

\* No node's number is above the total.
LEMMA TotalBounds ==
    ASSUME NEW S, IsFiniteSet(S), NEW f \in [S -> Nat], NEW n \in S
    PROVE  f[n] <= Total(f)
<1>1. Total(f) = Total(Part(f, S \ {n})) + f[n]
    BY TotalApart
<1>2. Part(f, S \ {n}) \in [S \ {n} -> Nat] /\ IsFiniteSet(S \ {n})
    BY FS_RemoveElement DEF Part
<1> QED BY <1>1, <1>2, UnitsFinite

\* One each for the nodes of T.
LEMMA TotalOfOnes ==
    ASSUME NEW S, IsFiniteSet(S), NEW T \in SUBSET S
    PROVE  Total([n \in S |-> IF n \in T THEN 1 ELSE 0]) = Cardinality(T)
<1> DEFINE f == [n \in S |-> IF n \in T THEN 1 ELSE 0]
<1>1. Units(f) = T \X {1}
    <2>1. 1 .. 1 = {1} /\ 1 .. 0 = {}
        OBVIOUS
    <2>2. \A u : u \in Units(f) <=> \E n \in S : u \in {n} \X (1 .. f[n])
        BY DEF Units
    <2>3. ASSUME NEW n \in S
          PROVE  1 .. f[n] = IF n \in T THEN {1} ELSE {}
        BY <2>1
    <2> HIDE DEF f
    <2>4. ASSUME NEW u, u \in Units(f) PROVE u \in T \X {1}
        <3>1. PICK n \in S : u \in {n} \X (1 .. f[n])
            BY <2>2, <2>4
        <3>2. CASE n \in T
            BY <2>3, <3>1, <3>2
        <3>3. CASE n \notin T
            BY <2>3, <3>1, <3>3
        <3> QED BY <3>2, <3>3
    <2>5. \A u : u \in T \X {1} => u \in Units(f)
        BY <2>2, <2>3
    <2> QED BY <2>4, <2>5
<1>2. IsFiniteSet(T) /\ Cardinality(T) \in Nat
    BY FS_Subset, FS_CardinalityType
<1>3. IsFiniteSet({1}) /\ Cardinality({1}) = 1
    BY FS_Singleton
<1> QED BY <1>1, <1>2, <1>3, FS_Product DEF Total

-----------------------------------------------------------------------------
(***************************************************************************)
(* The proportional split.  Rounding down leaves Total(w) * leftover, the  *)
(* sum of the remainders, each below Total(w): so there are no more units  *)
(* left than nodes.  The nodes rank from 0 without gaps, so those ranked   *)
(* below leftover are leftover many, and each gets one unit.               *)
(***************************************************************************)
LEMMA RanksAre ==
    ASSUME NEW S \in SUBSET Nat, IsFiniteSet(S), NEW l \in Nat, NEW w \in [S -> Nat],
           \A n \in S : Remainder(l, w, n) \in Nat,
           NEW rank, rank = [n \in S |-> Cardinality(Ahead(l, w, n))]
    PROVE  rank \in Bijection(S, 0 .. Cardinality(S) - 1)
<1> DEFINE c == Cardinality(S)
           rem(n) == Remainder(l, w, n)
<1>1. /\ c \in Nat /\ \A n \in S : rem(n) \in Nat
      /\ \A n \in S : Ahead(l, w, n) =
             {k \in S : rem(k) > rem(n) \/ (rem(k) = rem(n) /\ k < n)}
    BY FS_CardinalityType DEF Ahead
<1> HIDE DEF c, rem
<1>2. ASSUME NEW n \in S
      PROVE  /\ n \notin Ahead(l, w, n) /\ Ahead(l, w, n) \subseteq S
             /\ IsFiniteSet(Ahead(l, w, n)) /\ rank[n] = Cardinality(Ahead(l, w, n))
             /\ rank[n] \in 0 .. c - 1
    <2>1. n \notin Ahead(l, w, n) /\ Ahead(l, w, n) \subseteq S \ {n}
        BY <1>1
    <2>2. IsFiniteSet(S \ {n}) /\ Cardinality(S \ {n}) = c - 1
        BY FS_RemoveElement DEF c
    <2>3. /\ IsFiniteSet(Ahead(l, w, n)) /\ Cardinality(Ahead(l, w, n)) <= c - 1
          /\ Cardinality(Ahead(l, w, n)) \in Nat
        BY <2>1, <2>2, FS_Subset, FS_CardinalityType
    <2> QED BY <1>1, <2>1, <2>3
<1>3. ASSUME NEW n \in S, NEW k \in S, rem(k) > rem(n) \/ (rem(k) = rem(n) /\ k < n)
      PROVE  rank[k] < rank[n]
    <2>1. k \in Ahead(l, w, n)
        BY <1>1, <1>3
    <2>2. Ahead(l, w, k) \subseteq Ahead(l, w, n) \ {k}
        <3> SUFFICES ASSUME NEW j \in Ahead(l, w, k) PROVE j \in Ahead(l, w, n) /\ j # k
            OBVIOUS
        <3>1. j \in S /\ rem(j) \in Nat /\ rem(k) \in Nat /\ rem(n) \in Nat
              /\ (rem(j) > rem(k) \/ (rem(j) = rem(k) /\ j < k))
            BY <1>1
        <3>2. j \in Nat /\ k \in Nat /\ n \in Nat
            BY <3>1
        <3>3. (rem(j) > rem(n) \/ (rem(j) = rem(n) /\ j < n)) /\ j # k
            BY <1>3, <3>1, <3>2
        <3> QED BY <1>1, <3>1, <3>3
    <2>3. IsFiniteSet(Ahead(l, w, n) \ {k}) /\ Cardinality(Ahead(l, w, n) \ {k}) = rank[n] - 1
        BY <1>2, <2>1, FS_RemoveElement
    <2>4. rank[k] <= rank[n] - 1
        BY <1>2, <2>2, <2>3, FS_Subset
    <2> QED BY <1>1, <1>2, <2>4
<1>4. rank \in Injection(S, 0 .. c - 1)
    <2>1. rank \in [S -> 0 .. c - 1]
        BY <1>2
    <2>2. ASSUME NEW k \in S, NEW n \in S, k # n PROVE rank[k] # rank[n]
        <3>1. rem(k) \in Nat /\ rem(n) \in Nat /\ k \in Nat /\ n \in Nat
            BY <1>1
        <3>2. \/ rem(k) > rem(n) \/ (rem(k) = rem(n) /\ k < n)
              \/ rem(n) > rem(k) \/ (rem(n) = rem(k) /\ n < k)
            BY <2>2, <3>1
        <3>3. rank[k] < rank[n] \/ rank[n] < rank[k]
            BY <1>3, <3>2
        <3> QED BY <1>1, <1>2, <3>3
    <2> QED BY <2>1, <2>2 DEF Injection, IsInjective
<1>5. IsFiniteSet(0 .. c - 1) /\ Cardinality(0 .. c - 1) = c
    BY <1>1, FS_Interval
<1>6. rank \in Surjection(S, 0 .. c - 1)
    BY <1>4, <1>5, FS_Injection DEF c
<1> QED BY <1>4, <1>6 DEF Bijection, c

\* Of the ranks, as many are below k as k says.
LEMMA RankedBelow ==
    ASSUME NEW S, IsFiniteSet(S), NEW k \in 0 .. Cardinality(S),
           NEW rank \in Bijection(S, 0 .. Cardinality(S) - 1)
    PROVE  Cardinality({n \in S : rank[n] < k}) = k
<1> DEFINE c == Cardinality(S)
           T == {n \in S : rank[n] < k}
           f == [n \in T |-> rank[n]]
<1>1. c \in Nat /\ k \in Nat /\ k <= c
    BY FS_CardinalityType
<1>2. /\ rank \in [S -> 0 .. c - 1] /\ \A m, n \in S : rank[m] = rank[n] => m = n
      /\ \A i \in 0 .. c - 1 : \E n \in S : rank[n] = i
    BY DEF Bijection, Injection, Surjection, IsInjective
<1>3. f \in Injection(T, 0 .. k - 1)
    <2>1. f \in [T -> 0 .. k - 1]
        BY <1>1, <1>2
    <2>2. \A m, n \in T : f[m] = f[n] => m = n
        BY <1>2
    <2> HIDE DEF f, T
    <2> QED BY <2>1, <2>2 DEF Injection, IsInjective
<1>4. f \in Surjection(T, 0 .. k - 1)
    <2>1. ASSUME NEW i \in 0 .. k - 1 PROVE \E n \in T : f[n] = i
        <3>1. PICK n \in S : rank[n] = i
            BY <1>1, <1>2
        <3> QED BY <1>1, <3>1
    <2>2. f \in [T -> 0 .. k - 1]
        BY <1>3 DEF Injection
    <2> HIDE DEF f, T
    <2> QED BY <2>1, <2>2 DEF Surjection
<1>5. IsFiniteSet(T) /\ IsFiniteSet(0 .. k - 1) /\ Cardinality(0 .. k - 1) = k
    <2>1. T \subseteq S
        OBVIOUS
    <2> HIDE DEF T
    <2>2. IsFiniteSet(T)
        BY <2>1, FS_Subset
    <2>3. 0 \in Int /\ k - 1 \in Int
        BY <1>1
    <2>4. /\ IsFiniteSet(0 .. k - 1)
          /\ Cardinality(0 .. k - 1) = IF 0 > k - 1 THEN 0 ELSE k - 1 - 0 + 1
        BY <2>3, FS_Interval
    <2> QED BY <1>1, <2>2, <2>4
<1> HIDE DEF f, T
<1>6. f \in Bijection(T, 0 .. k - 1)
    BY <1>3, <1>4 DEF Bijection
<1>7. Cardinality(T) = k
    BY <1>5, <1>6, FS_Bijection DEF ExistsBijection
<1> QED BY <1>7 DEF T

LEMMA RemainderIs ==
    ASSUME NEW x \in Nat, NEW d \in Nat \ {0}
    PROVE  x \div d \in Nat /\ x % d \in 0 .. d - 1 /\ d * (x \div d) + (x % d) = x
OBVIOUS

LEMMA RemainderType ==
    ASSUME NEW S, NEW l \in Nat, NEW w \in [S -> Nat], Total(w) \in Nat \ {0}, NEW n \in S
    PROVE  Remainder(l, w, n) \in Nat
<1> DEFINE x == l * w[n]
           d == Total(w)
<1>1. x \in Nat /\ d \in Nat \ {0} /\ Remainder(l, w, n) = x % d
    BY DEF Remainder
<1> HIDE DEF x, d
<1> QED BY <1>1, RemainderIs

\* Rounding down leaves at most one unit for each node.
LEMMA FloorsLeave ==
    ASSUME NEW S, IsFiniteSet(S), NEW l \in Nat, NEW w \in [S -> Nat], Total(w) # 0
    PROVE  /\ Floors(l, w) \in [S -> Nat] /\ Total(Floors(l, w)) \in Nat
           /\ l - Total(Floors(l, w)) \in 0 .. Cardinality(S)
<1> DEFINE W == Total(w)
           c == Cardinality(S)
           floors == Floors(l, w)
           rems == [n \in S |-> Remainder(l, w, n)]
<1>1. W \in Nat \ {0} /\ c \in Nat
    BY UnitsFinite, FS_CardinalityType
<1>2. /\ floors \in [S -> Nat] /\ rems \in [S -> 0 .. W - 1]
      /\ \A n \in S : W * floors[n] + rems[n] = l * w[n]
    <2>1. ASSUME NEW n \in S
          PROVE  /\ floors[n] = (l * w[n]) \div W /\ rems[n] = (l * w[n]) % W
                 /\ l * w[n] \in Nat
        BY DEF Floors, Remainder
    <2>2. floors = [n \in S |-> floors[n]] /\ rems = [n \in S |-> rems[n]]
        BY DEF Floors
    <2> HIDE DEF floors, rems, W
    <2>3. ASSUME NEW n \in S
          PROVE  /\ floors[n] \in Nat /\ rems[n] \in 0 .. W - 1
                 /\ W * floors[n] + rems[n] = l * w[n]
        <3> DEFINE x == l * w[n]
        <3>1. x \in Nat /\ floors[n] = x \div W /\ rems[n] = x % W
            BY <2>1
        <3> HIDE DEF x
        <3>2. /\ x \div W \in Nat /\ x % W \in 0 .. W - 1
              /\ W * (x \div W) + (x % W) = x
            BY <1>1, <3>1, RemainderIs
        <3>3. W * floors[n] + rems[n] = x
            BY <3>1, <3>2
        <3> QED BY <3>1, <3>2, <3>3 DEF x
    <2> QED BY <2>2, <2>3
<1>3. rems \in [S -> Nat] /\ \A n \in S : rems[n] <= W - 1
    <2> HIDE DEF rems, W
    <2> QED BY <1>1, <1>2
<1> HIDE DEF W, floors, rems, c
<1>4. W * Total(floors) + Total(rems) = l * W
    <2>1. W \in Nat /\ floors \in [S -> Nat] /\ rems \in [S -> Nat]
        BY <1>1, <1>2, <1>3
    <2>2. Linear(S, W, floors, rems, l, w)
        BY <1>2 DEF Linear
    <2>3. W * Total(floors) + Total(rems) = l * Total(w)
        BY <2>1, <2>2, TotalsLinear
    <2> QED BY <2>3 DEF W
<1>5. Total(floors) \in Nat /\ Total(rems) \in Nat /\ Total(rems) <= c * (W - 1)
    <2>1. [n \in S |-> W - 1] \in [S -> Nat] /\ W - 1 \in Nat
        BY <1>1
    <2>2. Total(rems) <= Total([n \in S |-> W - 1])
        BY <1>3, <2>1, TotalMonotone
    <2>3. Total([n \in S |-> W - 1]) = c * (W - 1)
        BY <2>1, TotalConstant DEF c
    <2> QED BY <1>2, <1>3, <2>2, <2>3, UnitsFinite
<1>6. l - Total(floors) \in 0 .. c
    <2> DEFINE t == Total(floors)
               r == Total(rems)
    <2>1. t \in Nat /\ r \in Nat /\ W * t + r = l * W /\ r <= c * (W - 1)
        BY <1>4, <1>5
    <2> HIDE DEF t, r
    <2>2. t <= l
        <3> SUFFICES ASSUME t > l PROVE FALSE
            BY <2>1
        <3>1. PICK d \in Nat \ {0} : t = l + d
            BY <2>1
        <3>2. W * t = l * W + W * d /\ W * d \in Nat \ {0} /\ l * W \in Nat
            BY <1>1, <3>1
        <3> QED BY <2>1, <3>2
    <2>3. l - t <= c
        <3> SUFFICES ASSUME l - t > c PROVE FALSE
            BY <1>1, <2>1
        <3>1. PICK d \in Nat : l = t + c + d
            BY <1>1, <2>1
        <3>2. l * W = W * t + c * W + W * d /\ W * d \in Nat /\ c * W \in Nat /\ W * t \in Nat
            BY <1>1, <2>1, <3>1
        <3>3. c * (W - 1) = c * W - c /\ c * W \in Nat
            BY <1>1
        <3>4. c = 0
            BY <1>1, <2>1, <3>2, <3>3
        <3>5. r <= 0 /\ W * t + r = W * t + W * d
            BY <1>1, <2>1, <3>2, <3>4
        <3> QED BY <1>1, <2>1, <3>1, <3>2, <3>4, <3>5
    <2> QED BY <1>1, <2>1, <2>2, <2>3 DEF t
<1> QED BY <1>2, <1>5, <1>6 DEF floors, c

\* One unit more for each node of T.
OneMore(S, T, f, g) == \A n \in S : g[n] = f[n] + IF n \in T THEN 1 ELSE 0

LEMMA TotalWithOnes ==
    ASSUME NEW S, IsFiniteSet(S), NEW T \in SUBSET S, NEW f \in [S -> Nat],
           NEW g \in [S -> Nat], OneMore(S, T, f, g)
    PROVE  Total(g) = Total(f) + Cardinality(T)
<1> DEFINE ones == [n \in S |-> IF n \in T THEN 1 ELSE 0]
<1>1. ones \in [S -> Nat] /\ \A n \in S : f[n] + ones[n] = g[n]
    BY DEF OneMore
<1>2. Total(ones) = Cardinality(T)
    BY TotalOfOnes
<1> HIDE DEF ones
<1>3. Linear(S, 1, f, ones, 1, g)
    BY <1>1 DEF Linear
<1>4. 1 * Total(f) + Total(ones) = 1 * Total(g)
    BY <1>1, <1>3, TotalsLinear
<1>5. Total(f) \in Nat /\ Total(g) \in Nat
    BY <1>1, UnitsFinite
<1> QED BY <1>1, <1>2, <1>4, <1>5

\* Whatever the demand, the whole limit is given out, and no unit twice.
THEOREM SplitExact ==
    ASSUME NEW S \in SUBSET Nat, IsFiniteSet(S), S # {}, NEW l \in Nat, NEW w \in [S -> Nat]
    PROVE  Split(l, w) \in [S -> 0 .. l] /\ Total(Split(l, w)) = l
<1> DEFINE v == Effective(w)
           rank == [n \in S |-> Cardinality(Ahead(l, v, n))]
           leftover == l - Total(Floors(l, v))
           T == {n \in S : rank[n] < leftover}
           s == Split(l, w)
<1>1. v \in [S -> Nat] /\ Total(v) # 0
    <2>1. CASE Total(w) # 0
        BY <2>1 DEF Effective
    <2>2. CASE Total(w) = 0
        <3>1. v = [n \in S |-> 1]
            BY <2>2 DEF Effective, EvenWeights
        <3>2. Total(v) = Cardinality(S) * 1
            BY <3>1, TotalConstant
        <3> QED BY <3>1, <3>2, FS_CardinalityType, FS_EmptySet
    <2> QED BY <2>1, <2>2
<1>2. s = [n \in S |-> Floors(l, v)[n] + IF n \in T THEN 1 ELSE 0]
    <2>1. DOMAIN v = S
        BY <1>1
    <2> HIDE DEF v
    <2> QED BY <2>1 DEF Split, LargestRemainder, v
<1> HIDE DEF v
<1>3. /\ Floors(l, v) \in [S -> Nat] /\ Total(Floors(l, v)) \in Nat
      /\ leftover \in 0 .. Cardinality(S)
    BY <1>1, FloorsLeave
<1>4. Cardinality(T) = leftover
    <2>1. \A n \in S : Remainder(l, v, n) \in Nat
        BY <1>1, RemainderType, UnitsFinite
    <2> HIDE DEF rank, leftover
    <2>2. rank = [n \in S |-> Cardinality(Ahead(l, v, n))]
        BY DEF rank
    <2>3. rank \in Bijection(S, 0 .. Cardinality(S) - 1)
        BY <1>1, <2>1, <2>2, RanksAre
    <2> QED BY <1>3, <2>3, RankedBelow
<1>5. s \in [S -> Nat] /\ Total(s) = Total(Floors(l, v)) + Cardinality(T)
    <2>1. T \in SUBSET S
        OBVIOUS
    <2> HIDE DEF T, s
    <2>2. s \in [S -> Nat] /\ OneMore(S, T, Floors(l, v), s)
        BY <1>2, <1>3 DEF OneMore
    <2> QED BY <1>3, <2>1, <2>2, TotalWithOnes
<1>6. Total(s) = l
    BY <1>3, <1>4, <1>5
<1> HIDE DEF s
<1>7. ASSUME NEW n \in S PROVE s[n] \in 0 .. l
    <2>1. s[n] <= Total(s) /\ s[n] \in Nat
        BY <1>5, TotalBounds
    <2> QED BY <1>6, <2>1
<1>8. s \in [S -> 0 .. l]
    BY <1>5, <1>7
<1> QED BY <1>6, <1>8 DEF s

-----------------------------------------------------------------------------
\* The rounds

\* Nodes that hold nothing add nothing.
LEMMA TotalPadded ==
    ASSUME NEW S, IsFiniteSet(S), NEW R \in SUBSET S, NEW f \in [R -> Nat],
           NEW g, g = [n \in S |-> IF n \in R THEN f[n] ELSE 0]
    PROVE  Total(g) = Total(f)
<1>1. 1 .. 0 = {}
    OBVIOUS
<1>2. ASSUME NEW u PROVE u \in Units(g) <=> u \in Units(f)
    <2>1. u \in Units(f) <=> \E n \in R : u \in {n} \X (1 .. f[n])
        BY DEF Units
    <2>2. u \in Units(g) <=> \E n \in S : u \in {n} \X (1 .. g[n])
        BY DEF Units
    <2>3. \A n \in R : n \in S /\ g[n] = f[n]
        OBVIOUS
    <2>4. ASSUME NEW n \in S, u \in {n} \X (1 .. g[n]) PROVE n \in R
        <3>1. CASE n \notin R
            <4>1. g[n] = 0
                BY <3>1
            <4> QED BY <1>1, <2>4, <4>1
        <3> QED BY <3>1
    <2> QED BY <2>1, <2>2, <2>3, <2>4
<1>3. Units(g) = Units(f)
    BY <1>2
<1> QED BY <1>3 DEF Total

WeightsType == weight \in [Nodes -> Weights]

\* What the demand asks for is a split of the limit over the nodes polled.
LEMMA WantedSplits ==
    ASSUME TypeOK, WeightsType, KnownLimit > 0
    PROVE  Wanted(Reachable, KnownLimit) \in Splits(Reachable, KnownLimit)
<1> DEFINE l == KnownLimit
           S == Reachable
           w == [n \in S |-> weight[n]]
           s == Split(l, w)
           t == [n \in Nodes |-> IF n \in S THEN s[n] ELSE 0]
<1>1. l \in Nat
    <2>1. l \in Limits \cup {0}
        BY KnownLimitType
    <2> HIDE DEF l
    <2> QED BY <2>1, LimitsAssumption
<1>2. S \in SUBSET Nat /\ S \subseteq Nodes /\ IsFiniteSet(S) /\ S # {}
    <2>1. S \subseteq Nodes
        BY DEF Reachable
    <2>2. Proposer \in S
        BY NodesAssumption DEF KnownLimit, Reachable
    <2> HIDE DEF S
    <2> QED BY <2>1, <2>2, NodesAssumption, FS_Subset
<1>3. w \in [S -> Nat]
    BY <1>2, WeightsAssumption DEF WeightsType
<1> HIDE DEF S, w
<1>4. s \in [S -> 0 .. l] /\ Total(s) = l
    <2> HIDE DEF l
    <2> QED BY <1>1, <1>2, <1>3, SplitExact
<1> HIDE DEF s
<1>5. t \in [Nodes -> 0 .. l] /\ \A n \in Nodes \ S : t[n] = 0
    BY <1>1, <1>4
<1>6. Total(t) = l
    <2>1. s \in [S -> Nat]
        BY <1>1, <1>4
    <2> HIDE DEF l
    <2>2. S \in SUBSET Nodes /\ IsFiniteSet(Nodes)
        BY <1>2, NodesAssumption
    <2>3. t = [n \in Nodes |-> IF n \in S THEN s[n] ELSE 0]
        OBVIOUS
    <2> HIDE DEF t
    <2>4. Total(t) = Total(s)
        BY <2>1, <2>2, <2>3, TotalPadded
    <2> QED BY <1>4, <2>4
<1>7. t \in Splits(S, l)
    BY <1>5, <1>6 DEF Splits
<1>8. Wanted(Reachable, KnownLimit) = t
    BY DEF Wanted, s, w, S
<1> QED BY <1>7, <1>8 DEF S

\* Every step the demand drives is a step of the rebalancer, or none of its own.
LEMMA DemandStep ==
    ASSUME TypeOK, WeightsType, [DemandNext]_allVars
    PROVE  [Next]_vars /\ WeightsType'
<1>1. CASE UNCHANGED allVars
    BY <1>1 DEF allVars, demandVars, WeightsType
<1>2. CASE Shift
    BY <1>2 DEF Shift, WeightsType
<1>3. CASE ShiftLimit
    BY <1>3 DEF ShiftLimit, Next, WeightsType
<1>4. CASE Step /\ UNCHANGED demandVars
    <2>1. WeightsType'
        BY <1>4 DEF demandVars, WeightsType
    <2>2. CASE \E n \in Nodes : Allow(n)
        BY <2>1, <2>2 DEF Next
    <2>3. CASE Tick
        BY <2>1, <2>3 DEF Next
    <2>4. CASE \E m \in net : Handle(m)
        BY <2>1, <2>4 DEF Next
    <2>5. CASE SkipUnknown
        BY <2>1, <2>5 DEF SkipUnknown, SkipRound, RoundStep, Next
    <2>6. CASE Rebalance
        <3> DEFINE t == Wanted(Reachable, KnownLimit)
        <3>1. /\ phase = "poll" /\ Polled /\ KnownLimit > 0
              /\ IF \A n \in Reachable : Distance(t[n], Assumed[n]) < Hysteresis
                 THEN EndTick /\ UNCHANGED <<limit, nodeVars, net>>
                 ELSE StartRound(t)
            BY <2>6 DEF Rebalance
        <3>2. t \in Splits(Reachable, KnownLimit)
            BY <3>1, WantedSplits
        <3> HIDE DEF t
        <3>3. SkipRound \/ StartRound(t)
            BY <3>1, <3>2 DEF SkipRound
        <3> QED BY <2>1, <3>2, <3>3 DEF RoundStep, Next
    <2>7. CASE ProposerStep /\ ~SkipUnknown /\ ~Rebalance
        BY <2>1, <2>7 DEF ProposerStep, RoundStep, Next
    <2> QED BY <1>4, <2>1, <2>2, <2>3, <2>4, <2>5, <2>6, <2>7 DEF Step
<1> QED BY <1>1, <1>2, <1>3, <1>4 DEF DemandNext

\* The rebalancer the demand drives does nothing that PeerRebalance does not
\* allow: a refinement, so that what holds of every round holds of its rounds.
THEOREM DemandRebalances == DemandSpec => RebalancesOnly
<1>1. DemandInit => Init /\ TypeInv /\ WeightsType
    BY InitTypeInv DEF DemandInit, WeightsType
<1>2. TypeInv /\ WeightsType /\ [DemandNext]_allVars => (TypeInv /\ WeightsType)' /\ [Next]_vars
    BY DemandStep, NextTypeInv DEF TypeInv
<1> QED BY <1>1, <1>2, PTL DEF DemandSpec, RebalancesOnly, Spec

\* So its shares never exceed what they may, while the limit stands and calls
\* are at worst lost.
THEOREM DemandSafe == OnlyLoss => (DemandSpec => []SharesWithinReserve)
BY DemandRebalances, QuotaSafe DEF RebalancesOnly
===============================================================================
