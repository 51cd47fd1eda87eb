---------------------------- MODULE LiveShareProofs ----------------------------
(***************************************************************************)
(* Theorems about module LiveShare, for any shares, in any order, and any  *)
(* number of goroutines: the one stored time stands for all that was       *)
(* admitted, each request at the spacing it was admitted with.             *)
(***************************************************************************)
EXTENDS LiveShare, GcraTheorems

\* A share of at most one request per tick has a spacing, never longer than
\* the period.
LEMMA EmissionType == \A q \in Shares : Emission(q) \in Nat \ {0}
<1> SUFFICES ASSUME NEW q \in Shares PROVE Emission(q) \in Nat \ {0}
    OBVIOUS
<1> USE SharesAssumption, ParamsAssumption
<1> DEFINE k == IF q < 1 THEN 1 ELSE q
<1>1. k \in Nat \ {0} /\ k <= Period
    OBVIOUS
<1>2. Emission(q) = Period \div k
    BY DEF Emission, FloorEmission
<1> HIDE DEF k
<1>3. Period \div k \in Int
    BY <1>1
<1>4. 1 * k <= Period
    BY <1>1
<1>5. 1 <= Period \div k
    BY <1>1, <1>4, DivBound
<1> QED BY <1>2, <1>3, <1>5

-----------------------------------------------------------------------------
(***************************************************************************)
(* The inductive invariant.  Each admitted request asks that the stored    *)
(* time be no earlier than its own plus what it and all later ones have    *)
(* cost: LivePaid says that it is not, LiveTight that it is no later, and  *)
(* Ahead that it never runs further ahead of the clock than the burst and  *)
(* one request were worth at some share.                                   *)
(***************************************************************************)
LiveDue(r, total) == r.at + (total - r.before)

LivePaid(log, total, t) == \A i \in DOMAIN log : t >= LiveDue(log[i], total)
LiveTight(log, total, t) ==
    IF log = <<>> THEN t = 0 ELSE \E i \in DOMAIN log : t = LiveDue(log[i], total)
Ahead == \E q \in Shares : tat <= clock + (Burst + 1) * Emission(q)
Arrived == \A w \in Workers : arrival[w] <= clock

Records == [at : Nat, before : Nat]

Inv ==
    /\ TypeOK
    /\ LivePaid(admitted, spent, tat)
    /\ LiveTight(admitted, spent, tat)
    /\ Ahead
    /\ Arrived
    /\ NeverLockedOut

\* Charging one more request moves every due time by its spacing.
LEMMA ChargeInv ==
    ASSUME NEW log \in Seq(Records), NEW total \in Nat, NEW t \in Nat, NEW e \in Nat \ {0},
           NEW now \in Nat \ {0}, LivePaid(log, total, t), LiveTight(log, total, t)
    PROVE  LET longer == Append(log, [at |-> now, before |-> total])
               new == Charged(t, now, e)
           IN  LivePaid(longer, total + e, new) /\ LiveTight(longer, total + e, new)
<1> DEFINE r == [at |-> now, before |-> total]
           longer == Append(log, r)
           new == Charged(t, now, e)
<1>1. new \in Nat /\ new >= now + e /\ new >= t + e /\ (new = now + e \/ (new = t + e /\ t # 0))
    BY DEF Charged
<1>2. /\ DOMAIN longer = DOMAIN log \cup {Len(log) + 1}
      /\ longer[Len(log) + 1] = r
      /\ \A i \in DOMAIN log : longer[i] = log[i] /\ log[i] \in Records
      /\ longer # <<>>
    <2>1. r \in Records
        BY DEF Records
    <2> HIDE DEF r
    <2> QED BY <2>1
<1>3. /\ LiveDue(r, total + e) = now + e
      /\ \A s \in Records : /\ LiveDue(s, total) \in Int
                            /\ LiveDue(s, total + e) = LiveDue(s, total) + e
    BY DEF LiveDue, Records
<1> HIDE DEF new, longer, r
<1>4. LivePaid(longer, total + e, new)
    BY <1>1, <1>2, <1>3 DEF LivePaid
<1>5. LiveTight(longer, total + e, new)
    BY <1>1, <1>2, <1>3 DEF LiveTight
<1> QED BY <1>4, <1>5 DEF new, longer, r

LEMMA InitInv == Init => Inv
<1> SUFFICES ASSUME Init PROVE Inv
    OBVIOUS
<1> USE ParamsAssumption, SharesAssumption
<1>1. TypeOK
    BY DEF Init, TypeOK
<1>2. LivePaid(admitted, spent, tat) /\ LiveTight(admitted, spent, tat) /\ Arrived
    BY DEF Init, LivePaid, LiveTight, Arrived
<1>3. Ahead /\ NeverLockedOut
    <2>1. Emission(quota) \in Nat /\ quota \in Shares
        BY EmissionType DEF Init
    <2>2. (Burst + 1) * Emission(quota) \in Nat
        BY <2>1
    <2>3. tat <= clock + (Burst + 1) * Emission(quota)
        BY <2>2 DEF Init
    <2>4. answer.at + answer.retryAfter <= clock + (Burst + 1) * Emission(quota)
        BY <2>2 DEF Init
    <2> QED BY <2>1, <2>3, <2>4 DEF Ahead, NeverLockedOut
<1> QED BY <1>1, <1>2, <1>3 DEF Inv

LEMMA AllowInv ==
    ASSUME Inv, NEW w \in Workers, AllowRequest(w)
    PROVE  Inv'
<1> DEFINE now == arrival[w]
           e == Emission(quota)
           d == Decide(tat, now, e, Burst)
           r == [at |-> now, before |-> spent]
<1> USE ParamsAssumption
<1>1. /\ now \in Nat \ {0} /\ now <= clock /\ clock \in Nat
      /\ tat \in Nat /\ spent \in Nat /\ admitted \in Seq(Records)
      /\ quota \in Shares /\ e \in Nat \ {0}
    BY EmissionType DEF AllowRequest, Inv, TypeOK, Arrived, Records
<1>2. /\ tat' = d.tat
      /\ d.allowed => admitted' = Append(admitted, r) /\ spent' = spent + e
      /\ ~d.allowed => admitted' = admitted /\ spent' = spent
      /\ answer' = [at |-> now, allowed |-> d.allowed,
                    remaining |-> d.remaining, retryAfter |-> d.retryAfter]
      /\ arrival' = [arrival EXCEPT ![w] = 0]
      /\ clock' = clock /\ quota' = quota
    BY Zenon DEF AllowRequest
<1> HIDE DEF now, e
<1>3. Answers(d, tat, now, e, Burst)
    BY <1>1, DecideAnswers
<1> HIDE DEF d
<1>4. /\ d.tat \in Nat /\ d.remaining \in 0 .. Burst /\ d.retryAfter \in Nat
      /\ d.allowed \in BOOLEAN
      /\ d.allowed => /\ now >= Earliest(tat, e, Burst)
                      /\ d.tat = Charged(tat, now, e) /\ d.retryAfter = 0
      /\ ~d.allowed => d.tat = tat /\ d.retryAfter = Earliest(tat, e, Burst) - now
    BY <1>3, Zenon DEF Answers
<1>5. r \in Records /\ spent + e \in Nat
    BY <1>1 DEF Records
<1> HIDE DEF r
<1>6. admitted' \in Seq(Records) /\ spent' \in Nat
    <2>1. CASE d.allowed
        BY <1>1, <1>2, <1>5, <2>1
    <2>2. CASE ~d.allowed
        BY <1>1, <1>2, <2>2
    <2> QED BY <2>1, <2>2
<1>7. TypeOK'
    BY <1>1, <1>2, <1>4, <1>6 DEF Inv, TypeOK, Records
<1>8. (LivePaid(admitted, spent, tat) /\ LiveTight(admitted, spent, tat))'
    <2>1. CASE d.allowed
        <3> DEFINE new == Charged(tat, now, e)
        <3>1. /\ LivePaid(Append(admitted, r), spent + e, new)
              /\ LiveTight(Append(admitted, r), spent + e, new)
            <4>1. LivePaid(admitted, spent, tat) /\ LiveTight(admitted, spent, tat)
                BY DEF Inv
            <4> QED BY ONLY <1>1, <4>1, ChargeInv DEF r
        <3> HIDE DEF new
        <3>2. admitted' = Append(admitted, r) /\ spent' = spent + e /\ tat' = new
            BY <1>2, <1>4, <2>1 DEF new
        <3> QED BY <3>1, <3>2
    <2>2. CASE ~d.allowed
        BY <1>2, <1>4, <2>2 DEF Inv
    <2> QED BY <2>1, <2>2
<1>9. Arrived'
    BY <1>1, <1>2 DEF Inv, Arrived, TypeOK
<1>10. Ahead' /\ NeverLockedOut'
    <2> DEFINE more == Burst * e
    <2>1. /\ more \in Nat /\ (Burst + 1) * e = more + e
          /\ Earliest(tat, e, Burst) = tat - more
        BY <1>1 DEF Earliest
    <2>2. /\ answer'.at + answer'.retryAfter = now + d.retryAfter
          /\ tat' = d.tat /\ clock' = clock
        BY <1>2
    <2> HIDE DEF more
    <2>3. CASE d.allowed
        <3>1. tat' <= clock' + (Burst + 1) * e
            BY <1>1, <1>4, <2>1, <2>2, <2>3 DEF Charged
        <3>2. answer'.at + answer'.retryAfter <= clock' + (Burst + 1) * e
            BY <1>1, <1>4, <2>1, <2>2, <2>3
        <3> QED BY <1>1, <3>1, <3>2 DEF Ahead, NeverLockedOut, e
    <2>4. CASE ~d.allowed
        <3>1. PICK q \in Shares : tat <= clock + (Burst + 1) * Emission(q)
            BY DEF Inv, Ahead
        <3>2. now + d.retryAfter <= tat /\ d.tat = tat
            BY <1>1, <1>4, <2>1, <2>4
        <3>3. (Burst + 1) * Emission(q) \in Nat
            BY EmissionType
        <3>4. answer'.at + answer'.retryAfter <= clock' + (Burst + 1) * Emission(q)
            BY <1>1, <1>4, <2>2, <3>1, <3>2, <3>3
        <3> QED BY <2>2, <3>1, <3>2, <3>4 DEF Ahead, NeverLockedOut
    <2> QED BY <2>3, <2>4
<1> QED BY <1>7, <1>8, <1>9, <1>10 DEF Inv

LEMMA NextInv == Inv /\ [Next]_vars => Inv'
<1> SUFFICES ASSUME Inv, [Next]_vars PROVE Inv'
    OBVIOUS
<1>1. CASE UNCHANGED vars
    BY <1>1 DEF vars, Inv, TypeOK, Ahead, Arrived, NeverLockedOut
<1>2. CASE PassTime
    <2>1. /\ clock' = clock + 1 /\ clock \in Nat
          /\ UNCHANGED <<arrival, quota, tat, admitted, spent, answer>>
        BY <1>2 DEF PassTime, history, Inv, TypeOK
    <2>2. TypeOK' /\ Arrived' /\ (LivePaid(admitted, spent, tat) /\ LiveTight(admitted, spent, tat))'
        BY <2>1 DEF Inv, TypeOK, Arrived
    <2>3. ASSUME NEW x \in Nat, NEW q \in Shares, x <= clock + (Burst + 1) * Emission(q)
          PROVE  x <= clock' + (Burst + 1) * Emission(q)
        <3>1. (Burst + 1) * Emission(q) \in Nat
            BY EmissionType, ParamsAssumption
        <3> QED BY <2>1, <2>3, <3>1
    <2>4. tat \in Nat /\ answer.at + answer.retryAfter \in Nat
        BY DEF Inv, TypeOK
    <2>5. Ahead' /\ NeverLockedOut'
        BY <2>1, <2>3, <2>4 DEF Inv, Ahead, NeverLockedOut
    <2> QED BY <2>2, <2>5 DEF Inv
<1>3. ASSUME NEW w \in Workers, Arrive(w) PROVE Inv'
    BY <1>3 DEF Arrive, history, Inv, TypeOK, Ahead, Arrived, NeverLockedOut
<1>4. ASSUME NEW w \in Workers, AllowRequest(w) PROVE Inv'
    BY <1>4, AllowInv
<1>5. ASSUME NEW q \in Shares, SetQuota(q) PROVE Inv'
    BY <1>5 DEF SetQuota, history, Inv, TypeOK, Ahead, Arrived, NeverLockedOut
<1> QED BY <1>1, <1>2, <1>3, <1>4, <1>5 DEF Next

LEMMA Invariant == Spec => []Inv
<1> QED BY InitInv, NextInv, PTL DEF Spec

\* Type correctness; in particular Remaining never exceeds the burst.
THEOREM ShareTypeCorrect == Spec => []TypeOK
<1>1. Inv => TypeOK
    BY DEF Inv
<1> QED BY <1>1, Invariant, PTL

\* However the rebalancer moves the share, no answer tells a customer to wait
\* longer than the burst and one more request are worth at some share.
THEOREM LockOutBounded == Spec => []NeverLockedOut
<1>1. Inv => NeverLockedOut
    BY DEF Inv
<1> QED BY <1>1, Invariant, PTL

-----------------------------------------------------------------------------
\* The refinement

\* The arithmetic of one record: its time moves to the other side.
LEMMA LiveMoveAcross ==
    ASSUME NEW r \in Records, NEW total \in Nat, NEW s \in Int, NEW more \in Int
    PROVE  /\ LiveDue(r, total) \in Int
           /\ s - r.at >= total - r.before + more <=> s >= LiveDue(r, total) + more
<1>1. r.at \in Nat /\ r.before \in Nat
    BY DEF Records
<1> DEFINE at == r.at
           before == r.before
<1>2. at \in Nat /\ before \in Nat
    BY <1>1
<1>3. LiveDue(r, total) = at + (total - before)
    BY DEF LiveDue
<1> HIDE DEF at, before
<1>4. at + (total - before) \in Int
    BY <1>2
<1>5. s - at >= total - before + more <=> s >= at + (total - before) + more
    BY <1>2
<1> QED BY <1>3, <1>4, <1>5 DEF at, before

\* One stored time answers for the whole log, at whatever spacing comes next.
LEMMA LiveRoomIsTat ==
    ASSUME NEW log \in Seq(Records), log # <<>>, NEW total \in Nat, NEW t \in Nat,
           LivePaid(log, total, t), LiveTight(log, total, t),
           NEW s \in Int, NEW k \in Int, quota \in Shares
    PROVE  Pace!Room(log, total, s, k) <=> s >= t + (k - 1 - Burst) * Emission(quota)
<1> DEFINE more == (k - 1 - Burst) * Emission(quota)
<1>1. more \in Int
    BY EmissionType, ParamsAssumption
<1> HIDE DEF more
<1>2. ASSUME NEW i \in DOMAIN log
      PROVE  /\ LiveDue(log[i], total) \in Int
             /\ s - log[i].at >= total - log[i].before + more <=> s >= LiveDue(log[i], total) + more
    <2>1. log[i] \in Records
        OBVIOUS
    <2> QED BY <1>1, <2>1, LiveMoveAcross
<1>3. Pace!Room(log, total, s, k) <=> \A i \in DOMAIN log : s >= LiveDue(log[i], total) + more
    BY <1>2 DEF Pace!Room, more
<1>4. ASSUME s >= t + more, NEW i \in DOMAIN log PROVE s >= LiveDue(log[i], total) + more
    BY <1>1, <1>2, <1>4 DEF LivePaid
<1>5. ASSUME \A i \in DOMAIN log : s >= LiveDue(log[i], total) + more PROVE s >= t + more
    BY <1>5 DEF LiveTight
<1> QED BY <1>3, <1>4, <1>5 DEF more

\* A decision under the lock is a decision by the promised pace.
LEMMA AllowPaces ==
    ASSUME Inv, Inv', NEW w \in Workers, AllowRequest(w)
    PROVE  Pace!PacingNext
<1> DEFINE now == arrival[w]
           e == Emission(quota)
           d == Decide(tat, now, e, Burst)
           earliest == Earliest(tat, e, Burst)
           more == Burst * e
<1> USE ParamsAssumption
<1>1. /\ now \in Nat \ {0} /\ tat \in Nat /\ spent \in Nat /\ admitted \in Seq(Records)
      /\ quota \in Shares /\ e \in Nat \ {0} /\ more \in Nat
    <2>1. quota \in Shares /\ e \in Nat \ {0}
        BY EmissionType DEF Inv, TypeOK
    <2>2. now # 0
        BY Zenon DEF AllowRequest
    <2>3. now \in Nat /\ tat \in Nat /\ spent \in Nat /\ admitted \in Seq(Records)
        BY DEF Inv, TypeOK, Records
    <2>4. more \in Nat
        BY <2>1
    <2> QED BY <2>1, <2>2, <2>3, <2>4
<1>2. /\ tat' = d.tat
      /\ d.allowed => /\ admitted' = Append(admitted, [at |-> now, before |-> spent])
                      /\ spent' = spent + e
      /\ ~d.allowed => admitted' = admitted /\ spent' = spent
      /\ answer' = [at |-> now, allowed |-> d.allowed,
                    remaining |-> d.remaining, retryAfter |-> d.retryAfter]
      /\ quota' = quota
    BY Zenon DEF AllowRequest
<1> HIDE DEF now
<1>3. Answers(d, tat, now, e, Burst)
    BY <1>1, DecideAnswers
<1> HIDE DEF d
<1>4. /\ d.tat \in Nat
      /\ d.allowed <=> now >= earliest
      /\ d.allowed => /\ d.tat = Charged(tat, now, e)
                      /\ d.remaining = Fitting(d.tat - now, e, Burst)
      /\ ~d.allowed => d.retryAfter = earliest - now
    BY <1>3, Zenon DEF Answers
<1>5. answer' \in Pace!Answers
    BY DEF Inv, TypeOK, Pace!Answers
<1>6. LivePaid(admitted, spent, tat) /\ LiveTight(admitted, spent, tat)
    BY DEF Inv
<1>7. earliest = tat - more
    BY <1>1 DEF Earliest
<1>8. /\ answer'.at = now /\ answer'.allowed = d.allowed
      /\ answer'.remaining = d.remaining /\ answer'.retryAfter = d.retryAfter
    BY <1>2
<1> HIDE DEF earliest
<1>9. ASSUME NEW s \in Int, admitted # <<>>
      PROVE  Pace!Room(admitted, spent, s, 1) <=> s >= earliest
    <2>1. Pace!Room(admitted, spent, s, 1) <=> s >= tat + (1 - 1 - Burst) * e
        BY <1>1, <1>6, <1>9, LiveRoomIsTat
    <2>2. (1 - 1 - Burst) * e = 0 - more
        BY <1>1
    <2> HIDE DEF more
    <2> QED BY <1>1, <1>7, <2>1, <2>2
<1> HIDE DEF more
<1>10. CASE d.allowed
    <2>1. Pace!Room(admitted, spent, now, 1)
        <3>1. CASE admitted = <<>>
            BY <3>1 DEF Pace!Room
        <3>2. CASE admitted # <<>>
            BY <1>1, <1>4, <1>9, <1>10, <3>2
        <3> QED BY <3>1, <3>2
    <2>2. admitted' = Append(admitted, [at |-> now, before |-> spent]) /\ spent' = spent + e
        BY <1>2, <1>10
    <2>3. ASSUME NEW k \in 1 .. Burst + 1
          PROVE  Pace!Room(admitted', spent', now, k) <=> k <= d.remaining
        <3>1. /\ admitted' \in Seq(Records) /\ spent' \in Nat
              /\ LivePaid(admitted', spent', d.tat) /\ LiveTight(admitted', spent', d.tat)
            BY <1>2 DEF Inv, TypeOK, Records
        <3>2. admitted' # <<>>
            <4> DEFINE last == [at |-> now, before |-> spent]
            <4>1. last \in Records
                BY <1>1 DEF Records
            <4> HIDE DEF last
            <4>2. Append(admitted, last) # <<>>
                BY <1>1, <4>1
            <4> QED BY <2>2, <4>2 DEF last
        <3>3. Pace!Room(admitted', spent', now, k) <=> now >= d.tat + (k - 1 - Burst) * e
            BY <1>1, <1>4, <3>1, <3>2, LiveRoomIsTat
        <3>4. d.tat > now
            BY <1>1, <1>4, <1>10 DEF Charged
        <3>5. now >= d.tat + (k - 1 - Burst) * e <=> k <= Fitting(d.tat - now, e, Burst)
            BY <1>1, <1>4, <3>4, FittingCounts
        <3> QED BY <1>4, <1>10, <3>3, <3>5
    <2>4. Pace!Admit
        BY <1>2, <1>8, <1>10, <2>1, <2>2, <2>3, Zenon DEF Pace!Admit
    <2> QED BY <1>5, <2>4 DEF Pace!PacingNext
<1>11. CASE ~d.allowed
    <2>1. now < earliest /\ d.retryAfter = earliest - now /\ earliest \in Int
        BY <1>1, <1>4, <1>7, <1>11
    <2>2. admitted # <<>>
        BY <1>1, <1>6, <1>7, <2>1 DEF LiveTight
    <2>3. /\ ~Pace!Room(admitted, spent, now, 1)
          /\ Pace!Room(admitted, spent, earliest, 1)
          /\ ~Pace!Room(admitted, spent, earliest - 1, 1)
        BY <1>1, <1>9, <2>1, <2>2
    <2>4. answer'.at + answer'.retryAfter = earliest /\ answer'.at + answer'.retryAfter - 1 = earliest - 1
        <3> DEFINE wait == earliest - now
        <3>1. now + wait = earliest /\ now + (wait - 1) = earliest - 1
            BY <1>1, <2>1
        <3>2. answer'.at = now /\ answer'.retryAfter = wait
            BY <1>8, <2>1
        <3> HIDE DEF wait
        <3> QED BY <3>1, <3>2
    <2>5. /\ ~Pace!Room(admitted, spent, answer'.at, 1)
          /\ Pace!Room(admitted, spent, answer'.at + answer'.retryAfter, 1)
          /\ ~Pace!Room(admitted, spent, answer'.at + answer'.retryAfter - 1, 1)
        BY <1>8, <2>3, <2>4, Zenon
    <2>6. Pace!TurnAway
        BY <1>2, <1>8, <1>11, <2>5, Zenon DEF Pace!TurnAway
    <2> QED BY <1>5, <2>6 DEF Pace!PacingNext
<1> QED BY <1>10, <1>11

\* The live share implements the promise made of all admitted requests, each
\* at the spacing it was admitted with, through every change of the share.
THEOREM ShareKeepsPace == Spec => KeepsLivePace
<1>1. Init => Pace!PacingInit
    BY DEF Init, Pace!PacingInit
<1>2. Inv /\ Inv' /\ [Next]_vars => [Pace!PacingNext]_Pace!pacingVars
    <2> SUFFICES ASSUME Inv, Inv', [Next]_vars
                 PROVE  Pace!PacingNext \/ UNCHANGED <<admitted, spent, quota, answer>>
        BY DEF Pace!pacingVars
    <2>1. ASSUME NEW w \in Workers, AllowRequest(w) PROVE Pace!PacingNext
        BY <2>1, AllowPaces
    <2>2. ASSUME NEW q \in Shares, SetQuota(q) PROVE Pace!PacingNext
        BY <2>2 DEF SetQuota, history, Pace!PacingNext, Pace!SetSpacing
    <2>3. CASE UNCHANGED vars \/ PassTime \/ \E w \in Workers : Arrive(w)
        BY <2>3 DEF vars, PassTime, Arrive, history
    <2> QED BY <2>1, <2>2, <2>3 DEF Next
<1> QED BY <1>1, <1>2, Invariant, PTL DEF Spec, KeepsLivePace, Pace!PacingSpec
=============================================================================
