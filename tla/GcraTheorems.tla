----------------------------- MODULE GcraTheorems -----------------------------
(***************************************************************************)
(* Facts about the admission arithmetic of module Gcra, for any spacing    *)
(* and burst, and about the one stored time that stands for all the        *)
(* requests admitted.                                                      *)
(***************************************************************************)
EXTENDS Gcra, Sequences, TLAPS

\* What fits into x, in units of e.
LEMMA DivBound ==
    ASSUME NEW x \in Nat, NEW e \in Nat \ {0}, NEW k \in Int
    PROVE  k * e <= x <=> k <= x \div e
<1> DEFINE d == x \div e
<1>1. /\ d \in Int
      /\ x = e * d + (x % e)
      /\ x % e \in 0 .. e - 1
    OBVIOUS
<1>2. ASSUME k <= d PROVE k * e <= x
    <2>1. k * e <= d * e
        BY <1>1, <1>2
    <2> QED BY <1>1, <2>1
<1>3. ASSUME k > d PROVE k * e > x
    <2>1. k >= d + 1
        BY <1>1, <1>3
    <2>2. k * e >= (d + 1) * e
        BY <1>1, <2>1
    <2>3. (d + 1) * e = d * e + e
        BY <1>1
    <2> QED BY <1>1, <2>2, <2>3
<1> HIDE DEF d
<1>4. k * e \in Int
    OBVIOUS
<1> QED BY <1>1, <1>2, <1>3, <1>4 DEF d

\* The spacing rounded up: quota requests take the whole period.
LEMMA CeilEmissionCovers ==
    ASSUME NEW period \in Nat \ {0}, NEW quota \in Nat \ {0}
    PROVE  /\ CeilEmission(period, quota) \in Nat \ {0}
           /\ quota * CeilEmission(period, quota) >= period
<1> DEFINE x == period + quota - 1
           d == x \div quota
<1>1. x \in Nat /\ d \in Nat /\ x = quota * d + (x % quota) /\ x % quota \in 0 .. quota - 1
    OBVIOUS
<1>2. CeilEmission(period, quota) = d
    BY DEF CeilEmission
<1> HIDE DEF x, d
<1>3. quota * d >= period
    BY <1>1 DEF x
<1>4. ASSUME d = 0 PROVE FALSE
    <2>1. quota * d = 0
        BY <1>4
    <2> QED BY <1>3, <2>1
<1> QED BY <1>1, <1>2, <1>3, <1>4

\* At most burst more fit after an admission.
LEMMA FittingBound ==
    ASSUME NEW e \in Nat \ {0}, NEW burst \in Nat, NEW margin \in Nat \ {0}
    PROVE  /\ Fitting(margin, e, burst) \in 0 .. burst
           /\ \A k \in 1 .. burst + 1 :
                 (k - 1) * e <= burst * e - margin
                     <=> k <= Fitting(margin, e, burst)
<1> DEFINE all == burst * e
           free == all - margin
           fit == free \div e
<1>1. all \in Nat
    OBVIOUS
<1>2. CASE margin > all
    <2>1. Fitting(margin, e, burst) = 0
        BY <1>1, <1>2 DEF Fitting
    <2>2. \A k \in 1 .. burst + 1 : (k - 1) * e >= 0
        OBVIOUS
    <2> QED BY <1>1, <1>2, <2>1, <2>2
<1>3. CASE margin <= all
    <2>1. free \in Nat
        BY <1>1, <1>3
    <2>2. Fitting(margin, e, burst) = fit + 1
        BY <1>3 DEF Fitting
    <2> HIDE DEF all
    <2>3. \A k \in Int : k * e <= free <=> k <= fit
        BY <2>1, DivBound
    <2>4. 0 <= fit /\ ~ burst <= fit
        <3>1. 0 * e <= free
            BY <2>1
        <3>2. ~ burst * e <= free
            BY <1>1 DEF all
        <3> QED BY <2>3, <3>1, <3>2
    <2>5. fit \in Int
        BY <2>1
    <2> HIDE DEF fit
    <2>6. Fitting(margin, e, burst) \in 0 .. burst
        BY <2>2, <2>4, <2>5
    <2>7. ASSUME NEW k \in 1 .. burst + 1
          PROVE  (k - 1) * e <= free <=> k <= fit + 1
        <3> DEFINE j == k - 1
        <3>1. j \in Int /\ (j <= fit <=> k <= fit + 1)
            BY <2>5
        <3> QED BY <2>3, <3>1
    <2> QED BY <2>2, <2>6, <2>7 DEF all
<1> QED BY <1>1, <1>2, <1>3

\* The same counted from the time stored: the k-th further request is not
\* due too far ahead.
LEMMA FittingCounts ==
    ASSUME NEW e \in Nat \ {0}, NEW burst \in Nat, NEW now \in Nat, NEW new \in Nat, new > now,
           NEW k \in 1 .. burst + 1
    PROVE  now >= new + (k - 1 - burst) * e <=> k <= Fitting(new - now, e, burst)
<1> DEFINE margin == new - now
           all == burst * e
           more == (k - 1) * e
<1>1. margin \in Nat \ {0} /\ margin = new - now
    OBVIOUS
<1>2. more <= all - margin <=> k <= Fitting(margin, e, burst)
    BY <1>1, FittingBound
<1>3. (k - 1 - burst) * e = more - all /\ more \in Int /\ all \in Int
    OBVIOUS
<1> HIDE DEF margin, all, more
<1>4. now >= new + (k - 1 - burst) * e <=> more <= all - margin
    BY <1>1, <1>3
<1> QED BY <1>2, <1>4 DEF margin

\* What the answer d to a request of time now says when the time stored is t.
Answers(d, t, now, e, burst) ==
    /\ d.tat \in Nat /\ d.remaining \in 0 .. burst /\ d.retryAfter \in Nat
    /\ d.allowed \in BOOLEAN
    /\ d.allowed <=> now >= Earliest(t, e, burst)
    /\ d.allowed => /\ d.tat = Charged(t, now, e)
                    /\ d.remaining = Fitting(d.tat - now, e, burst)
                    /\ d.retryAfter = 0
    /\ ~d.allowed => d.tat = t /\ d.retryAfter = Earliest(t, e, burst) - now

LEMMA DecideAnswers ==
    ASSUME NEW e \in Nat \ {0}, NEW burst \in Nat, NEW t \in Nat, NEW now \in Nat \ {0}
    PROVE  Answers(Decide(t, now, e, burst), t, now, e, burst)
<1> SUFFICES ASSUME NEW d, d = Decide(t, now, e, burst) PROVE Answers(d, t, now, e, burst)
    OBVIOUS
<1> DEFINE new == Charged(t, now, e)
           wait == Earliest(t, e, burst) - now
<1>1. new \in Nat /\ new - now \in Nat \ {0}
    BY DEF Charged
<1>2. Fitting(new - now, e, burst) \in 0 .. burst
    BY <1>1, FittingBound
<1>3. Earliest(t, e, burst) \in Int
    BY DEF Earliest
<1> HIDE DEF new
<1>4. CASE now >= Earliest(t, e, burst)
    <2>1. ~(now < Earliest(t, e, burst))
        BY <1>3, <1>4
    <2>2. d = [allowed |-> TRUE, tat |-> new, retryAfter |-> 0,
               remaining |-> Fitting(new - now, e, burst)]
        BY <2>1 DEF Decide, new
    <2>3. d.allowed = TRUE
        BY <2>2
    <2>4. /\ d.tat \in Nat /\ d.remaining \in 0 .. burst /\ d.retryAfter \in Nat
          /\ d.tat = Charged(t, now, e) /\ d.remaining = Fitting(d.tat - now, e, burst)
          /\ d.retryAfter = 0
        BY <1>1, <1>2, <2>2 DEF new
    <2> QED BY <1>4, <2>3, <2>4, Zenon DEF Answers
<1>5. CASE ~(now >= Earliest(t, e, burst))
    <2>1. now < Earliest(t, e, burst) /\ wait \in Nat
        BY <1>3, <1>5
    <2>2. d = [allowed |-> FALSE, tat |-> t, remaining |-> 0, retryAfter |-> wait]
        BY <2>1 DEF Decide
    <2>3. d.allowed = FALSE
        BY <2>2
    <2>4. /\ d.tat \in Nat /\ d.remaining \in 0 .. burst /\ d.retryAfter \in Nat
          /\ d.tat = t /\ d.retryAfter = wait
        BY <2>1, <2>2
    <2> QED BY <1>5, <2>3, <2>4, Zenon DEF Answers
<1> QED BY <1>4, <1>5

-----------------------------------------------------------------------------
(***************************************************************************)
(* The stored time t is the latest of what each admitted request i asks    *)
(* for: its own time and one spacing for itself and every later one.  Paid *)
(* says that t is no earlier, Tight that it is no later, and Spaced what   *)
(* the admissions so far owe to Paid.                                      *)
(***************************************************************************)
Due(log, i, e) == log[i] + (Len(log) - i + 1) * e

Paid(log, t, e) == \A i \in DOMAIN log : t >= Due(log, i, e)
Tight(log, t, e) == IF log = <<>> THEN t = 0 ELSE \E i \in DOMAIN log : t = Due(log, i, e)
Spaced(log, e, burst) ==
    \A i, j \in DOMAIN log : i < j => log[j] - log[i] >= (j - i - burst) * e

StandsFor(t, log, e, burst) == Paid(log, t, e) /\ Tight(log, t, e) /\ Spaced(log, e, burst)

\* Room of module Pacing.
RoomFor(log, t, k, e, burst) ==
    \A i \in DOMAIN log : t - log[i] >= (Len(log) - i + k - burst) * e

\* One more request moves every due time by one spacing.
Extended(longer, log, now, e) ==
    /\ \A i \in DOMAIN log : /\ i \in Nat /\ Due(log, i, e) \in Nat
                             /\ Due(longer, i, e) = Due(log, i, e) + e
                             /\ longer[i] = log[i]
    /\ Due(longer, Len(log) + 1, e) = now + e
    /\ longer[Len(log) + 1] = now
    /\ DOMAIN longer = DOMAIN log \cup {Len(log) + 1}
    /\ longer # <<>>

LEMMA DueAppend ==
    ASSUME NEW e \in Nat \ {0}, NEW log \in Seq(Nat), NEW now \in Nat
    PROVE  Extended(Append(log, now), log, now, e)
<1> DEFINE longer == Append(log, now)
<1>1. /\ longer \in Seq(Nat)
      /\ Len(longer) = Len(log) + 1
      /\ longer[Len(log) + 1] = now
      /\ DOMAIN longer = DOMAIN log \cup {Len(log) + 1}
      /\ \A i \in DOMAIN log : longer[i] = log[i]
      /\ longer # <<>>
    OBVIOUS
<1> HIDE DEF longer
<1>2. ASSUME NEW i \in DOMAIN log
      PROVE  i \in Nat /\ Due(log, i, e) \in Nat /\ Due(longer, i, e) = Due(log, i, e) + e
    <2>1. i \in 1 .. Len(log) /\ log[i] \in Nat /\ Len(log) \in Nat
        OBVIOUS
    <2> DEFINE k == Len(log) - i + 1
    <2>2. k \in Nat
        BY <2>1
    <2>3. Len(longer) - i + 1 = k + 1
        BY <1>1, <2>1
    <2>4. Due(log, i, e) = log[i] + k * e /\ Due(longer, i, e) = log[i] + (k + 1) * e
        BY <1>1, <2>3 DEF Due
    <2> HIDE DEF k
    <2>5. k * e \in Nat /\ (k + 1) * e = k * e + e
        BY <2>2
    <2> QED BY <2>1, <2>4, <2>5
<1>3. Due(longer, Len(log) + 1, e) = now + e
    <2>1. Len(longer) - (Len(log) + 1) + 1 = 1
        BY <1>1
    <2> QED BY <1>1, <2>1 DEF Due
<1> QED BY <1>1, <1>2, <1>3 DEF longer, Extended

\* What decide stores keeps the invariant of an admitted request.
LEMMA AdmitStands ==
    ASSUME NEW e \in Nat \ {0}, NEW burst \in Nat,
           NEW log \in Seq(Nat), NEW t \in Nat, NEW now \in Nat \ {0},
           StandsFor(t, log, e, burst), now >= Earliest(t, e, burst)
    PROVE  StandsFor(Charged(t, now, e), Append(log, now), e, burst)
<1> USE DEF StandsFor
<1> DEFINE longer == Append(log, now)
           new == Charged(t, now, e)
<1>1. new \in Nat /\ new >= now + e /\ new >= t + e
      /\ (new = now + e \/ (new = t + e /\ t # 0))
    BY DEF Charged
<1>2. Extended(longer, log, now, e)
    BY now \in Nat, DueAppend
<1> HIDE DEF new, longer
<1>3. Paid(longer, new, e)
    BY <1>1, <1>2 DEF Paid, Extended
<1>4. Tight(longer, new, e)
    BY <1>1, <1>2 DEF Tight, Extended
<1>5. Spaced(longer, e, burst)
    <2> DEFINE n == Len(log) + 1
    <2>1. ASSUME NEW i \in DOMAIN log
          PROVE  now - log[i] >= (n - i - burst) * e
        <3>1. i \in 1 .. Len(log) /\ log[i] \in Nat /\ Len(log) \in Nat
            OBVIOUS
        <3> DEFINE k == n - i
        <3>2. k \in Nat /\ k = Len(log) - i + 1
            BY <3>1
        <3>3. t >= log[i] + k * e
            BY <3>2 DEF Paid, Due
        <3> HIDE DEF k
        <3>4. /\ (k - burst) * e = k * e - burst * e
              /\ k * e \in Nat
              /\ burst * e \in Nat
            BY <3>2
        <3>5. now >= t - burst * e
            BY DEF Earliest
        <3>6. now - log[i] >= (k - burst) * e
            BY <3>1, <3>3, <3>4, <3>5
        <3> QED BY <3>6 DEF k
    <2>2. ASSUME NEW i \in DOMAIN longer, NEW j \in DOMAIN longer, i < j
          PROVE  longer[j] - longer[i] >= (j - i - burst) * e
        <3>1. i \in DOMAIN log
            BY <1>2, <2>2 DEF Extended
        <3>2. CASE j \in DOMAIN log
            BY <1>2, <2>2, <3>1, <3>2 DEF Spaced, Extended
        <3>3. CASE j = n
            BY <1>2, <2>1, <3>1, <3>3 DEF Extended
        <3> QED BY <1>2, <2>2, <3>2, <3>3 DEF Extended
    <2> QED BY <2>2 DEF Spaced
<1> QED BY <1>3, <1>4, <1>5 DEF new, longer

\* One stored time answers for the whole log.
LEMMA RoomIsTat ==
    ASSUME NEW e \in Nat \ {0}, NEW burst \in Nat, NEW log \in Seq(Nat), log # <<>>, NEW t \in Nat, Paid(log, t, e), Tight(log, t, e),
           NEW s \in Int, NEW k \in Int
    PROVE  RoomFor(log, s, k, e, burst) <=> s >= t + (k - 1 - burst) * e
<1> DEFINE more == (k - 1 - burst) * e
<1>1. more \in Int
    OBVIOUS
<1>2. ASSUME NEW i \in DOMAIN log
      PROVE  /\ Due(log, i, e) \in Int
             /\ s - log[i] >= (Len(log) - i + k - burst) * e <=> s >= Due(log, i, e) + more
    <2> DEFINE own == Len(log) - i + 1
    <2>1. own \in Int /\ log[i] \in Nat
        OBVIOUS
    <2>2. Len(log) - i + k - burst = own + (k - 1 - burst)
        OBVIOUS
    <2>3. Due(log, i, e) = log[i] + own * e
        BY DEF Due
    <2> HIDE DEF own
    <2>4. /\ own * e \in Int
          /\ (own + (k - 1 - burst)) * e = own * e + more
        BY <2>1
    <2> DEFINE needed == (Len(log) - i + k - burst) * e
    <2>5. needed = own * e + more
        BY <2>2, <2>4
    <2> HIDE DEF more, needed
    <2>6. s - log[i] >= needed <=> s >= Due(log, i, e) + more
        BY <1>1, <2>1, <2>3, <2>4, <2>5
    <2> QED BY <2>1, <2>3, <2>4, <2>6 DEF needed
<1> HIDE DEF more
<1>3. RoomFor(log, s, k, e, burst) <=> \A i \in DOMAIN log : s >= Due(log, i, e) + more
    BY <1>2 DEF RoomFor
<1>4. ASSUME s >= t + more, NEW i \in DOMAIN log PROVE s >= Due(log, i, e) + more
    BY <1>1, <1>2, <1>4 DEF Paid
<1>5. ASSUME \A i \in DOMAIN log : s >= Due(log, i, e) + more PROVE s >= t + more
    BY <1>5 DEF Tight
<1> QED BY <1>3, <1>4, <1>5 DEF more

\* The decision made from the stored time is the one the log of all that was
\* admitted calls for: a request is admitted when there is room for it,
\* remaining and retryAfter are exact, and what is stored stands for the log
\* that results (Limiter.AllowAt, Static.Allow).
THEOREM DecisionPaces ==
    ASSUME NEW e \in Nat \ {0}, NEW burst \in Nat,
           NEW log \in Seq(Nat), NEW t \in Nat, NEW now \in Nat \ {0},
           StandsFor(t, log, e, burst),
           NEW d, Answers(d, t, now, e, burst)
    PROVE  /\ d.allowed =>
                /\ RoomFor(log, now, 1, e, burst)
                /\ StandsFor(d.tat, Append(log, now), e, burst)
                /\ \A k \in 1 .. burst + 1 :
                      RoomFor(Append(log, now), now, k, e, burst) <=> k <= d.remaining
           /\ ~d.allowed =>
                /\ d.tat = t
                /\ ~RoomFor(log, now, 1, e, burst)
                /\ RoomFor(log, now + d.retryAfter, 1, e, burst)
                /\ ~RoomFor(log, now + d.retryAfter - 1, 1, e, burst)
<1> DEFINE earliest == Earliest(t, e, burst)
           free == burst * e
           longer == Append(log, now)
<1>1. /\ d.tat \in Nat /\ d.allowed \in BOOLEAN /\ d.retryAfter \in Nat
      /\ d.allowed <=> now >= earliest
      /\ d.allowed => /\ d.tat = Charged(t, now, e)
                      /\ d.remaining = Fitting(d.tat - now, e, burst)
      /\ ~d.allowed => d.tat = t /\ d.retryAfter = earliest - now
    BY Zenon DEF Answers
<1>2. earliest = t - free /\ free \in Nat /\ earliest \in Int
    BY DEF Earliest
<1>3. Paid(log, t, e) /\ Tight(log, t, e)
    BY DEF StandsFor
<1> HIDE DEF earliest
<1>4. ASSUME NEW s \in Int, log # <<>> PROVE RoomFor(log, s, 1, e, burst) <=> s >= earliest
    <2>1. RoomFor(log, s, 1, e, burst) <=> s >= t + (1 - 1 - burst) * e
        BY <1>3, <1>4, RoomIsTat
    <2>2. (1 - 1 - burst) * e = 0 - free
        OBVIOUS
    <2> QED BY <1>2, <2>1, <2>2
<1>5. ASSUME d.allowed
      PROVE  /\ RoomFor(log, now, 1, e, burst)
             /\ StandsFor(d.tat, longer, e, burst)
             /\ \A k \in 1 .. burst + 1 : RoomFor(longer, now, k, e, burst) <=> k <= d.remaining
    <2>1. RoomFor(log, now, 1, e, burst)
        <3>1. CASE log = <<>>
            BY <3>1 DEF RoomFor
        <3>2. CASE log # <<>>
            BY <1>1, <1>4, <1>5, <3>2
        <3> QED BY <3>1, <3>2
    <2>2. d.tat = Charged(t, now, e) /\ now >= Earliest(t, e, burst)
        BY <1>1, <1>5 DEF earliest
    <2>3. StandsFor(d.tat, longer, e, burst)
        <3>1. StandsFor(Charged(t, now, e), longer, e, burst)
            BY <2>2, AdmitStands
        <3> QED BY <2>2, <3>1, Zenon
    <2>4. longer \in Seq(Nat) /\ longer # <<>>
        OBVIOUS
    <2> HIDE DEF longer
    <2>5. ASSUME NEW k \in 1 .. burst + 1
          PROVE  RoomFor(longer, now, k, e, burst) <=> k <= d.remaining
        <3>1. RoomFor(longer, now, k, e, burst) <=> now >= d.tat + (k - 1 - burst) * e
            BY <1>1, <2>3, <2>4, RoomIsTat DEF StandsFor
        <3>2. d.tat > now
            BY <2>2 DEF Charged
        <3>3. now >= d.tat + (k - 1 - burst) * e <=> k <= Fitting(d.tat - now, e, burst)
            BY <1>1, <3>2, FittingCounts
        <3> QED BY <1>1, <1>5, <3>1, <3>3
    <2> QED BY <2>1, <2>3, <2>5
<1>6. ASSUME ~d.allowed
      PROVE  /\ d.tat = t
             /\ ~RoomFor(log, now, 1, e, burst)
             /\ RoomFor(log, now + d.retryAfter, 1, e, burst)
             /\ ~RoomFor(log, now + d.retryAfter - 1, 1, e, burst)
    <2>0. d.retryAfter = earliest - now /\ ~(now >= earliest)
        BY <1>1, <1>6, Zenon
    <2>1. now < earliest /\ now + d.retryAfter = earliest /\ now + d.retryAfter - 1 = earliest - 1
        BY <1>2, <2>0
    <2>2. log # <<>>
        BY <1>2, <1>3, <2>1 DEF Tight
    <2>3. /\ ~RoomFor(log, now, 1, e, burst)
          /\ RoomFor(log, earliest, 1, e, burst)
          /\ ~RoomFor(log, earliest - 1, 1, e, burst)
        BY <1>2, <1>4, <2>1, <2>2
    <2> QED BY <1>1, <1>6, <2>1, <2>3, Zenon
<1> QED BY <1>5, <1>6 DEF longer
===============================================================================
