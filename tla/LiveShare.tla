------------------------------- MODULE LiveShare -------------------------------
(***************************************************************************)
(* One customer at one node of the peer strategy: the shareState of        *)
(* internal/coordinator/share_gcra.go, whose quota the rebalancer sets     *)
(* while requests are decided.  A request reads the clock first and is     *)
(* decided later, under the lock setQuota takes too; the quota may be      *)
(* another one by then, and requests are decided out of order.             *)
(***************************************************************************)
EXTENDS Gcra, Sequences, FiniteSets

CONSTANTS
    Workers,    \* the goroutines that handle requests
    Shares,     \* the quotas the node may be given
    Period,     \* time.Minute, in ticks
    Burst,      \* NodeBurst
    MaxTime     \* bound: the last tick

ASSUME SharesAssumption == Shares \subseteq 0 .. Period /\ Shares # {}
ASSUME ParamsAssumption == Period \in Nat \ {0} /\ Burst \in Nat
ASSUME TimeAssumption == MaxTime \in Nat

VARIABLES
    clock,      \* what the clock shows
    arrival,    \* arrival[w]: the time w has read for its request, 0 when idle
    quota,      \* shareState.quota
    tat,        \* shareState.tat
    admitted,   \* history: the admitted requests, with what was spent before each
    spent,      \* history: the sum of the emission intervals charged
    answer      \* the last decision, with the time of its request

vars == <<clock, arrival, quota, tat, admitted, spent, answer>>
history == <<admitted, spent, answer>>

\* The emission interval of share q.
Emission(q) == FloorEmission(Period, q)

TypeOK ==
    /\ clock \in Nat \ {0}
    /\ arrival \in [Workers -> Nat]
    /\ quota \in Shares
    /\ tat \in Nat
    /\ admitted \in Seq([at : Nat, before : Nat])
    /\ spent \in Nat
    /\ answer \in [at : Nat, allowed : BOOLEAN, remaining : 0 .. Burst, retryAfter : Nat]

Init ==
    /\ clock = 1
    /\ arrival = [w \in Workers |-> 0]
    /\ quota \in Shares
    /\ tat = 0
    /\ admitted = <<>>
    /\ spent = 0
    /\ answer = [at |-> 0, allowed |-> TRUE, remaining |-> Burst, retryAfter |-> 0]

PassTime ==
    /\ clock < MaxTime  \* bound
    /\ clock' = clock + 1
    /\ UNCHANGED <<arrival, quota, tat, history>>

\* The server reads the clock for a request.
Arrive(w) ==
    /\ arrival[w] = 0
    /\ arrival' = [arrival EXCEPT ![w] = clock]
    /\ UNCHANGED <<clock, quota, tat, history>>

\* allow: the request of w is decided under the lock, at the share of then.
AllowRequest(w) ==
    /\ arrival[w] # 0
    /\ LET now == arrival[w]
           d == Decide(tat, now, Emission(quota), Burst)
       IN  /\ tat' = d.tat
           /\ IF d.allowed
              THEN /\ admitted' = Append(admitted, [at |-> now, before |-> spent])
                   /\ spent' = spent + Emission(quota)
              ELSE UNCHANGED <<admitted, spent>>
           /\ answer' = [at |-> now, allowed |-> d.allowed,
                         remaining |-> d.remaining, retryAfter |-> d.retryAfter]
    /\ arrival' = [arrival EXCEPT ![w] = 0]
    /\ UNCHANGED <<clock, quota>>

\* Mutant of SetQuota: the customer gets a fresh limiter with the new quota.
SetQuotaFresh(q) ==
    /\ quota' = q
    /\ tat' = 0
    /\ UNCHANGED <<clock, arrival, history>>

\* setQuota: tat is untouched.
SetQuota(q) ==
    /\ quota' = q
    /\ UNCHANGED <<clock, arrival, tat, history>>

Next ==
    \/ PassTime
    \/ \E w \in Workers : Arrive(w) \/ AllowRequest(w)
    \/ \E q \in Shares : SetQuota(q)

Spec == Init /\ [][Next]_vars

-----------------------------------------------------------------------------
\* Properties

\* However the share changes, each request is charged the spacing in force
\* when it was admitted, no change forgives or revalues what was spent, and
\* Remaining and RetryAfter are exact for the share of the decision.
Pace == INSTANCE LivePacing WITH Spacings <- {Emission(q) : q \in Shares},
                                 spacing <- Emission(quota)
KeepsLivePace == Pace!PacingSpec

\* A share that was small for a moment, even 0, mutes the customer for no
\* longer than the burst and one more request are worth at the smallest
\* share, wherever the share has gone since.
NeverLockedOut ==
    \E q \in Shares : answer.at + answer.retryAfter <= clock + (Burst + 1) * Emission(q)

\* "This bound [q_node + burst in any rolling window] holds within a single
\* node regardless of what the coordination layer is doing concurrently"
\* (DESIGN-NOTES.md): in no window are more admitted than the largest share
\* plus Burst.
ShareWindowBound ==
    \E q \in Shares : \A i \in DOMAIN admitted :
        Cardinality({j \in DOMAIN admitted :
            /\ admitted[i].at - Period < admitted[j].at
            /\ admitted[j].at <= admitted[i].at}) <= q + Burst
===============================================================================
