-------------------------------- MODULE Limiter --------------------------------
(***************************************************************************)
(* One customer of a ratelimit.Limiter (internal/ratelimit), with requests *)
(* on several goroutines: the HTTP handler reads the clock first, and only *)
(* then does the limiter take the lock under which the request is decided. *)
(* Requests are therefore decided in another order than that of the times  *)
(* they carry.                                                             *)
(*                                                                         *)
(* The store (store.go) keeps one time per customer and calls decide with  *)
(* the shard's lock held: a decision is one step, and other customers,     *)
(* also those of the same shard, only wait.                                *)
(***************************************************************************)
EXTENDS Gcra, Sequences, FiniteSets

CONSTANTS
    Workers,    \* the goroutines that handle requests
    Quota,      \* Params.Quota
    Period,     \* Params.Period, in ticks
    Burst,      \* Params.Burst
    MaxTime     \* bound: the last tick

ASSUME ParamsAssumption == Quota \in Nat \ {0} /\ Period \in Nat \ {0} /\ Burst \in Nat
ASSUME TimeAssumption == MaxTime \in Nat

VARIABLES
    clock,      \* what the clock shows
    arrival,    \* arrival[w]: the time w has read for its request, 0 when idle
    tat,        \* the store's entry for the customer, 0 if there is none
    admitted,   \* history: the times of the admitted requests, in lock order
    answer      \* the last decision, with the time of its request

vars == <<clock, arrival, tat, admitted, answer>>

Emission == CeilEmission(Period, Quota)

TypeOK ==
    /\ clock \in Nat \ {0}
    /\ arrival \in [Workers -> Nat]
    /\ tat \in Nat
    /\ admitted \in Seq(Nat)
    /\ answer \in [at : Nat, allowed : BOOLEAN, remaining : 0 .. Burst, retryAfter : Nat]

Init ==
    /\ clock = 1
    /\ arrival = [w \in Workers |-> 0]
    /\ tat = 0
    /\ admitted = <<>>
    /\ answer = [at |-> 0, allowed |-> TRUE, remaining |-> Burst, retryAfter |-> 0]

PassTime ==
    /\ clock < MaxTime  \* bound
    /\ clock' = clock + 1
    /\ UNCHANGED <<arrival, tat, admitted, answer>>

\* handlePing reads the clock for a request.
Arrive(w) ==
    /\ arrival[w] = 0
    /\ arrival' = [arrival EXCEPT ![w] = clock]
    /\ UNCHANGED <<clock, tat, admitted, answer>>

\* AllowAt, withTAT: the request of w is decided under the lock.
AllowAt(w) ==
    /\ arrival[w] # 0
    /\ LET now == arrival[w]
           d == Decide(tat, now, Emission, Burst)
       IN  /\ tat' = d.tat
           /\ admitted' = IF d.allowed THEN Append(admitted, now) ELSE admitted
           /\ answer' = [at |-> now, allowed |-> d.allowed,
                         remaining |-> d.remaining, retryAfter |-> d.retryAfter]
    /\ arrival' = [arrival EXCEPT ![w] = 0]
    /\ UNCHANGED clock

Next ==
    \/ PassTime
    \/ \E w \in Workers : Arrive(w) \/ AllowAt(w)

Spec == Init /\ [][Next]_vars

-----------------------------------------------------------------------------
\* Properties

\* In the Period up to any admitted request, the requests admitted are at
\* most Quota plus Burst, also when they are decided out of order
\* (DESIGN-NOTES.md, "The worst-case rolling 60-second window").
WindowBound ==
    \A i \in DOMAIN admitted :
        Cardinality({j \in DOMAIN admitted :
            admitted[i] - Period < admitted[j] /\ admitted[j] <= admitted[i]}) <= Quota + Burst

\* The one stored time stands for all that was admitted: no request is turned
\* away that could be afforded, and Remaining and RetryAfter are exact.
Pace == INSTANCE Pacing WITH Spacing <- Emission
KeepsPace == Pace!PacingSpec
===============================================================================
