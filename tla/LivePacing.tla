------------------------------ MODULE LivePacing ------------------------------
(***************************************************************************)
(* Module Pacing with a pace that changes: each request admitted costs the *)
(* spacing in force when it was admitted, a change revalues none of them,  *)
(* and what is tolerated at once is Burst times the spacing in force now.  *)
(***************************************************************************)
EXTENDS Integers, Sequences

CONSTANTS
    Spacings,   \* the times a request may be worth
    Burst       \* requests that need not be paid for

VARIABLES
    admitted,   \* the admitted requests: their times, and what was spent before them
    spent,      \* what all admitted requests have cost
    spacing,    \* what a request costs now
    answer      \* the answer to the last request decided

pacingVars == <<admitted, spent, spacing, answer>>

Answers == [at : Nat, allowed : BOOLEAN, remaining : 0 .. Burst, retryAfter : Nat]

\* When the requests of log have cost total, the k-th of more requests, all
\* of time t, can be afforded: from any admitted request on, all but Burst
\* are paid for.
Room(log, total, t, k) ==
    \A i \in DOMAIN log : t - log[i].at >= total - log[i].before + (k - 1 - Burst) * spacing

PacingInit ==
    /\ admitted = <<>>
    /\ spent = 0
    /\ spacing \in Spacings
    /\ answer = [at |-> 0, allowed |-> TRUE, remaining |-> Burst, retryAfter |-> 0]

SetSpacing ==
    /\ spacing' \in Spacings
    /\ UNCHANGED <<admitted, spent, answer>>

Admit ==
    /\ answer'.allowed
    /\ Room(admitted, spent, answer'.at, 1)
    /\ admitted' = Append(admitted, [at |-> answer'.at, before |-> spent])
    /\ spent' = spent + spacing
    /\ \A k \in 1 .. Burst + 1 :
          Room(admitted', spent', answer'.at, k) <=> k <= answer'.remaining
    /\ UNCHANGED spacing

TurnAway ==
    /\ ~answer'.allowed
    /\ ~Room(admitted, spent, answer'.at, 1)
    /\ Room(admitted, spent, answer'.at + answer'.retryAfter, 1)
    /\ ~Room(admitted, spent, answer'.at + answer'.retryAfter - 1, 1)
    /\ UNCHANGED <<admitted, spent, spacing>>

PacingNext == SetSpacing \/ (answer' \in Answers /\ (Admit \/ TurnAway))

PacingSpec == PacingInit /\ [][PacingNext]_pacingVars
===============================================================================
