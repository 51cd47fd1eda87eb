-------------------------------- MODULE Pacing --------------------------------
(***************************************************************************)
(* What a rate limiter promises its customer, said of the requests it has  *)
(* admitted and of nothing else: of any k requests admitted in a row, all  *)
(* but Burst are paid for by the time between the first and the last, one  *)
(* Spacing each.  A request is turned away only when admitting it would    *)
(* break that, and the answer tells how long to wait or how many more      *)
(* would be admitted at once.  Requests may be decided in another order    *)
(* than that of their times.                                               *)
(***************************************************************************)
EXTENDS Integers, Sequences

CONSTANTS
    Spacing,    \* the time one request is worth
    Burst       \* requests that need not be paid for

VARIABLES
    admitted,   \* the times of the admitted requests, in the order of the decisions
    answer      \* the answer to the last request decided

pacingVars == <<admitted, answer>>

Answers == [at : Nat, allowed : BOOLEAN, remaining : 0 .. Burst, retryAfter : Nat]

\* After the requests of log, the k-th of more requests, all of time t, would
\* keep the pace.
Room(log, t, k) ==
    \A i \in DOMAIN log : t - log[i] >= (Len(log) - i + k - Burst) * Spacing

PacingInit ==
    /\ admitted = <<>>
    /\ answer = [at |-> 0, allowed |-> TRUE, remaining |-> Burst, retryAfter |-> 0]

\* The request is admitted, and as many more would be as the answer says.
Admit ==
    /\ answer'.allowed
    /\ Room(admitted, answer'.at, 1)
    /\ admitted' = Append(admitted, answer'.at)
    /\ \A k \in 1 .. Burst + 1 : Room(admitted', answer'.at, k) <=> k <= answer'.remaining

\* The request is turned away.  It would be admitted once it has waited as
\* long as the answer says, and no earlier.
TurnAway ==
    /\ ~answer'.allowed
    /\ ~Room(admitted, answer'.at, 1)
    /\ Room(admitted, answer'.at + answer'.retryAfter, 1)
    /\ ~Room(admitted, answer'.at + answer'.retryAfter - 1, 1)
    /\ UNCHANGED admitted

PacingNext == answer' \in Answers /\ (Admit \/ TurnAway)

PacingSpec == PacingInit /\ [][PacingNext]_pacingVars
===============================================================================
