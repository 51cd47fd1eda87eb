--------------------------------- MODULE Gcra ---------------------------------
(***************************************************************************)
(* The admission arithmetic both limiters share: decide of                 *)
(* internal/ratelimit/gcra.go and the body of allow in                     *)
(* internal/coordinator/share_gcra.go.  Times are numbers of ticks (the    *)
(* code's nanoseconds), 0 is the zero time.Time of a customer never seen,  *)
(* and every other time is later.                                          *)
(***************************************************************************)
EXTENDS Integers

\* Mutant of CeilEmission: the quotient is truncated.
TruncatedEmission(period, quota) == period \div quota

\* Params.emissionInterval: the spacing, rounded up.
CeilEmission(period, quota) == (period + quota - 1) \div quota

\* The spacing of a node's share: rounded down, and a share of 0 counts as 1.
FloorEmission(period, quota) == period \div (IF quota < 1 THEN 1 ELSE quota)

\* allowAt: the earliest time at which a request is admitted.
Earliest(tat, emission, burst) == tat - burst * emission

\* The theoretical arrival time once a request of time now is admitted.
Charged(tat, now, emission) == (IF now > tat THEN now ELSE tat) + emission

\* Further requests that fit at the same instant when the next is due margin
\* later.
Fitting(margin, emission, burst) ==
    IF margin <= burst * emission THEN (burst * emission - margin) \div emission + 1 ELSE 0

\* Mutant of Decide: a rejected request is charged as well.
DecideChargesAll(tat, now, emission, burst) ==
    LET newTat == Charged(tat, now, emission)
    IN  IF now < Earliest(tat, emission, burst)
        THEN [allowed |-> FALSE, tat |-> newTat, remaining |-> 0,
              retryAfter |-> Earliest(tat, emission, burst) - now]
        ELSE [allowed |-> TRUE, tat |-> newTat, retryAfter |-> 0,
              remaining |-> Fitting(newTat - now, emission, burst)]

\* Mutant of Decide: remaining is what was left before this request.
DecideCountsItself(tat, now, emission, burst) ==
    IF now < Earliest(tat, emission, burst)
    THEN [allowed |-> FALSE, tat |-> tat, remaining |-> 0,
          retryAfter |-> Earliest(tat, emission, burst) - now]
    ELSE [allowed |-> TRUE, tat |-> Charged(tat, now, emission), retryAfter |-> 0,
          remaining |-> Fitting(tat - now, emission, burst)]

\* decide: the answer to a request of time now, and the time to store.
Decide(tat, now, emission, burst) ==
    LET newTat == Charged(tat, now, emission)
    IN  IF now < Earliest(tat, emission, burst)
        THEN [allowed |-> FALSE, tat |-> tat, remaining |-> 0,
              retryAfter |-> Earliest(tat, emission, burst) - now]
        ELSE [allowed |-> TRUE, tat |-> newTat, retryAfter |-> 0,
              remaining |-> Fitting(newTat - now, emission, burst)]
===============================================================================
