------------------------------ MODULE ServiceMC ------------------------------
(***************************************************************************)
(* Configurations for module Service: days of five ticks, a minute of four, *)
(* two customers, of which one is configured.                              *)
(***************************************************************************)
EXTENDS Service

CONSTANT c1

Tiers == [growth |-> 2, enterprise |-> 0]

Override(limit, start, end, grace, expires) ==
    [customer |-> c1, limit |-> limit, start |-> start, end |-> end, grace |-> grace,
     expires |-> expires, complete |-> TRUE]

Config(overrides) ==
    [tiers |-> Tiers, overrides |-> overrides,
     customers |-> <<[id |-> c1, tier |-> "growth", limit |-> 0]>>]

\* A window for two days; a window that expires after the first; nobody; two
\* windows that only their grace makes meet.
Nightly == Config(<<Override(3, 1, 3, 1, 2)>>)
OneDay == Config(<<Override(3, 3, 5, 0, 1)>>)
Nobody == [Config(<<>>) EXCEPT !.customers = <<>>]
Ambiguous == Config(<<Override(4, 0, 2, 1, 2), Override(3, 2, 4, 0, 2)>>)

MCConfigs == {Nightly, OneDay, Nobody, Ambiguous}
==============================================================================
