-------------------------------- MODULE Policy --------------------------------
(***************************************************************************)
(* The policy configuration (internal/policy): what Validate accepts, and  *)
(* which limit a loaded configuration gives a customer at a time.          *)
(*                                                                         *)
(* A configuration is a record                                             *)
(*   tiers      the shared limit of every tier, 0 if it has none           *)
(*   customers  a sequence of [id, tier, limit], limit 0 if not set        *)
(*   overrides  a sequence of [customer, limit, start, end, grace,         *)
(*              expires, complete]                                         *)
(* The times start and end are offsets into a day, grace is a duration,    *)
(* expires the number of the day at whose first instant the override ends. *)
(* Ticket, reason and the fields that have to parse are one Boolean,       *)
(* complete.                                                               *)
(***************************************************************************)
EXTENDS Integers, Sequences

CONSTANTS
    Day,     \* ticks in a day
    NoName   \* the empty customer id

ASSUME DayAssumption == Day \in Nat \ {0}

Midnight(now) == now - (now % Day)

\* contractedLimit: the customer's own limit, else that of the tier.
ContractedLimit(cust, tiers) == IF cust.limit # 0 THEN cust.limit ELSE tiers[cust.tier]

Known(cfg, id) == \E i \in DOMAIN cfg.customers : cfg.customers[i].id = id

\* lookup: the first entry with this id.
Lookup(cfg, id) ==
    LET hits == {i \in DOMAIN cfg.customers : cfg.customers[i].id = id}
    IN  cfg.customers[CHOOSE i \in hits : \A j \in hits : i <= j]

Contracted(cfg, id) == ContractedLimit(Lookup(cfg, id), cfg.tiers)

\* The limits a configuration gives to its customers.
Given(cfg) ==
    {ContractedLimit(cfg.customers[i], cfg.tiers) : i \in DOMAIN cfg.customers}
        \cup {cfg.overrides[i].limit : i \in DOMAIN cfg.overrides}

\* What the fields are once the file has been parsed.
Parsed(cfg) ==
    /\ DOMAIN cfg.customers \subseteq Nat /\ DOMAIN cfg.overrides \subseteq Nat
    /\ \A t \in DOMAIN cfg.tiers : cfg.tiers[t] \in Int
    /\ \A i \in DOMAIN cfg.customers : cfg.customers[i].limit \in Int
    /\ \A i \in DOMAIN cfg.overrides :
          LET o == cfg.overrides[i] IN
          {o.limit, o.start, o.end, o.grace, o.expires} \subseteq Int

-----------------------------------------------------------------------------
\* Validate

\* A tier and at most one of its limit and a limit of the customer's own.
ValidCustomer(cfg, c) ==
    /\ c.id # NoName
    /\ c.tier \in DOMAIN cfg.tiers
    /\ cfg.tiers[c.tier] >= 0 /\ c.limit >= 0
    /\ (cfg.tiers[c.tier] = 0) # (c.limit = 0)

NoDuplicates(cfg) ==
    \A i, j \in DOMAIN cfg.customers :
        cfg.customers[i].id = cfg.customers[j].id => i = j

\* Mutant of ValidOverride: an override in its last day counts as expired.
ValidOverrideADayEarly(cfg, o, now) ==
    /\ o.customer # NoName /\ Known(cfg, o.customer)
    /\ o.complete
    /\ o.expires * Day > now + Day
    /\ o.limit > 0 /\ o.limit > Contracted(cfg, o.customer)
    /\ o.start < o.end
    /\ o.grace >= 0

\* An override raises the limit of a customer, until a day yet to come, in a
\* window within one day.
ValidOverride(cfg, o, now) ==
    /\ o.customer # NoName /\ Known(cfg, o.customer)
    /\ o.complete
    /\ o.expires * Day > now
    /\ o.limit > 0 /\ o.limit > Contracted(cfg, o.customer)
    /\ o.start < o.end
    /\ o.grace >= 0

\* Mutant of Overlapping: the grace of the first window is left out.
OverlappingWithoutGrace(o, p) ==
    /\ o.customer = p.customer
    /\ o.start < p.end /\ p.start < o.end

\* Two windows of one customer meet, their grace included.
Overlapping(o, p) ==
    /\ o.customer = p.customer
    /\ o.start < p.end + p.grace /\ p.start < o.end + o.grace

NoOverlap(cfg) ==
    \A i, j \in DOMAIN cfg.overrides :
        i < j => ~Overlapping(cfg.overrides[i], cfg.overrides[j])

\* Config.Validate, at the time now.
Validate(cfg, now) ==
    /\ DOMAIN cfg.tiers # {}
    /\ NoDuplicates(cfg)
    /\ \A i \in DOMAIN cfg.customers : ValidCustomer(cfg, cfg.customers[i])
    /\ \A i \in DOMAIN cfg.overrides : ValidOverride(cfg, cfg.overrides[i], now)
    /\ NoOverlap(cfg)

-----------------------------------------------------------------------------
\* Resolve

\* instantsFor: the window on the date of now, its grace added to the end.
WindowStart(o, now) == Midnight(now) + o.start
WindowEnd(o, now) == Midnight(now) + o.end + o.grace

\* activeAt
Active(o, now) ==
    /\ now < o.expires * Day
    /\ WindowStart(o, now) <= now /\ now < WindowEnd(o, now)

Applying(cfg, id, now) ==
    {i \in DOMAIN cfg.overrides :
        cfg.overrides[i].customer = id /\ Active(cfg.overrides[i], now)}

\* Resolve, for a customer the configuration knows: the first override that
\* applies, in the order of the file, else what is contracted.
Limit(cfg, id, now) ==
    LET hits == Applying(cfg, id, now)
    IN  IF hits = {}
        THEN Contracted(cfg, id)
        ELSE cfg.overrides[CHOOSE i \in hits : \A j \in hits : i <= j].limit
===============================================================================
