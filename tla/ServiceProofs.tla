----------------------------- MODULE ServiceProofs -----------------------------
(***************************************************************************)
(* Theorems about module Service, for every file the node may be given,    *)
(* any edits, signals, crashes and clocks, and any number of handlers.     *)
(***************************************************************************)
EXTENDS Service, GcraTheorems, TLAPS

-----------------------------------------------------------------------------
(***************************************************************************)
(* What Validate buys, for every configuration and time: the overlap check *)
(* leaves at most one override in force, so that the order of the file     *)
(* does not matter; an override only ever raises a limit; and a            *)
(* configuration once accepted stays so until an override expires.         *)
(***************************************************************************)
LEMMA MidnightType == \A now \in Nat : Midnight(now) \in Int
BY DayAssumption DEF Midnight

\* Two overrides in force for one customer at one time have windows that
\* meet, which Validate refuses: at most one override of a valid configuration
\* applies at any time (config.go, "reject overlapping override windows").
THEOREM AtMostOneApplies ==
    ASSUME NEW conf, NEW t, NEW id, NEW now \in Nat, Parsed(conf), Validate(conf, t),
           NEW i \in Applying(conf, id, now), NEW j \in Applying(conf, id, now)
    PROVE  i = j
<1> DEFINE o == conf.overrides[i]
           p == conf.overrides[j]
           m == Midnight(now)
<1>1. /\ i \in DOMAIN conf.overrides /\ i \in Nat
      /\ j \in DOMAIN conf.overrides /\ j \in Nat
      /\ o.customer = p.customer
      /\ Active(o, now) /\ Active(p, now)
    BY DEF Applying, Parsed
<1>2. /\ o.start \in Int /\ o.end \in Int /\ o.grace \in Int
      /\ p.start \in Int /\ p.end \in Int /\ p.grace \in Int
    BY <1>1 DEF Parsed
<1>3. m \in Int
    BY MidnightType
<1>4. /\ m + o.start <= now /\ now < m + o.end + o.grace
      /\ m + p.start <= now /\ now < m + p.end + p.grace
    BY <1>1 DEF Active, WindowStart, WindowEnd
<1> HIDE DEF m
<1>5. o.start < p.end + p.grace /\ p.start < o.end + o.grace
    BY <1>2, <1>3, <1>4
<1>6. Overlapping(o, p) /\ Overlapping(p, o)
    BY <1>1, <1>5 DEF Overlapping
<1>7. ~(i < j) /\ ~(j < i)
    BY <1>1, <1>6 DEF Validate, NoOverlap
<1> QED BY <1>1, <1>7

\* A customer that is known has one entry.
LEMMA LookupFinds ==
    ASSUME NEW conf, NEW id, Parsed(conf), NoDuplicates(conf), Known(conf, id)
    PROVE  \E i \in DOMAIN conf.customers :
              conf.customers[i].id = id /\ Lookup(conf, id) = conf.customers[i]
<1> DEFINE hits == {i \in DOMAIN conf.customers : conf.customers[i].id = id}
<1>1. PICK i \in DOMAIN conf.customers : conf.customers[i].id = id
    BY DEF Known
<1>2. hits = {i} /\ i \in Nat
    BY <1>1 DEF NoDuplicates, Parsed
<1>3. (CHOOSE k \in hits : \A j \in hits : k <= j) = i
    BY <1>2
<1> QED BY <1>1, <1>3 DEF Lookup

\* The override that applies is the one whose limit is given, and it raises
\* what is contracted.
THEOREM ApplyingRules ==
    ASSUME NEW conf, NEW t, NEW id, NEW now \in Nat, Parsed(conf), Validate(conf, t),
           NEW i \in Applying(conf, id, now)
    PROVE  /\ Limit(conf, id, now) = conf.overrides[i].limit
           /\ Contracted(conf, id) < conf.overrides[i].limit
<1> DEFINE hits == Applying(conf, id, now)
<1>1. /\ i \in DOMAIN conf.overrides /\ i \in Nat /\ conf.overrides[i].customer = id
      /\ conf.overrides[i].limit \in Int
    BY DEF Applying, Parsed
<1>2. hits = {i}
    BY AtMostOneApplies
<1> HIDE DEF hits
<1>3. (CHOOSE k \in hits : \A j \in hits : k <= j) = i /\ hits # {}
    BY <1>1, <1>2
<1>4. Limit(conf, id, now) = conf.overrides[i].limit
    BY <1>3 DEF Limit, hits
<1>5. ValidOverride(conf, conf.overrides[i], t)
    BY <1>1 DEF Validate
<1>6. Contracted(conf, id) \in Int
    <2>1. Known(conf, id) /\ NoDuplicates(conf)
        BY <1>1, <1>5 DEF ValidOverride, Validate
    <2>2. PICK c \in DOMAIN conf.customers : Lookup(conf, id) = conf.customers[c]
        BY <2>1, LookupFinds
    <2>3. ValidCustomer(conf, conf.customers[c])
        BY <2>2 DEF Validate
    <2> QED BY <2>2, <2>3 DEF Contracted, ContractedLimit, Parsed, ValidCustomer
<1> QED BY <1>1, <1>4, <1>5, <1>6 DEF ValidOverride

\* What a known customer is given is one of the limits in the file.
LEMMA LimitGiven ==
    ASSUME NEW conf, NEW t, NEW id, NEW now \in Nat, Parsed(conf), Validate(conf, t), Known(conf, id)
    PROVE  Limit(conf, id, now) \in Given(conf)
<1>1. CASE Applying(conf, id, now) = {}
    <2>1. PICK c \in DOMAIN conf.customers : Lookup(conf, id) = conf.customers[c]
        BY LookupFinds DEF Validate
    <2>2. Limit(conf, id, now) = ContractedLimit(conf.customers[c], conf.tiers)
        BY <1>1, <2>1 DEF Limit, Contracted
    <2> QED BY <2>2 DEF Given
<1>2. CASE Applying(conf, id, now) # {}
    <2>1. PICK i \in Applying(conf, id, now) : TRUE
        BY <1>2
    <2>2. i \in DOMAIN conf.overrides
        BY DEF Applying
    <2>3. Limit(conf, id, now) = conf.overrides[i].limit
        BY ApplyingRules
    <2> QED BY <2>2, <2>3 DEF Given
<1> QED BY <1>1, <1>2

\* Time invalidates a configuration in one way only.
THEOREM OnlyExpiryInvalidates ==
    ASSUME NEW conf, NEW t, NEW now, Validate(conf, t),
           \A i \in DOMAIN conf.overrides : conf.overrides[i].expires * Day > now
    PROVE  Validate(conf, now)
BY DEF Validate, ValidOverride

LEMMA ValidEarlier ==
    ASSUME NEW conf, NEW t \in Nat, Parsed(conf), Validate(conf, t)
    PROVE  Validate(conf, 0)
<1> SUFFICES ASSUME NEW i \in DOMAIN conf.overrides PROVE conf.overrides[i].expires * Day > 0
    BY OnlyExpiryInvalidates
<1> DEFINE e == conf.overrides[i].expires * Day
<1>1. e > t
    BY DEF Validate, ValidOverride
<1>2. e \in Int
    BY DayAssumption DEF Parsed
<1> QED BY <1>1, <1>2

-----------------------------------------------------------------------------
\* The arithmetic of a share

LEMMA ShareType == \A limit \in Limits : NodeShare(limit) \in Nat \ {0}
<1> SUFFICES ASSUME NEW limit \in Limits PROVE NodeShare(limit) \in Nat \ {0}
    OBVIOUS
<1>1. /\ NodeCount \in Nat \ {0} /\ limit + NodeCount - 1 \in Nat
      /\ 1 * NodeCount <= limit + NodeCount - 1
    BY ServiceAssumption
<1> QED BY <1>1, DivBound DEF NodeShare

LEMMA EmissionType == \A limit \in Limits : Emission(limit) \in Nat \ {0} /\ Burst \in Nat
BY ShareType, CeilEmissionCovers, ServiceAssumption DEF Emission

LEMMA SecondsType ==
    /\ \A d \in Nat : CeilSeconds(d) \in Nat /\ Second * CeilSeconds(d) >= d
    /\ \A limit \in Limits : ResetSeconds(limit) \in Nat
<1> USE ServiceAssumption
<1>1. ASSUME NEW d \in Nat PROVE CeilSeconds(d) \in Nat /\ Second * CeilSeconds(d) >= d
    <2> DEFINE q == d \div Second
               c == CeilSeconds(d)
    <2>1. q \in Nat /\ d = Second * q + (d % Second) /\ d % Second \in 0 .. Second - 1
        OBVIOUS
    <2>2. c = q + (IF d % Second = 0 THEN 0 ELSE 1)
        BY DEF CeilSeconds
    <2> HIDE DEF q, c
    <2>3. Second * (q + 1) = Second * q + Second
        BY <2>1
    <2>4. c \in Nat /\ Second * c >= d
        BY <2>1, <2>2, <2>3
    <2> QED BY <2>4 DEF c
<1>2. ASSUME NEW limit \in Limits PROVE ResetSeconds(limit) \in Nat
    <2>2. NodeShare(limit) \in Nat \ {0}
        BY ShareType
    <2>3. Minute \div NodeShare(limit) \in Nat
        BY <2>2
    <2> QED BY <1>1, <2>3 DEF ResetSeconds
<1> QED BY <1>1, <1>2

\* A wait told to a client is at least the wait of the limiter.
LEMMA RetryAfterType ==
    ASSUME NEW wait \in Nat, NEW s \in RetryAfterSeconds(wait)
    PROVE  s \in Nat /\ Second * s >= wait
<1> DEFINE base == IF wait <= 0 THEN Second ELSE wait
<1>1. base \in Nat /\ base >= wait
    BY ServiceAssumption
<1> HIDE DEF base
<1>2. PICK j \in 0 .. base : s = CeilSeconds(base + j)
    BY DEF RetryAfterSeconds, base
<1>3. base + j \in Nat /\ base + j >= wait
    BY <1>1
<1>4. s \in Nat /\ Second * s >= base + j
    BY <1>2, <1>3, SecondsType
<1>5. Second * s \in Int
    BY <1>4, ServiceAssumption
<1> QED BY <1>1, <1>3, <1>4, <1>5

-----------------------------------------------------------------------------
(***************************************************************************)
(* The inductive invariant: what is served, or was ever served, has been   *)
(* validated; a request is under way only where something is served; and   *)
(* the time each limiter stores stands for all it has admitted.  That a    *)
(* validated configuration is valid at time 0 (ValidEarlier) keeps the     *)
(* invariant free of the clock, which a new start may set back.            *)
(***************************************************************************)
Served(f) == f \in Configs /\ Validate(f, 0)

ServedInv ==
    /\ phase \in {"serving", "stopping"} <=> cfg # NoConfig
    /\ cfg # NoConfig => Served(cfg)
    /\ \A f \in accepted : Served(f)
    /\ \A w \in Workers : request[w] # Idle => cfg # NoConfig /\ request[w].at > 0

PaceInv == \A k \in Keys : StandsFor(tat[k], admitted[k], Emission(k[2]), Burst)

Inv == TypeOK /\ ServedInv /\ PaceInv

LEMMA FreshPace == \A k \in Keys : StandsFor(0, <<>>, Emission(k[2]), Burst)
BY DEF StandsFor, Paid, Tight, Spaced

LEMMA LoadsServed ==
    ASSUME NEW f, NEW now \in Nat, Loads(f, now)
    PROVE  Served(f)
BY ValidEarlier, ConfigsAssumption DEF Loads, Served

LEMMA InitInv == Init => Inv
<1> SUFFICES ASSUME Init PROVE Inv
    OBVIOUS
<1> USE NodeAssumption, ServiceAssumption
<1>1. NodeTypeOK
    <2>1. Clock = StartTime /\ realTime = StartTime /\ offset = 0 /\ StartTime \in Nat \ {0}
        BY DEF Init, NodeInit, Clock
    <2>2. Clock > 0 /\ realTime \in Nat \ {0} /\ offset \in Int
        BY <2>1
    <2> QED BY <2>2, Zenon DEF Init, NodeInit, NodeTypeOK
<1>2. TypeOK
    BY <1>1 DEF Init, TypeOK, NoAnswer, Idle
<1>3. ServedInv
    BY DEF Init, NodeInit, ServedInv
<1>4. PaceInv
    BY FreshPace DEF Init, PaceInv
<1> QED BY <1>2, <1>3, <1>4 DEF Inv

\* The steps of the process.  Those after which it is there, or again there,
\* touch no request.
LEMMA GoingInv ==
    ASSUME Inv, Going, UNCHANGED <<request, limiterVars>>
    PROVE  Inv'
<1> USE NodeAssumption DEF Inv
<1>1. TypeOK /\ NodeTypeOK /\ ServedInv /\ PaceInv
    BY DEF TypeOK
<1>2. Clock \in Nat /\ Clock > 0
    BY <1>1 DEF NodeTypeOK, Clock
<1>3. SUFFICES NodeTypeOK' /\ ServedInv'
    <2>1. request' = request /\ tat' = tat /\ admitted' = admitted /\ answer' = answer /\ due' = due
        BY DEF limiterVars
    <2> QED BY <1>1, <1>3, <2>1, Zenon DEF TypeOK, PaceInv
<1>4. request' = request
    OBVIOUS
<1>5. ASSUME PassTime PROVE NodeTypeOK' /\ ServedInv'
    <2>1. Clock' > 0 /\ realTime' \in Nat \ {0}
        BY <1>1, <1>2, <1>5 DEF PassTime, Clock, NodeTypeOK
    <2>2. NodeTypeOK'
        BY <1>1, <1>5, <2>1, Zenon DEF PassTime, processVars, NodeTypeOK
    <2>3. ServedInv'
        BY <1>1, <1>4, <1>5, Zenon DEF PassTime, processVars, ServedInv, Served, Idle
    <2> QED BY <2>2, <2>3
<1>6. ASSUME NEW asOf \in DevClocks, Boot(asOf) PROVE NodeTypeOK' /\ ServedInv'
    <2>1. Clock' > 0 /\ offset' \in Int
        BY <1>1, <1>6 DEF Boot, Clock, NodeTypeOK
    <2>2. NodeTypeOK'
        BY <1>1, <1>6, <2>1, Zenon DEF Boot, NodeTypeOK
    <2>3. ServedInv'
        BY <1>1, <1>4, <1>6 DEF Boot, ServedInv, Served, Idle
    <2> QED BY <2>2, <2>3
<1>7. UNCHANGED <<realTime, offset>> => Clock' > 0
    BY <1>2 DEF Clock
<1>8. ASSUME NEW f \in Configs \cup {Unreadable}, Edit(f) PROVE NodeTypeOK' /\ ServedInv'
    <2>1. budget' \in Nat
        BY <1>1, <1>8 DEF Edit, NodeTypeOK
    <2>2. NodeTypeOK'
        BY <1>1, <1>7, <1>8, <2>1, Zenon DEF Edit, processVars, NodeTypeOK
    <2>3. ServedInv'
        BY <1>1, <1>4, <1>8, Zenon DEF Edit, processVars, ServedInv, Served, Idle
    <2> QED BY <2>2, <2>3
<1>9. ASSUME Serve PROVE NodeTypeOK' /\ ServedInv'
    <2>1. loaded \in Configs /\ Served(loaded) /\ loaded # NoConfig
        BY <1>2, <1>9, LoadsServed DEF Serve, Loads
    <2>2. NodeTypeOK'
        BY <1>1, <1>7, <1>9, <2>1, Zenon DEF Serve, NodeTypeOK
    <2>3. ServedInv'
        BY <1>1, <1>4, <1>9, <2>1, Zenon DEF Serve, ServedInv, Served, Idle
    <2> QED BY <2>2, <2>3
<1>10. ASSUME Terminate PROVE NodeTypeOK' /\ ServedInv'
    <2>1. budget' \in Nat
        BY <1>1, <1>10 DEF Terminate, NodeTypeOK
    <2>2. NodeTypeOK'
        BY <1>1, <1>7, <1>10, <2>1, Zenon DEF Terminate, NodeTypeOK
    <2>3. ServedInv'
        BY <1>1, <1>4, <1>10 DEF Terminate, ServedInv, Served, Idle
    <2> QED BY <2>2, <2>3
<1>11. ASSUME Hangup PROVE NodeTypeOK' /\ ServedInv'
    <2>1. budget' \in Nat
        BY <1>1, <1>11 DEF Hangup, NodeTypeOK
    <2>2. NodeTypeOK'
        BY <1>1, <1>7, <1>11, <2>1, Zenon DEF Hangup, NodeTypeOK
    <2>3. ServedInv'
        BY <1>1, <1>4, <1>11, Zenon DEF Hangup, ServedInv, Served, Idle
    <2> QED BY <2>2, <2>3
<1>12. ASSUME TakeSignal \/ LoadConfig PROVE NodeTypeOK' /\ ServedInv'
    <2>1. NodeTypeOK'
        BY <1>1, <1>7, <1>12, Zenon DEF TakeSignal, LoadConfig, NodeTypeOK
    <2>2. ServedInv'
        BY <1>1, <1>4, <1>12, Zenon DEF TakeSignal, LoadConfig, ServedInv, Served, Idle
    <2> QED BY <2>1, <2>2
<1>13. ASSUME Reload PROVE NodeTypeOK' /\ ServedInv'
    <2>1. phase = "serving" /\ cfg # NoConfig /\ Served(cfg)
        BY <1>1, <1>13 DEF Reload, ServedInv
    <2>2. cfg' \in Configs /\ Served(cfg') /\ cfg' # NoConfig
        <3>1. CASE Loads(loaded, Clock)
            <4>1. cfg' = loaded
                BY <1>13, <3>1, Zenon DEF Reload
            <4> QED BY <1>2, <3>1, <4>1, LoadsServed DEF Served
        <3>2. CASE ~Loads(loaded, Clock)
            <4>1. cfg' = cfg
                BY <1>13, <3>2, Zenon DEF Reload
            <4> QED BY <2>1, <4>1 DEF Served
        <3> QED BY <3>1, <3>2
    <2>3. NodeTypeOK'
        BY <1>1, <1>7, <1>13, <2>2, Zenon DEF Reload, NodeTypeOK
    <2>4. /\ phase' = phase /\ accepted' = accepted \cup {cfg'}
        BY <1>13 DEF Reload
    <2>5. ServedInv'
        BY <1>1, <1>4, <2>1, <2>2, <2>4, Zenon DEF ServedInv, Served, Idle
    <2> QED BY <2>3, <2>5
<1> QED
    BY <1>5, <1>6, <1>8, <1>9, <1>10, <1>11, <1>12, <1>13, Zenon DEF Going, Watch

\* Those that end it leave nothing behind but what it has served.
LEMMA EndingInv ==
    ASSUME Inv, Ending, Forget
    PROVE  Inv'
<1> USE NodeAssumption, ServiceAssumption DEF Inv
<1>1. TypeOK /\ NodeTypeOK /\ ServedInv /\ PaceInv
    BY DEF TypeOK
<1>2. Ended /\ budget' \in Nat
    BY <1>1 DEF Ending, RefuseToStart, Exit, Crash, FatalHangup, NodeTypeOK
<1>3. Clock' > 0
    BY <1>1, <1>2 DEF Ended, Clock, NodeTypeOK
<1>4. NodeTypeOK'
    BY <1>1, <1>2, <1>3, Zenon DEF Ended, NodeTypeOK
<1>5. TypeOK'
    BY <1>4 DEF Forget, TypeOK, NoAnswer, Idle
<1>6. ServedInv'
    BY <1>1, <1>2 DEF Ended, Forget, ServedInv, Served, Idle
<1>7. PaceInv'
    BY FreshPace DEF Forget, PaceInv
<1> QED BY <1>5, <1>6, <1>7

-----------------------------------------------------------------------------
\* The steps of a request

LEMMA ArriveInv ==
    ASSUME Inv, NEW w \in Workers, NEW id \in Customers, Arrive(w, id)
    PROVE  Inv'
<1> USE DEF Inv
<1>1. TypeOK /\ NodeTypeOK /\ ServedInv /\ PaceInv
    BY DEF TypeOK
<1>2. Clock \in Nat /\ Clock > 0 /\ cfg # NoConfig
    BY <1>1 DEF NodeTypeOK, Clock, Arrive, ServedInv
<1>3. UNCHANGED <<nodeVars, limiterVars>>
    BY DEF Arrive
<1>4. NodeTypeOK' /\ PaceInv'
    BY <1>1, <1>3, Zenon DEF nodeVars, processVars, limiterVars, NodeTypeOK, Clock, PaceInv
<1>5. request' = [request EXCEPT ![w] = [pc |-> "arrived", id |-> id, at |-> Clock]]
    BY DEF Arrive
<1>6. TypeOK'
    BY <1>1, <1>2, <1>3, <1>4, <1>5 DEF limiterVars, TypeOK
<1>7. ServedInv'
    BY <1>1, <1>2, <1>3, <1>5 DEF nodeVars, processVars, TypeOK, ServedInv, Served, Idle
<1> QED BY <1>4, <1>6, <1>7

LEMMA ResolveInv ==
    ASSUME Inv, NEW w \in Workers, Resolve(w)
    PROVE  Inv'
<1> USE DEF Inv
<1> DEFINE r == request[w]
           resolved == [pc |-> "resolved", id |-> r.id, at |-> r.at, limit |-> Limit(cfg, r.id, r.at)]
<1>1. TypeOK /\ NodeTypeOK /\ ServedInv /\ PaceInv
    BY DEF TypeOK
<1>2. r # Idle /\ r.id \in Customers /\ r.at \in Nat /\ r.at > 0
    BY <1>1 DEF Resolve, TypeOK, ServedInv, Idle
<1>3. cfg # NoConfig /\ Served(cfg)
    BY <1>1, <1>2 DEF ServedInv
<1>4. UNCHANGED <<nodeVars, limiterVars>>
    BY DEF Resolve
<1>5. NodeTypeOK' /\ PaceInv'
    BY <1>1, <1>4, Zenon DEF nodeVars, processVars, limiterVars, NodeTypeOK, Clock, PaceInv
<1>6. request' = [request EXCEPT ![w] = IF Known(cfg, r.id) THEN resolved ELSE Idle]
    BY DEF Resolve
<1>7. Known(cfg, r.id) => Limit(cfg, r.id, r.at) \in Limits
    BY <1>2, <1>3, LimitGiven, ConfigsAssumption, ServiceAssumption DEF Served
<1> HIDE DEF r
<1>8. TypeOK'
    <2>1. (IF Known(cfg, r.id) THEN resolved ELSE Idle) \in
              {Idle} \cup [pc : {"resolved"}, id : Customers, at : Nat, limit : Limits]
        BY <1>2, <1>7
    <2> HIDE DEF resolved
    <2> QED BY <1>1, <1>4, <1>5, <1>6, <2>1 DEF limiterVars, TypeOK
<1>9. ServedInv'
    <2>1. (IF Known(cfg, r.id) THEN resolved ELSE Idle) = Idle \/ resolved.at > 0
        BY <1>2
    <2> QED BY <1>1, <1>2, <1>3, <1>4, <1>6, <2>1 DEF nodeVars, processVars, TypeOK, ServedInv, Served
<1> QED BY <1>5, <1>8, <1>9

\* What a request is decided to be, for the limiter k and by the decision d.
Decides(w, k, d) ==
    /\ k \in Keys /\ k = <<request[w].id, request[w].limit>>
    /\ request[w].at \in Nat \ {0} /\ tat[k] \in Nat /\ admitted[k] \in Seq(Nat)
    /\ Answers(d, tat[k], request[w].at, Emission(k[2]), Burst)
    /\ tat' = [tat EXCEPT ![k] = d.tat]
    /\ admitted' = [admitted EXCEPT ![k] =
          IF d.allowed THEN Append(admitted[k], request[w].at) ELSE admitted[k]]
    /\ answer' = [answer EXCEPT ![k] =
          [at |-> request[w].at, allowed |-> d.allowed,
           remaining |-> d.remaining, retryAfter |-> d.retryAfter]]
    /\ \/ /\ d.allowed
          /\ due' = [due EXCEPT ![k] = request[w].at + Second * ResetSeconds(k[2])]
       \/ /\ ~d.allowed
          /\ \E s \in RetryAfterSeconds(d.retryAfter) :
                due' = [due EXCEPT ![k] = Earlier(due[k], request[w].at + Second * s)]

LEMMA AllowDecides ==
    ASSUME TypeOK, ServedInv, NEW w \in Workers, Allow(w)
    PROVE  \E k, d : Decides(w, k, d)
<1> DEFINE r == request[w]
           k == <<r.id, r.limit>>
           d == Decide(tat[k], r.at, Emission(r.limit), Burst)
<1>1. r.id \in Customers /\ r.limit \in Limits /\ r.at \in Nat /\ r.at > 0
    BY DEF Allow, TypeOK, ServedInv, Idle
<1>2. k \in Keys /\ k[2] = r.limit /\ r.at \in Nat \ {0}
    BY <1>1 DEF Keys
<1>3. tat[k] \in Nat /\ admitted[k] \in Seq(Nat)
    BY <1>2 DEF TypeOK
<1>4. Answers(d, tat[k], r.at, Emission(r.limit), Burst)
    BY <1>1, <1>2, <1>3, EmissionType, DecideAnswers
<1>5. /\ tat' = [tat EXCEPT ![k] = d.tat]
      /\ admitted' = [admitted EXCEPT ![k] =
            IF d.allowed THEN Append(admitted[k], r.at) ELSE admitted[k]]
      /\ answer' = [answer EXCEPT ![k] =
            [at |-> r.at, allowed |-> d.allowed,
             remaining |-> d.remaining, retryAfter |-> d.retryAfter]]
      /\ \/ /\ d.allowed
            /\ due' = [due EXCEPT ![k] = r.at + Second * ResetSeconds(r.limit)]
         \/ /\ ~d.allowed
            /\ \E s \in RetryAfterSeconds(d.retryAfter) :
                  due' = [due EXCEPT ![k] = Earlier(due[k], r.at + Second * s)]
    BY Zenon DEF Allow
<1> HIDE DEF d
<1>6. Decides(w, k, d)
    BY <1>2, <1>3, <1>4, <1>5, Zenon DEF Decides
<1> QED BY <1>6

LEMMA AllowInv ==
    ASSUME Inv, NEW w \in Workers, Allow(w)
    PROVE  Inv'
<1> USE DEF Inv
<1>1. TypeOK /\ NodeTypeOK /\ ServedInv /\ PaceInv
    BY DEF TypeOK
<1>2. UNCHANGED nodeVars /\ request' = [request EXCEPT ![w] = Idle]
    BY DEF Allow
<1>3. NodeTypeOK'
    BY <1>1, <1>2, Zenon DEF nodeVars, processVars, NodeTypeOK, Clock
<1>4. ServedInv'
    BY <1>1, <1>2 DEF nodeVars, processVars, TypeOK, ServedInv, Served
<1>5. PICK k, d : Decides(w, k, d)
    BY <1>1, AllowDecides
<1> DEFINE at == request[w].at
           e == Emission(k[2])
<1>6. /\ k \in Keys /\ at \in Nat \ {0} /\ tat[k] \in Nat /\ admitted[k] \in Seq(Nat)
      /\ Answers(d, tat[k], at, e, Burst)
      /\ tat' = [tat EXCEPT ![k] = d.tat]
      /\ admitted' = [admitted EXCEPT ![k] =
            IF d.allowed THEN Append(admitted[k], at) ELSE admitted[k]]
      /\ answer' = [answer EXCEPT ![k] =
            [at |-> at, allowed |-> d.allowed,
             remaining |-> d.remaining, retryAfter |-> d.retryAfter]]
    BY <1>5 DEF Decides
<1>7. k[2] \in Limits /\ e \in Nat \ {0} /\ Burst \in Nat
    BY <1>6, EmissionType DEF Keys
<1>8. /\ d.tat \in Nat /\ d.remaining \in 0 .. Burst /\ d.retryAfter \in Nat
      /\ d.allowed \in BOOLEAN /\ (~d.allowed => d.tat = tat[k])
    BY <1>6, Zenon DEF Answers
<1>9. due' \in [Keys -> Nat]
    <2>1. ASSUME NEW n \in Nat PROVE at + Second * n \in Nat
        <3>1. Second * n \in Nat
            BY ServiceAssumption
        <3> QED BY <1>6, <3>1
    <2>2. CASE due' = [due EXCEPT ![k] = at + Second * ResetSeconds(k[2])]
        BY <1>1, <1>7, <2>1, <2>2, SecondsType DEF TypeOK
    <2>3. CASE \E s \in RetryAfterSeconds(d.retryAfter) :
                  due' = [due EXCEPT ![k] = Earlier(due[k], at + Second * s)]
        <3>1. PICK s \in RetryAfterSeconds(d.retryAfter) :
                  due' = [due EXCEPT ![k] = Earlier(due[k], at + Second * s)]
            BY <2>3
        <3>2. s \in Nat
            BY <1>8, RetryAfterType
        <3>3. Earlier(due[k], at + Second * s) \in Nat
            BY <1>1, <1>6, <2>1, <3>2 DEF TypeOK, Earlier
        <3> QED BY <1>1, <3>1, <3>3 DEF TypeOK
    <2> QED BY <1>5, <2>2, <2>3 DEF Decides
<1> HIDE DEF at
<1>10. TypeOK'
    <2>1. request' \in [Workers -> {Idle} \cup [pc : {"arrived"}, id : Customers, at : Nat]
                 \cup [pc : {"resolved"}, id : Customers, at : Nat, limit : Limits]]
        BY <1>1, <1>2 DEF TypeOK
    <2>2. tat' \in [Keys -> Nat]
        BY <1>1, <1>6, <1>8 DEF TypeOK
    <2>3. admitted' \in [Keys -> Seq(Nat)]
        <3>1. at \in Nat
            BY <1>6
        <3>2. Append(admitted[k], at) \in Seq(Nat)
            BY <1>6, <3>1
        <3>3. (IF d.allowed THEN Append(admitted[k], at) ELSE admitted[k]) \in Seq(Nat)
            BY <1>6, <3>2, Zenon
        <3> QED BY <1>1, <1>6, <3>3, Zenon DEF TypeOK
    <2>4. answer' \in [Keys -> [at : Nat, allowed : BOOLEAN, remaining : 0 .. Burst, retryAfter : Nat]]
        <3>1. [at |-> at, allowed |-> d.allowed, remaining |-> d.remaining, retryAfter |-> d.retryAfter]
                  \in [at : Nat, allowed : BOOLEAN, remaining : 0 .. Burst, retryAfter : Nat]
            BY <1>6, <1>8
        <3> QED BY <1>1, <1>6, <3>1, Zenon DEF TypeOK
    <2> QED BY <1>3, <1>9, <2>1, <2>2, <2>3, <2>4, Zenon DEF TypeOK
<1> HIDE DEF e
<1>11. StandsFor(tat'[k], admitted'[k], e, Burst)
    <2>1. StandsFor(tat[k], admitted[k], e, Burst)
        BY <1>1, <1>6 DEF PaceInv, e
    <2>2. tat'[k] = d.tat
        BY <1>1, <1>6, Zenon DEF TypeOK
    <2>3. admitted'[k] = IF d.allowed THEN Append(admitted[k], at) ELSE admitted[k]
        BY <1>1, <1>6, Zenon DEF TypeOK
    <2>4. CASE d.allowed
        <3>1. StandsFor(d.tat, Append(admitted[k], at), e, Burst)
            BY <1>6, <1>7, <2>1, <2>4, DecisionPaces
        <3> QED BY <2>2, <2>3, <2>4, <3>1, Zenon
    <2>5. CASE ~d.allowed
        BY <1>8, <2>1, <2>2, <2>3, <2>5, Zenon
    <2> QED BY <2>4, <2>5
<1>12. PaceInv'
    <2> SUFFICES ASSUME NEW j \in Keys
                 PROVE  StandsFor(tat'[j], admitted'[j], Emission(j[2]), Burst)
        BY Zenon DEF PaceInv
    <2>1. CASE j = k
        BY <1>11, <2>1, Zenon DEF e
    <2>2. CASE j # k
        <3>1. tat'[j] = tat[j]
            BY <1>1, <1>6, <2>2, Zenon DEF TypeOK
        <3>2. admitted'[j] = admitted[j]
            BY <1>1, <1>6, <2>2, Zenon DEF TypeOK
        <3> QED BY <1>1, <3>1, <3>2, Zenon DEF PaceInv
    <2> QED BY <2>1, <2>2
<1> QED BY <1>4, <1>10, <1>12

LEMMA NextInv == Inv /\ [Next]_vars => Inv'
<1> SUFFICES ASSUME Inv, [Next]_vars PROVE Inv'
    OBVIOUS
<1>1. CASE UNCHANGED vars
    <2>1. UNCHANGED <<nodeVars, request, limiterVars>>
        BY <1>1 DEF vars
    <2> QED BY <2>1, Zenon DEF nodeVars, processVars, limiterVars, Inv, TypeOK, NodeTypeOK, Clock,
                ServedInv, Served, Idle, PaceInv
<1>2. CASE Next
    BY <1>2, GoingInv, EndingInv, ArriveInv, ResolveInv, AllowInv DEF Next, Handle
<1> QED BY <1>1, <1>2

\* Type correctness, whatever the configurations, signals and crashes.
THEOREM ServiceTypeCorrect == Spec => []TypeOK
<1>1. Spec => []Inv
    BY InitInv, NextInv, PTL DEF Spec
<1> QED BY <1>1, PTL DEF Inv

-----------------------------------------------------------------------------
\* The properties

\* What is served gives every customer one limit, and an override in force
\* raises it, whatever valid configurations are loaded in whatever order.
THEOREM OneAnswerSafe == Spec => []OneAnswer
<1>1. Inv => OneAnswer
    <2> SUFFICES ASSUME Inv, cfg # NoConfig, NEW i \in DOMAIN cfg.overrides,
                        Active(cfg.overrides[i], Clock)
                 PROVE  LET o == cfg.overrides[i] IN
                        /\ Limit(cfg, o.customer, Clock) = o.limit
                        /\ Contracted(cfg, o.customer) < o.limit
        BY DEF OneAnswer
    <2>1. Clock \in Nat /\ Served(cfg)
        BY DEF Inv, ServedInv, TypeOK, NodeTypeOK, Clock
    <2>2. Parsed(cfg) /\ Validate(cfg, 0)
        BY <2>1, ConfigsAssumption DEF Served
    <2>3. i \in Applying(cfg, cfg.overrides[i].customer, Clock)
        BY DEF Applying
    <2> QED BY <2>1, <2>2, <2>3, ApplyingRules
<1>2. Spec => []Inv
    BY InitInv, NextInv, PTL DEF Spec
<1> QED BY <1>1, <1>2, PTL

\* A configuration served before is refused by a start for one reason: one of
\* its overrides has expired.
THEOREM OnlyExpiryKeepsDown == Spec => OnlyExpiryRefuses
<1>1. ASSUME Inv, [Next]_vars,
             phase = "starting", loaded \in accepted, phase' = "down", budget' = budget
      PROVE  \E i \in DOMAIN loaded.overrides : loaded.overrides[i].expires * Day <= Clock
    <2>1. RefuseToStart
        <3>1. budget \in Nat
            BY <1>1 DEF Inv, TypeOK, NodeTypeOK
        <3> QED BY <1>1, <3>1 DEF Next, Going, Ending, Watch, Handle, vars, nodeVars, processVars,
                PassTime, Serve, Terminate, Hangup, TakeSignal, LoadConfig, Reload, Boot, Edit,
                Exit, Crash, FatalHangup, Arrive, Resolve, Allow
    <2>2. ~Loads(loaded, Clock) /\ Served(loaded)
        BY <1>1, <2>1 DEF RefuseToStart, Inv, ServedInv
    <2>3. Clock \in Nat /\ Parsed(loaded) /\ loaded \in Configs /\ Validate(loaded, 0)
        BY <1>1, <2>2, ConfigsAssumption DEF Served, Inv, TypeOK, NodeTypeOK, Clock
    <2>4. PICK i \in DOMAIN loaded.overrides : ~(loaded.overrides[i].expires * Day > Clock)
        BY <2>2, <2>3, OnlyExpiryInvalidates DEF Loads
    <2>5. loaded.overrides[i].expires * Day \in Int
        BY <2>3, DayAssumption DEF Parsed
    <2> QED BY <2>3, <2>4, <2>5
<1>2. Inv /\ [Next]_vars =>
        [(phase = "starting" /\ loaded \in accepted /\ phase' = "down" /\ budget' = budget)
          => \E i \in DOMAIN loaded.overrides : loaded.overrides[i].expires * Day <= Clock]_vars
    BY <1>1
<1>3. Spec => []Inv
    BY InitInv, NextInv, PTL DEF Spec
<1> QED BY <1>2, <1>3, PTL DEF Spec, OnlyExpiryRefuses

\* A decision is one of the pace of its limiter, and none of another's.
LEMMA AllowPaces ==
    ASSUME Inv, Inv', NEW w \in Workers, Allow(w), NEW j \in Keys
    PROVE  Pace(j)!PacingNext \/ UNCHANGED <<admitted[j], answer[j]>>
<1>1. TypeOK /\ ServedInv /\ PaceInv
    BY DEF Inv
<1>2. PICK k, d : Decides(w, k, d)
    BY <1>1, AllowDecides
<1> DEFINE at == request[w].at
           e == Emission(j[2])
<1>3. /\ k \in Keys /\ at \in Nat \ {0} /\ tat[k] \in Nat /\ admitted[k] \in Seq(Nat)
      /\ Answers(d, tat[k], at, Emission(k[2]), Burst)
      /\ admitted' = [admitted EXCEPT ![k] =
            IF d.allowed THEN Append(admitted[k], at) ELSE admitted[k]]
      /\ answer' = [answer EXCEPT ![k] =
            [at |-> at, allowed |-> d.allowed,
             remaining |-> d.remaining, retryAfter |-> d.retryAfter]]
    BY <1>2 DEF Decides
<1> HIDE DEF at
<1>4. CASE j # k
    <2>1. admitted'[j] = admitted[j]
        BY <1>1, <1>3, <1>4, Zenon DEF TypeOK
    <2>2. answer'[j] = answer[j]
        BY <1>1, <1>3, <1>4, Zenon DEF TypeOK
    <2> QED BY <2>1, <2>2
<1>5. CASE j = k
    <2>1. admitted'[j] = IF d.allowed THEN Append(admitted[j], at) ELSE admitted[j]
        BY <1>1, <1>3, <1>5, Zenon DEF TypeOK
    <2>2. answer'[j] = [at |-> at, allowed |-> d.allowed,
                        remaining |-> d.remaining, retryAfter |-> d.retryAfter]
        BY <1>1, <1>3, <1>5, Zenon DEF TypeOK
    <2>3. /\ answer'[j].at = at /\ answer'[j].allowed = d.allowed
          /\ answer'[j].remaining = d.remaining /\ answer'[j].retryAfter = d.retryAfter
        BY <2>2
    <2>4. answer'[j] \in Pace(j)!Answers
        BY DEF Inv, TypeOK, Pace!Answers
    <2>5. \A log, s, n : Pace(j)!Room(log, s, n) <=> RoomFor(log, s, n, e, Burst)
        BY DEF Pace!Room, RoomFor
    <2>6. /\ e \in Nat \ {0} /\ Burst \in Nat
          /\ tat[j] \in Nat /\ admitted[j] \in Seq(Nat)
          /\ Answers(d, tat[j], at, e, Burst)
          /\ StandsFor(tat[j], admitted[j], e, Burst)
        BY <1>1, <1>3, <1>5, EmissionType DEF Keys, PaceInv
    <2> HIDE DEF e
    <2>7. CASE d.allowed
        <3>1. /\ RoomFor(admitted[j], at, 1, e, Burst)
              /\ \A n \in 1 .. Burst + 1 :
                    RoomFor(Append(admitted[j], at), at, n, e, Burst) <=> n <= d.remaining
            BY <1>3, <2>6, <2>7, DecisionPaces
        <3> QED BY <2>1, <2>3, <2>4, <2>5, <2>7, <3>1, Zenon DEF Pace!PacingNext, Pace!Admit
    <2>8. CASE ~d.allowed
        <3>1. /\ ~RoomFor(admitted[j], at, 1, e, Burst)
              /\ RoomFor(admitted[j], at + d.retryAfter, 1, e, Burst)
              /\ ~RoomFor(admitted[j], at + d.retryAfter - 1, 1, e, Burst)
            BY <1>3, <2>6, <2>8, DecisionPaces
        <3> QED BY <2>1, <2>3, <2>4, <2>5, <2>8, <3>1, Zenon DEF Pace!PacingNext, Pace!TurnAway
    <2> QED BY <2>7, <2>8
<1> QED BY <1>4, <1>5

\* Every limiter keeps its pace for as long as the process lives, whatever the
\* reloads, windows and clocks do to the limit in force.
THEOREM LimitersKeepPace == Spec => EachLimiterKeepsPace
<1>1. ASSUME Inv, Inv', [Next]_vars, NEW k \in Keys
      PROVE  phase' = "down" \/ Pace(k)!PacingNext \/ UNCHANGED <<admitted[k], answer[k]>>
    <2>1. CASE \E w \in Workers : Allow(w)
        BY <1>1, <2>1, AllowPaces
    <2>2. CASE Ending
        BY <2>2 DEF Ending, RefuseToStart, Exit, Crash, FatalHangup, Ended
    <2>3. CASE UNCHANGED limiterVars
        BY <2>3 DEF limiterVars
    <2>4. Next => \/ \E w \in Workers : Allow(w)
                  \/ Ending
                  \/ UNCHANGED limiterVars
        BY DEF Next, Handle, Resolve, Arrive, limiterVars
    <2> QED BY <1>1, <2>1, <2>2, <2>3, <2>4 DEF vars
<1>2. Inv /\ Inv' /\ [Next]_vars =>
        [\A k \in Keys :
            phase' = "down" \/ Pace(k)!PacingNext \/ UNCHANGED <<admitted[k], answer[k]>>]_vars
    BY <1>1
<1>3. Spec => []Inv
    BY InitInv, NextInv, PTL DEF Spec
<1> QED BY <1>2, <1>3, PTL DEF Spec, EachLimiterKeepsPace

-----------------------------------------------------------------------------
(***************************************************************************)
(* Retry-After and X-RateLimit-Reset.  The reset is computed from the      *)
(* spacing rounded down, the admission from the one rounded up: the header *)
(* is late enough where its own rounding to seconds makes up for that:     *)
(* with the code's nanoseconds, for every share of up to 60 billion.       *)
(***************************************************************************)
RoundsUp == \A limit \in Limits : Second * ResetSeconds(limit) >= Emission(limit)

DueInv == \A k \in Keys : due[k] >= Earliest(tat[k], Emission(k[2]), Burst)

LEMMA FreshDue == \A k \in Keys : 0 >= Earliest(0, Emission(k[2]), Burst)
<1> SUFFICES ASSUME NEW k \in Keys PROVE 0 >= Earliest(0, Emission(k[2]), Burst)
    OBVIOUS
<1> DEFINE e == Emission(k[2])
<1>1. e \in Nat /\ Burst \in Nat
    BY EmissionType DEF Keys
<1> HIDE DEF e
<1>2. Burst * e \in Nat
    BY <1>1
<1> QED BY <1>2 DEF Earliest, e

LEMMA AllowDue ==
    ASSUME RoundsUp, Inv, Inv', DueInv, NEW w \in Workers, Allow(w)
    PROVE  DueInv'
<1>1. TypeOK /\ ServedInv /\ TypeOK'
    BY DEF Inv
<1>2. PICK k, d : Decides(w, k, d)
    BY <1>1, AllowDecides
<1> DEFINE at == request[w].at
           e == Emission(k[2])
<1>3. /\ k \in Keys /\ at \in Nat /\ tat[k] \in Nat
      /\ Answers(d, tat[k], at, e, Burst)
      /\ tat' = [tat EXCEPT ![k] = d.tat]
    BY <1>2 DEF Decides
<1>4. e \in Nat /\ Burst \in Nat /\ k[2] \in Limits
    BY <1>3, EmissionType DEF Keys
<1>5. Second * ResetSeconds(k[2]) \in Nat /\ Second * ResetSeconds(k[2]) >= e
    <2>1. ResetSeconds(k[2]) \in Nat /\ Second \in Nat
        BY <1>4, SecondsType, ServiceAssumption
    <2>2. Second * ResetSeconds(k[2]) \in Nat
        BY <2>1
    <2> QED BY <1>4, <2>2 DEF RoundsUp
<1> HIDE DEF at, e
<1> DEFINE free == Burst * e
           earliest == tat[k] - free
<1>6. free \in Nat /\ Earliest(tat[k], e, Burst) = earliest
      /\ Earliest(d.tat, e, Burst) = d.tat - free
    BY <1>4 DEF Earliest
<1>7. /\ d.tat \in Nat /\ d.retryAfter \in Nat
      /\ d.allowed <=> at >= earliest
      /\ d.allowed => d.tat = Charged(tat[k], at, e)
      /\ ~d.allowed => d.tat = tat[k] /\ d.retryAfter = earliest - at
    BY <1>3, <1>6, Zenon DEF Answers
<1> HIDE DEF free
<1>8. due'[k] >= d.tat - free
    <2>1. CASE d.allowed
        <3>1. due'[k] = at + Second * ResetSeconds(k[2])
            BY <1>1, <1>2, <1>3, <2>1, Zenon DEF Decides, TypeOK, at
        <3>2. at >= earliest /\ d.tat = IF at > tat[k] THEN at + e ELSE tat[k] + e
            BY <1>7, <2>1, <1>3, <1>4 DEF Charged
        <3>3. d.tat - free <= at + e
            BY <1>3, <1>4, <1>6, <3>2
        <3> QED BY <1>3, <1>4, <1>5, <1>6, <1>7, <3>1, <3>3
    <2>2. CASE ~d.allowed
        <3>1. PICK s \in RetryAfterSeconds(d.retryAfter) :
                  due' = [due EXCEPT ![k] = Earlier(due[k], at + Second * s)]
            BY <1>2, <2>2, Zenon DEF Decides, at
        <3>2. due'[k] = Earlier(due[k], at + Second * s)
            BY <1>1, <1>3, <3>1, Zenon DEF TypeOK
        <3>3. s \in Nat /\ Second * s >= d.retryAfter
            BY <1>7, RetryAfterType
        <3>4. Second * s \in Nat
            BY <3>3, ServiceAssumption
        <3>5. due[k] >= earliest /\ due[k] \in Nat
            BY <1>1, <1>3, <1>6 DEF DueInv, TypeOK, e
        <3>6. d.tat = tat[k] /\ d.retryAfter = earliest - at
            BY <1>7, <2>2, Zenon
        <3>7. at + Second * s >= earliest
            BY <1>3, <1>6, <1>7, <3>3, <3>4, <3>6
        <3> QED BY <3>2, <3>5, <3>6, <3>7 DEF Earlier
    <2> QED BY <2>1, <2>2
<1>9. ASSUME NEW j \in Keys
      PROVE  due'[j] >= Earliest(tat'[j], Emission(j[2]), Burst)
    <2>1. CASE j = k
        <3>1. tat'[j] = d.tat
            BY <1>1, <1>3, <2>1, Zenon DEF TypeOK
        <3> QED BY <1>6, <1>8, <2>1, <3>1, Zenon DEF e
    <2>2. CASE j # k
        <3>1. tat'[j] = tat[j]
            BY <1>1, <1>3, <2>2, Zenon DEF TypeOK
        <3>2. due'[j] = due[j]
            BY <1>1, <1>2, <2>2, Zenon DEF Decides, TypeOK
        <3> QED BY <3>1, <3>2, Zenon DEF DueInv
    <2> QED BY <2>1, <2>2
<1> QED BY <1>9, Zenon DEF DueInv

LEMMA DueInvariant == ASSUME RoundsUp PROVE Spec => [](Inv /\ DueInv)
<1>1. Init => Inv /\ DueInv
    BY InitInv, FreshDue DEF Init, DueInv
<1>2. ASSUME Inv, Inv', DueInv, [Next]_vars PROVE DueInv'
    <2>1. CASE \E w \in Workers : Allow(w)
        BY <1>2, <2>1, AllowDue
    <2>2. CASE Forget
        BY <2>2, FreshDue DEF Forget, DueInv
    <2>3. CASE UNCHANGED limiterVars
        BY <1>2, <2>3, Zenon DEF limiterVars, DueInv
    <2>4. Next => \/ \E w \in Workers : Allow(w)
                  \/ Forget
                  \/ UNCHANGED limiterVars
        BY DEF Next, Handle, Resolve, Arrive, limiterVars
    <2> QED BY <1>2, <2>1, <2>2, <2>3, <2>4 DEF vars
<1> QED BY <1>1, <1>2, NextInv, PTL DEF Spec

\* A client that comes back when it was told to, at a limit that has admitted
\* nobody else meanwhile, is admitted.
THEOREM ComeBackIsHonoured == ASSUME RoundsUp PROVE Spec => ComeBackHonoured
<1>1. ASSUME Inv, DueInv, [Next]_vars, NEW w \in Workers,
             request[w].pc = "resolved", request'[w] = Idle, phase' # "down",
             request[w].at >= due[<<request[w].id, request[w].limit>>]
      PROVE  answer'[<<request[w].id, request[w].limit>>].allowed
    <2>1. Allow(w)
        <3>1. request[w] # Idle /\ request[w].pc # "arrived" /\ request' # request
            BY <1>1 DEF Idle
        <3>2. ~(Ending /\ Forget)
            BY <1>1 DEF Ending, RefuseToStart, Exit, Crash, FatalHangup, Ended
        <3>3. ASSUME NEW v \in Workers, v # w, Handle(v) PROVE FALSE
            <4>1. request'[w] = request[w]
                BY <1>1, <3>3 DEF Handle, Resolve, Allow, Inv, TypeOK
            <4> QED BY <1>1, <3>1, <4>1
        <3>4. ASSUME NEW v \in Workers, NEW id \in Customers, Arrive(v, id) PROVE FALSE
            <4>1. v # w
                BY <3>1, <3>4 DEF Arrive
            <4>2. request'[w] = request[w]
                BY <1>1, <3>4, <4>1 DEF Arrive, Inv, TypeOK
            <4> QED BY <1>1, <3>1, <4>2
        <3>5. ~Resolve(w)
            BY <3>1 DEF Resolve
        <3> QED BY <1>1, <3>1, <3>2, <3>3, <3>4, <3>5 DEF Next, Handle, vars
    <2>2. TypeOK /\ ServedInv
        BY <1>1 DEF Inv
    <2>3. PICK k, d : Decides(w, k, d)
        BY <2>1, <2>2, AllowDecides
    <2>4. k \in Keys /\ request[w].at \in Nat /\ tat[k] \in Nat /\ due[k] \in Nat
          /\ k = <<request[w].id, request[w].limit>>
        BY <2>2, <2>3 DEF Decides, TypeOK
    <2> DEFINE earliest == Earliest(tat[k], Emission(k[2]), Burst)
    <2>5. Emission(k[2]) \in Nat /\ Burst \in Nat
        BY <2>4, EmissionType DEF Keys
    <2>6. earliest \in Int
        BY <2>4, <2>5 DEF Earliest
    <2>7. due[k] >= earliest
        BY <1>1, <2>4 DEF DueInv
    <2>8. request[w].at >= due[k]
        BY <1>1, <2>4, Zenon
    <2> HIDE DEF earliest
    <2>9. request[w].at >= earliest
        BY <2>4, <2>6, <2>7, <2>8
    <2>10. d.allowed
        BY <2>3, <2>9, Zenon DEF Decides, Answers, earliest
    <2>11. answer'[k] = [at |-> request[w].at, allowed |-> d.allowed,
                         remaining |-> d.remaining, retryAfter |-> d.retryAfter]
        BY <2>2, <2>3, <2>4, Zenon DEF Decides, TypeOK
    <2>12. answer'[k].allowed = d.allowed
        BY <2>11
    <2> QED BY <2>4, <2>10, <2>12, Zenon
<1>2. Inv /\ DueInv /\ [Next]_vars =>
        [\A w \in Workers :
          (/\ request[w].pc = "resolved" /\ request'[w] = Idle /\ phase' # "down"
           /\ request[w].at >= due[<<request[w].id, request[w].limit>>])
          => answer'[<<request[w].id, request[w].limit>>].allowed]_vars
    BY <1>1
<1>3. Spec => [](Inv /\ DueInv)
    BY DueInvariant
<1> QED BY <1>2, <1>3, PTL DEF Spec, ComeBackHonoured
===============================================================================
