-------------------------------- MODULE Service --------------------------------
(***************************************************************************)
(* A node that serves requests in static mode: the process and the         *)
(* configuration of module Node, the handler of internal/httpapi and the   *)
(* static coordinator (internal/coordinator/static.go), which keeps one    *)
(* limiter for every customer and limit.                                   *)
(*                                                                         *)
(* A handler reads the clock, then the configuration, then asks the        *)
(* limiter: between these steps time passes, other handlers run, and the   *)
(* configuration may be replaced.  A limiter is created by its first use   *)
(* and never dropped; one not yet created is one with tat 0.               *)
(***************************************************************************)
EXTENDS Node, Gcra

CONSTANTS
    Workers,     \* the goroutines that handle requests
    Customers,   \* the ids requests carry; a missing id is answered 400
    Limits,      \* the limits the configurations give
    NodeCount,   \* the nodes a limit is split over
    Minute,      \* time.Minute, in ticks
    Second,      \* time.Second, in ticks
    Burst        \* NodeBurst

ASSUME ServiceAssumption ==
    /\ NodeCount \in Nat \ {0} /\ Minute \in Nat \ {0} /\ Second \in Nat \ {0}
    /\ Burst \in Nat /\ Limits \subseteq Nat \ {0}
    /\ \A f \in Configs : Validate(f, 0) => Given(f) \subseteq Limits

VARIABLES
    request,   \* request[w]: how far w is with its request
    tat,       \* tat[k]: the stored time of the limiter of key k
    admitted,  \* history: admitted[k], the times of what that limiter admitted
    answer,    \* history: answer[k], the last decision of that limiter
    due        \* history: due[k], when a client was told to come back

limiterVars == <<tat, admitted, answer, due>>
vars == <<nodeVars, request, limiterVars>>

\* shareKey
Keys == Customers \X Limits

Idle == [pc |-> "idle"]

TypeOK ==
    /\ NodeTypeOK
    /\ request \in [Workers ->
          {Idle} \cup [pc : {"arrived"}, id : Customers, at : Nat]
                 \cup [pc : {"resolved"}, id : Customers, at : Nat, limit : Limits]]
    /\ tat \in [Keys -> Nat]
    /\ admitted \in [Keys -> Seq(Nat)]
    /\ answer \in [Keys -> [at : Nat, allowed : BOOLEAN, remaining : 0 .. Burst, retryAfter : Nat]]
    /\ due \in [Keys -> Nat]

NoAnswer == [at |-> 0, allowed |-> TRUE, remaining |-> Burst, retryAfter |-> 0]

Init ==
    /\ NodeInit
    /\ request = [w \in Workers |-> Idle]
    /\ tat = [k \in Keys |-> 0]
    /\ admitted = [k \in Keys |-> <<>>]
    /\ answer = [k \in Keys |-> NoAnswer]
    /\ due = [k \in Keys |-> 0]

-----------------------------------------------------------------------------
\* nodeShare, Params, and the times in the headers

NodeShare(limit) == (limit + NodeCount - 1) \div NodeCount

Emission(limit) == CeilEmission(Minute, NodeShare(limit))

\* Mutant of CeilSeconds: a fraction of a second is dropped.
FloorSeconds(d) == d \div Second

\* ceilSeconds
CeilSeconds(d) == (d \div Second) + (IF d % Second = 0 THEN 0 ELSE 1)

\* X-RateLimit-Reset of a request admitted at this share.
ResetSeconds(limit) == CeilSeconds(Minute \div NodeShare(limit))

\* jitteredRetryAfterSeconds: up to a fifth of the wait is added at random.
RetryAfterSeconds(retryAfter) ==
    LET base == IF retryAfter <= 0 THEN Second ELSE retryAfter
    IN  {CeilSeconds(base + jitter) : jitter \in {j \in 0 .. base : 5 * j < base}}

Earlier(a, b) == IF a < b THEN a ELSE b

-----------------------------------------------------------------------------
\* handlePing

\* The request has an id, and the clock is read for it.
Arrive(w, id) ==
    /\ phase = "serving"
    /\ request[w] = Idle
    /\ request' = [request EXCEPT ![w] = [pc |-> "arrived", id |-> id, at |-> Clock]]
    /\ UNCHANGED <<nodeVars, limiterVars>>

\* Mutant of Resolve: an unknown customer goes on to the limiter, at limit 0.
ResolveUnknown(w) ==
    /\ request[w].pc = "arrived"
    /\ LET r == request[w] IN
       request' = [request EXCEPT ![w] =
          IF Known(cfg, r.id)
          THEN [pc |-> "resolved", id |-> r.id, at |-> r.at, limit |-> Limit(cfg, r.id, r.at)]
          ELSE [pc |-> "resolved", id |-> r.id, at |-> r.at, limit |-> 0]]
    /\ UNCHANGED <<nodeVars, limiterVars>>

\* Resolve, on the configuration of this moment and for the time read before;
\* an unknown customer is turned away with 403.
Resolve(w) ==
    /\ request[w].pc = "arrived"
    /\ LET r == request[w] IN
       request' = [request EXCEPT ![w] =
          IF Known(cfg, r.id)
          THEN [pc |-> "resolved", id |-> r.id, at |-> r.at, limit |-> Limit(cfg, r.id, r.at)]
          ELSE Idle]
    /\ UNCHANGED <<nodeVars, limiterVars>>

\* Mutant of Allow: a changed limit starts from a clean slate.
AllowAfresh(w) ==
    /\ request[w].pc = "resolved"
    /\ LET r == request[w]
           k == <<r.id, r.limit>>
           d == Decide(tat[k], r.at, Emission(r.limit), Burst)
       IN  /\ tat' = [j \in Keys |-> IF j = k THEN d.tat ELSE IF j[1] = r.id THEN 0 ELSE tat[j]]
           /\ admitted' = [admitted EXCEPT ![k] = IF d.allowed THEN Append(@, r.at) ELSE @]
           /\ answer' = [answer EXCEPT ![k] =
                 [at |-> r.at, allowed |-> d.allowed,
                  remaining |-> d.remaining, retryAfter |-> d.retryAfter]]
           /\ UNCHANGED due
    /\ request' = [request EXCEPT ![w] = Idle]
    /\ UNCHANGED nodeVars

\* Static.Allow and the answer: limiterFor, AllowAt under the lock, headers.
Allow(w) ==
    /\ request[w].pc = "resolved"
    /\ LET r == request[w]
           k == <<r.id, r.limit>>
           d == Decide(tat[k], r.at, Emission(r.limit), Burst)
       IN  /\ tat' = [tat EXCEPT ![k] = d.tat]
           /\ admitted' = [admitted EXCEPT ![k] = IF d.allowed THEN Append(@, r.at) ELSE @]
           /\ answer' = [answer EXCEPT ![k] =
                 [at |-> r.at, allowed |-> d.allowed,
                  remaining |-> d.remaining, retryAfter |-> d.retryAfter]]
           /\ \/ d.allowed /\ due' = [due EXCEPT ![k] = r.at + Second * ResetSeconds(r.limit)]
              \/ /\ ~d.allowed
                 /\ \E s \in RetryAfterSeconds(d.retryAfter) :
                       due' = [due EXCEPT ![k] = Earlier(@, r.at + Second * s)]
    /\ request' = [request EXCEPT ![w] = Idle]
    /\ UNCHANGED nodeVars

Handle(w) == Resolve(w) \/ Allow(w)

\* Nothing of what the handlers and the coordinator keep survives the process.
Forget ==
    /\ request' = [w \in Workers |-> Idle]
    /\ tat' = [k \in Keys |-> 0]
    /\ admitted' = [k \in Keys |-> <<>>]
    /\ answer' = [k \in Keys |-> NoAnswer]
    /\ due' = [k \in Keys |-> 0]

Next ==
    \/ Going /\ UNCHANGED <<request, limiterVars>>
    \/ Ending /\ Forget
    \/ \E w \in Workers : Handle(w) \/ \E id \in Customers : Arrive(w, id)

Spec == Init /\ [][Next]_vars

\* The ones the code's own goroutines owe: a start is decided, and the
\* watcher gets on with a signal.
Fairness ==
    /\ WF_vars(Watch /\ UNCHANGED <<request, limiterVars>>)
    /\ WF_vars(Serve /\ UNCHANGED <<request, limiterVars>>)
    /\ WF_vars(RefuseToStart /\ Forget)

FairSpec == Spec /\ Fairness

-----------------------------------------------------------------------------
\* Properties

\* What a node serves gives every customer one limit, whatever the order of
\* the overrides in the file: an override in its window, its grace included,
\* is the only one and raises the limit (config.go, "no silent behavior").
OneAnswer ==
    cfg # NoConfig =>
        \A i \in DOMAIN cfg.overrides :
            LET o == cfg.overrides[i] IN
            Active(o, Clock) =>
                /\ Limit(cfg, o.customer, Clock) = o.limit
                /\ Contracted(cfg, o.customer) < o.limit

\* A configuration this node has served before keeps it from starting again
\* for one reason only: one of its overrides has expired by its clock.
OnlyExpiryRefuses ==
    [][(phase = "starting" /\ loaded \in accepted /\ phase' = "down" /\ budget' = budget)
          => \E i \in DOMAIN loaded.overrides : loaded.overrides[i].expires * Day <= Clock]_vars

\* No edit is missed: after a SIGHUP the node comes to serve what the file
\* holds, also when the signal arrives in the middle of another reload, unless
\* the file changes again, is not valid, or the process ends.
ReloadCatchesUp ==
    (phase = "serving" /\ notified)
        ~> (cfg = file \/ ~notified \/ phase # "serving" \/ ~Loads(file, Clock))

\* However the limit changes, back and forth within a minute, by a window or
\* by a reload, each limiter of a customer keeps its own pace for as long as
\* the process lives: a change of the limit never forgives what was admitted
\* at that limit before.
Pace(k) == INSTANCE Pacing WITH
    Spacing <- Emission(k[2]), admitted <- admitted[k], answer <- answer[k]

EachLimiterKeepsPace ==
    [][\A k \in Keys :
          phase' = "down" \/ Pace(k)!PacingNext \/ UNCHANGED <<admitted[k], answer[k]>>]_vars

\* A client that comes back when Retry-After or X-RateLimit-Reset told it to,
\* at a limit that has admitted nobody else meanwhile, is admitted.
ComeBackHonoured ==
    [][\A w \in Workers :
          (/\ request[w].pc = "resolved" /\ request'[w] = Idle /\ phase' # "down"
           /\ request[w].at >= due[<<request[w].id, request[w].limit>>])
          => answer'[<<request[w].id, request[w].limit>>].allowed]_vars
===============================================================================
