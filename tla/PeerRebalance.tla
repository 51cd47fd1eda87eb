---------------------------- MODULE PeerRebalance ----------------------------
(***************************************************************************)
(* The peer coordination strategy (internal/coordinator/peer.go): a        *)
(* statically designated proposer moves quota between the nodes with a     *)
(* two-phase, shrink-before-grow round.  One customer is modelled: every   *)
(* map of the code is keyed by customer, the handlers touch one entry, and *)
(* the proposer rebalances one customer after the other.                   *)
(*                                                                         *)
(* Data that is abstracted: what the nodes are asked for.  The target of a *)
(* round is any split of the limit over the nodes polled, which is all     *)
(* that proportionalSplit promises (module ProportionalSplit); module      *)
(* PeerDemand puts the demand back.                                        *)
(***************************************************************************)
EXTENDS Integers, FiniteSets, QuotaUnits

CONSTANTS
    Nodes,        \* PeerConfig.Peers; numbers, as the code works through sorted ids
    Proposer,     \* PeerConfig.Proposer
    NodeCount,    \* PeerConfig.NodeCount, configured apart from Peers
    Limits,       \* the effective limits the policy may give the customer
    Hysteresis,   \* hysteresisRPM
    Faults,       \* what may go wrong, a subset of FaultKinds
    MaxRound,     \* bound: no round is numbered higher
    MaxLate       \* bound: calls given up on that may still be executed

(***************************************************************************)
(* "loss": a request or its answer is lost, or too late to matter; "late": *)
(* a node may execute a call after the proposer has given up on it;        *)
(* "pollLoss": a status poll fails; "restart": a node restarts with empty  *)
(* memory; "limitChange": the policy gives the customer another limit.     *)
(***************************************************************************)
FaultKinds == {"loss", "late", "pollLoss", "restart", "limitChange"}

ASSUME NodesAssumption == IsFiniteSet(Nodes) /\ Nodes \subseteq Nat /\ Proposer \in Nodes
ASSUME CountAssumption == NodeCount \in Nat \ {0}
ASSUME LimitsAssumption == Limits \subseteq Nat \ {0} /\ Limits # {}
ASSUME BoundsAssumption == Hysteresis \in Nat \ {0} /\ MaxRound \in Nat /\ MaxLate \in Nat
ASSUME FaultsAssumption == Faults \subseteq FaultKinds

VARIABLES
    limit,        \* the limit the policy gives the customer now
    known,        \* known[n]: node n has a customerState for the customer
    share,        \* share[n]: its shareState quota
    globalLimit,  \* globalLimit[n]: the limit n learned from its own requests, 0 if none
    lastApplied,  \* lastApplied[n]: the highest round n has fenced
    phase,        \* where the proposer's goroutine is
    status,       \* status[n]: what this tick's poll of n has returned
    current,      \* current[n]: the share the round assumes n to have
    target,       \* target[n]: the share the round wants n to have
    todo,         \* the nodes this phase has still to confirm
    shrinkOK,     \* no shrink of the round has failed
    round,        \* the number of the round
    net           \* apply-share calls: on the wire, in a handler, or answered

nodeVars == <<known, share, globalLimit, lastApplied>>
roundVars == <<current, target, todo, shrinkOK, round>>
vars == <<limit, known, share, globalLimit, lastApplied, phase, status,
          current, target, todo, shrinkOK, round, net>>

-----------------------------------------------------------------------------
\* Values

Shares == UNION {0 .. l : l \in Limits}
Rounds == 0 .. MaxRound
Answers == {"none", "failed", "unseen", "seen"}

(***************************************************************************)
(* A call is "sent", "entered" once the handler has looked the customer    *)
(* up, "fenced" between the handler's two critical sections, and answered  *)
(* "applied" or "stale"; "lost" when the node died under it.  The proposer *)
(* waits for at most one call (awaited).                                   *)
(***************************************************************************)
Stages == {"sent", "entered", "fenced", "applied", "stale", "lost"}

Status == [answer : Answers, share : Shares, globalLimit : Limits \cup {0}]
Call == [to : Nodes, round : Rounds, quota : Shares, stage : Stages, awaited : BOOLEAN]

NoStatus == [n \in Nodes |-> [answer |-> "none", share |-> 0, globalLimit |-> 0]]
NoSplit == [n \in Nodes |-> 0]

\* nodeShare: the even share of limit l, rounded up.
NodeShare(l) == (l + NodeCount - 1) \div NodeCount

\* What node n may admit: its share or, until it sees the customer, the
\* bootstrap share it will start from.
Committed == [n \in Nodes |-> IF known[n] THEN share[n] ELSE NodeShare(limit)]

\* The total all nodes bootstrap to.
Reserve == Total([n \in Nodes |-> NodeShare(limit)])

\* Mutant of Splits: every share rounded up, as nodeShare does.
SplitsRoundedUp(S, l) ==
    {t \in [Nodes -> 0 .. l + 1] : Total(t) = l + 1 /\ \A n \in Nodes \ S : t[n] = 0}

\* The splits of l over the nodes of S that proportionalSplit may return.
Splits(S, l) ==
    {t \in [Nodes -> 0 .. l] : Total(t) = l /\ \A n \in Nodes \ S : t[n] = 0}

Distance(a, b) == IF a < b THEN b - a ELSE a - b

Polled == \A n \in Nodes : status[n].answer # "none"
Reachable == {n \in Nodes : status[n].answer \in {"seen", "unseen"}}

\* knownGlobalLimit: the proposer trusts only its own cached limit.
KnownLimit == IF status[Proposer].answer = "seen" THEN status[Proposer].globalLimit ELSE 0

\* Mutant of Assumed: a node that has not seen the customer counts as empty.
AssumedEmptyUnseen == [n \in Nodes |-> IF status[n].answer = "seen" THEN status[n].share ELSE 0]

\* nodeSplit.current: a node that has not seen the customer counts with its
\* bootstrap share, an unreachable one is left out.
Assumed == [n \in Nodes |-> CASE status[n].answer = "seen" -> status[n].share
                              [] status[n].answer = "unseen" -> NodeShare(KnownLimit)
                              [] OTHER -> 0]

Awaiting == \E m \in net : m.awaited
Late == {m \in net : ~m.awaited}

-----------------------------------------------------------------------------
TypeOK ==
    /\ limit \in Limits
    /\ known \in [Nodes -> BOOLEAN]
    /\ share \in [Nodes -> Shares]
    /\ globalLimit \in [Nodes -> Limits \cup {0}]
    /\ lastApplied \in [Nodes -> Rounds]
    /\ phase \in {"idle", "poll", "shrink", "grow"}
    /\ status \in [Nodes -> Status]
    /\ current \in [Nodes -> Shares]
    /\ target \in [Nodes -> Shares]
    /\ todo \subseteq Nodes
    /\ shrinkOK \in BOOLEAN
    /\ round \in Rounds
    /\ net \subseteq Call

Init ==
    /\ limit \in Limits
    /\ known = [n \in Nodes |-> FALSE]
    /\ share = NoSplit
    /\ globalLimit = NoSplit
    /\ lastApplied = NoSplit
    /\ phase = "idle"
    /\ status = NoStatus
    /\ current = NoSplit
    /\ target = NoSplit
    /\ todo = {}
    /\ shrinkOK = TRUE
    /\ round = 0
    /\ net = {}

-----------------------------------------------------------------------------
\* A client request reaches node n

\* Mutant of Allow: only the request that creates the entry brings the limit.
AllowKeepsLimit(n) ==
    /\ known' = [known EXCEPT ![n] = TRUE]
    /\ share' = IF known[n] THEN share ELSE [share EXCEPT ![n] = NodeShare(limit)]
    /\ globalLimit' = IF known[n] THEN globalLimit ELSE [globalLimit EXCEPT ![n] = limit]
    /\ UNCHANGED <<limit, lastApplied, phase, status, roundVars, net>>

\* Allow, customerFor: the first request creates the entry at the bootstrap
\* share, a later one only refreshes the limit, never the share.
Allow(n) ==
    /\ known' = [known EXCEPT ![n] = TRUE]
    /\ share' = IF known[n] THEN share ELSE [share EXCEPT ![n] = NodeShare(limit)]
    /\ globalLimit' = [globalLimit EXCEPT ![n] = limit]
    /\ UNCHANGED <<limit, lastApplied, phase, status, roundVars, net>>

-----------------------------------------------------------------------------
\* The proposer's goroutine: poll, then one round

\* The ticker fires; nothing else runs in the goroutine.
Tick ==
    /\ phase = "idle"
    /\ lastApplied[Proposer] < MaxRound  \* bound
    /\ phase' = "poll"
    /\ UNCHANGED <<limit, nodeVars, status, roundVars, net>>

\* handleStatus at n (localStatus at the proposer) answers the poll.
PollNode(n) ==
    /\ phase = "poll"
    /\ status[n].answer = "none"
    /\ status' = [status EXCEPT ![n] = [answer |-> IF known[n] THEN "seen" ELSE "unseen",
                                        share |-> share[n],
                                        globalLimit |-> globalLimit[n]]]
    /\ UNCHANGED <<limit, nodeVars, phase, roundVars, net>>

\* The poll of n is not answered within AckTimeout.
PollFails(n) ==
    /\ "pollLoss" \in Faults
    /\ n # Proposer
    /\ phase = "poll"
    /\ status[n].answer = "none"
    /\ status' = [status EXCEPT ![n].answer = "failed"]
    /\ UNCHANGED <<limit, nodeVars, phase, roundVars, net>>

EndTick ==
    /\ phase' = "idle"
    /\ status' = NoStatus
    /\ current' = NoSplit
    /\ target' = NoSplit
    /\ todo' = {}
    /\ shrinkOK' = TRUE
    /\ round' = 0

\* The early returns of rebalanceCustomer: the proposer does not know the
\* limit, or no share would move by hysteresisRPM.
SkipRound ==
    /\ phase = "poll"
    /\ Polled
    /\ \/ KnownLimit = 0
       \/ \E t \in Splits(Reachable, KnownLimit) :
             \A n \in Reachable : Distance(t[n], Assumed[n]) < Hysteresis
    /\ EndTick
    /\ UNCHANGED <<limit, nodeVars, net>>

\* A round towards the split t.  customerFor(customerID, globalLimit) writes
\* the polled limit back into the proposer's entry.
StartRound(t) ==
    /\ phase = "poll"
    /\ Polled
    /\ KnownLimit > 0
    /\ \E n \in Reachable : Distance(t[n], Assumed[n]) >= Hysteresis
    /\ phase' = "shrink"
    /\ status' = NoStatus
    /\ current' = Assumed
    /\ target' = t
    /\ todo' = {n \in Reachable : t[n] < Assumed[n]}
    /\ shrinkOK' = TRUE
    /\ round' = lastApplied[Proposer] + 1
    /\ globalLimit' = [globalLimit EXCEPT ![Proposer] = KnownLimit]
    /\ UNCHANGED <<limit, known, share, lastApplied, net>>

\* The loops of both phases take the nodes in the order of their ids.
Turn(n) ==
    /\ phase \in {"shrink", "grow"}
    /\ n \in todo
    /\ \A k \in todo : n <= k
    /\ ~Awaiting

\* applyShare to another node: the request goes out.
SendShare(n) ==
    /\ n # Proposer
    /\ Turn(n)
    /\ net' = net \cup {[to |-> n, round |-> round, quota |-> target[n],
                         stage |-> "sent", awaited |-> TRUE]}
    /\ UNCHANGED <<limit, nodeVars, phase, status, roundVars>>

\* applyShare to the proposer itself, without HTTP.  No call is ever sent to
\* the proposer, so its fence, one below the round, always lets this through,
\* and nobody reads its share between the two critical sections.
ApplyLocal ==
    /\ Turn(Proposer)
    /\ lastApplied' = [lastApplied EXCEPT ![Proposer] = round]
    /\ share' = [share EXCEPT ![Proposer] = target[Proposer]]
    /\ todo' = todo \ {Proposer}
    /\ UNCHANGED <<limit, known, globalLimit, phase, status, current, target,
                   shrinkOK, round, net>>

\* Mutant of Ack: any answer counts as applied.
AckAnyAnswer(m) ==
    /\ m.awaited
    /\ m.stage \in {"applied", "stale"}
    /\ net' = net \ {m}
    /\ todo' = todo \ {m.to}
    /\ UNCHANGED <<limit, nodeVars, phase, status, current, target, shrinkOK, round>>

\* The answer arrives in time.
Ack(m) ==
    /\ m.awaited
    /\ m.stage \in {"applied", "stale"}
    /\ net' = net \ {m}
    /\ todo' = todo \ {m.to}
    /\ shrinkOK' = (shrinkOK /\ (phase = "shrink" => m.stage = "applied"))
    /\ UNCHANGED <<limit, nodeVars, phase, status, current, target, round>>

\* http.Do fails: the call leaves net for good or, executed late, stays in
\* it with nobody waiting for the answer.
GiveUp(m, rest) ==
    /\ m.awaited
    /\ net' = (net \ {m}) \cup rest
    /\ todo' = todo \ {m.to}
    /\ shrinkOK' = (shrinkOK /\ phase # "shrink")
    /\ UNCHANGED <<limit, nodeVars, phase, status, current, target, round>>

\* The request never arrived, its answer was lost, or the node died.
TimeoutLost(m) ==
    /\ \/ m.stage = "lost"
       \/ "loss" \in Faults /\ m.stage \in {"sent", "applied", "stale"}
    /\ GiveUp(m, {})

\* The request is still on its way, or the handler is still running.
TimeoutLate(m) ==
    /\ "late" \in Faults
    /\ m.stage \in {"sent", "entered", "fenced"}
    /\ Cardinality(Late) < MaxLate  \* bound
    /\ GiveUp(m, {[m EXCEPT !.awaited = FALSE]})

\* Mutant of BeginGrow: the grows do not wait for the shrinks to succeed.
BeginGrowUnconfirmed ==
    /\ phase = "shrink"
    /\ todo = {}
    /\ phase' = "grow"
    /\ todo' = {n \in Nodes : current[n] < target[n]}
    /\ UNCHANGED <<limit, nodeVars, status, current, target, shrinkOK, round, net>>

\* Every shrink is confirmed: on to the grows.
BeginGrow ==
    /\ phase = "shrink"
    /\ todo = {}
    /\ shrinkOK
    /\ phase' = "grow"
    /\ todo' = {n \in Nodes : current[n] < target[n]}
    /\ UNCHANGED <<limit, nodeVars, status, current, target, shrinkOK, round, net>>

\* Mutant of AbandonRound: the shrinks are repeated within the same round.
RepeatShrinks ==
    /\ phase = "shrink"
    /\ todo = {}
    /\ ~shrinkOK
    /\ todo' = {n \in Nodes : target[n] < current[n]}
    /\ shrinkOK' = TRUE
    /\ UNCHANGED <<limit, nodeVars, phase, status, current, target, round, net>>

\* Some shrink is not confirmed: rebalance_round_abandoned.
AbandonRound ==
    /\ phase = "shrink"
    /\ todo = {}
    /\ ~shrinkOK
    /\ EndTick
    /\ UNCHANGED <<limit, nodeVars, net>>

FinishRound ==
    /\ phase = "grow"
    /\ todo = {}
    /\ EndTick
    /\ UNCHANGED <<limit, nodeVars, net>>

-----------------------------------------------------------------------------
\* handleApplyShare at node m.to, one action per critical section

\* The call m moves on; nobody is told of the end of a call given up on.
Advance(m, stage) ==
    net' = (net \ {m}) \cup
           (IF m.awaited \/ stage \in {"entered", "fenced"}
            THEN {[m EXCEPT !.stage = stage]} ELSE {})

\* customerFor(customerID, 0): an entry made here starts from share 1.
Enter(m) ==
    /\ m.stage = "sent"
    /\ known' = [known EXCEPT ![m.to] = TRUE]
    /\ share' = IF known[m.to] THEN share ELSE [share EXCEPT ![m.to] = 1]
    /\ Advance(m, "entered")
    /\ UNCHANGED <<limit, globalLimit, lastApplied, phase, status, roundVars>>

\* Mutant of Fence: no round is stale.
FenceAnyRound(m) ==
    /\ m.stage = "entered"
    /\ lastApplied' = [lastApplied EXCEPT ![m.to] = m.round]
    /\ Advance(m, "fenced")
    /\ UNCHANGED <<limit, known, share, globalLimit, phase, status, roundVars>>

\* The round is newer than any applied: it is recorded, and the lock released.
Fence(m) ==
    /\ m.stage = "entered"
    /\ m.round > lastApplied[m.to]
    /\ lastApplied' = [lastApplied EXCEPT ![m.to] = m.round]
    /\ Advance(m, "fenced")
    /\ UNCHANGED <<limit, known, share, globalLimit, phase, status, roundVars>>

\* stale_round
Refuse(m) ==
    /\ m.stage = "entered"
    /\ m.round <= lastApplied[m.to]
    /\ Advance(m, "stale")
    /\ UNCHANGED <<limit, nodeVars, phase, status, roundVars>>

\* setQuota, outside the lock that guards lastApplied.
SetQuota(m) ==
    /\ m.stage = "fenced"
    /\ share' = [share EXCEPT ![m.to] = m.quota]
    /\ Advance(m, "applied")
    /\ UNCHANGED <<limit, known, globalLimit, lastApplied, phase, status, roundVars>>

-----------------------------------------------------------------------------
\* The environment

\* Node n starts again from NewPeer: its customers map is empty, a handler it
\* was running is gone, and a proposer forgets its round while calls it has
\* sent go on without it.
CallsAfterRestart(n) ==
    IF n = Proposer
    THEN {[m EXCEPT !.awaited = FALSE] :
             m \in {c \in net : c.stage \in {"sent", "entered", "fenced"}}}
    ELSE LET killed == {m \in net : m.to = n /\ m.stage \in {"entered", "fenced"}}
         IN  (net \ killed) \cup {[m EXCEPT !.stage = "lost"] : m \in killed \ Late}

Restart(n) ==
    /\ "restart" \in Faults
    /\ known' = [known EXCEPT ![n] = FALSE]
    /\ share' = [share EXCEPT ![n] = 0]
    /\ globalLimit' = [globalLimit EXCEPT ![n] = 0]
    /\ lastApplied' = [lastApplied EXCEPT ![n] = 0]
    /\ net' = CallsAfterRestart(n)
    /\ IF n = Proposer THEN EndTick ELSE UNCHANGED <<phase, status, roundVars>>
    /\ Cardinality(Late') <= MaxLate  \* bound
    /\ UNCHANGED limit

\* An override window opens or closes, or a reload changes the limit.
ChangeLimit(l) ==
    /\ "limitChange" \in Faults
    /\ limit' = l
    /\ UNCHANGED <<nodeVars, phase, status, roundVars, net>>

-----------------------------------------------------------------------------
Handle(m) == Enter(m) \/ Fence(m) \/ Refuse(m) \/ SetQuota(m)

\* Everything the proposer does between two ticks.
RoundStep ==
    \/ \E n \in Nodes : PollNode(n) \/ SendShare(n)
    \/ SkipRound
    \/ \E t \in Splits(Reachable, KnownLimit) : StartRound(t)
    \/ ApplyLocal
    \/ \E m \in net : Ack(m) \/ TimeoutLost(m)
    \/ BeginGrow \/ AbandonRound \/ FinishRound

Next ==
    \/ \E n \in Nodes : Allow(n) \/ PollFails(n) \/ Restart(n)
    \/ Tick
    \/ RoundStep
    \/ \E m \in net : Handle(m) \/ TimeoutLate(m)
    \/ \E l \in Limits : ChangeLimit(l)

Spec == Init /\ [][Next]_vars

(***************************************************************************)
(* Fairness: the goroutine of the proposer runs (http.Do returns within    *)
(* AckTimeout), and a handler that has a request runs.  Nothing is assumed *)
(* of clients, of faults, or of a request whose time is up.                *)
(***************************************************************************)
Fairness ==
    /\ WF_vars(RoundStep)
    /\ WF_vars(\E m \in net : m.awaited /\ Handle(m))

FairSpec == Spec /\ Fairness

-----------------------------------------------------------------------------
\* Properties

\* With calls and answers that get lost, but nothing worse, no interleaving
\* of requests, handlers and rounds lets the nodes together admit more than
\* the limit, or than they bootstrapped to where the even share was rounded
\* up (coordinator.go: "never exceeds the global limit at any instant").
SharesWithinReserve == Total(Committed) <= limit \/ Total(Committed) <= Reserve

\* Once the grow phase is reached, the rounding slack of the bootstrap is
\* gone too: what the nodes hold fits the limit itself.
GrowWithinLimit == phase = "grow" => Total(Committed) <= limit

\* No grow is sent before every node that was to shrink really has: the
\* answer the proposer counts stands for the share the node enforces.
GrowsOnlyAfterShrinks ==
    phase = "grow" => \A n \in Nodes : target[n] < current[n] => Committed[n] = target[n]

\* The sum of shares in flight never exceeds the global limit at any instant.
SharesWithinLimit == Total(Committed) <= limit

\* A node's fence never falls, except when the node itself starts anew.
FencesOnlyRise ==
    [][\A n \in Nodes : lastApplied'[n] >= lastApplied[n] \/ (known[n] /\ ~known'[n])]_vars

\* A delayed call of an old round is never applied over a newer one that has
\* landed: when a handler sets the quota of its round, that round is the
\* newest the node has fenced, or the newer one has its quota still to set.
StaleNeverLands ==
    [][\A m \in net : SetQuota(m) =>
          \/ m.round = lastApplied[m.to]
          \/ \E k \in net : k.to = m.to /\ k.stage = "fenced" /\ k.round = lastApplied[m.to]]_vars

\* Whatever is lost, late or restarted, every round ends, and the proposer
\* gets back to its ticker.
RoundsEnd == phase # "idle" ~> phase = "idle"
=============================================================================
