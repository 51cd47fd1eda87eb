# Verification of the relay API's rate limiter

The program under `src/submissions/Shreesh-Sree/promise-them-nothing-twice/solution`
meters customers of an HTTP API over several nodes that share no memory. Each node
admits requests against its own share of a customer's limit with GCRA (one stored
time per customer), and an optional coordinator moves shares between the nodes. This
directory holds TLA+ modules translated from its Go source, TLC configurations that
check them on small instances, and proofs checked by TLAPS. Paths below are relative
to that `solution` directory.

Contents: [1 inventory](#1-inventory) · [2 modules](#2-the-modules) ·
[3 runs](#3-the-runs) · [4 proofs](#4-the-proofs) ·
[5 what the program does not keep](#5-where-code-and-documents-disagree) ·
[6 what is left out](#6-what-is-not-modelled) · [7 plan](#7-plan)

## 1 Inventory

| component | state | operations | modelled in |
|---|---|---|---|
| GCRA limiter, store (`internal/ratelimit`) | one TAT (theoretical arrival time) per customer, in 32 locked shards | `Allow`, `AllowAt` (`decide` under the shard's lock) | `Gcra`, `Limiter`, `Pacing` |
| live-share GCRA (`internal/coordinator/share_gcra.go`) | TAT and current quota of one customer at one node, one lock | `allow`, `setQuota` | `Gcra`, `LiveShare`, `LivePacing` |
| peer rebalancer, protocol (`internal/coordinator/peer.go`) | per node and customer: known, quota, cached limit, `lastApplied`; at the proposer: the tick's polls and round | `Allow`/`customerFor`, `handleStatus`, `handleApplyShare`, `Run`/`runRebalanceTick`/`rebalanceCustomer`/`applyShare`, restart | `PeerRebalance` |
| peer rebalancer, demand (`peer.go`) | request counters, their moving average at the proposer | `smoothDemand`, `proportionalSplit`, hysteresis | `ProportionalSplit`, `PeerDemand` (partly) |
| static coordinator (`static.go`) | a limiter per (customer, limit), never dropped | `Allow`, `limiterFor`, `nodeShare` | `Service` |
| fixed-window coordinator (`fixedwindow.go`, demo build tag) | a counter and the number of its minute, per customer | `Allow` | `Harness` |
| policy (`internal/policy`) | the configuration: customers, tiers, daily override windows with grace and expiry | `Validate`, `Resolve`, `Reload`, `WatchSIGHUP` | `Policy`, `Node` |
| development clock (`devclock.go`) | an offset, fixed at start | `NewClockFromEnv`, `Now` | `Node` |
| process (`cmd/relayapi`) | where it is between start and exit | start or refusal, SIGTERM, SIGHUP, crash | `Node` (static mode) |
| HTTP server (`internal/httpapi`) | one request per goroutine | `handlePing`: clock, limit, decision, headers | `Service` (partly) |
| load harness (`cmd/harness`) | channels, workers, records, kill goroutine | `Offer`, `probeEffectiveLimit`, node-failure, verdict | `Harness` (partly) |
| audit log, deployment | none that changes | | no |

**How they interact.** A request enters `handlePing`, which reads the clock, then
resolves the customer's limit, then calls the coordinator; the coordinator keeps a
limiter (static) or a share (peer) per customer, and decides under that limiter's lock.
The configuration behind `Resolve` is swapped by the watcher's goroutine when a SIGHUP
comes, and read afresh when the process starts. In peer mode one statically designated
proposer ticks: it polls every node's status over HTTP, computes a split of the limit,
sends the shrinks, and sends the grows only when every shrink has been answered
`applied`. A node refuses a call whose round is not above its `lastApplied`. There is no
other message and nothing on disk but the configuration file. The harness drives all of
this from outside: a pacer, workers and a collector joined by two bounded channels, and
a goroutine that stops a node on the way.

**What is hard.** Requests are stamped before they are ordered, and resolved before they
are decided, while limit, share and configuration change. A round is a conversation of
up to N-1 calls, any of which, or its answer, may be lost, or given up on and executed
later; `handleApplyShare` has two critical sections with a gap; the round number is
derived from the proposer's own fence; a node may be unreachable, restart with nothing,
or have another limit than its peers. A configuration is judged by a clock that moves
on, so one that was served may be refused. Signals meet reloads, start and shutdown. The
harness closes two channels in turn while workers still hold results, and its kill timer
races the end of the load. The arithmetic rounds: up in `nodeShare`, `ratelimit` and the
headers, down in `share_gcra.go`, by largest remainder in `proportionalSplit`.

**What makes each correct.** The limiter: at most quota + burst in any period, nobody
turned away who could be afforded, exact headers. The live share: the same at a moving
quota, nothing forgiven or revalued by the change. The rebalancer: the shares of all
nodes together never exceed the limit, old rounds never undo new ones, every round ends,
shares follow demand and limit. The policy: one answer for every customer at every time,
edits are not missed, only expiry turns a good configuration bad. Static mode: a change
of the limit forgives nothing that limit has seen, and a client that obeys the headers is
admitted. The harness: every request has its one record, it always ends and puts the
cluster back, and a FAIL is never the GCRA nodes' doing. `PROJECT.json` lists every
hazard at its line with the properties that would catch it, and those no property covers
yet with the reason.

## 2 The modules

**`QuotaUnits`**: the sum of a split, as the number of quota units held (a set
cardinality instead of a fold, so that sums can be compared by inclusion in proofs).

**`PeerRebalance`**: the protocol, for one customer; the code handles customers one
after the other and keys all state by customer.

| code | module |
|---|---|
| `customerState` in `Peer.customers` at node n | `known[n]`, `share[n]` (shareState.quota), `globalLimit[n]`, `lastApplied[n]` |
| the proposer's goroutine | `phase` and `status`, `current`, `target`, `todo`, `shrinkOK`, `round` |
| HTTP calls and the handlers running them | `net`, a set of calls with a stage: sent, entered, fenced, applied, stale, lost |
| what the policy answers | `limit`, moved by `ChangeLimit` |
| `Allow`, `customerFor` | `Allow(n)` |
| `runRebalanceTick`, `pollAllNodes` | `Tick`, `PollNode`, `PollFails`, `EndTick` |
| `rebalanceCustomer` | `SkipRound`, `StartRound`, `BeginGrow`, `AbandonRound`, `FinishRound` |
| `applyShare` | `SendShare`, `ApplyLocal`, `Ack`, `TimeoutLost`, `TimeoutLate` |
| `handleApplyShare` | `Enter`, then `Fence` or `Refuse`, then `SetQuota` |
| restart | `Restart` |

One action is one critical section, or one event of the proposer's goroutine between
two points where another goroutine can see or change what it uses. The handler's two
critical sections are separate actions because the code drops the lock between them.
What may go wrong is the constant `Faults`, so a run or a theorem says exactly under
which faults it holds. The target of a round is *any* split of the limit over the nodes
polled; that is all the safety of the protocol may rest on.

**`ProportionalSplit`** is `proportionalSplit` with exact fractions. **`PeerDemand`**
extends `PeerRebalance`: each round goes to the split the weights ask for, and weights
and the limit shift, the limit also in the middle of a round. The run `PeerDemand` shows
that it refines `PeerRebalance` (the split gives out the limit exactly, over the polled
nodes only).

**`Gcra`**: `decide` and its parts. **`Limiter`**: one customer of a `ratelimit.Limiter`
with requests on several goroutines; `Arrive` is the server's clock read, `AllowAt` the
decision under the lock, `PassTime` the clock. **`Pacing`** is the abstract
specification: it keeps the log of all admitted requests and no TAT, and says when a
request may and must be admitted and what `Remaining` and `RetryAfter` have to be.

**`LiveShare`**: one customer's `shareState` at one node; `SetQuota` may fall between a
request's arrival and its decision. **`LivePacing`** is its abstract specification:
`Pacing` with a spacing that changes, each admission charged at the spacing of its
moment, the burst worth the spacing of now.

**`Policy`**: the configuration and what follows from it alone: `Validate`, the instants
of an override's window on the day of `now` (`WindowStart`, `WindowEnd` with its grace),
`Active`, and the `Limit` that `Resolve` answers. What has to parse is one Boolean,
`complete`.

**`Node`**: the process that serves a configuration. `Boot` sets the clock up once from
the environment and reads the file; `Serve` or `RefuseToStart` judge it. `WatchSIGHUP`'s
goroutine is `TakeSignal`, `LoadConfig`, `Reload`: take the signal, read the file,
validate against the clock and swap. The signal channel holds one signal (`signalled`).
A SIGHUP before the watcher has asked for it, or after it has stopped, ends the process
(`FatalHangup`), as SIGTERM does in two steps (`Terminate`, `Exit`), and `Crash` at any
point. The file is edited at any time (`Edit`) and may be unreadable.

**`Service`** composes `Node`, the handler and the static coordinator: `Arrive`,
`Resolve` and `Allow` are the three reads of `handlePing`, each possibly by another
goroutine's clock, configuration and limiter state; `tat[k]` is the limiter of key
`k = <<customer, limit>>`. Every limiter is shown to implement `Pacing`, which is
instantiated once per key. `ServiceMC` holds the configurations of the run.

**`Harness`** is a scenario of the load harness against its nodes: `main` is the
scenario's goroutine, which is also the pacer of `Offer`; `worker[w]`, `queued`,
`records`, `collector` are the goroutines and channels of `Offer`; `killer` is
node-failure's kill goroutine. The other scenarios are those without a kill (`Kills`). A
handler's clock read (`Arrive`) and its decision (`Served`) are two steps, so requests
are decided in any order; `Decide`, or the counter of the fixed-window build, is given
the time of the first step. A request the client gives up may still arrive and be decided
(`adrift`, `ArriveAdrift`, `ServedAdrift`), since no handler looks whether its client has
gone. What a stopped node kept is gone (`NodeStops`), and the proxy asks another node on
behalf of the requests it had not answered. The history `overtaken` says that a request
met a window of a later minute than its own. `HarnessMC` adds the symmetry of the
workers, for runs that check safety only. `MaxRolling`, `SafetyBound` and `Fails` are the verdict:
`Arrivals` is what the sort leaves, `WindowStart` what the binary search finds in it.

Times are ticks; 0 is the zero `time.Time`, earlier than anything the clock shows.

## 3 The runs

`tlc -workers 2 -config <run>.cfg <module>` in this directory.

| run | module | shows |
|---|---|---|
| `PeerLoss` | `PeerRebalance` | With any calls and answers lost, the shares stay within the limit or the rounded-up bootstrap (`SharesWithinReserve`), within the limit itself once a grow phase is reached (`GrowWithinLimit`), and no grow leaves before every shrink is in force (`GrowsOnlyAfterShrinks`). |
| `PeerFaults` | `PeerRebalance` | With all faults at once, restarts and late calls included: types, `FencesOnlyRise`, and `RoundsEnd` (the proposer always gets back to its ticker). |
| `PeerDemand` | `PeerDemand` | `RebalancesOnly` (the refinement) and `FollowsUnlessRefused`: shares reach a settled demand and a settled limit unless some node refuses calls as stale for ever. |
| `Limiter` | `Limiter` | `WindowBound` and `KeepsPace` (it implements `Pacing`), requests decided out of order. |
| `LiveShare` | `LiveShare` | `KeepsLivePace` (it implements `LivePacing`) and `NeverLockedOut`: no answer asks for a longer wait than burst + 1 requests at the smallest share. |
| `Service` | `ServiceMC` | One node in static mode, its file edited and signals arriving at any moment, windows opening, closing and expiring, restarts under other clocks: `OneAnswer` (an override in its window is the only one and raises the limit), `OnlyExpiryRefuses` (a configuration once served is refused at start only when an override in it has expired), `ReloadCatchesUp` (a SIGHUP in the middle of a reload is not lost), `EachLimiterKeepsPace` (no change of the limit, back and forth, makes a limiter forget) and `ComeBackHonoured` (a client that waits as long as the headers say is admitted). |
| `Harness` | `Harness` | Whole scenarios with and without a kill, both server builds: `NothingLost` (one record for every request put in the channel, no send on a closed channel), `ScenarioEnds`, `LeftRunning` (all nodes run when it is over). |
| `HarnessVerdict` | `HarnessMC` | A longer load without a kill: `ExcessIsFailed` (no excess goes unseen, whatever order the workers deliver in), `FailNeedsCause` (GCRA nodes are to blame for no FAIL), `TwiceUnlessOvertaken` (what the fixed-window build can admit of a minute's arrivals). |
| `PeerPollLoss`, `PeerHandlerRace`, `PeerStuck`, `ShareWindow` | | A documented claim that the code violates, see section 5. |

**Bounds and why they are enough.**
`PeerLoss`: three nodes, so that one can shrink while another grows and a third is
confirmed or lost; limit 5 over 3 nodes makes the bootstrap total 6; hysteresis 2 makes
skipped rounds possible; three rounds, so that a partly applied round is the start of
another, twice. The theorems of section 4 lift every one of these bounds.
`PeerFaults`: two nodes, one late call, two rounds, limits 1 and 2: every pair of faults
can meet. `MaxRound` stops the ticker, not a round under way.
`PeerDemand`: three nodes, weights 1 and 4, limits 3 and 6, one shift of either:
any of the rounds needed may lose calls, and the limit may change between a poll and the
round it leads to. `MaxShifts` is what "settled" means there.
`Limiter`: quota 3 of period 7 (does not divide: the spacing is 3, rounded up), burst 1,
11 ticks, more than one window; two goroutines are enough to swap the order of decisions.
`LiveShare`: shares 0, 2 and 3 of period 4 (3 does not divide, 0 is enforced as 1), five
ticks; the share may change at every step.
`Service`: days of five ticks and a minute of four, so that windows open, close and run
into their grace while a limiter still remembers; four configurations, one with a window
of two days, one that expires, one without customers, one that only the grace makes
ambiguous; three ticks from the middle of the first day to the next; three events
(edits, signals, ends of the process), enough for an edit and a signal during a reload
and a restart after it. One handler is enough, since its three steps interleave with
everything else; the theorems hold for any number.
`Harness`: one node, two workers and channels of one place, so that every channel is
full and empty; two probes; a load of two ticks; the kill is due with the end of the load,
so each may come first. `MaxAdrift` is how many kinds of given-up request (on the way, or
with the time of their arrival) are kept track of, the others are not served; what is
adrift is not served any more once the records are closed, when nothing reads it.
`HarnessVerdict`: a load of four ticks and minutes of two, so that answers are late by
more than a minute, windows of several minutes exist, a GCRA build gets a FAIL, and a
request is overtaken; one probe and no request adrift, which add nothing to a verdict.
`NodeCount` is the number of nodes in both, 3 in the code. The theorems lift all of these
bounds, requests adrift and kills included.

All runs but those of the harness go on for ever: the bounded counters stop, and requests,
which are always possible, go on; deadlock is checked there. A scenario of the harness
really ends, so its runs do not check for deadlock; `ScenarioEnds` says that it stops
nowhere else.

**Fairness.** `PeerRebalance` assumes weak fairness of the proposer's goroutine (every
`http.Do` returns within `AckTimeout`, Go schedules it) and of handlers that have a
request whose caller still waits. `PeerDemand` adds that the ticker fires, that traffic
reaches every node for ever (nginx's round robin), and strong fairness of delivery per
node: of calls repeated for ever to one node, some arrive. Answers may all be lost.
`Service` assumes only what the code's own goroutines owe: a start is decided, and the
watcher gets on with a signal. `Harness` assumes that its goroutines run on, that a
request ends (the client's timeout is 5 s) and that the commands end. Safety runs assume
nothing.

## 4 The proofs

`tlapm <module>.tla`. Everything below is proved for all values of the constants under
the named assumptions of the modules.

**`PeerRebalanceProofs`**:
`TypeCorrect`; `FencesHold` (`FencesOnlyRise`, under every fault); and for `OnlyLoss`,
that is `Faults \subseteq {"loss"}`:
`QuotaSafe`, `GrowsAreCovered`, `GrowSafe` (the three invariants of `PeerLoss`),
`SlackBounded` (the shares exceed the limit by less than `NodeCount`) and
`EvenLimitsSafe` (the documented claim itself, where every limit divides evenly).
That a sum is small is not inductive: what keeps it small is where the round stands. The
invariant `QuotaInv` says, phase by phase: between rounds no call is in flight and the
shares fit; while the proposer polls no share moves, so its answers stay true
(`PollTrue`); in the shrink phase no node holds more than the round assumed, and the
confirmed ones hold what they were told (`Shrinking`); in the grow phase nobody holds
more than its target, and the targets add up to the limit (`Growing`). `CallsFollowRound`
and `OneCall` tie the one call in flight to the round. `PollTrue` is where the bootstrap
share assumed for an unseen node is needed, `OneCall` is what late calls break.
`FencesHold` rests on `FenceInv`: only a node that knows the customer has a fence or a
handler at work, and the round under way is never below the proposer's own fence, whose
local path compares nothing. `RoundsLandInOrder` is the other side of the finding
`PeerHandlerRace`: as long as no call outlives the wait for its answer and no node
restarts, there is one call at a time (`Alone`), a handler between its two critical
sections holds the newest round (`FenceIsRound`), and `StaleNeverLands` holds.

**`PeerDemandProofs`**: `SplitExact`, `DemandRebalances` (the refinement
`RebalancesOnly`) and `DemandSafe`. `SplitExact` is about `proportionalSplit` alone, for
any nodes, weights and limit: rounding each part down leaves `Total(w) * leftover`, the
sum of the remainders (`TotalsLinear`: what holds of every node's numbers holds of their
totals), so there are at most as many units left as nodes (`FloorsLeave`); the nodes rank
by their remainders without gaps or ties (`RanksAre`), so those ranked below `leftover`
are `leftover` many (`RankedBelow`), and one unit each makes the total the limit. With
that, each step of `PeerDemand` is one of `PeerRebalance` or changes none of its state
(`DemandStep`), and what is proved of rounds towards any split holds of those the demand
asks for.

**`LimiterProofs`** (with `GcraTheorems`): `LimiterTypeCorrect`,
`WindowSafe` (`WindowBound`) and `LimiterKeepsPace` (the refinement of `Pacing`), for
every quota, period, burst and number of goroutines. The invariant says what the one
stored time stands for: it is the *maximum*, over the admitted requests, of the
request's time plus one spacing for itself and each later one (`Paid`: no earlier,
`Tight`: no later). From `Paid` follows `Spaced`, that admissions j-i apart in the log
are at least (j-i-burst) spacings apart in time, in log order, whatever order the
requests arrived in. With the spacing rounded up, quota + burst log positions span a
period (`EmissionCovers`), and a set of positions less than m apart has at most m
elements (`CloseTogether`, by the injection into remainders). `DecisionPaces` in
`GcraTheorems` is the step they share: one `Decide` is a step of `Pacing`.

**`LiveShareProofs`**: `ShareTypeCorrect`, `LockOutBounded` (`NeverLockedOut`) and
`ShareKeepsPace` (the refinement of `LivePacing`), for any set of shares up to one
request per tick. The invariant is the same with the costs of the log in place of its
length (`LivePaid`, `LiveTight`), and `Ahead`, that the stored time is ahead of the clock by no more than burst + 1
requests at *some* share.

**`ServiceProofs`**: about one configuration, `AtMostOneApplies` (in a valid
configuration no two overrides of a customer apply at once) and `OnlyExpiryInvalidates`
(what was valid once becomes invalid only by the expiry of an override); about the node,
`ServiceTypeCorrect`; `OneAnswerSafe` and `OnlyExpiryKeepsDown`
lift these two to everything a node does, from the invariants
that what it serves was valid when it was loaded, and that all it has ever served was;
`LimitersKeepPace` applies `DecisionPaces` to each limiter under its own log;
`ComeBackIsHonoured` adds that `due`, the moment told to the client, is never before the
limiter's stored time less its tolerance. Its hypothesis is that a spacing is not longer
than its rounding up to whole seconds. In nanoseconds that fails only where
`time.Minute / Limit` is 0, above 60 billion requests a minute.

**`HarnessProofs`** (with `FiniteOrders`): every invariant of the runs `Harness` and
`HarnessVerdict`, for any number of workers, channel capacities, nodes and times:
`HarnessTypeCorrect`, `NothingIsLost`, `NodesLeftRunning`, `NoExcessUnseen`,
`FailuresHaveACause` and `FixedWindowTwiceInOrder`. `NothingLost` is not inductive either. `Balance` says where a request is that was put in the channel: there, with a
worker, in the channel of records, or collected. `InOrder` says who may be gone when: a
worker only when no request can come, the channel of records is closed only when all
workers are gone, the collector ends only on a closed and empty channel, and `Offer`
returns after it. `NodesLeftRunning` rests on `RevivedInv`: once the load has ended with
nothing asked of the victim, nothing can be asked any more.

`NoExcessUnseen` is about the algorithm, in any state: the places the sort gives are a
bijection (`PlacesAre`, `ArrivalsAre`), the search finds the first arrival of the window
(`WindowStartIs`), so i - lo + 1 counts the closed window that ends with the i-th arrival,
and the fullest window of all is one that ends with an arrival (`MaxRollingExceeds`): the
verdict is exact for closed windows, and an excess in a half-open one is one in a closed
one.

`FailuresHaveACause` and `FixedWindowTwiceInOrder` need to know what a node admits, but a
node keeps no log, admissions are on their way through workers and channels, and a node
that is stopped forgets. Their invariant `Booked` is that a book *could* be kept: there
are, for all admissions under way or collected, a node and a mark, a number that
node's state had reached when it admitted (the stored time in the GCRA build, the
admissions of all windows so far in the demo build), such that two marks of one node are
at least a gap apart, each mark fits the arrival it was decided for (`Fits`), and no node
that can still admit is behind its marks. The stored time of the GCRA build never falls,
in whatever order requests are decided; the demo build's window number does as soon as a
request is overtaken by one of a later minute, and from then on it has no book: `Booked`
is kept as long as the build is `InStep`. Every step of a worker or of the collector hands the
marks on (`HandedOn`), a decision adds one beyond all others (`DecisionBooks`), and a node
that stops leaves its marks behind, since it serves no more before the load is over.
Admissions of a minute's arrivals have marks within share + burst gaps, or two windows
of the demo build; `MarksApart`, a pigeonhole argument, turns that into a number of
admissions for each node, and that number is `SafetyBound`.

**Model-checked only**: liveness (`RoundsEnd`, `FollowsUnlessRefused`, `ReloadCatchesUp`,
`ScenarioEnds`), since the prover handles no ENABLED. Every other property that a run
finds to hold is a theorem. Induction principles that take an operator are out of reach,
too; where an argument is inductive over a finite set (`LargestInt`, `TotalsLinear`) the
proof takes a smallest subset that fails, which needs the well-foundedness of the
inclusion of finite sets only. No property rests on what a recursive definition computes.

## 5 Where code and documents disagree

Each of these runs ends in a counterexample, and `PROJECT.json` quotes the claim.

- `PeerPollLoss`: a node that does not answer the poll keeps its share, while the *whole*
  limit is split over the others. The sum exceeds the limit after one round.
- `PeerHandlerRace`: `handleApplyShare` unlocks between recording the round and setting
  the quota; the quota of an older round can land on that of a newer one. `RoundsLandInOrder`
  shows what keeps it from happening otherwise: the proposer waits for each answer.
- `PeerStuck`: the round number is the proposer's fence plus one, and that fence moves
  only when the proposer's own share does. After a round among other nodes the next has
  the same number and is refused, for as long as the demand leaves the proposer's share
  alone. No fault is needed.
- `ShareWindow`: the burst tolerance is worth one interval of the share *in force now*. A
  shrink widens it, so right after a shrink a node admits a request its larger share has
  just refused, and a window holds more than the largest share plus the burst.

Met while modelling, without a run of their own:

- `peer.go:615-618`: a grow executed after the proposer has given up on it passes the fence
  of a node that later rounds did not touch, and `SharesWithinLimit` fails as in
  `PeerPollLoss`: set `Faults = {"late"}`, `Nodes = {1, 2}`, `NodeCount = 2`,
  `Limits = {4}`, `Hysteresis = 1` and `MaxRound = 3` in its configuration.
  `peer.go:563-567` says that a grow not acknowledged over-grants nothing. `EvenLimitsSafe`
  shows that late calls, not lost ones, are what it takes.
- `share_gcra.go:68` rounds the spacing down, where `share_gcra.go:22` says that it
  reproduces `decide` "exactly (same emission-interval spacing ...)" and `gcra.go:21-29` why
  the ceiling is required. With a share that does not divide the period a window holds one
  admission more than share and burst, without any change of the share: `ShareWindowBound`
  fails with the one share 3 and a period of 5. `LivePacing` is stated with the spacing of
  the code, so `KeepsLivePace` does not see this. In nanoseconds it takes a client that
  sends at the full rate for the whole window.
- `resolver.go:106-130`: grace is said to pad enforcement past the nominal end (and
  `config.go:45`); it is cut at midnight, since the window is laid out on the date of `now`
  only, and `Validate` accepts such a window silently. `Policy` models the cut.
- `fixedwindow.go:14-16`: the demo build admits "up to 2x quota across the boundary". A
  handler reads the clock (`server.go:92`) before it comes to the lock, and
  `fixedwindow.go:38` starts the window anew on *any* other minute, earlier or later:
  with share 1, requests stamped in the minutes 0, 1, 0, 1 and decided in this order are
  all four admitted. `TwiceUnlessOvertaken` is what holds instead.
- `analysis.go:53-55`: the comment counts (t-60s, t], the code the closed window, so an
  answer received exactly a minute before counts, and may make a FAIL that no window as
  documented explains. `ExcessIsFailed` is the direction that holds: what the comment
  counts is never missed.
- `static.go:37-45`: a changed limit is said to meet "a fresh limiter, fresh TAT". Only
  the first time: the limiters of earlier limits are kept, and one that comes back into
  force remembers. `EachLimiterKeepsPace` is about that.
- `server.go:144-147`: `X-RateLimit-Reset` is "seconds until one more admission would be
  possible". After an admission it is one whole spacing, also while `Remaining` is above 0
  and the next request would be admitted at once. It errs on the safe side
  (`ComeBackHonoured`).
- `scenarios.go:391`: `did` is "true if the kill command actually ran"; it is set also
  when the command failed, or was not started because its context had ended.
- `scenarios.go:431-437`: the kill "must not fire after the revive". It does not, but a
  kill command at work when the load ends is itself killed, and what it has asked of the
  container engine may still happen after the revive. `LeftRunning` excuses exactly this.
- `scenarios.go:442`: the kill goroutine is "guaranteed to have sent by now"; it may still
  be waiting for its command. The receive waits too (`ScenarioEnds`).
- `scenarios.go:400` and its like: when every probe fails the limit is 0 and a correct
  service gets a FAIL. `FailNeedsCause` needs the limit to have been probed.
- `main.go:80-91`: `ListenAndServe` returns as soon as `Shutdown` begins, and `main` with
  it: the 5 seconds for running requests are never waited. A SIGHUP before the watcher
  asks for it, or after it has stopped, ends the process.

## 6 What is not modelled

**Abstracted.** Logging, metrics, bodies and the headers' wording; `QuotaState` and
`peerHealth`, which nothing in the protocol reads; the hash that picks a shard. Times do
not overflow: an `int64` of nanoseconds holds 292 years. Floating point in
`proportionalSplit` is exact fractions; weights and limits are far below 2^53. The demand
counters, which a poll resets, and their moving average are one weight per node. Text
fields and times of the configuration parse or do not. A malformed development clock is
a panic at start, which `Crash` covers. In `Harness` the channels' capacities are
constants (the code's are 2 and 4 per worker), the probe has one time and the load
another (with nobody to overtake, its clock read and decision are one step), starting a
command and checking its context is one step, and the runs have one node. A client waits
for any tick up to its timeout, whose length is not modelled.

**Left out.** In peer mode, the wiring of the process and the policy: `PeerRebalance` has
`ChangeLimit` in its place. Of the harness: the scenarios that are compositions of the
same probe and `Offer` (one of them runs two customers at a time), an empty revive
command, notes, report and cross-check against server logs. Of the HTTP server: the
introspection endpoints. Environment parsing, audit log and deployment files have no
behaviour to check.

## 7 Plan

Done: the protocol, its safety and its proofs; demand and convergence, under changing
limits too, with the proof that the split is exact; both limiters, their abstract specifications and their proofs; policy,
process, static coordinator and server as one `Service`, with proofs; the harness and the
fixed-window build, with proofs. Next, in this order:

1. `AdmissionCluster`: N nodes with live shares, rounds and a clock; the total admitted in
   a window against (ceil(limit/N) + burst) * N and against what rebalancing can add.
   Composes `LiveShare` per node with the rounds of `PeerRebalance` (safe splits only).
2. `QuotaLedger`, an abstract specification of the peer protocol (quota is released
   before it is granted), which `PeerRebalance` under losses refines; the refinement
   proved from `QuotaInv`.
3. The demand counters (reset when read, lost with the answer), in `PeerDemand`.
4. `PeerRebalance` with `NodeCount` other than the number of nodes, limits that differ
   between nodes during a reload, and a bound on the sum of shares after a restart.

Theorems to come: the refinement of `QuotaLedger`, and the window bound of `LiveShare`
at a constant share, with what the rounded-down spacing adds.
