-------------------------------- MODULE Harness --------------------------------
(***************************************************************************)
(* A scenario of the load harness (cmd/harness) against nodes that each    *)
(* serve their share of one customer's limit: probe the limit, offer load, *)
(* stop a node on the way and start it again (node-failure; the other      *)
(* scenarios are without), and judge what was admitted.                    *)
(*                                                                         *)
(* The goroutines of Offer are a pacer, workers and a collector, joined by *)
(* two bounded channels.  A tick of the clock is a tick of the pacer.  The *)
(* nodes, the proxy before them and the commands that stop and start a     *)
(* node are outside: a request may reach a node, be decided and answered   *)
(* at any time, or fail, and a node may still serve one nobody waits for;  *)
(* what a command has asked for may still happen once it was killed.       *)
(*                                                                         *)
(* A handler reads the clock first and comes to the limiter later, so a    *)
(* request may be decided after one that arrived after it.                 *)
(***************************************************************************)
EXTENDS Gcra, Sequences, FiniteSets

CONSTANTS
    Workers,      \* the workers of Offer
    Nodes,        \* the nodes behind the address under test
    Victim,       \* the node the kill command stops
    Kills,        \* whether the scenarios have a kill: some of TRUE and FALSE
    RequestsCap,  \* capacity of the channel requests (Concurrency*2)
    RecordsCap,   \* capacity of the channel records (Concurrency*4)
    MaxAttempts,  \* probes before the limit is given up
    Minute,       \* 60 seconds, in ticks
    Limit,        \* the customer's limit
    Burst,        \* NodeBurst
    ProbeTime,    \* when the limit is probed
    StartTime,    \* when the load starts
    Duration,     \* how long it lasts
    KillAt,       \* when the kill command is due, from the start
    MaxTime,      \* bound: the last tick
    MaxAdrift     \* bound: the kinds of requests that nobody waits for

ASSUME HarnessAssumption ==
    /\ Victim \in Nodes /\ IsFiniteSet(Nodes) /\ Kills \subseteq BOOLEAN
    /\ Workers # {} /\ IsFiniteSet(Workers)
    /\ {RequestsCap, RecordsCap, MaxAttempts, Minute, Limit, ProbeTime} \subseteq Nat \ {0}
    /\ {Burst, Duration, KillAt, MaxTime, MaxAdrift} \subseteq Nat
    /\ StartTime \in Nat /\ ProbeTime <= StartTime
    /\ MaxTime >= StartTime + Duration /\ MaxTime >= StartTime + KillAt

VARIABLES
    now,        \* the time, of harness and nodes
    cancelled,  \* the timeout of the whole run has passed
    main,       \* where the scenario, and the pacer in it, is
    probe,      \* the probes without an answer, and the limit in the end, 0 for none
    ticked,     \* the ticker's channel holds a tick
    queued,     \* the requests in the channel requests
    accepted,   \* history: requests ever put in that channel
    worker,     \* worker[w]: what w does
    records,    \* the channel records
    collected,  \* what the collector has appended
    collector,  \* the collector: "ranging" or "done"
    killer,     \* the goroutine that stops a node
    stopAsked,  \* the node has been asked to stop, and has not yet
    excused,    \* history: it was so when the load ended, or the revive failed
    server,     \* the limiter the nodes were built with: "gcra" or "fixedwindow"
    up,         \* up[n]: node n serves
    tat,        \* tat[n]: the customer's stored time at n
    window,     \* window[n]: minute and count of the fixed-window build
    adrift,     \* adrift[r]: the requests r that nobody waits for any more
    overtaken   \* history: one met a window of a later minute than its own

clockVars == <<now, cancelled>>
pacerVars == <<ticked, queued, accepted>>
workVars == <<worker, records, collected, collector>>
killVars == <<killer, stopAsked, excused>>
limiterVars == <<server, tat, window, overtaken>>
nodeVars == <<limiterVars, up, adrift>>
vars == <<clockVars, main, probe, pacerVars, workVars, killVars, nodeVars>>

Times == ProbeTime .. MaxTime

Errored == [kind |-> "errored"]
Rejected == [kind |-> "rejected"]
Admitted(arrived, received) == [kind |-> "admitted", arrived |-> arrived, received |-> received]
Record == {Errored, Rejected} \cup {Admitted(a, r) : a \in Times, r \in Times}

Idle == [pc |-> "idle"]
Asking == [pc |-> "asking"]
Gone == [pc |-> "gone"]
Stamped(n, at) == [pc |-> "stamped", node |-> n, at |-> at]
Decided(n, allowed, at) == [pc |-> "decided", node |-> n, allowed |-> allowed, at |-> at]
Holding(record) == [pc |-> "holding", record |-> record]

\* Requests without a decision, on the way or with the time of their arrival.
Pending == {Asking} \cup [pc : {"stamped"}, node : Nodes, at : Times]

Working == {Idle, Gone} \cup Pending
               \cup [pc : {"decided"}, node : Nodes, allowed : BOOLEAN, at : Times]
               \cup [pc : {"holding"}, record : Record]

\* The pacing loop, and the stages of the scenario once it has ended.
Loop == {"check", "select"}
Ends == <<"waiting", "collecting", "returned", "reviving", "killch", "over">>

Reached(stage) ==
    \E i, j \in DOMAIN Ends : i <= j /\ Ends[i] = stage /\ Ends[j] = main

RequestsClosed == Reached("waiting")
RecordsClosed == Reached("collecting")

\* Mutant of KillCancelled: cancelKill is not called when the load has ended.
KillNotCancelled == cancelled
KillCancelled == cancelled \/ Reached("reviving")

Unserved == [id |-> 0, count |-> 0]

TypeOK ==
    /\ now \in Times /\ cancelled \in BOOLEAN
    /\ main \in {"probing", "panicked"} \cup Loop \cup {Ends[i] : i \in DOMAIN Ends}
    /\ probe \in [failed : 0 .. MaxAttempts - 1, limit : {0, Limit}]
    /\ ticked \in BOOLEAN /\ queued \in 0 .. RequestsCap /\ accepted \in Nat
    /\ worker \in [Workers -> Working]
    /\ records \in Seq(Record) /\ Len(records) <= RecordsCap
    /\ collected \in Seq(Record) /\ collector \in {"ranging", "done"}
    /\ killer \in {"none", "timer", "running", "sent", "drained"}
    /\ stopAsked \in BOOLEAN /\ excused \in BOOLEAN
    /\ server \in {"gcra", "fixedwindow"}
    /\ up \in [Nodes -> BOOLEAN] /\ tat \in [Nodes -> Nat]
    /\ window \in [Nodes -> [id : Nat, count : Nat]]
    /\ adrift \in [Pending -> Nat] /\ overtaken \in BOOLEAN

Init ==
    /\ now = ProbeTime /\ cancelled = FALSE
    /\ main = "probing" /\ probe = [failed |-> 0, limit |-> 0]
    /\ ticked = FALSE /\ queued = 0 /\ accepted = 0
    /\ worker = [w \in Workers |-> Idle]
    /\ records = <<>> /\ collected = <<>> /\ collector = "ranging"
    /\ \E kill \in Kills : killer = IF kill THEN "timer" ELSE "none"
    /\ stopAsked = FALSE /\ excused = FALSE
    /\ server \in {"gcra", "fixedwindow"}
    /\ up = [n \in Nodes |-> TRUE]
    /\ tat = [n \in Nodes |-> 0] /\ window = [n \in Nodes |-> Unserved]
    /\ adrift = [r \in Pending |-> 0] /\ overtaken = FALSE

PassTime ==
    /\ now < MaxTime  \* bound
    /\ main \notin {"probing", "over"}
    /\ now' = now + 1
    /\ ticked' = (ticked \/ main \in Loop)
    /\ UNCHANGED <<cancelled, main, probe, queued, accepted, workVars, killVars, nodeVars>>

\* The timeout of the whole run passes.
Cancel ==
    /\ ~cancelled /\ main # "over"
    /\ cancelled' = TRUE
    /\ UNCHANGED <<now, main, probe, pacerVars, workVars, killVars, nodeVars>>

-----------------------------------------------------------------------------
\* A node decides a request

NodeCount == Cardinality(Nodes)

\* nodeShare
Share == (Limit + NodeCount - 1) \div NodeCount

\* fixedWindowLimiter.allow, once the window of the request is there
Counted(st) == [allowed |-> st.count < Share,
                window |-> IF st.count < Share THEN [st EXCEPT !.count = @ + 1] ELSE st]

\* Mutant of FixedWindow: the new window is not given its number.
FixedWindowForgets(n, at) ==
    LET id == at \div Minute
    IN  Counted(IF window[n].id = id THEN window[n] ELSE Unserved)

\* Whichever minute the window at hand is of, earlier or later.
FixedWindow(n, at) ==
    LET id == at \div Minute
    IN  Counted(IF window[n].id = id THEN window[n] ELSE [id |-> id, count |-> 0])

\* Of a request whose handler read the clock at time at.
Decision(n, at, allowed) ==
    /\ up[n]
    /\ \/ LET d == Decide(tat[n], at, CeilEmission(Minute, Share), Burst)
          IN  /\ server = "gcra"
              /\ allowed = d.allowed
              /\ tat' = [tat EXCEPT ![n] = d.tat]
              /\ UNCHANGED <<window, overtaken>>
       \/ /\ server = "fixedwindow"
          /\ allowed = FixedWindow(n, at).allowed
          /\ window' = [window EXCEPT ![n] = FixedWindow(n, at).window]
          /\ overtaken' = (overtaken \/ at \div Minute < window[n].id)
          /\ UNCHANGED tat
    /\ UNCHANGED <<server, up>>

\* The client gives a request up, which may still be served; or not, beyond the
\* bound.
GiveUp(r) ==
    adrift' = IF Cardinality({q \in Pending : adrift[q] > 0}) < MaxAdrift
              THEN [adrift EXCEPT ![r] = @ + 1] ELSE adrift

\* What becomes of those, until the records are all there (bound).
Ashore == UNCHANGED <<clockVars, main, probe, pacerVars, workVars, killVars>>

ArriveAdrift(n) ==
    /\ ~RecordsClosed  \* bound
    /\ adrift[Asking] > 0 /\ up[n]
    /\ adrift' = [adrift EXCEPT ![Asking] = @ - 1, ![Stamped(n, now)] = @ + 1]
    /\ UNCHANGED <<limiterVars, up>> /\ Ashore

ServedAdrift(n, at) ==
    /\ ~RecordsClosed  \* bound
    /\ adrift[Stamped(n, at)] > 0
    /\ \E allowed \in BOOLEAN : Decision(n, at, allowed)
    /\ adrift' = [adrift EXCEPT ![Stamped(n, at)] = @ - 1]
    /\ Ashore

Drift == \E n \in Nodes : ArriveAdrift(n) \/ \E at \in Times : ServedAdrift(n, at)

-----------------------------------------------------------------------------
\* probeEffectiveLimit

\* Offer starts, its ticker with it.
StartLoad == main' = "check" /\ now' = StartTime

\* Any answer names the limit, a 429 too.
ProbeAnswered(n) ==
    /\ main = "probing" /\ ~cancelled
    /\ \E allowed \in BOOLEAN : Decision(n, now, allowed)
    /\ probe' = [failed |-> 0, limit |-> Limit]
    /\ StartLoad
    /\ UNCHANGED <<cancelled, pacerVars, workVars, killVars, adrift>>

\* After the last probe without an answer the scenario goes on with limit 0.
ProbeFails ==
    /\ main = "probing"
    /\ IF probe.failed + 1 = MaxAttempts \/ cancelled
       THEN probe' = [probe EXCEPT !.failed = 0] /\ StartLoad
       ELSE probe' = [probe EXCEPT !.failed = @ + 1] /\ UNCHANGED <<main, now>>
    /\ IF cancelled THEN UNCHANGED adrift ELSE GiveUp(Asking)
    /\ UNCHANGED <<cancelled, pacerVars, workVars, killVars, limiterVars, up>>

Probe == ProbeFails \/ \E n \in Nodes : ProbeAnswered(n)

-----------------------------------------------------------------------------
\* Offer: the pacer

Elsewhere == UNCHANGED <<clockVars, probe, workVars, nodeVars>>

\* close(requests), and the deferred ticker.Stop: nobody looks at it again.
LeaveLoop == main' = "waiting" /\ ticked' = FALSE

CheckDeadline ==
    /\ main = "check"
    /\ IF now < StartTime + Duration
       THEN main' = "select" /\ UNCHANGED ticked
       ELSE LeaveLoop
    /\ UNCHANGED <<queued, accepted, killVars>> /\ Elsewhere

\* Mutant of Tick: the request is put in the channel whether it is full or not.
TickOverfull ==
    /\ main = "select" /\ ticked
    /\ ticked' = FALSE /\ main' = "check"
    /\ queued' = queued + 1 /\ accepted' = accepted + 1
    /\ UNCHANGED killVars /\ Elsewhere

\* A tick is dropped when the channel is full.
Tick ==
    /\ main = "select" /\ ticked
    /\ ticked' = FALSE /\ main' = "check"
    /\ IF queued < RequestsCap
       THEN queued' = queued + 1 /\ accepted' = accepted + 1
       ELSE UNCHANGED <<queued, accepted>>
    /\ UNCHANGED killVars /\ Elsewhere

StopPacing ==
    /\ main = "select" /\ cancelled
    /\ LeaveLoop
    /\ UNCHANGED <<queued, accepted, killVars>> /\ Elsewhere

\* Mutant of CloseRecords: the workers are not waited for.
CloseRecordsEarly ==
    /\ main = "waiting"
    /\ main' = "collecting"
    /\ UNCHANGED <<pacerVars, killVars>> /\ Elsewhere

\* wg.Wait, close(records)
CloseRecords ==
    /\ main = "waiting" /\ \A w \in Workers : worker[w] = Gone
    /\ main' = "collecting"
    /\ UNCHANGED <<pacerVars, killVars>> /\ Elsewhere

Return ==
    /\ main = "collecting" /\ collector = "done"
    /\ main' = "returned"
    /\ UNCHANGED <<pacerVars, killVars>> /\ Elsewhere

Pacer == CheckDeadline \/ Tick \/ StopPacing \/ CloseRecords \/ Return

-----------------------------------------------------------------------------
\* Offer: workers and collector

Outside == UNCHANGED <<clockVars, probe, ticked, accepted, killVars>>

\* A request made once the context has ended fails at once.
Take(w) ==
    /\ worker[w] = Idle /\ queued > 0
    /\ queued' = queued - 1
    /\ worker' = [worker EXCEPT ![w] = IF cancelled THEN Holding(Errored) ELSE Asking]
    /\ UNCHANGED <<main, records, collected, collector, nodeVars>> /\ Outside

\* handlePing reads the clock.
Arrive(w) ==
    /\ worker[w] = Asking
    /\ \E n \in Nodes : up[n] /\ worker' = [worker EXCEPT ![w] = Stamped(n, now)]
    /\ UNCHANGED <<main, queued, records, collected, collector, nodeVars>> /\ Outside

\* handlePing has come to the limiter.
Served(w) ==
    /\ worker[w].pc = "stamped"
    /\ \E allowed \in BOOLEAN :
          /\ Decision(worker[w].node, worker[w].at, allowed)
          /\ worker' = [worker EXCEPT ![w] =
                Decided(worker[w].node, allowed, worker[w].at)]
    /\ UNCHANGED <<main, queued, records, collected, collector, adrift>> /\ Outside

Receive(w) ==
    /\ worker[w].pc = "decided"
    /\ worker' = [worker EXCEPT ![w] =
          Holding(IF worker[w].allowed THEN Admitted(worker[w].at, now) ELSE Rejected)]
    /\ UNCHANGED <<main, queued, records, collected, collector, nodeVars>> /\ Outside

\* Timeout of the client, end of the context, or a node that is not there.  No
\* handler looks whether its client has gone.
Fail(w) ==
    /\ worker[w].pc \in {"asking", "stamped", "decided"}
    /\ worker' = [worker EXCEPT ![w] = Holding(Errored)]
    /\ IF worker[w].pc = "decided" THEN UNCHANGED adrift ELSE GiveUp(worker[w])
    /\ UNCHANGED <<main, queued, records, collected, collector, limiterVars, up>> /\ Outside

Put(w) ==
    /\ worker[w].pc = "holding"
    /\ IF RecordsClosed
       THEN main' = "panicked" /\ UNCHANGED <<worker, records>>
       ELSE /\ Len(records) < RecordsCap
            /\ records' = Append(records, worker[w].record)
            /\ worker' = [worker EXCEPT ![w] = Idle]
            /\ UNCHANGED main
    /\ UNCHANGED <<queued, collected, collector, nodeVars>> /\ Outside

Quit(w) ==
    /\ worker[w] = Idle /\ queued = 0 /\ RequestsClosed
    /\ worker' = [worker EXCEPT ![w] = Gone]
    /\ UNCHANGED <<main, queued, records, collected, collector, nodeVars>> /\ Outside

Work(w) ==
    Take(w) \/ Arrive(w) \/ Served(w) \/ Receive(w) \/ Fail(w) \/ Put(w) \/ Quit(w)

Collect ==
    /\ collector = "ranging"
    /\ \/ /\ records # <<>>
          /\ records' = Tail(records) /\ collected' = Append(collected, Head(records))
          /\ UNCHANGED collector
       \/ /\ records = <<>> /\ RecordsClosed
          /\ collector' = "done"
          /\ UNCHANGED <<records, collected>>
    /\ UNCHANGED <<main, queued, worker, nodeVars>> /\ Outside

-----------------------------------------------------------------------------
\* node-failure: the goroutine that stops a node, and the end of the scenario

Apart == UNCHANGED <<clockVars, probe, pacerVars, workVars>>

\* The timer is up.  No command is started for a context that has ended.
KillDue ==
    /\ killer = "timer" /\ main # "probing" /\ now >= StartTime + KillAt
    /\ killer' = IF KillCancelled THEN "sent" ELSE "running"
    /\ stopAsked' = ~KillCancelled
    /\ UNCHANGED <<main, excused, nodeVars>> /\ Apart

\* Mutant of KillGivesUp: nothing is sent when there was nothing to kill.
KillGoesQuietly ==
    /\ killer = "timer" /\ main # "probing" /\ KillCancelled
    /\ killer' = "drained"
    /\ UNCHANGED <<main, stopAsked, excused, nodeVars>> /\ Apart

KillGivesUp ==
    /\ killer = "timer" /\ main # "probing" /\ KillCancelled
    /\ killer' = "sent"
    /\ UNCHANGED <<main, stopAsked, excused, nodeVars>> /\ Apart

\* The command ends.  If it was killed, what it asked for is still asked.
KillReturns ==
    /\ killer = "running"
    /\ killer' = "sent"
    /\ stopAsked' = (stopAsked /\ KillCancelled)
    /\ UNCHANGED <<main, excused, nodeVars>> /\ Apart

\* The node stops, and what it kept is gone.  The proxy asks another node on
\* behalf of those the node has not decided, and of some it has not answered.
NodeStops ==
    /\ stopAsked
    /\ stopAsked' = FALSE
    /\ up' = [up EXCEPT ![Victim] = FALSE]
    /\ tat' = [tat EXCEPT ![Victim] = 0]
    /\ window' = [window EXCEPT ![Victim] = Unserved]
    /\ \E unanswered \in SUBSET Workers :
          worker' = [w \in Workers |->
              IF /\ worker[w].pc \in {"stamped", "decided"} /\ worker[w].node = Victim
                 /\ worker[w].pc = "decided" => w \in unanswered
              THEN Asking ELSE worker[w]]
    /\ adrift' = [r \in Pending |->
          IF r.pc = "stamped" /\ r.node = Victim THEN 0 ELSE adrift[r]]
    /\ UNCHANGED <<clockVars, main, probe, pacerVars, records, collected, collector>>
    /\ UNCHANGED <<killer, excused, server, overtaken>>

CancelKill ==
    /\ main = "returned"
    /\ main' = "reviving"
    /\ excused' = stopAsked
    /\ UNCHANGED <<killer, stopAsked, nodeVars>> /\ Apart

\* The revive command; its failure is ignored.
Revive ==
    /\ main = "reviving"
    /\ main' = "killch"
    /\ \/ up' = [up EXCEPT ![Victim] = TRUE] /\ UNCHANGED excused
       \/ excused' = TRUE /\ UNCHANGED up
    /\ UNCHANGED <<killer, stopAsked, limiterVars, adrift>> /\ Apart

DrainKill ==
    /\ main = "killch" /\ killer \in {"none", "sent"}
    /\ main' = "over"
    /\ killer' = IF killer = "sent" THEN "drained" ELSE killer
    /\ UNCHANGED <<stopAsked, excused, nodeVars>> /\ Apart

Kill == KillDue \/ KillGivesUp \/ KillReturns
WindUp == CancelKill \/ Revive \/ DrainKill

Next ==
    \/ main # "panicked" /\ (PassTime \/ Cancel \/ Probe \/ Pacer \/ Collect)
    \/ main # "panicked" /\ (Kill \/ NodeStops \/ WindUp \/ Drift)
    \/ main # "panicked" /\ \E w \in Workers : Work(w)

Spec == Init /\ [][Next]_vars

\* Every goroutine runs on; the client's timeout ends each request, and the
\* commands end.
Fairness ==
    /\ WF_vars(PassTime) /\ WF_vars(Probe) /\ WF_vars(Pacer) /\ WF_vars(Collect)
    /\ \A w \in Workers : WF_vars(Work(w))
    /\ WF_vars(Kill) /\ WF_vars(WindUp)

FairSpec == Spec /\ Fairness

-----------------------------------------------------------------------------
\* The verdict

\* The admissions among the records, and when they were received, in order.
Answered(recs) == {i \in DOMAIN recs : recs[i].kind = "admitted"}

NotAfter(recs, i) ==
    {j \in Answered(recs) : \/ recs[j].received < recs[i].received
                            \/ recs[j].received = recs[i].received /\ j <= i}

Arrivals(recs) ==
    [k \in 1 .. Cardinality(Answered(recs)) |->
        recs[CHOOSE i \in Answered(recs) : Cardinality(NotAfter(recs, i)) = k].received]

\* The first admission from a minute before the i-th on.
WindowStart(times, i) ==
    CHOOSE k \in DOMAIN times :
        /\ times[k] >= times[i] - Minute
        /\ \A j \in 1 .. k - 1 : times[j] < times[i] - Minute

\* Mutant of WindowCounts: the admission that ends the window is not counted.
WindowCountsShort(times) == {i - WindowStart(times, i) : i \in DOMAIN times}

\* For each admission, those from a minute before up to it.
WindowCounts(times) == {i - WindowStart(times, i) + 1 : i \in DOMAIN times}

\* maxRolling60s
MaxRolling(recs) ==
    LET counts == WindowCounts(Arrivals(recs))
    IN  IF counts = {} THEN 0 ELSE CHOOSE c \in counts : \A d \in counts : d <= c

\* Mutant of SafetyBound: the bound without the burst of each node.
BoundWithoutBurst(limit) == ((limit + NodeCount - 1) \div NodeCount) * NodeCount

\* safetyBound: NodeCount is the constant 3 there.
SafetyBound(limit) == ((limit + NodeCount - 1) \div NodeCount + Burst) * NodeCount

\* safetyVerdict
Fails == MaxRolling(collected) > SafetyBound(probe.limit)

-----------------------------------------------------------------------------
\* Properties

AdmittedRecords == Answered(collected)

\* Every request that was put in the channel has its one record when Offer
\* returns, and no worker meets a closed channel, whatever is cancelled,
\* slow or full on the way ("Returns every request's outcome", client.go).
NothingLost ==
    /\ main # "panicked"
    /\ Reached("returned") => Len(collected) = accepted

\* What was received in the minute that ends at t, the start not included.
ReceivedBefore(t) ==
    Cardinality({i \in AdmittedRecords :
        t - Minute < collected[i].received /\ collected[i].received <= t})

\* No excess goes unseen: where more than the bound was received within some
\* (t-60s, t] (analysis.go:53), the verdict is FAIL, in whatever order the workers
\* delivered it.  Not conversely: the code counts what is 60s old as well.
ExcessIsFailed ==
    (main = "over" /\ \E t \in Times : ReceivedBefore(t) > SafetyBound(probe.limit)) => Fails

\* The limiter is never to blame for a FAIL: if the limit was probed, answers to
\* requests that arrived a minute or more apart were received within one.
FailNeedsCause ==
    (main = "over" /\ Fails /\ server = "gcra" /\ probe.limit = Limit) =>
        \E i, j \in AdmittedRecords :
            /\ collected[j].arrived - collected[i].arrived >= Minute
            /\ collected[j].received - collected[i].received <= Minute

\* What the nodes admitted of the arrivals in the minute that ends at t.
ArrivedBefore(t) ==
    Cardinality({i \in AdmittedRecords :
        t - Minute < collected[i].arrived /\ collected[i].arrived <= t})

\* The fixed-window build, meant to be caught, admits up to twice its shares in
\* a minute and no more, as long as no request is overtaken by one of a later
\* minute on its way to the limiter: then the window starts anew on the way back
\* to the earlier minute as well, as often as minutes alternate.
TwiceUnlessOvertaken ==
    (server = "fixedwindow" /\ ~overtaken) =>
        \A t \in Times : ArrivedBefore(t) <= 2 * Share * NodeCount

\* The scenario leaves every node running, unless the kill command was still
\* at work when the load ended or the revive command failed.
LeftRunning == (main = "over" /\ ~excused) => \A n \in Nodes : up[n]

\* Every scenario comes to its end: no goroutine of Offer is left waiting, and
\* there is always a kill result to drain.
ScenarioEnds == <>(main = "over")
===============================================================================
