----------------------------- MODULE HarnessProofs -----------------------------
(***************************************************************************)
(* Theorems about module Harness, for any number of workers and nodes, any *)
(* channels, limits and times, and whatever fails or is cancelled.         *)
(*                                                                         *)
(*   HarnessTypeCorrect  Spec => []TypeOK                                  *)
(*   NothingIsLost       Spec => []NothingLost                             *)
(*   NodesLeftRunning    Spec => []LeftRunning                             *)
(*   NoExcessUnseen      Spec => []ExcessIsFailed                          *)
(*   FailuresHaveACause  Spec => []FailNeedsCause                          *)
(*   FixedWindowTwiceInOrder  Spec => []TwiceUnlessOvertaken               *)
(*                                                                         *)
(* The last two rest on Booked: every admission under way has a node and a *)
(* mark in that node's book, and no two of a node lie closer than a gap.   *)
(* Of the fixed-window build it holds until a request is overtaken.        *)
(***************************************************************************)
EXTENDS Harness, GcraTheorems, FiniteOrders

-----------------------------------------------------------------------------
\* Stages and workers

\* Where main is tells which channels are closed, and whether kill is over.
StageSets ==
    /\ RequestsClosed <=>
          main \in {"waiting", "collecting", "returned", "reviving", "killch", "over"}
    /\ RecordsClosed <=> main \in {"collecting", "returned", "reviving", "killch", "over"}
    /\ Reached("returned") <=> main \in {"returned", "reviving", "killch", "over"}
    /\ Reached("reviving") <=> main \in {"reviving", "killch", "over"}

LEMMA StagesAre == StageSets /\ StageSets'
<1> DEFINE E == Ends
<1>1. /\ DOMAIN E = 1 .. 6
      /\ E[1] = "waiting" /\ E[2] = "collecting" /\ E[3] = "returned"
      /\ E[4] = "reviving" /\ E[5] = "killch" /\ E[6] = "over"
    BY DEF Ends
<1>2. \A s : Reached(s) <=> \E i, j \in DOMAIN E : i <= j /\ E[i] = s /\ E[j] = main
    BY DEF Reached
<1>3. \A s : Reached(s)' <=> \E i, j \in DOMAIN E : i <= j /\ E[i] = s /\ E[j] = main'
    BY DEF Reached, Ends
<1> HIDE DEF E
<1>4. StageSets
    BY <1>1, <1>2 DEF StageSets, RequestsClosed, RecordsClosed
<1>5. StageSets'
    BY <1>1, <1>3 DEF StageSets, RequestsClosed, RecordsClosed
<1> QED BY <1>4, <1>5

\* What a worker that is at a point carries with it.
LEMMA WorkerIs ==
    /\ Idle \in Working /\ Idle.pc = "idle"
    /\ Asking \in Pending /\ Asking.pc = "asking"
    /\ Gone \in Working /\ Gone.pc = "gone"
    /\ Pending \subseteq Working
    /\ \A n, t : Stamped(n, t).pc = "stamped" /\ Stamped(n, t).node = n
    /\ \A n \in Nodes, t \in Times : Stamped(n, t) \in Pending
    /\ \A r : Holding(r).pc = "holding" /\ (r \in Record => Holding(r) \in Working)
    /\ \A n, a, t : Decided(n, a, t).pc = "decided"
    /\ \A n \in Nodes, a \in BOOLEAN, t \in Times : Decided(n, a, t) \in Working
    /\ \A v \in Working : v.pc = "holding" => v.record \in Record
    /\ \A v \in Working : v.pc \in {"asking", "stamped"} => v \in Pending
    /\ \A v \in Working : v.pc = "stamped" => v.node \in Nodes /\ v.at \in Times
    /\ \A v \in Working : v.pc = "decided" =>
          v.node \in Nodes /\ v.allowed \in BOOLEAN /\ v.at \in Times
<1>1. /\ Idle.pc = "idle" /\ Asking.pc = "asking" /\ Gone.pc = "gone"
      /\ Idle \in Working /\ Asking \in Pending /\ Gone \in Working
      /\ Pending \subseteq Working
    BY DEF Idle, Asking, Gone, Working, Pending
<1>2. \A r : Holding(r).pc = "holding" /\ (r \in Record => Holding(r) \in Working)
    BY DEF Holding, Working
<1>3. /\ \A n, a, t : Decided(n, a, t).pc = "decided"
      /\ \A n \in Nodes, a \in BOOLEAN, t \in Times : Decided(n, a, t) \in Working
    BY DEF Decided, Working
<1>4. /\ \A n, t : Stamped(n, t).pc = "stamped" /\ Stamped(n, t).node = n
      /\ \A n \in Nodes, t \in Times : Stamped(n, t) \in Pending
    BY DEF Stamped, Pending
<1>5. ASSUME NEW v \in Working
      PROVE  /\ v.pc = "holding" => v.record \in Record
             /\ v.pc \in {"asking", "stamped"} => v \in Pending
             /\ v.pc = "stamped" => v.node \in Nodes /\ v.at \in Times
             /\ v.pc = "decided" => v.node \in Nodes /\ v.allowed \in BOOLEAN /\ v.at \in Times
    <2>1. CASE v \in {Idle, Gone, Asking}
        BY <1>1, <2>1
    <2>2. CASE v \in [pc : {"stamped"}, node : Nodes, at : Times]
        BY <2>2 DEF Pending
    <2>3. CASE v \in [pc : {"decided"}, node : Nodes, allowed : BOOLEAN, at : Times]
        BY <2>3
    <2>4. CASE v \in [pc : {"holding"}, record : Record]
        BY <2>4
    <2> QED BY <2>1, <2>2, <2>3, <2>4 DEF Working, Pending
<1> QED BY <1>1, <1>2, <1>3, <1>4, <1>5

LEMMA RecordsAre ==
    /\ Errored \in Record /\ Rejected \in Record
    /\ \A d, r \in Times : Admitted(d, r) \in Record
BY DEF Record

-----------------------------------------------------------------------------
\* Types

LEMMA ShareType == Share \in Nat \ {0}
<1>1. NodeCount \in Nat \ {0}
    BY HarnessAssumption, FS_CardinalityType, FS_EmptySet DEF NodeCount
<1>2. Limit + NodeCount - 1 \in Nat /\ 1 * NodeCount <= Limit + NodeCount - 1
    BY <1>1, HarnessAssumption
<1> QED BY <1>1, <1>2, DivBound DEF Share

LEMMA SizesAre ==
    /\ RequestsCap \in Nat \ {0} /\ RecordsCap \in Nat \ {0} /\ MaxAttempts \in Nat \ {0}
    /\ 0 \in 0 .. RequestsCap /\ 0 \in 0 .. MaxAttempts - 1
<1>1. RequestsCap \in Nat \ {0} /\ RecordsCap \in Nat \ {0} /\ MaxAttempts \in Nat \ {0}
    BY HarnessAssumption
<1> QED BY <1>1

LEMMA TimesAre == Times \subseteq Nat \ {0} /\ ProbeTime \in Times /\ StartTime \in Times
BY HarnessAssumption DEF Times

LimiterTypes ==
    /\ server \in {"gcra", "fixedwindow"}
    /\ up \in [Nodes -> BOOLEAN] /\ tat \in [Nodes -> Nat]
    /\ window \in [Nodes -> [id : Nat, count : Nat]] /\ overtaken \in BOOLEAN
NodeTypes == LimiterTypes /\ adrift \in [Pending -> Nat]

LEMMA DecisionType ==
    ASSUME NEW n \in Nodes, NEW at \in Times, NEW allowed \in BOOLEAN, LimiterTypes,
           Decision(n, at, allowed)
    PROVE  LimiterTypes' /\ UNCHANGED up
<1>1. at \in Nat \ {0}
    BY TimesAre
<1>2. CASE server = "gcra"
    <2>1. CeilEmission(Minute, Share) \in Nat \ {0} /\ Burst \in Nat
        BY ShareType, CeilEmissionCovers, HarnessAssumption
    <2>2. Decide(tat[n], at, CeilEmission(Minute, Share), Burst).tat \in Nat
        BY <1>1, <2>1, DecideAnswers DEF Answers, LimiterTypes
    <2>3. /\ tat' = [tat EXCEPT ![n] =
                       Decide(tat[n], at, CeilEmission(Minute, Share), Burst).tat]
          /\ UNCHANGED <<window, overtaken, server, up>>
        BY <1>2 DEF Decision
    <2> QED BY <2>2, <2>3 DEF LimiterTypes
<1>3. CASE server = "fixedwindow"
    <2>1. at \div Minute \in Nat
        BY <1>1, HarnessAssumption
    <2>2. \A st \in [id : Nat, count : Nat] : Counted(st).window \in [id : Nat, count : Nat]
        BY DEF Counted
    <2>3. FixedWindow(n, at).window \in [id : Nat, count : Nat]
        <3>1. window[n] \in [id : Nat, count : Nat]
            BY DEF LimiterTypes
        <3>2. [id |-> at \div Minute, count |-> 0] \in [id : Nat, count : Nat]
            BY <2>1
        <3> QED BY <2>2, <3>1, <3>2 DEF FixedWindow
    <2>4. /\ window' = [window EXCEPT ![n] = FixedWindow(n, at).window]
          /\ overtaken' \in BOOLEAN /\ UNCHANGED <<tat, server, up>>
        BY <1>3 DEF Decision, LimiterTypes
    <2> QED BY <2>3, <2>4 DEF LimiterTypes
<1> QED BY <1>2, <1>3 DEF LimiterTypes

LEMMA GiveUpType ==
    ASSUME NEW r \in Pending, NodeTypes, GiveUp(r), UNCHANGED <<limiterVars, up>>
    PROVE  NodeTypes'
<1>1. adrift' \in [Pending -> Nat]
    BY DEF GiveUp, NodeTypes
<1> QED BY <1>1 DEF NodeTypes, LimiterTypes, limiterVars

LEMMA InitType == Init => TypeOK
<1> SUFFICES ASSUME Init PROVE TypeOK
    OBVIOUS
<1>1. now \in Times /\ cancelled \in BOOLEAN /\ main = "probing"
    BY TimesAre DEF Init
<1>2. probe \in [failed : 0 .. MaxAttempts - 1, limit : {0, Limit}]
    BY SizesAre DEF Init
<1>3. ticked \in BOOLEAN /\ queued \in 0 .. RequestsCap /\ accepted \in Nat
    BY SizesAre DEF Init
<1>4. worker \in [Workers -> Working]
    BY WorkerIs DEF Init
<1>5. /\ records \in Seq(Record) /\ Len(records) <= RecordsCap
      /\ collected \in Seq(Record) /\ collector \in {"ranging", "done"}
    BY SizesAre DEF Init
<1>6. /\ killer \in {"none", "timer", "running", "sent", "drained"}
      /\ stopAsked \in BOOLEAN /\ excused \in BOOLEAN
    BY DEF Init
<1>7. NodeTypes
    BY DEF Init, NodeTypes, LimiterTypes, Unserved
<1> QED BY <1>1, <1>2, <1>3, <1>4, <1>5, <1>6, <1>7 DEF TypeOK, NodeTypes, LimiterTypes

\* TypeOK in parts that a step leaves alone or changes together.
MainTypes ==
    /\ now \in Times /\ cancelled \in BOOLEAN
    /\ main \in {"probing", "panicked"} \cup Loop \cup {Ends[i] : i \in DOMAIN Ends}
    /\ probe \in [failed : 0 .. MaxAttempts - 1, limit : {0, Limit}]
PacerTypes == ticked \in BOOLEAN /\ queued \in 0 .. RequestsCap /\ accepted \in Nat
WorkTypes ==
    /\ worker \in [Workers -> Working]
    /\ records \in Seq(Record) /\ Len(records) <= RecordsCap
    /\ collected \in Seq(Record) /\ collector \in {"ranging", "done"}
KillTypes ==
    /\ killer \in {"none", "timer", "running", "sent", "drained"}
    /\ stopAsked \in BOOLEAN /\ excused \in BOOLEAN

AllTypes == MainTypes /\ PacerTypes /\ WorkTypes /\ KillTypes /\ NodeTypes

LEMMA TypeParts == (TypeOK <=> AllTypes) /\ (TypeOK' <=> AllTypes')
BY DEF AllTypes, TypeOK, MainTypes, PacerTypes, WorkTypes, KillTypes, NodeTypes, LimiterTypes

LEMMA MainStages ==
    \A s \in {"probing", "panicked", "check", "select", "waiting", "collecting", "returned",
              "reviving", "killch", "over"} :
        s \in {"probing", "panicked"} \cup Loop \cup {Ends[i] : i \in DOMAIN Ends}
<1>1. /\ DOMAIN Ends = 1 .. 6
      /\ Ends[1] = "waiting" /\ Ends[2] = "collecting" /\ Ends[3] = "returned"
      /\ Ends[4] = "reviving" /\ Ends[5] = "killch" /\ Ends[6] = "over"
    BY DEF Ends
<1>2. \A i \in 1 .. 6 : Ends[i] \in {Ends[j] : j \in DOMAIN Ends}
    BY <1>1
<1> QED BY <1>1, <1>2 DEF Loop

LEMMA NextType == TypeOK /\ [Next]_vars => TypeOK'
<1> SUFFICES ASSUME MainTypes, PacerTypes, WorkTypes, KillTypes, NodeTypes, [Next]_vars
             PROVE  AllTypes'
    BY TypeParts DEF AllTypes
<1> USE HarnessAssumption, SizesAre, TimesAre, MainStages
<1>0. MainTypes' /\ PacerTypes' /\ WorkTypes' /\ KillTypes' /\ NodeTypes' => AllTypes'
    BY DEF AllTypes
<1>1. UNCHANGED <<now, cancelled, main, probe>> => MainTypes'
    BY DEF MainTypes
<1>2. UNCHANGED pacerVars => PacerTypes'
    BY DEF pacerVars, PacerTypes
<1>3. UNCHANGED workVars => WorkTypes'
    BY DEF workVars, WorkTypes
<1>4. UNCHANGED killVars => KillTypes'
    BY DEF killVars, KillTypes
<1>5. UNCHANGED nodeVars => NodeTypes'
    BY DEF nodeVars, limiterVars, NodeTypes, LimiterTypes
<1>6. CASE UNCHANGED vars
    BY <1>0, <1>1, <1>2, <1>3, <1>4, <1>5, <1>6 DEF vars, clockVars
<1>7. CASE PassTime
    <2>1. MainTypes'
        BY <1>7 DEF PassTime, MainTypes, Times
    <2>2. PacerTypes'
        BY <1>7 DEF PassTime, PacerTypes
    <2> QED BY <1>0, <1>7, <2>1, <2>2, <1>3, <1>4, <1>5 DEF PassTime
<1>8. CASE Cancel
    <2>1. MainTypes'
        BY <1>8 DEF Cancel, MainTypes
    <2> QED BY <1>0, <1>8, <2>1, <1>2, <1>3, <1>4, <1>5 DEF Cancel
<1>9. ASSUME NEW n \in Nodes, ProbeAnswered(n) PROVE AllTypes'
    <2>1. NodeTypes'
        BY <1>9, DecisionType DEF ProbeAnswered, MainTypes, NodeTypes
    <2>2. MainTypes'
        BY <1>9 DEF ProbeAnswered, StartLoad, MainTypes
    <2> QED BY <1>0, <1>9, <2>1, <2>2, <1>2, <1>3, <1>4 DEF ProbeAnswered
<1>10. CASE ProbeFails
    <2>1. MainTypes'
        <3>1. CASE probe.failed + 1 = MaxAttempts \/ cancelled
            BY <1>10, <3>1 DEF ProbeFails, StartLoad, MainTypes
        <3>2. CASE ~(probe.failed + 1 = MaxAttempts \/ cancelled)
            <4>1. probe' = [probe EXCEPT !.failed = @ + 1] /\ UNCHANGED <<main, now, cancelled>>
                BY <1>10, <3>2 DEF ProbeFails
            <4>2. probe.failed + 1 \in 0 .. MaxAttempts - 1
                BY <3>2 DEF MainTypes
            <4> QED BY <4>1, <4>2 DEF MainTypes
        <3> QED BY <3>1, <3>2
    <2>2. NodeTypes'
        <3>1. CASE cancelled
            BY <1>10, <3>1, <1>5 DEF ProbeFails, nodeVars
        <3>2. CASE ~cancelled
            BY <1>10, <3>2, GiveUpType, WorkerIs DEF ProbeFails
        <3> QED BY <3>1, <3>2
    <2> QED BY <1>0, <1>10, <2>1, <2>2, <1>2, <1>3, <1>4 DEF ProbeFails
<1>11. ASSUME main \in Loop, LeaveLoop \/ (main' \in Loop /\ ticked' \in BOOLEAN),
              queued' \in 0 .. RequestsCap /\ accepted' \in Nat,
              UNCHANGED killVars, Elsewhere
       PROVE  AllTypes'
    <2>1. MainTypes' /\ PacerTypes'
        BY <1>11 DEF LeaveLoop, Loop, Elsewhere, clockVars, MainTypes, PacerTypes
    <2> QED BY <1>0, <1>11, <2>1, <1>3, <1>4, <1>5 DEF Elsewhere
<1>12. CASE CheckDeadline
    BY <1>12, <1>11 DEF CheckDeadline, Loop, PacerTypes
<1>13. CASE Tick
    <2>1. queued' \in 0 .. RequestsCap /\ accepted' \in Nat
        BY <1>13 DEF Tick, PacerTypes
    <2> QED BY <1>13, <2>1, <1>11 DEF Tick, Loop
<1>14. CASE StopPacing
    BY <1>14, <1>11 DEF StopPacing, Loop, PacerTypes
<1>15. CASE CloseRecords \/ Return
    <2>1. MainTypes'
        BY <1>15 DEF CloseRecords, Return, Elsewhere, clockVars, MainTypes
    <2> QED BY <1>0, <1>15, <2>1, <1>2, <1>3, <1>4, <1>5 DEF CloseRecords, Return, Elsewhere
<1>16. ASSUME NEW w \in Workers, NEW v \in Working, worker' = [worker EXCEPT ![w] = v],
              UNCHANGED <<main, records, collected, collector>>, Outside,
              queued' \in 0 .. RequestsCap, NodeTypes'
       PROVE  AllTypes'
    <2>1. MainTypes' /\ PacerTypes' /\ WorkTypes'
        BY <1>16 DEF Outside, clockVars, MainTypes, PacerTypes, WorkTypes
    <2> QED BY <1>0, <1>16, <2>1, <1>4 DEF Outside
<1>17. ASSUME NEW w \in Workers, Take(w) PROVE AllTypes'
    <2>1. NodeTypes' /\ queued' \in 0 .. RequestsCap
        BY <1>17, <1>5 DEF Take, PacerTypes
    <2>2. (IF cancelled THEN Holding(Errored) ELSE Asking) \in Working
        BY WorkerIs, RecordsAre
    <2> QED BY <1>17, <2>1, <2>2, <1>16 DEF Take
<1>18. ASSUME NEW w \in Workers, Arrive(w) \/ Served(w) PROVE AllTypes'
    <2>1. CASE Arrive(w)
        <3>1. PICK n \in Nodes : worker' = [worker EXCEPT ![w] = Stamped(n, now)]
            BY <2>1 DEF Arrive
        <3>2. Stamped(n, now) \in Working
            BY WorkerIs DEF MainTypes
        <3> QED BY <2>1, <3>1, <3>2, <1>5, <1>16 DEF Arrive, PacerTypes
    <2>2. CASE Served(w)
        <3>1. worker[w].node \in Nodes /\ worker[w].at \in Times
            BY <2>2, WorkerIs DEF Served, WorkTypes
        <3>2. PICK allowed \in BOOLEAN :
                 /\ Decision(worker[w].node, worker[w].at, allowed)
                 /\ worker' = [worker EXCEPT ![w] =
                                  Decided(worker[w].node, allowed, worker[w].at)]
            BY <2>2 DEF Served
        <3>3. LimiterTypes'
            BY <3>1, <3>2, DecisionType DEF NodeTypes
        <3>4. NodeTypes'
            BY <2>2, <3>3 DEF Served, NodeTypes
        <3>5. Decided(worker[w].node, allowed, worker[w].at) \in Working
            BY <3>1, <3>2, WorkerIs
        <3> QED BY <2>2, <3>2, <3>4, <3>5, <1>16 DEF Served, PacerTypes
    <2> QED BY <1>18, <2>1, <2>2
<1>19. ASSUME NEW w \in Workers, Receive(w) PROVE AllTypes'
    <2>1. worker[w].at \in Times
        BY <1>19, WorkerIs DEF Receive, WorkTypes
    <2>2. (IF worker[w].allowed THEN Admitted(worker[w].at, now) ELSE Rejected) \in Record
        BY <2>1, RecordsAre DEF MainTypes
    <2>3. Holding(IF worker[w].allowed THEN Admitted(worker[w].at, now) ELSE Rejected) \in Working
        BY <2>2, WorkerIs
    <2> QED BY <1>19, <2>3, <1>5, <1>16 DEF Receive, PacerTypes
<1>20. ASSUME NEW w \in Workers, Fail(w) PROVE AllTypes'
    <2>1. Holding(Errored) \in Working
        BY WorkerIs, RecordsAre
    <2>2. NodeTypes'
        <3>1. CASE worker[w].pc = "decided"
            BY <1>20, <3>1, <1>5 DEF Fail, nodeVars
        <3>2. CASE worker[w].pc # "decided"
            <4>1. worker[w] \in Pending
                BY <1>20, <3>2, WorkerIs DEF Fail, WorkTypes
            <4> QED BY <1>20, <3>2, <4>1, GiveUpType DEF Fail
        <3> QED BY <3>1, <3>2
    <2> QED BY <1>20, <2>1, <2>2, <1>16 DEF Fail, PacerTypes
<1>21. ASSUME NEW w \in Workers, Put(w) PROVE AllTypes'
    <2>1. CASE RecordsClosed
        <3>1. MainTypes' /\ PacerTypes'
            BY <1>21, <2>1 DEF Put, Outside, clockVars, MainTypes, PacerTypes
        <3> QED BY <1>0, <1>21, <2>1, <3>1, <1>3, <1>4, <1>5 DEF Put, Outside, workVars
    <2>2. CASE ~RecordsClosed
        <3>1. worker[w].record \in Record
            BY <1>21, WorkerIs DEF Put, WorkTypes
        <3>2. /\ Len(records) < RecordsCap /\ records' = Append(records, worker[w].record)
              /\ worker' = [worker EXCEPT ![w] = Idle]
              /\ UNCHANGED <<main, queued, collected, collector>>
            BY <1>21, <2>2 DEF Put
        <3>3. WorkTypes'
            BY <3>1, <3>2, WorkerIs DEF WorkTypes
        <3>4. MainTypes' /\ PacerTypes'
            BY <1>21, <3>2 DEF Put, Outside, clockVars, MainTypes, PacerTypes
        <3> QED BY <1>0, <1>21, <3>3, <3>4, <1>4, <1>5 DEF Put, Outside
    <2> QED BY <2>1, <2>2
<1>22. ASSUME NEW w \in Workers, Quit(w) PROVE AllTypes'
    BY <1>22, WorkerIs, <1>5, <1>16 DEF Quit, PacerTypes
<1>23. CASE Collect
    <2>1. WorkTypes'
        <3>1. CASE records # <<>>
            <4>1. /\ Head(records) \in Record /\ Tail(records) \in Seq(Record)
                  /\ Len(Tail(records)) = Len(records) - 1 /\ Len(records) \in Nat
                BY <3>1 DEF WorkTypes
            <4>2. /\ records' = Tail(records) /\ collected' = Append(collected, Head(records))
                  /\ UNCHANGED <<worker, collector>>
                BY <1>23, <3>1 DEF Collect
            <4>3. collected' \in Seq(Record)
                BY <4>1, <4>2 DEF WorkTypes
            <4> QED BY <4>1, <4>2, <4>3 DEF WorkTypes
        <3>2. CASE records = <<>>
            BY <1>23, <3>2 DEF Collect, WorkTypes
        <3> QED BY <3>1, <3>2
    <2>2. MainTypes' /\ PacerTypes'
        BY <1>23 DEF Collect, Outside, clockVars, MainTypes, PacerTypes
    <2> QED BY <1>0, <1>23, <2>1, <2>2, <1>4, <1>5 DEF Collect, Outside
<1>24. CASE KillDue \/ KillGivesUp \/ KillReturns
    <2>1. KillTypes'
        <3>1. CASE KillDue
            BY <3>1 DEF KillDue, KillTypes
        <3>2. CASE KillGivesUp
            BY <3>2 DEF KillGivesUp, KillTypes
        <3>3. CASE KillReturns
            BY <3>3 DEF KillReturns, KillTypes
        <3> QED BY <1>24, <3>1, <3>2, <3>3
    <2>2. /\ UNCHANGED <<now, cancelled, main, probe, pacerVars, workVars, nodeVars>>
        BY <1>24 DEF KillDue, KillGivesUp, KillReturns, Apart, clockVars
    <2> QED BY <1>0, <2>1, <2>2, <1>1, <1>2, <1>3, <1>5
<1>25. CASE NodeStops
    <2>1. KillTypes'
        BY <1>25 DEF NodeStops, KillTypes
    <2>2. LimiterTypes'
        BY <1>25 DEF NodeStops, NodeTypes, LimiterTypes, Unserved
    <2>3. adrift' \in [Pending -> Nat]
        BY <1>25 DEF NodeStops, NodeTypes
    <2>4. worker' \in [Workers -> Working]
        BY <1>25, WorkerIs DEF NodeStops, WorkTypes
    <2>5. WorkTypes' /\ NodeTypes'
        BY <1>25, <2>2, <2>3, <2>4 DEF NodeStops, WorkTypes, NodeTypes
    <2> QED BY <1>0, <1>25, <2>1, <2>5, <1>1, <1>2 DEF NodeStops, clockVars
<1>26. CASE CancelKill \/ Revive \/ DrainKill
    <2>1. KillTypes'
        BY <1>26 DEF CancelKill, Revive, DrainKill, KillTypes
    <2>2. NodeTypes'
        <3>1. CASE Revive
            BY <3>1 DEF Revive, limiterVars, NodeTypes, LimiterTypes
        <3>2. CASE CancelKill \/ DrainKill
            BY <3>2, <1>5 DEF CancelKill, DrainKill
        <3> QED BY <1>26, <3>1, <3>2
    <2>3. MainTypes'
        BY <1>26 DEF CancelKill, Revive, DrainKill, Apart, clockVars, MainTypes
    <2> QED BY <1>0, <1>26, <2>1, <2>2, <2>3, <1>2, <1>3 DEF CancelKill, Revive, DrainKill, Apart
<1>27. ASSUME NEW w \in Workers, Work(w) PROVE AllTypes'
    BY <1>27, <1>17, <1>18, <1>19, <1>20, <1>21, <1>22 DEF Work
<1>28. CASE Drift
    <2>1. NodeTypes'
        <3>1. ASSUME NEW n \in Nodes, ArriveAdrift(n) PROVE NodeTypes'
            <4>1. Asking \in Pending /\ Stamped(n, now) \in Pending /\ Asking # Stamped(n, now)
                BY WorkerIs DEF MainTypes
            <4>2. /\ adrift[Asking] > 0 /\ UNCHANGED <<limiterVars, up>>
                  /\ adrift' = [adrift EXCEPT ![Asking] = @ - 1, ![Stamped(n, now)] = @ + 1]
                BY <3>1 DEF ArriveAdrift
            <4>3. adrift' \in [Pending -> Nat]
                BY <4>1, <4>2 DEF NodeTypes
            <4> QED BY <4>2, <4>3 DEF NodeTypes, LimiterTypes, limiterVars
        <3>2. ASSUME NEW n \in Nodes, NEW at \in Times, ServedAdrift(n, at) PROVE NodeTypes'
            <4>1. LimiterTypes'
                BY <3>2, DecisionType DEF ServedAdrift, NodeTypes
            <4>2. Stamped(n, at) \in Pending
                BY WorkerIs
            <4>3. /\ adrift[Stamped(n, at)] > 0
                  /\ adrift' = [adrift EXCEPT ![Stamped(n, at)] = @ - 1]
                BY <3>2 DEF ServedAdrift
            <4>4. adrift' \in [Pending -> Nat]
                BY <4>2, <4>3 DEF NodeTypes
            <4> QED BY <4>1, <4>4 DEF NodeTypes
        <3> QED BY <1>28, <3>1, <3>2 DEF Drift
    <2>2. UNCHANGED <<clockVars, main, probe, pacerVars, workVars, killVars>>
        BY <1>28 DEF Drift, ArriveAdrift, ServedAdrift, Ashore
    <2> QED BY <1>0, <2>1, <2>2, <1>1, <1>2, <1>3, <1>4 DEF clockVars
<1>29. CASE Next
    BY <1>29, <1>7, <1>8, <1>9, <1>10, <1>12, <1>13, <1>14, <1>15, <1>23, <1>24, <1>25, <1>26, <1>27,
       <1>28 DEF Next, Probe, Pacer, Kill, WindUp
<1>30. AllTypes'
    <2>1. UNCHANGED vars => AllTypes'
        BY <1>6
    <2> QED BY <2>1, <1>29
<1> QED BY <1>30

\* Every variable keeps its type, whatever fails on the way.
THEOREM HarnessTypeCorrect == Spec => []TypeOK
BY InitType, NextType, PTL DEF Spec

-----------------------------------------------------------------------------
\* Nothing is lost

Carrying == {"asking", "stamped", "decided", "holding"}

\* The workers that have a request in their hands.
Busy == {w \in Workers : worker[w].pc \in Carrying}

\* A request that was put in the channel is in it still, with a worker, in the
\* channel records, or with the collector.
Balance == accepted = queued + Cardinality(Busy) + Len(records) + Len(collected)

\* A worker quits only when no request can come any more, the channel records
\* is closed only when all have quit, the collector ends only when it is
\* closed and empty, and Offer returns only after that.
InOrder ==
    /\ main # "panicked"
    /\ \A w \in Workers : worker[w] = Gone => RequestsClosed /\ queued = 0
    /\ RecordsClosed => \A w \in Workers : worker[w] = Gone
    /\ collector = "done" => RecordsClosed /\ records = <<>>
    /\ Reached("returned") => collector = "done"

LEMMA BusyIs == IsFiniteSet(Busy) /\ Cardinality(Busy) \in Nat
<1>1. Busy \subseteq Workers /\ IsFiniteSet(Workers)
    BY HarnessAssumption DEF Busy
<1> QED BY <1>1, FS_Subset, FS_CardinalityType

LEMMA BusyMoves ==
    ASSUME NEW w \in Workers, NEW v, worker \in [Workers -> Working],
           worker' = [worker EXCEPT ![w] = v]
    PROVE  /\ worker[w].pc \notin Carrying /\ v.pc \in Carrying =>
                 Cardinality(Busy') = Cardinality(Busy) + 1
           /\ worker[w].pc \in Carrying /\ v.pc \notin Carrying =>
                 Cardinality(Busy') = Cardinality(Busy) - 1
           /\ (worker[w].pc \in Carrying <=> v.pc \in Carrying) =>
                 Cardinality(Busy') = Cardinality(Busy)
<1>1. /\ v.pc \in Carrying => Busy' = Busy \cup {w}
      /\ v.pc \notin Carrying => Busy' = Busy \ {w}
      /\ w \in Busy <=> worker[w].pc \in Carrying
    BY DEF Busy
<1>2. IsFiniteSet(Busy) /\ Cardinality(Busy) \in Nat
    BY BusyIs
<1>3. CASE v.pc \in Carrying
    BY <1>1, <1>2, <1>3, FS_AddElement
<1>4. CASE v.pc \notin Carrying
    BY <1>1, <1>2, <1>4, FS_RemoveElement
<1> QED BY <1>3, <1>4

LEMMA InitNothingLost == Init => Balance /\ InOrder
<1> SUFFICES ASSUME Init PROVE Balance /\ InOrder
    OBVIOUS
<1>1. Busy = {}
    BY WorkerIs DEF Init, Busy, Carrying
<1>2. Balance
    BY <1>1, FS_EmptySet DEF Balance, Init
<1>3. \A w \in Workers : worker[w] # Gone
    BY WorkerIs DEF Init
<1>4. InOrder
    BY <1>3, StagesAre DEF InOrder, Init, StageSets
<1> QED BY <1>2, <1>4

LEMMA NextNothingLost ==
    ASSUME TypeOK, Balance, InOrder, [Next]_vars
    PROVE  Balance' /\ InOrder'
<1> USE StagesAre, WorkerIs
<1>1. /\ worker \in [Workers -> Working] /\ records \in Seq(Record) /\ collected \in Seq(Record)
      /\ queued \in Nat /\ accepted \in Nat /\ Cardinality(Busy) \in Nat
    BY BusyIs, SizesAre DEF TypeOK
<1>2. ASSUME UNCHANGED <<queued, accepted, workVars>>, main' = main \/ main' \in Loop,
             main # "probing" /\ main \notin Loop => main' = main
      PROVE  Balance' /\ InOrder'
    <2>1. Balance'
        BY <1>2 DEF workVars, Balance, Busy
    <2>2. InOrder'
        BY <1>2 DEF workVars, InOrder, StageSets, Loop
    <2> QED BY <2>1, <2>2
<1>3. CASE UNCHANGED vars
    BY <1>2, <1>3 DEF vars, pacerVars
<1>4. CASE PassTime \/ Cancel \/ Kill \/ Drift
    <2>1. UNCHANGED <<main, queued, accepted, workVars>>
        BY <1>4 DEF PassTime, Cancel, Kill, KillDue, KillGivesUp, KillReturns, Drift, ArriveAdrift,
                    ServedAdrift, Ashore, Apart, pacerVars
    <2> QED BY <2>1, <1>2
<1>5. CASE Probe
    <2>1. UNCHANGED <<queued, accepted, workVars>> /\ main = "probing"
          /\ (main' = main \/ main' \in Loop)
        BY <1>5 DEF Probe, ProbeFails, ProbeAnswered, StartLoad, pacerVars, Loop
    <2> QED BY <2>1, <1>2
\* The pacer adds requests only while no worker may quit.
<1>6. CASE CheckDeadline \/ Tick \/ StopPacing
    <2>1. /\ main \in Loop /\ main' \in Loop \cup {"waiting"} /\ UNCHANGED workVars
          /\ \/ UNCHANGED <<queued, accepted>>
             \/ queued' = queued + 1 /\ accepted' = accepted + 1
        BY <1>6 DEF CheckDeadline, Tick, StopPacing, LeaveLoop, Elsewhere, Loop
    <2>2. Balance'
        BY <2>1, <1>1 DEF workVars, Balance, Busy
    <2>3. \A w \in Workers : worker[w] # Gone
        BY <2>1 DEF InOrder, StageSets, Loop
    <2>4. InOrder'
        BY <2>1, <2>3 DEF workVars, InOrder, StageSets, Loop
    <2> QED BY <2>2, <2>4
<1>7. CASE CloseRecords
    <2>1. /\ main = "waiting" /\ main' = "collecting" /\ \A w \in Workers : worker[w] = Gone
          /\ UNCHANGED <<queued, accepted, workVars>>
        BY <1>7 DEF CloseRecords, Elsewhere, pacerVars
    <2>2. Balance'
        BY <2>1 DEF workVars, Balance, Busy
    <2>3. InOrder'
        BY <2>1 DEF workVars, InOrder, StageSets
    <2> QED BY <2>2, <2>3
<1>8. CASE Return \/ WindUp
    <2>1. /\ main \in {"collecting", "returned", "reviving", "killch"}
          /\ main' \in {"returned", "reviving", "killch", "over"}
          /\ main = "collecting" => collector = "done"
          /\ UNCHANGED <<queued, accepted, workVars>>
        BY <1>8 DEF Return, WindUp, CancelKill, Revive, DrainKill, Elsewhere, Apart, pacerVars
    <2>2. Balance'
        BY <2>1 DEF workVars, Balance, Busy
    <2>3. InOrder'
        BY <2>1 DEF workVars, InOrder, StageSets
    <2> QED BY <2>2, <2>3
\* A worker whose request stays in its hands.
<1>9. ASSUME NEW w \in Workers, NEW v, worker[w].pc \in Carrying, v.pc \in Carrying,
             worker' = [worker EXCEPT ![w] = v],
             UNCHANGED <<main, queued, accepted, records, collected, collector>>
      PROVE  Balance' /\ InOrder'
    <2>1. Balance'
        <3>1. Cardinality(Busy') = Cardinality(Busy)
            BY <1>1, <1>9, BusyMoves
        <3> QED BY <1>9, <3>1 DEF Balance
    <2>2. worker[w] # Gone /\ v # Gone
        BY <1>9 DEF Carrying
    <2>3. \A u \in Workers : worker'[u] = Gone <=> worker[u] = Gone
        BY <1>1, <1>9, <2>2
    <2>4. InOrder'
        BY <1>9, <2>3 DEF InOrder, StageSets
    <2> QED BY <2>1, <2>4
<1>10. ASSUME NEW w \in Workers, Take(w) PROVE Balance' /\ InOrder'
    <2> DEFINE v == IF cancelled THEN Holding(Errored) ELSE Asking
    <2>1. v.pc \in Carrying /\ worker' = [worker EXCEPT ![w] = v]
        BY <1>10 DEF Take, Carrying
    <2> HIDE DEF v
    <2>2. /\ worker[w] = Idle /\ queued > 0 /\ queued' = queued - 1
          /\ UNCHANGED <<main, accepted, records, collected, collector>>
        BY <1>10 DEF Take, Outside
    <2>3. Balance'
        <3>1. worker[w].pc \notin Carrying
            BY <2>2 DEF Carrying
        <3>2. Cardinality(Busy') = Cardinality(Busy) + 1
            BY <1>1, <2>1, <3>1, BusyMoves
        <3> QED BY <1>1, <2>2, <3>2 DEF Balance
    <2>4. worker[w] # Gone /\ v # Gone
        BY <2>1, <2>2 DEF Carrying
    <2>5. \A u \in Workers : worker'[u] = Gone => worker[u] = Gone
        BY <1>1, <2>1, <2>4
    <2>6. \A u \in Workers : worker[u] # Gone
        BY <2>2, <1>1 DEF InOrder
    <2>7. InOrder'
        BY <2>2, <2>5, <2>6 DEF InOrder, StageSets
    <2> QED BY <2>3, <2>7
<1>11. ASSUME NEW w \in Workers, Arrive(w) \/ Served(w) \/ Receive(w) \/ Fail(w)
       PROVE  Balance' /\ InOrder'
    <2>1. /\ worker[w].pc \in Carrying
          /\ UNCHANGED <<main, queued, accepted, records, collected, collector>>
        BY <1>11 DEF Arrive, Served, Receive, Fail, Outside, Carrying
    <2>2. \E v : v.pc \in Carrying /\ worker' = [worker EXCEPT ![w] = v]
        <3>1. CASE Served(w)
            <4> DEFINE v(allowed) == Decided(worker[w].node, allowed, worker[w].at)
            <4>1. PICK allowed \in BOOLEAN : worker' = [worker EXCEPT ![w] = v(allowed)]
                BY <3>1 DEF Served
            <4>2. v(allowed).pc \in Carrying
                BY DEF Carrying
            <4> HIDE DEF v
            <4> WITNESS v(allowed)
            <4> QED BY <4>1, <4>2
        <3>2. CASE Receive(w)
            <4> DEFINE r == IF worker[w].allowed THEN Admitted(worker[w].at, now) ELSE Rejected
            <4>1. worker' = [worker EXCEPT ![w] = Holding(r)]
                BY <3>2 DEF Receive
            <4> HIDE DEF r
            <4>2. Holding(r).pc \in Carrying
                BY DEF Carrying
            <4> WITNESS Holding(r)
            <4> QED BY <4>1, <4>2
        <3>3. CASE Fail(w)
            <4>1. worker' = [worker EXCEPT ![w] = Holding(Errored)]
                BY <3>3 DEF Fail
            <4>2. Holding(Errored).pc \in Carrying
                BY DEF Carrying
            <4> WITNESS Holding(Errored)
            <4> QED BY <4>1, <4>2
        <3>4. CASE Arrive(w)
            <4>1. PICK n \in Nodes : worker' = [worker EXCEPT ![w] = Stamped(n, now)]
                BY <3>4 DEF Arrive
            <4>2. Stamped(n, now).pc \in Carrying
                BY DEF Carrying
            <4> WITNESS Stamped(n, now)
            <4> QED BY <4>1, <4>2
        <3> QED BY <1>11, <3>1, <3>2, <3>3, <3>4
    <2> QED BY <2>1, <2>2, <1>9
\* A worker that has a record finds the channel open: it has not quit.
<1>12. ASSUME NEW w \in Workers, Put(w) PROVE Balance' /\ InOrder'
    <2>1. worker[w].pc = "holding" /\ worker[w] # Gone
        BY <1>12 DEF Put
    <2>2. ~RecordsClosed
        BY <2>1 DEF InOrder
    <2>3. /\ records' = Append(records, worker[w].record)
          /\ worker' = [worker EXCEPT ![w] = Idle]
          /\ UNCHANGED <<main, queued, accepted, collected, collector>>
        BY <1>12, <2>2 DEF Put, Outside
    <2>4. Balance'
        <3>1. Cardinality(Busy') = Cardinality(Busy) - 1
            BY <1>1, <2>1, <2>3, BusyMoves DEF Carrying
        <3>2. worker[w].record \in Record
            BY <1>1, <2>1
        <3>3. Len(records') = Len(records) + 1
            BY <1>1, <2>3, <3>2
        <3> QED BY <1>1, <2>3, <3>1, <3>3 DEF Balance
    <2>5. \A u \in Workers : worker'[u] = Gone => worker[u] = Gone
        BY <1>1, <2>3
    <2>6. InOrder'
        BY <2>2, <2>3, <2>5 DEF InOrder, StageSets
    <2> QED BY <2>4, <2>6
<1>13. ASSUME NEW w \in Workers, Quit(w) PROVE Balance' /\ InOrder'
    <2>1. /\ worker[w] = Idle /\ queued = 0 /\ RequestsClosed
          /\ worker' = [worker EXCEPT ![w] = Gone]
          /\ UNCHANGED <<main, queued, accepted, records, collected, collector>>
        BY <1>13 DEF Quit, Outside
    <2>2. Balance'
        <3>1. Cardinality(Busy') = Cardinality(Busy)
            BY <1>1, <2>1, BusyMoves DEF Carrying
        <3> QED BY <2>1, <3>1 DEF Balance
    <2>3. \A u \in Workers : worker[u] = Gone => worker'[u] = Gone
        BY <1>1, <2>1
    <2>4. InOrder'
        BY <2>1, <2>3 DEF InOrder, StageSets
    <2> QED BY <2>2, <2>4
<1>14. CASE Collect
    <2>1. collector = "ranging" /\ UNCHANGED <<main, queued, accepted, worker>>
        BY <1>14 DEF Collect, Outside
    <2>2. CASE records # <<>>
        <3>1. /\ records' = Tail(records) /\ collected' = Append(collected, Head(records))
              /\ UNCHANGED collector
            BY <1>14, <2>2 DEF Collect
        <3>2. /\ Len(records') = Len(records) - 1 /\ Len(collected') = Len(collected) + 1
            BY <1>1, <2>2, <3>1
        <3>3. Balance'
            BY <1>1, <2>1, <3>2 DEF Balance, Busy
        <3>4. InOrder'
            BY <2>1, <3>1 DEF InOrder, StageSets
        <3> QED BY <3>3, <3>4
    <2>3. CASE records = <<>>
        <3>1. RecordsClosed /\ collector' = "done" /\ UNCHANGED <<records, collected>>
            BY <1>14, <2>3 DEF Collect
        <3>2. Balance'
            BY <2>1, <3>1 DEF Balance, Busy
        <3>3. InOrder'
            BY <2>1, <2>3, <3>1 DEF InOrder, StageSets
        <3> QED BY <3>2, <3>3
    <2> QED BY <2>2, <2>3
<1>15. ASSUME NEW w \in Workers, Work(w) PROVE Balance' /\ InOrder'
    BY <1>15, <1>10, <1>11, <1>12, <1>13 DEF Work
\* What a node that stops had not answered goes to another.
<1>16. CASE NodeStops
    <2>1. UNCHANGED <<main, queued, accepted, records, collected, collector>>
        BY <1>16 DEF NodeStops, pacerVars
    <2>2. ASSUME NEW w \in Workers
          PROVE  /\ worker'[w] = worker[w] \/ (worker'[w] = Asking /\ worker[w].pc \in Carrying)
        BY <1>16 DEF NodeStops, Carrying
    <2>3. \A w \in Workers : /\ worker'[w].pc \in Carrying <=> worker[w].pc \in Carrying
                             /\ worker'[w] = Gone <=> worker[w] = Gone
        BY <2>2 DEF Carrying
    <2>4. Busy' = Busy
        BY <2>3 DEF Busy
    <2>5. Balance'
        BY <2>1, <2>4 DEF Balance
    <2>6. InOrder'
        BY <2>1, <2>3 DEF InOrder, StageSets
    <2> QED BY <2>5, <2>6
<1> QED BY <1>3, <1>4, <1>5, <1>6, <1>7, <1>8, <1>14, <1>15, <1>16 DEF Next, Pacer

\* Whatever is cancelled, slow or full on the way, Offer returns one record for
\* every request it put in the channel, and no worker meets a closed channel.
THEOREM NothingIsLost == Spec => []NothingLost
<1>1. TypeOK /\ Balance /\ InOrder => NothingLost
    <2> SUFFICES ASSUME TypeOK, Balance, InOrder PROVE NothingLost
        OBVIOUS
    <2>1. main # "panicked"
        BY DEF InOrder
    <2>2. ASSUME Reached("returned") PROVE Len(collected) = accepted
        <3>1. RecordsClosed
            BY <2>2, StagesAre DEF StageSets
        <3>2. (\A w \in Workers : worker[w] = Gone) /\ records = <<>>
            BY <2>2, <3>1 DEF InOrder
        <3>3. queued = 0
            BY <3>2, HarnessAssumption DEF InOrder
        <3>4. Cardinality(Busy) = 0
            BY <3>2, WorkerIs, FS_EmptySet DEF Busy, Carrying
        <3>5. Len(collected) \in Nat
            BY DEF TypeOK
        <3> QED BY <3>2, <3>3, <3>4, <3>5 DEF Balance
    <2> QED BY <2>1, <2>2 DEF NothingLost
<1>2. TypeOK /\ (Balance /\ InOrder) /\ [Next]_vars => (Balance /\ InOrder)'
    BY NextNothingLost
<1> QED BY <1>1, <1>2, InitNothingLost, HarnessTypeCorrect, PTL DEF Spec

-----------------------------------------------------------------------------
\* Every node is left running

Reviving == {"reviving", "killch", "over"}

\* Only the victim is ever stopped; when the load has ended with nothing still
\* asked, nothing can be asked any more; and the revive then brings it back.
RevivedInv ==
    /\ \A n \in Nodes : n # Victim => up[n]
    /\ main \in Reviving /\ ~excused => ~stopAsked
    /\ main \in {"killch", "over"} /\ ~excused => up[Victim]

LEMMA NextRevived ==
    ASSUME TypeOK, RevivedInv, [Next]_vars
    PROVE  RevivedInv'
<1> USE DEF Reviving
<1>1. up \in [Nodes -> BOOLEAN] /\ Victim \in Nodes
    BY HarnessAssumption DEF TypeOK
<1>2. ASSUME UNCHANGED <<up, stopAsked, excused>>, main' = main \/ main' \notin Reviving
      PROVE  RevivedInv'
    BY <1>2 DEF RevivedInv
<1>3. CASE UNCHANGED vars
    BY <1>2, <1>3 DEF vars, nodeVars, killVars
<1>4. CASE PassTime \/ Cancel
    <2>1. UNCHANGED <<up, stopAsked, excused, main>>
        BY <1>4 DEF PassTime, Cancel, nodeVars, killVars
    <2> QED BY <1>2, <2>1
<1>5. \A n, at, allowed : Decision(n, at, allowed) => UNCHANGED up
    BY DEF Decision
<1>6. CASE Probe
    <2>1. UNCHANGED up
        BY <1>6, <1>5 DEF Probe, ProbeFails, ProbeAnswered, nodeVars
    <2>2. UNCHANGED <<stopAsked, excused>> /\ (main' = main \/ main' \notin Reviving)
        BY <1>6 DEF Probe, ProbeFails, ProbeAnswered, StartLoad, killVars
    <2> QED BY <1>2, <2>1, <2>2
<1>7. CASE Pacer
    <2>1. UNCHANGED <<up, stopAsked, excused>> /\ main' \notin Reviving
        BY <1>7 DEF Pacer, CheckDeadline, Tick, StopPacing, CloseRecords, Return, LeaveLoop,
                    Elsewhere, nodeVars, killVars
    <2> QED BY <1>2, <2>1
<1>8. CASE Collect
    BY <1>2, <1>8 DEF Collect, Outside, nodeVars, killVars
<1>9. ASSUME NEW w \in Workers, Work(w) PROVE RevivedInv'
    <2>1. UNCHANGED up
        BY <1>9, <1>5 DEF Work, Take, Arrive, Served, Receive, Fail, Put, Quit, nodeVars
    <2>2. UNCHANGED <<stopAsked, excused>> /\ (main' = main \/ main' \notin Reviving)
        BY <1>9 DEF Work, Take, Arrive, Served, Receive, Fail, Put, Quit, Outside, killVars
    <2> QED BY <1>2, <2>1, <2>2
\* A kill that comes after the load finds its context ended.
<1>10. CASE Kill
    <2>1. /\ UNCHANGED <<up, excused, main>>
          /\ stopAsked' => stopAsked \/ ~KillCancelled
        <3>1. CASE KillDue
            BY Zenon, <3>1 DEF KillDue, nodeVars
        <3>2. CASE KillGivesUp
            BY Zenon, <3>2 DEF KillGivesUp, nodeVars
        <3>3. CASE KillReturns
            BY Zenon, <3>3 DEF KillReturns, nodeVars
        <3> QED BY <1>10, <3>1, <3>2, <3>3 DEF Kill
    <2>2. main \in Reviving => KillCancelled
        BY StagesAre DEF KillCancelled, StageSets
    <2> QED BY <2>1, <2>2 DEF RevivedInv
<1>11. CASE NodeStops
    <2>1. /\ stopAsked /\ stopAsked' = FALSE /\ UNCHANGED <<main, excused>>
          /\ up' = [up EXCEPT ![Victim] = FALSE]
        BY <1>11 DEF NodeStops
    <2> QED BY <1>1, <2>1 DEF RevivedInv
<1>12. CASE CancelKill
    BY <1>12 DEF CancelKill, nodeVars, RevivedInv
<1>13. CASE Revive
    <2>1. /\ main = "reviving" /\ main' = "killch" /\ UNCHANGED stopAsked
          /\ \/ up' = [up EXCEPT ![Victim] = TRUE] /\ UNCHANGED excused
             \/ excused' = TRUE /\ UNCHANGED up
        BY <1>13 DEF Revive
    <2> QED BY <1>1, <2>1 DEF RevivedInv
<1>14. CASE DrainKill
    BY <1>14 DEF DrainKill, nodeVars, RevivedInv
<1>15. CASE Drift
    <2>1. UNCHANGED <<up, stopAsked, excused, main>>
        BY <1>15, <1>5 DEF Drift, ArriveAdrift, ServedAdrift, Ashore, killVars
    <2> QED BY <1>2, <2>1
<1> QED BY <1>3, <1>4, <1>6, <1>7, <1>8, <1>9, <1>10, <1>11, <1>12, <1>13, <1>14, <1>15
    DEF Next, WindUp

\* Unless the kill command was still at work when the load ended, or the revive
\* command failed, a scenario leaves every node running.
THEOREM NodesLeftRunning == Spec => []LeftRunning
<1>1. Init => RevivedInv
    BY DEF Init, RevivedInv, Reviving
<1>2. RevivedInv => LeftRunning
    BY DEF RevivedInv, LeftRunning
<1>3. TypeOK /\ RevivedInv /\ [Next]_vars => RevivedInv'
    BY NextRevived
<1> QED BY <1>1, <1>2, <1>3, HarnessTypeCorrect, PTL DEF Spec

-----------------------------------------------------------------------------
\* The verdict

\* The records received from t to t + Minute, ends included.
Received(recs, t) ==
    {i \in Answered(recs) : t <= recs[i].received /\ recs[i].received <= t + Minute}

LEMMA AnsweredAre ==
    ASSUME NEW recs \in Seq(Record)
    PROVE  /\ Answered(recs) \subseteq 1 .. Len(recs) /\ Answered(recs) \subseteq Nat
           /\ IsFiniteSet(Answered(recs)) /\ Cardinality(Answered(recs)) \in Nat
           /\ \A i \in Answered(recs) : /\ recs[i].arrived \in Times
                                        /\ recs[i].received \in Times
                                        /\ recs[i].received \in Nat
<1>1. Answered(recs) \subseteq 1 .. Len(recs) /\ Len(recs) \in Nat
    BY DEF Answered
<1>2. IsFiniteSet(1 .. Len(recs))
    BY <1>1, FS_Interval
<1>3. ASSUME NEW i \in Answered(recs)
      PROVE  recs[i].arrived \in Times /\ recs[i].received \in Times
    <2>1. recs[i] \in Record /\ recs[i].kind = "admitted"
        BY <1>1 DEF Answered
    <2> QED BY <2>1 DEF Record, Errored, Rejected, Admitted
<1>4. IsFiniteSet(Answered(recs)) /\ Cardinality(Answered(recs)) \in Nat
    BY <1>1, <1>2, FS_Subset, FS_CardinalityType
<1>5. \A i \in Answered(recs) : recs[i].received \in Nat
    BY <1>3, TimesAre
<1> QED BY <1>1, <1>3, <1>4, <1>5

\* The place of each admission is its own, and they fill 1 .. n.
LEMMA PlacesAre ==
    ASSUME NEW recs \in Seq(Record), NEW A, A = Answered(recs),
           NEW n, n = Cardinality(A),
           NEW place, place = [i \in A |-> Cardinality(NotAfter(recs, i))]
    PROVE  /\ place \in Bijection(A, 1 .. n)
           /\ \A i, j \in A : place[i] < place[j] => recs[i].received <= recs[j].received
<1>1. /\ A \subseteq Nat /\ IsFiniteSet(A) /\ n \in Nat
      /\ \A i \in A : recs[i].received \in Nat
    BY AnsweredAre
<1>2. ASSUME NEW i \in A
      PROVE  /\ i \in NotAfter(recs, i) /\ NotAfter(recs, i) \subseteq A
             /\ IsFiniteSet(NotAfter(recs, i)) /\ place[i] = Cardinality(NotAfter(recs, i))
             /\ place[i] \in 1 .. n
    <2>1. i \in NotAfter(recs, i) /\ NotAfter(recs, i) \subseteq A
        BY <1>1 DEF NotAfter
    <2>2. /\ IsFiniteSet(NotAfter(recs, i)) /\ Cardinality(NotAfter(recs, i)) <= n
          /\ Cardinality(NotAfter(recs, i)) \in Nat /\ Cardinality(NotAfter(recs, i)) # 0
        BY <1>1, <2>1, FS_Subset, FS_CardinalityType, FS_EmptySet
    <2> QED BY <1>1, <2>1, <2>2
<1>3. ASSUME NEW i \in A, NEW j \in A,
             \/ recs[i].received < recs[j].received
             \/ recs[i].received = recs[j].received /\ i < j
      PROVE  place[i] < place[j]
    <2>1. NotAfter(recs, i) \subseteq NotAfter(recs, j) \ {j}
        <3>1. j \notin NotAfter(recs, i)
            BY <1>1, <1>3 DEF NotAfter
        <3>2. ASSUME NEW k \in NotAfter(recs, i) PROVE k \in NotAfter(recs, j)
            BY <1>1, <1>3 DEF NotAfter
        <3> QED BY <3>1, <3>2
    <2>2. /\ IsFiniteSet(NotAfter(recs, j) \ {j})
          /\ Cardinality(NotAfter(recs, j) \ {j}) = place[j] - 1
        BY <1>2, FS_RemoveElement
    <2>3. place[i] <= place[j] - 1
        BY <1>2, <2>1, <2>2, FS_Subset
    <2> QED BY <1>2, <2>3
<1>4. place \in Injection(A, 1 .. n)
    <2>1. place \in [A -> 1 .. n]
        BY <1>2
    <2>2. \A i, j \in A : place[i] = place[j] => i = j
        BY <1>1, <1>2, <1>3
    <2> QED BY <2>1, <2>2 DEF Injection, IsInjective
<1>5. IsFiniteSet(1 .. n) /\ Cardinality(1 .. n) = n
    BY <1>1, FS_Interval
<1>6. place \in Surjection(A, 1 .. n)
    BY <1>4, <1>5, FS_Injection
<1>7. \A i, j \in A : place[i] < place[j] => recs[i].received <= recs[j].received
    BY <1>1, <1>2, <1>3
<1> QED BY <1>4, <1>6, <1>7 DEF Bijection

\* Arrivals lists the admissions, each once, in the order they were received.
LEMMA ArrivalsAre ==
    ASSUME NEW recs \in Seq(Record), NEW n, n = Cardinality(Answered(recs))
    PROVE  /\ n \in Nat /\ Arrivals(recs) \in [1 .. n -> Times]
           /\ \A j, k \in 1 .. n : j <= k => Arrivals(recs)[j] <= Arrivals(recs)[k]
           /\ \E place \in Bijection(Answered(recs), 1 .. n) :
                 \A i \in Answered(recs) : Arrivals(recs)[place[i]] = recs[i].received
<1> DEFINE A == Answered(recs)
           place == [i \in A |-> Cardinality(NotAfter(recs, i))]
           at(k) == CHOOSE i \in A : Cardinality(NotAfter(recs, i)) = k
<1>1. /\ n \in Nat /\ \A i \in A : recs[i].received \in Times /\ recs[i].received \in Nat
    BY AnsweredAre
<1>2. /\ place \in Bijection(A, 1 .. n)
      /\ \A i, j \in A : place[i] < place[j] => recs[i].received <= recs[j].received
    BY PlacesAre
<1>3. /\ place \in [A -> 1 .. n] /\ \A i, j \in A : place[i] = place[j] => i = j
      /\ \A k \in 1 .. n : \E i \in A : place[i] = k
    BY <1>2 DEF Bijection, Injection, Surjection, IsInjective
<1>4. Arrivals(recs) = [k \in 1 .. n |-> recs[at(k)].received]
    BY DEF Arrivals
<1>5. \A k \in 1 .. n : at(k) \in A /\ place[at(k)] = k
    BY <1>3
<1>6. \A i \in A : at(place[i]) = i
    BY <1>3, <1>5
<1> HIDE DEF at, place, A
<1>7. Arrivals(recs) \in [1 .. n -> Times]
    BY <1>1, <1>4, <1>5
<1>8. ASSUME NEW j \in 1 .. n, NEW k \in 1 .. n, j <= k
      PROVE  Arrivals(recs)[j] <= Arrivals(recs)[k]
    <2>1. Arrivals(recs)[j] = recs[at(j)].received /\ Arrivals(recs)[k] = recs[at(k)].received
        BY <1>4
    <2>2. CASE j = k
        BY <1>1, <1>5, <2>1, <2>2
    <2>3. CASE j < k
        BY <1>2, <1>5, <2>1, <2>3
    <2> QED BY <1>1, <1>8, <2>2, <2>3
<1>9. \A i \in A : Arrivals(recs)[place[i]] = recs[i].received
    BY <1>3, <1>4, <1>6
<1> QED BY <1>1, <1>2, <1>7, <1>8, <1>9 DEF A

\* Where the window that ends with the i-th admission begins.
LEMMA WindowStartIs ==
    ASSUME NEW n \in Nat, NEW times \in [1 .. n -> Times], NEW i \in 1 .. n
    PROVE  /\ WindowStart(times, i) \in 1 .. i
           /\ times[WindowStart(times, i)] >= times[i] - Minute
           /\ \A k \in 1 .. n : times[k] >= times[i] - Minute => WindowStart(times, i) <= k
<1> DEFINE Within == {k \in 1 .. n : times[k] >= times[i] - Minute}
           lo == WindowStart(times, i)
<1>1. Minute \in Nat /\ \A k \in 1 .. n : times[k] \in Nat
    BY TimesAre, HarnessAssumption
<1>2. i \in Within /\ Within \in SUBSET Int /\ IsFiniteSet(Within)
    <2>1. IsFiniteSet(1 .. n) /\ Within \in SUBSET (1 .. n)
        BY FS_Interval
    <2> QED BY <1>1, <2>1, FS_Subset
<1>3. PICK m \in Within : \A k \in Within : m <= k
    <2> HIDE DEF Within
    <2> QED BY <1>2, SmallestInt
<1>4. \A j \in 1 .. m - 1 : times[j] < times[i] - Minute
    BY <1>1, <1>3
<1>5. \E k \in DOMAIN times : /\ times[k] >= times[i] - Minute
                              /\ \A j \in 1 .. k - 1 : times[j] < times[i] - Minute
    BY <1>3, <1>4
<1>6. /\ lo \in 1 .. n /\ times[lo] >= times[i] - Minute
      /\ \A j \in 1 .. lo - 1 : times[j] < times[i] - Minute
    BY <1>5 DEF WindowStart
<1> HIDE DEF lo
<1>7. \A k \in 1 .. n : times[k] >= times[i] - Minute => lo <= k
    BY <1>1, <1>6
<1> QED BY <1>1, <1>6, <1>7 DEF lo

\* MaxRolling is the largest of the counts, or 0 where there are none.
LEMMA MaxRollingIs ==
    ASSUME NEW recs \in Seq(Record)
    PROVE  /\ \A c \in WindowCounts(Arrivals(recs)) : c \in Nat /\ c <= MaxRolling(recs)
           /\ MaxRolling(recs) \in WindowCounts(Arrivals(recs)) \cup {0}
<1> DEFINE n == Cardinality(Answered(recs))
           times == Arrivals(recs)
           counts == WindowCounts(times)
           f == [i \in 1 .. n |-> i - WindowStart(times, i) + 1]
<1>1. n \in Nat /\ times \in [1 .. n -> Times]
    BY ArrivalsAre
<1> HIDE DEF n, times
<1>2. \A i \in 1 .. n : WindowStart(times, i) \in 1 .. i
    BY <1>1, WindowStartIs
<1>3. counts \in SUBSET Nat /\ counts \in SUBSET Int
    BY <1>1, <1>2 DEF WindowCounts
<1>4. IsFiniteSet(counts)
    <2>1. f \in Surjection(1 .. n, counts)
        BY <1>1 DEF Surjection, WindowCounts
    <2>2. IsFiniteSet(1 .. n)
        BY <1>1, FS_Interval
    <2> HIDE DEF f, counts
    <2> QED BY <2>1, <2>2, FS_Surjection
<1>5. MaxRolling(recs) =
          IF counts = {} THEN 0 ELSE CHOOSE c \in counts : \A d \in counts : d <= c
    BY DEF MaxRolling, times
<1> HIDE DEF counts
<1>6. CASE counts = {}
    BY <1>5, <1>6 DEF counts, times
<1>7. CASE counts # {}
    <2>1. \E c \in counts : \A d \in counts : d <= c
        BY <1>3, <1>4, <1>7, LargestInt
    <2>2. MaxRolling(recs) \in counts /\ \A d \in counts : d <= MaxRolling(recs)
        BY <1>5, <1>7, <2>1
    <2> QED BY <1>3, <2>2 DEF counts, times
<1> QED BY <1>6, <1>7

\* It exceeds a bound exactly when what was received within some minute does.
LEMMA MaxRollingExceeds ==
    ASSUME NEW recs \in Seq(Record), NEW bound \in Nat
    PROVE  MaxRolling(recs) > bound
              <=> \E t \in Times : Cardinality(Received(recs, t)) > bound
<1> DEFINE A == Answered(recs)
           n == Cardinality(A)
           times == Arrivals(recs)
<1>1. /\ n \in Nat /\ times \in [1 .. n -> Times]
      /\ \A j, k \in 1 .. n : j <= k => times[j] <= times[k]
    BY ArrivalsAre
<1>2. PICK place \in Bijection(A, 1 .. n) : \A i \in A : times[place[i]] = recs[i].received
    BY ArrivalsAre
<1>3. /\ place \in [A -> 1 .. n] /\ \A i, j \in A : place[i] = place[j] => i = j
      /\ \A k \in 1 .. n : \E i \in A : place[i] = k
    BY <1>2 DEF Bijection, Injection, Surjection, IsInjective
<1>4. IsFiniteSet(A) /\ \A i \in A : recs[i].received \in Nat /\ recs[i].received \in Times
    BY AnsweredAre
<1>5. Minute \in Nat /\ Times \subseteq Nat
    BY TimesAre, HarnessAssumption
<1>6. \A t : Received(recs, t) = {i \in A : t <= recs[i].received /\ recs[i].received <= t + Minute}
    BY DEF Received
<1> HIDE DEF A, n, times
<1>7. ASSUME NEW t \in Times, Cardinality(Received(recs, t)) > bound
      PROVE  MaxRolling(recs) > bound
    <2> DEFINE S == Received(recs, t)
               P == {place[i] : i \in S}
               f == [i \in S |-> place[i]]
    <2>1. S \in SUBSET A /\ IsFiniteSet(S) /\ Cardinality(S) \in Nat
        BY <1>4, <1>6, FS_Subset, FS_CardinalityType
    <2>2. P \in SUBSET (1 .. n) /\ \A k \in P : t <= times[k] /\ times[k] <= t + Minute
        BY <1>2, <1>3, <1>6
    <2>3. f \in Injection(S, P) /\ f \in Surjection(S, P)
        BY <1>3, <2>1 DEF Injection, Surjection, IsInjective
    <2> HIDE DEF S, P, f
    <2>4. IsFiniteSet(P) /\ Cardinality(P) = Cardinality(S)
        BY <2>1, <2>3, FS_Surjection
    <2>5. P # {}
        BY <1>7, <2>1, <2>4, FS_EmptySet DEF S
    <2>6. PICK hi \in P : \A k \in P : k <= hi
        BY <2>2, <2>4, <2>5, LargestInt
    <2> DEFINE lo == WindowStart(times, hi)
    <2>7. hi \in 1 .. n /\ lo \in 1 .. hi
        BY <1>1, <2>2, <2>6, WindowStartIs
    <2>8. P \in SUBSET (lo .. hi)
        <3>1. ASSUME NEW k \in P PROVE lo <= k
            <4>1. k \in 1 .. n /\ times[k] \in Nat /\ times[hi] \in Nat
                BY <1>1, <1>5, <2>2, <2>6
            <4>2. times[k] >= times[hi] - Minute
                BY <1>5, <2>2, <2>6, <4>1
            <4> QED BY <1>1, <2>7, <4>1, <4>2, WindowStartIs
        <3> HIDE DEF lo
        <3> QED BY <2>2, <2>6, <2>7, <3>1
    <2>9. Cardinality(P) <= hi - lo + 1
        <3> HIDE DEF lo
        <3>1. IsFiniteSet(lo .. hi) /\ Cardinality(lo .. hi) = hi - lo + 1
            BY <2>7, FS_Interval
        <3>2. Cardinality(P) <= Cardinality(lo .. hi)
            BY <2>8, <3>1, FS_Subset
        <3> QED BY <3>1, <3>2
    <2>10. hi - lo + 1 \in WindowCounts(times)
        BY <1>1, <2>7 DEF WindowCounts
    <2> HIDE DEF lo
    <2>11. hi - lo + 1 <= MaxRolling(recs)
        BY <2>10, MaxRollingIs DEF times
    <2>12. MaxRolling(recs) \in Nat
        BY MaxRollingIs
    <2> QED BY <1>7, <2>1, <2>4, <2>7, <2>9, <2>11, <2>12 DEF S
<1>8. ASSUME MaxRolling(recs) > bound
      PROVE  \E t \in Times : Cardinality(Received(recs, t)) > bound
    <2>1. MaxRolling(recs) \in WindowCounts(times)
        BY <1>8, MaxRollingIs DEF times
    <2>2. PICK hi \in 1 .. n : MaxRolling(recs) = hi - WindowStart(times, hi) + 1
        BY <1>1, <2>1 DEF WindowCounts
    <2> DEFINE lo == WindowStart(times, hi)
    <2>3. lo \in 1 .. hi /\ times[lo] >= times[hi] - Minute
        BY <1>1, WindowStartIs
    <2>4. MaxRolling(recs) = hi - lo + 1
        BY <2>2
    <2> HIDE DEF lo
    <2> DEFINE t == times[lo]
               S == Received(recs, t)
               f == [k \in lo .. hi |-> CHOOSE i \in A : place[i] = k]
    <2>5. t \in Times
        BY <1>1, <2>3
    <2>6. ASSUME NEW k \in lo .. hi
          PROVE  f[k] \in S /\ place[f[k]] = k
        <3>1. k \in 1 .. n
            BY <1>1, <2>2, <2>3
        <3>2. f[k] \in A /\ place[f[k]] = k
            BY <1>3, <3>1
        <3>3. times[lo] <= times[k] /\ times[k] <= times[hi] /\ times[k] = recs[f[k]].received
            <4> HIDE DEF f
            <4> QED BY <1>1, <1>2, <2>3, <3>1, <3>2
        <3>4. times[k] \in Nat /\ times[lo] \in Nat /\ times[hi] \in Nat
            <4>1. lo \in 1 .. n /\ hi \in 1 .. n
                BY <1>1, <2>2, <2>3
            <4> QED BY <1>1, <1>5, <3>1, <4>1
        <3>5. times[k] <= times[lo] + Minute
            BY <1>5, <2>3, <3>3, <3>4
        <3> HIDE DEF f
        <3> QED BY <1>6, <3>2, <3>3, <3>5
    <2>7. f \in Injection(lo .. hi, S)
        <3>1. f \in [lo .. hi -> S]
            BY <2>6
        <3>2. \A a, b \in lo .. hi : f[a] = f[b] => a = b
            BY <2>6
        <3> HIDE DEF f
        <3> QED BY <3>1, <3>2 DEF Injection, IsInjective
    <2> HIDE DEF f
    <2>8. S \in SUBSET A /\ IsFiniteSet(S) /\ Cardinality(S) \in Nat
        BY <1>4, <1>6, FS_Subset, FS_CardinalityType
    <2>9. IsFiniteSet(lo .. hi) /\ Cardinality(lo .. hi) = hi - lo + 1
        BY <2>3, FS_Interval
    <2> HIDE DEF S
    <2>10. hi - lo + 1 <= Cardinality(S)
        BY <2>7, <2>8, <2>9, FS_Injection
    <2>11. Cardinality(S) > bound
        BY <1>8, <2>3, <2>4, <2>8, <2>10
    <2> HIDE DEF t
    <2> WITNESS t \in Times
    <2> QED BY <2>11 DEF S
<1> QED BY <1>7, <1>8

LEMMA BoundIs ==
    ASSUME NEW l \in {0, Limit}
    PROVE  /\ SafetyBound(l) \in Nat
           /\ l = Limit => SafetyBound(l) = (Share + Burst) * NodeCount
<1>1. NodeCount \in Nat \ {0} /\ Burst \in Nat /\ l \in Nat
    BY HarnessAssumption, FS_CardinalityType, FS_EmptySet DEF NodeCount
<1>2. l + NodeCount - 1 \in Nat
    BY <1>1
<1>3. (l + NodeCount - 1) \div NodeCount \in Nat
    BY <1>1, <1>2, DivStep
<1> QED BY <1>1, <1>3 DEF SafetyBound, Share

\* No excess goes unseen: where more than the bound was received within some
\* minute, the verdict is FAIL.  Sorting what the workers delivered and one pass
\* over it finds the worst minute of all, and the minute the code looks at has
\* both its ends.
THEOREM NoExcessUnseen == Spec => []ExcessIsFailed
<1>1. TypeOK => ExcessIsFailed
    <2> SUFFICES ASSUME TypeOK, NEW t \in Times, ReceivedBefore(t) > SafetyBound(probe.limit)
                 PROVE  Fails
        BY DEF ExcessIsFailed
    <2> DEFINE S == {i \in AdmittedRecords :
                        t - Minute < collected[i].received /\ collected[i].received <= t}
    <2>1. collected \in Seq(Record) /\ probe.limit \in {0, Limit}
        BY DEF TypeOK
    <2>2. SafetyBound(probe.limit) \in Nat /\ Cardinality(S) > SafetyBound(probe.limit)
        BY <2>1, BoundIs DEF ReceivedBefore
    <2>3. /\ S \subseteq Answered(collected) /\ IsFiniteSet(S)
          /\ \A i \in S : collected[i].received \in Times /\ collected[i].received \in Nat
        <3>1. S \subseteq Answered(collected)
            BY DEF AdmittedRecords
        <3> QED BY <2>1, <3>1, AnsweredAre, FS_Subset
    <2>4. Minute \in Nat /\ t \in Nat
        BY HarnessAssumption, TimesAre
    <2>5. S # {} /\ Cardinality(S) \in Nat
        BY <2>2, <2>3, FS_EmptySet, FS_CardinalityType
    <2> DEFINE T == {collected[i].received : i \in S}
               g == [i \in S |-> collected[i].received]
    <2>6. T \in SUBSET Int /\ T # {} /\ IsFiniteSet(T)
        <3>1. g \in Surjection(S, T)
            BY DEF Surjection
        <3>2. T \in SUBSET Int /\ T # {}
            BY <2>3, <2>5
        <3> HIDE DEF S, T, g
        <3> QED BY <2>3, <3>1, <3>2, FS_Surjection
    <2>7. PICK first \in T : \A r \in T : first <= r
        <3> HIDE DEF S, T
        <3> QED BY <2>6, SmallestInt
    <2>8. first \in Times /\ first \in Nat /\ t < first + Minute
        BY <2>3, <2>4
    <2>9. S \subseteq Received(collected, first)
        BY <2>3, <2>4, <2>7, <2>8 DEF Received
    <2> HIDE DEF S, T
    <2>10. /\ IsFiniteSet(Received(collected, first))
           /\ Cardinality(Received(collected, first)) \in Nat
        <3>1. Received(collected, first) \subseteq Answered(collected)
            BY DEF Received
        <3> QED BY <2>1, <3>1, AnsweredAre, FS_Subset, FS_CardinalityType
    <2>11. Cardinality(S) <= Cardinality(Received(collected, first))
        BY <2>9, <2>10, FS_Subset
    <2>12. Cardinality(Received(collected, first)) > SafetyBound(probe.limit)
        BY <2>2, <2>5, <2>10, <2>11
    <2> QED BY <2>1, <2>2, <2>8, <2>12, MaxRollingExceeds DEF Fails
<1> QED BY <1>1, HarnessTypeCorrect, PTL

-----------------------------------------------------------------------------
\* What the nodes admitted, and when

\* The admissions under way: in a worker's hands, or in the channel and with the
\* collector, which keep their order between them.
Tokens == ({"hand"} \X Workers) \cup ({"past"} \X Nat)

FlowLen == Len(collected) + Len(records)
FlowAt(i) == IF i <= Len(collected) THEN collected[i] ELSE records[i - Len(collected)]

Holds(v) ==
    \/ v.pc = "decided" /\ v.allowed
    \/ v.pc = "holding" /\ v.record.kind = "admitted"
HeldAt(v) == IF v.pc = "decided" THEN v.at ELSE v.record.arrived

Live(x) ==
    IF x[1] = "hand" THEN Holds(worker[x[2]])
                     ELSE x[2] \in 1 .. FlowLen /\ FlowAt(x[2]).kind = "admitted"
ArrivedAt(x) == IF x[1] = "hand" THEN HeldAt(worker[x[2]]) ELSE FlowAt(x[2]).arrived

\* A number that grows with every admission of a node, by a gap or more: the
\* time stored, or the admissions before this minute if each were full.
Gap == IF server = "gcra" THEN CeilEmission(Minute, Share) ELSE 1
Book(n) == IF server = "gcra" THEN tat[n] ELSE window[n].id * Share + window[n].count

\* Where that number can be after an admission of time at.
Fits(mark, at) ==
    IF server = "gcra"
    THEN at + Gap <= mark /\ mark <= at + Gap + Burst * Gap
    ELSE (at \div Minute) * Share < mark /\ mark <= (at \div Minute) * Share + Share

\* A node that has stopped serves again only when the load is over.
Serving(n) == up[n] /\ ~RecordsClosed

\* Every admission under way has a node and a mark of that node's book; no two
\* of a node are closer than a gap, and the book is not behind any.
Ledger(node, mark) ==
    /\ \A x \in Tokens : Live(x) =>
          Fits(mark[x], ArrivedAt(x)) /\ (Serving(node[x]) => mark[x] <= Book(node[x]))
    /\ \A x, y \in Tokens : (Live(x) /\ Live(y) /\ x # y /\ node[x] = node[y]) =>
          mark[x] + Gap <= mark[y] \/ mark[y] + Gap <= mark[x]

Booked == \E node \in [Tokens -> Nodes], mark \in [Tokens -> Nat] : Ledger(node, mark)

\* No window is over its share.
WindowsWithin == \A n \in Nodes : window[n].count <= Share

\* The fixed-window build keeps its books until a request is overtaken.
InStep == server = "gcra" \/ ~overtaken

LEMMA GapType == Gap \in Nat \ {0}
BY ShareType, CeilEmissionCovers, HarnessAssumption DEF Gap

LEMMA BookType ==
    /\ TypeOK => \A n \in Nodes : Book(n) \in Nat
    /\ TypeOK' => \A n \in Nodes : Book(n)' \in Nat
<1>1. \A i, c \in Nat : i * Share + c \in Nat
    BY ShareType
<1>2. ASSUME TypeOK, NEW n \in Nodes PROVE Book(n) \in Nat
    <2>1. tat[n] \in Nat /\ window[n].id \in Nat /\ window[n].count \in Nat
        BY <1>2 DEF TypeOK
    <2> QED BY <1>1, <2>1 DEF Book
<1>3. ASSUME TypeOK', NEW n \in Nodes PROVE Book(n)' \in Nat
    <2>1. tat'[n] \in Nat /\ window'[n].id \in Nat /\ window'[n].count \in Nat
        BY <1>3 DEF TypeOK
    <2> QED BY <1>1, <2>1 DEF Book
<1> QED BY <1>2, <1>3

\* The book of the node that admits grows by a gap or more; no other moves.
LEMMA DecisionBooks ==
    ASSUME TypeOK, WindowsWithin, NEW n \in Nodes, NEW at \in Times, NEW allowed \in BOOLEAN,
           Decision(n, at, allowed)
    PROVE  /\ up[n] /\ UNCHANGED <<server, up>> /\ (overtaken => overtaken')
           /\ \A m \in Nodes : m # n => Book(m)' = Book(m)
           /\ InStep' => /\ Book(n) <= Book(n)'
                         /\ allowed => Book(n) + Gap <= Book(n)' /\ Fits(Book(n)', at)
           /\ WindowsWithin'
<1>1. /\ at \in Nat \ {0} /\ Minute \in Nat \ {0} /\ Burst \in Nat /\ Share \in Nat \ {0}
      /\ tat \in [Nodes -> Nat] /\ window \in [Nodes -> [id : Nat, count : Nat]]
      /\ server \in {"gcra", "fixedwindow"} /\ overtaken \in BOOLEAN
    BY TimesAre, ShareType, HarnessAssumption DEF TypeOK
<1>2. up[n] /\ UNCHANGED <<server, up>>
    BY DEF Decision
<1>3. CASE server = "gcra"
    <2> DEFINE d == Decide(tat[n], at, Gap, Burst)
               t == tat[n]
    <2>1. /\ allowed = d.allowed /\ tat' = [tat EXCEPT ![n] = d.tat]
          /\ UNCHANGED <<window, overtaken>>
        BY <1>3 DEF Decision, Gap
    <2>2. Answers(d, t, at, Gap, Burst) /\ t \in Nat
        BY <1>1, GapType, DecideAnswers
    <2>3. /\ d.tat \in Nat
          /\ ~d.allowed => d.tat = t
          /\ d.allowed => d.tat = Charged(t, at, Gap) /\ at >= Earliest(t, Gap, Burst)
        BY Zenon, <2>2 DEF Answers
    <2> HIDE DEF d, t
    <2>4. Burst * Gap \in Nat
        BY <1>1, GapType
    <2>5. d.allowed => /\ t + Gap <= d.tat /\ at + Gap <= d.tat
                       /\ d.tat <= at + Gap + Burst * Gap
        BY <1>1, <2>2, <2>3, <2>4, GapType DEF Charged, Earliest
    <2>6. Book(n) = t /\ Book(n)' = d.tat /\ \A m \in Nodes : m # n => Book(m)' = Book(m)
        BY <1>1, <1>2, <1>3, <2>1 DEF Book, t
    <2>7. allowed => Book(n) + Gap <= Book(n)' /\ Fits(Book(n)', at)
        BY <1>3, <2>1, <2>5, <2>6 DEF Fits
    <2>8. WindowsWithin'
        BY <2>1 DEF WindowsWithin
    <2>9. Book(n) <= Book(n)'
        BY <2>1, <2>2, <2>3, <2>5, <2>6, GapType
    <2> QED BY <1>2, <2>1, <2>6, <2>7, <2>8, <2>9
<1>4. CASE server = "fixedwindow"
    <2> DEFINE id == at \div Minute
               old == window[n]
               st == IF old.id = id THEN old ELSE [id |-> id, count |-> 0]
               new == IF st.count < Share THEN [st EXCEPT !.count = @ + 1] ELSE st
    <2>1. /\ (allowed <=> st.count < Share) /\ window' = [window EXCEPT ![n] = new]
          /\ overtaken' = (overtaken \/ id < old.id) /\ UNCHANGED tat
        BY <1>4 DEF Decision, FixedWindow, Counted
    <2>2. /\ id \in Nat /\ old \in [id : Nat, count : Nat] /\ old.count <= Share
          /\ \A m \in Nodes : window[m].count <= Share
        BY <1>1, DivStep DEF WindowsWithin
    <2> HIDE DEF id
    <2>3. /\ st \in [id : Nat, count : Nat] /\ st.id = id /\ st.count <= Share
          /\ old.id <= id => old.id * Share + old.count <= id * Share + st.count
          /\ ~(st.count < Share) => old = st
        <3>1. CASE old.id = id
            BY <1>1, <2>2, <3>1
        <3>2. CASE old.id # id
            <4>1. st = [id |-> id, count |-> 0]
                BY <3>2
            <4>2. ASSUME old.id <= id PROVE old.id * Share + old.count <= id * Share
                <5> DEFINE k == id - old.id - 1
                <5>1. k \in Nat /\ id = old.id + 1 + k /\ old.id \in Nat
                    BY <2>2, <3>2, <4>2
                <5> HIDE DEF k
                <5>2. /\ id * Share = old.id * Share + Share + k * Share
                      /\ old.id * Share \in Nat /\ k * Share \in Nat
                    BY <1>1, <2>2, <5>1
                <5> QED BY <1>1, <2>2, <5>2
            <4>3. id * Share \in Nat
                BY <1>1, <2>2
            <4> QED BY <1>1, <2>2, <4>1, <4>2, <4>3
        <3> QED BY <3>1, <3>2
    <2>4. InStep' => old.id <= id
        <3>1. InStep' => ~overtaken'
            BY <1>2, <1>4 DEF InStep
        <3>2. id < old.id => overtaken'
            BY <2>1
        <3>3. old.id \in Nat
            BY <2>2
        <3> QED BY <2>2, <3>1, <3>2, <3>3
    <2> HIDE DEF old, st
    <2>5. /\ new.id = id /\ new.count <= Share /\ new.count \in Nat
          /\ new.count = IF st.count < Share THEN st.count + 1 ELSE st.count
        BY <1>1, <2>3
    <2> HIDE DEF new
    <2>6. Book(n) = old.id * Share + old.count /\ Book(n)' = id * Share + new.count
        BY <1>1, <1>2, <1>4, <2>1, <2>5 DEF Book, old
    <2>7. id * Share \in Nat /\ old.id * Share \in Nat /\ Gap = 1
        BY <1>1, <1>4, <2>2 DEF Gap
    <2>8. InStep' => Book(n) <= Book(n)' /\ (allowed => Book(n) + Gap <= Book(n)')
        BY <2>1, <2>2, <2>3, <2>4, <2>5, <2>6, <2>7
    <2>9. allowed => Fits(Book(n)', at)
        BY <1>1, <1>4, <2>1, <2>3, <2>5, <2>6, <2>7 DEF Fits, id
    <2>10. \A m \in Nodes : m # n => Book(m)' = Book(m)
        BY <1>1, <1>2, <1>4, <2>1 DEF Book
    <2>11. WindowsWithin'
        BY <1>1, <2>1, <2>2, <2>5, ShareType DEF WindowsWithin
    <2> QED BY <1>2, <2>1, <2>8, <2>9, <2>10, <2>11
<1> QED BY <1>1, <1>3, <1>4

-----------------------------------------------------------------------------
\* Where admissions go

\* A step may hand the admissions on, and drop some, as long as no two become
\* one and no book goes back.
LEMMA HandedOn ==
    ASSUME Booked, UNCHANGED server, TypeOK, TypeOK',
           NEW from \in [Tokens -> Tokens],
           \A x \in Tokens : Live(x)' => Live(from[x]) /\ ArrivedAt(x)' = ArrivedAt(from[x]),
           \A x, y \in Tokens : Live(x)' /\ Live(y)' /\ from[x] = from[y] => x = y,
           \A n \in Nodes : Serving(n)' => Serving(n) /\ Book(n) <= Book(n)'
    PROVE  Booked'
<1>1. PICK node \in [Tokens -> Nodes], mark \in [Tokens -> Nat] : Ledger(node, mark)
    BY DEF Booked
<1> DEFINE node2 == [x \in Tokens |-> node[from[x]]]
           mark2 == [x \in Tokens |-> mark[from[x]]]
<1>2. node2 \in [Tokens -> Nodes] /\ mark2 \in [Tokens -> Nat]
    OBVIOUS
<1>3. /\ Gap' = Gap /\ Gap \in Nat
    BY GapType DEF Gap
<1>4. \A n \in Nodes : Book(n) \in Nat /\ Book(n)' \in Nat
    BY BookType
<1>5. ASSUME NEW x \in Tokens, Live(x)'
      PROVE  /\ Fits(mark2[x], ArrivedAt(x))'
             /\ Serving(node2[x])' => mark2[x] <= Book(node2[x])'
    <2> DEFINE y == from[x]
    <2>1. y \in Tokens /\ Live(y) /\ ArrivedAt(x)' = ArrivedAt(y)
        BY <1>5
    <2>2. node2[x] = node[y] /\ mark2[x] = mark[y] /\ node[y] \in Nodes /\ mark[y] \in Nat
        OBVIOUS
    <2> HIDE DEF y, node2, mark2
    <2>3. Fits(mark[y], ArrivedAt(y)) /\ (Serving(node[y]) => mark[y] <= Book(node[y]))
        BY <1>1, <2>1 DEF Ledger
    <2>4. Fits(mark2[x], ArrivedAt(x))'
        BY <1>3, <2>1, <2>2, <2>3 DEF Fits
    <2>5. Serving(node2[x])' => mark2[x] <= Book(node2[x])'
        BY <1>4, <2>2, <2>3
    <2> QED BY <2>4, <2>5
<1>6. ASSUME NEW x \in Tokens, NEW y \in Tokens, Live(x)', Live(y)', x # y, node2[x] = node2[y]
      PROVE  mark2[x] + Gap <= mark2[y] \/ mark2[y] + Gap <= mark2[x]
    <2>1. Live(from[x]) /\ Live(from[y]) /\ from[x] # from[y]
        BY <1>6
    <2>2. node[from[x]] = node[from[y]] /\ mark2[x] = mark[from[x]] /\ mark2[y] = mark[from[y]]
        BY <1>6
    <2> HIDE DEF node2, mark2
    <2> QED BY <1>1, <2>1, <2>2 DEF Ledger
<1> HIDE DEF node2, mark2
<1>7. Ledger(node2, mark2)'
    BY <1>3, <1>5, <1>6 DEF Ledger
<1> QED BY <1>2, <1>7 DEF Booked

\* An admission of a serving node is new.
LEMMA Issued ==
    ASSUME Booked, UNCHANGED server, TypeOK, TypeOK',
           NEW new \in Tokens, NEW n0 \in Nodes, Serving(n0),
           \A x \in Tokens : Live(x)' /\ x # new => Live(x) /\ ArrivedAt(x)' = ArrivedAt(x),
           \A n \in Nodes : Serving(n)' => Serving(n) /\ Book(n) <= Book(n)',
           Book(n0) + Gap <= Book(n0)', Fits(Book(n0)', ArrivedAt(new)')
    PROVE  Booked'
<1>1. PICK node \in [Tokens -> Nodes], mark \in [Tokens -> Nat] : Ledger(node, mark)
    BY DEF Booked
<1>2. PICK b \in Nat : b = Book(n0)'
    BY BookType
<1> DEFINE node2 == [node EXCEPT ![new] = n0]
           mark2 == [mark EXCEPT ![new] = b]
<1>3. node2 \in [Tokens -> Nodes] /\ mark2 \in [Tokens -> Nat]
    BY <1>2
<1>4. /\ node2[new] = n0 /\ mark2[new] = b
      /\ \A x \in Tokens : x # new => node2[x] = node[x] /\ mark2[x] = mark[x]
      /\ \A x \in Tokens : node[x] \in Nodes /\ mark[x] \in Nat
    OBVIOUS
<1> HIDE DEF node2, mark2
<1>5. /\ Gap' = Gap /\ Gap \in Nat
    BY GapType DEF Gap
<1>6. \A n \in Nodes : Book(n) \in Nat /\ Book(n)' \in Nat
    BY BookType
<1>7. ASSUME NEW x \in Tokens, x # new, Live(x)'
      PROVE  /\ Fits(mark[x], ArrivedAt(x))'
             /\ Serving(node[x])' => mark[x] <= Book(node[x])'
             /\ node[x] = n0 => mark[x] + Gap <= b
    <2>1. Live(x) /\ ArrivedAt(x)' = ArrivedAt(x)
        BY <1>7
    <2>2. Fits(mark[x], ArrivedAt(x)) /\ (Serving(node[x]) => mark[x] <= Book(node[x]))
        BY <1>1, <2>1 DEF Ledger
    <2>3. Fits(mark[x], ArrivedAt(x))'
        BY <1>5, <2>1, <2>2 DEF Fits
    <2>4. Serving(node[x])' => mark[x] <= Book(node[x])'
        BY <1>4, <1>6, <2>2
    <2>5. node[x] = n0 => mark[x] + Gap <= b
        <3>1. node[x] = n0 => mark[x] <= Book(n0)
            BY <2>2
        <3> QED BY <1>2, <1>4, <1>5, <1>6, <3>1
    <2> QED BY <2>3, <2>4, <2>5
<1>8. ASSUME NEW x \in Tokens, Live(x)'
      PROVE  /\ Fits(mark2[x], ArrivedAt(x))'
             /\ Serving(node2[x])' => mark2[x] <= Book(node2[x])'
    <2>1. CASE x = new
        <3>1. Fits(mark2[x], ArrivedAt(x))'
            BY <1>2, <1>4, <1>5, <2>1 DEF Fits
        <3>2. mark2[x] = Book(node2[x])'
            BY <1>2, <1>4, <2>1
        <3> QED BY <1>6, <1>2, <1>4, <2>1, <3>1, <3>2
    <2>2. CASE x # new
        BY <1>4, <1>7, <1>8, <2>2
    <2> QED BY <2>1, <2>2
<1>9. ASSUME NEW x \in Tokens, NEW y \in Tokens, Live(x)', Live(y)', x # y, node2[x] = node2[y]
      PROVE  mark2[x] + Gap <= mark2[y] \/ mark2[y] + Gap <= mark2[x]
    <2>1. CASE x = new
        BY <1>4, <1>7, <1>9, <2>1
    <2>2. CASE y = new
        BY <1>4, <1>7, <1>9, <2>2
    <2>3. CASE x # new /\ y # new
        <3>1. Live(x) /\ Live(y) /\ node[x] = node[y]
            BY <1>4, <1>9, <2>3
        <3> QED BY <1>1, <1>4, <1>9, <2>3, <3>1 DEF Ledger
    <2> QED BY <2>1, <2>2, <2>3
<1>10. Ledger(node2, mark2)'
    BY <1>5, <1>8, <1>9 DEF Ledger
<1> QED BY <1>3, <1>10 DEF Booked

LEMMA TokensAre ==
    /\ \A w \in Workers : <<"hand", w>> \in Tokens
    /\ \A i \in Nat : <<"past", i>> \in Tokens
    /\ \A x \in Tokens : \/ x[1] = "hand" /\ x[2] \in Workers /\ x = <<"hand", x[2]>>
                         \/ x[1] = "past" /\ x[2] \in Nat /\ x = <<"past", x[2]>>
BY DEF Tokens

\* Where nothing moves, and no book goes back.
LEMMA NothingMoves ==
    ASSUME Booked, UNCHANGED server, TypeOK, TypeOK',
           \A x \in Tokens : Live(x)' => Live(x) /\ ArrivedAt(x)' = ArrivedAt(x),
           \A n \in Nodes : Serving(n)' => Serving(n) /\ Book(n) <= Book(n)'
    PROVE  Booked'
<1> DEFINE from == [x \in Tokens |-> x]
<1>1. from \in [Tokens -> Tokens] /\ \A x \in Tokens : from[x] = x
    OBVIOUS
<1> HIDE DEF from
<1> QED BY <1>1, HandedOn

\* The books where no node decides; a node only stops, or the load is over.
LEMMA BooksKept ==
    ASSUME TypeOK, UNCHANGED <<server, tat, window>>,
           \A n \in Nodes : up'[n] => up[n] \/ RecordsClosed',
           RecordsClosed => RecordsClosed'
    PROVE  \A n \in Nodes : Serving(n)' => Serving(n) /\ Book(n) <= Book(n)'
<1> TAKE n \in Nodes
<1>1. Book(n) \in Nat /\ Book(n)' = Book(n)
    BY BookType DEF Book
<1> QED BY <1>1 DEF Serving

\* What a worker does with its request shows in its own token.
LEMMA HandMoves ==
    ASSUME TypeOK, NEW w \in Workers, NEW v, worker' = [worker EXCEPT ![w] = v],
           UNCHANGED <<records, collected>>
    PROVE  \A x \in Tokens :
              /\ x # <<"hand", w>> => (Live(x)' <=> Live(x)) /\ ArrivedAt(x)' = ArrivedAt(x)
              /\ x = <<"hand", w>> => /\ Live(x) <=> Holds(worker[w])
                                      /\ Live(x)' <=> Holds(v)
                                      /\ ArrivedAt(x) = HeldAt(worker[w])
                                      /\ ArrivedAt(x)' = HeldAt(v)
<1> TAKE x \in Tokens
<1>1. worker \in [Workers -> Working]
    BY DEF TypeOK
<1>2. FlowLen' = FlowLen /\ \A i : FlowAt(i)' = FlowAt(i)
    BY DEF FlowLen, FlowAt
<1>3. CASE x = <<"hand", w>>
    <2>1. x[1] = "hand" /\ x[2] = w /\ worker'[w] = v
        BY <1>1, <1>3
    <2> QED BY <1>3, <2>1 DEF Live, ArrivedAt
<1>4. CASE x # <<"hand", w>> /\ x[1] = "hand"
    <2>1. x[2] \in Workers /\ x[2] # w
        BY <1>4, TokensAre
    <2>2. worker'[x[2]] = worker[x[2]]
        BY <1>1, <2>1
    <2> QED BY <1>4, <2>2 DEF Live, ArrivedAt
<1>5. CASE x # <<"hand", w>> /\ x[1] # "hand"
    BY <1>2, <1>5 DEF Live, ArrivedAt
<1> QED BY <1>3, <1>4, <1>5

\* What the collector takes from the channel keeps its place.
LEMMA FlowKept ==
    ASSUME TypeOK, records # <<>>, records' = Tail(records),
           collected' = Append(collected, Head(records))
    PROVE  FlowLen' = FlowLen /\ \A i \in 1 .. FlowLen : FlowAt(i)' = FlowAt(i)
<1>1. records \in Seq(Record) /\ collected \in Seq(Record)
    BY DEF TypeOK
<1>2. /\ Len(records) \in Nat \ {0} /\ Len(collected) \in Nat
      /\ Len(records') = Len(records) - 1 /\ Len(collected') = Len(collected) + 1
    BY <1>1
<1>3. \A j \in 1 .. Len(records) - 1 : records'[j] = records[j + 1]
    BY <1>1
<1>4. /\ \A j \in 1 .. Len(collected) : collected'[j] = collected[j]
      /\ collected'[Len(collected) + 1] = records[1]
    BY <1>1
<1>5. FlowLen' = FlowLen
    BY <1>2 DEF FlowLen
<1>6. ASSUME NEW i \in 1 .. FlowLen PROVE FlowAt(i)' = FlowAt(i)
    <2>1. i \in Nat \ {0} /\ i <= Len(collected) + Len(records)
        BY <1>2, <1>6 DEF FlowLen
    <2>2. CASE i <= Len(collected)
        <3>1. FlowAt(i) = collected[i] /\ FlowAt(i)' = collected'[i]
            BY <1>2, <2>1, <2>2 DEF FlowAt
        <3> QED BY <1>2, <1>4, <2>1, <2>2, <3>1
    <2>3. CASE i = Len(collected) + 1
        <3>1. FlowAt(i)' = collected'[i]
            BY <1>2, <2>3 DEF FlowAt
        <3>2. FlowAt(i) = records[i - Len(collected)] /\ i - Len(collected) = 1
            BY <1>2, <2>3 DEF FlowAt
        <3> QED BY <1>4, <2>3, <3>1, <3>2
    <2>4. CASE i > Len(collected) + 1
        <3> DEFINE j == i - Len(collected) - 1
        <3>1. j \in 1 .. Len(records) - 1 /\ j + 1 = i - Len(collected)
              /\ i - Len(collected') = j
            BY <1>2, <2>1, <2>4
        <3>2. FlowAt(i)' = records'[i - Len(collected')]
            BY <1>2, <2>1, <2>4 DEF FlowAt
        <3>3. FlowAt(i) = records[i - Len(collected)]
            BY <1>2, <2>1, <2>4 DEF FlowAt
        <3> HIDE DEF j
        <3>4. records'[j] = records[j + 1]
            BY <1>3, <3>1
        <3> QED BY <3>1, <3>2, <3>3, <3>4
    <2> QED BY <1>2, <2>1, <2>2, <2>3, <2>4
<1> QED BY <1>5, <1>6

\* A record that is put comes after all others.
LEMMA FlowGrows ==
    ASSUME TypeOK, NEW r, r \in Record, records' = Append(records, r), UNCHANGED collected
    PROVE  /\ FlowLen \in Nat /\ FlowLen' = FlowLen + 1
           /\ \A i : i = FlowLen + 1 => FlowAt(i)' = r
           /\ \A i \in 1 .. FlowLen : FlowAt(i)' = FlowAt(i)
<1>1. records \in Seq(Record) /\ collected \in Seq(Record)
    BY DEF TypeOK
<1>2. /\ Len(records) \in Nat /\ Len(collected) \in Nat /\ Len(records') = Len(records) + 1
      /\ \A j \in 1 .. Len(records) : records'[j] = records[j]
      /\ records'[Len(records) + 1] = r
    BY <1>1
<1>3. FlowLen \in Nat /\ FlowLen' = FlowLen + 1 /\ FlowLen = Len(collected) + Len(records)
    BY <1>2 DEF FlowLen
<1>4. ASSUME NEW i, i = FlowLen + 1 PROVE FlowAt(i)' = r
    <2>1. /\ i > Len(collected) /\ i - Len(collected) = Len(records) + 1 /\ i \in Nat
        BY <1>2, <1>3, <1>4
    <2>2. FlowAt(i)' = records'[i - Len(collected')]
        BY <1>2, <2>1 DEF FlowAt
    <2> QED BY <1>2, <2>1, <2>2
<1>5. ASSUME NEW i \in 1 .. FlowLen PROVE FlowAt(i)' = FlowAt(i)
    <2>1. i \in Nat /\ (i > Len(collected) => i - Len(collected) \in 1 .. Len(records))
        BY <1>2, <1>3, <1>5
    <2> QED BY <1>2, <2>1 DEF FlowAt
<1> QED BY <1>3, <1>4, <1>5

\* What has been overtaken stays so, and the build is the one it was.
LEMMA NextWindows ==
    ASSUME TypeOK, WindowsWithin, [Next]_vars
    PROVE  WindowsWithin' /\ UNCHANGED server /\ (overtaken => overtaken')
<1>1. ASSUME UNCHANGED limiterVars
      PROVE  WindowsWithin' /\ UNCHANGED server /\ (overtaken => overtaken')
    BY <1>1 DEF limiterVars, WindowsWithin
<1>2. CASE UNCHANGED vars
    BY <1>1, <1>2 DEF vars, nodeVars
<1>3. ASSUME NEW n \in Nodes, ProbeAnswered(n)
      PROVE  WindowsWithin' /\ UNCHANGED server /\ (overtaken => overtaken')
    <2>1. (\E allowed \in BOOLEAN : Decision(n, now, allowed)) /\ now \in Times
        BY <1>3 DEF ProbeAnswered, TypeOK
    <2> QED BY <2>1, DecisionBooks
<1>4. CASE PassTime \/ Cancel \/ ProbeFails \/ Pacer \/ Collect \/ Kill \/ WindUp
    <2>1. UNCHANGED limiterVars
        BY <1>4 DEF PassTime, Cancel, ProbeFails, Pacer, CheckDeadline, Tick, StopPacing,
                    CloseRecords, Return, Collect, Kill, KillDue, KillGivesUp, KillReturns,
                    WindUp, CancelKill, Revive, DrainKill, Elsewhere, nodeVars
    <2> QED BY <1>1, <2>1
<1>5. CASE NodeStops
    <2>1. /\ window' = [window EXCEPT ![Victim] = Unserved] /\ UNCHANGED <<server, overtaken>>
          /\ window \in [Nodes -> [id : Nat, count : Nat]]
        BY <1>5 DEF NodeStops, TypeOK
    <2> QED BY <2>1, ShareType DEF WindowsWithin, Unserved
<1>6. ASSUME NEW w \in Workers, Work(w)
      PROVE  WindowsWithin' /\ UNCHANGED server /\ (overtaken => overtaken')
    <2>1. CASE Served(w)
        <3>1. worker[w].node \in Nodes /\ worker[w].at \in Times
            BY <2>1, WorkerIs DEF Served, TypeOK
        <3>2. \E allowed \in BOOLEAN : Decision(worker[w].node, worker[w].at, allowed)
            BY <2>1 DEF Served
        <3> QED BY <3>1, <3>2, DecisionBooks
    <2>2. CASE ~Served(w)
        <3>1. UNCHANGED limiterVars
            BY <1>6, <2>2 DEF Work, Take, Arrive, Receive, Fail, Put, Quit, nodeVars
        <3> QED BY <1>1, <3>1
    <2> QED BY <2>1, <2>2
<1>7. CASE Drift
    <2>1. ASSUME NEW n \in Nodes, ArriveAdrift(n)
          PROVE  WindowsWithin' /\ UNCHANGED server /\ (overtaken => overtaken')
        BY <2>1, <1>1 DEF ArriveAdrift
    <2>2. ASSUME NEW n \in Nodes, NEW at \in Times, ServedAdrift(n, at)
          PROVE  WindowsWithin' /\ UNCHANGED server /\ (overtaken => overtaken')
        BY <2>2, DecisionBooks DEF ServedAdrift
    <2> QED BY <1>7, <2>1, <2>2 DEF Drift
<1> QED BY <1>2, <1>3, <1>4, <1>5, <1>6, <1>7 DEF Next, Probe

LEMMA NextBooked ==
    ASSUME TypeOK, TypeOK', InOrder, WindowsWithin, InStep', Booked, [Next]_vars
    PROVE  Booked'
<1> USE StagesAre
<1>1. worker \in [Workers -> Working] /\ records \in Seq(Record) /\ collected \in Seq(Record)
    BY DEF TypeOK
<1>2. UNCHANGED workVars => \A x \in Tokens : (Live(x)' <=> Live(x)) /\ ArrivedAt(x)' = ArrivedAt(x)
    <2>1. UNCHANGED workVars => FlowLen' = FlowLen /\ \A i : FlowAt(i)' = FlowAt(i)
        BY DEF workVars, FlowLen, FlowAt
    <2> QED BY <2>1 DEF workVars, Live, ArrivedAt
<1>3. ASSUME UNCHANGED <<server, tat, window, workVars>>,
             \A n \in Nodes : up'[n] => up[n] \/ RecordsClosed',
             RecordsClosed => RecordsClosed'
      PROVE  Booked'
    BY <1>2, <1>3, NothingMoves, BooksKept
<1>4. CASE UNCHANGED vars
    <2>1. UNCHANGED <<server, tat, window, workVars, main, up>>
        BY <1>4 DEF vars, nodeVars, limiterVars
    <2>2. (RecordsClosed' <=> RecordsClosed)
        BY <2>1 DEF StageSets
    <2> QED BY <1>3, <2>1, <2>2
<1>5. CASE PassTime \/ Cancel \/ ProbeFails \/ Pacer \/ Kill \/ CancelKill \/ DrainKill
    <2>1. UNCHANGED <<server, tat, window, workVars, up>>
        BY <1>5 DEF PassTime, Cancel, ProbeFails, Pacer, CheckDeadline, Tick, StopPacing,
                    CloseRecords, Return, Kill, KillDue, KillGivesUp, KillReturns, CancelKill,
                    DrainKill, Elsewhere, Apart, nodeVars, limiterVars
    <2>2. RecordsClosed => RecordsClosed'
        BY <1>5 DEF PassTime, Cancel, ProbeFails, StartLoad, Pacer, CheckDeadline, Tick, StopPacing,
                    LeaveLoop, CloseRecords, Return, Kill, KillDue, KillGivesUp, KillReturns,
                    CancelKill, DrainKill, StageSets
    <2> QED BY <1>3, <2>1, <2>2
<1>6. CASE Revive
    <2>1. UNCHANGED <<server, tat, window, workVars>> /\ RecordsClosed'
        BY <1>6 DEF Revive, Apart, StageSets, limiterVars
    <2> QED BY <1>3, <2>1
\* A node that stops forgets its book, and serves no more; of what it admitted
\* some is asked again elsewhere.
<1>7. CASE NodeStops
    <2>1. /\ up' = [up EXCEPT ![Victim] = FALSE] /\ UNCHANGED <<server, main, records, collected>>
          /\ \A n \in Nodes : n # Victim => Book(n)' = Book(n)
        BY <1>7 DEF NodeStops, TypeOK, Book
    <2>2. up \in [Nodes -> BOOLEAN] /\ (RecordsClosed' <=> RecordsClosed)
        BY <2>1 DEF TypeOK, StageSets
    <2>3. ASSUME NEW n \in Nodes, Serving(n)' PROVE Serving(n) /\ Book(n) <= Book(n)'
        <3>1. n # Victim /\ up[n] /\ ~RecordsClosed
            BY <2>1, <2>2, <2>3 DEF Serving
        <3> QED BY <2>1, <3>1, BookType DEF Serving
    <2>4. \A w \in Workers : worker'[w] = worker[w] \/ worker'[w] = Asking
        BY <1>7 DEF NodeStops
    <2>5. ~Holds(Asking)
        BY DEF Holds, Asking
    <2>6. FlowLen' = FlowLen /\ \A i : FlowAt(i)' = FlowAt(i)
        BY <2>1 DEF FlowLen, FlowAt
    <2>7. ASSUME NEW x \in Tokens, Live(x)' PROVE Live(x) /\ ArrivedAt(x)' = ArrivedAt(x)
        <3>1. CASE x[1] = "hand"
            <4>1. worker'[x[2]] = worker[x[2]]
                BY <2>4, <2>5, <2>7, <3>1, TokensAre DEF Live
            <4> QED BY <2>7, <3>1, <4>1 DEF Live, ArrivedAt
        <3>2. CASE x[1] # "hand"
            BY <2>6, <2>7, <3>2 DEF Live, ArrivedAt
        <3> QED BY <3>1, <3>2
    <2> QED BY <2>1, <2>3, <2>7, NothingMoves
\* A decision whose answer nobody waits for.
<1>8. ASSUME NEW n \in Nodes, NEW at \in Times, NEW allowed \in BOOLEAN,
             Decision(n, at, allowed), UNCHANGED workVars, ~RecordsClosed
      PROVE  Booked'
    <2>1. /\ UNCHANGED <<server, up>> /\ Book(n) <= Book(n)'
          /\ \A m \in Nodes : m # n => Book(m)' = Book(m)
        BY <1>8, DecisionBooks
    <2>2. \A m \in Nodes : Serving(m)' => Serving(m) /\ Book(m) <= Book(m)'
        <3>1. \A m \in Nodes : Book(m) <= Book(m)'
            BY <2>1, BookType
        <3> QED BY <1>8, <2>1, <3>1 DEF Serving
    <2> QED BY <1>2, <1>8, <2>1, <2>2, NothingMoves
<1>16. ASSUME NEW n \in Nodes, ProbeAnswered(n) PROVE Booked'
    <2>1. (\E allowed \in BOOLEAN : Decision(n, now, allowed)) /\ now \in Times
        BY <1>16 DEF ProbeAnswered, TypeOK
    <2>2. UNCHANGED workVars /\ ~RecordsClosed
        BY <1>16 DEF ProbeAnswered, StageSets
    <2> QED BY <2>1, <2>2, <1>8
<1>17. CASE Drift
    <2>1. ASSUME NEW n \in Nodes, ArriveAdrift(n) PROVE Booked'
        <3>1. UNCHANGED <<server, tat, window, workVars, up, main>>
            BY <2>1 DEF ArriveAdrift, Ashore, limiterVars
        <3>2. (RecordsClosed' <=> RecordsClosed)
            BY <3>1 DEF StageSets
        <3> QED BY <3>1, <3>2, <1>3
    <2>2. ASSUME NEW n \in Nodes, NEW at \in Times, ServedAdrift(n, at) PROVE Booked'
        <3>1. \E allowed \in BOOLEAN : Decision(n, at, allowed)
            BY <2>2 DEF ServedAdrift
        <3>2. UNCHANGED workVars /\ ~RecordsClosed
            BY <2>2 DEF ServedAdrift, Ashore
        <3> QED BY <3>1, <3>2, <1>8
    <2> QED BY <1>17, <2>1, <2>2 DEF Drift
<1>9. CASE Collect
    <2>1. UNCHANGED <<server, tat, window, up, worker, main>>
        BY <1>9 DEF Collect, Outside, nodeVars, limiterVars
    <2>2. (RecordsClosed' <=> RecordsClosed)
        BY <2>1 DEF StageSets
    <2>3. \A m \in Nodes : Serving(m)' => Serving(m) /\ Book(m) <= Book(m)'
        BY <2>1, <2>2, BooksKept
    <2>4. FlowLen' = FlowLen /\ \A i \in 1 .. FlowLen : FlowAt(i)' = FlowAt(i)
        <3>1. CASE records # <<>>
            BY <1>9, <3>1, FlowKept DEF Collect
        <3>2. CASE records = <<>>
            <4>1. UNCHANGED <<records, collected>>
                BY <1>9, <3>2 DEF Collect
            <4> QED BY <4>1 DEF FlowLen, FlowAt
        <3> QED BY <3>1, <3>2
    <2>5. \A x \in Tokens : Live(x)' => Live(x) /\ ArrivedAt(x)' = ArrivedAt(x)
        BY <2>1, <2>4 DEF Live, ArrivedAt
    <2> QED BY <2>1, <2>3, <2>5, NothingMoves
\* A worker that is given no admission, or keeps the one it has.
<1>10. ASSUME NEW w \in Workers, NEW v, worker' = [worker EXCEPT ![w] = v],
              Holds(v) => Holds(worker[w]) /\ HeldAt(v) = HeldAt(worker[w]),
              UNCHANGED <<main, records, collected, limiterVars, up>>
       PROVE  Booked'
    <2>1. \A x \in Tokens : Live(x)' => Live(x) /\ ArrivedAt(x)' = ArrivedAt(x)
        BY <1>10, HandMoves
    <2>2. (RecordsClosed' <=> RecordsClosed)
        BY <1>10 DEF StageSets
    <2>3. \A m \in Nodes : Serving(m)' => Serving(m) /\ Book(m) <= Book(m)'
        BY <1>10, <2>2, BooksKept DEF limiterVars
    <2> QED BY <1>10, <2>1, <2>3, NothingMoves DEF limiterVars
<1>11. ASSUME NEW w \in Workers, Take(w) \/ Arrive(w) \/ Fail(w) \/ Quit(w) PROVE Booked'
    <2>1. /\ ~Holds(Asking) /\ ~Holds(Gone) /\ ~Holds(Holding(Errored))
          /\ \A n, t : ~Holds(Stamped(n, t))
        BY DEF Holds, Asking, Gone, Holding, Errored, Stamped
    <2>2. PICK v : ~Holds(v) /\ worker' = [worker EXCEPT ![w] = v]
        <3>1. CASE Take(w) \/ Fail(w) \/ Quit(w)
            <4>1. \E v \in {Asking, Gone, Holding(Errored)} : worker' = [worker EXCEPT ![w] = v]
                BY <3>1 DEF Take, Fail, Quit
            <4> QED BY <2>1, <4>1
        <3>2. CASE Arrive(w)
            BY <2>1, <3>2 DEF Arrive
        <3> QED BY <1>11, <3>1, <3>2
    <2>3. UNCHANGED <<main, records, collected, limiterVars, up>>
        BY <1>11 DEF Take, Arrive, Fail, Quit, nodeVars
    <2>4. Holds(v) => Holds(worker[w]) /\ HeldAt(v) = HeldAt(worker[w])
        BY <2>2
    <2>5. worker' = [worker EXCEPT ![w] = v]
        BY <2>2
    <2> QED BY Zenon, <1>10, <2>3, <2>4, <2>5
<1>12. ASSUME NEW w \in Workers, Receive(w) PROVE Booked'
    <2> DEFINE v == Holding(IF worker[w].allowed THEN Admitted(worker[w].at, now) ELSE Rejected)
    <2>1. /\ worker[w].pc = "decided" /\ worker' = [worker EXCEPT ![w] = v]
          /\ UNCHANGED <<main, records, collected, limiterVars, up>>
        BY <1>12 DEF Receive, nodeVars
    <2>2. Holds(v) => worker[w].allowed /\ HeldAt(v) = worker[w].at
        BY DEF Holds, HeldAt, Holding, Admitted, Rejected
    <2>3. HeldAt(worker[w]) = worker[w].at /\ (worker[w].allowed => Holds(worker[w]))
        BY <2>1 DEF Holds, HeldAt
    <2> HIDE DEF v
    <2>4. Holds(v) => Holds(worker[w]) /\ HeldAt(v) = HeldAt(worker[w])
        BY <2>2, <2>3
    <2> QED BY Zenon, <1>10, <2>1, <2>4
\* The admission in its hands goes to the end of the channel.
<1>13. ASSUME NEW w \in Workers, Put(w) PROVE Booked'
    <2>1. worker[w].pc = "holding" /\ worker[w] # Gone
        BY <1>13, WorkerIs DEF Put
    <2>2. ~RecordsClosed
        BY <2>1 DEF InOrder
    <2> DEFINE r == worker[w].record
    <2>3. /\ records' = Append(records, r) /\ worker' = [worker EXCEPT ![w] = Idle]
          /\ UNCHANGED <<main, collected, nodeVars>> /\ r \in Record
        BY <1>1, <1>13, <2>1, <2>2, WorkerIs DEF Put
    <2> HIDE DEF r
    <2>4. PICK k \in Nat : k = FlowLen + 1
        BY <2>3, FlowGrows
    <2>5. /\ FlowLen \in Nat /\ FlowLen' = k /\ FlowAt(k)' = r
          /\ \A i \in 1 .. FlowLen : FlowAt(i)' = FlowAt(i)
        BY <2>3, <2>4, FlowGrows
    <2>6. ~Holds(Idle) /\ worker'[w] = Idle /\ \A u \in Workers : u # w => worker'[u] = worker[u]
        BY <1>1, <2>3 DEF Holds, Idle
    <2> DEFINE from == [x \in Tokens |-> IF x = <<"past", k>> THEN <<"hand", w>> ELSE x]
    <2>7. from \in [Tokens -> Tokens] /\ <<"past", k>> \in Tokens /\ <<"hand", w>> \in Tokens
        BY TokensAre
    <2>8. /\ from[<<"past", k>>] = <<"hand", w>>
          /\ \A x \in Tokens : x # <<"past", k>> => from[x] = x
        BY <2>7
    <2> HIDE DEF from
    <2>9. Live(<<"hand", w>>)' => FALSE
        BY <2>6 DEF Live
    <2>10. ASSUME NEW x \in Tokens, Live(x)'
           PROVE  Live(from[x]) /\ ArrivedAt(x)' = ArrivedAt(from[x])
        <3>1. CASE x = <<"past", k>>
            <4>1. Live(x)' => r.kind = "admitted"
                BY <2>5, <3>1 DEF Live
            <4>2. ArrivedAt(x)' = r.arrived
                BY <2>5, <3>1 DEF ArrivedAt
            <4>3. Live(<<"hand", w>>) <=> r.kind = "admitted"
                BY <2>1 DEF Live, Holds, r
            <4>4. ArrivedAt(<<"hand", w>>) = r.arrived
                BY <2>1 DEF ArrivedAt, HeldAt, r
            <4> QED BY <2>8, <2>10, <3>1, <4>1, <4>2, <4>3, <4>4
        <3>2. CASE x # <<"past", k>> /\ x[1] = "hand"
            <4>1. x[2] # w /\ x[2] \in Workers
                BY <2>9, <2>10, <3>2, TokensAre
            <4>2. worker'[x[2]] = worker[x[2]]
                BY <2>6, <4>1
            <4>3. Live(x) /\ ArrivedAt(x)' = ArrivedAt(x)
                BY <2>10, <3>2, <4>2 DEF Live, ArrivedAt
            <4> QED BY <2>8, <3>2, <4>3
        <3>3. CASE x # <<"past", k>> /\ x[1] # "hand"
            <4>1. x[2] # k /\ x[2] \in Nat
                BY <3>3, TokensAre
            <4>2. x[2] \in 1 .. k
                BY <2>5, <2>10, <3>3 DEF Live
            <4>3. x[2] \in 1 .. FlowLen /\ FlowAt(x[2])' = FlowAt(x[2])
                BY <2>4, <2>5, <4>1, <4>2
            <4>4. Live(x) /\ ArrivedAt(x)' = ArrivedAt(x)
                BY <2>10, <3>3, <4>3 DEF Live, ArrivedAt
            <4> QED BY <2>8, <3>3, <4>4
        <3> QED BY <3>1, <3>2, <3>3
    <2>11. ASSUME NEW x \in Tokens, NEW y \in Tokens, Live(x)', Live(y)', from[x] = from[y]
           PROVE  x = y
        <3>1. x # <<"hand", w>> /\ y # <<"hand", w>>
            BY <2>9, <2>11
        <3> QED BY <2>8, <2>11, <3>1
    <2>12. (RecordsClosed' <=> RecordsClosed)
        BY <2>3 DEF StageSets
    <2>13. \A m \in Nodes : Serving(m)' => Serving(m) /\ Book(m) <= Book(m)'
        BY <2>3, <2>12, BooksKept DEF nodeVars, limiterVars
    <2>14. UNCHANGED server
        BY <2>3 DEF nodeVars, limiterVars
    <2> QED BY <2>7, <2>10, <2>11, <2>13, <2>14, HandedOn
<1>14. ASSUME NEW w \in Workers, Served(w) PROVE Booked'
    <2>0. PICK n \in Nodes, at \in Times : n = worker[w].node /\ at = worker[w].at
        BY <1>1, <1>14, WorkerIs DEF Served
    <2>1. PICK allowed \in BOOLEAN :
              Decision(n, at, allowed) /\ worker' = [worker EXCEPT ![w] = Decided(n, allowed, at)]
        BY <1>14, <2>0 DEF Served
    <2>2. worker[w].pc = "stamped" /\ UNCHANGED <<main, records, collected>>
        BY <1>14 DEF Served
    <2>3. ~RecordsClosed /\ ~RecordsClosed'
        <3>1. ~RecordsClosed
            BY <2>2, WorkerIs DEF InOrder
        <3> QED BY <2>2, <3>1 DEF StageSets
    <2>4. /\ up[n] /\ UNCHANGED <<server, up>>
          /\ \A m \in Nodes : m # n => Book(m)' = Book(m)
          /\ Book(n) <= Book(n)'
          /\ allowed => Book(n) + Gap <= Book(n)' /\ Fits(Book(n)', at)
        BY <2>1, DecisionBooks
    <2>5. \A m \in Nodes : Serving(m)' => Serving(m) /\ Book(m) <= Book(m)'
        <3>1. \A m \in Nodes : Book(m) <= Book(m)'
            BY <2>4, BookType
        <3> QED BY <2>3, <2>4, <3>1 DEF Serving
    <2> DEFINE new == <<"hand", w>>
               v == Decided(n, allowed, at)
    <2>6. (Holds(v) <=> allowed) /\ HeldAt(v) = at
        BY DEF Holds, HeldAt, Decided
    <2>7. \A x \in Tokens :
              /\ x # new => (Live(x)' <=> Live(x)) /\ ArrivedAt(x)' = ArrivedAt(x)
              /\ x = new => (Live(x)' <=> Holds(v)) /\ ArrivedAt(x)' = HeldAt(v)
        BY <2>1, <2>2, HandMoves
    <2>8. new \in Tokens
        BY TokensAre
    <2> HIDE DEF new, v
    <2>9. CASE allowed
        <3>1. ArrivedAt(new)' = at
            BY <2>6, <2>7, <2>8
        <3>2. Fits(Book(n)', ArrivedAt(new)')
            BY <2>4, <2>9, <3>1
        <3>3. Serving(n)
            BY <2>3, <2>4 DEF Serving
        <3>4. \A x \in Tokens : Live(x)' /\ x # new => Live(x) /\ ArrivedAt(x)' = ArrivedAt(x)
            BY <2>7
        <3> QED BY <2>4, <2>5, <2>8, <2>9, <3>2, <3>3, <3>4, Issued
    <2>10. CASE ~allowed
        <3>1. \A x \in Tokens : Live(x)' => Live(x) /\ ArrivedAt(x)' = ArrivedAt(x)
            BY <2>6, <2>7, <2>10
        <3> QED BY <2>4, <2>5, <3>1, NothingMoves
    <2> QED BY <2>9, <2>10
<1>15. ASSUME NEW w \in Workers, Work(w) PROVE Booked'
    BY <1>11, <1>12, <1>13, <1>14, <1>15 DEF Work
<1> QED BY <1>4, <1>5, <1>6, <1>7, <1>9, <1>15, <1>16, <1>17 DEF Next, Probe, WindUp

LEMMA InitBooked == Init => WindowsWithin /\ Booked
<1> SUFFICES ASSUME Init PROVE WindowsWithin /\ Booked
    OBVIOUS
<1>1. Victim \in Nodes
    BY HarnessAssumption
<1>3. WindowsWithin
    BY ShareType DEF Init, WindowsWithin, Unserved
<1>4. \A x \in Tokens : ~Live(x)
    <2> TAKE x \in Tokens
    <2>1. FlowLen = 0
        BY DEF Init, FlowLen
    <2>2. CASE x[1] = "hand"
        <3>1. worker[x[2]] = Idle
            BY <2>2, TokensAre DEF Init
        <3> QED BY <2>2, <3>1 DEF Live, Holds, Idle
    <2>3. CASE x[1] # "hand"
        <3>1. x[2] \in 1 .. 0 => FALSE
            BY TokensAre
        <3> QED BY <2>1, <2>3, <3>1 DEF Live
    <2> QED BY <2>2, <2>3
<1>5. Ledger([x \in Tokens |-> Victim], [x \in Tokens |-> 0])
    BY <1>4 DEF Ledger
<1>6. /\ [x \in Tokens |-> Victim] \in [Tokens -> Nodes]
      /\ [x \in Tokens |-> 0] \in [Tokens -> Nat]
    BY <1>1
<1>7. Booked
    BY <1>5, <1>6 DEF Booked
<1> QED BY <1>3, <1>7

LEMMA BooksAlways == Spec => [](TypeOK /\ (InStep => Booked))
<1>1. TypeOK /\ InOrder /\ (WindowsWithin /\ (InStep => Booked)) /\ TypeOK' /\ [Next]_vars
          => (WindowsWithin /\ (InStep => Booked))'
    <2> SUFFICES ASSUME TypeOK, InOrder, WindowsWithin, InStep => Booked, TypeOK', [Next]_vars
                 PROVE  WindowsWithin' /\ (InStep' => Booked')
        OBVIOUS
    <2>1. WindowsWithin' /\ UNCHANGED server /\ (overtaken => overtaken')
        BY NextWindows
    <2>2. ASSUME InStep' PROVE Booked'
        <3>1. InStep
            BY <2>1, <2>2 DEF InStep
        <3> QED BY <2>2, <3>1, NextBooked
    <2> QED BY <2>1, <2>2
<1>2. Init => WindowsWithin /\ (InStep => Booked)
    BY InitBooked
<1>3. Spec => []InOrder
    <2>1. TypeOK /\ (Balance /\ InOrder) /\ [Next]_vars => (Balance /\ InOrder)'
        BY NextNothingLost
    <2> QED BY <2>1, InitNothingLost, HarnessTypeCorrect, PTL DEF Spec
<1> QED BY <1>1, <1>2, <1>3, HarnessTypeCorrect, PTL DEF Spec

\* Of the admissions collected, a set whose marks lie less than m gaps apart has
\* no more than m for each node.
LEMMA AdmissionsFit ==
    ASSUME TypeOK, Booked, NEW S \in SUBSET AdmittedRecords, NEW m \in Nat \ {0},
           \A i, j \in S : \A a, b \in Nat :
               Fits(a, collected[i].arrived) /\ Fits(b, collected[j].arrived) => a - b < m * Gap
    PROVE  Cardinality(S) <= m * NodeCount
<1>1. PICK node \in [Tokens -> Nodes], mark \in [Tokens -> Nat] : Ledger(node, mark)
    BY DEF Booked
<1>2. collected \in Seq(Record) /\ records \in Seq(Record)
    BY DEF TypeOK
<1>3. AdmittedRecords \subseteq 1 .. Len(collected) /\ IsFiniteSet(AdmittedRecords)
    BY <1>2, AnsweredAre DEF AdmittedRecords
<1>4. IsFiniteSet(S) /\ IsFiniteSet(Nodes)
    BY <1>3, FS_Subset, HarnessAssumption
<1>5. ASSUME NEW i \in S
      PROVE  /\ <<"past", i>> \in Tokens /\ Live(<<"past", i>>)
             /\ ArrivedAt(<<"past", i>>) = collected[i].arrived
    <2>1. i \in 1 .. Len(collected) /\ collected[i].kind = "admitted"
        BY <1>3 DEF AdmittedRecords, Answered
    <2>2. i \in 1 .. FlowLen /\ FlowAt(i) = collected[i]
        BY <1>2, <2>1 DEF FlowLen, FlowAt
    <2> QED BY <2>1, <2>2, TokensAre DEF Live, ArrivedAt
<1> DEFINE place == [i \in S |-> node[<<"past", i>>]]
           book == [i \in S |-> mark[<<"past", i>>]]
<1>6. place \in [S -> Nodes] /\ book \in [S -> Nat]
    BY <1>5
<1>7. ASSUME NEW i \in S, NEW j \in S, i # j, place[i] = place[j]
      PROVE  /\ book[i] + Gap <= book[j] \/ book[j] + Gap <= book[i]
             /\ book[i] - book[j] < m * Gap
    <2> DEFINE x == <<"past", i>>
               y == <<"past", j>>
    <2>1. x # y /\ x \in Tokens /\ y \in Tokens /\ Live(x) /\ Live(y)
        BY <1>5, <1>7
    <2>2. book[i] = mark[x] /\ book[j] = mark[y] /\ node[x] = node[y]
        BY <1>7
    <2>3. /\ Fits(mark[x], collected[i].arrived) /\ Fits(mark[y], collected[j].arrived)
          /\ mark[x] + Gap <= mark[y] \/ mark[y] + Gap <= mark[x]
        BY <1>1, <1>5, <2>1, <2>2 DEF Ledger
    <2>4. mark[x] \in Nat /\ mark[y] \in Nat
        BY <2>1
    <2> HIDE DEF x, y, place, book
    <2> QED BY <2>2, <2>3, <2>4
<1> HIDE DEF place, book
<1>8. Cardinality(S) <= m * Cardinality(Nodes)
    BY <1>4, <1>6, <1>7, GapType, MarksApart
<1> QED BY <1>8 DEF NodeCount

\* Admissions of the GCRA build that arrived less than a minute apart: the share
\* and the burst of each node.
LEMMA MinuteOfDecisions ==
    ASSUME TypeOK, Booked, server = "gcra", NEW S \in SUBSET AdmittedRecords,
           \A i, j \in S : collected[i].arrived - collected[j].arrived < Minute
    PROVE  Cardinality(S) <= (Share + Burst) * NodeCount
<1>1. /\ Gap \in Nat \ {0} /\ Share \in Nat \ {0} /\ Burst \in Nat /\ Minute \in Nat \ {0}
      /\ Share * Gap >= Minute
    BY GapType, ShareType, CeilEmissionCovers, HarnessAssumption DEF Gap
<1>2. /\ (Share + Burst) * Gap = Share * Gap + Burst * Gap
      /\ Share * Gap \in Nat /\ Burst * Gap \in Nat
    BY <1>1
<1>3. ASSUME NEW i \in S, NEW j \in S, NEW a \in Nat, NEW b \in Nat,
             Fits(a, collected[i].arrived), Fits(b, collected[j].arrived)
      PROVE  a - b < (Share + Burst) * Gap
    <2>1. collected[i].arrived \in Nat /\ collected[j].arrived \in Nat
        BY AnsweredAre, TimesAre DEF AdmittedRecords, TypeOK
    <2>2. /\ a <= collected[i].arrived + Gap + Burst * Gap /\ collected[j].arrived + Gap <= b
        BY <1>3 DEF Fits
    <2>3. collected[i].arrived - collected[j].arrived < Minute
        OBVIOUS
    <2> QED BY <1>1, <1>2, <2>1, <2>2, <2>3
<1>4. Share + Burst \in Nat \ {0}
    BY <1>1
<1> QED BY <1>3, <1>4, AdmissionsFit

\* The limiter is never to blame for a FAIL: where the limit was probed, answers
\* to requests that arrived a minute or more apart were received within one.
THEOREM FailuresHaveACause == Spec => []FailNeedsCause
<1>1. ASSUME TypeOK, InStep => Booked PROVE FailNeedsCause
    <2> SUFFICES ASSUME Fails, server = "gcra", probe.limit = Limit
                 PROVE  \E i, j \in AdmittedRecords :
                            /\ collected[j].arrived - collected[i].arrived >= Minute
                            /\ collected[j].received - collected[i].received <= Minute
        BY DEF FailNeedsCause
    <2>0. Booked
        BY <1>1 DEF InStep
    <2>1. collected \in Seq(Record) /\ SafetyBound(Limit) = (Share + Burst) * NodeCount
          /\ SafetyBound(Limit) \in Nat
        BY <1>1, BoundIs DEF TypeOK
    <2>2. PICK t \in Times : Cardinality(Received(collected, t)) > SafetyBound(Limit)
        BY <2>1, MaxRollingExceeds DEF Fails
    <2> DEFINE S == Received(collected, t)
    <2>3. S \in SUBSET AdmittedRecords /\ IsFiniteSet(S) /\ Cardinality(S) \in Nat
        <3>1. S \in SUBSET AdmittedRecords /\ IsFiniteSet(AdmittedRecords)
            BY <2>1, AnsweredAre DEF Received, AdmittedRecords
        <3> QED BY <3>1, FS_Subset, FS_CardinalityType
    <2>4. ~ \A i, j \in S : collected[i].arrived - collected[j].arrived < Minute
        <3> HIDE DEF S
        <3>1. ~ Cardinality(S) <= (Share + Burst) * NodeCount
            BY <2>1, <2>2, <2>3 DEF S
        <3> QED BY <1>1, <2>0, <2>3, <3>1, MinuteOfDecisions
    <2>5. PICK i \in S, j \in S : ~(collected[i].arrived - collected[j].arrived < Minute)
        BY <2>4
    <2>6. /\ collected[i].arrived \in Nat /\ collected[j].arrived \in Nat
          /\ collected[i].received \in Nat /\ collected[j].received \in Nat
          /\ i \in AdmittedRecords /\ j \in AdmittedRecords
        <3>1. i \in Answered(collected) /\ j \in Answered(collected)
            BY <2>3 DEF AdmittedRecords
        <3> QED BY <2>1, <3>1, AnsweredAre, TimesAre DEF AdmittedRecords
    <2>7. collected[i].received - collected[j].received <= Minute
        <3>1. /\ collected[i].received <= t + Minute /\ t <= collected[j].received
            BY DEF Received
        <3> QED BY <2>6, <3>1, TimesAre, HarnessAssumption
    <2>8. collected[i].arrived - collected[j].arrived >= Minute
        BY <2>5, <2>6, HarnessAssumption
    <2> QED BY <2>6, <2>7, <2>8
<1> QED BY <1>1, BooksAlways, PTL

\* As long as no request is overtaken on its way to the limiter, the fixed-window
\* build admits up to twice its shares in a minute and no more: a minute meets two
\* of its windows, and each is counted once.
THEOREM FixedWindowTwiceInOrder == Spec => []TwiceUnlessOvertaken
<1>1. ASSUME TypeOK, InStep => Booked PROVE TwiceUnlessOvertaken
    <2> SUFFICES ASSUME server = "fixedwindow", ~overtaken, NEW t \in Times
                 PROVE  ArrivedBefore(t) <= 2 * Share * NodeCount
        BY DEF TwiceUnlessOvertaken
    <2>0. Booked
        BY <1>1 DEF InStep
    <2> DEFINE S == {i \in AdmittedRecords :
                        t - Minute < collected[i].arrived /\ collected[i].arrived <= t}
    <2>1. Gap = 1 /\ Share \in Nat \ {0} /\ Minute \in Nat \ {0} /\ t \in Nat
        BY ShareType, HarnessAssumption, TimesAre DEF Gap
    <2>2. ASSUME NEW i \in S, NEW j \in S, NEW a \in Nat, NEW b \in Nat,
                 Fits(a, collected[i].arrived), Fits(b, collected[j].arrived)
          PROVE  a - b < (2 * Share) * Gap
        <3> DEFINE p == collected[i].arrived \div Minute
                   q == collected[j].arrived \div Minute
        <3>1. collected[i].arrived \in Nat /\ collected[j].arrived \in Nat
            BY <1>1, AnsweredAre, TimesAre DEF AdmittedRecords, TypeOK
        <3>2. collected[i].arrived < collected[j].arrived + Minute
            BY <2>1, <3>1
        <3>3. p \in Nat /\ q \in Nat /\ p <= q + 1
            BY <2>1, <3>1, <3>2, DivNext, DivStep
        <3>4. a <= p * Share + Share /\ q * Share < b
            BY <2>2 DEF Fits
        <3> HIDE DEF p, q
        <3>5. /\ p * Share <= (q + 1) * Share /\ (q + 1) * Share = q * Share + Share
              /\ p * Share \in Nat /\ q * Share \in Nat
            <4> DEFINE d == q + 1 - p
            <4>1. d \in Nat /\ q + 1 = p + d
                BY <3>3
            <4> HIDE DEF d
            <4>2. (p + d) * Share = p * Share + d * Share /\ d * Share \in Nat
                BY <2>1, <3>3, <4>1
            <4> QED BY <2>1, <3>3, <4>1, <4>2
        <3> QED BY <2>1, <3>4, <3>5
    <2>3. 2 * Share \in Nat \ {0} /\ S \in SUBSET AdmittedRecords
        BY <2>1
    <2> HIDE DEF S
    <2>4. Cardinality(S) <= (2 * Share) * NodeCount
        BY <1>1, <2>0, <2>2, <2>3, AdmissionsFit
    <2> QED BY <2>4 DEF S, ArrivedBefore
<1> QED BY <1>1, BooksAlways, PTL
===============================================================================
