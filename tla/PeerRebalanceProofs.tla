-------------------------- MODULE PeerRebalanceProofs --------------------------
(***************************************************************************)
(* Theorems about the rebalancer of module PeerRebalance, for any number   *)
(* of nodes, any limits and any bounds.                                    *)
(*                                                                         *)
(*   TypeCorrect     Spec => []TypeOK, under every fault                   *)
(*   FencesHold      Spec => FencesOnlyRise, under every fault             *)
(*   RoundsLandInOrder  Spec => StaleNeverLands, when no call outlives the *)
(*                   wait for its answer and no node restarts              *)
(*   QuotaSafe       Spec => []SharesWithinReserve, when calls and answers *)
(*                   may be lost but nothing worse happens                 *)
(***************************************************************************)
EXTENDS PeerRebalance, Functions, FiniteSetTheorems, TLAPS

-----------------------------------------------------------------------------
\* Totals of shares (module QuotaUnits)

\* The quota units of a split over finitely many nodes are finitely many.
LEMMA UnitsFinite ==
    ASSUME NEW S, IsFiniteSet(S), NEW f \in [S -> Nat]
    PROVE  IsFiniteSet(Units(f)) /\ Total(f) \in Nat
<1> DEFINE Slice(n) == {n} \X (1 .. f[n])
           Slices == {Slice(n) : n \in S}
           cut == [n \in S |-> Slice(n)]
<1>1. cut \in Surjection(S, Slices)
    BY DEF Surjection
<1>2. IsFiniteSet(Slices)
    BY <1>1, FS_Surjection
<1>3. \A T \in Slices : IsFiniteSet(T)
    <2> SUFFICES ASSUME NEW n \in S PROVE IsFiniteSet(Slice(n))
        OBVIOUS
    <2>1. IsFiniteSet({n})
        BY FS_Singleton
    <2>2. IsFiniteSet(1 .. f[n])
        BY FS_Interval
    <2> QED BY <2>1, <2>2, FS_Product
<1>4. Units(f) = UNION Slices
    BY DEF Units
<1>5. IsFiniteSet(Units(f))
    BY <1>2, <1>3, <1>4, FS_UNION
<1> QED BY <1>5, FS_CardinalityType DEF Total

\* A split that gives every node no more than another has no larger total.
LEMMA TotalMonotone ==
    ASSUME NEW S, IsFiniteSet(S), NEW f \in [S -> Nat], NEW g \in [S -> Nat],
           \A n \in S : f[n] <= g[n]
    PROVE  Total(f) <= Total(g)
<1>1. Units(f) \subseteq Units(g)
    <2> SUFFICES ASSUME NEW n \in S, NEW u \in {n} \X (1 .. f[n])
                 PROVE  u \in {n} \X (1 .. g[n])
        BY DEF Units
    <2> QED BY f[n] <= g[n]
<1> QED BY <1>1, UnitsFinite, FS_Subset DEF Total

\* An even split has the total one expects.
LEMMA TotalConstant ==
    ASSUME NEW S, IsFiniteSet(S), NEW c \in Nat
    PROVE  Total([n \in S |-> c]) = Cardinality(S) * c
<1>1. Units([n \in S |-> c]) = S \X (1 .. c)
    BY DEF Units
<1>2. IsFiniteSet(1 .. c) /\ Cardinality(1 .. c) = c
    BY FS_Interval
<1> QED BY <1>1, <1>2, FS_Product DEF Total

\* Division rounded up stays within the number divided.
LEMMA CeilingWithin ==
    ASSUME NEW l \in Nat \ {0}, NEW k \in Nat \ {0}
    PROVE  (l + k - 1) \div k \in 1 .. l
OBVIOUS

\* Handing everyone the share rounded up costs less than one unit each.
LEMMA CeilingSlack ==
    ASSUME NEW l \in Nat \ {0}, NEW k \in Nat \ {0}
    PROVE  k * ((l + k - 1) \div k) <= l + k - 1
OBVIOUS

-----------------------------------------------------------------------------
\* Shares

\* The even share of a limit is a share: it lies between 1 and the limit.
LEMMA NodeShareType == \A l \in Limits : NodeShare(l) \in Shares /\ NodeShare(l) \in Nat \ {0}
<1> SUFFICES ASSUME NEW l \in Limits
             PROVE  NodeShare(l) \in Shares /\ NodeShare(l) \in Nat \ {0}
    OBVIOUS
<1>1. NodeShare(l) \in 1 .. l
    BY CeilingWithin, LimitsAssumption, CountAssumption DEF NodeShare
<1>2. NodeShare(l) \in Nat \ {0} /\ NodeShare(l) \in 0 .. l
    BY <1>1, LimitsAssumption
<1>3. 0 .. l \subseteq Shares
    BY DEF Shares
<1> QED BY <1>2, <1>3

LEMMA SharesAreNat == Shares \subseteq Nat /\ 0 \in Shares /\ 1 \in Shares
<1>1. Shares \subseteq Nat
    BY LimitsAssumption DEF Shares
<1>2. PICK l \in Limits : TRUE
    BY LimitsAssumption
<1>3. 0 .. l \subseteq Shares
    BY DEF Shares
<1>4. 0 \in 0 .. l /\ 1 \in 0 .. l
    BY LimitsAssumption
<1> QED BY <1>1, <1>3, <1>4

-----------------------------------------------------------------------------
(***************************************************************************)
(* Type correctness.  A round's number stays within its bound because the  *)
(* ticker stops at the bound, and nobody but the proposer's goroutine      *)
(* raises the proposer's fence: no call is sent to the proposer.           *)
(***************************************************************************)
RoundsInBound == phase = "poll" => lastApplied[Proposer] < MaxRound
NoCallToProposer == \A m \in net : m.to # Proposer

TypeInv == TypeOK /\ RoundsInBound /\ NoCallToProposer

LEMMA InitTypeInv == Init => TypeInv
<1> SUFFICES ASSUME Init PROVE TypeInv
    OBVIOUS
<1> USE NodesAssumption, LimitsAssumption, BoundsAssumption, SharesAreNat
<1>1. NoStatus \in [Nodes -> Status]
    BY DEF NoStatus, Status, Answers
<1> QED BY <1>1 DEF Init, TypeInv, TypeOK, RoundsInBound, NoCallToProposer, NoSplit, Rounds

\* What every way out of a tick leaves behind is well typed.
LEMMA EndTickType ==
    ASSUME EndTick
    PROVE  /\ phase' = "idle" /\ status' \in [Nodes -> Status]
           /\ current' \in [Nodes -> Shares] /\ target' \in [Nodes -> Shares]
           /\ todo' \subseteq Nodes /\ shrinkOK' \in BOOLEAN /\ round' \in Rounds
BY NodesAssumption, LimitsAssumption, BoundsAssumption, SharesAreNat
   DEF EndTick, NoStatus, NoSplit, Status, Answers, Rounds

\* A polled limit is a limit of the customer.
LEMMA KnownLimitType == TypeOK => KnownLimit \in Limits \cup {0}
BY NodesAssumption DEF TypeOK, KnownLimit, Status

\* The shares a round assumes are shares.
LEMMA AssumedType ==
    ASSUME TypeOK, KnownLimit > 0
    PROVE  Assumed \in [Nodes -> Shares]
<1>1. KnownLimit \in Limits
    BY KnownLimitType, LimitsAssumption
<1>2. NodeShare(KnownLimit) \in Shares
    BY <1>1, NodeShareType
<1>3. \A n \in Nodes : status[n].share \in Shares
    BY DEF TypeOK, Status
<1> QED BY <1>2, <1>3, SharesAreNat DEF Assumed

\* A target of a round is a split into shares.
LEMMA SplitType ==
    ASSUME NEW l \in Limits, NEW S, NEW t \in Splits(S, l)
    PROVE  t \in [Nodes -> Shares] /\ t \in [Nodes -> Nat] /\ Total(t) = l
BY LimitsAssumption DEF Splits, Shares

\* Moving a call on, or giving up on it, yields calls.
LEMMA CallUpdateType ==
    ASSUME NEW m \in Call, NEW s \in Stages
    PROVE  /\ [m EXCEPT !.stage = s] \in Call /\ [m EXCEPT !.stage = s].to = m.to
           /\ [m EXCEPT !.awaited = FALSE] \in Call /\ [m EXCEPT !.awaited = FALSE].to = m.to
BY DEF Call

LEMMA AdvanceType ==
    ASSUME NEW m \in net, NEW s \in Stages, net \subseteq Call, NoCallToProposer, Advance(m, s)
    PROVE  net' \subseteq Call /\ NoCallToProposer'
<1>1. [m EXCEPT !.stage = s] \in Call /\ [m EXCEPT !.stage = s].to = m.to
    BY CallUpdateType
<1>2. \A c \in net' : c \in net \/ c = [m EXCEPT !.stage = s]
    BY DEF Advance
<1> QED BY <1>1, <1>2 DEF NoCallToProposer

LEMMA NextTypeInv == TypeInv /\ [Next]_vars => TypeInv'
<1> SUFFICES ASSUME TypeInv, [Next]_vars PROVE TypeInv'
    OBVIOUS
<1> USE NodesAssumption, LimitsAssumption, CountAssumption, BoundsAssumption, SharesAreNat
<1> USE DEF TypeInv
<1>1. CASE UNCHANGED vars
    BY <1>1 DEF vars, TypeOK, RoundsInBound, NoCallToProposer
<1>2. ASSUME NEW n \in Nodes, Allow(n) PROVE TypeInv'
    BY <1>2, NodeShareType DEF Allow, TypeOK, RoundsInBound, NoCallToProposer, roundVars
<1>3. CASE Tick
    BY <1>3 DEF Tick, TypeOK, RoundsInBound, NoCallToProposer, nodeVars, roundVars
<1>4. ASSUME NEW n \in Nodes, PollNode(n) PROVE TypeInv'
    BY <1>4 DEF PollNode, TypeOK, RoundsInBound, NoCallToProposer, nodeVars, roundVars, Status, Answers
<1>5. ASSUME NEW n \in Nodes, PollFails(n) PROVE TypeInv'
    BY <1>5 DEF PollFails, TypeOK, RoundsInBound, NoCallToProposer, nodeVars, roundVars, Status, Answers
<1>6. ASSUME EndTick, UNCHANGED <<limit, nodeVars, net>> PROVE TypeInv'
    BY <1>6, EndTickType DEF TypeOK, RoundsInBound, NoCallToProposer, nodeVars
<1>7. ASSUME NEW t \in Splits(Reachable, KnownLimit), StartRound(t) PROVE TypeInv'
    <2>1. KnownLimit \in Limits
        BY <1>7, KnownLimitType DEF StartRound
    <2>2. t \in [Nodes -> Shares] /\ Assumed \in [Nodes -> Shares]
        BY <1>7, <2>1, SplitType, AssumedType DEF StartRound
    <2>3. lastApplied[Proposer] + 1 \in Rounds
        BY <1>7 DEF StartRound, RoundsInBound, TypeOK, Rounds
    <2>4. NoStatus \in [Nodes -> Status]
        BY DEF NoStatus, Status, Answers
    <2>5. {n \in Reachable : t[n] < Assumed[n]} \subseteq Nodes
        BY DEF Reachable
    <2> QED BY <1>7, <2>1, <2>2, <2>3, <2>4, <2>5
            DEF StartRound, TypeOK, RoundsInBound, NoCallToProposer
<1>8. ASSUME NEW n \in Nodes, SendShare(n) PROVE TypeInv'
    <2>1. [to |-> n, round |-> round, quota |-> target[n], stage |-> "sent", awaited |-> TRUE] \in Call
        BY DEF TypeOK, Call, Stages
    <2>2. PICK c \in Call : c.to = n /\ net' = net \cup {c}
        BY <1>8, <2>1, Zenon DEF SendShare
    <2>3. net' \subseteq Call /\ NoCallToProposer'
        BY <1>8, <2>2 DEF SendShare, TypeOK, NoCallToProposer
    <2> QED BY <1>8, <2>3 DEF SendShare, TypeOK, RoundsInBound, nodeVars, roundVars
<1>9. CASE ApplyLocal
    BY <1>9 DEF ApplyLocal, Turn, TypeOK, RoundsInBound, NoCallToProposer
<1>10. ASSUME NEW m \in net, Ack(m) PROVE TypeInv'
    BY <1>10 DEF Ack, TypeOK, RoundsInBound, NoCallToProposer, nodeVars
<1>11. ASSUME NEW m \in net, NEW rest, rest \subseteq {[m EXCEPT !.awaited = FALSE]}, GiveUp(m, rest)
       PROVE  TypeInv'
    <2>1. m \in Call /\ m.to # Proposer
        BY DEF TypeOK, NoCallToProposer
    <2>2. rest \subseteq Call /\ \A c \in rest : c.to # Proposer
        <3>1. "sent" \in Stages
            BY DEF Stages
        <3> QED BY <1>11, <2>1, <3>1, CallUpdateType
    <2> QED BY <1>11, <2>2 DEF GiveUp, TypeOK, RoundsInBound, NoCallToProposer, nodeVars
<1>12. CASE BeginGrow
    BY <1>12 DEF BeginGrow, TypeOK, RoundsInBound, NoCallToProposer, nodeVars
<1>13. ASSUME NEW m \in net, Enter(m) PROVE TypeInv'
    <2>1. net' \subseteq Call /\ NoCallToProposer'
        BY <1>13, AdvanceType DEF Enter, TypeOK, Stages
    <2> QED BY <1>13, <2>1 DEF Enter, TypeOK, RoundsInBound, roundVars
<1>14. ASSUME NEW m \in net, Fence(m) PROVE TypeInv'
    <2>1. net' \subseteq Call /\ NoCallToProposer'
        BY <1>14, AdvanceType DEF Fence, TypeOK, Stages
    <2>2. m.round \in Rounds /\ m.to # Proposer
        BY DEF TypeOK, Call, NoCallToProposer
    <2> QED BY <1>14, <2>1, <2>2 DEF Fence, TypeOK, RoundsInBound, roundVars
<1>15. ASSUME NEW m \in net, Refuse(m) PROVE TypeInv'
    <2>1. net' \subseteq Call /\ NoCallToProposer'
        BY <1>15, AdvanceType DEF Refuse, TypeOK, Stages
    <2> QED BY <1>15, <2>1 DEF Refuse, TypeOK, RoundsInBound, nodeVars, roundVars
<1>16. ASSUME NEW m \in net, SetQuota(m) PROVE TypeInv'
    <2>1. net' \subseteq Call /\ NoCallToProposer'
        BY <1>16, AdvanceType DEF SetQuota, TypeOK, Stages
    <2>2. m.quota \in Shares
        BY DEF TypeOK, Call
    <2> QED BY <1>16, <2>1, <2>2 DEF SetQuota, TypeOK, RoundsInBound, roundVars
<1>17. ASSUME NEW n \in Nodes, Restart(n) PROVE TypeInv'
    <2>1. CallsAfterRestart(n) \subseteq Call /\ \A c \in CallsAfterRestart(n) : c.to # Proposer
        <3> DEFINE Dead(m) == [m EXCEPT !.stage = "lost"]
                   Alone(m) == [m EXCEPT !.awaited = FALSE]
        <3>1. \A m \in net : /\ m \in Call /\ m.to # Proposer
                             /\ Dead(m) \in Call /\ Dead(m).to = m.to
                             /\ Alone(m) \in Call /\ Alone(m).to = m.to
            <4>1. "lost" \in Stages
                BY DEF Stages
            <4> QED BY <4>1, CallUpdateType DEF TypeOK, NoCallToProposer
        <3>2. \A c \in CallsAfterRestart(n) : \E m \in net : c = m \/ c = Dead(m) \/ c = Alone(m)
            BY Zenon DEF CallsAfterRestart
        <3> HIDE DEF Dead, Alone
        <3> QED BY <3>1, <3>2
    <2>2. /\ phase' \in {"idle", "poll", "shrink", "grow"} /\ status' \in [Nodes -> Status]
          /\ current' \in [Nodes -> Shares] /\ target' \in [Nodes -> Shares]
          /\ todo' \subseteq Nodes /\ shrinkOK' \in BOOLEAN /\ round' \in Rounds
        <3>1. CASE n = Proposer
            BY <1>17, <3>1, EndTickType DEF Restart
        <3>2. CASE n # Proposer
            BY <1>17, <3>2 DEF Restart, TypeOK, roundVars
        <3> QED BY <3>1, <3>2
    <2>3. RoundsInBound'
        <3>1. CASE n = Proposer
            BY <1>17, <3>1 DEF Restart, EndTick, RoundsInBound
        <3>2. CASE n # Proposer
            BY <1>17, <3>2 DEF Restart, RoundsInBound, TypeOK, roundVars
        <3> QED BY <3>1, <3>2
    <2>4. /\ limit' \in Limits /\ known' \in [Nodes -> BOOLEAN] /\ share' \in [Nodes -> Shares]
          /\ globalLimit' \in [Nodes -> Limits \cup {0}] /\ lastApplied' \in [Nodes -> Rounds]
        BY <1>17 DEF Restart, TypeOK, Rounds
    <2>5. net' \subseteq Call /\ NoCallToProposer'
        BY <1>17, <2>1 DEF Restart, NoCallToProposer
    <2> QED BY <2>2, <2>3, <2>4, <2>5 DEF TypeOK
<1>18. ASSUME NEW l \in Limits, ChangeLimit(l) PROVE TypeInv'
    BY <1>18 DEF ChangeLimit, TypeOK, RoundsInBound, NoCallToProposer, nodeVars, roundVars
<1>19. CASE RoundStep
    <2>1. ASSUME NEW m \in net, TimeoutLost(m) PROVE TypeInv'
        BY <2>1, <1>11 DEF TimeoutLost
    <2> QED BY <1>19, <2>1, <1>4, <1>6, <1>7, <1>8, <1>9, <1>10, <1>12
            DEF RoundStep, SkipRound, AbandonRound, FinishRound
<1>20. ASSUME NEW m \in net, TimeoutLate(m) PROVE TypeInv'
    BY <1>20, <1>11 DEF TimeoutLate
<1> QED BY <1>1, <1>2, <1>3, <1>5, <1>13, <1>14, <1>15, <1>16, <1>17, <1>18, <1>19, <1>20
        DEF Next, Handle

\* Every variable keeps its type, whatever goes wrong.
THEOREM TypeCorrect == Spec => []TypeOK
<1>1. Spec => []TypeInv
    BY InitTypeInv, NextTypeInv, PTL DEF Spec
<1> QED BY <1>1, PTL DEF TypeInv

-----------------------------------------------------------------------------
(***************************************************************************)
(* Fences only rise, under every fault.  The fences of the peers do because *)
(* their handlers compare; the proposer's own does because nobody else     *)
(* raises it during a round.  A fence stands for an entry: a node that has *)
(* one knows the customer, and so does one with a handler at work.         *)
(***************************************************************************)
FencedKnown == \A n \in Nodes : lastApplied[n] = 0 \/ known[n]
WorkKnown == \A m \in net : m.stage \in {"entered", "fenced"} => known[m.to]
SeenKnown == status[Proposer].answer = "seen" => known[Proposer]
RoundAhead == phase \in {"shrink", "grow"} => known[Proposer] /\ lastApplied[Proposer] <= round

FenceInv == FencedKnown /\ WorkKnown /\ SeenKnown /\ RoundAhead

Risen == \A n \in Nodes : lastApplied'[n] >= lastApplied[n] \/ (known[n] /\ ~known'[n])

LEMMA InitFenceInv == Init => FenceInv
BY NodesAssumption
   DEF Init, FenceInv, FencedKnown, WorkKnown, SeenKnown, RoundAhead, NoSplit, NoStatus

\* The calls a handler's step leaves: the old ones and the one moved on.
LEMMA AdvanceKnown ==
    ASSUME NEW m \in net, NEW s \in Stages, net \subseteq Call, WorkKnown, Advance(m, s),
           \A n \in Nodes : known[n] => known'[n],
           s \in {"entered", "fenced"} => known'[m.to]
    PROVE  WorkKnown'
<1>1. [m EXCEPT !.stage = s] \in Call /\ [m EXCEPT !.stage = s].to = m.to
      /\ [m EXCEPT !.stage = s].stage = s
    BY DEF Call
<1>2. \A c \in net' : c \in net \/ c = [m EXCEPT !.stage = s]
    BY DEF Advance
<1>3. \A c \in net : c.to \in Nodes
    BY DEF Call
<1> QED BY <1>1, <1>2, <1>3 DEF WorkKnown

\* A step that leaves the nodes alone leaves their fences.
LEMMA StillRisen == TypeInv /\ UNCHANGED lastApplied => Risen
BY DEF Risen, TypeInv, TypeOK, Rounds

LEMMA NextFenceInv == TypeInv /\ FenceInv /\ [Next]_vars => FenceInv' /\ Risen
<1> SUFFICES ASSUME TypeInv, FenceInv, [Next]_vars PROVE FenceInv' /\ Risen
    OBVIOUS
<1> USE NodesAssumption
<1> USE DEF FenceInv
<1>1. CASE UNCHANGED vars
    BY <1>1, StillRisen DEF vars, nodeVars, roundVars, FencedKnown, WorkKnown, SeenKnown, RoundAhead
<1>2. ASSUME NEW n \in Nodes, Allow(n) PROVE FenceInv' /\ Risen
    <2>1. \A k \in Nodes : known[k] => known'[k]
        BY <1>2 DEF Allow, TypeInv, TypeOK
    <2>2. \A m \in net : m.to \in Nodes
        BY DEF TypeInv, TypeOK, Call
    <2> QED BY <1>2, <2>1, <2>2, StillRisen
            DEF Allow, roundVars, FencedKnown, WorkKnown, SeenKnown, RoundAhead
<1>3. CASE Tick
    BY <1>3, StillRisen DEF Tick, nodeVars, roundVars, FencedKnown, WorkKnown, SeenKnown, RoundAhead
<1>4. ASSUME NEW n \in Nodes, PollNode(n) \/ PollFails(n) PROVE FenceInv' /\ Risen
    <2>1. SeenKnown'
        BY <1>4 DEF PollNode, PollFails, nodeVars, SeenKnown, TypeInv, TypeOK, Status
    <2>2. phase = "poll" /\ UNCHANGED <<known, lastApplied, phase, net>>
        BY <1>4 DEF PollNode, PollFails, nodeVars
    <2> QED BY <2>1, <2>2, StillRisen DEF FencedKnown, WorkKnown, RoundAhead
<1>5. ASSUME EndTick, UNCHANGED <<limit, nodeVars, net>> PROVE FenceInv' /\ Risen
    BY <1>5, StillRisen
       DEF EndTick, nodeVars, NoStatus, FencedKnown, WorkKnown, SeenKnown, RoundAhead
<1>6. ASSUME NEW t \in Splits(Reachable, KnownLimit), StartRound(t) PROVE FenceInv' /\ Risen
    <2>1. known[Proposer]
        BY <1>6 DEF StartRound, KnownLimit, SeenKnown
    <2>2. lastApplied[Proposer] <= round' /\ UNCHANGED <<known, lastApplied, net>>
        BY <1>6 DEF StartRound, TypeInv, TypeOK, Rounds
    <2>3. status' = NoStatus
        BY <1>6 DEF StartRound
    <2> QED BY <2>1, <2>2, <2>3, StillRisen
            DEF NoStatus, FencedKnown, WorkKnown, SeenKnown, RoundAhead
<1>7. ASSUME NEW n \in Nodes, SendShare(n) PROVE FenceInv' /\ Risen
    <2> DEFINE call == [to |-> n, round |-> round, quota |-> target[n],
                        stage |-> "sent", awaited |-> TRUE]
    <2>1. net' = net \cup {call} /\ call.stage = "sent"
        BY <1>7 DEF SendShare
    <2> HIDE DEF call
    <2>2. UNCHANGED <<known, lastApplied, phase, status, round>>
        BY <1>7 DEF SendShare, nodeVars, roundVars
    <2> QED BY <2>1, <2>2, StillRisen DEF FencedKnown, WorkKnown, SeenKnown, RoundAhead
<1>8. CASE ApplyLocal
    <2>1. /\ lastApplied' = [lastApplied EXCEPT ![Proposer] = round]
          /\ lastApplied[Proposer] <= round /\ known[Proposer]
          /\ UNCHANGED <<known, phase, status, round, net>>
        BY <1>8 DEF ApplyLocal, Turn, RoundAhead
    <2>2. lastApplied \in [Nodes -> Nat] /\ round \in Nat
        BY DEF TypeInv, TypeOK, Rounds
    <2> QED BY <2>1, <2>2 DEF FencedKnown, WorkKnown, SeenKnown, RoundAhead, Risen
<1>9. ASSUME NEW m \in net, Ack(m) PROVE FenceInv' /\ Risen
    BY <1>9, StillRisen DEF Ack, nodeVars, FencedKnown, WorkKnown, SeenKnown, RoundAhead
<1>10. ASSUME NEW m \in net, NEW rest, rest \subseteq {[m EXCEPT !.awaited = FALSE]}, GiveUp(m, rest)
       PROVE  FenceInv' /\ Risen
    <2>1. [m EXCEPT !.awaited = FALSE].stage = m.stage /\ [m EXCEPT !.awaited = FALSE].to = m.to
        BY DEF TypeInv, TypeOK, Call
    <2>2. net' = (net \ {m}) \cup rest /\ UNCHANGED <<known, lastApplied, phase, status, round>>
        BY <1>10 DEF GiveUp, nodeVars
    <2> QED BY <1>10, <2>1, <2>2, StillRisen DEF FencedKnown, WorkKnown, SeenKnown, RoundAhead
<1>11. CASE BeginGrow
    BY <1>11, StillRisen DEF BeginGrow, nodeVars, FencedKnown, WorkKnown, SeenKnown, RoundAhead
<1>12. ASSUME NEW m \in net, Enter(m) PROVE FenceInv' /\ Risen
    <2>1. m.to \in Nodes /\ net \subseteq Call /\ "entered" \in Stages
        BY DEF TypeInv, TypeOK, Call, Stages
    <2>2. (\A n \in Nodes : known[n] => known'[n]) /\ known'[m.to]
        BY <1>12, <2>1 DEF Enter, TypeInv, TypeOK
    <2>3. WorkKnown'
        BY <1>12, <2>1, <2>2, AdvanceKnown DEF Enter
    <2> QED BY <1>12, <2>2, <2>3, StillRisen DEF Enter, roundVars, FencedKnown, SeenKnown, RoundAhead
<1>13. ASSUME NEW m \in net, Fence(m) PROVE FenceInv' /\ Risen
    <2>1. m.to \in Nodes \ {Proposer} /\ m.round \in Nat /\ net \subseteq Call /\ "fenced" \in Stages
        BY DEF TypeInv, TypeOK, NoCallToProposer, Call, Stages, Rounds
    <2>2. known[m.to] /\ UNCHANGED <<known, phase, status, round>>
        BY <1>13 DEF Fence, WorkKnown, roundVars
    <2>3. WorkKnown'
        BY <1>13, <2>1, <2>2, AdvanceKnown DEF Fence
    <2>4. /\ lastApplied' = [lastApplied EXCEPT ![m.to] = m.round] /\ m.round > lastApplied[m.to]
          /\ lastApplied \in [Nodes -> Nat]
        BY <1>13 DEF Fence, TypeInv, TypeOK, Rounds
    <2> QED BY <2>1, <2>2, <2>3, <2>4 DEF FencedKnown, SeenKnown, RoundAhead, Risen
<1>14. ASSUME NEW m \in net, NEW s \in {"stale", "applied"}, Advance(m, s),
              UNCHANGED <<known, lastApplied, phase, status, round>>
       PROVE  FenceInv' /\ Risen
    <2>1. net \subseteq Call /\ s \in Stages /\ s \notin {"entered", "fenced"}
        BY DEF TypeInv, TypeOK, Stages
    <2>2. WorkKnown'
        BY <1>14, <2>1, AdvanceKnown
    <2> QED BY <1>14, <2>2, StillRisen DEF FencedKnown, SeenKnown, RoundAhead
<1>15. ASSUME NEW n \in Nodes, Restart(n) PROVE FenceInv' /\ Risen
    <2>1. /\ known' = [known EXCEPT ![n] = FALSE] /\ lastApplied' = [lastApplied EXCEPT ![n] = 0]
          /\ known \in [Nodes -> BOOLEAN] /\ lastApplied \in [Nodes -> Nat]
        BY <1>15 DEF Restart, TypeInv, TypeOK, Rounds
    <2>2. FencedKnown' /\ Risen
        BY <2>1 DEF FencedKnown, Risen
    <2>3. SeenKnown' /\ RoundAhead'
        <3>1. CASE n = Proposer
            BY <1>15, <3>1 DEF Restart, EndTick, NoStatus, SeenKnown, RoundAhead
        <3>2. CASE n # Proposer
            BY <1>15, <2>1, <3>2 DEF Restart, roundVars, SeenKnown, RoundAhead
        <3> QED BY <3>1, <3>2
    <2>4. WorkKnown'
        <3> SUFFICES ASSUME NEW c \in net', c.stage \in {"entered", "fenced"}
                     PROVE  known'[c.to]
            BY DEF WorkKnown
        <3>1. c \in CallsAfterRestart(n)
            BY <1>15 DEF Restart
        <3>2. \A m \in net : m.to \in Nodes \ {Proposer}
            BY DEF TypeInv, TypeOK, NoCallToProposer, Call
        <3>3. CASE n = Proposer
            <4>1. PICK m \in net : c = [m EXCEPT !.awaited = FALSE]
                BY <3>1, <3>3 DEF CallsAfterRestart
            <4>2. c.stage = m.stage /\ c.to = m.to
                BY <4>1 DEF TypeInv, TypeOK, Call
            <4> QED BY <2>1, <3>2, <3>3, <4>2 DEF WorkKnown
        <3>4. CASE n # Proposer
            <4>1. \A m \in net : [m EXCEPT !.stage = "lost"].stage = "lost"
                BY DEF TypeInv, TypeOK, Call
            <4>2. c \in net /\ c.to # n
                BY <3>1, <3>4, <4>1, Zenon DEF CallsAfterRestart
            <4> QED BY <2>1, <3>2, <4>2 DEF WorkKnown
        <3> QED BY <3>3, <3>4
    <2> QED BY <2>2, <2>3, <2>4
<1>16. ASSUME NEW l \in Limits, ChangeLimit(l) PROVE FenceInv' /\ Risen
    BY <1>16, StillRisen
       DEF ChangeLimit, nodeVars, roundVars, FencedKnown, WorkKnown, SeenKnown, RoundAhead
<1>17. CASE RoundStep
    <2>1. ASSUME NEW m \in net, TimeoutLost(m) PROVE FenceInv' /\ Risen
        BY <2>1, <1>10 DEF TimeoutLost
    <2> QED BY <1>17, <2>1, <1>4, <1>5, <1>6, <1>7, <1>8, <1>9, <1>11
            DEF RoundStep, SkipRound, AbandonRound, FinishRound
<1>18. ASSUME NEW m \in net, TimeoutLate(m) PROVE FenceInv' /\ Risen
    BY <1>18, <1>10 DEF TimeoutLate
<1>19. ASSUME NEW m \in net, Handle(m) PROVE FenceInv' /\ Risen
    <2>1. CASE Refuse(m)
        BY <2>1, <1>14 DEF Refuse, nodeVars, roundVars
    <2>2. CASE SetQuota(m)
        BY <2>2, <1>14 DEF SetQuota, roundVars
    <2> QED BY <1>19, <2>1, <2>2, <1>12, <1>13 DEF Handle
<1> HIDE DEF FenceInv
<1> QED BY <1>1, <1>2, <1>3, <1>4, <1>15, <1>16, <1>17, <1>18, <1>19 DEF Next

\* A node's fence never falls, except when the node itself starts anew, under
\* every fault: late calls, restarts and lost answers included.
THEOREM FencesHold == Spec => FencesOnlyRise
<1>1. Spec => [](TypeInv /\ FenceInv)
    <2>1. Init => TypeInv /\ FenceInv
        BY InitTypeInv, InitFenceInv
    <2>2. TypeInv /\ FenceInv /\ [Next]_vars => (TypeInv /\ FenceInv)'
        BY NextTypeInv, NextFenceInv
    <2> QED BY <2>1, <2>2, PTL DEF Spec
<1>2. TypeInv /\ FenceInv /\ [Next]_vars => [Risen]_vars
    BY NextFenceInv
<1>3. [](TypeInv /\ FenceInv) /\ [][Next]_vars => [][Risen]_vars
    BY <1>2, PTL
<1> QED BY <1>1, <1>3, PTL DEF Spec, FencesOnlyRise, Risen

-----------------------------------------------------------------------------
(***************************************************************************)
(* Calls land in the order of their rounds, although handleApplyShare lets *)
(* go of its lock between fencing the round and setting the quota.  What   *)
(* makes up for the lock is that the proposer waits for every answer: as   *)
(* long as no call outlives its wait, and the proposer that sent it, there *)
(* is one call at a time.  Run PeerHandlerRace shows that this is needed.  *)
(***************************************************************************)
NoneOutlives == "late" \notin Faults /\ "restart" \notin Faults

Alone == \A m, k \in net : m.awaited /\ m = k
FenceIsRound == \A m \in net : m.stage = "fenced" => m.round = lastApplied[m.to]
OrderInv == Alone /\ FenceIsRound

LandsInOrder ==
    \A m \in net : SetQuota(m) =>
          \/ m.round = lastApplied[m.to]
          \/ \E k \in net : k.to = m.to /\ k.stage = "fenced" /\ k.round = lastApplied[m.to]

LEMMA AdvanceAlone ==
    ASSUME NEW m \in net, NEW s \in Stages, net \subseteq Call, Alone, Advance(m, s)
    PROVE  \E c \in net' :
              /\ net' = {c} /\ c.awaited /\ c.stage = s /\ c.to = m.to /\ c.round = m.round
<1>1. net = {m} /\ m.awaited /\ m \in Call
    BY DEF Alone
<1> DEFINE c == [m EXCEPT !.stage = s]
<1>2. c.awaited = m.awaited /\ c.stage = s /\ c.to = m.to /\ c.round = m.round
    BY <1>1 DEF Call
<1>3. net' = {c}
    BY <1>1 DEF Advance
<1> HIDE DEF c
<1> QED BY <1>1, <1>2, <1>3

LEMMA NextOrderInv ==
    ASSUME NoneOutlives, TypeInv, OrderInv, [Next]_vars
    PROVE  OrderInv'
<1> USE DEF TypeInv, OrderInv
<1>1. ASSUME net' \subseteq net, UNCHANGED lastApplied PROVE OrderInv'
    BY <1>1 DEF Alone, FenceIsRound
<1>2. CASE UNCHANGED vars
    BY <1>1, <1>2 DEF vars
<1>3. ASSUME NEW n \in Nodes, Allow(n) \/ PollNode(n) \/ PollFails(n) PROVE OrderInv'
    BY <1>1, <1>3 DEF Allow, PollNode, PollFails, nodeVars
<1>4. CASE Tick \/ SkipRound \/ BeginGrow \/ AbandonRound \/ FinishRound
    BY <1>1, <1>4 DEF Tick, SkipRound, BeginGrow, AbandonRound, FinishRound, nodeVars
<1>5. ASSUME NEW t \in Splits(Reachable, KnownLimit), StartRound(t) PROVE OrderInv'
    BY <1>1, <1>5 DEF StartRound
<1>6. ASSUME NEW n \in Nodes, SendShare(n) PROVE OrderInv'
    <2> DEFINE c == [to |-> n, round |-> round, quota |-> target[n],
                     stage |-> "sent", awaited |-> TRUE]
    <2>1. net = {} /\ net' = net \cup {c} /\ UNCHANGED lastApplied
        BY <1>6 DEF SendShare, Turn, Awaiting, Alone, nodeVars
    <2>2. c.awaited /\ c.stage = "sent"
        OBVIOUS
    <2> HIDE DEF c
    <2> QED BY <2>1, <2>2 DEF Alone, FenceIsRound
<1>7. CASE ApplyLocal
    <2>1. net' = net /\ lastApplied' = [lastApplied EXCEPT ![Proposer] = round]
        BY <1>7 DEF ApplyLocal
    <2>2. \A m \in net : m.to \in Nodes /\ lastApplied'[m.to] = lastApplied[m.to]
        BY <2>1 DEF NoCallToProposer, TypeOK, Call
    <2> QED BY <2>1, <2>2 DEF Alone, FenceIsRound
<1>8. ASSUME NEW m \in net, Ack(m) \/ TimeoutLost(m) PROVE OrderInv'
    BY <1>1, <1>8 DEF Ack, TimeoutLost, GiveUp, nodeVars
<1>9. ASSUME NEW m \in net, NEW s \in {"entered", "applied", "stale"},
             Advance(m, s), UNCHANGED lastApplied
      PROVE  OrderInv'
    <2>1. s \in Stages
        BY DEF Stages
    <2>2. PICK c \in net' : net' = {c} /\ c.awaited /\ c.stage = s
        BY <1>9, <2>1, AdvanceAlone DEF TypeOK
    <2> QED BY <2>2 DEF Alone, FenceIsRound
<1>10. ASSUME NEW m \in net, Fence(m) PROVE OrderInv'
    <2>1. PICK c \in net' : net' = {c} /\ c.awaited /\ c.to = m.to /\ c.round = m.round
        BY <1>10, AdvanceAlone DEF Fence, TypeOK, Stages
    <2>2. lastApplied'[m.to] = m.round
        BY <1>10 DEF Fence, TypeOK, Call
    <2> QED BY <2>1, <2>2 DEF Alone, FenceIsRound
<1>11. ASSUME NEW m \in net, Handle(m) PROVE OrderInv'
    BY <1>9, <1>10, <1>11 DEF Handle, Enter, Refuse, SetQuota, nodeVars
<1>12. ASSUME NEW l \in Limits, ChangeLimit(l) PROVE OrderInv'
    BY <1>1, <1>12 DEF ChangeLimit, nodeVars
<1> QED BY <1>2, <1>3, <1>4, <1>5, <1>6, <1>7, <1>8, <1>11, <1>12
        DEF Next, RoundStep, NoneOutlives, Restart, TimeoutLate

\* When a handler sets the quota of its round, no newer round has landed,
\* while no call outlives its wait and no node restarts.
THEOREM RoundsLandInOrder == NoneOutlives => (Spec => StaleNeverLands)
<1> SUFFICES ASSUME NoneOutlives PROVE Spec => StaleNeverLands
    OBVIOUS
<1>1. Init => TypeInv /\ OrderInv
    BY InitTypeInv DEF Init, OrderInv, Alone, FenceIsRound
<1>2. TypeInv /\ OrderInv /\ [Next]_vars => (TypeInv /\ OrderInv)'
    BY NextTypeInv, NextOrderInv
<1>3. TypeInv /\ OrderInv /\ [Next]_vars => [LandsInOrder]_vars
    BY DEF OrderInv, FenceIsRound, LandsInOrder, SetQuota
<1> QED BY <1>1, <1>2, <1>3, PTL DEF Spec, StaleNeverLands, LandsInOrder

-----------------------------------------------------------------------------
(***************************************************************************)
(* The quota is never over-committed.  That no total is too large is not   *)
(* inductive: what keeps it so is where the round is.                      *)
(*                                                                         *)
(*   - Between rounds no call is in flight, and what the nodes hold fits.  *)
(*   - While the proposer polls, no share moves, so its answers are right. *)
(*   - In the shrink phase every node holds at most what the round assumed *)
(*     it to hold, and the nodes confirmed hold what they were told to.    *)
(*   - In the grow phase every node holds at most its target, and the      *)
(*     targets add up to the limit.                                        *)
(***************************************************************************)
OnlyLoss == Faults \subseteq {"loss"}

\* A split the nodes may hold together.
Fits(f) == Total(f) <= limit \/ Total(f) <= Reserve

InRound == phase \in {"shrink", "grow"}

LimitAgreed ==
    \A n \in Nodes : globalLimit[n] \in {0, limit} /\ status[n].globalLimit \in {0, limit}

CallsFollowRound ==
    \A m \in net :
        /\ InRound /\ m.awaited /\ m.to \in todo
        /\ m.quota = target[m.to]
        /\ m.stage # "sent" => known[m.to]
        /\ m.stage = "applied" => share[m.to] = m.quota

OneCall == \A m1, m2 \in net : m1 = m2

PollTrue ==
    \A n \in Nodes :
        /\ phase # "poll" => status[n].answer = "none"
        /\ status[n].answer # "failed"
        /\ status[n].answer = "seen" => known[n] /\ status[n].share = share[n]
        /\ status[n].answer = "unseen" => Committed[n] = NodeShare(limit)

AtRest == ~InRound => Fits(Committed)

Shrinking ==
    phase = "shrink" =>
        /\ Fits(current)
        /\ \A n \in Nodes :
              /\ Committed[n] <= current[n]
              /\ n \in todo => target[n] < current[n]
              /\ shrinkOK /\ n \notin todo /\ target[n] < current[n] => Committed[n] = target[n]

Growing ==
    phase = "grow" =>
        \A n \in Nodes :
            /\ Committed[n] <= target[n]
            /\ n \in todo => current[n] < target[n]
            /\ target[n] < current[n] => Committed[n] = target[n]

RoundTargets == InRound => Total(target) = limit /\ known[Proposer]

QuotaInv ==
    /\ LimitAgreed /\ CallsFollowRound /\ OneCall /\ PollTrue
    /\ AtRest /\ Shrinking /\ Growing /\ RoundTargets

\* What the nodes hold, node by node.
LEMMA CommittedType ==
    ASSUME TypeOK
    PROVE  /\ Committed \in [Nodes -> Nat]
           /\ \A n \in Nodes : Committed[n] = IF known[n] THEN share[n] ELSE NodeShare(limit)
BY NodeShareType, SharesAreNat DEF TypeOK, Committed

\* A split that gives no node more than one that fits, fits.
LEMMA FitsLess ==
    ASSUME TypeOK, NEW f \in [Nodes -> Nat], NEW g \in [Nodes -> Nat],
           \A n \in Nodes : f[n] <= g[n], Fits(g)
    PROVE  Fits(f)
<1>1. Total(f) <= Total(g) /\ Total(f) \in Nat /\ Total(g) \in Nat
    BY TotalMonotone, UnitsFinite, NodesAssumption
<1>2. limit \in Nat
    BY LimitsAssumption DEF TypeOK
<1>3. Reserve \in Nat
    <2>1. [n \in Nodes |-> NodeShare(limit)] \in [Nodes -> Nat]
        BY NodeShareType DEF TypeOK
    <2> QED BY <2>1, UnitsFinite, NodesAssumption DEF Reserve
<1> QED BY <1>1, <1>2, <1>3 DEF Fits

\* While the limit stays, shares that do not rise above a fitting split fit.
LEMMA StillFits ==
    ASSUME TypeOK, TypeOK', limit' = limit, NEW g \in [Nodes -> Nat], Fits(g),
           \A n \in Nodes : Committed'[n] <= g[n]
    PROVE  Fits(Committed)'
<1>1. Committed' \in [Nodes -> Nat]
    <2>1. (TypeOK => Committed \in [Nodes -> Nat])'
        BY CommittedType, PTL
    <2> QED BY <2>1
<1>2. Fits(Committed')
    BY <1>1, FitsLess
<1>3. Reserve' = Reserve
    BY DEF Reserve, NodeShare
<1> QED BY <1>2, <1>3 DEF Fits

LEMMA InitQuotaInv == Init => QuotaInv
<1> SUFFICES ASSUME Init PROVE QuotaInv
    OBVIOUS
<1>1. phase = "idle" /\ net = {} /\ globalLimit = NoSplit /\ status = NoStatus
    BY DEF Init
<1>2. Fits(Committed)
    <2>1. Committed = [n \in Nodes |-> NodeShare(limit)]
        BY DEF Init, Committed
    <2>2. [n \in Nodes |-> NodeShare(limit)] \in [Nodes -> Nat]
        BY NodeShareType DEF Init
    <2>3. Reserve \in Nat
        BY <2>2, UnitsFinite, NodesAssumption DEF Reserve
    <2> QED BY <2>1, <2>3 DEF Fits, Reserve
<1> QED BY <1>1, <1>2
        DEF QuotaInv, LimitAgreed, CallsFollowRound, OneCall, PollTrue, AtRest, Shrinking,
            Growing, RoundTargets, InRound, NoSplit, NoStatus
(***************************************************************************)
(* The steps.  In every one of them the limit stays, so what matters is    *)
(* how far a step moves what a node holds: only the handler of the one     *)
(* call in flight, and the proposer's local apply, move anything.          *)
(***************************************************************************)

\* A request never changes what its node holds.
LEMMA AllowQuotaInv ==
    ASSUME TypeOK, TypeOK', QuotaInv, NEW n \in Nodes, Allow(n)
    PROVE  QuotaInv'
<1>1. Committed' = Committed
    BY DEF Allow, Committed, TypeOK, NodeShare
<1>2. Reserve' = Reserve
    BY DEF Allow, Reserve, NodeShare
<1>3. NodeShare(limit)' = NodeShare(limit)
    BY DEF Allow, NodeShare
<1>4. LimitAgreed' /\ CallsFollowRound' /\ OneCall' /\ RoundTargets'
    BY DEF QuotaInv, Allow, LimitAgreed, CallsFollowRound, OneCall, RoundTargets, InRound,
           TypeOK, Call, roundVars
<1>5. PollTrue'
    BY <1>1, <1>3 DEF QuotaInv, Allow, PollTrue, TypeOK
<1>6. AtRest' /\ Shrinking' /\ Growing'
    BY <1>1, <1>2 DEF QuotaInv, Allow, AtRest, Shrinking, Growing, InRound, Fits, roundVars
<1> QED BY <1>4, <1>5, <1>6 DEF QuotaInv

\* Steps of the proposer that touch no node and no call.
LEMMA ProposerOnly ==
    ASSUME limit' = limit, UNCHANGED nodeVars
    PROVE  Committed' = Committed /\ Reserve' = Reserve /\ NodeShare(limit)' = NodeShare(limit)
BY DEF nodeVars, Committed, Reserve, NodeShare

LEMMA TickQuotaInv ==
    ASSUME TypeOK, QuotaInv, Tick
    PROVE  QuotaInv'
<1>1. Committed' = Committed /\ Reserve' = Reserve /\ NodeShare(limit)' = NodeShare(limit)
    BY ProposerOnly DEF Tick
<1> QED BY <1>1
        DEF QuotaInv, Tick, LimitAgreed, CallsFollowRound, OneCall, PollTrue, AtRest, Shrinking,
            Growing, RoundTargets, InRound, Fits, nodeVars, roundVars

\* No share moves while the proposer polls, so an answer stays true.
LEMMA PollQuotaInv ==
    ASSUME TypeOK, QuotaInv, NEW n \in Nodes, PollNode(n)
    PROVE  QuotaInv'
<1>1. Committed' = Committed /\ Reserve' = Reserve /\ NodeShare(limit)' = NodeShare(limit)
    BY ProposerOnly DEF PollNode
<1>2. known[n] \/ Committed[n] = NodeShare(limit)
    BY CommittedType
<1>3. PollTrue' /\ LimitAgreed'
    BY <1>1, <1>2 DEF QuotaInv, PollNode, PollTrue, LimitAgreed, TypeOK, Status, nodeVars
<1> QED BY <1>1, <1>3
        DEF QuotaInv, PollNode, CallsFollowRound, OneCall, AtRest, Shrinking,
            Growing, RoundTargets, InRound, Fits, nodeVars, roundVars

\* A tick ends where no call is in flight and what the nodes hold fits.
LEMMA EndTickQuotaInv ==
    ASSUME TypeOK, QuotaInv, EndTick, UNCHANGED <<limit, nodeVars, net>>, net = {}, Fits(Committed)
    PROVE  QuotaInv'
<1>1. Committed' = Committed /\ Reserve' = Reserve /\ NodeShare(limit)' = NodeShare(limit)
    BY ProposerOnly
<1> QED BY <1>1
        DEF QuotaInv, EndTick, LimitAgreed, CallsFollowRound, OneCall, PollTrue, AtRest, Shrinking,
            Growing, RoundTargets, InRound, Fits, NoStatus, nodeVars

\* The round starts from what the nodes really hold: every node answered,
\* and each answer is true.
LEMMA StartQuotaInv ==
    ASSUME TypeOK, QuotaInv, NEW t \in Splits(Reachable, KnownLimit), StartRound(t)
    PROVE  QuotaInv'
<1>1. phase = "poll" /\ Polled /\ KnownLimit > 0 /\ ~InRound
    BY DEF StartRound, InRound
<1>2. KnownLimit = limit /\ limit \in Limits /\ status[Proposer].answer = "seen"
    BY <1>1, NodesAssumption DEF KnownLimit, QuotaInv, LimitAgreed, TypeOK
<1>3. \A n \in Nodes : status[n].answer \in {"seen", "unseen"}
    BY <1>1 DEF Polled, QuotaInv, PollTrue, TypeOK, Status, Answers
<1>4. Assumed = Committed
    <2>1. \A n \in Nodes : Assumed[n] = Committed[n]
        <3> SUFFICES ASSUME NEW n \in Nodes PROVE Assumed[n] = Committed[n]
            OBVIOUS
        <3>1. CASE status[n].answer = "seen"
            <4>1. Assumed[n] = status[n].share
                BY <3>1 DEF Assumed
            <4> QED BY <3>1, <4>1, CommittedType DEF QuotaInv, PollTrue
        <3>2. CASE status[n].answer = "unseen"
            <4>1. Assumed[n] = NodeShare(KnownLimit)
                BY <3>2 DEF Assumed
            <4> QED BY <3>2, <4>1, <1>2 DEF QuotaInv, PollTrue
        <3> QED BY <1>3, <3>1, <3>2
    <2> QED BY <2>1 DEF Assumed, Committed
<1>5. t \in [Nodes -> Nat] /\ Total(t) = limit
    BY <1>2, SplitType
<1>6. Committed' = Committed /\ Reserve' = Reserve
    BY DEF StartRound, Committed, Reserve, NodeShare
<1>7. net = {} /\ net' = {}
    BY <1>1 DEF QuotaInv, CallsFollowRound, StartRound
<1>8. known[Proposer]
    BY <1>2, NodesAssumption DEF QuotaInv, PollTrue
<1>9. Shrinking'
    <2>1. Committed \in [Nodes -> Nat]
        BY CommittedType
    <2>2. Fits(Committed)
        BY <1>1 DEF QuotaInv, AtRest
    <2>3. /\ current' = Committed /\ target' = t /\ limit' = limit
          /\ todo' = {n \in Nodes : t[n] < Committed[n]}
        BY <1>3, <1>4 DEF StartRound, Reachable
    <2>4. Fits(current)'
        BY <1>6, <2>2, <2>3 DEF Fits
    <2> QED BY <1>5, <1>6, <2>1, <2>3, <2>4 DEF Shrinking
<1>10. LimitAgreed' /\ PollTrue'
    BY <1>2 DEF StartRound, QuotaInv, LimitAgreed, PollTrue, NoStatus, TypeOK
<1> QED BY <1>5, <1>7, <1>8, <1>9, <1>10
        DEF QuotaInv, StartRound, CallsFollowRound, OneCall, AtRest, Growing, RoundTargets, InRound

LEMMA SendQuotaInv ==
    ASSUME TypeOK, QuotaInv, NEW n \in Nodes, SendShare(n)
    PROVE  QuotaInv'
<1>1. Committed' = Committed /\ Reserve' = Reserve /\ NodeShare(limit)' = NodeShare(limit)
    BY ProposerOnly DEF SendShare
<1>2. net = {}
    BY DEF SendShare, Turn, Awaiting, QuotaInv, CallsFollowRound
<1> DEFINE c == [to |-> n, round |-> round, quota |-> target[n], stage |-> "sent", awaited |-> TRUE]
<1>3. net' = {c} /\ c.awaited /\ c.to = n /\ c.quota = target[n] /\ c.stage = "sent"
    BY <1>2 DEF SendShare
<1> HIDE DEF c
<1>4. CallsFollowRound' /\ OneCall'
    BY <1>3 DEF SendShare, Turn, CallsFollowRound, OneCall, InRound, nodeVars, roundVars
<1> QED BY <1>1, <1>4
        DEF QuotaInv, SendShare, LimitAgreed, PollTrue, AtRest, Shrinking,
            Growing, RoundTargets, InRound, Fits, nodeVars, roundVars
\* The proposer moves its own share to its target, in its turn.
LEMMA LocalQuotaInv ==
    ASSUME TypeOK, TypeOK', QuotaInv, NoCallToProposer, ApplyLocal
    PROVE  QuotaInv'
<1> USE NodesAssumption
<1>1. /\ known' = known /\ limit' = limit /\ target' = target /\ current' = current
      /\ net' = net /\ phase' = phase /\ status' = status /\ globalLimit' = globalLimit
      /\ todo' = todo \ {Proposer} /\ shrinkOK' = shrinkOK /\ InRound /\ Proposer \in todo
      /\ share' = [share EXCEPT ![Proposer] = target[Proposer]]
    BY DEF ApplyLocal, Turn, InRound
<1>2. /\ \A n \in Nodes \ {Proposer} : Committed'[n] = Committed[n]
      /\ Committed'[Proposer] = target[Proposer]
    BY <1>1 DEF QuotaInv, RoundTargets, TypeOK, Committed, NodeShare
<1>3. current \in [Nodes -> Nat] /\ target \in [Nodes -> Nat] /\ Committed \in [Nodes -> Nat]
    BY CommittedType, SharesAreNat DEF TypeOK
<1>4. Reserve' = Reserve
    BY <1>1 DEF Reserve, NodeShare
<1>5. Shrinking'
    BY <1>1, <1>2, <1>3, <1>4 DEF QuotaInv, Shrinking, Fits
<1>6. Growing'
    BY <1>1, <1>2, <1>3 DEF QuotaInv, Growing
<1>7. CallsFollowRound' /\ OneCall'
    BY <1>1 DEF QuotaInv, CallsFollowRound, OneCall, NoCallToProposer, InRound, TypeOK, Call
<1>8. PollTrue' /\ AtRest' /\ LimitAgreed' /\ RoundTargets'
    BY <1>1 DEF QuotaInv, PollTrue, AtRest, LimitAgreed, RoundTargets, InRound, TypeOK
<1> QED BY <1>5, <1>6, <1>7, <1>8 DEF QuotaInv

\* The one call is answered, or its time is up: an answer counts as a
\* confirmed shrink only if the share was set.
LEMMA AnswerQuotaInv ==
    ASSUME TypeOK, QuotaInv, NEW m \in net, net' = net \ {m}, todo' = todo \ {m.to},
           shrinkOK' \in BOOLEAN, shrinkOK' /\ phase = "shrink" => shrinkOK /\ m.stage = "applied",
           UNCHANGED <<limit, nodeVars, phase, status, current, target, round>>
    PROVE  QuotaInv'
<1>1. Committed' = Committed /\ Reserve' = Reserve /\ NodeShare(limit)' = NodeShare(limit)
    BY ProposerOnly
<1>2. net' = {} /\ InRound
    BY DEF QuotaInv, OneCall, CallsFollowRound
<1>3. m.to \in Nodes /\ (m.stage = "applied" => Committed[m.to] = target[m.to])
    BY CommittedType DEF QuotaInv, CallsFollowRound, TypeOK, Call
<1>4. Shrinking'
    BY <1>1, <1>3 DEF QuotaInv, Shrinking, Fits
<1> QED BY <1>1, <1>2, <1>4
        DEF QuotaInv, LimitAgreed, CallsFollowRound, OneCall, PollTrue, AtRest,
            Growing, RoundTargets, InRound, Fits, nodeVars

\* With every shrink confirmed, no node holds more than its target.
LEMMA GrowQuotaInv ==
    ASSUME TypeOK, QuotaInv, BeginGrow
    PROVE  QuotaInv'
<1>1. Committed' = Committed /\ Reserve' = Reserve /\ NodeShare(limit)' = NodeShare(limit)
    BY ProposerOnly DEF BeginGrow
<1>2. net = {}
    BY DEF BeginGrow, QuotaInv, CallsFollowRound
<1>3. current \in [Nodes -> Nat] /\ target \in [Nodes -> Nat] /\ Committed \in [Nodes -> Nat]
    BY CommittedType, SharesAreNat DEF TypeOK
<1>4. Growing'
    BY <1>1, <1>3 DEF BeginGrow, QuotaInv, Shrinking, Growing
<1> QED BY <1>1, <1>2, <1>4
        DEF BeginGrow, QuotaInv, LimitAgreed, CallsFollowRound, OneCall, PollTrue, AtRest,
            Shrinking, RoundTargets, InRound, Fits, nodeVars
(***************************************************************************)
(* The handler.  Advance replaces the call by itself, one stage on; the    *)
(* call is awaited, so it does not leave net.                              *)
(***************************************************************************)
LEMMA AdvanceOne ==
    ASSUME TypeOK, QuotaInv, NEW m \in net, NEW s \in Stages, Advance(m, s)
    PROVE  \E c \in net' :
              /\ net' = {c} /\ c.awaited /\ c.stage = s
              /\ c.to = m.to /\ c.quota = m.quota
<1>1. m.awaited /\ net = {m} /\ m \in Call
    BY DEF QuotaInv, CallsFollowRound, OneCall, TypeOK
<1> DEFINE c == [m EXCEPT !.stage = s]
<1>2. c.awaited = m.awaited /\ c.stage = s /\ c.to = m.to /\ c.quota = m.quota
    BY <1>1 DEF Call
<1>3. net' = {c}
    BY <1>1 DEF Advance
<1> HIDE DEF c
<1> QED BY <1>1, <1>2, <1>3

\* Where the one call of a round stands.
LEMMA TheCall ==
    ASSUME TypeOK, QuotaInv, NEW m \in net
    PROVE  /\ m.to \in Nodes /\ m.to \in todo /\ InRound /\ m.quota = target[m.to]
           /\ m.quota \in Nat
           /\ m.stage # "sent" => known[m.to]
BY SharesAreNat DEF QuotaInv, CallsFollowRound, TypeOK, Call

\* A step of the handler that leaves every share alone.
LEMMA HandlerQuotaInv ==
    ASSUME TypeOK, QuotaInv, NEW m \in net, NEW s \in Stages, Advance(m, s),
           s # "applied", s # "sent", m.stage # "sent",
           UNCHANGED <<limit, known, share, globalLimit, phase, status, roundVars>>
    PROVE  QuotaInv'
<1>1. Committed' = Committed /\ Reserve' = Reserve /\ NodeShare(limit)' = NodeShare(limit)
    BY DEF Committed, Reserve, NodeShare
<1>2. PICK c \in net' : net' = {c} /\ c.awaited /\ c.stage = s /\ c.to = m.to /\ c.quota = m.quota
    BY AdvanceOne
<1>3. CallsFollowRound' /\ OneCall'
    BY <1>2, TheCall DEF CallsFollowRound, OneCall, InRound, roundVars
<1> QED BY <1>1, <1>3
        DEF QuotaInv, LimitAgreed, PollTrue, AtRest, Shrinking, Growing, RoundTargets, InRound,
            Fits, roundVars

\* The handler looks the customer up: an entry made here holds 1, and a node
\* the round calls holds, or is to hold, at least that.
LEMMA EnterQuotaInv ==
    ASSUME TypeOK, TypeOK', QuotaInv, NEW m \in net, Enter(m)
    PROVE  QuotaInv'
<1>1. PICK c \in net' :
         net' = {c} /\ c.awaited /\ c.stage = "entered" /\ c.to = m.to /\ c.quota = m.quota
    BY AdvanceOne DEF Enter, Stages
<1>2. m.to \in Nodes /\ m.to \in todo /\ InRound /\ m.quota = target[m.to]
    BY TheCall
<1>3. /\ \A n \in Nodes \ {m.to} : Committed'[n] = Committed[n]
      /\ Committed'[m.to] = IF known[m.to] THEN Committed[m.to] ELSE 1
    BY <1>2 DEF Enter, Committed, TypeOK, NodeShare
<1>4. current \in [Nodes -> Nat] /\ target \in [Nodes -> Nat] /\ Committed \in [Nodes -> Nat]
    BY CommittedType, SharesAreNat DEF TypeOK
<1>5. Reserve' = Reserve
    BY DEF Enter, Reserve, NodeShare
<1>6. CallsFollowRound' /\ OneCall'
    BY <1>1, <1>2 DEF Enter, CallsFollowRound, OneCall, InRound, TypeOK, roundVars
<1>7. Shrinking'
    <2> SUFFICES ASSUME phase = "shrink" PROVE Shrinking'
        BY DEF Shrinking, Enter
    <2>1. target[m.to] < current[m.to]
        BY <1>2 DEF QuotaInv, Shrinking
    <2>2. Committed'[m.to] <= current[m.to]
        BY <1>2, <1>3, <1>4, <2>1 DEF QuotaInv, Shrinking
    <2> QED BY <1>2, <1>3, <1>5, <2>2 DEF Enter, QuotaInv, Shrinking, Fits, roundVars
<1>8. Growing'
    <2> SUFFICES ASSUME phase = "grow" PROVE Growing'
        BY DEF Growing, Enter
    <2>1. current[m.to] < target[m.to]
        BY <1>2 DEF QuotaInv, Growing
    <2>2. Committed'[m.to] <= target[m.to]
        BY <1>2, <1>3, <1>4, <2>1 DEF QuotaInv, Growing
    <2>3. ~(target[m.to] < current[m.to])
        BY <1>2, <1>4, <2>1
    <2> QED BY <1>2, <1>3, <2>2, <2>3 DEF Enter, QuotaInv, Growing, roundVars
<1>9. PollTrue' /\ AtRest' /\ LimitAgreed' /\ RoundTargets'
    BY <1>2, NodesAssumption
       DEF Enter, QuotaInv, PollTrue, AtRest, LimitAgreed, RoundTargets, InRound, TypeOK, roundVars
<1> QED BY <1>6, <1>7, <1>8, <1>9 DEF QuotaInv

\* The handler sets the share to the target of the round.
LEMMA SetQuotaInv ==
    ASSUME TypeOK, TypeOK', QuotaInv, NEW m \in net, SetQuota(m)
    PROVE  QuotaInv'
<1>1. PICK c \in net' :
         net' = {c} /\ c.awaited /\ c.stage = "applied" /\ c.to = m.to /\ c.quota = m.quota
    BY AdvanceOne DEF SetQuota, Stages
<1>2. /\ m.to \in Nodes /\ m.to \in todo /\ InRound /\ m.quota = target[m.to] /\ known[m.to]
    BY TheCall DEF SetQuota
<1>3. /\ \A n \in Nodes \ {m.to} : Committed'[n] = Committed[n]
      /\ Committed'[m.to] = target[m.to]
    BY <1>2 DEF SetQuota, Committed, TypeOK, NodeShare
<1>4. current \in [Nodes -> Nat] /\ target \in [Nodes -> Nat] /\ Committed \in [Nodes -> Nat]
    BY CommittedType, SharesAreNat DEF TypeOK
<1>5. Reserve' = Reserve
    BY DEF SetQuota, Reserve, NodeShare
<1>6. CallsFollowRound' /\ OneCall'
    BY <1>1, <1>2 DEF SetQuota, CallsFollowRound, OneCall, InRound, TypeOK, roundVars
<1>7. Shrinking' /\ Growing'
    BY <1>2, <1>3, <1>4, <1>5 DEF SetQuota, QuotaInv, Shrinking, Growing, Fits, roundVars
<1>8. PollTrue' /\ AtRest' /\ LimitAgreed' /\ RoundTargets'
    BY <1>2, NodesAssumption
       DEF SetQuota, QuotaInv, PollTrue, AtRest, LimitAgreed, RoundTargets, InRound, TypeOK, roundVars
<1> QED BY <1>6, <1>7, <1>8 DEF QuotaInv

LEMMA NextQuotaInv ==
    ASSUME OnlyLoss, TypeInv, TypeInv', QuotaInv, [Next]_vars
    PROVE  QuotaInv'
<1> USE DEF TypeInv
<1>1. CASE UNCHANGED vars
    <2>1. Committed' = Committed /\ Reserve' = Reserve /\ NodeShare(limit)' = NodeShare(limit)
        BY <1>1, ProposerOnly DEF vars, nodeVars
    <2> QED BY <1>1, <2>1
            DEF vars, QuotaInv, LimitAgreed, CallsFollowRound, OneCall, PollTrue, AtRest,
                Shrinking, Growing, RoundTargets, InRound, Fits
<1>2. ASSUME EndTick, UNCHANGED <<limit, nodeVars, net>>, phase = "poll" PROVE QuotaInv'
    <2>1. net = {} /\ Fits(Committed)
        BY <1>2 DEF QuotaInv, CallsFollowRound, AtRest, InRound
    <2> QED BY <1>2, <2>1, EndTickQuotaInv
<1>3. ASSUME EndTick, UNCHANGED <<limit, nodeVars, net>>, phase \in {"shrink", "grow"}, todo = {}
      PROVE  QuotaInv'
    <2>1. net = {}
        BY <1>3 DEF QuotaInv, CallsFollowRound
    <2>2. current \in [Nodes -> Nat] /\ target \in [Nodes -> Nat] /\ Committed \in [Nodes -> Nat]
        BY CommittedType, SharesAreNat DEF TypeOK
    <2>3. CASE phase = "shrink"
        <3>1. Fits(Committed)
            BY <2>2, <2>3, FitsLess DEF QuotaInv, Shrinking
        <3> QED BY <1>3, <2>1, <3>1, EndTickQuotaInv
    <2>4. CASE phase = "grow"
        <3>1. limit \in Nat
            BY LimitsAssumption DEF TypeOK
        <3>2. Fits(target)
            BY <2>4, <3>1 DEF QuotaInv, RoundTargets, InRound, Fits
        <3>3. Fits(Committed)
            BY <2>2, <2>4, <3>2, FitsLess DEF QuotaInv, Growing
        <3> QED BY <1>3, <2>1, <3>3, EndTickQuotaInv
    <2> QED BY <1>3, <2>3, <2>4
<1>4. ASSUME NEW m \in net, Ack(m) PROVE QuotaInv'
    BY <1>4, AnswerQuotaInv DEF Ack, TypeOK
<1>5. ASSUME NEW m \in net, TimeoutLost(m) PROVE QuotaInv'
    <2>1. net' = net \ {m} /\ shrinkOK' = (shrinkOK /\ phase # "shrink")
        BY <1>5 DEF TimeoutLost, GiveUp
    <2> QED BY <1>5, <2>1, AnswerQuotaInv DEF TimeoutLost, GiveUp, TypeOK
<1>6. CASE RoundStep
    BY <1>2, <1>3, <1>4, <1>5, <1>6, PollQuotaInv, SendQuotaInv, StartQuotaInv, LocalQuotaInv,
       GrowQuotaInv
       DEF RoundStep, SkipRound, AbandonRound, FinishRound
<1>7. ASSUME NEW m \in net, Fence(m) \/ Refuse(m) PROVE QuotaInv'
    BY <1>7, HandlerQuotaInv DEF Fence, Refuse, Stages, nodeVars
<1>8. ASSUME NEW m \in net, Handle(m) PROVE QuotaInv'
    BY <1>7, <1>8, EnterQuotaInv, SetQuotaInv DEF Handle
<1>9. ASSUME NEW n \in Nodes, PollFails(n) \/ Restart(n) PROVE QuotaInv'
    BY <1>9 DEF PollFails, Restart, OnlyLoss
<1>10. ASSUME NEW m \in net, TimeoutLate(m) PROVE QuotaInv'
    BY <1>10 DEF TimeoutLate, OnlyLoss
<1>11. ASSUME NEW l \in Limits, ChangeLimit(l) PROVE QuotaInv'
    BY <1>11 DEF ChangeLimit, OnlyLoss
<1> QED BY <1>1, <1>6, <1>8, <1>9, <1>10, <1>11, AllowQuotaInv, TickQuotaInv DEF Next

\* What the invariant is for: the three safety properties of the rounds.
LEMMA QuotaInvSafe ==
    ASSUME TypeOK, QuotaInv
    PROVE  SharesWithinReserve /\ GrowWithinLimit /\ GrowsOnlyAfterShrinks
<1>1. current \in [Nodes -> Nat] /\ target \in [Nodes -> Nat] /\ Committed \in [Nodes -> Nat]
    BY CommittedType, SharesAreNat DEF TypeOK
<1>2. phase = "shrink" => Fits(Committed)
    BY <1>1, FitsLess DEF QuotaInv, Shrinking
<1>3. phase = "grow" => Total(Committed) <= limit
    <2>1. phase = "grow" => Total(Committed) <= Total(target)
        BY <1>1, TotalMonotone, NodesAssumption DEF QuotaInv, Growing
    <2> QED BY <2>1 DEF QuotaInv, RoundTargets, InRound
<1>4. ~InRound => Fits(Committed)
    BY DEF QuotaInv, AtRest
<1> QED BY <1>2, <1>3, <1>4
        DEF SharesWithinReserve, GrowWithinLimit, GrowsOnlyAfterShrinks, InRound, Fits, QuotaInv,
            Growing

\* The invariant holds throughout every run in which only calls are lost.
LEMMA QuotaInvariant == OnlyLoss => (Spec => [](TypeOK /\ QuotaInv))
<1> SUFFICES ASSUME OnlyLoss PROVE Spec => [](TypeOK /\ QuotaInv)
    OBVIOUS
<1> DEFINE Inv == TypeInv /\ QuotaInv
<1>1. Init => Inv
    BY InitTypeInv, InitQuotaInv
<1>2. Inv /\ [Next]_vars => Inv'
    BY NextTypeInv, NextQuotaInv
<1>3. Inv => TypeOK /\ QuotaInv
    BY DEF TypeInv
<1> QED BY <1>1, <1>2, <1>3, PTL DEF Spec

\* However calls and answers get lost, and however requests, handlers and
\* rounds interleave, the nodes together never hold more than the limit, or
\* than they bootstrapped to where the even share was rounded up.
THEOREM QuotaSafe == OnlyLoss => (Spec => []SharesWithinReserve)
BY QuotaInvariant, QuotaInvSafe, PTL

\* A node's new capacity is sent only once the capacity it is drawn from has
\* been surrendered.
THEOREM GrowsAreCovered == OnlyLoss => (Spec => []GrowsOnlyAfterShrinks)
BY QuotaInvariant, QuotaInvSafe, PTL

\* From the first grow phase on the rounding slack of the bootstrap is gone.
THEOREM GrowSafe == OnlyLoss => (Spec => []GrowWithinLimit)
BY QuotaInvariant, QuotaInvSafe, PTL
\* What the nodes bootstrap to, when NodeCount counts them right.
LEMMA ReserveBound ==
    ASSUME TypeOK, Cardinality(Nodes) = NodeCount
    PROVE  Reserve = NodeCount * NodeShare(limit) /\ Reserve <= limit + NodeCount - 1
<1>1. limit \in Nat \ {0} /\ NodeShare(limit) \in Nat
    BY LimitsAssumption, NodeShareType DEF TypeOK
<1>2. Reserve = NodeCount * NodeShare(limit)
    BY <1>1, TotalConstant, NodesAssumption DEF Reserve
<1>3. NodeCount * NodeShare(limit) <= limit + NodeCount - 1
    BY <1>1, CeilingSlack, CountAssumption DEF NodeShare
<1> QED BY <1>2, <1>3

\* With NodeCount right, the only excess over the limit is the rounding of
\* the bootstrap, less than one request per node (nodeShare: "at most
\* nodeCount-1 extra requests of slack").
THEOREM SlackBounded ==
    OnlyLoss /\ Cardinality(Nodes) = NodeCount
        => (Spec => [](Total(Committed) <= limit + NodeCount - 1))
<1> SUFFICES ASSUME OnlyLoss, Cardinality(Nodes) = NodeCount
             PROVE  Spec => [](Total(Committed) <= limit + NodeCount - 1)
    OBVIOUS
<1>1. TypeOK /\ QuotaInv => Total(Committed) <= limit + NodeCount - 1
    <2> SUFFICES ASSUME TypeOK, QuotaInv PROVE Total(Committed) <= limit + NodeCount - 1
        OBVIOUS
    <2>1. Total(Committed) <= limit \/ Total(Committed) <= Reserve
        BY QuotaInvSafe DEF SharesWithinReserve
    <2>2. /\ limit \in Nat /\ Reserve \in Nat /\ Total(Committed) \in Nat
          /\ Reserve <= limit + NodeCount - 1
        <3>1. Total(Committed) \in Nat
            BY CommittedType, UnitsFinite, NodesAssumption
        <3>2. limit \in Nat /\ NodeShare(limit) \in Nat
            BY LimitsAssumption, NodeShareType DEF TypeOK
        <3> QED BY <3>1, <3>2, ReserveBound, CountAssumption
    <2> QED BY <2>1, <2>2, CountAssumption
<1> QED BY <1>1, QuotaInvariant, PTL

\* When every limit divides evenly there is no excess at all: the sum of
\* shares in flight never exceeds the global limit at any instant.
THEOREM EvenLimitsSafe ==
    OnlyLoss /\ Cardinality(Nodes) = NodeCount /\ (\A l \in Limits : NodeCount * NodeShare(l) = l)
        => (Spec => []SharesWithinLimit)
<1> SUFFICES ASSUME OnlyLoss, Cardinality(Nodes) = NodeCount,
                    \A l \in Limits : NodeCount * NodeShare(l) = l
             PROVE  Spec => []SharesWithinLimit
    OBVIOUS
<1>1. TypeOK /\ QuotaInv => SharesWithinLimit
    BY QuotaInvSafe, ReserveBound DEF SharesWithinReserve, SharesWithinLimit, TypeOK
<1> QED BY <1>1, QuotaInvariant, PTL
=============================================================================
