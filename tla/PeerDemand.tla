------------------------------ MODULE PeerDemand ------------------------------
(***************************************************************************)
(* The rebalancer of module PeerRebalance with the demand that drives it:  *)
(* the target of a round is the proportional split of the limit over the   *)
(* weights of the nodes polled, so a round is no longer any split but the  *)
(* one the demand asks for.                                                *)
(*                                                                         *)
(* Abstracted: weight[n] stands for int64(smoothDemand(n) * 1000) + 1, the *)
(* proposer's smoothed view of node n.  It moves between two ticks, the    *)
(* limit at any time, together at most MaxShifts times, so that            *)
(* convergence can be asked for.                                           *)
(***************************************************************************)
EXTENDS PeerRebalance, ProportionalSplit

CONSTANTS
    Weights,     \* the weights a node may have
    MaxShifts    \* bound: demand and limit shift no more often

ASSUME WeightsAssumption == Weights \subseteq Nat \ {0}
ASSUME ShiftsAssumption == MaxShifts \in Nat

VARIABLES
    weight,      \* weight[n]: how much of the demand the proposer sees at n
    shifts       \* how often demand or limit have shifted

demandVars == <<weight, shifts>>
allVars == <<vars, demandVars>>

DemandInit ==
    /\ Init
    /\ weight \in [Nodes -> Weights]
    /\ shifts = 0

\* The split of l that the demand at the nodes of S asks for.
Wanted(S, l) ==
    LET split == Split(l, [n \in S |-> weight[n]])
    IN  [n \in Nodes |-> IF n \in S THEN split[n] ELSE 0]

\* rebalanceCustomer up to the hysteresis: either no share is far enough
\* from the target, or a round towards it begins.
Rebalance ==
    /\ phase = "poll"
    /\ Polled
    /\ KnownLimit > 0
    /\ LET t == Wanted(Reachable, KnownLimit)
       IN  IF \A n \in Reachable : Distance(t[n], Assumed[n]) < Hysteresis
           THEN EndTick /\ UNCHANGED <<limit, nodeVars, net>>
           ELSE StartRound(t)

\* The proposer has not seen a request of the customer.
SkipUnknown ==
    /\ phase = "poll"
    /\ Polled
    /\ KnownLimit = 0
    /\ EndTick
    /\ UNCHANGED <<limit, nodeVars, net>>

\* The traffic moves to other nodes.
Shift ==
    /\ shifts < MaxShifts
    /\ phase = "idle"
    /\ weight' \in [Nodes -> Weights]
    /\ shifts' = shifts + 1
    /\ UNCHANGED vars

\* An override opens or closes, or a reload changes the limit, whatever the
\* proposer is doing: a round under way writes the old limit back.
ShiftLimit ==
    /\ shifts < MaxShifts
    /\ \E l \in Limits \ {limit} : ChangeLimit(l)
    /\ shifts' = shifts + 1
    /\ UNCHANGED weight

ProposerStep ==
    \/ \E n \in Nodes : PollNode(n) \/ SendShare(n)
    \/ SkipUnknown
    \/ Rebalance
    \/ ApplyLocal
    \/ \E m \in net : Ack(m) \/ TimeoutLost(m)
    \/ BeginGrow \/ AbandonRound \/ FinishRound

Step ==
    \/ \E n \in Nodes : Allow(n)
    \/ Tick
    \/ ProposerStep
    \/ \E m \in net : Handle(m)

DemandNext == Shift \/ ShiftLimit \/ (Step /\ UNCHANGED demandVars)

(***************************************************************************)
(* Fairness: the ticker keeps firing, the goroutine and the handlers run,  *)
(* round-robin traffic reaches every node, and of the calls repeated for   *)
(* ever to one node some get there.  Answers may all be lost.              *)
(***************************************************************************)
DemandFairness ==
    /\ WF_allVars(Tick /\ UNCHANGED demandVars)
    /\ WF_allVars(ProposerStep /\ UNCHANGED demandVars)
    /\ WF_allVars((\E m \in net : Handle(m)) /\ UNCHANGED demandVars)
    /\ \A n \in Nodes : WF_allVars(Allow(n) /\ UNCHANGED demandVars)
    /\ \A n \in Nodes : SF_allVars((\E m \in net : m.to = n /\ Enter(m)) /\ UNCHANGED demandVars)

DemandSpec == DemandInit /\ [][DemandNext]_allVars /\ DemandFairness

-----------------------------------------------------------------------------
\* Properties

\* Every round the demand asks for is one the rebalancer may run: a
\* proportional split gives out the limit exactly, over the nodes polled.
RebalancesOnly == Spec

\* When demand and limit stay as they are, the shares come within the
\* hysteresis of what they ask for and stay there: a round that failed is
\* picked up again by a later tick (peer.go: "recomputed from observed reality").
SharesFollowDemand ==
    <>[](\A n \in Nodes : Distance(Committed[n], Wanted(Nodes, limit)[n]) < Hysteresis)

\* Whatever calls are lost, only one thing keeps the shares away from a
\* settled demand and limit: a node refusing the proposer's calls as stale
\* for ever.
FollowsUnlessRefused ==
    SharesFollowDemand \/ []<><<\E m \in net : Refuse(m)>>_allVars
=============================================================================
