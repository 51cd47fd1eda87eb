\* Everything that may go wrong, on two nodes.
SPECIFICATION FairSpec
CONSTANTS
    Nodes = {1, 2}
    Proposer = 1
    NodeCount = 2
    Limits = {1, 2}
    Hysteresis = 1
    Faults = {"loss", "late", "pollLoss", "restart", "limitChange"}
    MaxRound = 2
    MaxLate = 1
INVARIANTS TypeOK
PROPERTIES FencesOnlyRise RoundsEnd
