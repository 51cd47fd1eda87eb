\* Three nodes, a limit that does not divide evenly, calls and answers lost.
SPECIFICATION Spec
CONSTANTS
    Nodes = {1, 2, 3}
    Proposer = 1
    NodeCount = 3
    Limits = {5}
    Hysteresis = 2
    Faults = {"loss"}
    MaxRound = 3
    MaxLate = 0
INVARIANTS SharesWithinReserve GrowWithinLimit GrowsOnlyAfterShrinks
