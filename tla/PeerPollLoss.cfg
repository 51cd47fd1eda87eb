\* A node that does not answer the poll, nothing else.
SPECIFICATION Spec
CONSTANTS
    Nodes = {1, 2, 3}
    Proposer = 1
    NodeCount = 3
    Limits = {6}
    Hysteresis = 2
    Faults = {"pollLoss"}
    MaxRound = 2
    MaxLate = 1
INVARIANTS SharesWithinLimit
