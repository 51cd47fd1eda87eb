\* Two demand patterns or two limits in a row, calls and answers lost.
SPECIFICATION DemandSpec
CONSTANTS
    Nodes = {1, 2, 3}
    Proposer = 1
    NodeCount = 3
    Limits = {3, 6}
    Hysteresis = 2
    Faults = {"loss", "limitChange"}
    MaxRound = 3
    MaxLate = 0
    Weights = {1, 4}
    MaxShifts = 1
PROPERTIES RebalancesOnly FollowsUnlessRefused
