\* A perfect network, and one change of the demand.
SPECIFICATION DemandSpec
CONSTANTS
    Nodes = {1, 2, 3}
    Proposer = 1
    NodeCount = 3
    Limits = {9}
    Hysteresis = 2
    Faults = {}
    MaxRound = 3
    MaxLate = 0
    Weights = {1, 2, 4}
    MaxShifts = 1
PROPERTIES SharesFollowDemand
