\* Two handlers of one node, each between its critical sections.
SPECIFICATION Spec
CONSTANTS
    Nodes = {1, 2}
    Proposer = 1
    NodeCount = 2
    Limits = {4}
    Hysteresis = 1
    Faults = {"late"}
    MaxRound = 3
    MaxLate = 1
PROPERTIES StaleNeverLands
