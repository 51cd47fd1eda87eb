\* A longer load, without a kill: answers late by more than a minute.
SPECIFICATION Spec
CONSTANTS
    Workers = {w1, w2}
    Nodes = {n1}
    Victim = n1
    Kills = {FALSE}
    RequestsCap = 1
    RecordsCap = 1
    MaxAttempts = 1
    Minute = 2
    Limit = 1
    Burst = 1
    ProbeTime = 1
    StartTime = 3
    Duration = 4
    KillAt = 2
    MaxTime = 7
    MaxAdrift = 0
SYMMETRY WorkerSymmetry
INVARIANTS ExcessIsFailed FailNeedsCause TwiceUnlessOvertaken
CHECK_DEADLOCK FALSE
