\* One node, two workers, the shortest channels: every way a scenario may go.
SPECIFICATION FairSpec
CONSTANTS
    Workers = {w1, w2}
    Nodes = {n1}
    Victim = n1
    Kills = {TRUE, FALSE}
    RequestsCap = 1
    RecordsCap = 1
    MaxAttempts = 2
    Minute = 2
    Limit = 1
    Burst = 1
    ProbeTime = 1
    StartTime = 3
    Duration = 2
    KillAt = 2
    MaxTime = 5
    MaxAdrift = 1
INVARIANTS TypeOK NothingLost LeftRunning
PROPERTIES ScenarioEnds
CHECK_DEADLOCK FALSE
