\* One customer whose limit changes by windows, edits, expiry and restarts.
SPECIFICATION FairSpec
CONSTANTS
    c1 = c1
    NoName = NoName
    Unreadable = Unreadable
    NoConfig = NoConfig
    NoDevClock = NoDevClock
    Configs <- MCConfigs
    Day = 5
    Minute = 4
    Second = 2
    Burst = 1
    NodeCount = 2
    Limits = {2, 3, 4}
    Workers = {w1}
    Customers = {c1}
    DevClocks = {NoDevClock, 4}
    StartTime = 2
    MaxTime = 4
    MaxEvents = 3
INVARIANTS TypeOK OneAnswer
PROPERTIES OnlyExpiryRefuses ReloadCatchesUp EachLimiterKeepsPace ComeBackHonoured
