\* A quota that does not divide the period, two requests at a time.
SPECIFICATION Spec
CONSTANTS
    Workers = {w1, w2}
    Quota = 3
    Period = 7
    Burst = 1
    MaxTime = 11
INVARIANTS TypeOK WindowBound
PROPERTIES KeepsPace
