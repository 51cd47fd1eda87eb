\* Shares that divide the period, one request at a time.
SPECIFICATION Spec
CONSTANTS
    Workers = {w1}
    Shares = {2, 4}
    Period = 4
    Burst = 1
    MaxTime = 5
INVARIANTS ShareWindowBound
