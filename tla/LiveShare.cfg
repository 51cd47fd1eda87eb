\* Shares that come and go, 0 and one that does not divide the period among them.
SPECIFICATION Spec
CONSTANTS
    Workers = {w1, w2}
    Shares = {0, 2, 3}
    Period = 4
    Burst = 1
    MaxTime = 5
INVARIANTS TypeOK NeverLockedOut
PROPERTIES KeepsLivePace
