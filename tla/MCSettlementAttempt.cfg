SPECIFICATION Spec
CONSTANTS
    w1 = w1
    w2 = w2
    Workers = {w1, w2}
    Lease = 1
    Backoff = 1
    MaxClaims = 2
    MaxScope = 1
    MaxCrashes = 1
SYMMETRY Symmetry
INVARIANTS AttemptInv OneCall OneBatch
PROPERTIES BegunOnce NothingForgotten
CHECK_DEADLOCK FALSE
