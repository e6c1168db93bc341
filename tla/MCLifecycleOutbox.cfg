SPECIFICATION Spec
CONSTANTS
    i1 = i1
    i2 = i2
    a1 = a1
    a2 = a2
    d1 = d1
    d2 = d2
    Intents = {i1, i2}
    Accounts = {a1}
    AccountOf <- OneAccount
    Combos = {i2}
    Providers = {"direct", "fanout"}
    Recipients = {"r"}
    Dispatchers = {d1, d2}
    MaxAttempts = 2
    Lease = 1
    Interval = 1
    FirstBackoff = 1
    LaterBackoff = 1
    MaxRevision = 1
    MaxTime = 3
SYMMETRY Symmetry
INVARIANTS OutboxInv
PROPERTIES StartsAreSpaced BatchDeliversOnce
CONSTRAINT Small
CHECK_DEADLOCK FALSE
