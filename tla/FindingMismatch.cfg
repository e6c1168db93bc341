SPECIFICATION Spec
CONSTANTS
    i1 = i1
    i2 = i2
    a1 = a1
    a2 = a2
    d1 = d1
    d2 = d2
    Intents = {i1, i2}
    Accounts = {a1}
    AccountOf <- OneAccount
    Combos = {}
    Providers = {"fanout"}
    Recipients = {"r"}
    Dispatchers = {d1}
    MaxAttempts = 1
    Lease = 2
    Interval = 1
    FirstBackoff = 1
    LaterBackoff = 1
    MaxRevision = 0
    MaxTime = 3
INVARIANT MembersAwait
CHECK_DEADLOCK FALSE
