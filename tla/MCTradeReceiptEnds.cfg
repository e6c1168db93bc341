SPECIFICATION FairSpec
CONSTANTS
    s1 = s1
    s2 = s2
    t1 = t1
    r1 = r1
    r2 = r2
    none = none
    fan = fan
    Senders = {s1}
    Kinds <- MCKinds
    Targets = {t1}
    Fanout = fan
    Recipients = {r1, r2}
    None = none
    Limit = 2
INVARIANTS ReceiptsAreTrue
PROPERTIES DueReceiptEnds
