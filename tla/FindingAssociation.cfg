SPECIFICATION Spec
CONSTANTS
    none = none
    w1 = w1
    w2 = w2
    None = none
    Workers = {w1}
    Payloads <- Late
    Stocks = {}
    Closes = {}
    MaxAttempts = 2
    Lease = 1
    MaxResumes = 0
    Sources = {"push", "lookup"}
    Reviews = FALSE
    MaxVersion = 3
    MaxEvidence = 2
INVARIANT AssociationReachesLedger
CHECK_DEADLOCK FALSE
