SPECIFICATION FairSpec
CONSTANTS
    none = none
    w1 = w1
    w2 = w2
    None = none
    Workers = {w1}
    Payloads <- Late
    Stocks = {}
    Closes = {}
    MaxAttempts = 2
    Lease = 1
    MaxResumes = 0
    Sources = {"push", "lookup"}
    Reviews = TRUE
    MaxVersion = 3
    MaxEvidence = 2
PROPERTY ReviewStays
CHECK_DEADLOCK FALSE
