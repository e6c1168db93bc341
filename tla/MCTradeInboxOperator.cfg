SPECIFICATION FairSpec
CONSTANTS
    none = none
    w1 = w1
    w2 = w2
    None = none
    Workers = {w1}
    Payloads <- Three
    Stocks = {"s1"}
    Closes = {"c1"}
    MaxAttempts = 2
    Lease = 1
    MaxResumes = 1
    Sources = {"push", "file", "lookup"}
    Reviews = TRUE
    MaxVersion = 2
    MaxEvidence = 2
ACTION_CONSTRAINT Surrounded
INVARIANTS IInv NoTradeVanishes
PROPERTY PushedRowSettles
CHECK_DEADLOCK FALSE
