\* Operations: two handlers, two workers, one edit, every age one tick.
\* Refresh: two rows of one account, of which PM refuses the first's request,
\* pages of one, two faults.  Cursors: two accounts, two runs, two hours.
\* Configuration: two publishers, two targets of which one is new.
\* Projection: two accounts with a lot each, seven events at two times of which
\* three are stored or rewritten, two builds, a new checkpoint every two events.
SPECIFICATION ServicesSpec
CONSTANTS
    Handlers = {h1, h2}
    UpgradeWorkers = {u1, u2}
    Ttl = 1
    StaleAge = 1
    BoxLease = 1
    MaxEdits = 1
    RefreshCount = 2
    AccountOf <- MCAccountOf
    Claimers = {"push"}
    PageLimit = 1
    Refused = {1}
    MaxFaults = 2
    CursorAccounts = {"a", "b"}
    Runs = {r1, r2}
    Executions = {e1}
    AccountFor <- MCAccountFor
    Lookback = 2
    Overlap = 1
    Delay = 1
    MaxRun = 1
    MaxTime = 2
    Publishers = {p1, p2}
    Targets = {"t1", "t2"}
    Fresh = {"t2"}
    MaxVersion = 3
    Trade <- MCTrade
    LotAccount <- MCLotAccount
    Builds = {"old", "new"}
    RotateAfter = 2
    Together <- MCTogether
    MaxTradeTime = 2
    MaxGeneration = 3
INVARIANTS OpInv RefreshInv CursorInv ConfigInv ProjectionInv AllReadable PreviewIsHonest
PROPERTIES FinalStays SentStays EveryHandoffEnds CursorForward OutsideWritesSurvive BasedOnSource
CHECK_DEADLOCK FALSE
