SPECIFICATION JobsSpec
CONSTANTS
    t1 = t1
    t2 = t2
    t3 = t3
    a = a
    b = b
    Txs <- ThreeTxs
    Keys <- TwoKeys
    Plan <- CrossedPlans
    s1 = s1
    s2 = s2
    Sites <- TwoSites
    Concurrency = 1
    PollInterval = 1
    StaleFloor = 5
    ClaimTime = 5
    Hanging = {s1}
INVARIANTS
    OneLiveJobPerKey
    CommittedHasItsJobs
    RefusedOnlyByAFinish
    ReportIsHonest
PROPERTIES
    TransactionsEnd
    WedgedIsReported
    HealthRecovers
