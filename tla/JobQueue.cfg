SPECIFICATION CalmFairSpec
CONSTANTS
    j1 = j1
    j2 = j2
    w1 = w1
    w2 = w2
    s1 = s1
    s2 = s2
    NoWorker = NoWorker
    NoJob = NoJob
    Jobs <- TwoJobs
    Workers <- TwoWorkers
    Slots <- OneSlot
    MaxAttempts <- UnevenAttempts
    Priority <- UnevenPriority
    Registered <- PartlyRegistered
    Stable = {w2}
    LeaseTime = 3
    JobTimeout = 4
    OutcomeWriteTimeout = 2
    RetryLadder <- ShortLadder
    Delays <- NoDelay
INVARIANTS
    OneRunPerClaim
    NoOverlapWithoutFaults
PROPERTIES
    ImplementsLifecycle
    Settles
