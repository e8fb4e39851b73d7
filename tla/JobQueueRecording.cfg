SPECIFICATION FaultFreeSpec
CONSTANTS
    j1 = j1
    j2 = j2
    w1 = w1
    w2 = w2
    s1 = s1
    s2 = s2
    NoWorker = NoWorker
    NoJob = NoJob
    Jobs <- OneJob
    Workers <- TwoWorkers
    Slots <- TwoSlots
    MaxAttempts <- TwoAttempts
    Priority <- FlatPriority
    Registered <- AllRegistered
    Stable = {}
    LeaseTime = 3
    JobTimeout = 6
    OutcomeWriteTimeout = 2
    RetryLadder <- ShortLadder
    Delays <- DelayChoices
INVARIANT
    SuccessIsRecorded
