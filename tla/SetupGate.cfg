SPECIFICATION FairSpec
CONSTANTS
    r1 = r1
    r2 = r2
    q1 = q1
    q2 = q2
    TTL = 2
    Replicas <- TwoReplicas
    Requests <- TwoRequests
    Kinds = {"guarded", "owner", "status"}
INVARIANTS
    CacheIsTruthful
    NoReturnToUnclaimed
PROPERTY
    GuardOpens
