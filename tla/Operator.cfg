SPECIFICATION FairSpec
CONSTANTS
    r1 = r1
    r2 = r2
    r3 = r3
    NoRunner = NoRunner
    Runners <- Releases
    Sites <- TwoSites
    Files <- Shipped
    DoctorVersion = 2
    Situations <- Everyday
INVARIANTS
    AppliedOnceInOrder
    SuccessMeansMigrated
    DoctorTellsTheTruth
    OriginsMatchBySite
PROPERTY
    CommandsEnd
