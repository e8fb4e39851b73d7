SPECIFICATION FairSpec
CONSTANTS
    q1 = q1
    q2 = q2
    o1 = o1
    Nowhere = Nowhere
    Requests <- TwoRequests
    Origins <- OneOrigin
    Casts <- PollersAndStrangers
    OwnerCeiling = 4
    StatusCeiling = 1
    PerOrigin = 1
    Global = 2
    Window = 2
    Slots = 1
INVARIANTS
    AuditIsBounded
    ClaimedIsInert
PROPERTIES
    RightTokenIsNotStarved
    EveryRequestIsAnswered
