SPECIFICATION FairSpec
CONSTANTS
    c1 = c1
    c2 = c2
    m1 = m1
    b1 = b1
    b2 = b2
    Nobody = Nobody
    Claimants <- TwoClaimants
    Clis <- OneCli
    Boots <- TwoBoots
    Casts <- FourAtATime
INVARIANTS
    OneOwnerWithoutTheIndex
    RefusedTokenIsDead
PROPERTIES
    AnswersAreTruthful
    EveryoneFinishes
