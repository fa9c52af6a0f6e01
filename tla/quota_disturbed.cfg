SPECIFICATION Spec
CONSTANTS
    r1 = r1
    r2 = r2
    r3 = r3
    NoSnapshot = NoSnapshot
    Reviews <- ThreeReviews
    Oversized <- NoReviews
    DailyLimit = 2
    TokenLimit = 4
    Costs <- UnitCost
    MaxDay = 1
    Disruptions <- Deaths
SYMMETRY Symmetry
INVARIANTS
    TypeOK
    SlotsCovered
    SlotsWithinSeenQuota
