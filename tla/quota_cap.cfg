SPECIFICATION Spec
CONSTANTS
    r1 = r1
    r2 = r2
    r3 = r3
    NoSnapshot = NoSnapshot
    Reviews <- TwoReviews
    Oversized <- NoReviews
    DailyLimit = 1
    TokenLimit = 4
    Costs <- UnitCost
    MaxDay = 1
    Disruptions <- Nothing
INVARIANT DailyCapHolds
