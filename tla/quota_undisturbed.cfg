SPECIFICATION Spec
CONSTANTS
    r1 = r1
    r2 = r2
    r3 = r3
    NoSnapshot = NoSnapshot
    Reviews <- ThreeReviews
    Oversized <- OneOversized
    DailyLimit = 1
    TokenLimit = 4
    Costs <- UnitCost
    MaxDay = 1
    Disruptions <- Nothing
INVARIANTS
    SlotsExact
    NeverUncounted
PROPERTIES
    NoEarlyRefusal
    GateSpec
