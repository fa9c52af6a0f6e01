SPECIFICATION FairSpec
CONSTANTS
    r1 = r1
    r2 = r2
    r3 = r3
    NoSnapshot = NoSnapshot
    Reviews <- TwoReviews
    Oversized <- NoReviews
    DailyLimit = 1
    TokenLimit = 1
    Costs <- NoneOrUnit
    MaxDay = 2
    Disruptions <- Everything
INVARIANTS
    SnapshotsNeverAhead
    BilledRunsAnswered
PROPERTY SlotsComeBack
