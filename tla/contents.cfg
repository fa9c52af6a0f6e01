SPECIFICATION ContentsSpec
CONSTANTS
    style = style
    naming = naming
    once = once
    again = again
    w1 = w1
    w2 = w2
    s1 = s1
    s2 = s2
    c1 = c1
    c2 = c2
    c3 = c3
    p1 = p1
    p2 = p2
    Nowhere = Nowhere
    Documents <- TwoDocuments
    Deletes <- TwoDeletes
    Faults <- EveryFault
    Workers <- TwoWorkers
    Size = 4
    Overlap = 2
    LineLengths <- AnyLength
    MaxLines = 3
    Sessions <- TwoSessions
    Chats <- ThreeChats
    HistoryMessages = 2
    Fragments <- TwoCalls
    MaxText = 1
    Dialects <- EveryDialect
    Pages <- TwoPages
    Begun <- FirstPage
    Tokens = 2
    MaxPiece = 2
    MaxSends = 2
INVARIANTS
    ContentsTypeOK
    OrphansOnlyAfterFailures
    StoredIsSearchable
    DeletedIsGone
    CollectionIndexed
    RulesWhole
    ContextUsable
    CallsWhole
    RepliesIntact
