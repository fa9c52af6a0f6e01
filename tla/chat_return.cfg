SPECIFICATION PageSpec
CONSTANTS
    p1 = p1
    p2 = p2
    Nowhere = Nowhere
    Pages <- TwoPages
    Begun <- TwoPages
    Tokens = 1
    MaxPiece = 2
    MaxSends = 1
INVARIANT AddressShown
