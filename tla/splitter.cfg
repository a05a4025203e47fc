CONSTANTS
    Lengths <- MCLengths
    Opens <- MCOpens
    HoldMax = 3
    MaxPieces = 5
SPECIFICATION Spec
INVARIANTS SplitAsWritten NothingLost
