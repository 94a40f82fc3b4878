CONSTANTS
    r1 = r1  r2 = r2
    d1 = d1  d2 = d2
    short = short  long = long
    Null = Null
    Takers <- TwoTakers
    Ids <- TwoIds
    Formats <- TwoFormats
    MaxTyped = 2
    MaxGenerated = 2
SPECIFICATION NumbersSpec
SYMMETRY Symmetry
INVARIANT CountersGivenOnce
PROPERTY IncrementConsumed
CHECK_DEADLOCK FALSE
