CONSTANTS
    parent = parent  teacher = teacher  receipt = receipt
    c1 = c1  c2 = c2  tick = tick  manual = manual
    None = None
    Guardians <- OneGuardian
    Staff <- NoStaff
    Keys <- OneKey
    Enqueuers <- OneCall
    Pollers <- TwoPollers
    MaxMessages = 2
    BatchSize = 2
SPECIFICATION FairSpec
INVARIANTS
    NoDoubleClaim
    AttemptsBounded
    ChargedOnce
    SentWasConsented
PROPERTIES
    OutcomeFinal
    SettledUnlessStranded
CHECK_DEADLOCK FALSE
