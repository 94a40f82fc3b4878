CONSTANTS
    parent = parent  teacher = teacher  receipt = receipt
    c1 = c1  c2 = c2  tick = tick  manual = manual
    None = None
    Guardians <- OneGuardian
    Staff <- OneStaff
    Keys <- OneKey
    Enqueuers <- TwoCalls
    Pollers <- TwoPollers
    MaxMessages = 2
    BatchSize = 2
SPECIFICATION Spec
PROPERTIES
    WithdrawalRespected
CHECK_DEADLOCK FALSE
