CONSTANTS
    ama = ama  esi = esi  amaA = amaA  amaB = amaB  esiA = esiA
    kofi = kofi  yaw = yaw
    r1 = r1  b1 = b1  b2 = b2  None = None
    Students <- TwoStudents
    Guardians <- TwoGuardians
    Phones <- PhonesTyped
    Requests <- OneRequest
    Batches <- TwoBatches
    Occasions <- TwoOccasions
    Reminding <- OneReminder
    Enrollments <- ThreeEnrollments
    StudentOf <- Owners
    Templates <- Wording
    ValuesOf <- Values
SPECIFICATION Spec
SYMMETRY Symmetry
CONSTRAINT Bound
INVARIANTS
    SmsHasConsent
    BatchAccounted
    WithdrawnIsSilent
    PricedAsSent
PROPERTIES
    PrimaryKept
CHECK_DEADLOCK FALSE
