CONSTANTS
    ama = ama  kofi = kofi  q1 = q1  q2 = q2
    None = None
    Omitted = Omitted
    Terms <- OneTerm
    Dates <- OneDay
    Today = 1
    Enrollments <- TwoEnrollments
    Movers <- OneMover
    Payloads <- Submissions
    Requests <- TwoRequests
    MaxTime = 2
SPECIFICATION Spec
SYMMETRY Symmetry
INVARIANTS
    OpenWhileAsked
    LockHolds
    RegisterExplained
    TotalsAgree
CHECK_DEADLOCK FALSE
