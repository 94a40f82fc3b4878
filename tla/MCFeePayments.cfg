CONSTANTS
    a1 = a1  a2 = a2
    r1 = r1  r2 = r2  r3 = r3
    p1 = p1  p2 = p2  p3 = p3  p4 = p4
    ama = ama  kofi = kofi  tuition = tuition  pta = pta
    None = None
    Assignments <- TwoAssignments
    Requests <- ThreeRequests
    RowIds <- FourRows
    MaxAmount = 2
    Occupied <- ThirdOccupied
    Students <- TwoStudents
    Terms <- TwoTerms
    FeeTypes <- TwoTypes
    Books <- FourBooks
SPECIFICATION Spec
SYMMETRY Symmetry
INVARIANTS
    NeverOvercollected
    ReversedOnce
    TextedWasRecorded
    ReportsAgree
PROPERTIES
    ImplementsLedger
CHECK_DEADLOCK FALSE
