CONSTANTS
    a1 = a1  a2 = a2  a3 = a3
    i1 = i1  i2 = i2  i3 = i3
    r1 = r1  r2 = r2
    first = first  second = second
    None = None
    Assignments <- ThreeAssignments
    Accounts <- TwoTerms
    AccountOf <- TermOf
    InvoiceIds <- ThreeInvoices
    Requests <- TwoRequests
    Occupied <- NoneOccupied
SPECIFICATION Spec
SYMMETRY Symmetry
INVARIANTS
    OneLiveLine
    LiveIffIssued
    HistoryTold
    AuditTrailTrue
PROPERTIES
    ImplementsCover
CHECK_DEADLOCK FALSE
