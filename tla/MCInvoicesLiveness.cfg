CONSTANTS
    a1 = a1  a2 = a2  a3 = a3
    i1 = i1  i2 = i2  i3 = i3
    r1 = r1  r2 = r2
    first = first  second = second
    None = None
    Assignments <- OneAssignment
    Accounts <- OneTerm
    AccountOf <- TermOf
    InvoiceIds <- ThreeInvoices
    Requests <- TwoRequests
    Occupied <- ThirdOccupied
SPECIFICATION FairSpec
PROPERTIES
    EveryRequestReturns
CHECK_DEADLOCK FALSE
