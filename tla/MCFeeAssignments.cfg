CONSTANTS
    a1 = a1  first = first
    p1 = p1  p2 = p2
    i1 = i1  i2 = i2
    payer = payer  biller = biller  editor = editor
    None = None
    Assignments <- OneAssignment
    Accounts <- OneTerm
    AccountOf <- SameTerm
    Requests <- OnePayer
    Occupied <- NoNumber
    Billers <- OneBiller
    Editors <- OneEditor
    MaxAmount = 2
    RowIds <- TwoRows
    InvoiceIds <- TwoInvoices
SPECIFICATION AssignmentsSpec
CHECK_DEADLOCK FALSE
SYMMETRY Symmetry
PROPERTIES
    PaymentFitsBill
    FreezeRespected
