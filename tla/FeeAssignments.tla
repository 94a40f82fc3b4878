---------------------------- MODULE FeeAssignments ----------------------------
(***************************************************************************)
(* The amount of a fee assignment under all that touches it: payments      *)
(* (FeePayments), invoices (Invoices), and FeeAssignmentsService.update    *)
(* (src/src/fees/fee-assignments.service.ts), which edits the amount.      *)
(* update opens no transaction and takes no lock: it reads the assignment  *)
(* and its payments, then the live lines, then writes.                     *)
(*                                                                         *)
(* Requests are those on /fees/payments, and the unprefixed names theirs.  *)
(***************************************************************************)
EXTENDS FeePayments

CONSTANTS
    Accounts, AccountOf, InvoiceIds,        \* as in Invoices
    Billers,                \* requests on /invoices
    Editors                 \* requests on PATCH /fees/assignments/:id

ASSUME BillsAssumption ==
    /\ None \notin Accounts \cup InvoiceIds \cup Billers
    /\ AccountOf \in [Assignments -> Accounts]

VARIABLES
    invoices, lines, billSequence, billSequenceLock, invoiceLock, billPc,
    billReq, billAudited,   \* as in Invoices
    editPc, edit,           \* the next statement and the locals of each edit
    editAudited             \* assignments with a fee_assignments.updated entry

paymentVars == <<feePayments, lock, sequence, sequenceLock, pc, req, audited,
                 texted>>
invoiceVars == <<invoices, lines, billSequence, billSequenceLock, invoiceLock,
                 billPc, billReq, billAudited>>
editVars == <<editPc, edit, editAudited>>
assignmentVars == <<amountDue, paymentVars, invoiceVars, editVars>>

Bill == INSTANCE Invoices
          WITH Requests <- Billers, Occupied <- {},
               sequence <- billSequence, sequenceLock <- billSequenceLock,
               pc <- billPc, req <- billReq, audited <- billAudited
-----------------------------------------------------------------------------
\* collected is what the first read found; known is the invoices there were
\* when the live lines were read, kept for the statement of FreezeRespected.
Edit == [assignment : Assignments, amount : 1 .. MaxAmount, collected : Int,
         known : SUBSET InvoiceIds]
NoEdit == [assignment |-> None, amount |-> None, collected |-> None,
           known |-> {}]

OnLiveInvoice(a) == \E l \in Bill!LiveLines : l.feeAssignment = a

AssignmentsInit ==
    /\ Init
    /\ Bill!Init
    /\ editPc = [e \in Editors |-> "idle"]
    /\ edit = [e \in Editors |-> NoEdit]
    /\ editAudited = {}

ReturnEdit(e) ==
    /\ editPc' = [editPc EXCEPT ![e] = "idle"]
    /\ edit' = [edit EXCEPT ![e] = NoEdit]

\* update: findFirst with the payments.
UpdateStart(e) ==
    /\ editPc[e] = "idle"
    /\ \E a \in Assignments, m \in 1 .. MaxAmount :
         edit' = [edit EXCEPT ![e] =
                    [assignment |-> a, amount |-> m,
                     collected |-> collectedFrom(a), known |-> {}]]
    /\ editPc' = [editPc EXCEPT ![e] = "assertNotInvoiced"]
    /\ UNCHANGED <<amountDue, paymentVars, invoiceVars, editAudited>>

\* Mutant of AssertNotInvoiced: only the comparison is left.
AssertNothing(e) ==
    /\ editPc[e] = "assertNotInvoiced"
    /\ edit[e].amount >= edit[e].collected
    /\ edit' = [edit EXCEPT ![e].known = Bill!Existing]
    /\ editPc' = [editPc EXCEPT ![e] = "write"]
    /\ UNCHANGED <<amountDue, paymentVars, invoiceVars, editAudited>>

\* assertNotInvoiced, then the comparison with what had been collected.
AssertNotInvoiced(e) ==
    /\ editPc[e] = "assertNotInvoiced"
    /\ ~OnLiveInvoice(edit[e].assignment)
    /\ edit[e].amount >= edit[e].collected
    /\ edit' = [edit EXCEPT ![e].known = Bill!Existing]
    /\ editPc' = [editPc EXCEPT ![e] = "write"]
    /\ UNCHANGED <<amountDue, paymentVars, invoiceVars, editAudited>>

RefuseUpdate(e) ==
    /\ editPc[e] = "assertNotInvoiced"
    /\ \/ OnLiveInvoice(edit[e].assignment)
       \/ edit[e].amount < edit[e].collected
    /\ ReturnEdit(e)
    /\ UNCHANGED <<amountDue, paymentVars, invoiceVars, editAudited>>

\* Mutant of WriteAmount: the row lock of create does not cover the amount.
WriteUnlocked(e) ==
    /\ editPc[e] = "write"
    /\ amountDue' = [amountDue EXCEPT ![edit[e].assignment] = edit[e].amount]
    /\ editPc' = [editPc EXCEPT ![e] = "audit"]
    /\ UNCHANGED <<paymentVars, invoiceVars, edit, editAudited>>

\* The UPDATE waits for a payment that has the row FOR UPDATE.
WriteAmount(e) ==
    /\ editPc[e] = "write"
    /\ lock[edit[e].assignment] = None
    /\ amountDue' = [amountDue EXCEPT ![edit[e].assignment] = edit[e].amount]
    /\ editPc' = [editPc EXCEPT ![e] = "audit"]
    /\ UNCHANGED <<paymentVars, invoiceVars, edit, editAudited>>

AuditUpdate(e) ==
    /\ editPc[e] = "audit"
    /\ editAudited' = editAudited \cup {edit[e].assignment}
    /\ ReturnEdit(e)
    /\ UNCHANGED <<amountDue, paymentVars, invoiceVars>>

\* A crash or a failed statement: nothing is rolled back, each statement of
\* update is a transaction of its own.
AbortUpdate(e) ==
    /\ editPc[e] # "idle"
    /\ ReturnEdit(e)
    /\ UNCHANGED <<amountDue, paymentVars, invoiceVars, editAudited>>

Update(e) ==
    \/ UpdateStart(e) \/ AssertNotInvoiced(e) \/ RefuseUpdate(e)
    \/ WriteAmount(e) \/ AuditUpdate(e) \/ AbortUpdate(e)

PaymentStep ==
    Next /\ UNCHANGED <<invoiceVars, editVars>>

\* A new line refers to its fee_assignments row, so PostgreSQL makes the insert
\* wait for a payment that has the row FOR UPDATE.
LinesMayRefer ==
    \A l \in lines' \ lines : l.voided \/ lock[l.feeAssignment] = None

InvoiceStep ==
    /\ Bill!Next
    /\ LinesMayRefer
    /\ UNCHANGED <<amountDue, paymentVars, editVars>>

AssignmentsNext ==
    PaymentStep \/ InvoiceStep \/ \E e \in Editors : Update(e)

AssignmentsSpec == AssignmentsInit /\ [][AssignmentsNext]_assignmentVars
-----------------------------------------------------------------------------
AssignmentsTypeOK ==
    /\ TypeOK
    /\ Bill!TypeOK
    /\ editPc \in [Editors -> {"idle", "assertNotInvoiced", "write", "audit"}]
    /\ edit \in [Editors -> Edit \cup {NoEdit}]
    /\ editAudited \subseteq Assignments

\* A payment fits the bill as it stands when the payment commits, also while
\* the bill is being edited: the edit waits for the row that create has locked.
PaymentFitsBill ==
    [][\A a \in Assignments :
         collectedFrom(a)' > collectedFrom(a)
           => collectedFrom(a)' <= amountDue'[a]]_assignmentVars

\* An amount that changes under a live invoice changes only through an edit
\* that looked for live lines before that invoice was issued.
FreezeRespected ==
    [][\A e \in Editors, l \in Bill!LiveLines :
         /\ editPc[e] = "write" /\ editPc'[e] = "audit"
         /\ l.feeAssignment = edit[e].assignment
         => l.invoice \notin edit[e].known]_assignmentVars

\* The inductive strengthening of the two: what payments and invoices keep by
\* themselves they keep next to edits, and since an edit has looked, none of
\* the invoices there were has got a live line of its assignment.
EditsBegun == \A e \in Editors : editPc[e] # "idle" => edit[e] \in Edit

EditsKnow ==
    \A e \in Editors : editPc[e] = "write" =>
        /\ edit[e].known \subseteq Bill!Existing
        /\ \A l \in Bill!LiveLines :
             l.feeAssignment = edit[e].assignment
             => l.invoice \notin edit[e].known

AssignmentsInv ==
    /\ AssignmentsTypeOK /\ PaymentsInv /\ Bill!InvoicesInv
    /\ EditsBegun /\ EditsKnow
=============================================================================
