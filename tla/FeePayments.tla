----------------------------- MODULE FeePayments -----------------------------
(***************************************************************************)
(* The payment ledger: FeePaymentsService.create and .reverse              *)
(* (src/src/fees/fee-payments.service.ts) over the tables fee_assignments, *)
(* fee_payments and the receipt_number row of document_sequences.          *)
(*                                                                         *)
(* Every HTTP request being served is a process.  One database statement   *)
(* is one action; a request takes row locks inside its transaction and     *)
(* keeps them until it commits, refuses or aborts.  Writes become visible  *)
(* at commit, so the insert of a payment and the COMMIT that follows it    *)
(* are one action.  amountDue is written by FeeAssignmentsService.update,  *)
(* which is not in this module: see FeeAssignments.                        *)
(***************************************************************************)
EXTENDS Integers, FiniteSets

CONSTANTS
    Assignments,    \* ids of fee_assignments rows
    RowIds,         \* the ids fee_payments rows may be given (a bound)
    Requests,       \* the HTTP requests being served at the same time
    MaxAmount,      \* the largest amount parseAmount lets through, in pesewas
    Occupied,       \* receipt numbers present before the sequence reached them
    None            \* SQL NULL, and "nobody" for a lock

ASSUME NoneAssumption ==
    None \notin Assignments \cup RowIds \cup Requests \cup Nat
ASSUME AmountAssumption == MaxAmount \in Nat \ {0}
ASSUME OccupiedAssumption == Occupied \subseteq Nat

VARIABLES
    amountDue,      \* fee_assignments.amount_due
    feePayments,    \* the rows of fee_payments
    lock,           \* who holds SELECT ... FOR UPDATE on each assignment row
    sequence,       \* document_sequences.current_number of receipt_number
    sequenceLock,   \* the transaction whose UPDATE of that row is uncommitted
    pc,             \* the next statement of each request
    req,            \* the local variables of each request
    audited,        \* audit_logs entries: <<action, entityId>>
    texted          \* payments whose receipt was handed to the SMS outbox

vars == <<amountDue, feePayments, lock, sequence, sequenceLock, pc, req,
          audited, texted>>
-----------------------------------------------------------------------------
MAX_RECEIPT_ATTEMPTS == 3

\* What parseAmount returns: positive, and no more than the column holds.
Money == 1 .. MaxAmount

\* The amount of a reversal is stored negated; the row here keeps its size and
\* reversesPaymentId gives its sign (chk_fee_payment_amount_sign).
FeePayment ==
    [id : RowIds, feeAssignmentId : Assignments, amount : Money,
     receiptNumber : Nat \cup {None}, reversesPaymentId : RowIds \cup {None}]

\* A sum of amounts, counted pesewa by pesewa.
Units(rows) == {u \in rows \X Money : u[2] <= u[1].amount}
Total(rows) == Cardinality(Units(rows))

PaidOn(a) ==
    {p \in feePayments : p.feeAssignmentId = a /\ p.reversesPaymentId = None}
ReversedOn(a) ==
    {p \in feePayments : p.feeAssignmentId = a /\ p.reversesPaymentId # None}

\* collectedFrom: the signed sum of the rows of an assignment.
collectedFrom(a) == Total(PaidOn(a)) - Total(ReversedOn(a))

ReversalsOf(id) == {p \in feePayments : p.reversesPaymentId = id}
ReceiptsInUse == Occupied \cup {p.receiptNumber : p \in feePayments}

PayStates == {"lock", "balance", "claim", "insert", "audit", "notify"}
ReverseStates == {"check", "reverse", "auditReversal"}
InTransaction == {"balance", "claim", "insert"}

NoRequest == [row |-> None, assignment |-> None, amount |-> None,
              attempt |-> 0, reverses |-> None]
Request == [row : RowIds, assignment : Assignments, amount : Money,
            attempt : 1 .. MAX_RECEIPT_ATTEMPTS,
            reverses : RowIds \cup {None}]

\* The database gives each new row an id of its own.
FreshIds ==
    RowIds \ ({p.id : p \in feePayments} \cup {req[r].row : r \in Requests})

Init ==
    /\ amountDue \in [Assignments -> Money]
    /\ feePayments = {}
    /\ lock = [a \in Assignments |-> None]
    /\ sequence = 0
    /\ sequenceLock = None
    /\ pc = [r \in Requests |-> "idle"]
    /\ req = [r \in Requests |-> NoRequest]
    /\ audited = {}
    /\ texted = {}
-----------------------------------------------------------------------------
Goto(r, label) == pc' = [pc EXCEPT ![r] = label]

\* The request has its answer, or its error.
Return(r) ==
    /\ Goto(r, "idle")
    /\ req' = [req EXCEPT ![r] = NoRequest]

\* COMMIT or ROLLBACK: the locks a transaction took are given up.
ReleaseLocks(r) ==
    /\ lock' = [a \in Assignments |-> IF lock[a] = r THEN None ELSE lock[a]]
    /\ sequenceLock' = IF sequenceLock = r THEN None ELSE sequenceLock

KeepLocks == UNCHANGED <<lock, sequenceLock>>

\* create: the amount has been parsed; the first attempt begins.
CreateStart(r) ==
    /\ pc[r] = "idle"
    /\ \E id \in FreshIds, a \in Assignments, m \in Money :
         req' = [req EXCEPT ![r] =
                   [row |-> id, assignment |-> a, amount |-> m,
                    attempt |-> 1, reverses |-> None]]
    /\ Goto(r, "lock")
    /\ KeepLocks
    /\ UNCHANGED <<amountDue, feePayments, sequence, audited, texted>>

\* Mutant of LockAssignment: the SELECT lacks its FOR UPDATE.
ReadAssignment(r) ==
    /\ pc[r] = "lock"
    /\ Goto(r, "balance")
    /\ KeepLocks
    /\ UNCHANGED <<amountDue, feePayments, sequence, req, audited, texted>>

\* SELECT id, amount_due FROM fee_assignments ... FOR UPDATE.
LockAssignment(r) ==
    /\ pc[r] = "lock"
    /\ lock[req[r].assignment] = None
    /\ lock' = [lock EXCEPT ![req[r].assignment] = r]
    /\ Goto(r, "balance")
    /\ UNCHANGED <<amountDue, feePayments, sequence, sequenceLock, req,
                   audited, texted>>

\* What may still be recorded against the assignment, read under its lock.
Remaining(r) == amountDue[req[r].assignment] - collectedFrom(req[r].assignment)

\* Mutant of AcceptAmount: compares with the amount due, not the balance.
AcceptUpToDue(r) ==
    /\ pc[r] = "balance"
    /\ req[r].amount <= amountDue[req[r].assignment]
    /\ Goto(r, "claim")
    /\ KeepLocks
    /\ UNCHANGED <<amountDue, feePayments, sequence, req, audited, texted>>

AcceptAmount(r) ==
    /\ pc[r] = "balance"
    /\ req[r].amount <= Remaining(r)
    /\ Goto(r, "claim")
    /\ KeepLocks
    /\ UNCHANGED <<amountDue, feePayments, sequence, req, audited, texted>>

\* "exceeds the outstanding balance": the transaction rolls back.
RefuseAmount(r) ==
    /\ pc[r] = "balance"
    /\ req[r].amount > Remaining(r)
    /\ ReleaseLocks(r)
    /\ Return(r)
    /\ UNCHANGED <<amountDue, feePayments, sequence, audited, texted>>

\* nextDocumentNumber: the UPDATE waits for the row; its increment is seen by
\* nobody else before the commit.
ClaimReceipt(r) ==
    /\ pc[r] = "claim"
    /\ sequenceLock = None
    /\ sequenceLock' = r
    /\ Goto(r, "insert")
    /\ UNCHANGED <<amountDue, feePayments, lock, sequence, req, audited,
                   texted>>

\* feePayment.create succeeds, and the transaction commits.
InsertPayment(r) ==
    LET receipt == sequence + 1 IN
    /\ pc[r] = "insert"
    /\ receipt \notin ReceiptsInUse
    /\ feePayments' = feePayments \cup
         {[id |-> req[r].row, feeAssignmentId |-> req[r].assignment,
           amount |-> req[r].amount, receiptNumber |-> receipt,
           reversesPaymentId |-> None]}
    /\ sequence' = receipt
    /\ ReleaseLocks(r)
    /\ Goto(r, "audit")
    /\ UNCHANGED <<amountDue, req, audited, texted>>

\* The number is in use: the transaction, its increment included, rolls back,
\* and the loop tries again unless this was the last attempt.
ReceiptCollision(r) ==
    /\ pc[r] = "insert"
    /\ sequence + 1 \in ReceiptsInUse
    /\ ReleaseLocks(r)
    /\ IF req[r].attempt < MAX_RECEIPT_ATTEMPTS
       THEN /\ req' = [req EXCEPT ![r].attempt = @ + 1]
            /\ Goto(r, "lock")
       ELSE Return(r)
    /\ UNCHANGED <<amountDue, feePayments, sequence, audited, texted>>

\* Mutant of AuditPayment: a failure of the audit entry is swallowed.
AuditSwallowed(r) ==
    /\ pc[r] = "audit"
    /\ audited' \in {audited, audited \cup {<<"created", req[r].row>>}}
    /\ Goto(r, "notify")
    /\ KeepLocks
    /\ UNCHANGED <<amountDue, feePayments, sequence, req, texted>>

\* The audit entry, fee_payments.created or .reversed, is a statement of its
\* own, after the commit.
AuditPayment(r) ==
    /\ pc[r] = "audit"
    /\ audited' = audited \cup {<<"created", req[r].row>>}
    /\ Goto(r, "notify")
    /\ KeepLocks
    /\ UNCHANGED <<amountDue, feePayments, sequence, req, texted>>

\* notifications.feeReceipt: enqueues the receipt, or swallows its own error.
NotifyReceipt(r) ==
    /\ pc[r] = "notify"
    /\ texted' \in {texted, texted \cup {req[r].row}}
    /\ Return(r)
    /\ KeepLocks
    /\ UNCHANGED <<amountDue, feePayments, sequence, audited>>
-----------------------------------------------------------------------------
\* Mutant of ReverseStart: a reversal may be reversed.
ReverseAnyStart(r) ==
    /\ pc[r] = "idle"
    /\ \E id \in FreshIds, p \in feePayments :
         req' = [req EXCEPT ![r] =
                   [row |-> id, assignment |-> p.feeAssignmentId,
                    amount |-> p.amount, attempt |-> 1, reverses |-> p.id]]
    /\ Goto(r, "check")
    /\ KeepLocks
    /\ UNCHANGED <<amountDue, feePayments, sequence, audited, texted>>

\* reverse: the original is read, and must not be a reversal itself.
ReverseStart(r) ==
    /\ pc[r] = "idle"
    /\ \E id \in FreshIds, p \in feePayments :
         /\ p.reversesPaymentId = None
         /\ req' = [req EXCEPT ![r] =
                      [row |-> id, assignment |-> p.feeAssignmentId,
                       amount |-> p.amount, attempt |-> 1,
                       reverses |-> p.id]]
    /\ Goto(r, "check")
    /\ KeepLocks
    /\ UNCHANGED <<amountDue, feePayments, sequence, audited, texted>>

CheckNotReversed(r) ==
    /\ pc[r] = "check"
    /\ IF ReversalsOf(req[r].reverses) = {}
       THEN Goto(r, "reverse") /\ UNCHANGED req
       ELSE Return(r)
    /\ KeepLocks
    /\ UNCHANGED <<amountDue, feePayments, sequence, audited, texted>>

\* The insert refers to the assignment row, so PostgreSQL makes it wait for a
\* FOR UPDATE lock there.
InsertReversal(r) ==
    /\ pc[r] = "reverse"
    /\ lock[req[r].assignment] = None
    /\ ReversalsOf(req[r].reverses) = {}
    /\ feePayments' = feePayments \cup
         {[id |-> req[r].row, feeAssignmentId |-> req[r].assignment,
           amount |-> req[r].amount, receiptNumber |-> None,
           reversesPaymentId |-> req[r].reverses]}
    /\ Goto(r, "auditReversal")
    /\ KeepLocks
    /\ UNCHANGED <<amountDue, sequence, req, audited, texted>>

\* uq_one_reversal_per_payment refuses the second of two racing reversals.
ReversalConflict(r) ==
    /\ pc[r] = "reverse"
    /\ ReversalsOf(req[r].reverses) # {}
    /\ Return(r)
    /\ KeepLocks
    /\ UNCHANGED <<amountDue, feePayments, sequence, audited, texted>>

AuditReversal(r) ==
    /\ pc[r] = "auditReversal"
    /\ audited' = audited \cup {<<"reversed", req[r].reverses>>}
    /\ Return(r)
    /\ KeepLocks
    /\ UNCHANGED <<amountDue, feePayments, sequence, texted>>
-----------------------------------------------------------------------------
\* The process dies, the connection drops, a statement fails or the
\* transaction times out: what was not committed is rolled back.
Abort(r) ==
    /\ pc[r] # "idle"
    /\ ReleaseLocks(r)
    /\ Return(r)
    /\ UNCHANGED <<amountDue, feePayments, sequence, audited, texted>>

Create(r) ==
    \/ LockAssignment(r) \/ AcceptAmount(r) \/ RefuseAmount(r)
    \/ ClaimReceipt(r) \/ InsertPayment(r) \/ ReceiptCollision(r)
    \/ AuditPayment(r) \/ NotifyReceipt(r)

Reverse(r) ==
    \/ CheckNotReversed(r) \/ InsertReversal(r) \/ ReversalConflict(r)
    \/ AuditReversal(r)

Next ==
    \E r \in Requests :
        \/ CreateStart(r) \/ ReverseStart(r)
        \/ Create(r) \/ Reverse(r)
        \/ Abort(r)

Spec == Init /\ [][Next]_vars
-----------------------------------------------------------------------------
\* The shape of every row, lock and local variable.
TypeOK ==
    /\ amountDue \in [Assignments -> Money]
    /\ feePayments \subseteq FeePayment
    /\ IsFiniteSet(feePayments)
    /\ lock \in [Assignments -> Requests \cup {None}]
    /\ sequence \in Nat
    /\ sequenceLock \in Requests \cup {None}
    /\ pc \in [Requests -> {"idle"} \cup PayStates \cup ReverseStates]
    /\ req \in [Requests -> Request \cup {NoRequest}]
    /\ audited \subseteq {"created", "reversed"} \X RowIds
    /\ texted \subseteq RowIds

\* No assignment is ever collected beyond what it is due, however payments and
\* reversals overlap: create reads the balance under the row lock.
NeverOvercollected ==
    \A a \in Assignments : collectedFrom(a) <= amountDue[a]

\* A request that is being served has an id for its row that no row and no
\* other request has, and knows whether it pays or reverses.
BeforeInsert == {"lock", "balance", "claim", "insert", "check", "reverse"}

OwnRows ==
    \A r \in Requests : pc[r] # "idle" =>
        /\ req[r] \in Request
        /\ pc[r] \in ReverseStates <=> req[r].reverses # None
        /\ pc[r] \in BeforeInsert => \A p \in feePayments : p.id # req[r].row
        /\ \A s \in Requests \ {r} : req[s].row # req[r].row

LocksHeld ==
    \A r \in Requests :
        /\ pc[r] \in InTransaction => lock[req[r].assignment] = r
        /\ pc[r] = "insert" => sequenceLock = r

\* From the check of the balance to the commit, the amount still fits: nobody
\* else pays on the assignment meanwhile.
AmountFits ==
    \A r \in Requests, a \in Assignments :
        pc[r] \in {"claim", "insert"} /\ req[r].assignment = a
            => req[r].amount <= amountDue[a] - collectedFrom(a)

\* The inductive strengthening of NeverOvercollected: the lock is held from
\* the reading of the balance to the commit, so what was read stays true.
PaymentsInv == TypeOK /\ OwnRows /\ LocksHeld /\ AmountFits
LedgerInv == PaymentsInv /\ NeverOvercollected

\* A payment is reversed at most once, by a row that mirrors it, and a
\* reversal is never reversed: two requests may both have passed the check.
ReversedOnce ==
    \A p \in feePayments :
        /\ Cardinality(ReversalsOf(p.id)) <= 1
        /\ p.reversesPaymentId # None =>
             /\ p.receiptNumber = None
             /\ \E q \in feePayments :
                  /\ q.id = p.reversesPaymentId
                  /\ q.reversesPaymentId = None
                  /\ q.feeAssignmentId = p.feeAssignmentId
                  /\ q.amount = p.amount

\* "a receipt for a payment that was rolled back is worse than no receipt":
\* what is texted was committed, audited, is not a reversal, and carries a
\* receipt number that was not in use and that no other payment has.
TextedWasRecorded ==
    \A id \in texted :
        /\ <<"created", id>> \in audited
        /\ \E p \in feePayments :
             /\ p.id = id /\ p.reversesPaymentId = None
             /\ p.receiptNumber \in Nat \ Occupied
             /\ \A q \in feePayments :
                  q.receiptNumber = p.receiptNumber => q = p

\* The inductive strengthening of ReversedOnce and TextedWasRecorded: ids and
\* receipt numbers tell rows apart, a reversal under way mirrors a payment, and
\* a receipt follows the commit and then the audit entry.
Reverses(amount, assignment, id) ==
    \E q \in feePayments :
        /\ q.id = id /\ q.reversesPaymentId = None
        /\ q.feeAssignmentId = assignment /\ q.amount = amount

RowsDistinct == \A p, q \in feePayments : p.id = q.id => p = q

RowsMirror ==
    \A p \in feePayments : p.reversesPaymentId # None =>
        /\ p.receiptNumber = None
        /\ Reverses(p.amount, p.feeAssignmentId, p.reversesPaymentId)
        /\ \A q \in ReversalsOf(p.reversesPaymentId) : q = p

RequestsMirror ==
    \A r \in Requests : pc[r] \in {"check", "reverse"} =>
        Reverses(req[r].amount, req[r].assignment, req[r].reverses)

ReceiptsDistinct ==
    \A p \in feePayments : p.reversesPaymentId = None =>
        /\ p.receiptNumber \in Nat \ Occupied
        /\ \A q \in feePayments : q.receiptNumber = p.receiptNumber => q = p

Recorded(id) == \E p \in feePayments : p.id = id /\ p.reversesPaymentId = None

ReceiptsFollow ==
    /\ \A id \in texted : Recorded(id) /\ <<"created", id>> \in audited
    /\ \A r \in Requests :
         /\ pc[r] \in {"audit", "notify"} => Recorded(req[r].row)
         /\ pc[r] = "notify" => <<"created", req[r].row>> \in audited

HistoryInv ==
    /\ RowsDistinct /\ RowsMirror /\ RequestsMirror
    /\ ReceiptsDistinct /\ ReceiptsFollow

\* The ledger these requests keep together, and the promise it implements: a
\* payment is taken, or a reversal booked, in one step that fits the balance.
Ledger == INSTANCE FeeLedger
            WITH due <- amountDue,
                 collected <- [a \in Assignments |-> collectedFrom(a)]

ImplementsLedger == Ledger!LedgerSpec
=============================================================================
