-------------------------- MODULE FeePaymentsProofs --------------------------
(***************************************************************************)
(* Proofs about FeePayments, and about FeeAssignments, which puts invoices *)
(* and edits next to the payments, for every number of assignments,        *)
(* requests and rows and every bound on the amounts.                       *)
(***************************************************************************)
EXTENDS FeeAssignments, FeeReporting, SumTheorems

\* The sum of one row is its amount.
LEMMA UnitsOfOne ==
    ASSUME NEW row \in FeePayment
    PROVE  /\ IsFiniteSet(Units({row}))
           /\ Total({row}) = row.amount
<1>1. row.amount \in Money
  BY DEF FeePayment
<1>2. IsFiniteSet(1 .. row.amount) /\ Cardinality(1 .. row.amount) = row.amount
  BY <1>1, AmountAssumption, FS_Interval, SMT DEF Money
<1>3. IsFiniteSet({row}) /\ Cardinality({row}) = 1
  BY FS_Singleton
<1>4. /\ IsFiniteSet({row} \X (1 .. row.amount))
      /\ Cardinality({row} \X (1 .. row.amount)) = 1 * row.amount
  <2> DEFINE one == {row}
             units == 1 .. row.amount
  <2>1. /\ IsFiniteSet(one) /\ Cardinality(one) = 1
        /\ IsFiniteSet(units) /\ Cardinality(units) = row.amount
    BY <1>2, <1>3
  <2> HIDE DEF one, units
  <2>2. /\ IsFiniteSet(one \X units)
        /\ Cardinality(one \X units) = Cardinality(one) * Cardinality(units)
    BY <2>1, FS_Product
  <2>3. /\ IsFiniteSet(one \X units)
        /\ Cardinality(one \X units) = 1 * row.amount
    BY <2>1, <2>2
  <2> QED
    BY <2>3 DEF one, units
<1>5. Units({row}) = {row} \X (1 .. row.amount)
  BY <1>1, AmountAssumption DEF Units, Money
<1>6. 1 * row.amount = row.amount
  BY <1>1, AmountAssumption DEF Money
<1>7. QED
  BY <1>4, <1>5, <1>6 DEF Total

\* A finite table has a finite sum.
LEMMA TotalIsNat ==
    ASSUME NEW rows \in SUBSET FeePayment, IsFiniteSet(rows)
    PROVE  IsFiniteSet(Units(rows)) /\ Total(rows) \in Nat
<1>1. IsFiniteSet(Money)
  BY AmountAssumption, FS_Interval DEF Money
<1>2. IsFiniteSet(rows \X Money)
  BY <1>1, FS_Product
<1>3. Units(rows) \in SUBSET (rows \X Money)
  BY DEF Units
<1>4. IsFiniteSet(Units(rows))
  BY <1>2, <1>3, FS_Subset
<1>5. QED
  BY <1>4, FS_CardinalityType DEF Total

\* A new row adds its amount to the sum.
LEMMA TotalAddsRow ==
    ASSUME NEW rows \in SUBSET FeePayment, IsFiniteSet(rows),
           NEW row \in FeePayment, row \notin rows
    PROVE  Total(rows \cup {row}) = Total(rows) + row.amount
<1>1. IsFiniteSet(Units(rows))
  BY TotalIsNat
<1>2. Units(rows \cup {row}) = Units(rows) \cup Units({row})
  BY DEF Units
<1>3. Units(rows) \cap Units({row}) = {}
  BY DEF Units
<1>4. IsFiniteSet(Units({row})) /\ Cardinality(Units({row})) = row.amount
  BY UnitsOfOne DEF Total
<1>5. Cardinality(Units(rows)) \in Nat
  BY <1>1, FS_CardinalityType
<1>6. row.amount \in Int
  BY AmountAssumption DEF FeePayment, Money
<1>7. Cardinality(Units(rows) \cup Units({row}))
        = Cardinality(Units(rows)) + Cardinality(Units({row})) - Cardinality({})
  BY <1>1, <1>3, <1>4, FS_Union
<1>8. Cardinality({}) = 0
  BY FS_EmptySet
<1>9. Total(rows) = Cardinality(Units(rows))
  BY DEF Total
<1>10. Total(rows \cup {row}) = Cardinality(Units(rows) \cup Units({row}))
  BY <1>2 DEF Total
<1>11. QED
  BY <1>4, <1>5, <1>6, <1>7, <1>8, <1>9, <1>10

-----------------------------------------------------------------------------
\* The balance of an assignment is an integer, and one more row changes only
\* the balance of its own assignment, by its signed amount.
LEMMA BalanceIsInt ==
    ASSUME TypeOK, NEW a \in Assignments
    PROVE  /\ PaidOn(a) \in SUBSET FeePayment /\ IsFiniteSet(PaidOn(a))
           /\ ReversedOn(a) \in SUBSET FeePayment /\ IsFiniteSet(ReversedOn(a))
           /\ collectedFrom(a) \in Int
<1>1. /\ PaidOn(a) \in SUBSET feePayments
      /\ ReversedOn(a) \in SUBSET feePayments
  BY DEF PaidOn, ReversedOn
<1>2. IsFiniteSet(PaidOn(a)) /\ IsFiniteSet(ReversedOn(a))
  BY <1>1, FS_Subset DEF TypeOK
<1>3. /\ PaidOn(a) \in SUBSET FeePayment
      /\ ReversedOn(a) \in SUBSET FeePayment
  BY <1>1 DEF TypeOK
<1>4. Total(PaidOn(a)) \in Nat /\ Total(ReversedOn(a)) \in Nat
  BY <1>2, <1>3, TotalIsNat
<1>5. QED
  BY <1>2, <1>3, <1>4 DEF collectedFrom

LEMMA RowMovesBalance ==
    ASSUME TypeOK, NEW a \in Assignments,
           NEW row \in FeePayment, row \notin feePayments,
           feePayments' = feePayments \cup {row}
    PROVE  collectedFrom(a)' =
             IF row.feeAssignmentId # a THEN collectedFrom(a)
             ELSE IF row.reversesPaymentId = None
                  THEN collectedFrom(a) + row.amount
                  ELSE collectedFrom(a) - row.amount
<1>1. /\ PaidOn(a) \in SUBSET FeePayment /\ IsFiniteSet(PaidOn(a))
      /\ ReversedOn(a) \in SUBSET FeePayment /\ IsFiniteSet(ReversedOn(a))
  BY BalanceIsInt
<1>2. Total(PaidOn(a)) \in Nat /\ Total(ReversedOn(a)) \in Nat
  BY <1>1, TotalIsNat
<1>3. row.amount \in Int
  BY AmountAssumption DEF FeePayment, Money
<1>4. row \notin PaidOn(a) /\ row \notin ReversedOn(a)
  BY DEF PaidOn, ReversedOn
<1>5. collectedFrom(a)' = Total(PaidOn(a)') - Total(ReversedOn(a)')
  BY DEF collectedFrom
<1>6. CASE row.feeAssignmentId # a
  <2>1. PaidOn(a)' = PaidOn(a) /\ ReversedOn(a)' = ReversedOn(a)
    BY <1>6 DEF PaidOn, ReversedOn
  <2>2. QED
    BY <1>5, <1>6, <2>1 DEF collectedFrom
<1>7. CASE row.feeAssignmentId = a /\ row.reversesPaymentId = None
  <2>1. PaidOn(a)' = PaidOn(a) \cup {row} /\ ReversedOn(a)' = ReversedOn(a)
    BY <1>7 DEF PaidOn, ReversedOn
  <2>2. Total(PaidOn(a) \cup {row}) = Total(PaidOn(a)) + row.amount
    BY <1>1, <1>4, TotalAddsRow
  <2>3. collectedFrom(a) = Total(PaidOn(a)) - Total(ReversedOn(a))
    BY DEF collectedFrom
  <2>4. QED
    BY <1>2, <1>3, <1>5, <1>7, <2>1, <2>2, <2>3
<1>8. CASE row.feeAssignmentId = a /\ row.reversesPaymentId # None
  <2>1. PaidOn(a)' = PaidOn(a) /\ ReversedOn(a)' = ReversedOn(a) \cup {row}
    BY <1>8 DEF PaidOn, ReversedOn
  <2>2. Total(ReversedOn(a) \cup {row}) = Total(ReversedOn(a)) + row.amount
    BY <1>1, <1>4, TotalAddsRow
  <2>3. collectedFrom(a) = Total(PaidOn(a)) - Total(ReversedOn(a))
    BY DEF collectedFrom
  <2>4. QED
    BY <1>2, <1>3, <1>5, <1>8, <2>1, <2>2, <2>3
<1>9. QED
  BY <1>6, <1>7, <1>8
-----------------------------------------------------------------------------
\* The row that each insert adds is a new one, of the table's type.
LEMMA InsertPaymentRow ==
    ASSUME TypeOK, OwnRows, NEW r \in Requests, InsertPayment(r)
    PROVE  \E row \in FeePayment :
             /\ row.id = req[r].row /\ row.feeAssignmentId = req[r].assignment
             /\ row.amount = req[r].amount /\ row.receiptNumber = sequence + 1
             /\ row.reversesPaymentId = None
             /\ row \notin feePayments /\ feePayments' = feePayments \cup {row}
             /\ IsFiniteSet(feePayments')
<1> DEFINE row == [id |-> req[r].row, feeAssignmentId |-> req[r].assignment,
                   amount |-> req[r].amount, receiptNumber |-> sequence + 1,
                   reversesPaymentId |-> None]
<1>1. req[r] \in Request /\ \A p \in feePayments : p.id # req[r].row
  BY DEF InsertPayment, OwnRows, BeforeInsert
<1>2. row \in FeePayment
  BY <1>1 DEF Request, FeePayment, TypeOK
<1>3. row \notin feePayments
  BY <1>1
<1>4. feePayments' = feePayments \cup {row}
  BY DEF InsertPayment
<1>5. IsFiniteSet(feePayments \cup {row})
  BY FS_AddElement DEF TypeOK
<1>6. QED
  BY <1>2, <1>3, <1>4, <1>5

LEMMA InsertReversalRow ==
    ASSUME TypeOK, OwnRows, NEW r \in Requests, InsertReversal(r)
    PROVE  \E row \in FeePayment :
             /\ row.id = req[r].row /\ row.feeAssignmentId = req[r].assignment
             /\ row.amount = req[r].amount /\ row.receiptNumber = None
             /\ row.reversesPaymentId = req[r].reverses
             /\ row.reversesPaymentId # None
             /\ row \notin feePayments /\ feePayments' = feePayments \cup {row}
             /\ IsFiniteSet(feePayments')
<1> DEFINE row == [id |-> req[r].row, feeAssignmentId |-> req[r].assignment,
                   amount |-> req[r].amount, receiptNumber |-> None,
                   reversesPaymentId |-> req[r].reverses]
<1>1. /\ req[r] \in Request /\ \A p \in feePayments : p.id # req[r].row
      /\ req[r].reverses # None
  BY DEF InsertReversal, OwnRows, BeforeInsert, ReverseStates
<1>2. row \in FeePayment
  BY <1>1 DEF Request, FeePayment, TypeOK
<1>3. row \notin feePayments
  BY <1>1
<1>4. feePayments' = feePayments \cup {row}
  BY DEF InsertReversal
<1>5. IsFiniteSet(feePayments \cup {row})
  BY FS_AddElement DEF TypeOK
<1>6. QED
  BY <1>1, <1>2, <1>3, <1>4, <1>5

\* What the two inserts do to the balances.
LEMMA InsertPaymentMoves ==
    ASSUME TypeOK, OwnRows, NEW r \in Requests, InsertPayment(r),
           NEW a \in Assignments
    PROVE  collectedFrom(a)' =
             IF req[r].assignment = a THEN collectedFrom(a) + req[r].amount
             ELSE collectedFrom(a)
BY InsertPaymentRow, RowMovesBalance

LEMMA InsertReversalMoves ==
    ASSUME TypeOK, OwnRows, NEW r \in Requests, InsertReversal(r),
           NEW a \in Assignments
    PROVE  collectedFrom(a)' =
             IF req[r].assignment = a THEN collectedFrom(a) - req[r].amount
             ELSE collectedFrom(a)
BY InsertReversalRow, RowMovesBalance
-----------------------------------------------------------------------------
LEMMA NothingCollected ==
    ASSUME Init, NEW a \in Assignments
    PROVE  collectedFrom(a) = 0
<1>1. PaidOn(a) = {} /\ ReversedOn(a) = {}
  BY DEF Init, PaidOn, ReversedOn
<1>2. Units({}) = {}
  BY DEF Units
<1>3. Total({}) = 0
  BY <1>2, FS_EmptySet DEF Total
<1>4. QED
  BY <1>1, <1>3 DEF collectedFrom

\* The inductive invariant holds at the start: nothing is collected, and no
\* request is being served.
LEMMA LedgerInvInit == Init => LedgerInv
<1> SUFFICES ASSUME Init PROVE LedgerInv
  OBVIOUS
<1>1. TypeOK
  BY FS_EmptySet DEF Init, TypeOK, NoRequest
<1>2. OwnRows /\ LocksHeld /\ AmountFits
  BY DEF Init, OwnRows, LocksHeld, AmountFits, InTransaction
<1>3. \A a \in Assignments : collectedFrom(a) = 0
  BY NothingCollected
<1>4. NeverOvercollected
  BY <1>3, AmountAssumption DEF NeverOvercollected, Init, Money
<1>5. QED
  BY <1>1, <1>2, <1>4 DEF LedgerInv, PaymentsInv

\* Types survive every step.
LEMMA StepTypeOK ==
    ASSUME PaymentsInv, [Next]_vars
    PROVE  TypeOK'
<1> USE DEF PaymentsInv, TypeOK, PayStates, ReverseStates, Return, Goto,
            KeepLocks, ReleaseLocks
<1>1. CASE UNCHANGED vars
  BY <1>1 DEF vars
<1>2. ASSUME NEW r \in Requests, CreateStart(r) PROVE TypeOK'
  BY <1>2 DEF CreateStart, Request, FreshIds, MAX_RECEIPT_ATTEMPTS
<1>3. ASSUME NEW r \in Requests, ReverseStart(r) PROVE TypeOK'
  BY <1>3 DEF ReverseStart, Request, FreshIds, MAX_RECEIPT_ATTEMPTS, FeePayment
<1>4. ASSUME NEW r \in Requests, LockAssignment(r) PROVE TypeOK'
  BY <1>4 DEF LockAssignment
<1>5. ASSUME NEW r \in Requests, AcceptAmount(r) PROVE TypeOK'
  BY <1>5 DEF AcceptAmount
<1>6. ASSUME NEW r \in Requests, RefuseAmount(r) PROVE TypeOK'
  BY <1>6 DEF RefuseAmount
<1>7. ASSUME NEW r \in Requests, ClaimReceipt(r) PROVE TypeOK'
  BY <1>7 DEF ClaimReceipt
<1>8. ASSUME NEW r \in Requests, InsertPayment(r) PROVE TypeOK'
  <2>1. req[r] \in Request
    BY <1>8 DEF InsertPayment, OwnRows
  <2>2. feePayments' \subseteq FeePayment /\ IsFiniteSet(feePayments')
    BY <1>8, InsertPaymentRow
  <2>3. QED
    BY <1>8, <2>2 DEF InsertPayment
<1>9. ASSUME NEW r \in Requests, ReceiptCollision(r) PROVE TypeOK'
  <2>1. req[r] \in Request
    BY <1>9 DEF ReceiptCollision, OwnRows
  <2>2. CASE req[r].attempt < MAX_RECEIPT_ATTEMPTS
    BY <1>9, <2>1, <2>2 DEF ReceiptCollision, Request, MAX_RECEIPT_ATTEMPTS
  <2>3. CASE ~(req[r].attempt < MAX_RECEIPT_ATTEMPTS)
    BY <1>9, <2>3 DEF ReceiptCollision
  <2>4. QED
    BY <2>2, <2>3
<1>10. ASSUME NEW r \in Requests, AuditPayment(r) PROVE TypeOK'
  BY <1>10 DEF AuditPayment, OwnRows, Request
<1>11. ASSUME NEW r \in Requests, NotifyReceipt(r) PROVE TypeOK'
  BY <1>11 DEF NotifyReceipt, OwnRows, Request
<1>12. ASSUME NEW r \in Requests, CheckNotReversed(r) PROVE TypeOK'
  BY <1>12 DEF CheckNotReversed
<1>13. ASSUME NEW r \in Requests, InsertReversal(r) PROVE TypeOK'
  <2>1. req[r] \in Request
    BY <1>13 DEF InsertReversal, OwnRows
  <2>2. feePayments' \subseteq FeePayment /\ IsFiniteSet(feePayments')
    BY <1>13, InsertReversalRow
  <2>3. QED
    BY <1>13, <2>2 DEF InsertReversal
<1>14. ASSUME NEW r \in Requests, ReversalConflict(r) PROVE TypeOK'
  BY <1>14 DEF ReversalConflict
<1>15. ASSUME NEW r \in Requests, AuditReversal(r) PROVE TypeOK'
  BY <1>15 DEF AuditReversal, OwnRows, Request
<1>16. ASSUME NEW r \in Requests, Abort(r) PROVE TypeOK'
  BY <1>16 DEF Abort
<1>17. QED
  BY <1>1, <1>2, <1>3, <1>4, <1>5, <1>6, <1>7, <1>8, <1>9, <1>10, <1>11,
     <1>12, <1>13, <1>14, <1>15, <1>16
  DEF Next, Create, Reverse

\* A request that returns gives its id up and takes none.
LEMMA ReturnOwnRows ==
    ASSUME TypeOK, OwnRows, NEW r \in Requests, Return(r),
           feePayments' = feePayments
    PROVE  OwnRows'
<1>1. /\ pc'[r] = "idle" /\ req'[r].row = None
      /\ \A s \in Requests \ {r} : pc'[s] = pc[s] /\ req'[s] = req[s]
  BY DEF TypeOK, Return, Goto, NoRequest
<1>2. ASSUME NEW s \in Requests, pc'[s] # "idle"
      PROVE  /\ s # r /\ pc[s] # "idle"
             /\ req[s] \in Request /\ req[s].row # None
  BY <1>1, <1>2, NoneAssumption DEF OwnRows, Request
<1>3. QED
  BY <1>1, <1>2 DEF OwnRows

\* No two requests, and no request and no row, ever share an id.
LEMMA StepOwnRows ==
    ASSUME PaymentsInv, [Next]_vars
    PROVE  OwnRows'
<1> USE DEF PaymentsInv, TypeOK, OwnRows, BeforeInsert, ReverseStates, Return,
            Goto, KeepLocks, ReleaseLocks
<1>1. CASE UNCHANGED vars
  BY <1>1 DEF vars
<1>2. ASSUME NEW r \in Requests, CreateStart(r) PROVE OwnRows'
  <2>1. PICK id \in FreshIds, a \in Assignments, m \in Money :
           req' = [req EXCEPT ![r] =
                     [row |-> id, assignment |-> a, amount |-> m,
                      attempt |-> 1, reverses |-> None]]
    BY <1>2 DEF CreateStart
  <2>2. req'[r] \in Request /\ req'[r].row = id /\ req'[r].reverses = None
    BY <2>1 DEF Request, FreshIds, MAX_RECEIPT_ATTEMPTS
  <2>3. \A s \in Requests \ {r} : req'[s] = req[s] /\ pc'[s] = pc[s]
    BY <1>2, <2>1 DEF CreateStart
  <2>4. /\ id # None
        /\ \A p \in feePayments : p.id # id
        /\ \A s \in Requests : req[s].row # id
    BY NoneAssumption DEF FreshIds
  <2>5. pc'[r] = "lock" /\ feePayments' = feePayments
    BY <1>2 DEF CreateStart
  <2>6. QED
    BY <2>2, <2>3, <2>4, <2>5
<1>3. ASSUME NEW r \in Requests, ReverseStart(r) PROVE OwnRows'
  <2>1. PICK id \in FreshIds, p \in feePayments :
           req' = [req EXCEPT ![r] =
                     [row |-> id, assignment |-> p.feeAssignmentId,
                      amount |-> p.amount, attempt |-> 1,
                      reverses |-> p.id]]
    BY <1>3 DEF ReverseStart
  <2>2. /\ req'[r] \in Request /\ req'[r].row = id
        /\ req'[r].reverses # None
    BY <2>1, NoneAssumption
    DEF Request, FreshIds, FeePayment, MAX_RECEIPT_ATTEMPTS
  <2>3. \A s \in Requests \ {r} : req'[s] = req[s] /\ pc'[s] = pc[s]
    BY <1>3, <2>1 DEF ReverseStart
  <2>4. /\ id # None
        /\ \A q \in feePayments : q.id # id
        /\ \A s \in Requests : req[s].row # id
    BY NoneAssumption DEF FreshIds
  <2>5. pc'[r] = "check" /\ feePayments' = feePayments
    BY <1>3 DEF ReverseStart
  <2>6. QED
    BY <2>2, <2>3, <2>4, <2>5
<1>4. ASSUME NEW r \in Requests, LockAssignment(r) PROVE OwnRows'
  BY <1>4 DEF LockAssignment
<1>5. ASSUME NEW r \in Requests, AcceptAmount(r) PROVE OwnRows'
  BY <1>5 DEF AcceptAmount
<1>6. ASSUME NEW r \in Requests, RefuseAmount(r) PROVE OwnRows'
  BY <1>6, ReturnOwnRows DEF RefuseAmount
<1>7. ASSUME NEW r \in Requests, ClaimReceipt(r) PROVE OwnRows'
  BY <1>7 DEF ClaimReceipt
<1>8. ASSUME NEW r \in Requests, InsertPayment(r) PROVE OwnRows'
  <2>1. PICK row \in FeePayment :
           /\ row.id = req[r].row
           /\ feePayments' = feePayments \cup {row}
    BY <1>8, InsertPaymentRow
  <2>2. req' = req /\ pc' = [pc EXCEPT ![r] = "audit"] /\ pc[r] = "insert"
    BY <1>8 DEF InsertPayment
  <2>3. QED
    BY <2>1, <2>2
<1>9. ASSUME NEW r \in Requests, ReceiptCollision(r) PROVE OwnRows'
  <2>1. CASE req[r].attempt < MAX_RECEIPT_ATTEMPTS
    <3>1. /\ req' = [req EXCEPT ![r].attempt = @ + 1]
          /\ pc' = [pc EXCEPT ![r] = "lock"] /\ pc[r] = "insert"
          /\ feePayments' = feePayments
      BY <1>9, <2>1 DEF ReceiptCollision
    <3>2. req'[r] \in Request
      BY <2>1, <3>1 DEF Request, MAX_RECEIPT_ATTEMPTS
    <3>3. QED
      BY <3>1, <3>2 DEF Request
  <2>2. CASE ~(req[r].attempt < MAX_RECEIPT_ATTEMPTS)
    BY <1>9, <2>2, ReturnOwnRows DEF ReceiptCollision
  <2>3. QED
    BY <2>1, <2>2
<1>10. ASSUME NEW r \in Requests, AuditPayment(r) PROVE OwnRows'
  BY <1>10 DEF AuditPayment
<1>11. ASSUME NEW r \in Requests, NotifyReceipt(r) PROVE OwnRows'
  BY <1>11, ReturnOwnRows DEF NotifyReceipt
<1>12. ASSUME NEW r \in Requests, CheckNotReversed(r) PROVE OwnRows'
  <2>1. CASE ReversalsOf(req[r].reverses) = {}
    BY <1>12, <2>1 DEF CheckNotReversed
  <2>2. CASE ReversalsOf(req[r].reverses) # {}
    BY <1>12, <2>2, ReturnOwnRows DEF CheckNotReversed
  <2>3. QED
    BY <2>1, <2>2
<1>13. ASSUME NEW r \in Requests, InsertReversal(r) PROVE OwnRows'
  <2>1. PICK row \in FeePayment :
           /\ row.id = req[r].row
           /\ feePayments' = feePayments \cup {row}
    BY <1>13, InsertReversalRow
  <2>2. /\ req' = req /\ pc' = [pc EXCEPT ![r] = "auditReversal"]
        /\ pc[r] = "reverse"
    BY <1>13 DEF InsertReversal
  <2>3. QED
    BY <2>1, <2>2
<1>14. ASSUME NEW r \in Requests, ReversalConflict(r) PROVE OwnRows'
  BY <1>14, ReturnOwnRows DEF ReversalConflict
<1>15. ASSUME NEW r \in Requests, AuditReversal(r) PROVE OwnRows'
  BY <1>15, ReturnOwnRows DEF AuditReversal
<1>16. ASSUME NEW r \in Requests, Abort(r) PROVE OwnRows'
  BY <1>16, ReturnOwnRows DEF Abort
<1>17. QED
  BY <1>1, <1>2, <1>3, <1>4, <1>5, <1>6, <1>7, <1>8, <1>9, <1>10, <1>11,
     <1>12, <1>13, <1>14, <1>15, <1>16
  DEF Next, Create, Reverse
-----------------------------------------------------------------------------
\* Giving up the locks of one request leaves those of the others.
LEMMA ReleaseKeepsOthers ==
    ASSUME TypeOK, OwnRows, LocksHeld, NEW r \in Requests, ReleaseLocks(r),
           pc'[r] \notin InTransaction,
           \A s \in Requests \ {r} : pc'[s] = pc[s] /\ req'[s] = req[s]
    PROVE  LocksHeld'
<1> SUFFICES ASSUME NEW s \in Requests, pc'[s] \in InTransaction
             PROVE  /\ lock'[req'[s].assignment] = s
                    /\ pc'[s] = "insert" => sequenceLock' = s
  BY DEF LocksHeld, InTransaction
<1>1. s # r /\ pc'[s] = pc[s] /\ req'[s] = req[s]
  OBVIOUS
<1>2. req[s].assignment \in Assignments
  BY <1>1 DEF OwnRows, InTransaction, Request
<1>3. QED
  BY <1>1, <1>2 DEF LocksHeld, ReleaseLocks

\* A request in its transaction keeps the row lock, and the one that inserts
\* keeps the sequence: a lock is only ever taken from nobody.
LEMMA StepLocksHeld ==
    ASSUME PaymentsInv, [Next]_vars
    PROVE  LocksHeld'
<1> USE DEF PaymentsInv, TypeOK, OwnRows, LocksHeld, InTransaction, Return,
            Goto, KeepLocks, ReleaseLocks
<1>1. CASE UNCHANGED vars
  BY <1>1 DEF vars
<1>2. ASSUME NEW r \in Requests, CreateStart(r) PROVE LocksHeld'
  BY <1>2 DEF CreateStart
<1>3. ASSUME NEW r \in Requests, ReverseStart(r) PROVE LocksHeld'
  BY <1>3 DEF ReverseStart
<1>4. ASSUME NEW r \in Requests, LockAssignment(r) PROVE LocksHeld'
  <2>1. req[r].assignment \in Assignments
    BY <1>4 DEF LockAssignment, Request
  <2>2. QED
    BY <1>4, <2>1, NoneAssumption DEF LockAssignment
<1>5. ASSUME NEW r \in Requests, AcceptAmount(r) PROVE LocksHeld'
  BY <1>5 DEF AcceptAmount
<1>6. ASSUME NEW r \in Requests, RefuseAmount(r) PROVE LocksHeld'
  BY <1>6, ReleaseKeepsOthers DEF RefuseAmount
<1>7. ASSUME NEW r \in Requests, ClaimReceipt(r) PROVE LocksHeld'
  BY <1>7, NoneAssumption DEF ClaimReceipt
<1>8. ASSUME NEW r \in Requests, InsertPayment(r) PROVE LocksHeld'
  BY <1>8, ReleaseKeepsOthers DEF InsertPayment
<1>9. ASSUME NEW r \in Requests, ReceiptCollision(r) PROVE LocksHeld'
  BY <1>9, ReleaseKeepsOthers DEF ReceiptCollision
<1>10. ASSUME NEW r \in Requests, AuditPayment(r) PROVE LocksHeld'
  BY <1>10 DEF AuditPayment
<1>11. ASSUME NEW r \in Requests, NotifyReceipt(r) PROVE LocksHeld'
  BY <1>11 DEF NotifyReceipt
<1>12. ASSUME NEW r \in Requests, CheckNotReversed(r) PROVE LocksHeld'
  BY <1>12 DEF CheckNotReversed
<1>13. ASSUME NEW r \in Requests, InsertReversal(r) PROVE LocksHeld'
  BY <1>13 DEF InsertReversal
<1>14. ASSUME NEW r \in Requests, ReversalConflict(r) PROVE LocksHeld'
  BY <1>14 DEF ReversalConflict
<1>15. ASSUME NEW r \in Requests, AuditReversal(r) PROVE LocksHeld'
  BY <1>15 DEF AuditReversal
<1>16. ASSUME NEW r \in Requests, Abort(r) PROVE LocksHeld'
  BY <1>16, ReleaseKeepsOthers DEF Abort
<1>17. QED
  BY <1>1, <1>2, <1>3, <1>4, <1>5, <1>6, <1>7, <1>8, <1>9, <1>10, <1>11,
     <1>12, <1>13, <1>14, <1>15, <1>16
  DEF Next, Create, Reverse
-----------------------------------------------------------------------------
\* A step that adds no row moves no balance.
LEMMA SameRowsSameBalance ==
    ASSUME feePayments' = feePayments, NEW a \in Assignments
    PROVE  collectedFrom(a)' = collectedFrom(a)
BY DEF collectedFrom, PaidOn, ReversedOn

\* What a request read under the lock stays true until it commits: nobody else
\* can insert on that assignment meanwhile.
LEMMA StepAmountFits ==
    ASSUME PaymentsInv, [Next]_vars
    PROVE  AmountFits'
<1> USE DEF PaymentsInv, TypeOK, AmountFits, Return, Goto, KeepLocks,
            ReleaseLocks
<1>1. CASE UNCHANGED vars
  BY <1>1, SameRowsSameBalance DEF vars
<1>2. ASSUME NEW r \in Requests, CreateStart(r) PROVE AmountFits'
  BY <1>2, SameRowsSameBalance DEF CreateStart
<1>3. ASSUME NEW r \in Requests, ReverseStart(r) PROVE AmountFits'
  BY <1>3, SameRowsSameBalance DEF ReverseStart
<1>4. ASSUME NEW r \in Requests, LockAssignment(r) PROVE AmountFits'
  BY <1>4, SameRowsSameBalance DEF LockAssignment
<1>5. ASSUME NEW r \in Requests, AcceptAmount(r) PROVE AmountFits'
  BY <1>5, SameRowsSameBalance DEF AcceptAmount, Remaining
<1>6. ASSUME NEW r \in Requests, RefuseAmount(r) PROVE AmountFits'
  BY <1>6, SameRowsSameBalance DEF RefuseAmount
<1>7. ASSUME NEW r \in Requests, ClaimReceipt(r) PROVE AmountFits'
  BY <1>7, SameRowsSameBalance DEF ClaimReceipt
<1>8. ASSUME NEW r \in Requests, InsertPayment(r) PROVE AmountFits'
  <2> SUFFICES ASSUME NEW s \in Requests, NEW a \in Assignments,
                      pc'[s] \in {"claim", "insert"}, req'[s].assignment = a
               PROVE  req'[s].amount <= amountDue'[a] - collectedFrom(a)'
    OBVIOUS
  <2>1. /\ req' = req /\ amountDue' = amountDue /\ pc[r] = "insert"
        /\ s # r /\ pc[s] = pc'[s]
    BY <1>8 DEF InsertPayment
  <2>2. req[r].assignment # a
    BY <2>1 DEF LocksHeld, InTransaction
  <2>3. collectedFrom(a)' = collectedFrom(a)
    BY <1>8, <2>2, InsertPaymentMoves
  <2>4. QED
    BY <2>1, <2>3
<1>9. ASSUME NEW r \in Requests, ReceiptCollision(r) PROVE AmountFits'
  BY <1>9, SameRowsSameBalance DEF ReceiptCollision
<1>10. ASSUME NEW r \in Requests, AuditPayment(r) PROVE AmountFits'
  BY <1>10, SameRowsSameBalance DEF AuditPayment
<1>11. ASSUME NEW r \in Requests, NotifyReceipt(r) PROVE AmountFits'
  BY <1>11, SameRowsSameBalance DEF NotifyReceipt
<1>12. ASSUME NEW r \in Requests, CheckNotReversed(r) PROVE AmountFits'
  BY <1>12, SameRowsSameBalance DEF CheckNotReversed
<1>13. ASSUME NEW r \in Requests, InsertReversal(r) PROVE AmountFits'
  <2> SUFFICES ASSUME NEW s \in Requests, NEW a \in Assignments,
                      pc'[s] \in {"claim", "insert"}, req'[s].assignment = a
               PROVE  req'[s].amount <= amountDue'[a] - collectedFrom(a)'
    OBVIOUS
  <2>1. /\ req' = req /\ amountDue' = amountDue
        /\ lock[req[r].assignment] = None
        /\ s # r /\ pc[s] = pc'[s]
    BY <1>13 DEF InsertReversal
  <2>2. req[r].assignment # a
    BY <2>1, NoneAssumption DEF LocksHeld, InTransaction
  <2>3. collectedFrom(a)' = collectedFrom(a)
    BY <1>13, <2>2, InsertReversalMoves
  <2>4. QED
    BY <2>1, <2>3
<1>14. ASSUME NEW r \in Requests, ReversalConflict(r) PROVE AmountFits'
  BY <1>14, SameRowsSameBalance DEF ReversalConflict
<1>15. ASSUME NEW r \in Requests, AuditReversal(r) PROVE AmountFits'
  BY <1>15, SameRowsSameBalance DEF AuditReversal
<1>16. ASSUME NEW r \in Requests, Abort(r) PROVE AmountFits'
  BY <1>16, SameRowsSameBalance DEF Abort
<1>17. QED
  BY <1>1, <1>2, <1>3, <1>4, <1>5, <1>6, <1>7, <1>8, <1>9, <1>10, <1>11,
     <1>12, <1>13, <1>14, <1>15, <1>16
  DEF Next, Create, Reverse

\* Only InsertPayment raises what is collected, by an amount that fits.
LEMMA StepNeverOvercollected ==
    ASSUME LedgerInv, [Next]_vars
    PROVE  NeverOvercollected'
<1> USE DEF LedgerInv, PaymentsInv, TypeOK, NeverOvercollected
<1>1. CASE UNCHANGED vars
  BY <1>1, SameRowsSameBalance DEF vars
<1>2. ASSUME NEW r \in Requests, CreateStart(r) PROVE NeverOvercollected'
  BY <1>2, SameRowsSameBalance DEF CreateStart
<1>3. ASSUME NEW r \in Requests, ReverseStart(r) PROVE NeverOvercollected'
  BY <1>3, SameRowsSameBalance DEF ReverseStart
<1>4. ASSUME NEW r \in Requests, LockAssignment(r) PROVE NeverOvercollected'
  BY <1>4, SameRowsSameBalance DEF LockAssignment
<1>5. ASSUME NEW r \in Requests, AcceptAmount(r) PROVE NeverOvercollected'
  BY <1>5, SameRowsSameBalance DEF AcceptAmount
<1>6. ASSUME NEW r \in Requests, RefuseAmount(r) PROVE NeverOvercollected'
  BY <1>6, SameRowsSameBalance DEF RefuseAmount
<1>7. ASSUME NEW r \in Requests, ClaimReceipt(r) PROVE NeverOvercollected'
  BY <1>7, SameRowsSameBalance DEF ClaimReceipt
<1>8. ASSUME NEW r \in Requests, InsertPayment(r) PROVE NeverOvercollected'
  <2> SUFFICES ASSUME NEW a \in Assignments
               PROVE  collectedFrom(a)' <= amountDue'[a]
    OBVIOUS
  <2>1. amountDue' = amountDue /\ pc[r] = "insert"
    BY <1>8 DEF InsertPayment
  <2>2. collectedFrom(a) \in Int /\ amountDue[a] \in Int
    BY BalanceIsInt DEF Money
  <2>3. req[r].amount \in Int
    BY <2>1 DEF OwnRows, Request, Money
  <2>4. CASE req[r].assignment = a
    <3>1. req[r].amount <= amountDue[a] - collectedFrom(a)
      BY <2>1, <2>4 DEF AmountFits
    <3>2. collectedFrom(a)' = collectedFrom(a) + req[r].amount
      BY <1>8, <2>4, InsertPaymentMoves
    <3>3. QED
      BY <2>1, <2>2, <2>3, <3>1, <3>2
  <2>5. CASE req[r].assignment # a
    BY <1>8, <2>1, <2>5, InsertPaymentMoves
  <2>6. QED
    BY <2>4, <2>5
<1>9. ASSUME NEW r \in Requests, ReceiptCollision(r) PROVE NeverOvercollected'
  BY <1>9, SameRowsSameBalance DEF ReceiptCollision
<1>10. ASSUME NEW r \in Requests, AuditPayment(r) PROVE NeverOvercollected'
  BY <1>10, SameRowsSameBalance DEF AuditPayment
<1>11. ASSUME NEW r \in Requests, NotifyReceipt(r) PROVE NeverOvercollected'
  BY <1>11, SameRowsSameBalance DEF NotifyReceipt
<1>12. ASSUME NEW r \in Requests, CheckNotReversed(r) PROVE NeverOvercollected'
  BY <1>12, SameRowsSameBalance DEF CheckNotReversed
<1>13. ASSUME NEW r \in Requests, InsertReversal(r) PROVE NeverOvercollected'
  <2> SUFFICES ASSUME NEW a \in Assignments
               PROVE  collectedFrom(a)' <= amountDue'[a]
    OBVIOUS
  <2>1. amountDue' = amountDue /\ pc[r] = "reverse"
    BY <1>13 DEF InsertReversal
  <2>2. collectedFrom(a) \in Int /\ amountDue[a] \in Int
    BY BalanceIsInt DEF Money
  <2>3. req[r].amount \in Int /\ req[r].amount >= 0
    BY <2>1, AmountAssumption DEF OwnRows, Request, Money
  <2>4. collectedFrom(a)' = IF req[r].assignment = a
                            THEN collectedFrom(a) - req[r].amount
                            ELSE collectedFrom(a)
    BY <1>13, InsertReversalMoves
  <2>5. QED
    BY <2>1, <2>2, <2>3, <2>4
<1>14. ASSUME NEW r \in Requests, ReversalConflict(r) PROVE NeverOvercollected'
  BY <1>14, SameRowsSameBalance DEF ReversalConflict
<1>15. ASSUME NEW r \in Requests, AuditReversal(r) PROVE NeverOvercollected'
  BY <1>15, SameRowsSameBalance DEF AuditReversal
<1>16. ASSUME NEW r \in Requests, Abort(r) PROVE NeverOvercollected'
  BY <1>16, SameRowsSameBalance DEF Abort
<1>17. QED
  BY <1>1, <1>2, <1>3, <1>4, <1>5, <1>6, <1>7, <1>8, <1>9, <1>10, <1>11,
     <1>12, <1>13, <1>14, <1>15, <1>16
  DEF Next, Create, Reverse
-----------------------------------------------------------------------------
\* The ledger invariant holds in every state: the row lock of an assignment is
\* held from the check of its balance to the insert, and an accepted amount
\* still fits when it is inserted (fee-payments.service.ts, create).
THEOREM LedgerSafe == Spec => []LedgerInv
<1>1. LedgerInv /\ [Next]_vars => LedgerInv'
  BY StepTypeOK, StepOwnRows, StepLocksHeld, StepAmountFits,
     StepNeverOvercollected DEF LedgerInv, PaymentsInv
<1>2. QED
  BY LedgerInvInit, <1>1, PTL DEF Spec

\* Every row, lock and local variable keeps its type.
THEOREM Typed == Spec => []TypeOK
<1>1. LedgerInv => TypeOK
  BY DEF LedgerInv, PaymentsInv
<1>2. QED
  BY LedgerSafe, <1>1, PTL

\* No assignment is collected beyond its amount due, for any number of
\* overlapping payments and reversals.
THEOREM Solvent == Spec => []NeverOvercollected
<1>1. LedgerInv => NeverOvercollected
  BY DEF LedgerInv, PaymentsInv
<1>2. QED
  BY LedgerSafe, <1>1, PTL
-----------------------------------------------------------------------------
\* A payment that commits: its id and its receipt number are new.
LEMMA PaymentJoins ==
    ASSUME LedgerInv, HistoryInv, NEW r \in Requests, InsertPayment(r)
    PROVE  /\ RowsDistinct' /\ RowsMirror' /\ ReceiptsDistinct'
           /\ Recorded(req[r].row)'
           /\ feePayments \subseteq feePayments'
<1>1. PICK row \in FeePayment :
        /\ row.id = req[r].row /\ row.receiptNumber = sequence + 1
        /\ row.reversesPaymentId = None
        /\ row \notin feePayments /\ feePayments' = feePayments \cup {row}
  BY InsertPaymentRow DEF LedgerInv, PaymentsInv
<1>2. \A p \in feePayments : p.id # row.id
  BY <1>1 DEF LedgerInv, PaymentsInv, OwnRows, InsertPayment, BeforeInsert
<1>3. RowsDistinct'
  BY <1>1, <1>2 DEF HistoryInv, RowsDistinct
<1>4. /\ row.receiptNumber \in Nat \ Occupied
      /\ \A p \in feePayments : p.receiptNumber # row.receiptNumber
  BY <1>1 DEF InsertPayment, ReceiptsInUse, LedgerInv, PaymentsInv, TypeOK
<1>5. ReceiptsDistinct'
  BY <1>1, <1>4 DEF HistoryInv, ReceiptsDistinct
<1>6. RowsMirror'
  BY <1>1 DEF HistoryInv, RowsMirror, Reverses, ReversalsOf
<1> QED
  BY <1>1, <1>3, <1>5, <1>6 DEF Recorded, InsertPayment

\* A reversal that commits: its payment is there, and had no reversal yet.
LEMMA ReversalJoins ==
    ASSUME LedgerInv, HistoryInv, NEW r \in Requests, InsertReversal(r)
    PROVE  /\ RowsDistinct' /\ RowsMirror' /\ ReceiptsDistinct'
           /\ feePayments \subseteq feePayments'
<1>1. PICK row \in FeePayment :
        /\ row.id = req[r].row /\ row.feeAssignmentId = req[r].assignment
        /\ row.amount = req[r].amount /\ row.receiptNumber = None
        /\ row.reversesPaymentId = req[r].reverses
        /\ row.reversesPaymentId # None
        /\ row \notin feePayments /\ feePayments' = feePayments \cup {row}
  BY InsertReversalRow DEF LedgerInv, PaymentsInv
<1>2. /\ \A p \in feePayments : p.id # row.id
      /\ \A p \in feePayments : p.reversesPaymentId # row.reversesPaymentId
  BY <1>1
  DEF LedgerInv, PaymentsInv, OwnRows, InsertReversal, BeforeInsert, ReversalsOf
<1>3. RowsDistinct'
  BY <1>1, <1>2 DEF HistoryInv, RowsDistinct
<1>4. ReceiptsDistinct'
  BY <1>1, NoneAssumption DEF HistoryInv, ReceiptsDistinct
<1>5. Reverses(row.amount, row.feeAssignmentId, row.reversesPaymentId)
  BY <1>1 DEF HistoryInv, RequestsMirror, InsertReversal
<1>6. RowsMirror'
  BY <1>1, <1>2, <1>5 DEF HistoryInv, RowsMirror, Reverses, ReversalsOf
<1> QED
  BY <1>1, <1>3, <1>4, <1>6

\* The rows keep telling themselves apart: only the two inserts add any.
LEMMA StepRows ==
    ASSUME LedgerInv, HistoryInv, [Next]_vars
    PROVE  /\ RowsDistinct' /\ RowsMirror' /\ ReceiptsDistinct'
           /\ feePayments \subseteq feePayments'
<1>1. CASE feePayments' = feePayments
  BY <1>1
  DEF HistoryInv, RowsDistinct, RowsMirror, ReceiptsDistinct, Reverses,
      ReversalsOf
<1>2. CASE \E r \in Requests : InsertPayment(r) \/ InsertReversal(r)
  BY <1>2, PaymentJoins, ReversalJoins
<1> QED
  BY <1>1, <1>2
  DEF Next, vars, CreateStart, ReverseStart, Create, Reverse, Abort,
      LockAssignment, AcceptAmount, RefuseAmount, ClaimReceipt,
      ReceiptCollision, AuditPayment, NotifyReceipt, CheckNotReversed,
      ReversalConflict, AuditReversal

\* What a request has found: its payment, and its own row.
Found(r) == Reverses(req[r].amount, req[r].assignment, req[r].reverses)
Made(r) == Recorded(req[r].row)

\* A request at work on a reversal has found its payment, and no row goes away.
LEMMA StepRequestsMirror ==
    ASSUME LedgerInv, HistoryInv, [Next]_vars
    PROVE  RequestsMirror'
<1>1. ASSUME NEW s \in Requests, pc'[s] \in {"check", "reverse"},
             pc[s] \in {"check", "reverse"}, req'[s] = req[s]
      PROVE  Found(s)'
  <2>1. Found(s)
    BY <1>1 DEF HistoryInv, RequestsMirror, Found
  <2>2. PICK q \in feePayments :
          /\ q.id = req[s].reverses /\ q.reversesPaymentId = None
          /\ q.feeAssignmentId = req[s].assignment /\ q.amount = req[s].amount
    BY <2>1 DEF Found, Reverses
  <2>3. q \in feePayments'
    BY StepRows
  <2> QED
    BY <1>1, <2>2, <2>3 DEF Found, Reverses
<1>2. ASSUME NEW r \in Requests, ReverseStart(r)
      PROVE  Found(r)'
  <2>1. PICK p \in feePayments, id \in FreshIds :
          /\ p.reversesPaymentId = None
          /\ req' = [req EXCEPT ![r] =
                       [row |-> id, assignment |-> p.feeAssignmentId,
                        amount |-> p.amount, attempt |-> 1, reverses |-> p.id]]
    BY <1>2 DEF ReverseStart
  <2>2. /\ req'[r].amount = p.amount /\ req'[r].reverses = p.id
        /\ req'[r].assignment = p.feeAssignmentId
    BY <2>1 DEF LedgerInv, PaymentsInv, TypeOK
  <2>3. p \in feePayments'
    BY StepRows
  <2> QED
    BY <2>1, <2>2, <2>3 DEF Found, Reverses
<1>3. ASSUME NEW s \in Requests, pc'[s] \in {"check", "reverse"}
      PROVE  \/ pc[s] \in {"check", "reverse"} /\ req'[s] = req[s]
             \/ ReverseStart(s)
  <2> USE DEF LedgerInv, PaymentsInv, TypeOK, Goto, Return
  <2>1. CASE UNCHANGED vars
    BY <1>3, <2>1 DEF vars
  <2>2. ASSUME NEW r \in Requests, CreateStart(r) \/ ReverseStart(r)
        PROVE  \/ pc[s] \in {"check", "reverse"} /\ req'[s] = req[s]
               \/ ReverseStart(s)
    BY <1>3, <2>2 DEF CreateStart, ReverseStart
  <2>3. ASSUME NEW r \in Requests, Create(r)
        PROVE  pc[s] \in {"check", "reverse"} /\ req'[s] = req[s]
    BY <1>3, <2>3
    DEF Create, LockAssignment, AcceptAmount, RefuseAmount, ClaimReceipt,
        InsertPayment, ReceiptCollision, AuditPayment, NotifyReceipt
  <2>4. ASSUME NEW r \in Requests, Reverse(r) \/ Abort(r)
        PROVE  pc[s] \in {"check", "reverse"} /\ req'[s] = req[s]
    BY <1>3, <2>4
    DEF Reverse, Abort, CheckNotReversed, InsertReversal, ReversalConflict,
        AuditReversal
  <2> QED
    BY <2>1, <2>2, <2>3, <2>4 DEF Next
<1> QED
  BY <1>1, <1>2, <1>3 DEF RequestsMirror, Found

\* The receipt is queued after the audit entry, and that follows the commit.
LEMMA StepReceiptsFollow ==
    ASSUME LedgerInv, HistoryInv, [Next]_vars
    PROVE  ReceiptsFollow'
<1>1. \A id : Recorded(id) => Recorded(id)'
  BY StepRows DEF Recorded
<1>2. audited \subseteq audited'
  BY DEF Next, vars, CreateStart, ReverseStart, Create, Reverse, Abort,
      LockAssignment, AcceptAmount, RefuseAmount, ClaimReceipt, InsertPayment,
      ReceiptCollision, AuditPayment, NotifyReceipt, CheckNotReversed,
      InsertReversal, ReversalConflict, AuditReversal
<1>3. ASSUME NEW id \in texted'
      PROVE  id \in texted \/ \E r \in Requests :
                                 pc[r] = "notify" /\ id = req[r].row
  BY <1>3
  DEF Next, vars, CreateStart, ReverseStart, Create, Reverse, Abort,
      LockAssignment, AcceptAmount, RefuseAmount, ClaimReceipt, InsertPayment,
      ReceiptCollision, AuditPayment, NotifyReceipt, CheckNotReversed,
      InsertReversal, ReversalConflict, AuditReversal
<1>4. ASSUME NEW s \in Requests, pc'[s] \in {"audit", "notify"}
      PROVE  \/ pc'[s] = pc[s] /\ req'[s] = req[s]
             \/ pc'[s] = "audit" /\ InsertPayment(s)
             \/ pc[s] = "audit" /\ AuditPayment(s)
  <2> USE DEF LedgerInv, PaymentsInv, TypeOK, Goto, Return
  <2>1. CASE UNCHANGED vars
    BY <1>4, <2>1 DEF vars
  <2>2. ASSUME NEW r \in Requests, CreateStart(r) \/ ReverseStart(r)
        PROVE  pc'[s] = pc[s] /\ req'[s] = req[s]
    BY <1>4, <2>2 DEF CreateStart, ReverseStart
  <2>3. ASSUME NEW r \in Requests, Create(r)
        PROVE  \/ pc'[s] = pc[s] /\ req'[s] = req[s]
               \/ pc'[s] = "audit" /\ InsertPayment(s)
               \/ pc[s] = "audit" /\ AuditPayment(s)
    BY <1>4, <2>3
    DEF Create, LockAssignment, AcceptAmount, RefuseAmount, ClaimReceipt,
        InsertPayment, ReceiptCollision, AuditPayment, NotifyReceipt
  <2>4. ASSUME NEW r \in Requests, Reverse(r) \/ Abort(r)
        PROVE  pc'[s] = pc[s] /\ req'[s] = req[s]
    BY <1>4, <2>4
    DEF Reverse, Abort, CheckNotReversed, InsertReversal, ReversalConflict,
        AuditReversal
  <2> QED
    BY <2>1, <2>2, <2>3, <2>4 DEF Next
<1>5. ASSUME NEW s \in Requests, pc'[s] \in {"audit", "notify"}
      PROVE  /\ Made(s)'
             /\ pc'[s] = "notify" => <<"created", req'[s].row>> \in audited'
  <2>1. CASE pc'[s] = pc[s] /\ req'[s] = req[s]
    <3>1. /\ Made(s)
          /\ pc[s] = "notify" => <<"created", req[s].row>> \in audited
      BY <1>5, <2>1 DEF HistoryInv, ReceiptsFollow, Made
    <3>2. \A id : id = req[s].row => Recorded(id)'
      BY <1>1, <3>1 DEF Made
    <3> QED
      BY <1>2, <2>1, <3>1, <3>2 DEF Made, Recorded
  <2>2. CASE pc'[s] = "audit" /\ InsertPayment(s)
    BY <2>2, PaymentJoins DEF Made
  <2>3. CASE pc[s] = "audit" /\ AuditPayment(s)
    <3>1. Made(s) /\ req' = req /\ feePayments' = feePayments
      BY <2>3 DEF HistoryInv, ReceiptsFollow, Made, AuditPayment
    <3> QED
      BY <2>3, <3>1 DEF Made, Recorded, AuditPayment
  <2> QED
    BY <1>4, <1>5, <2>1, <2>2, <2>3
<1>6. ASSUME NEW id \in texted'
      PROVE  Recorded(id)' /\ <<"created", id>> \in audited'
  BY <1>1, <1>2, <1>3, <1>6 DEF HistoryInv, ReceiptsFollow
<1> QED
  BY <1>5, <1>6 DEF ReceiptsFollow, Made

LEMMA HistorySafe == Spec => []HistoryInv
<1>1. Init => HistoryInv
  BY DEF Init, HistoryInv, RowsDistinct, RowsMirror, RequestsMirror,
         ReceiptsDistinct, ReceiptsFollow
<1>2. LedgerInv /\ HistoryInv /\ [Next]_vars => HistoryInv'
  BY StepRows, StepRequestsMirror, StepReceiptsFollow DEF HistoryInv
<1> QED
  BY <1>1, <1>2, LedgerSafe, PTL DEF Spec

\* A payment is reversed at most once, by a row that mirrors it, and a reversal
\* never, for any number of requests that race past the check.
THEOREM ReversedAtMostOnce == Spec => []ReversedOnce
<1>1. ASSUME LedgerInv, HistoryInv, NEW p \in feePayments
      PROVE  Cardinality(ReversalsOf(p.id)) <= 1
  <2>1. p.id # None
    BY <1>1, NoneAssumption DEF LedgerInv, PaymentsInv, TypeOK, FeePayment
  <2>2. CASE ReversalsOf(p.id) = {}
    BY <2>2, FS_EmptySet
  <2>3. CASE ReversalsOf(p.id) # {}
    <3>1. PICK q \in ReversalsOf(p.id) : TRUE
      BY <2>3
    <3>2. ReversalsOf(p.id) = {q}
      BY <1>1, <2>1, <3>1 DEF HistoryInv, RowsMirror, ReversalsOf
    <3> QED
      <4>1. Cardinality({q}) = 1
        BY FS_Singleton
      <4> QED
        BY <3>2, <4>1
  <2> QED
    BY <2>2, <2>3
<1>2. LedgerInv /\ HistoryInv => ReversedOnce
  BY <1>1 DEF ReversedOnce, HistoryInv, RowsMirror, Reverses
<1> QED
  BY <1>2, LedgerSafe, HistorySafe, PTL

\* Every receipt that is texted is that of a committed, audited payment, and
\* no other payment has its number.
THEOREM ReceiptsTrue == Spec => []TextedWasRecorded
<1>1. HistoryInv => TextedWasRecorded
  BY DEF HistoryInv, ReceiptsFollow, ReceiptsDistinct, Recorded,
         TextedWasRecorded
<1> QED
  BY <1>1, HistorySafe, PTL
-----------------------------------------------------------------------------
\* The payment that a reversal mirrors.
Original(p) == CHOOSE q \in feePayments : q.id = p.reversesPaymentId

LEMMA OriginalKnown ==
    ASSUME HistoryInv, NEW a \in Assignments, NEW p \in ReversedOn(a)
    PROVE  /\ Original(p) \in PaidOn(a) /\ Original(p).amount = p.amount
           /\ Original(p).id = p.reversesPaymentId
<1>1. /\ p \in feePayments /\ p.reversesPaymentId # None
      /\ p.feeAssignmentId = a
  BY DEF ReversedOn
<1>2. PICK q \in feePayments :
        /\ q.id = p.reversesPaymentId /\ q.reversesPaymentId = None
        /\ q.feeAssignmentId = a /\ q.amount = p.amount
  BY <1>1 DEF HistoryInv, RowsMirror, Reverses
<1>3. /\ Original(p) \in feePayments
      /\ Original(p).id = p.reversesPaymentId
  BY <1>2 DEF Original
<1>4. Original(p) = q
  BY <1>2, <1>3 DEF HistoryInv, RowsDistinct
<1> QED
  BY <1>2, <1>4 DEF PaidOn

\* The reversals of an assignment take back no more than the payments they
\* mirror, pesewa for pesewa.
LEMMA ReversalsTakeBack ==
    ASSUME TypeOK, HistoryInv, NEW a \in Assignments,
           NEW others \in SUBSET PaidOn(a),
           \A p \in ReversedOn(a) : Original(p) \in others
    PROVE  Total(ReversedOn(a)) <= Total(others)
<1> DEFINE given == ReversedOn(a)
           back == [u \in Units(given) |-> <<Original(u[1]), u[2]>>]
<1>1. IsFiniteSet(Units(others))
  <2>1. IsFiniteSet(PaidOn(a)) /\ PaidOn(a) \in SUBSET FeePayment
    BY BalanceIsInt
  <2>2. IsFiniteSet(others) /\ others \in SUBSET FeePayment
    BY <2>1, FS_Subset
  <2> QED
    BY <2>2, TotalIsNat
<1>2. ASSUME NEW u \in Units(given)
      PROVE  back[u] \in Units(others)
  <2>1. u[1] \in given /\ u[2] \in Money /\ u[2] <= u[1].amount
    BY DEF Units
  <2>2. Original(u[1]) \in others /\ Original(u[1]).amount = u[1].amount
    BY <2>1, OriginalKnown
  <2> QED
    BY <2>1, <2>2 DEF Units
<1>3. ASSUME NEW u \in Units(given), NEW v \in Units(given), back[u] = back[v]
      PROVE  u = v
  <2>1. /\ u[1] \in given /\ v[1] \in given
        /\ u = <<u[1], u[2]>> /\ v = <<v[1], v[2]>>
    BY DEF Units
  <2>2. Original(u[1]) = Original(v[1]) /\ u[2] = v[2]
    BY <1>3
  <2>3. u[1].reversesPaymentId = v[1].reversesPaymentId
    BY <2>1, <2>2, OriginalKnown
  <2>4. u[1] = v[1]
    BY <2>1, <2>3 DEF HistoryInv, RowsMirror, ReversedOn, ReversalsOf
  <2> QED
    BY <2>1, <2>2, <2>4
<1>4. back \in Injection(Units(given), Units(others))
  BY <1>2, <1>3 DEF Injection, IsInjective
<1> QED
  BY <1>1, <1>4, FS_Injection DEF Total

\* Nothing more has been given back than was collected.
LEMMA CollectedNotNegative ==
    ASSUME TypeOK, HistoryInv, NEW a \in Assignments
    PROVE  collectedFrom(a) \in Nat
<1>1. Total(PaidOn(a)) \in Nat /\ Total(ReversedOn(a)) \in Nat
  BY BalanceIsInt, TotalIsNat
<1>2. \A p \in ReversedOn(a) : Original(p) \in PaidOn(a)
  BY OriginalKnown
<1>3. Total(ReversedOn(a)) <= Total(PaidOn(a))
  BY <1>2, ReversalsTakeBack
<1> QED
  BY <1>1, <1>3 DEF collectedFrom

\* Before a payment is reversed, what was collected contains it: the reversals
\* there are take back others.
LEMMA ReversalFits ==
    ASSUME LedgerInv, HistoryInv, NEW r \in Requests, InsertReversal(r)
    PROVE  req[r].amount <= collectedFrom(req[r].assignment)
<1> DEFINE a == req[r].assignment
           given == ReversedOn(a)
           taken == PaidOn(a)
<1>1. PICK q \in feePayments :
        /\ q.id = req[r].reverses /\ q.reversesPaymentId = None
        /\ q.feeAssignmentId = a /\ q.amount = req[r].amount
  BY DEF HistoryInv, RequestsMirror, Reverses, InsertReversal
<1>2. a \in Assignments /\ TypeOK
  BY DEF LedgerInv, PaymentsInv, OwnRows, InsertReversal, Request
<1>3. /\ taken \in SUBSET FeePayment /\ IsFiniteSet(taken)
      /\ given \in SUBSET FeePayment /\ IsFiniteSet(given)
  BY <1>2, BalanceIsInt
<1>4. q \in taken /\ q \in FeePayment /\ q.amount \in Int
  BY <1>1, <1>3, AmountAssumption DEF PaidOn, FeePayment, Money
<1> DEFINE others == taken \ {q}
<1>5. /\ others \in SUBSET FeePayment /\ IsFiniteSet(others)
      /\ q \notin others /\ taken = others \cup {q}
  BY <1>3, <1>4, FS_RemoveElement
<1>6. Total(taken) = Total(others) + q.amount
  BY <1>4, <1>5, TotalAddsRow
<1>7. Total(others) \in Nat /\ Total(given) \in Nat
  BY <1>3, <1>5, TotalIsNat
<1>8. ASSUME NEW p \in given PROVE Original(p) \in others
  <2>1. Original(p) \in taken /\ Original(p).id = p.reversesPaymentId
    BY <1>2, OriginalKnown
  <2>2. p \in feePayments /\ p.reversesPaymentId # req[r].reverses
    BY DEF ReversedOn, InsertReversal, ReversalsOf
  <2> QED
    BY <1>1, <2>1, <2>2
<1>9. Total(given) <= Total(others)
  <2>1. others \in SUBSET PaidOn(a)
    OBVIOUS
  <2> HIDE DEF others
  <2> QED
    BY <1>2, <1>8, <2>1, ReversalsTakeBack
<1> QED
  BY <1>1, <1>4, <1>6, <1>7, <1>9 DEF collectedFrom

\* The ledger's view of the two inserts.
LEMMA PaymentIsPay ==
    ASSUME LedgerInv, NEW r \in Requests, InsertPayment(r)
    PROVE  Ledger!Pay(req[r].assignment, req[r].amount)
<1> DEFINE a == req[r].assignment
<1>1. a \in Assignments /\ req[r].amount \in Int /\ amountDue' = amountDue
  BY AmountAssumption
  DEF LedgerInv, PaymentsInv, OwnRows, InsertPayment, Request, Money
<1>2. collectedFrom(a) \in Int /\ amountDue[a] \in Int
  BY <1>1, BalanceIsInt, AmountAssumption
  DEF LedgerInv, PaymentsInv, TypeOK, Money
<1>3. req[r].amount <= amountDue[a] - collectedFrom(a)
  BY <1>1 DEF LedgerInv, PaymentsInv, AmountFits, InsertPayment
<1>4. \A b \in Assignments :
        collectedFrom(b)' = IF a = b THEN collectedFrom(b) + req[r].amount
                            ELSE collectedFrom(b)
  BY InsertPaymentMoves DEF LedgerInv, PaymentsInv
<1> QED
  BY <1>1, <1>2, <1>3, <1>4 DEF Ledger!Pay

LEMMA ReversalIsGiveBack ==
    ASSUME LedgerInv, HistoryInv, NEW r \in Requests, InsertReversal(r)
    PROVE  Ledger!GiveBack(req[r].assignment, req[r].amount)
<1> DEFINE a == req[r].assignment
<1>1. a \in Assignments /\ amountDue' = amountDue
  BY DEF LedgerInv, PaymentsInv, OwnRows, InsertReversal, Request
<1>2. \A b \in Assignments :
        collectedFrom(b)' = IF a = b THEN collectedFrom(b) - req[r].amount
                            ELSE collectedFrom(b)
  BY InsertReversalMoves DEF LedgerInv, PaymentsInv
<1>3. req[r].amount <= collectedFrom(a)
  BY ReversalFits
<1> QED
  BY <1>1, <1>2, <1>3 DEF Ledger!GiveBack

\* What a request may pay or give back is an amount of the ledger.
LEMMA AmountOfLedger ==
    ASSUME LedgerInv, NEW r \in Requests, pc[r] # "idle"
    PROVE  req[r].assignment \in Assignments /\ req[r].amount \in 1 .. MaxAmount
BY DEF LedgerInv, PaymentsInv, OwnRows, Request, Money

LEMMA LedgerStep ==
    ASSUME LedgerInv, HistoryInv, [Next]_vars
    PROVE  [Ledger!LedgerNext]_(Ledger!ledgerVars)
<1>1. CASE feePayments' = feePayments /\ amountDue' = amountDue
  <2>1. \A a \in Assignments : collectedFrom(a)' = collectedFrom(a)
    BY <1>1, SameRowsSameBalance
  <2> QED
    BY <1>1, <2>1 DEF Ledger!ledgerVars
<1>2. ASSUME NEW r \in Requests, InsertPayment(r)
      PROVE  Ledger!LedgerNext
  <2>1. pc[r] # "idle"
    BY <1>2 DEF InsertPayment
  <2> QED
    BY <1>2, <2>1, AmountOfLedger, PaymentIsPay DEF Ledger!LedgerNext
<1>3. ASSUME NEW r \in Requests, InsertReversal(r)
      PROVE  Ledger!LedgerNext
  <2>1. pc[r] # "idle"
    BY <1>3 DEF InsertReversal
  <2> QED
    BY <1>3, <2>1, AmountOfLedger, ReversalIsGiveBack DEF Ledger!LedgerNext
<1> QED
  BY <1>1, <1>2, <1>3
  DEF Next, vars, CreateStart, ReverseStart, Create, Reverse, Abort,
      LockAssignment, AcceptAmount, RefuseAmount, ClaimReceipt,
      ReceiptCollision, AuditPayment, NotifyReceipt, CheckNotReversed,
      ReversalConflict, AuditReversal

\* Payments and reversals by row, lock and retry keep the simple ledger: each
\* takes effect in one step, and only if it fits the balance of that moment.
THEOREM LedgerImplemented == Spec => ImplementsLedger
<1>1. Init => Ledger!LedgerInit
  <2> SUFFICES ASSUME Init PROVE Ledger!LedgerInit
    OBVIOUS
  <2>1. ASSUME NEW a \in Assignments PROVE collectedFrom(a) = 0
    BY NothingCollected
  <2> QED
    BY <2>1 DEF Init, Money, Ledger!LedgerInit
<1>2. LedgerInv /\ HistoryInv /\ [Next]_vars
        => [Ledger!LedgerNext]_(Ledger!ledgerVars)
  BY LedgerStep
<1> QED
  BY <1>1, <1>2, LedgerSafe, HistorySafe, PTL
  DEF Spec, ImplementsLedger, Ledger!LedgerSpec
-----------------------------------------------------------------------------
(* Reports.                                                                *)

\* The figures of every assignment, as the reports sum them.
Collected == [a \in Assignments |-> collectedFrom(a)]
Owed == [a \in Assignments |-> amountDue[a] - collectedFrom(a)]

\* What the reports may rely on: something is due on each assignment, and no
\* less than was collected.
FiguresFit ==
    \A a \in Assignments :
        /\ amountDue[a] \in Nat \ {0} /\ collectedFrom(a) \in Nat
        /\ collectedFrom(a) <= amountDue[a]

LEMMA FigureOf ==
    ASSUME FiguresFit, NEW a \in Assignments
    PROVE  /\ amountDue[a] \in Nat \ {0} /\ Collected[a] \in Nat
           /\ Owed[a] \in Nat /\ Owed[a] = amountDue[a] - Collected[a]
           /\ amountDue[a] \in Int /\ Collected[a] \in Int /\ Owed[a] \in Int
<1>1. Collected[a] = collectedFrom(a) /\ Owed[a] = amountDue[a] - collectedFrom(a)
  BY DEF Collected, Owed
<1>2. /\ amountDue[a] \in Nat \ {0} /\ collectedFrom(a) \in Nat
      /\ collectedFrom(a) <= amountDue[a]
  BY DEF FiguresFit
<1> QED
  BY <1>1, <1>2

LEMMA SumIsSumOf == \A f, S : sum(f, S) = SumOf(f, S)
BY DEF sum, SumOf

\* The three columns of the totals of some assignments.
LEMMA TotalsOf ==
    ASSUME FiguresFit, NEW as \in SUBSET Assignments
    PROVE  /\ ledgerTotals(as) = [billed |-> SumOf(amountDue, as),
                                  collected |-> SumOf(Collected, as),
                                  outstanding |-> SumOf(Owed, as)]
           /\ SumOf(amountDue, as) \in Nat /\ SumOf(Collected, as) \in Nat
           /\ SumOf(Owed, as) \in Nat
           /\ SumOf(Owed, as) = SumOf(amountDue, as) - SumOf(Collected, as)
<1>1. IsFiniteSet(as)
  BY TablesAssumption, FS_Subset
<1>2. \A a \in as : /\ amountDue[a] \in Nat /\ Collected[a] \in Nat
                    /\ Owed[a] \in Nat /\ Owed[a] = amountDue[a] - Collected[a]
  BY FigureOf
<1>3. /\ SumOf(amountDue, as) \in Nat /\ SumOf(Collected, as) \in Nat
      /\ SumOf(Owed, as) \in Nat
  BY <1>1, <1>2, SumOfNats
<1>4. SumOf(Owed, as) = SumOf(amountDue, as) - SumOf(Collected, as)
  <2>1. \A a \in as : /\ amountDue[a] \in Int /\ Collected[a] \in Int
                      /\ Owed[a] = amountDue[a] - Collected[a]
    BY FigureOf
  <2> QED
    BY <1>1, <2>1, SumMinus
<1>5. SumOf([a \in as |-> collectedFrom(a)], as) = SumOf(Collected, as)
  <2> DEFINE figures == [a \in as |-> collectedFrom(a)]
  <2>1. ASSUME NEW a \in as PROVE figures[a] = Collected[a]
    <3>1. a \in Assignments
      OBVIOUS
    <3> QED
      BY <3>1 DEF Collected
  <2> HIDE DEF figures
  <2>2. SumOf(figures, as) = SumOf(Collected, as)
    BY <1>1, <2>1, SumSame
  <2> QED
    BY <2>2 DEF figures
<1> QED
  BY <1>3, <1>4, <1>5, SumIsSumOf DEF ledgerTotals

\* What is owed for two lots of assignments is owed for both together.
LEMMA OwedTogether ==
    ASSUME FiguresFit, NEW as \in SUBSET Assignments,
           NEW bs \in SUBSET Assignments, as \cap bs = {}
    PROVE  ledgerTotals(as \cup bs).outstanding
             = ledgerTotals(as).outstanding + ledgerTotals(bs).outstanding
<1>1. IsFiniteSet(as) /\ IsFiniteSet(bs)
  BY TablesAssumption, FS_Subset
<1>2. \A a \in as \cup bs : Owed[a] \in Int
  BY FigureOf
<1>3. SumOf(Owed, as \cup bs) = SumOf(Owed, as) + SumOf(Owed, bs)
  BY <1>1, <1>2, SumUnion
<1>4. \A cs \in SUBSET Assignments :
        ledgerTotals(cs).outstanding = SumOf(Owed, cs)
  BY TotalsOf
<1>5. /\ ledgerTotals(as \cup bs).outstanding = SumOf(Owed, as \cup bs)
      /\ ledgerTotals(as).outstanding = SumOf(Owed, as)
      /\ ledgerTotals(bs).outstanding = SumOf(Owed, bs)
  BY <1>4
<1> QED
  BY <1>3, <1>5

\* The totals of some assignments are those of the rows they are put in, each
\* in one.
LEMMA TotalsOfRows ==
    ASSUME FiguresFit, NEW as \in SUBSET Assignments,
           NEW part, InParts(as, part),
           NEW rows, DOMAIN rows = DOMAIN part,
           \A k \in DOMAIN part : rows[k] = ledgerTotals(part[k])
    PROVE  ledgerTotals(as) = AddUp(rows)
<1> DEFINE Places == DOMAIN part
           column(c) == [k \in Places |-> rows[k][c]]
<1>1. \A k \in Places :
        /\ rows[k].billed = SumOf(amountDue, part[k])
        /\ rows[k].collected = SumOf(Collected, part[k])
        /\ rows[k].outstanding = SumOf(Owed, part[k])
  <2> SUFFICES ASSUME NEW k \in Places
               PROVE  /\ rows[k].billed = SumOf(amountDue, part[k])
                      /\ rows[k].collected = SumOf(Collected, part[k])
                      /\ rows[k].outstanding = SumOf(Owed, part[k])
    OBVIOUS
  <2>1. part[k] \in SUBSET Assignments /\ rows[k] = ledgerTotals(part[k])
    BY DEF InParts
  <2> QED
    BY <2>1, TotalsOf
<1>2. \A a \in as : /\ amountDue[a] \in Int /\ Collected[a] \in Int
                    /\ Owed[a] \in Int
  BY FigureOf
<1>3. /\ AddsUp(column("billed"), amountDue, as, part)
      /\ AddsUp(column("collected"), Collected, as, part)
      /\ AddsUp(column("outstanding"), Owed, as, part)
  BY <1>1, <1>2 DEF AddsUp
<1> HIDE DEF column
<1>4. /\ SumOf(amountDue, as) = SumOf(column("billed"), Places)
      /\ SumOf(Collected, as) = SumOf(column("collected"), Places)
      /\ SumOf(Owed, as) = SumOf(column("outstanding"), Places)
  <2>1. SumOf(amountDue, as) = SumOf(column("billed"), Places)
    BY <1>3, SumOfParts
  <2>2. SumOf(Collected, as) = SumOf(column("collected"), Places)
    BY <1>3, SumOfParts
  <2>3. SumOf(Owed, as) = SumOf(column("outstanding"), Places)
    BY <1>3, SumOfParts
  <2> QED
    BY <2>1, <2>2, <2>3
<1>5. AddUp(rows) = [c \in Columns |-> SumOf(column(c), Places)]
  BY SumIsSumOf DEF AddUp, column
<1>6. ledgerTotals(as) = [billed |-> SumOf(amountDue, as),
                          collected |-> SumOf(Collected, as),
                          outstanding |-> SumOf(Owed, as)]
  BY TotalsOf
<1> QED
  BY <1>4, <1>5, <1>6 DEF Columns

\* Some assignments together are paid when each of them is, and nothing has
\* been paid on them when nothing has on each.
LEMMA StateOfAll ==
    ASSUME FiguresFit, NEW as \in SUBSET Assignments, as # {}
    PROVE  /\ paymentState(ledgerTotals(as)) = "paid"
                <=> \A a \in as : paymentState(ledgerTotals({a})) = "paid"
           /\ paymentState(ledgerTotals(as)) = "pending"
                <=> \A a \in as : paymentState(ledgerTotals({a})) = "pending"
<1> DEFINE state(bs) == paymentState(ledgerTotals(bs))
<1>1. ASSUME NEW bs \in SUBSET Assignments, bs # {}
      PROVE  /\ state(bs) = "paid" <=> \A a \in bs : Owed[a] = 0
             /\ state(bs) = "pending" <=> \A a \in bs : Collected[a] = 0
  <2>1. IsFiniteSet(bs)
    BY TablesAssumption, FS_Subset
  <2>2. \A a \in bs : /\ amountDue[a] \in Nat \ {0} /\ Collected[a] \in Nat
                      /\ Owed[a] \in Nat
    BY FigureOf
  <2>3. /\ SumOf(Owed, bs) = 0 <=> \A a \in bs : Owed[a] = 0
        /\ SumOf(Collected, bs) = 0 <=> \A a \in bs : Collected[a] = 0
    BY <2>1, <2>2, SumOfNats
  <2>4. SumOf(amountDue, bs) # 0
    <3>1. \A a \in bs : amountDue[a] \in Nat
      BY <2>2
    <3>2. SumOf(amountDue, bs) = 0 <=> \A a \in bs : amountDue[a] = 0
      BY <2>1, <3>1, SumOfNats
    <3> QED
      BY <1>1, <2>2, <3>2
  <2> DEFINE totals == ledgerTotals(bs)
  <2>5. /\ totals.billed \in Nat \ {0} /\ totals.collected \in Nat
        /\ totals.outstanding \in Nat
        /\ totals.outstanding = totals.billed - totals.collected
        /\ totals.collected = SumOf(Collected, bs)
        /\ totals.outstanding = SumOf(Owed, bs)
    BY <1>1, <2>4, TotalsOf
  <2> HIDE DEF totals
  <2>6. /\ paymentState(totals) = "paid" <=> totals.outstanding = 0
        /\ paymentState(totals) = "pending" <=> totals.collected = 0
    BY <2>5 DEF paymentState
  <2> QED
    BY <2>3, <2>5, <2>6 DEF totals
<1>2. ASSUME NEW a \in as
      PROVE  /\ state({a}) = "paid" <=> Owed[a] = 0
             /\ state({a}) = "pending" <=> Collected[a] = 0
  <2>1. {a} \in SUBSET Assignments /\ {a} # {}
    OBVIOUS
  <2> HIDE DEF state
  <2> QED
    BY <1>1, <2>1
<1> HIDE DEF state
<1>3. /\ state(as) = "paid" <=> \A a \in as : state({a}) = "paid"
      /\ state(as) = "pending" <=> \A a \in as : state({a}) = "pending"
  BY <1>1, <1>2
<1> QED
  BY <1>3 DEF state
-----------------------------------------------------------------------------
LEMMA BookKnown ==
    ASSUME NEW book \in Books, NEW a \in Assignments
    PROVE  /\ book[a].enrollment \in Enrollments
           /\ book[a].enrollment[1] \in Students
           /\ book[a].term \in Terms /\ book[a].term \in Nat
           /\ book[a].feeType \in FeeTypes
<1>1. book[a] \in Account
  BY BooksAssumption
<1>2. /\ book[a].enrollment \in Enrollments /\ book[a].term \in Terms
      /\ book[a].feeType \in FeeTypes
  BY <1>1 DEF Account
<1> QED
  BY <1>2, TermsAssumption DEF Enrollments

\* The ledger of the year adds up, by its accounts and by all bills.
LEMMA LedgerAddsUp ==
    ASSUME FiguresFit, NEW book \in Books
    PROVE  LedgerIsSumOfBills(book)
<1> DEFINE year == ledger(book, Terms)
           Key(a) == <<book[a].feeType, book[a].term>>
           Keys == {Key(a) : a \in Assignments}
           accounts == [key \in Keys |-> {a \in Assignments : Key(a) = key}]
           Cells == Students \X Terms
           cells == [x \in Cells |-> BilledTo(book, x[1]) \cap InTerm(book, x[2])]
           bills == [x \in Cells |-> bill(book, x[1], x[2]).current]
<1>1. {a \in Assignments : book[a].term \in Terms} = Assignments
  BY BookKnown
<1>2. /\ year.totals = ledgerTotals(Assignments)
      /\ DOMAIN year.rows = Keys
      /\ \A key \in Keys : year.rows[key] = ledgerTotals(accounts[key])
  BY <1>1 DEF ledger
<1>3. InParts(Assignments, accounts)
  <2>1. IsFiniteSet(Keys)
    <3>1. IsFiniteSet(FeeTypes \X Terms)
      BY TablesAssumption, TermsAssumption, FS_Product
    <3>2. Keys \in SUBSET (FeeTypes \X Terms)
      BY BookKnown
    <3> HIDE DEF Keys
    <3> QED
      BY <3>1, <3>2, FS_Subset
  <2>2. \A a \in Assignments : Key(a) \in Keys /\ a \in accounts[Key(a)]
    OBVIOUS
  <2>3. \A k \in Keys : accounts[k] \in SUBSET Assignments
    OBVIOUS
  <2>4. \A k, l \in Keys : k # l => accounts[k] \cap accounts[l] = {}
    OBVIOUS
  <2>5. DOMAIN accounts = Keys
    OBVIOUS
  <2> HIDE DEF accounts, Keys
  <2>6. Assignments = UNION {accounts[k] : k \in Keys}
    BY <2>2, <2>3
  <2> QED
    BY <2>1, <2>4, <2>5, <2>6, TablesAssumption DEF InParts
<1>4. InParts(Assignments, cells)
  <2>1. IsFiniteSet(Cells)
    BY TablesAssumption, TermsAssumption, FS_Product
  <2>2. ASSUME NEW a \in Assignments
        PROVE  a \in UNION {cells[x] : x \in Cells}
    <3>1. <<book[a].enrollment[1], book[a].term>> \in Cells
      BY BookKnown
    <3>2. a \in cells[<<book[a].enrollment[1], book[a].term>>]
      BY <3>1 DEF BilledTo, InTerm
    <3> QED
      BY <3>1, <3>2
  <2>3. \A x \in Cells : cells[x] \in SUBSET Assignments
    BY DEF BilledTo, InTerm
  <2>4. ASSUME NEW x \in Cells, NEW y \in Cells, x # y
        PROVE  cells[x] \cap cells[y] = {}
    <3>1. x = <<x[1], x[2]>> /\ y = <<y[1], y[2]>>
      OBVIOUS
    <3> QED
      BY <2>4, <3>1 DEF BilledTo, InTerm
  <2>5. DOMAIN cells = Cells
    OBVIOUS
  <2> HIDE DEF cells, Cells
  <2>6. Assignments = UNION {cells[x] : x \in Cells}
    BY <2>2, <2>3
  <2> QED
    BY <2>1, <2>4, <2>5, <2>6, TablesAssumption DEF InParts
<1>5. /\ DOMAIN bills = DOMAIN cells
      /\ \A x \in DOMAIN cells : bills[x] = ledgerTotals(cells[x])
  BY DEF bill
<1>6. DOMAIN year.rows = DOMAIN accounts
  BY <1>2
<1>7. \A key \in DOMAIN accounts : year.rows[key] = ledgerTotals(accounts[key])
  BY <1>2
<1> HIDE DEF year, accounts, cells
<1>8. ledgerTotals(Assignments) = AddUp(year.rows)
  <2> DEFINE rows == year.rows
  <2>1. /\ DOMAIN rows = DOMAIN accounts
        /\ \A key \in DOMAIN accounts : rows[key] = ledgerTotals(accounts[key])
    BY <1>6, <1>7
  <2> HIDE DEF rows
  <2>2. ledgerTotals(Assignments) = AddUp(rows)
    BY <1>3, <2>1, TotalsOfRows
  <2> QED
    BY <2>2 DEF rows
<1>9. ledgerTotals(Assignments) = AddUp(bills)
  <2> HIDE DEF bills
  <2> QED
    BY <1>4, <1>5, TotalsOfRows
<1> QED
  BY <1>2, <1>8, <1>9 DEF LedgerIsSumOfBills, year

-----------------------------------------------------------------------------
\* The assignments of some fee types that the summary of a term counts.
Assigned(book, term, feeTypes) ==
    {a \in InTerm(book, term) : /\ book[a].enrollment[2] = "active"
                               /\ book[a].feeType \in feeTypes}

RowOf(book, term, s) == Assigned(book, term, FeeTypes) \cap BilledTo(book, s)

LEMMA SummaryTotals ==
    ASSUME NEW book, NEW term, NEW feeTypes
    PROVE  levelSummary(book, term, feeTypes).totals
             = ledgerTotals(Assigned(book, term, feeTypes))
BY DEF levelSummary, Assigned

LEMMA SummaryRow ==
    ASSUME NEW book, NEW term, NEW s \in Students, NEW row,
           row = levelSummary(book, term, FeeTypes).rows[s]
    PROVE  /\ row.feeCount = Cardinality(RowOf(book, term, s))
           /\ row.totals = ledgerTotals(RowOf(book, term, s))
           /\ row.broughtForward = bill(book, s, term).broughtForward
           /\ row.totalDue = ledgerTotals(RowOf(book, term, s)).outstanding
                               + row.broughtForward
           /\ RowOf(book, term, s) # {} =>
                row.paymentState = paymentState(ledgerTotals(RowOf(book, term, s)))
BY DEF levelSummary, Assigned, bill, RowOf

\* The lines of a bill, and the arrears it brings forward.
LinesOf(book, s, term) == BilledTo(book, s) \cap InTerm(book, term)
EarlierOf(book, s, term) == BilledTo(book, s) \cap BeforeTerm(book, term)

LEMMA BillTotals ==
    \A book, s, term :
      /\ bill(book, s, term).totalDue
           = ledgerTotals(LinesOf(book, s, term)).outstanding
               + bill(book, s, term).broughtForward
      /\ bill(book, s, term).paymentState
           = paymentState(ledgerTotals(LinesOf(book, s, term)))
BY DEF bill, LinesOf

LEMMA BillLines ==
    \A book, s, term :
      bill(book, s, term).lines
        = [a \in LinesOf(book, s, term) |-> paymentState(ledgerTotals({a}))]
BY DEF bill, LinesOf

LEMMA BillArrears ==
    ASSUME FiguresFit
    PROVE  \A book, s, term :
             /\ bill(book, s, term).broughtForward
                  = ledgerTotals(EarlierOf(book, s, term)).outstanding
             /\ bill(book, s, term).broughtForward \in Nat
<1> SUFFICES ASSUME NEW book, NEW s, NEW term
             PROVE  /\ bill(book, s, term).broughtForward
                         = ledgerTotals(EarlierOf(book, s, term)).outstanding
                    /\ bill(book, s, term).broughtForward \in Nat
  OBVIOUS
<1> DEFINE earlier == EarlierOf(book, s, term)
<1>1. earlier \in SUBSET Assignments
  BY DEF BilledTo, EarlierOf
<1>2. bill(book, s, term).broughtForward
        = orZero(ledgerTotals(earlier).outstanding)
  BY DEF bill, EarlierOf
<1> HIDE DEF earlier
<1>3. ledgerTotals(earlier).outstanding \in Nat
  BY <1>1, TotalsOf
<1>4. orZero(ledgerTotals(earlier).outstanding)
        = ledgerTotals(earlier).outstanding
  BY <1>3 DEF orZero
<1> QED
  BY <1>2, <1>3, <1>4 DEF earlier

\* Every row of a summary tells what the bill tells, and the rows add up.
LEMMA SummaryAddsUp ==
    ASSUME FiguresFit, NEW book \in Books, NEW term \in Terms
    PROVE  SummaryMatchesBills(book, term)
<1> DEFINE summary == levelSummary(book, term, FeeTypes)
           assigned == Assigned(book, term, FeeTypes)
           Left(s) == {a \in InTerm(book, term) :
                         book[a].enrollment = <<s, "withdrawn">>}
           own == [s \in Students |-> RowOf(book, term, s)]
           each == [f \in FeeTypes |-> Assigned(book, term, {f})]
           ofStudents == [s \in Students |-> summary.rows[s].totals]
           ofTypes == [f \in FeeTypes |->
                         levelSummary(book, term, {f}).totals]
<1>1. summary.totals = ledgerTotals(assigned)
  BY SummaryTotals
<1>2. assigned \in SUBSET Assignments /\ IsFiniteSet(assigned)
  <2>1. assigned \in SUBSET Assignments
    BY DEF Assigned, InTerm
  <2> HIDE DEF assigned
  <2> QED
    BY <2>1, TablesAssumption, FS_Subset
<1>3. ledgerTotals(assigned) = AddUp(ofStudents)
  <2>1. InParts(assigned, own)
    <3>1. \A a \in assigned : /\ book[a].enrollment[1] \in Students
                              /\ a \in own[book[a].enrollment[1]]
      BY <1>2, BookKnown DEF RowOf, BilledTo
    <3>2. \A s \in Students : own[s] \in SUBSET assigned
      BY DEF RowOf
    <3>3. \A s, t \in Students : s # t => own[s] \cap own[t] = {}
      BY DEF RowOf, BilledTo
    <3>4. DOMAIN own = Students
      OBVIOUS
    <3> HIDE DEF own, assigned
    <3>5. assigned = UNION {own[s] : s \in Students}
      BY <3>1, <3>2
    <3> QED
      BY <1>2, <3>3, <3>4, <3>5, TablesAssumption DEF InParts
  <2>2. /\ DOMAIN ofStudents = DOMAIN own
        /\ \A s \in DOMAIN own : ofStudents[s] = ledgerTotals(own[s])
    <3>1. ASSUME NEW s \in Students
          PROVE  summary.rows[s].totals = ledgerTotals(RowOf(book, term, s))
      BY SummaryRow
    <3> QED
      BY <3>1
  <2> HIDE DEF own, assigned, ofStudents
  <2> QED
    BY <1>2, <2>1, <2>2, TotalsOfRows
<1>4. ledgerTotals(assigned) = AddUp(ofTypes)
  <2>1. InParts(assigned, each)
    <3>1. \A a \in assigned : /\ book[a].feeType \in FeeTypes
                              /\ a \in each[book[a].feeType]
      BY <1>2, BookKnown DEF Assigned
    <3>2. \A f \in FeeTypes : each[f] \in SUBSET assigned
      BY DEF Assigned
    <3>3. \A f, g \in FeeTypes : f # g => each[f] \cap each[g] = {}
      BY DEF Assigned
    <3>4. DOMAIN each = FeeTypes
      OBVIOUS
    <3> HIDE DEF each, assigned
    <3>5. assigned = UNION {each[f] : f \in FeeTypes}
      BY <3>1, <3>2
    <3> QED
      BY <1>2, <3>3, <3>4, <3>5, TablesAssumption DEF InParts
  <2>2. /\ DOMAIN ofTypes = DOMAIN each
        /\ \A f \in DOMAIN each : ofTypes[f] = ledgerTotals(each[f])
    BY SummaryTotals
  <2> HIDE DEF each, assigned, ofTypes
  <2> QED
    BY <1>2, <2>1, <2>2, TotalsOfRows
<1>5. ASSUME NEW s \in Students
      PROVE  LET row == summary.rows[s]
                 full == bill(book, s, term)
             IN  /\ row.broughtForward = full.broughtForward
                 /\ row.totalDue + ledgerTotals(Left(s)).outstanding
                      = full.totalDue
                 /\ Left(s) = {} /\ row.feeCount > 0 =>
                      row.paymentState = full.paymentState
  <2> DEFINE row == summary.rows[s]
             full == bill(book, s, term)
             mine == RowOf(book, term, s)
             gone == Left(s)
             inTerm == LinesOf(book, s, term)
  <2>1. /\ row.feeCount = Cardinality(mine)
        /\ row.broughtForward = full.broughtForward
        /\ row.totalDue = ledgerTotals(mine).outstanding + row.broughtForward
        /\ mine # {} => row.paymentState = paymentState(ledgerTotals(mine))
    BY SummaryRow
  <2>2. /\ full.totalDue = ledgerTotals(inTerm).outstanding + full.broughtForward
        /\ full.paymentState = paymentState(ledgerTotals(inTerm))
        /\ full.broughtForward \in Nat
    BY BillTotals, BillArrears
  <2>3. mine \in SUBSET Assignments /\ gone \in SUBSET Assignments
    BY DEF RowOf, BilledTo, InTerm
  <2>4. mine \cap gone = {}
    BY DEF RowOf, Assigned
  <2>5. mine \cup gone = inTerm
    <3>1. ASSUME NEW a \in inTerm PROVE a \in mine \cup gone
      <4>1. /\ a \in Assignments /\ a \in InTerm(book, term)
            /\ a \in BilledTo(book, s) /\ book[a].enrollment[1] = s
        BY DEF LinesOf, BilledTo, InTerm
      <4>2. /\ book[a].enrollment \in Enrollments
            /\ book[a].feeType \in FeeTypes
        BY <4>1, BookKnown
      <4>3. CASE book[a].enrollment[2] = "active"
        BY <4>1, <4>2, <4>3 DEF RowOf, Assigned
      <4>4. CASE book[a].enrollment[2] = "withdrawn"
        <5>1. book[a].enrollment = <<s, "withdrawn">>
          BY <4>1, <4>2, <4>4 DEF Enrollments
        <5> QED
          BY <4>1, <5>1
      <4> QED
        BY <4>2, <4>3, <4>4 DEF Enrollments
    <3>2. mine \subseteq inTerm
      BY DEF RowOf, Assigned, LinesOf
    <3>3. gone \subseteq inTerm
      BY DEF LinesOf, BilledTo, InTerm
    <3> QED
      BY <3>1, <3>2, <3>3
  <2>6. IsFiniteSet({}) /\ Cardinality({}) = 0
    BY FS_EmptySet
  <2> HIDE DEF row, full, mine, gone, inTerm
  <2>7. /\ ledgerTotals(mine).outstanding \in Nat
        /\ ledgerTotals(gone).outstanding \in Nat
    BY <2>3, TotalsOf
  <2>8. ledgerTotals(inTerm).outstanding
          = ledgerTotals(mine).outstanding + ledgerTotals(gone).outstanding
    BY <2>3, <2>4, <2>5, OwedTogether
  <2>9. row.totalDue + ledgerTotals(gone).outstanding = full.totalDue
    BY <2>1, <2>2, <2>7, <2>8
  <2>10. gone = {} /\ row.feeCount > 0 => row.paymentState = full.paymentState
    BY <2>1, <2>2, <2>5, <2>6
  <2> QED
    BY <2>1, <2>9, <2>10 DEF row, full, gone
<1> QED
  BY <1>1, <1>3, <1>4, <1>5 DEF SummaryMatchesBills

\* A bill is the sum of what is owed up to its term, and its state that of its
\* lines.
LEMMA BillAddsUp ==
    ASSUME FiguresFit, NEW book \in Books, NEW s \in Students,
           NEW term \in Terms
    PROVE  BillIsWhatIsOwed(book, s, term)
<1> DEFINE own == bill(book, s, term)
           inTerm == LinesOf(book, s, term)
           earlier == EarlierOf(book, s, term)
           upTo == {a \in BilledTo(book, s) : book[a].term <= term}
           Lines(state) == {a \in DOMAIN own.lines : own.lines[a] = state}
<1>1. /\ own.lines = [a \in inTerm |-> paymentState(ledgerTotals({a}))]
      /\ own.totalDue = ledgerTotals(inTerm).outstanding + own.broughtForward
      /\ own.paymentState = paymentState(ledgerTotals(inTerm))
      /\ own.broughtForward = ledgerTotals(earlier).outstanding
  BY BillTotals, BillLines, BillArrears
<1>2. /\ inTerm \in SUBSET Assignments /\ earlier \in SUBSET Assignments
      /\ inTerm \cap earlier = {} /\ inTerm \cup earlier = upTo
  <2>1. \A a \in BilledTo(book, s) : a \in Assignments /\ book[a].term \in Nat
    BY BookKnown DEF BilledTo
  <2>2. term \in Nat
    BY TermsAssumption
  <2> QED
    BY <2>1, <2>2 DEF LinesOf, EarlierOf, InTerm, BeforeTerm
<1> HIDE DEF inTerm, earlier, upTo
<1>3. /\ ledgerTotals(inTerm).outstanding \in Nat
      /\ ledgerTotals(earlier).outstanding \in Nat
  BY <1>2, TotalsOf
<1>4. ledgerTotals(upTo).outstanding
        = ledgerTotals(inTerm).outstanding + ledgerTotals(earlier).outstanding
  BY <1>2, OwedTogether
<1>5. own.totalDue = ledgerTotals(upTo).outstanding /\ own.totalDue >= 0
  BY <1>1, <1>3, <1>4
<1>6. DOMAIN own.lines = inTerm
  BY <1>1
<1>7. ASSUME inTerm # {}
      PROVE  /\ own.paymentState = "paid" <=> Lines("paid") = DOMAIN own.lines
             /\ own.paymentState = "pending"
                  <=> Lines("pending") = DOMAIN own.lines
  <2>1. /\ paymentState(ledgerTotals(inTerm)) = "paid"
             <=> \A a \in inTerm : paymentState(ledgerTotals({a})) = "paid"
        /\ paymentState(ledgerTotals(inTerm)) = "pending"
             <=> \A a \in inTerm : paymentState(ledgerTotals({a})) = "pending"
    BY <1>2, <1>7, StateOfAll
  <2>2. \A a \in inTerm : own.lines[a] = paymentState(ledgerTotals({a}))
    BY <1>1
  <2> HIDE DEF own
  <2> QED
    BY <1>1, <1>6, <2>1, <2>2
<1> QED
  BY <1>5, <1>6, <1>7 DEF BillIsWhatIsOwed, upTo

\* Payments and reversals, whatever their order, keep the figures fit.
LEMMA LedgerFiguresFit ==
    ASSUME LedgerInv, HistoryInv
    PROVE  FiguresFit
<1> SUFFICES ASSUME NEW a \in Assignments
             PROVE  /\ amountDue[a] \in Nat \ {0} /\ collectedFrom(a) \in Nat
                    /\ collectedFrom(a) <= amountDue[a]
  BY DEF FiguresFit
<1>1. amountDue[a] \in Nat \ {0}
  BY AmountAssumption DEF LedgerInv, PaymentsInv, TypeOK, Money
<1>2. collectedFrom(a) \in Nat
  BY CollectedNotNegative DEF LedgerInv, PaymentsInv
<1> QED
  BY <1>1, <1>2 DEF LedgerInv, NeverOvercollected

\* The bill, the summary of a level and the ledger of the year give one answer
\* in every reachable state, of any tables: reports read nothing of a request,
\* so it need not be idle.
THEOREM OneAnswer == Spec => []ReportsAgree
<1>1. LedgerInv /\ HistoryInv => ReportsAgree
  BY LedgerFiguresFit, LedgerAddsUp, SummaryAddsUp, BillAddsUp
  DEF ReportsAgree
<1> QED
  BY <1>1, LedgerSafe, HistorySafe, PTL
-----------------------------------------------------------------------------
(* Fee assignments: payments and invoices next to edits of the amount.     *)

BillProofs == INSTANCE InvoicesProofs
                WITH Requests <- Billers, Occupied <- {},
                     sequence <- billSequence,
                     sequenceLock <- billSequenceLock,
                     pc <- billPc, req <- billReq, audited <- billAudited

\* The invoices of FeeAssignments are those that InvoicesProofs is about.
LEMMA SameInvoices ==
    /\ Bill!Init <=> BillProofs!Init
    /\ [Bill!Next]_(Bill!vars) <=> [BillProofs!Next]_(BillProofs!vars)
    /\ Bill!InvoicesInv <=> BillProofs!InvoicesInv
    /\ Bill!InvoicesInv' <=> BillProofs!InvoicesInv'
    /\ Bill!Existing = BillProofs!Existing
    /\ Bill!Existing' = BillProofs!Existing'
    /\ Bill!LiveLines = BillProofs!LiveLines
    /\ Bill!LiveLines' = BillProofs!LiveLines'
<1> USE DEF
      Bill!vars, Bill!MAX_NUMBER_ATTEMPTS, Bill!Invoice, Bill!NoInvoice,
      Bill!InvoiceLine, Bill!Request, Bill!NoRequest, Bill!IssueStates,
      Bill!CancelStates, Bill!CorrectStates, Bill!Issued, Bill!Existing,
      Bill!Superseded, Bill!NumbersInUse, Bill!LiveLines, Bill!FreshIds,
      Bill!Init, Bill!Goto, Bill!Return, Bill!KeepTables, Bill!KeepLocks,
      Bill!ReleaseLocks, Bill!Refuse, Bill!Voided, Bill!CreateStart,
      Bill!MayBeCancelled, Bill!CancelStart, Bill!CorrectStart,
      Bill!ReadLines, Bill!Cancel, Bill!VoidOriginal, Bill!MayBeInvoiced,
      Bill!LoadAssignments, Bill!RefuseAssignments, Bill!ClaimNumber,
      Bill!Conflicting, Bill!WaitsForVoid, Bill!SupersededAlready,
      Bill!InsertInvoice, Bill!NumberCollision, Bill!InsertConflict,
      Bill!Audit, Bill!AuditIssued, Bill!AuditCancelled, Bill!AuditOriginal,
      Bill!AuditReplacement, Bill!Abort, Bill!Step, Bill!Next, Bill!TypeOK,
      Bill!OneLiveLine, Bill!LiveIffIssued, Bill!AuditTrailTrue,
      Bill!BeforeIssue, Bill!AfterIssue, Bill!IdsOwned, Bill!RequestsKnown,
      Bill!LogsTrue, Bill!InvoicesInv,
      BillProofs!vars, BillProofs!MAX_NUMBER_ATTEMPTS, BillProofs!Invoice,
      BillProofs!NoInvoice, BillProofs!InvoiceLine, BillProofs!Request,
      BillProofs!NoRequest, BillProofs!IssueStates, BillProofs!CancelStates,
      BillProofs!CorrectStates, BillProofs!Issued, BillProofs!Existing,
      BillProofs!Superseded, BillProofs!NumbersInUse, BillProofs!LiveLines,
      BillProofs!FreshIds, BillProofs!Init, BillProofs!Goto,
      BillProofs!Return, BillProofs!KeepTables, BillProofs!KeepLocks,
      BillProofs!ReleaseLocks, BillProofs!Refuse, BillProofs!Voided,
      BillProofs!CreateStart, BillProofs!MayBeCancelled,
      BillProofs!CancelStart, BillProofs!CorrectStart, BillProofs!ReadLines,
      BillProofs!Cancel, BillProofs!VoidOriginal, BillProofs!MayBeInvoiced,
      BillProofs!LoadAssignments, BillProofs!RefuseAssignments,
      BillProofs!ClaimNumber, BillProofs!Conflicting, BillProofs!WaitsForVoid,
      BillProofs!SupersededAlready, BillProofs!InsertInvoice,
      BillProofs!NumberCollision, BillProofs!InsertConflict, BillProofs!Audit,
      BillProofs!AuditIssued, BillProofs!AuditCancelled,
      BillProofs!AuditOriginal, BillProofs!AuditReplacement, BillProofs!Abort,
      BillProofs!Step, BillProofs!Next, BillProofs!TypeOK,
      BillProofs!OneLiveLine, BillProofs!LiveIffIssued,
      BillProofs!AuditTrailTrue, BillProofs!BeforeIssue,
      BillProofs!AfterIssue, BillProofs!IdsOwned, BillProofs!RequestsKnown,
      BillProofs!LogsTrue, BillProofs!InvoicesInv
<1>1. Bill!Init <=> BillProofs!Init
  OBVIOUS
<1>2. [Bill!Next]_(Bill!vars) <=> [BillProofs!Next]_(BillProofs!vars)
  OBVIOUS
<1>3. Bill!InvoicesInv <=> BillProofs!InvoicesInv
  OBVIOUS
<1>4. Bill!InvoicesInv' <=> BillProofs!InvoicesInv'
  OBVIOUS
<1>5. /\ Bill!Existing = BillProofs!Existing
      /\ Bill!Existing' = BillProofs!Existing'
  OBVIOUS
<1>6. /\ Bill!LiveLines = BillProofs!LiveLines
      /\ Bill!LiveLines' = BillProofs!LiveLines'
  OBVIOUS
<1> QED
  BY <1>1, <1>2, <1>3, <1>4, <1>5, <1>6

\* What InvoicesProofs assumes of its constants.
LEMMA BillConstants ==
    /\ BillProofs!NothingAssumption /\ BillProofs!AccountAssumption
    /\ BillProofs!OccupiedNumbers
BY NoneAssumption, BillsAssumption
DEF BillProofs!NothingAssumption, BillProofs!AccountAssumption,
    BillProofs!OccupiedNumbers

\* So what a step on invoices does to them is known.
LEMMA BillStarts == Bill!Init => Bill!InvoicesInv
BY SameInvoices, BillConstants, BillProofs!InvoicesInvInit

LEMMA BillStep ==
    ASSUME Bill!InvoicesInv, [Bill!Next]_(Bill!vars)
    PROVE  /\ Bill!InvoicesInv'
           /\ Bill!Existing \subseteq Bill!Existing'
           /\ \A l \in Bill!LiveLines' \ Bill!LiveLines :
                l.invoice \notin Bill!Existing
<1>1. BillProofs!InvoicesInv /\ [BillProofs!Next]_(BillProofs!vars)
  BY SameInvoices
<1>2. BillProofs!InvoicesInv'
  BY <1>1, BillConstants, BillProofs!InvoicesInvStep
<1>3. BillProofs!Existing \subseteq BillProofs!Existing'
  BY <1>1, BillConstants, BillProofs!RowsStay
<1>4. \A l \in BillProofs!LiveLines' \ BillProofs!LiveLines :
        l.invoice \notin BillProofs!Existing
  BY <1>1, BillConstants, BillProofs!LinesComeAlive
<1> QED
  BY <1>2, <1>3, <1>4, SameInvoices
-----------------------------------------------------------------------------
LEMMA AssignmentsInvInit == AssignmentsInit => AssignmentsInv
<1> SUFFICES ASSUME AssignmentsInit PROVE AssignmentsInv
  OBVIOUS
<1>1. PaymentsInv /\ TypeOK
  BY LedgerInvInit DEF AssignmentsInit, LedgerInv, PaymentsInv
<1>2. Bill!InvoicesInv /\ Bill!TypeOK
  BY BillStarts DEF AssignmentsInit, Bill!InvoicesInv
<1>3. /\ editPc \in [Editors -> {"idle", "assertNotInvoiced", "write", "audit"}]
      /\ edit \in [Editors -> Edit \cup {NoEdit}]
      /\ editAudited \subseteq Assignments
      /\ EditsBegun /\ EditsKnow
  BY DEF AssignmentsInit, EditsBegun, EditsKnow
<1> QED
  BY <1>1, <1>2, <1>3 DEF AssignmentsInv, AssignmentsTypeOK

\* A payment is recorded as if nobody edited.
LEMMA PaymentsStep ==
    ASSUME PaymentsInv, [Next]_vars
    PROVE  PaymentsInv'
BY StepTypeOK, StepOwnRows, StepLocksHeld, StepAmountFits DEF PaymentsInv

\* An edit of an amount waits for whoever has read it under the lock.
LEMMA WriteKeepsPayments ==
    ASSUME AssignmentsInv, NEW e \in Editors, WriteAmount(e)
    PROVE  PaymentsInv'
<1>1. /\ edit[e] \in Edit /\ lock[edit[e].assignment] = None
      /\ amountDue' = [amountDue EXCEPT ![edit[e].assignment] = edit[e].amount]
      /\ UNCHANGED paymentVars
  BY DEF WriteAmount, AssignmentsInv, EditsBegun
<1>2. TypeOK'
  BY <1>1 DEF AssignmentsInv, PaymentsInv, TypeOK, paymentVars, Edit, Money
<1>3. OwnRows' /\ LocksHeld'
  BY <1>1 DEF AssignmentsInv, PaymentsInv, OwnRows, LocksHeld, paymentVars
<1>4. AmountFits'
  <2> SUFFICES ASSUME NEW r \in Requests, NEW a \in Assignments,
                      pc'[r] \in {"claim", "insert"}, req'[r].assignment = a
               PROVE  req'[r].amount <= amountDue'[a] - collectedFrom(a)'
    BY DEF AmountFits
  <2>1. /\ pc' = pc /\ req' = req /\ feePayments' = feePayments
        /\ lock' = lock
    BY <1>1 DEF paymentVars
  <2>2. lock[a] = r /\ a # edit[e].assignment
    BY <1>1, <2>1, NoneAssumption
    DEF AssignmentsInv, PaymentsInv, LocksHeld, InTransaction
  <2>3. amountDue'[a] = amountDue[a] /\ collectedFrom(a)' = collectedFrom(a)
    BY <1>1, <2>1, <2>2, SameRowsSameBalance
    DEF AssignmentsInv, PaymentsInv, TypeOK
  <2> QED
    BY <2>1, <2>3 DEF AssignmentsInv, PaymentsInv, AmountFits
<1> QED
  BY <1>2, <1>3, <1>4 DEF PaymentsInv

\* What an edit knows stays true as long as it has not written.
LEMMA EditsKeep ==
    ASSUME AssignmentsInv, UNCHANGED editVars,
           [Bill!Next]_(Bill!vars)
    PROVE  EditsBegun' /\ EditsKnow'
<1>1. /\ Bill!Existing \subseteq Bill!Existing'
      /\ \A l \in Bill!LiveLines' \ Bill!LiveLines :
           l.invoice \notin Bill!Existing
  BY BillStep DEF AssignmentsInv
<1>2. editPc' = editPc /\ edit' = edit
  BY DEF editVars
<1>3. EditsBegun'
  BY <1>2 DEF AssignmentsInv, EditsBegun
<1>4. EditsKnow'
  BY <1>1, <1>2 DEF AssignmentsInv, EditsKnow
<1> QED
  BY <1>3, <1>4

\* A step of an edit leaves the invoices alone, and writes an amount or nothing.
LEMMA EditStep ==
    ASSUME AssignmentsInv, NEW e \in Editors, Update(e)
    PROVE  /\ UNCHANGED paymentVars /\ UNCHANGED invoiceVars
           /\ PaymentsInv' /\ EditsBegun' /\ EditsKnow'
           /\ editPc' \in
                [Editors -> {"idle", "assertNotInvoiced", "write", "audit"}]
           /\ edit' \in [Editors -> Edit \cup {NoEdit}]
           /\ editAudited' \subseteq Assignments
<1> DEFINE EditTyped ==
      /\ editPc \in [Editors -> {"idle", "assertNotInvoiced", "write", "audit"}]
      /\ edit \in [Editors -> Edit \cup {NoEdit}]
      /\ editAudited \subseteq Assignments
<1>1. EditTyped /\ EditsBegun /\ EditsKnow /\ PaymentsInv
  BY DEF AssignmentsInv, AssignmentsTypeOK
<1>2. UNCHANGED invoiceVars /\ UNCHANGED paymentVars
  BY DEF Update, UpdateStart, AssertNotInvoiced, RefuseUpdate, WriteAmount,
         AuditUpdate, AbortUpdate
<1>3. Bill!LiveLines' = Bill!LiveLines /\ Bill!Existing' = Bill!Existing
  BY <1>2 DEF invoiceVars, Bill!LiveLines, Bill!Existing
<1>4. CASE UpdateStart(e)
  <2>1. PICK a \in Assignments, m \in 1 .. MaxAmount :
          edit' = [edit EXCEPT ![e] =
                     [assignment |-> a, amount |-> m,
                      collected |-> collectedFrom(a), known |-> {}]]
    BY <1>4 DEF UpdateStart
  <2>2. collectedFrom(a) \in Int
    BY <1>1, BalanceIsInt DEF PaymentsInv
  <2>3. edit'[e] \in Edit
    BY <1>1, <2>1, <2>2 DEF Edit
  <2>4. /\ editPc' = [editPc EXCEPT ![e] = "assertNotInvoiced"]
        /\ editAudited' = editAudited
    BY <1>4 DEF UpdateStart
  <2>5. EditTyped' /\ EditsBegun'
    BY <1>1, <2>1, <2>3, <2>4 DEF EditsBegun
  <2>6. EditsKnow'
    BY <1>1, <1>3, <2>1, <2>4 DEF EditsKnow
  <2>7. PaymentsInv'
    BY <1>1, <1>2, <1>4, PaymentsStep DEF UpdateStart, vars, paymentVars
  <2> QED
    BY <1>2, <2>5, <2>6, <2>7
<1>5. CASE AssertNotInvoiced(e)
  <2>1. /\ edit' = [edit EXCEPT ![e].known = Bill!Existing]
        /\ editPc' = [editPc EXCEPT ![e] = "write"]
        /\ editAudited' = editAudited /\ editPc[e] # "idle"
        /\ ~OnLiveInvoice(edit[e].assignment)
    BY <1>5 DEF AssertNotInvoiced
  <2>2. Bill!Existing \subseteq InvoiceIds
    BY DEF Bill!Existing
  <2>3. edit[e] \in Edit
    BY <1>1, <2>1 DEF EditsBegun
  <2>4. /\ edit'[e] \in Edit /\ edit'[e].known = Bill!Existing
        /\ edit'[e].assignment = edit[e].assignment
    BY <1>1, <2>1, <2>2, <2>3 DEF Edit
  <2>5. EditTyped' /\ EditsBegun'
    BY <1>1, <2>1, <2>4 DEF EditsBegun
  <2>6. \A l \in Bill!LiveLines : l.feeAssignment # edit[e].assignment
    BY <2>1 DEF OnLiveInvoice
  <2>7. EditsKnow'
    BY <1>1, <1>3, <2>1, <2>4, <2>6 DEF EditsKnow
  <2>8. PaymentsInv'
    BY <1>1, <1>2, <1>5, PaymentsStep DEF AssertNotInvoiced, vars, paymentVars
  <2> QED
    BY <1>2, <2>5, <2>7, <2>8
<1>6. CASE WriteAmount(e)
  <2>1. /\ edit' = edit /\ editPc' = [editPc EXCEPT ![e] = "audit"]
        /\ editAudited' = editAudited /\ editPc[e] # "idle"
    BY <1>6 DEF WriteAmount
  <2>2. EditTyped' /\ EditsBegun' /\ EditsKnow'
    BY <1>1, <1>3, <2>1 DEF EditsBegun, EditsKnow
  <2> QED
    BY <1>2, <1>6, <2>2, WriteKeepsPayments
<1>7. CASE RefuseUpdate(e) \/ AuditUpdate(e) \/ AbortUpdate(e)
  <2>1. /\ ReturnEdit(e) /\ amountDue' = amountDue
        /\ \/ editAudited' = editAudited
           \/ /\ editPc[e] = "audit"
              /\ editAudited' = editAudited \cup {edit[e].assignment}
    BY <1>7 DEF RefuseUpdate, AuditUpdate, AbortUpdate
  <2>2. editAudited' \subseteq Assignments
    BY <1>1, <2>1 DEF EditsBegun, Edit
  <2>3. EditTyped' /\ EditsBegun' /\ EditsKnow'
    BY <1>1, <1>3, <2>1, <2>2 DEF ReturnEdit, EditsBegun, EditsKnow
  <2>4. PaymentsInv'
    BY <1>1, <1>2, <2>1, PaymentsStep DEF vars, paymentVars
  <2> QED
    BY <1>2, <2>3, <2>4
<1> QED
  BY <1>4, <1>5, <1>6, <1>7 DEF Update

LEMMA AssignmentsStep ==
    ASSUME AssignmentsInv, [AssignmentsNext]_assignmentVars
    PROVE  AssignmentsInv'
<1> USE DEF AssignmentsInv, AssignmentsTypeOK, PaymentsInv, Bill!InvoicesInv
<1>1. CASE UNCHANGED assignmentVars
  <2>1. /\ UNCHANGED vars /\ UNCHANGED Bill!vars /\ UNCHANGED editVars
        /\ editAudited' = editAudited /\ editPc' = editPc /\ edit' = edit
    BY <1>1 DEF assignmentVars, paymentVars, invoiceVars, editVars, vars,
                Bill!vars
  <2>2. PaymentsInv' /\ Bill!InvoicesInv' /\ EditsBegun' /\ EditsKnow'
    BY <2>1, PaymentsStep, BillStep, EditsKeep
  <2> QED
    BY <2>1, <2>2
<1>2. CASE PaymentStep
  <2>1. /\ [Next]_vars /\ UNCHANGED Bill!vars /\ UNCHANGED editVars
        /\ editAudited' = editAudited /\ editPc' = editPc /\ edit' = edit
    BY <1>2 DEF PaymentStep, invoiceVars, editVars, Bill!vars
  <2>2. PaymentsInv' /\ Bill!InvoicesInv' /\ EditsBegun' /\ EditsKnow'
    BY <2>1, PaymentsStep, BillStep, EditsKeep
  <2> QED
    BY <2>1, <2>2
<1>3. CASE InvoiceStep
  <2>1. /\ [Bill!Next]_(Bill!vars) /\ UNCHANGED vars /\ UNCHANGED editVars
        /\ editAudited' = editAudited /\ editPc' = editPc /\ edit' = edit
    BY <1>3 DEF InvoiceStep, paymentVars, editVars, vars
  <2>2. PaymentsInv' /\ Bill!InvoicesInv' /\ EditsBegun' /\ EditsKnow'
    BY <2>1, PaymentsStep, BillStep, EditsKeep
  <2> QED
    BY <2>1, <2>2
<1>4. ASSUME NEW e \in Editors, Update(e) PROVE AssignmentsInv'
  <2>1. /\ PaymentsInv' /\ EditsBegun' /\ EditsKnow'
        /\ editPc' \in
             [Editors -> {"idle", "assertNotInvoiced", "write", "audit"}]
        /\ edit' \in [Editors -> Edit \cup {NoEdit}]
        /\ editAudited' \subseteq Assignments
        /\ UNCHANGED Bill!vars
    BY <1>4, EditStep DEF invoiceVars, Bill!vars
  <2>2. Bill!InvoicesInv'
    BY <2>1, BillStep
  <2> QED
    BY <2>1, <2>2
<1> QED
  BY <1>1, <1>2, <1>3, <1>4 DEF AssignmentsNext

\* Next to edits, payments still hold what they read under the lock, invoices
\* keep all that InvoicesProofs proves of them alone, and each edit is right
\* about the invoices it found.
THEOREM AssignmentsSafe == AssignmentsSpec => []AssignmentsInv
BY AssignmentsInvInit, AssignmentsStep, PTL DEF AssignmentsSpec

\* A payment never goes beyond the bill as it stands when the payment commits,
\* although an edit checks the payments and writes the amount under no lock.
THEOREM PaymentsFit == AssignmentsSpec => PaymentFitsBill
<1>1. ASSUME AssignmentsInv, [AssignmentsNext]_assignmentVars,
             NEW a \in Assignments, collectedFrom(a)' > collectedFrom(a)
      PROVE  collectedFrom(a)' <= amountDue'[a]
  <2> USE DEF AssignmentsInv, PaymentsInv
  <2>1. collectedFrom(a) \in Int
    BY <1>1, BalanceIsInt
  <2>2. feePayments' # feePayments
    BY <1>1, <2>1, SameRowsSameBalance
  <2>3. Next
    BY <1>1, <2>2, EditStep
    DEF AssignmentsNext, PaymentStep, InvoiceStep, assignmentVars, paymentVars
  <2>4. PICK r \in Requests : InsertPayment(r) \/ InsertReversal(r)
    BY <2>2, <2>3
    DEF Next, CreateStart, ReverseStart, Create, Reverse, LockAssignment,
        AcceptAmount, RefuseAmount, ClaimReceipt, ReceiptCollision,
        AuditPayment, NotifyReceipt, CheckNotReversed, ReversalConflict,
        AuditReversal, Abort
  <2>5. pc[r] \in {"insert", "reverse"} /\ amountDue' = amountDue
    BY <2>4 DEF InsertPayment, InsertReversal
  <2>6. req[r].amount \in Int /\ req[r].amount >= 0 /\ amountDue[a] \in Int
    BY <1>1, <2>5, AmountAssumption DEF OwnRows, Request, TypeOK, Money
  <2>7. CASE InsertReversal(r)
    BY <1>1, <2>1, <2>6, <2>7, InsertReversalMoves
  <2>8. CASE InsertPayment(r)
    <3>1. /\ req[r].assignment = a
          /\ collectedFrom(a)' = collectedFrom(a) + req[r].amount
      BY <1>1, <2>1, <2>8, InsertPaymentMoves
    <3>2. req[r].amount <= amountDue[a] - collectedFrom(a)
      BY <1>1, <2>8, <3>1 DEF AmountFits, InsertPayment
    <3> QED
      BY <2>1, <2>5, <2>6, <3>1, <3>2
  <2> QED
    BY <2>4, <2>7, <2>8
<1>2. AssignmentsInv /\ [AssignmentsNext]_assignmentVars =>
        \A a \in Assignments :
          collectedFrom(a)' > collectedFrom(a)
            => collectedFrom(a)' <= amountDue'[a]
  BY <1>1
<1> QED
  BY <1>2, AssignmentsSafe, PTL DEF AssignmentsSpec, PaymentFitsBill

\* The invoice that an edit slips under was issued after the edit had looked:
\* no document that was there is ever made wrong by an edit that came later.
THEOREM EditsRespectFreeze == AssignmentsSpec => FreezeRespected
<1>1. AssignmentsInv =>
        \A e \in Editors, l \in Bill!LiveLines :
          /\ editPc[e] = "write" /\ editPc'[e] = "audit"
          /\ l.feeAssignment = edit[e].assignment
          => l.invoice \notin edit[e].known
  BY DEF AssignmentsInv, EditsKnow
<1> QED
  BY <1>1, AssignmentsSafe, PTL DEF FreezeRespected
=============================================================================
