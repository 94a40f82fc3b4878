----------------------------- MODULE FeeReporting -----------------------------
(***************************************************************************)
(* What the school reads of the payment ledger: FeesReportingService       *)
(* (src/src/fees/fees-reporting.service.ts) and the money rules of         *)
(* src/src/fees/fees.money.ts, over the tables that FeePayments changes.   *)
(*                                                                         *)
(* Every figure is computed when it is asked for; nothing is stored.  Three *)
(* queries select the same assignments by three routes: by the student's   *)
(* enrollments (bill), by the enrollments active in a level                *)
(* (levelSummary), and by the term of the fee (ledger).                    *)
(*                                                                         *)
(* Terms are numbers in the order of their start_date; they are of one     *)
(* academic year, and all students are enrolled in one level.  Names,      *)
(* labels and the sorting of rows are left out.                            *)
(***************************************************************************)
EXTENDS FeePayments, FiniteSetsExt

CONSTANTS
    Students,
    Terms,          \* by start_date
    FeeTypes,
    Books           \* what the assignments may be for

\* Every table is finite.
ASSUME TermsAssumption == Terms \subseteq Nat /\ IsFiniteSet(Terms)
ASSUME TablesAssumption ==
    IsFiniteSet(Assignments) /\ IsFiniteSet(Students) /\ IsFiniteSet(FeeTypes)

\* A student has one active enrollment in the year, and may have a withdrawn
\* one beside it: the child that changed classes.
Enrollments == Students \X {"active", "withdrawn"}
Account == [enrollment : Enrollments, term : Terms, feeType : FeeTypes]

ASSUME BooksAssumption == Books \subseteq [Assignments -> Account]
-----------------------------------------------------------------------------
(* fees.money.ts *)

sum(figures, as) == MapThenSumSet(LAMBDA a : figures[a], as)

\* ledgerTotals of the sums over some assignments.
ledgerTotals(as) ==
    LET billed == sum(amountDue, as)
        collected == sum([a \in as |-> collectedFrom(a)], as)
    IN  [billed |-> billed, collected |-> collected,
         outstanding |-> billed - collected]

paymentState(totals) ==
    CASE totals.collected <= 0 -> "pending"
      [] totals.collected > 0 /\ totals.outstanding <= 0 -> "paid"
      [] OTHER -> "partially_paid"

\* What a debt is printed as: never as a credit.
orZero(owed) == IF owed < 0 THEN 0 ELSE owed
-----------------------------------------------------------------------------
(* fees-reporting.service.ts *)

BilledTo(book, student) ==
    {a \in Assignments : book[a].enrollment[1] = student}
InTerm(book, term) == {a \in Assignments : book[a].term = term}

\* Mutant of BeforeTerm: everything that is not on the bill is arrears.
OutsideTerm(book, term) == {a \in Assignments : book[a].term # term}

\* "Strictly EARLIER terms only."
BeforeTerm(book, term) == {a \in Assignments : book[a].term < term}

bill(book, student, term) ==
    LET own == BilledTo(book, student)
        lines == own \cap InTerm(book, term)
        current == ledgerTotals(lines)
        arrears == ledgerTotals(own \cap BeforeTerm(book, term)).outstanding
    IN  [lines |-> [a \in lines |-> paymentState(ledgerTotals({a}))],
         current |-> current,
         broughtForward |-> orZero(arrears),
         totalDue |-> current.outstanding + orZero(arrears),
         paymentState |-> paymentState(current)]

\* One row per active enrollment; of some fee types, or of all of them.
levelSummary(book, term, feeTypes) ==
    LET assigned == {a \in InTerm(book, term) :
                       /\ book[a].enrollment[2] = "active"
                       /\ book[a].feeType \in feeTypes}
        Row(student) ==
            LET own == assigned \cap BilledTo(book, student)
                totals == ledgerTotals(own)
                bf == ledgerTotals(BilledTo(book, student)
                                     \cap BeforeTerm(book, term)).outstanding
            IN  [feeCount |-> Cardinality(own),
                 totals |-> totals,
                 broughtForward |-> orZero(bf),
                 totalDue |-> totals.outstanding + orZero(bf),
                 paymentState |-> IF own = {} THEN None
                                  ELSE paymentState(totals)]
        rows == [student \in Students |-> Row(student)]
    IN  [rows |-> rows,
         totals |-> ledgerTotals(assigned),
         unassigned |-> Cardinality({s \in Students : rows[s].feeCount = 0})]

\* The accounts are the groups that have an assignment.
ledger(book, terms) ==
    LET assigned == {a \in Assignments : book[a].term \in terms}
        Key(a) == <<book[a].feeType, book[a].term>>
    IN  [rows |-> [key \in {Key(a) : a \in assigned} |->
                     ledgerTotals({a \in assigned : Key(a) = key})],
         totals |-> ledgerTotals(assigned)]
-----------------------------------------------------------------------------
(* Properties *)

\* The sum of the totals in some rows, column by column.
Columns == {"billed", "collected", "outstanding"}
AddUp(rows) ==
    [column \in Columns |->
       sum([x \in DOMAIN rows |-> rows[x][column]], DOMAIN rows)]

\* The ledger of the year is the sum of its accounts and of all bills: no
\* assignment is in two places or in none.
LedgerIsSumOfBills(book) ==
    LET year == ledger(book, Terms) IN
    /\ year.totals = AddUp(year.rows)
    /\ year.totals = AddUp([x \in Students \X Terms |->
                              bill(book, x[1], x[2]).current])

\* A row of the summary and the bill tell a parent the same, but for what was
\* billed to an enrollment that is no longer active; the totals of the level are
\* those of its rows, and those of the fee types taken one by one.
SummaryMatchesBills(book, term) ==
    LET summary == levelSummary(book, term, FeeTypes)
        Left(s) == {a \in InTerm(book, term) :
                      book[a].enrollment = <<s, "withdrawn">>}
    IN  /\ \A s \in Students :
             LET row == summary.rows[s]
                 own == bill(book, s, term)
             IN  /\ row.broughtForward = own.broughtForward
                 /\ row.totalDue + ledgerTotals(Left(s)).outstanding
                      = own.totalDue
                 /\ Left(s) = {} /\ row.feeCount > 0 =>
                      row.paymentState = own.paymentState
        /\ summary.totals = AddUp([s \in Students |-> summary.rows[s].totals])
        /\ summary.totals
             = AddUp([f \in FeeTypes |-> levelSummary(book, term, {f}).totals])

\* A bill asks for every debt up to its term once: an earlier term that was
\* overpaid never lowers it, because no term is.  It reads "paid" when each of
\* its lines does: no line can be overpaid for another.
BillIsWhatIsOwed(book, student, term) ==
    LET own == bill(book, student, term)
        upTo == {a \in BilledTo(book, student) : book[a].term <= term}
        Lines(state) == {a \in DOMAIN own.lines : own.lines[a] = state}
    IN  /\ own.totalDue = ledgerTotals(upTo).outstanding
        /\ own.totalDue >= 0
        /\ DOMAIN own.lines # {} =>
             /\ own.paymentState = "paid" <=> Lines("paid") = DOMAIN own.lines
             /\ own.paymentState = "pending"
                  <=> Lines("pending") = DOMAIN own.lines

\* "If a second query ever computes outstanding independently, the product
\* will have two answers to the same question about money": whatever has been
\* paid and reversed, the three reports give one answer.  It is enough to look
\* where nothing is under way: reports read nothing of a request, and each may
\* Abort here.
ReportsAgree ==
    (\A r \in Requests : pc[r] = "idle") =>
        \A book \in Books :
            /\ LedgerIsSumOfBills(book)
            /\ \A term \in Terms :
                 /\ SummaryMatchesBills(book, term)
                 /\ \A s \in Students : BillIsWhatIsOwed(book, s, term)
=============================================================================
