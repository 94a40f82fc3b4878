------------------------------- MODULE Invoices -------------------------------
(***************************************************************************)
(* InvoicesService.create, .cancel and .correct                            *)
(* (src/src/invoices/invoices.service.ts) over the tables invoices and     *)
(* invoice_lines and the invoice_number row of document_sequences.         *)
(*                                                                         *)
(* Every HTTP request being served is a process, and one statement, or a   *)
(* run of statements that cannot wait, is one action.  What a transaction  *)
(* has written is visible to others at its commit; until then it holds the *)
(* rows it has updated.                                                    *)
(***************************************************************************)
EXTENDS Integers, FiniteSets

CONSTANTS
    Assignments,    \* ids of fee_assignments rows
    Accounts,       \* the pairs of an enrollment and a term
    AccountOf,      \* the account each assignment belongs to
    InvoiceIds,     \* the ids invoices rows may be given (a bound)
    Requests,       \* the HTTP requests being served at the same time
    Occupied,       \* invoice numbers present before the sequence reached them
    None            \* SQL NULL, and "nobody" for a lock

ASSUME NothingAssumption ==
    None \notin Assignments \cup Accounts \cup InvoiceIds \cup Requests \cup Nat
ASSUME AccountAssumption == AccountOf \in [Assignments -> Accounts]
ASSUME OccupiedNumbers == Occupied \subseteq Nat

VARIABLES
    invoices,       \* the rows of invoices; NoInvoice where there is none yet
    lines,          \* the rows of invoice_lines
    sequence,       \* document_sequences.current_number of invoice_number
    sequenceLock,   \* the transaction whose UPDATE of that row is uncommitted
    invoiceLock,    \* the transaction that has voided or cancelled, uncommitted
    pc, req,        \* the next statement and the locals of each request
    audited         \* audit_logs entries: <<action, entityId>>

vars == <<invoices, lines, sequence, sequenceLock, invoiceLock, pc, req,
          audited>>
-----------------------------------------------------------------------------
MAX_NUMBER_ATTEMPTS == 3

Invoice == [number : Nat, account : Accounts, status : {"issued", "cancelled"},
            supersedes : InvoiceIds \cup {None}]
NoInvoice == [number |-> None, account |-> None, status |-> "none",
              supersedes |-> None]
InvoiceLine == [invoice : InvoiceIds, feeAssignment : Assignments,
                voided : BOOLEAN]

\* id is the invoice to write, supersedes the one to cancel.
Request == [id : InvoiceIds \cup {None}, supersedes : InvoiceIds \cup {None},
            account : Accounts \cup {None}, set : SUBSET Assignments,
            attempt : 0 .. MAX_NUMBER_ATTEMPTS]
NoRequest == [id |-> None, supersedes |-> None, account |-> None, set |-> {},
              attempt |-> 0]

IssueStates == {"load", "claim", "insert", "auditIssued"}
CancelStates == {"cancel", "auditCancelled"}
CorrectStates == {"readLines", "void", "auditOriginal", "auditReplacement"}

Issued == {i \in InvoiceIds : invoices[i].status = "issued"}
Existing == {i \in InvoiceIds : invoices[i] # NoInvoice}
Superseded == {invoices[i].supersedes : i \in Existing}
NumbersInUse == Occupied \cup {invoices[i].number : i \in Existing}
LiveLines == {l \in lines : ~l.voided}
FreshIds == InvoiceIds \ (Existing \cup {req[r].id : r \in Requests})

Init ==
    /\ invoices = [i \in InvoiceIds |-> NoInvoice]
    /\ lines = {}
    /\ sequence = 0
    /\ sequenceLock = None
    /\ invoiceLock = [i \in InvoiceIds |-> None]
    /\ pc = [r \in Requests |-> "idle"]
    /\ req = [r \in Requests |-> NoRequest]
    /\ audited = {}
-----------------------------------------------------------------------------
Goto(r, label) == pc' = [pc EXCEPT ![r] = label]
Return(r) == Goto(r, "idle") /\ req' = [req EXCEPT ![r] = NoRequest]
KeepTables == UNCHANGED <<invoices, lines, sequence>>
KeepLocks == UNCHANGED <<invoiceLock, sequenceLock>>
ReleaseLocks(r) ==
    /\ invoiceLock' = [i \in InvoiceIds |->
                         IF invoiceLock[i] = r THEN None ELSE invoiceLock[i]]
    /\ sequenceLock' = IF sequenceLock = r THEN None ELSE sequenceLock

\* The transaction rolls back, and the request ends in an error.
Refuse(r) ==
    /\ ReleaseLocks(r)
    /\ Return(r)
    /\ KeepTables
    /\ UNCHANGED audited

\* Mutant of Voided: only the first line is voided.
FirstVoided(i, rows) ==
    IF \E l \in rows : l.invoice = i
    THEN LET l == CHOOSE m \in rows : m.invoice = i
         IN  (rows \ {l}) \cup {[l EXCEPT !.voided = TRUE]}
    ELSE rows

\* voidLines: every line of the invoice that is still live.
Voided(i, rows) ==
    {IF l.invoice = i THEN [l EXCEPT !.voided = TRUE] ELSE l : l \in rows}

\* create: the set is not empty (ArrayMinSize) and has no fee twice.
CreateStart(r) ==
    /\ pc[r] = "idle"
    /\ \E i \in FreshIds, account \in Accounts,
          set \in SUBSET Assignments \ {{}} :
         req' = [req EXCEPT ![r] =
                   [id |-> i, supersedes |-> None, account |-> account,
                    set |-> set, attempt |-> 1]]
    /\ Goto(r, "load")
    /\ KeepTables /\ KeepLocks /\ UNCHANGED audited

\* loadIssuedOrExplain, outside any transaction.
MayBeCancelled(i) == i \in Issued /\ i \notin Superseded

CancelStart(r) ==
    /\ pc[r] = "idle"
    /\ \E i \in InvoiceIds :
         /\ MayBeCancelled(i)
         /\ req' = [req EXCEPT ![r].supersedes = i]
    /\ Goto(r, "cancel")
    /\ KeepTables /\ KeepLocks /\ UNCHANGED audited

\* correct: over a set of its own, or else over the live lines.
CorrectStart(r) ==
    /\ pc[r] = "idle"
    /\ \E i \in InvoiceIds, new \in FreshIds,
          chosen \in SUBSET Assignments :
         /\ MayBeCancelled(i)
         /\ req' = [req EXCEPT ![r] =
                      [id |-> new, supersedes |-> i,
                       account |-> invoices[i].account, set |-> chosen,
                       attempt |-> 1]]
         /\ Goto(r, IF chosen = {} THEN "readLines" ELSE "void")
    /\ KeepTables /\ KeepLocks /\ UNCHANGED audited

\* The relations of loadIssuedOrExplain are queries of their own, after that of
\* the invoice: the lines may have been voided in between.
ReadLines(r) ==
    LET i == req[r].supersedes IN
    /\ pc[r] = "readLines"
    /\ IF i \in Superseded
       THEN Return(r)
       ELSE /\ req' = [req EXCEPT ![r].set =
                         {l.feeAssignment : l \in
                            {m \in LiveLines : m.invoice = i}}]
            /\ Goto(r, "void")
    /\ KeepTables /\ KeepLocks /\ UNCHANGED audited
-----------------------------------------------------------------------------
\* Mutant of Cancel: the lines are not voided with the document.
CancelKeepsLines(r) ==
    LET i == req[r].supersedes IN
    /\ pc[r] = "cancel"
    /\ invoiceLock[i] = None
    /\ invoices' = [invoices EXCEPT ![i].status = "cancelled"]
    /\ Goto(r, "auditCancelled")
    /\ KeepLocks /\ UNCHANGED <<lines, sequence, req, audited>>

\* cancel: both updates wait for a transaction that has updated the same rows,
\* and neither looks at the status again.
Cancel(r) ==
    LET i == req[r].supersedes IN
    /\ pc[r] = "cancel"
    /\ invoiceLock[i] = None
    /\ lines' = Voided(i, lines)
    /\ invoices' = [invoices EXCEPT ![i].status = "cancelled"]
    /\ Goto(r, "auditCancelled")
    /\ KeepLocks /\ UNCHANGED <<sequence, req, audited>>

\* correct, steps 1 and 2: the same updates, kept uncommitted.
VoidOriginal(r) ==
    /\ pc[r] = "void"
    /\ invoiceLock[req[r].supersedes] = None
    /\ invoiceLock' = [invoiceLock EXCEPT ![req[r].supersedes] = r]
    /\ Goto(r, "load")
    /\ KeepTables /\ UNCHANGED <<sequenceLock, req, audited>>

\* loadAssignmentsForInvoice: a correction does not see the lines it has just
\* voided, and does see those that others have voided without committing.
MayBeInvoiced(r) ==
    /\ \A a \in req[r].set : AccountOf[a] = req[r].account
    /\ \A l \in LiveLines :
         l.feeAssignment \in req[r].set => l.invoice = req[r].supersedes

LoadAssignments(r) ==
    /\ pc[r] = "load"
    /\ MayBeInvoiced(r)
    /\ Goto(r, "claim")
    /\ KeepTables /\ KeepLocks /\ UNCHANGED <<req, audited>>

RefuseAssignments(r) ==
    /\ pc[r] = "load"
    /\ ~MayBeInvoiced(r)
    /\ Refuse(r)

\* nextDocumentNumber waits for the row of the sequence.
ClaimNumber(r) ==
    /\ pc[r] = "claim"
    /\ sequenceLock = None
    /\ sequenceLock' = r
    /\ Goto(r, "insert")
    /\ KeepTables /\ UNCHANGED <<invoiceLock, req, audited>>

\* Mutant of Conflicting: without uq_one_live_invoice_line_per_assignment.
NoLiveLineIndex(r) == {}

\* The live lines, of other invoices, that the partial unique index finds.
Conflicting(r) ==
    {l \in LiveLines : /\ l.feeAssignment \in req[r].set
                       /\ l.invoice # req[r].supersedes}

\* A line that another transaction is voiding decides nothing yet: the insert
\* waits for that transaction.
WaitsForVoid(r) ==
    \E l \in Conflicting(r) : invoiceLock[l.invoice] # None

\* Mutant of SupersededAlready: supersedes_invoice_id is not unique.
NoSupersedesIndex(r) == FALSE

SupersededAlready(r) ==
    req[r].supersedes # None /\ req[r].supersedes \in Superseded

\* invoice.create, the lines, and the commit: of a correction, all four steps.
InsertInvoice(r) ==
    LET i == req[r].id
        old == req[r].supersedes
        new == [number |-> sequence + 1, account |-> req[r].account,
                status |-> "issued", supersedes |-> old]
    IN
    /\ pc[r] = "insert"
    /\ sequence + 1 \notin NumbersInUse
    /\ ~SupersededAlready(r)
    /\ Conflicting(r) = {}
    /\ invoices' = [j \in InvoiceIds |->
                      IF j = i THEN new
                      ELSE IF j = old
                           THEN [invoices[j] EXCEPT !.status = "cancelled"]
                           ELSE invoices[j]]
    /\ lines' = Voided(old, lines) \cup
                  [invoice : {i}, feeAssignment : req[r].set, voided : {FALSE}]
    /\ sequence' = sequence + 1
    /\ ReleaseLocks(r)
    /\ Goto(r, IF old = None THEN "auditIssued" ELSE "auditOriginal")
    /\ UNCHANGED <<req, audited>>

\* Mutant of NumberCollision: the loop does not count its attempts.
CollisionUncounted(r) ==
    /\ pc[r] = "insert"
    /\ sequence + 1 \in NumbersInUse
    /\ ReleaseLocks(r)
    /\ Goto(r, IF req[r].supersedes = None THEN "load" ELSE "void")
    /\ KeepTables /\ UNCHANGED <<req, audited>>

\* P2002 on the number: everything rolls back, and the transaction is tried
\* again unless this was the last attempt.
NumberCollision(r) ==
    /\ pc[r] = "insert"
    /\ sequence + 1 \in NumbersInUse
    /\ ReleaseLocks(r)
    /\ IF req[r].attempt < MAX_NUMBER_ATTEMPTS
       THEN /\ req' = [req EXCEPT ![r].attempt = @ + 1]
            /\ Goto(r, IF req[r].supersedes = None THEN "load" ELSE "void")
       ELSE Return(r)
    /\ KeepTables /\ UNCHANGED audited

\* The unique index on supersedes_invoice_id, or the one on live lines.
InsertConflict(r) ==
    /\ pc[r] = "insert"
    /\ sequence + 1 \notin NumbersInUse
    /\ SupersededAlready(r) \/ (Conflicting(r) # {} /\ ~WaitsForVoid(r))
    /\ Refuse(r)
-----------------------------------------------------------------------------
\* The audit entries follow the commit, a statement each.
Audit(r, label, action, entity) ==
    /\ pc[r] = label
    /\ audited' = audited \cup {<<action, entity>>}
    /\ KeepTables /\ KeepLocks

AuditIssued(r) ==
    Audit(r, "auditIssued", "issued", req[r].id) /\ Return(r)
AuditCancelled(r) ==
    Audit(r, "auditCancelled", "cancelled", req[r].supersedes) /\ Return(r)
\* Mutant of AuditOriginal: the entry names the replacement.
AuditWrongOriginal(r) ==
    /\ Audit(r, "auditOriginal", "cancelled", req[r].id)
    /\ Goto(r, "auditReplacement")
    /\ UNCHANGED req

AuditOriginal(r) ==
    /\ Audit(r, "auditOriginal", "cancelled", req[r].supersedes)
    /\ Goto(r, "auditReplacement")
    /\ UNCHANGED req
AuditReplacement(r) ==
    Audit(r, "auditReplacement", "corrected", req[r].id) /\ Return(r)

\* A crash, a lost connection, a failed statement, a transaction timeout, or
\* PostgreSQL ending a deadlock: what was not committed is rolled back.
Abort(r) ==
    /\ pc[r] # "idle"
    /\ Refuse(r)

\* r waits for a void of s, and s for the sequence, which r holds.
Deadlocked(r) ==
    /\ pc[r] = "insert"
    /\ \E l \in Conflicting(r), s \in Requests \ {r} :
         invoiceLock[l.invoice] = s /\ pc[s] = "claim"

BreakDeadlock(r) == Deadlocked(r) /\ Abort(r)

Step(r) ==
    \/ Cancel(r) \/ ReadLines(r) \/ VoidOriginal(r)
    \/ LoadAssignments(r) \/ RefuseAssignments(r)
    \/ ClaimNumber(r) \/ InsertInvoice(r) \/ NumberCollision(r)
    \/ InsertConflict(r)
    \/ AuditIssued(r) \/ AuditCancelled(r)
    \/ AuditOriginal(r) \/ AuditReplacement(r)

Next ==
    \E r \in Requests :
        \/ CreateStart(r) \/ CancelStart(r) \/ CorrectStart(r)
        \/ Step(r) \/ Abort(r)

Spec == Init /\ [][Next]_vars

\* A handler goes on while it can, PostgreSQL serves the waiters of a row in
\* turn (so a step that can be taken again and again is taken), and a deadlock
\* is found and broken.
Fairness ==
    \A r \in Requests : SF_vars(Step(r)) /\ WF_vars(BreakDeadlock(r))

FairSpec == Spec /\ Fairness
-----------------------------------------------------------------------------
\* The shape of the tables, the locks and the local variables.
TypeOK ==
    /\ invoices \in [InvoiceIds -> Invoice \cup {NoInvoice}]
    /\ lines \subseteq InvoiceLine
    /\ sequence \in Nat
    /\ sequenceLock \in Requests \cup {None}
    /\ invoiceLock \in [InvoiceIds -> Requests \cup {None}]
    /\ pc \in [Requests ->
         {"idle"} \cup IssueStates \cup CancelStates \cup CorrectStates]
    /\ req \in [Requests -> Request]
    /\ audited \subseteq {"issued", "cancelled", "corrected"} \X InvoiceIds

\* An assignment is on at most one live invoice: the same debt is never billed
\* twice, whatever issues, cancels and corrects overlap.
OneLiveLine ==
    \A l, m \in LiveLines : l.feeAssignment = m.feeAssignment => l = m

\* "voidedAt mirrors Invoice.status = cancelled and is written in the SAME
\* transaction": an issued invoice has live lines only, and a cancelled one
\* none, so the freeze ends exactly with the document.
LiveIffIssued ==
    \A l \in lines :
        /\ l.invoice \in Existing
        /\ l.voided <=> l.invoice \notin Issued

\* What the audit trail says stays true, and a correction is explained on both
\* documents: the entry of the original comes first.
AuditTrailTrue ==
    \A i \in InvoiceIds :
        /\ <<"issued", i>> \in audited => i \in Existing
        /\ <<"cancelled", i>> \in audited => invoices[i].status = "cancelled"
        /\ <<"corrected", i>> \in audited =>
             /\ invoices[i].supersedes # None
             /\ <<"cancelled", invoices[i].supersedes>> \in audited

\* The live invoice of each assignment, as the abstract specification sees it.
CoverOf(a) ==
    IF \E l \in LiveLines : l.feeAssignment = a
    THEN (CHOOSE l \in LiveLines : l.feeAssignment = a).invoice
    ELSE None

Cover == INSTANCE InvoiceCover
            WITH cover <- [a \in Assignments |-> CoverOf(a)],
                 spent <- Existing

ImplementsCover == Cover!CoverSpec

\* "correct and cancel both require an issued invoice": what a step cancels or
\* replaces was issued until then.
ReplacesOnlyIssued ==
    [][\A i \in InvoiceIds :
         i \in Superseded' \ Superseded => i \in Issued]_vars

\* Every request is answered, also when two of them deadlock.
EveryRequestReturns ==
    \A r \in Requests : pc[r] # "idle" ~> pc[r] = "idle"
-----------------------------------------------------------------------------
(* Why these hold: an inductive invariant, which InvoicesProofs proves.     *)

BeforeIssue == {"readLines", "void", "load", "claim", "insert"}
AfterIssue == {"auditIssued", "auditOriginal", "auditReplacement"}

\* The id that a request will give to its invoice is not taken yet, or it has
\* been; no other request has it, and a request to cancel has none.
IdsOwned ==
    \A r \in Requests :
        /\ pc[r] \in BeforeIssue => req[r].id \in InvoiceIds \ Existing
        /\ pc[r] \in AfterIssue => req[r].id \in Existing
        /\ pc[r] \in {"idle", "cancel", "auditCancelled"} => req[r].id = None
        /\ req[r].id # None =>
             \A s \in Requests : req[s].id = req[r].id => s = r

\* What a request works on: an invoice that exists, and an account.
RequestsKnown ==
    \A r \in Requests :
        /\ req[r].supersedes \in Existing \cup {None}
        /\ pc[r] \in {"cancel", "readLines", "void"} =>
             req[r].supersedes # None
        /\ pc[r] \in BeforeIssue => req[r].account \in Accounts

\* What a request is about to log has happened.
LogsTrue ==
    \A r \in Requests :
        /\ pc[r] \in {"auditCancelled", "auditOriginal", "auditReplacement"} =>
             /\ req[r].supersedes # None
             /\ invoices[req[r].supersedes].status = "cancelled"
        /\ pc[r] \in {"auditOriginal", "auditReplacement"} =>
             invoices[req[r].id].supersedes = req[r].supersedes
        /\ pc[r] = "auditReplacement" =>
             <<"cancelled", req[r].supersedes>> \in audited

InvoicesInv ==
    /\ TypeOK /\ IdsOwned /\ RequestsKnown /\ LogsTrue
    /\ OneLiveLine /\ LiveIffIssued /\ AuditTrailTrue
=============================================================================
