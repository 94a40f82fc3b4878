---------------------------- MODULE InvoicesProofs ----------------------------
(***************************************************************************)
(* Proofs about Invoices, for any number of assignments, accounts, invoices*)
(* and requests, and any numbers in use; about what InvoiceChain reads,    *)
(* for finitely many invoices.                                             *)
(***************************************************************************)
EXTENDS InvoiceChain, SumTheorems

\* An invoice exists or not, and NULL is the id of none.
LEMMA RowFields ==
    ASSUME TypeOK
    PROVE  /\ None \notin InvoiceIds /\ None \notin Requests
           /\ \A i \in InvoiceIds :
                /\ i \in Existing <=> invoices[i] \in Invoice
                /\ i \in Issued => i \in Existing
                /\ i \in Existing =>
                     (i \in Issued <=> invoices[i].status # "cancelled")
BY NothingAssumption DEF TypeOK, Existing, Issued, Invoice, NoInvoice

\* What voiding leaves live: the lines of the other invoices.
LEMMA VoidedLines ==
    ASSUME TypeOK, NEW i
    PROVE  /\ Voided(i, lines) \subseteq InvoiceLine
           /\ \A l \in Voided(i, lines) :
                \E m \in lines : /\ l.invoice = m.invoice
                                 /\ l.feeAssignment = m.feeAssignment
                                 /\ l.voided <=> m.voided \/ m.invoice = i
           /\ {l \in Voided(i, lines) : ~l.voided}
                = {l \in LiveLines : l.invoice # i}
<1>1. ASSUME NEW m \in lines
      PROVE  /\ [m EXCEPT !.voided = TRUE] \in InvoiceLine
             /\ [m EXCEPT !.voided = TRUE].invoice = m.invoice
             /\ [m EXCEPT !.voided = TRUE].feeAssignment = m.feeAssignment
             /\ [m EXCEPT !.voided = TRUE].voided = TRUE
             /\ m \in InvoiceLine /\ m.voided \in BOOLEAN
  BY DEF TypeOK, InvoiceLine
<1>2. ASSUME NEW l \in Voided(i, lines)
      PROVE  /\ l \in InvoiceLine
             /\ \E m \in lines : /\ l.invoice = m.invoice
                                 /\ l.feeAssignment = m.feeAssignment
                                 /\ l.voided <=> m.voided \/ m.invoice = i
                                 /\ m.invoice # i => l = m
  <2>1. PICK m \in lines :
          l = IF m.invoice = i THEN [m EXCEPT !.voided = TRUE] ELSE m
    BY DEF Voided
  <2>2. CASE m.invoice = i
    <3>1. /\ l \in InvoiceLine /\ l.invoice = m.invoice
          /\ l.feeAssignment = m.feeAssignment /\ l.voided = TRUE
      BY <1>1, <2>1, <2>2
    <3> QED
      BY <2>2, <3>1
  <2>3. CASE m.invoice # i
    BY <1>1, <2>1, <2>3
  <2> QED
    BY <2>2, <2>3
<1>3. ASSUME NEW m \in lines, m.invoice # i
      PROVE  m \in Voided(i, lines)
  BY <1>3 DEF Voided
<1> QED
  BY <1>2, <1>3 DEF LiveLines
-----------------------------------------------------------------------------
\* Only two statements change what others see of the tables.
LEMMA TablesMove ==
    ASSUME [Next]_vars
    PROVE  \/ KeepTables
           \/ \E r \in Requests : Cancel(r) \/ InsertInvoice(r)
BY DEF Next, vars, Step, CreateStart, CancelStart, CorrectStart, ReadLines,
       VoidOriginal, LoadAssignments, RefuseAssignments, ClaimNumber,
       NumberCollision, InsertConflict, AuditIssued, AuditCancelled,
       AuditOriginal, AuditReplacement, Audit, Abort, Refuse, KeepTables

\* cancel: the document and its lines, and nothing else.
LEMMA CancelDoes ==
    ASSUME InvoicesInv, NEW r \in Requests, Cancel(r)
    PROVE  LET i == req[r].supersedes IN
           /\ i \in Existing /\ i \in InvoiceIds
           /\ invoices' \in [InvoiceIds -> Invoice \cup {NoInvoice}]
           /\ Existing' = Existing
           /\ \A j \in InvoiceIds :
                /\ invoices'[j].supersedes = invoices[j].supersedes
                /\ invoices'[j].status =
                     IF j = i THEN "cancelled" ELSE invoices[j].status
           /\ lines' \subseteq InvoiceLine
           /\ \A l \in lines' :
                \E m \in lines : /\ l.invoice = m.invoice
                                 /\ l.feeAssignment = m.feeAssignment
                                 /\ l.voided <=> m.voided \/ m.invoice = i
           /\ LiveLines' = {l \in LiveLines : l.invoice # i}
<1> DEFINE i == req[r].supersedes
<1>1. TypeOK /\ i \in Existing /\ i \in InvoiceIds
  BY DEF InvoicesInv, RequestsKnown, Cancel, Existing
<1>2. /\ invoices' = [invoices EXCEPT ![i].status = "cancelled"]
      /\ lines' = Voided(i, lines)
  BY DEF Cancel
<1>3. invoices[i] \in Invoice
  BY <1>1, RowFields
<1>4. /\ invoices'[i] \in Invoice /\ invoices'[i].status = "cancelled"
      /\ invoices'[i].supersedes = invoices[i].supersedes
      /\ invoices'[i] # NoInvoice
      /\ \A j \in InvoiceIds : j # i => invoices'[j] = invoices[j]
  BY <1>1, <1>2, <1>3 DEF TypeOK, Invoice, NoInvoice
<1>5. invoices' \in [InvoiceIds -> Invoice \cup {NoInvoice}]
  BY <1>1, <1>2, <1>4 DEF TypeOK
<1>6. Existing' = Existing
  BY <1>1, <1>4 DEF Existing
<1>7. /\ lines' \subseteq InvoiceLine
      /\ \A l \in lines' :
           \E m \in lines : /\ l.invoice = m.invoice
                            /\ l.feeAssignment = m.feeAssignment
                            /\ l.voided <=> m.voided \/ m.invoice = i
  BY <1>1, <1>2, VoidedLines
<1>8. LiveLines' = {l \in LiveLines : l.invoice # i}
  <2>1. LiveLines' = {l \in Voided(i, lines) : ~l.voided}
    BY <1>2 DEF LiveLines
  <2> QED
    BY <1>1, <2>1, VoidedLines
<1> QED
  BY <1>1, <1>4, <1>5, <1>6, <1>7, <1>8

\* The commit of create or correct: the new document with its lines, and the
\* end of the one that it replaces.
New(i, set) == [invoice : {i}, feeAssignment : set, voided : {FALSE}]

LEMMA NewLines ==
    ASSUME NEW i, NEW set
    PROVE  /\ \A l \in New(i, set) : /\ l.invoice = i /\ l.voided = FALSE
                                     /\ l.feeAssignment \in set
           /\ \A l, m \in New(i, set) :
                l.feeAssignment = m.feeAssignment => l = m
<1>1. ASSUME NEW l \in New(i, set)
      PROVE  /\ l.invoice = i /\ l.voided = FALSE /\ l.feeAssignment \in set
             /\ l = [invoice |-> i, feeAssignment |-> l.feeAssignment,
                     voided |-> FALSE]
  BY DEF New
<1>2. ASSUME NEW l \in New(i, set), NEW m \in New(i, set),
             l.feeAssignment = m.feeAssignment
      PROVE  l = m
  BY <1>1, <1>2
<1> QED
  BY <1>1, <1>2

LEMMA InsertDoes ==
    ASSUME InvoicesInv, NEW r \in Requests, InsertInvoice(r)
    PROVE  LET i == req[r].id
               old == req[r].supersedes IN
           /\ i \in InvoiceIds /\ i \notin Existing
           /\ old \in Existing \cup {None} /\ old # i
           /\ invoices' \in [InvoiceIds -> Invoice \cup {NoInvoice}]
           /\ Existing' = Existing \cup {i}
           /\ invoices'[i].status = "issued"
           /\ invoices'[i].supersedes = old
           /\ \A j \in InvoiceIds : j # i =>
                /\ invoices'[j].supersedes = invoices[j].supersedes
                /\ invoices'[j].status =
                     IF j = old THEN "cancelled" ELSE invoices[j].status
           /\ lines' = Voided(old, lines) \cup New(i, req[r].set)
           /\ lines' \subseteq InvoiceLine
           /\ req[r].set \subseteq Assignments
           /\ \A l \in LiveLines :
                l.feeAssignment \in req[r].set => l.invoice = old
           /\ LiveLines' = {l \in LiveLines : l.invoice # old}
                             \cup New(i, req[r].set)
<1> DEFINE i == req[r].id
           old == req[r].supersedes
           new == [number |-> sequence + 1, account |-> req[r].account,
                   status |-> "issued", supersedes |-> old]
<1>1. /\ TypeOK /\ i \in InvoiceIds /\ i \notin Existing
      /\ old \in Existing \cup {None} /\ req[r].account \in Accounts
  BY DEF InvoicesInv, IdsOwned, RequestsKnown, InsertInvoice, BeforeIssue
<1>2. old # i /\ (old \in InvoiceIds <=> old \in Existing)
      /\ old \in InvoiceIds \cup {None} /\ None \notin InvoiceIds
  BY <1>1, RowFields DEF Existing
<1>3. invoices' = [j \in InvoiceIds |->
                     IF j = i THEN new
                     ELSE IF j = old
                          THEN [invoices[j] EXCEPT !.status = "cancelled"]
                          ELSE invoices[j]]
  BY DEF InsertInvoice
<1>4. new \in Invoice /\ new.status = "issued" /\ new.supersedes = old
      /\ new # NoInvoice
  BY <1>1, <1>2 DEF TypeOK, Invoice, NoInvoice
<1>5. ASSUME NEW j \in InvoiceIds, j = old
      PROVE  /\ [invoices[j] EXCEPT !.status = "cancelled"] \in Invoice
             /\ [invoices[j] EXCEPT !.status = "cancelled"].status = "cancelled"
             /\ [invoices[j] EXCEPT !.status = "cancelled"].supersedes
                  = invoices[j].supersedes
             /\ [invoices[j] EXCEPT !.status = "cancelled"] # NoInvoice
  <2>1. invoices[j] \in Invoice
    BY <1>1, <1>2, <1>5, RowFields
  <2> QED
    BY <2>1 DEF Invoice, NoInvoice
<1> HIDE DEF new
<1>6. invoices'[i] = new
  BY <1>1, <1>3
<1>7. ASSUME NEW j \in InvoiceIds, j # i
      PROVE  /\ invoices'[j] \in Invoice \cup {NoInvoice}
             /\ invoices'[j].supersedes = invoices[j].supersedes
             /\ invoices'[j].status =
                  IF j = old THEN "cancelled" ELSE invoices[j].status
             /\ invoices'[j] # NoInvoice <=> invoices[j] # NoInvoice
  <2>1. CASE j = old
    <3>1. invoices'[j] = [invoices[j] EXCEPT !.status = "cancelled"]
      BY <1>3, <1>7, <2>1
    <3>2. invoices[j] # NoInvoice
      BY <1>1, <1>2, <2>1 DEF Existing
    <3> QED
      BY <1>5, <2>1, <3>1, <3>2
  <2>2. CASE j # old
    <3>1. invoices'[j] = invoices[j]
      BY <1>3, <1>7, <2>2
    <3> QED
      BY <1>1, <2>2, <3>1 DEF TypeOK
  <2> QED
    BY <2>1, <2>2
<1>8. invoices' \in [InvoiceIds -> Invoice \cup {NoInvoice}]
  <2>1. \A j \in InvoiceIds : invoices'[j] \in Invoice \cup {NoInvoice}
    BY <1>4, <1>6, <1>7
  <2>2. invoices' = [j \in InvoiceIds |-> invoices'[j]]
    BY <1>3
  <2> QED
    BY <2>1, <2>2
<1>9. Existing' = Existing \cup {i}
  BY <1>1, <1>4, <1>6, <1>7 DEF Existing
<1>10. lines' = Voided(old, lines) \cup New(i, req[r].set)
  BY DEF InsertInvoice, New
<1>11. req[r].set \subseteq Assignments
  BY <1>1 DEF TypeOK, Request
<1>12. \A l \in New(i, req[r].set) : l \in InvoiceLine /\ ~l.voided
  BY <1>1, <1>11 DEF New, InvoiceLine
<1>13. lines' \subseteq InvoiceLine
  BY <1>1, <1>10, <1>12, VoidedLines
<1>14. \A l \in LiveLines : l.feeAssignment \in req[r].set => l.invoice = old
  BY DEF InsertInvoice, Conflicting
<1>15. LiveLines' = {l \in LiveLines : l.invoice # old}
                      \cup New(i, req[r].set)
  <2>1. LiveLines' = {l \in Voided(old, lines) : ~l.voided}
                       \cup New(i, req[r].set)
    BY <1>10, <1>12 DEF LiveLines
  <2> QED
    BY <1>1, <2>1, VoidedLines
<1> QED
  BY <1>1, <1>2, <1>4, <1>6, <1>7, <1>8, <1>9, <1>10, <1>11, <1>13, <1>14,
     <1>15
-----------------------------------------------------------------------------
LEMMA InvoicesInvInit == Init => InvoicesInv
<1> SUFFICES ASSUME Init PROVE InvoicesInv
  OBVIOUS
<1>1. Existing = {}
  BY DEF Init, Existing
<1>2. TypeOK
  BY DEF Init, TypeOK, Request, NoRequest, MAX_NUMBER_ATTEMPTS
<1>3. IdsOwned /\ RequestsKnown /\ LogsTrue
  BY DEF Init, IdsOwned, RequestsKnown, LogsTrue, NoRequest, BeforeIssue,
         AfterIssue
<1>4. OneLiveLine /\ LiveIffIssued /\ AuditTrailTrue
  BY DEF Init, OneLiveLine, LiveIffIssued, AuditTrailTrue, LiveLines
<1> QED
  BY <1>2, <1>3, <1>4 DEF InvoicesInv

\* An insert finds no live line over its set but those that it voids, and a
\* cancel only takes lines away.
LEMMA StepOneLiveLine ==
    ASSUME InvoicesInv, [Next]_vars
    PROVE  OneLiveLine'
<1>1. CASE KeepTables
  BY <1>1 DEF InvoicesInv, OneLiveLine, LiveLines, KeepTables
<1>2. ASSUME NEW r \in Requests, Cancel(r)
      PROVE  OneLiveLine'
  <2>1. LiveLines' \subseteq LiveLines
    BY <1>2, CancelDoes
  <2> QED
    BY <2>1 DEF InvoicesInv, OneLiveLine
<1>3. ASSUME NEW r \in Requests, InsertInvoice(r)
      PROVE  OneLiveLine'
  <2> DEFINE fresh == New(req[r].id, req[r].set)
  <2>1. /\ LiveLines' = {l \in LiveLines : l.invoice # req[r].supersedes}
                          \cup fresh
        /\ \A l \in LiveLines :
             l.feeAssignment \in req[r].set => l.invoice = req[r].supersedes
    BY <1>3, InsertDoes
  <2>2. PICK i, set : i = req[r].id /\ set = req[r].set
    OBVIOUS
  <2>3. /\ \A l \in New(i, set) : l.feeAssignment \in set
        /\ \A l, m \in New(i, set) : l.feeAssignment = m.feeAssignment => l = m
    BY NewLines
  <2>4. /\ \A l \in fresh : l.feeAssignment \in req[r].set
        /\ \A l, m \in fresh : l.feeAssignment = m.feeAssignment => l = m
    BY <2>2, <2>3
  <2> HIDE DEF fresh
  <2> QED
    BY <2>1, <2>4 DEF InvoicesInv, OneLiveLine
<1> QED
  BY <1>1, <1>2, <1>3, TablesMove

\* Lines are voided, and made, with their document.
LEMMA StepLiveIffIssued ==
    ASSUME InvoicesInv, [Next]_vars
    PROVE  LiveIffIssued'
<1>1. CASE KeepTables
  BY <1>1 DEF InvoicesInv, LiveIffIssued, Existing, Issued, KeepTables
<1>2. ASSUME NEW r \in Requests, Cancel(r)
      PROVE  LiveIffIssued'
  <2> DEFINE i == req[r].supersedes
  <2> SUFFICES ASSUME NEW l \in lines'
               PROVE  /\ l.invoice \in Existing'
                      /\ l.voided <=> l.invoice \notin Issued'
    BY DEF LiveIffIssued
  <2>1. PICK m \in lines : /\ l.invoice = m.invoice
                           /\ l.voided <=> m.voided \/ m.invoice = i
    BY <1>2, CancelDoes
  <2>2. m.invoice \in Existing /\ (m.voided <=> m.invoice \notin Issued)
    BY DEF InvoicesInv, LiveIffIssued
  <2>3. /\ Existing' = Existing
        /\ \A j \in InvoiceIds :
             invoices'[j].status =
               IF j = i THEN "cancelled" ELSE invoices[j].status
    BY <1>2, CancelDoes
  <2>4. m.invoice \in Issued' <=> m.invoice \in Issued /\ m.invoice # i
    BY <2>3 DEF Issued
  <2> QED
    BY <2>1, <2>2, <2>3, <2>4
<1>3. ASSUME NEW r \in Requests, InsertInvoice(r)
      PROVE  LiveIffIssued'
  <2> DEFINE i == req[r].id
             old == req[r].supersedes
  <2>1. /\ i \in InvoiceIds /\ i \notin Existing
        /\ Existing' = Existing \cup {i}
        /\ invoices'[i].status = "issued"
        /\ \A j \in InvoiceIds : j # i =>
             invoices'[j].status =
               IF j = old THEN "cancelled" ELSE invoices[j].status
        /\ lines' = Voided(old, lines) \cup New(i, req[r].set)
    BY <1>3, InsertDoes
  <2>2. ASSUME NEW l \in Voided(old, lines)
        PROVE  /\ l.invoice \in Existing'
               /\ l.voided <=> l.invoice \notin Issued'
    <3>1. PICK m \in lines : /\ l.invoice = m.invoice
                             /\ l.voided <=> m.voided \/ m.invoice = old
      BY VoidedLines DEF InvoicesInv
    <3>2. m.invoice \in Existing /\ (m.voided <=> m.invoice \notin Issued)
      BY DEF InvoicesInv, LiveIffIssued
    <3>3. m.invoice \in Issued' <=> m.invoice \in Issued /\ m.invoice # old
      BY <2>1, <3>2 DEF Issued
    <3> QED
      BY <2>1, <3>1, <3>2, <3>3
  <2>3. ASSUME NEW l \in New(i, req[r].set)
        PROVE  /\ l.invoice \in Existing'
               /\ l.voided <=> l.invoice \notin Issued'
    BY <2>1 DEF New, Issued
  <2> QED
    BY <2>1, <2>2, <2>3 DEF LiveIffIssued
<1> QED
  BY <1>1, <1>2, <1>3, TablesMove
-----------------------------------------------------------------------------
\* Types survive every step.
LEMMA StepTypeOK ==
    ASSUME InvoicesInv, [Next]_vars
    PROVE  TypeOK'
<1> USE DEF InvoicesInv, TypeOK, IssueStates, CancelStates, CorrectStates,
            Goto, Return, KeepLocks, ReleaseLocks
<1>1. /\ invoices' \in [InvoiceIds -> Invoice \cup {NoInvoice}]
      /\ lines' \subseteq InvoiceLine
  BY TablesMove, CancelDoes, InsertDoes DEF KeepTables
<1>2. NoRequest \in Request
  BY DEF Request, NoRequest, MAX_NUMBER_ATTEMPTS
<1>3. ASSUME NEW r \in Requests, CreateStart(r) PROVE TypeOK'
  <2>1. PICK i \in FreshIds, account \in Accounts, set \in SUBSET Assignments :
          req' = [req EXCEPT ![r] =
                    [id |-> i, supersedes |-> None, account |-> account,
                     set |-> set, attempt |-> 1]]
    BY <1>3 DEF CreateStart
  <2>2. [id |-> i, supersedes |-> None, account |-> account,
         set |-> set, attempt |-> 1] \in Request
    BY DEF Request, FreshIds, MAX_NUMBER_ATTEMPTS
  <2> QED
    BY <1>1, <1>3, <2>1, <2>2 DEF CreateStart, KeepTables
<1>4. ASSUME NEW r \in Requests, CancelStart(r) PROVE TypeOK'
  <2>1. PICK i \in InvoiceIds : req' = [req EXCEPT ![r].supersedes = i]
    BY <1>4 DEF CancelStart
  <2>2. req' \in [Requests -> Request]
    BY <2>1 DEF Request
  <2> QED
    BY <1>1, <1>4, <2>2 DEF CancelStart, KeepTables
<1>5. ASSUME NEW r \in Requests, CorrectStart(r) PROVE TypeOK'
  <2>1. PICK i \in InvoiceIds, new \in FreshIds, chosen \in SUBSET Assignments :
          /\ MayBeCancelled(i)
          /\ req' = [req EXCEPT ![r] =
                       [id |-> new, supersedes |-> i,
                        account |-> invoices[i].account, set |-> chosen,
                        attempt |-> 1]]
          /\ Goto(r, IF chosen = {} THEN "readLines" ELSE "void")
    BY <1>5 DEF CorrectStart
  <2>2. invoices[i].account \in Accounts
    BY <2>1, RowFields DEF MayBeCancelled, Invoice
  <2>3. [id |-> new, supersedes |-> i, account |-> invoices[i].account,
         set |-> chosen, attempt |-> 1] \in Request
    BY <2>2 DEF Request, FreshIds, MAX_NUMBER_ATTEMPTS
  <2> QED
    BY <1>1, <1>5, <2>1, <2>3 DEF CorrectStart, KeepTables
<1>6. ASSUME NEW r \in Requests, ReadLines(r) PROVE TypeOK'
  <2> DEFINE found == {l.feeAssignment : l \in
                         {m \in LiveLines : m.invoice = req[r].supersedes}}
  <2>1. found \subseteq Assignments
    BY DEF LiveLines, InvoiceLine
  <2>2. [req[r] EXCEPT !.set = found] \in Request
    BY <2>1 DEF Request
  <2>3. \/ req' = [req EXCEPT ![r].set = found]
        \/ req' = [req EXCEPT ![r] = NoRequest]
    BY <1>6 DEF ReadLines
  <2> HIDE DEF found
  <2>4. req' \in [Requests -> Request]
    BY <1>2, <2>2, <2>3
  <2> QED
    BY <1>1, <1>6, <2>4 DEF ReadLines, KeepTables
<1>7. ASSUME NEW r \in Requests,
             \/ VoidOriginal(r) \/ LoadAssignments(r) \/ RefuseAssignments(r)
             \/ ClaimNumber(r) \/ InsertConflict(r) \/ Abort(r)
      PROVE  TypeOK'
  BY <1>1, <1>2, <1>7
  DEF VoidOriginal, LoadAssignments, RefuseAssignments, ClaimNumber,
      InsertConflict, Abort, Refuse, KeepTables
<1>8. ASSUME NEW r \in Requests, Cancel(r) PROVE TypeOK'
  BY <1>1, <1>8 DEF Cancel
<1>9. ASSUME NEW r \in Requests, InsertInvoice(r) PROVE TypeOK'
  <2>1. sequence' \in Nat
    BY <1>9 DEF InsertInvoice
  <2>2. pc' \in [Requests ->
          {"idle"} \cup IssueStates \cup CancelStates \cup CorrectStates]
    BY <1>9 DEF InsertInvoice
  <2>3. /\ sequenceLock' \in Requests \cup {None}
        /\ invoiceLock' \in [InvoiceIds -> Requests \cup {None}]
        /\ req' = req /\ audited' = audited
    BY <1>9 DEF InsertInvoice
  <2> QED
    BY <1>1, <2>1, <2>2, <2>3
<1>10. ASSUME NEW r \in Requests, NumberCollision(r) PROVE TypeOK'
  <2>1. CASE req[r].attempt < MAX_NUMBER_ATTEMPTS
    <3>1. [req[r] EXCEPT !.attempt = @ + 1] \in Request
      BY <2>1 DEF Request, MAX_NUMBER_ATTEMPTS
    <3>2. req' = [req EXCEPT ![r] = [req[r] EXCEPT !.attempt = @ + 1]]
      BY <1>10, <2>1 DEF NumberCollision
    <3> QED
      BY <1>1, <1>10, <2>1, <3>1, <3>2 DEF NumberCollision, KeepTables
  <2>2. CASE ~(req[r].attempt < MAX_NUMBER_ATTEMPTS)
    BY <1>1, <1>2, <1>10, <2>2 DEF NumberCollision, KeepTables
  <2> QED
    BY <2>1, <2>2
<1>11. ASSUME NEW r \in Requests,
              \/ AuditIssued(r) \/ AuditCancelled(r)
              \/ AuditOriginal(r) \/ AuditReplacement(r)
       PROVE  TypeOK'
  <2>1. /\ pc[r] \in {"auditIssued", "auditReplacement"} =>
             req[r].id \in InvoiceIds
        /\ pc[r] \in {"auditCancelled", "auditOriginal"} =>
             req[r].supersedes \in InvoiceIds
    BY DEF IdsOwned, RequestsKnown, LogsTrue, AfterIssue, Existing
  <2> QED
    BY <1>1, <1>2, <1>11, <2>1
    DEF AuditIssued, AuditCancelled, AuditOriginal, AuditReplacement, Audit,
        KeepTables
<1>12. CASE UNCHANGED vars
  BY <1>12 DEF vars
<1> QED
  BY <1>3, <1>4, <1>5, <1>6, <1>7, <1>8, <1>9, <1>10, <1>11, <1>12
  DEF Next, Step
-----------------------------------------------------------------------------
\* Documents are never deleted, and a cancelled one is never issued again.
LEMMA RowsStay ==
    ASSUME InvoicesInv, [Next]_vars
    PROVE  /\ Existing \subseteq Existing'
           /\ \A i \in Existing :
                /\ invoices'[i].supersedes = invoices[i].supersedes
                /\ invoices[i].status = "cancelled" =>
                     invoices'[i].status = "cancelled"
           /\ \A i \in Existing' \ Existing :
                \E r \in Requests : InsertInvoice(r) /\ req[r].id = i
<1>1. CASE KeepTables
  BY <1>1 DEF KeepTables, Existing
<1>2. ASSUME NEW r \in Requests, Cancel(r)
      PROVE  /\ Existing' = Existing
             /\ \A i \in Existing :
                  /\ invoices'[i].supersedes = invoices[i].supersedes
                  /\ invoices[i].status = "cancelled" =>
                       invoices'[i].status = "cancelled"
  <2>1. /\ Existing' = Existing
        /\ \A j \in InvoiceIds :
             /\ invoices'[j].supersedes = invoices[j].supersedes
             /\ \/ invoices'[j].status = "cancelled"
                \/ invoices'[j].status = invoices[j].status
    BY <1>2, CancelDoes
  <2> QED
    BY <2>1 DEF Existing
<1>3. ASSUME NEW r \in Requests, InsertInvoice(r)
      PROVE  /\ Existing' = Existing \cup {req[r].id}
             /\ \A i \in Existing :
                  /\ invoices'[i].supersedes = invoices[i].supersedes
                  /\ invoices[i].status = "cancelled" =>
                       invoices'[i].status = "cancelled"
  <2>1. /\ Existing' = Existing \cup {req[r].id}
        /\ req[r].id \notin Existing
        /\ \A j \in InvoiceIds : j # req[r].id =>
             /\ invoices'[j].supersedes = invoices[j].supersedes
             /\ \/ invoices'[j].status = "cancelled"
                \/ invoices'[j].status = invoices[j].status
    BY <1>3, InsertDoes
  <2> QED
    BY <2>1 DEF Existing
<1> QED
  BY <1>1, <1>2, <1>3, TablesMove

\* A line becomes live with its document, and never again.
LEMMA LinesComeAlive ==
    ASSUME InvoicesInv, [Next]_vars
    PROVE  \A l \in LiveLines' \ LiveLines : l.invoice \notin Existing
<1>1. CASE KeepTables
  BY <1>1 DEF KeepTables, LiveLines
<1>2. ASSUME NEW r \in Requests, Cancel(r) PROVE LiveLines' \subseteq LiveLines
  <2>1. LiveLines' = {l \in LiveLines : l.invoice # req[r].supersedes}
    BY <1>2, CancelDoes
  <2> QED
    BY <2>1
<1>3. ASSUME NEW r \in Requests, InsertInvoice(r)
      PROVE  \A l \in LiveLines' \ LiveLines : l.invoice \notin Existing
  <2>1. /\ req[r].id \notin Existing
        /\ LiveLines' = {l \in LiveLines : l.invoice # req[r].supersedes}
                          \cup New(req[r].id, req[r].set)
    BY <1>3, InsertDoes
  <2>2. \A l \in New(req[r].id, req[r].set) : l.invoice = req[r].id
    BY DEF New
  <2> QED
    BY <2>1, <2>2
<1> QED
  BY <1>1, <1>2, <1>3, TablesMove

\* From statement to statement a request keeps what it is about.
Proceeds(s) ==
    /\ pc[s] \in BeforeIssue /\ pc'[s] \in BeforeIssue \ {"readLines"}
    /\ req'[s].id = req[s].id /\ req'[s].supersedes = req[s].supersedes
    /\ req'[s].account = req[s].account
    /\ pc'[s] = "void" => req[s].supersedes # None

Rests(s) ==
    \/ pc'[s] = pc[s] /\ req'[s] = req[s]
    \/ pc'[s] = "idle" /\ req'[s] = NoRequest

\* Either another request moves, or this one ends, or it takes one of its steps.
LEMMA WhichStep ==
    ASSUME InvoicesInv, [Next]_vars, NEW s \in Requests
    PROVE  \/ Rests(s)
           \/ LoadAssignments(s) \/ ClaimNumber(s)
           \/ ReadLines(s) \/ VoidOriginal(s) \/ NumberCollision(s)
           \/ CreateStart(s) \/ CancelStart(s) \/ CorrectStart(s)
           \/ Cancel(s) \/ InsertInvoice(s) \/ AuditOriginal(s)
<1> USE DEF InvoicesInv, TypeOK, Goto, Return, Rests
<1>1. CASE UNCHANGED vars
  BY <1>1 DEF vars
<1>2. ASSUME NEW r \in Requests, r # s,
             \/ CreateStart(r) \/ CancelStart(r) \/ CorrectStart(r)
             \/ Step(r) \/ Abort(r)
      PROVE  pc'[s] = pc[s] /\ req'[s] = req[s]
  BY <1>2
  DEF CreateStart, CancelStart, CorrectStart, Step, Abort, Refuse, Cancel,
      ReadLines, VoidOriginal, LoadAssignments, RefuseAssignments,
      ClaimNumber, InsertInvoice, NumberCollision, InsertConflict,
      AuditIssued, AuditCancelled, AuditOriginal, AuditReplacement, Audit
<1>3. ASSUME \/ RefuseAssignments(s) \/ InsertConflict(s) \/ Abort(s)
             \/ AuditIssued(s) \/ AuditCancelled(s) \/ AuditReplacement(s)
      PROVE  Rests(s)
  BY <1>3
  DEF RefuseAssignments, InsertConflict, Abort, Refuse, AuditIssued,
      AuditCancelled, AuditReplacement
<1> QED
  BY <1>1, <1>2, <1>3 DEF Next, Step

LEMMA RequestMoves ==
    ASSUME InvoicesInv, [Next]_vars, NEW s \in Requests
    PROVE  \/ Rests(s) \/ Proceeds(s)
           \/ CreateStart(s) \/ CancelStart(s) \/ CorrectStart(s)
           \/ Cancel(s) \/ InsertInvoice(s) \/ AuditOriginal(s)
<1> USE DEF InvoicesInv, TypeOK, Goto, Return, Rests
<1>1. ASSUME VoidOriginal(s) \/ LoadAssignments(s) \/ ClaimNumber(s)
      PROVE  Proceeds(s)
  BY <1>1
  DEF VoidOriginal, LoadAssignments, ClaimNumber, Proceeds, BeforeIssue
<1>2. ASSUME ReadLines(s) PROVE Rests(s) \/ Proceeds(s)
  <2> DEFINE found == {l.feeAssignment : l \in
                         {m \in LiveLines : m.invoice = req[s].supersedes}}
  <2>1. \/ pc'[s] = "idle" /\ req'[s] = NoRequest
        \/ /\ req'[s] = [req[s] EXCEPT !.set = found] /\ pc'[s] = "void"
    BY <1>2 DEF ReadLines
  <2>2. pc[s] = "readLines" /\ req[s].supersedes # None
    BY <1>2 DEF ReadLines, RequestsKnown
  <2> HIDE DEF found
  <2> QED
    BY <2>1, <2>2 DEF Proceeds, BeforeIssue, Request
<1>3. ASSUME NumberCollision(s) PROVE Rests(s) \/ Proceeds(s)
  <2>1. \/ pc'[s] = "idle" /\ req'[s] = NoRequest
        \/ /\ req'[s] = [req[s] EXCEPT !.attempt = @ + 1]
           /\ pc'[s] = IF req[s].supersedes = None THEN "load" ELSE "void"
    BY <1>3 DEF NumberCollision
  <2>2. pc[s] = "insert"
    BY <1>3 DEF NumberCollision
  <2> QED
    BY <2>1, <2>2 DEF Proceeds, BeforeIssue, Request
<1> QED
  BY <1>1, <1>2, <1>3, WhichStep

\* What the beginning of a request leaves in its locals.
LEMMA RequestStarts ==
    ASSUME InvoicesInv, NEW s \in Requests,
           CreateStart(s) \/ CancelStart(s) \/ CorrectStart(s)
    PROVE  /\ \/ /\ pc'[s] = "load" /\ CreateStart(s)
                 /\ req'[s].supersedes = None
              \/ /\ pc'[s] = "cancel" /\ CancelStart(s)
                 /\ req'[s].supersedes \in Existing
              \/ /\ pc'[s] \in {"readLines", "void"} /\ CorrectStart(s)
                 /\ req'[s].supersedes \in Existing
           /\ pc'[s] # "cancel" => /\ req'[s].id \in FreshIds
                                   /\ req'[s].account \in Accounts
           /\ pc'[s] = "cancel" => req'[s].id = None
           /\ \A r \in Requests \ {s} : pc'[r] = pc[r] /\ req'[r] = req[r]
           /\ KeepTables
<1> USE DEF InvoicesInv, TypeOK, Goto
<1>1. CASE CreateStart(s)
  <2>1. PICK i \in FreshIds, account \in Accounts, set \in SUBSET Assignments :
          req' = [req EXCEPT ![s] =
                    [id |-> i, supersedes |-> None, account |-> account,
                     set |-> set, attempt |-> 1]]
    BY <1>1 DEF CreateStart
  <2>2. /\ req'[s].id = i /\ req'[s].supersedes = None
        /\ req'[s].account = account
    BY <2>1
  <2> QED
    BY <1>1, <2>1, <2>2 DEF CreateStart
<1>2. CASE CancelStart(s)
  <2>1. PICK i \in InvoiceIds :
          MayBeCancelled(i) /\ req' = [req EXCEPT ![s].supersedes = i]
    BY <1>2 DEF CancelStart
  <2>2. i \in Existing
    BY <2>1, RowFields DEF MayBeCancelled
  <2>3. req[s].id = None
    BY <1>2 DEF CancelStart, IdsOwned
  <2>4. req'[s].supersedes = i /\ req'[s].id = None
    BY <2>1, <2>3 DEF Request
  <2> QED
    BY <1>2, <2>1, <2>2, <2>4 DEF CancelStart
<1>3. CASE CorrectStart(s)
  <2>1. PICK i \in InvoiceIds, new \in FreshIds, chosen \in SUBSET Assignments :
          /\ MayBeCancelled(i)
          /\ req' = [req EXCEPT ![s] =
                       [id |-> new, supersedes |-> i,
                        account |-> invoices[i].account, set |-> chosen,
                        attempt |-> 1]]
          /\ Goto(s, IF chosen = {} THEN "readLines" ELSE "void")
    BY <1>3 DEF CorrectStart
  <2>2. i \in Existing /\ invoices[i].account \in Accounts
    BY <2>1, RowFields DEF MayBeCancelled, Invoice
  <2>3. /\ req'[s].id = new /\ req'[s].supersedes = i
        /\ req'[s].account = invoices[i].account
    BY <2>1
  <2>4. pc'[s] \in {"readLines", "void"}
    BY <2>1
  <2> QED
    BY <1>3, <2>1, <2>2, <2>3, <2>4 DEF CorrectStart
<1> QED
  BY <1>1, <1>2, <1>3

\* Cancel and InsertInvoice as far as the request itself goes.
LEMMA RequestWrites ==
    ASSUME InvoicesInv, NEW s \in Requests
    PROVE  /\ Cancel(s) => /\ pc[s] = "cancel" /\ pc'[s] = "auditCancelled"
                           /\ req' = req
           /\ InsertInvoice(s) =>
                /\ pc[s] = "insert" /\ req' = req
                /\ pc'[s] = IF req[s].supersedes = None THEN "auditIssued"
                            ELSE "auditOriginal"
           /\ AuditOriginal(s) =>
                /\ pc[s] = "auditOriginal" /\ pc'[s] = "auditReplacement"
                /\ req' = req
                /\ audited' = audited \cup {<<"cancelled", req[s].supersedes>>}
BY DEF InvoicesInv, TypeOK, Cancel, InsertInvoice, AuditOriginal, Audit, Goto

LEMMA StepIdsOwned ==
    ASSUME InvoicesInv, [Next]_vars
    PROVE  IdsOwned'
<1> USE DEF InvoicesInv, IdsOwned, BeforeIssue, AfterIssue
<1>1. ASSUME NEW s \in Requests
      PROVE  \/ req'[s].id \in {req[s].id, None}
             \/ /\ req'[s].id \in FreshIds
                /\ \A r \in Requests \ {s} : req'[r] = req[r]
  BY RequestMoves, RequestStarts, RequestWrites
  DEF Rests, Proceeds, NoRequest
<1>2. ASSUME NEW s \in Requests, req'[s].id # None, NEW r \in Requests,
             req'[r].id = req'[s].id
      PROVE  r = s
  <2>1. CASE req'[s].id = req[s].id /\ req'[r].id = req[r].id
    BY <1>2, <2>1
  <2>2. CASE /\ req'[s].id \in FreshIds
             /\ \A q \in Requests \ {s} : req'[q] = req[q]
    BY <1>2, <2>2 DEF FreshIds
  <2>3. CASE /\ req'[r].id \in FreshIds
             /\ \A q \in Requests \ {r} : req'[q] = req[q]
    BY <1>2, <2>3 DEF FreshIds
  <2> QED
    BY <1>1, <1>2, <2>1, <2>2, <2>3
<1>3. ASSUME NEW s \in Requests, pc'[s] \in BeforeIssue
      PROVE  req'[s].id \in InvoiceIds \ Existing'
  <2>1. CASE pc[s] \in BeforeIssue /\ req'[s].id = req[s].id
    <3>1. ~InsertInvoice(s)
      BY <1>3, RequestWrites
    <3>2. req[s].id \in InvoiceIds /\ req[s].id \notin Existing
      BY <2>1
    <3>3. ASSUME req[s].id \in Existing'
          PROVE  FALSE
      <4>1. PICK r \in Requests : InsertInvoice(r) /\ req[r].id = req[s].id
        BY <3>2, <3>3, RowsStay
      <4>2. r = s
        BY <3>2, <4>1, RowFields
      <4> QED
        BY <3>1, <4>1, <4>2
    <3> QED
      BY <2>1, <3>2, <3>3
  <2>2. CASE req'[s].id \in FreshIds /\ KeepTables
    BY <2>2 DEF FreshIds, KeepTables, Existing
  <2> QED
    BY <1>3, <2>1, <2>2, RequestMoves, RequestStarts, RequestWrites
    DEF Rests, Proceeds, NoRequest
<1>4. ASSUME NEW s \in Requests, pc'[s] \in AfterIssue
      PROVE  req'[s].id \in Existing'
  <2>1. CASE pc[s] \in AfterIssue /\ req'[s].id = req[s].id
    BY <2>1, RowsStay
  <2>2. CASE InsertInvoice(s)
    BY <2>2, InsertDoes, RequestWrites
  <2> QED
    BY <1>4, <2>1, <2>2, RequestMoves, RequestStarts, RequestWrites
    DEF Rests, Proceeds, NoRequest
<1>5. ASSUME NEW s \in Requests,
             pc'[s] \in {"idle", "cancel", "auditCancelled"}
      PROVE  req'[s].id = None
  BY <1>5, RequestMoves, RequestStarts, RequestWrites
  DEF Rests, Proceeds, NoRequest
<1> QED
  BY <1>2, <1>3, <1>4, <1>5

LEMMA StepRequestsKnown ==
    ASSUME InvoicesInv, [Next]_vars
    PROVE  RequestsKnown'
<1> USE DEF InvoicesInv, RequestsKnown, BeforeIssue
<1> SUFFICES ASSUME NEW s \in Requests
             PROVE  /\ req'[s].supersedes \in Existing' \cup {None}
                    /\ pc'[s] \in {"cancel", "readLines", "void"} =>
                         req'[s].supersedes # None
                    /\ pc'[s] \in BeforeIssue => req'[s].account \in Accounts
  OBVIOUS
<1>1. CASE Rests(s)
  BY <1>1, RowsStay DEF Rests, NoRequest
<1>2. CASE Proceeds(s)
  BY <1>2, RowsStay DEF Proceeds
<1>3. CASE CreateStart(s) \/ CancelStart(s) \/ CorrectStart(s)
  BY <1>3, RequestStarts, RowsStay, RowFields DEF Existing
<1>4. CASE Cancel(s) \/ InsertInvoice(s) \/ AuditOriginal(s)
  BY <1>4, RequestWrites, RowsStay
<1> QED
  BY <1>1, <1>2, <1>3, <1>4, RequestMoves

\* Entries are only added, each by the request that is at it.
LEMMA LogGrows ==
    ASSUME InvoicesInv, [Next]_vars, NEW i
    PROVE  /\ audited \subseteq audited'
           /\ <<"issued", i>> \in audited' \ audited =>
                \E r \in Requests : pc[r] = "auditIssued" /\ i = req[r].id
           /\ <<"cancelled", i>> \in audited' \ audited =>
                \E r \in Requests : /\ pc[r] \in {"auditCancelled",
                                                  "auditOriginal"}
                                    /\ i = req[r].supersedes
           /\ <<"corrected", i>> \in audited' \ audited =>
                \E r \in Requests : pc[r] = "auditReplacement" /\ i = req[r].id
<1>1. /\ audited \subseteq audited'
      /\ \A entry \in audited' \ audited : \E r \in Requests :
           \/ pc[r] = "auditIssued" /\ entry = <<"issued", req[r].id>>
           \/ /\ pc[r] \in {"auditCancelled", "auditOriginal"}
              /\ entry = <<"cancelled", req[r].supersedes>>
           \/ pc[r] = "auditReplacement" /\ entry = <<"corrected", req[r].id>>
  BY DEF Next, vars, Step, CreateStart, CancelStart, CorrectStart, ReadLines,
         VoidOriginal, LoadAssignments, RefuseAssignments, ClaimNumber,
         Cancel, InsertInvoice, NumberCollision, InsertConflict, AuditIssued,
         AuditCancelled, AuditOriginal, AuditReplacement, Audit, Abort, Refuse
<1> QED
  BY <1>1

\* The tables have what is about to be logged since the commit, and keep it.
LEMMA StepLogsTrue ==
    ASSUME InvoicesInv, [Next]_vars
    PROVE  LogsTrue'
<1> USE DEF InvoicesInv, LogsTrue, BeforeIssue
<1> SUFFICES ASSUME NEW s \in Requests
             PROVE  /\ pc'[s] \in {"auditCancelled", "auditOriginal",
                                   "auditReplacement"} =>
                         /\ req'[s].supersedes # None
                         /\ invoices'[req'[s].supersedes].status = "cancelled"
                    /\ pc'[s] \in {"auditOriginal", "auditReplacement"} =>
                         invoices'[req'[s].id].supersedes = req'[s].supersedes
                    /\ pc'[s] = "auditReplacement" =>
                         <<"cancelled", req'[s].supersedes>> \in audited'
  OBVIOUS
<1>1. /\ req[s].supersedes # None => req[s].supersedes \in Existing
      /\ pc[s] \in {"auditOriginal", "auditReplacement"} =>
           req[s].id \in Existing
  BY DEF RequestsKnown, IdsOwned, AfterIssue
<1>2. CASE Rests(s)
  <2>1. audited \subseteq audited'
    BY LogGrows
  <2> QED
    BY <1>1, <1>2, <2>1, RowsStay DEF Rests
<1>3. CASE Proceeds(s)
  BY <1>3 DEF Proceeds
<1>4. CASE CreateStart(s) \/ CancelStart(s) \/ CorrectStart(s)
  BY <1>4, RequestStarts
<1>5. CASE Cancel(s)
  <2>1. /\ req[s].supersedes \in InvoiceIds
        /\ invoices'[req[s].supersedes].status = "cancelled"
    BY <1>5, CancelDoes
  <2>2. req[s].supersedes # None
    BY <2>1, RowFields
  <2> QED
    BY <1>5, <2>1, <2>2, RequestWrites
<1>6. CASE InsertInvoice(s)
  <2>1. /\ invoices'[req[s].id].supersedes = req[s].supersedes
        /\ req[s].supersedes \in Existing \cup {None}
        /\ req[s].supersedes # req[s].id
        /\ \A j \in InvoiceIds : j # req[s].id /\ j = req[s].supersedes =>
             invoices'[j].status = "cancelled"
    BY <1>6, InsertDoes
  <2>2. req[s].supersedes # None =>
          invoices'[req[s].supersedes].status = "cancelled"
    BY <2>1 DEF Existing
  <2> QED
    BY <1>6, <2>1, <2>2, RequestWrites
<1>7. CASE AuditOriginal(s)
  BY <1>1, <1>7, RequestWrites, RowsStay
<1> QED
  BY <1>2, <1>3, <1>4, <1>5, <1>6, <1>7, RequestMoves

LEMMA StepAuditTrailTrue ==
    ASSUME InvoicesInv, [Next]_vars
    PROVE  AuditTrailTrue'
<1> USE DEF InvoicesInv, AuditTrailTrue
<1>1. \A i \in InvoiceIds :
        /\ invoices[i].status = "cancelled" => i \in Existing
        /\ invoices[i].supersedes # None => i \in Existing
  BY DEF Existing, NoInvoice
<1> SUFFICES ASSUME NEW i \in InvoiceIds
             PROVE  /\ <<"issued", i>> \in audited' => i \in Existing'
                    /\ <<"cancelled", i>> \in audited' =>
                         invoices'[i].status = "cancelled"
                    /\ <<"corrected", i>> \in audited' =>
                         /\ invoices'[i].supersedes # None
                         /\ <<"cancelled", invoices'[i].supersedes>>
                              \in audited'
  OBVIOUS
<1>2. <<"issued", i>> \in audited' => i \in Existing'
  <2>1. CASE <<"issued", i>> \in audited
    BY <2>1, RowsStay
  <2>2. CASE <<"issued", i>> \in audited' \ audited
    <3>1. PICK r \in Requests : pc[r] = "auditIssued" /\ i = req[r].id
      BY <2>2, LogGrows
    <3> QED
      BY <3>1, RowsStay DEF IdsOwned, AfterIssue
  <2> QED
    BY <2>1, <2>2
<1>3. <<"cancelled", i>> \in audited' => invoices'[i].status = "cancelled"
  <2>1. CASE <<"cancelled", i>> \in audited
    BY <1>1, <2>1, RowsStay
  <2>2. CASE <<"cancelled", i>> \in audited' \ audited
    <3>1. PICK r \in Requests : /\ pc[r] \in {"auditCancelled", "auditOriginal"}
                                /\ i = req[r].supersedes
      BY <2>2, LogGrows
    <3>2. invoices[i].status = "cancelled"
      BY <3>1 DEF LogsTrue
    <3> QED
      BY <1>1, <3>2, RowsStay
  <2> QED
    BY <2>1, <2>2
<1>4. <<"corrected", i>> \in audited' =>
        /\ i \in Existing /\ invoices[i].supersedes # None
        /\ <<"cancelled", invoices[i].supersedes>> \in audited
  <2>1. CASE <<"corrected", i>> \in audited
    BY <1>1, <2>1
  <2>2. CASE <<"corrected", i>> \in audited' \ audited
    <3>1. PICK r \in Requests : pc[r] = "auditReplacement" /\ i = req[r].id
      BY <2>2, LogGrows
    <3> QED
      BY <3>1 DEF LogsTrue, IdsOwned, AfterIssue
  <2> QED
    BY <2>1, <2>2
<1>5. audited \subseteq audited'
  BY LogGrows
<1> QED
  BY <1>2, <1>3, <1>4, <1>5, RowsStay
-----------------------------------------------------------------------------
\* Every step keeps the invariant.
LEMMA InvoicesInvStep == InvoicesInv /\ [Next]_vars => InvoicesInv'
BY StepTypeOK, StepIdsOwned, StepRequestsKnown, StepLogsTrue,
   StepOneLiveLine, StepLiveIffIssued, StepAuditTrailTrue DEF InvoicesInv

\* The tables, what each request holds of them, and what it is about to log fit
\* together in every state that creates, cancels and corrections can reach.
THEOREM InvoicesSafe == Spec => []InvoicesInv
BY InvoicesInvInit, InvoicesInvStep, PTL DEF Spec

\* The same debt is never on two live invoices, however many requests create,
\* cancel and correct at the same time.
THEOREM BilledOnce == Spec => []OneLiveLine
<1>1. InvoicesInv => OneLiveLine
  BY DEF InvoicesInv
<1> QED
  BY <1>1, InvoicesSafe, PTL

\* Lines are live exactly on issued documents: voidedAt mirrors the status.
THEOREM FreezeEndsWithDocument == Spec => []LiveIffIssued
<1>1. InvoicesInv => LiveIffIssued
  BY DEF InvoicesInv
<1> QED
  BY <1>1, InvoicesSafe, PTL

\* What the audit log says of invoices stays true, and a correction is
\* explained on both documents.
THEOREM AuditTrailHolds == Spec => []AuditTrailTrue
<1>1. InvoicesInv => AuditTrailTrue
  BY DEF InvoicesInv
<1> QED
  BY <1>1, InvoicesSafe, PTL
-----------------------------------------------------------------------------
\* The cover of an assignment is the invoice of its live line, if it has one.
Covers(i, a) == \E l \in LiveLines : l.feeAssignment = a /\ l.invoice = i

CoverFits ==
    \A a \in Assignments :
        /\ CoverOf(a) \in InvoiceIds \cup {None}
        /\ \A i \in InvoiceIds : CoverOf(a) = i <=> Covers(i, a)
        /\ \A l \in LiveLines : l.feeAssignment = a => CoverOf(a) = l.invoice

LEMMA CoverKnown == InvoicesInv => CoverFits
<1> SUFFICES ASSUME InvoicesInv, NEW a \in Assignments
             PROVE  /\ CoverOf(a) \in InvoiceIds \cup {None}
                    /\ \A i \in InvoiceIds : CoverOf(a) = i <=> Covers(i, a)
                    /\ \A l \in LiveLines :
                         l.feeAssignment = a => CoverOf(a) = l.invoice
  BY DEF CoverFits
<1>1. \A l \in LiveLines : l.invoice \in InvoiceIds /\ l.invoice # None
  BY RowFields DEF InvoicesInv, TypeOK, LiveLines, InvoiceLine
<1>2. CASE \E l \in LiveLines : l.feeAssignment = a
  <2>1. PICK l \in LiveLines : l.feeAssignment = a
    BY <1>2
  <2>2. \A m \in LiveLines : m.feeAssignment = a => m = l
    BY <2>1 DEF InvoicesInv, OneLiveLine
  <2>3. CoverOf(a) = l.invoice
    BY <2>1, <2>2 DEF CoverOf
  <2> QED
    BY <1>1, <2>1, <2>2, <2>3 DEF Covers
<1>3. CASE ~ \E l \in LiveLines : l.feeAssignment = a
  BY <1>3, RowFields DEF CoverOf, Covers, InvoicesInv
<1> QED
  BY <1>2, <1>3

\* Tables that stay leave every cover as it was.
LEMMA SameLinesSameCover ==
    ASSUME lines' = lines, NEW a
    PROVE  CoverOf(a)' = CoverOf(a)
BY DEF CoverOf, LiveLines

\* The commit of a create or a correction issues one invoice over its set.
LEMMA InsertIsIssue ==
    ASSUME InvoicesInv, InvoicesInv', CoverFits, CoverFits',
           NEW r \in Requests, InsertInvoice(r)
    PROVE  Cover!Issue(req[r].id, req[r].supersedes, req[r].set)
<1>1. PICK i, old, set :
        i = req[r].id /\ old = req[r].supersedes /\ set = req[r].set
  OBVIOUS
<1>2. /\ i \in InvoiceIds /\ i \notin Existing
      /\ old \in Existing \cup {None} /\ old # i
      /\ Existing' = Existing \cup {i} /\ set \subseteq Assignments
      /\ \A l \in LiveLines : l.feeAssignment \in set => l.invoice = old
      /\ LiveLines' = {l \in LiveLines : l.invoice # old} \cup New(i, set)
  BY <1>1, InsertDoes
<1>3. /\ \A l \in New(i, set) : l.invoice = i /\ l.feeAssignment \in set
      /\ \A a \in set : \E l \in New(i, set) : l.feeAssignment = a
  <2>1. \A a \in set :
          LET l == [invoice |-> i, feeAssignment |-> a, voided |-> FALSE]
          IN  l \in New(i, set) /\ l.feeAssignment = a
    BY DEF New
  <2> QED
    BY <2>1, NewLines
<1>4. ASSUME NEW a \in Assignments
      PROVE  /\ a \in set => CoverOf(a) \in {None, old}
             /\ CoverOf(a)' = IF a \in set THEN i
                              ELSE IF CoverOf(a) = old THEN None
                                   ELSE CoverOf(a)
  <2>1. CoverOf(a) \in InvoiceIds \cup {None} /\ None \notin InvoiceIds
        /\ CoverOf(a)' \in InvoiceIds \cup {None}
    BY RowFields DEF CoverFits, InvoicesInv
  <2>2. a \in set => CoverOf(a) \in {None, old}
    BY <1>2, <2>1 DEF CoverFits, Covers
  <2>3. CASE a \in set
    <3>1. PICK l \in New(i, set) : l.feeAssignment = a
      BY <1>3, <2>3
    <3>2. l \in LiveLines' /\ l.invoice = i
      BY <1>2, <1>3, <3>1
    <3>3. CoverOf(a)' = i
      BY <3>1, <3>2 DEF CoverFits
    <3> QED
      BY <2>2, <2>3, <3>3
  <2>4. CASE a \notin set
    <3>1. \A l : l \in LiveLines' /\ l.feeAssignment = a
                   <=> /\ l \in LiveLines /\ l.feeAssignment = a
                       /\ l.invoice # old
      BY <1>2, <1>3, <2>4
    <3>2. \A j \in InvoiceIds : CoverOf(a)' = j <=> CoverOf(a) = j /\ j # old
      BY <3>1 DEF CoverFits, Covers
    <3> QED
      BY <2>1, <2>4, <3>2
  <2> QED
    BY <2>2, <2>3, <2>4
<1>5. Cover!Issue(i, old, set)
  BY <1>2, <1>4 DEF Cover!Issue
<1> QED
  BY <1>1, <1>5

\* A cancel withdraws the cover of an invoice, if there was any left.
LEMMA CancelIsWithdraw ==
    ASSUME InvoicesInv, InvoicesInv', CoverFits, CoverFits',
           NEW r \in Requests, Cancel(r)
    PROVE  \/ Cover!Withdraw(req[r].supersedes)
           \/ UNCHANGED Cover!coverVars
<1>1. PICK i : i = req[r].supersedes
  OBVIOUS
<1>2. /\ i \in InvoiceIds /\ Existing' = Existing
      /\ LiveLines' = {l \in LiveLines : l.invoice # i}
  BY <1>1, CancelDoes
<1>3. ASSUME NEW a \in Assignments
      PROVE  CoverOf(a)' = IF CoverOf(a) = i THEN None ELSE CoverOf(a)
  <2>1. CoverOf(a) \in InvoiceIds \cup {None} /\ None \notin InvoiceIds
        /\ CoverOf(a)' \in InvoiceIds \cup {None}
    BY RowFields DEF CoverFits, InvoicesInv
  <2>2. \A j \in InvoiceIds : CoverOf(a)' = j <=> CoverOf(a) = j /\ j # i
    BY <1>2 DEF CoverFits, Covers
  <2> QED
    BY <2>1, <2>2
<1>4. CASE \E a \in Assignments : CoverOf(a) = i
  <2>1. Cover!Withdraw(i)
    BY <1>2, <1>3, <1>4 DEF Cover!Withdraw, Cover!Covered
  <2> QED
    BY <1>1, <2>1
<1>5. CASE ~ \E a \in Assignments : CoverOf(a) = i
  BY <1>2, <1>3, <1>5 DEF Cover!coverVars
<1> QED
  BY <1>4, <1>5

LEMMA CoverStep ==
    ASSUME InvoicesInv, InvoicesInv', CoverFits, CoverFits', [Next]_vars
    PROVE  [Cover!CoverNext]_(Cover!coverVars)
<1>1. CASE KeepTables
  <2>1. Existing' = Existing /\ \A a : CoverOf(a)' = CoverOf(a)
    BY <1>1, SameLinesSameCover DEF KeepTables, Existing
  <2> QED
    BY <2>1 DEF Cover!coverVars
<1>2. ASSUME NEW r \in Requests, Cancel(r)
      PROVE  [Cover!CoverNext]_(Cover!coverVars)
  <2>1. req[r].supersedes \in InvoiceIds
    BY <1>2, CancelDoes
  <2> QED
    BY <1>2, <2>1, CancelIsWithdraw DEF Cover!CoverNext
<1>3. ASSUME NEW r \in Requests, InsertInvoice(r)
      PROVE  Cover!CoverNext
  <2>1. /\ req[r].id \in InvoiceIds /\ req[r].set \subseteq Assignments
        /\ req[r].supersedes \in Existing \cup {None}
    BY <1>3, InsertDoes
  <2> QED
    BY <1>3, <2>1, InsertIsIssue DEF Cover!CoverNext
<1> QED
  BY <1>1, <1>2, <1>3, TablesMove

\* Every document covers its assignments from one step to another: a correction
\* hands them over at once, and no two documents ever cover the same.
THEOREM CoverImplemented == Spec => ImplementsCover
<1>1. Init => Cover!CoverInit
  BY DEF Init, Cover!CoverInit, CoverOf, LiveLines, Existing
<1>2. /\ InvoicesInv /\ InvoicesInv' /\ CoverFits /\ CoverFits' /\ [Next]_vars
        => [Cover!CoverNext]_(Cover!coverVars)
  BY CoverStep
<1> QED
  BY <1>1, <1>2, InvoicesSafe, CoverKnown, PTL
  DEF Spec, ImplementsCover, Cover!CoverSpec
-----------------------------------------------------------------------------
(* The walk.                                                               *)

Path(p, i, after, seen, N) ==
    p = [n \in 0 .. N |->
           IF n = 0 THEN << >> ELSE Follow(i, after, seen, p[n - 1])]

\* The paths of a walk, as its definition chooses one: there are some of any
\* length.
LEMMA PathExists ==
    ASSUME NEW i, NEW after, NEW seen, NEW N \in Nat
    PROVE  \E p : Path(p, i, after, seen, N)
<1> DEFINE Q == {n \in Nat : \E p : Path(p, i, after, seen, n)}
<1>1. 0 \in Q
  <2>1. Path([n \in {0} |-> << >>], i, after, seen, 0)
    BY DEF Path
  <2> QED
    BY <2>1
<1>2. ASSUME NEW n \in Nat, n \in Q PROVE n + 1 \in Q
  <2>1. PICK p : Path(p, i, after, seen, n)
    BY <1>2
  <2> DEFINE q == [m \in 0 .. n + 1 |->
                     IF m = n + 1 THEN Follow(i, after, seen, p[n]) ELSE p[m]]
  <2>2. \A m \in 0 .. n :
          p[m] = IF m = 0 THEN << >> ELSE Follow(i, after, seen, p[m - 1])
    BY <2>1 DEF Path
  <2>3. ASSUME NEW m \in 0 .. n + 1
        PROVE  q[m] = IF m = 0 THEN << >> ELSE Follow(i, after, seen, q[m - 1])
    <3>1. CASE m = n + 1
      BY <3>1
    <3>2. CASE m # n + 1
      <4>1. m \in 0 .. n /\ (m # 0 => m - 1 \in 0 .. n)
        BY <3>2
      <4> QED
        BY <2>2, <3>2, <4>1
    <3> QED
      BY <3>1, <3>2
  <2>4. Path(q, i, after, seen, n + 1)
    <3>1. q = [m \in 0 .. n + 1 |-> q[m]]
      OBVIOUS
    <3> HIDE DEF q
    <3> QED
      BY <2>3, <3>1 DEF Path
  <2> QED
    BY <2>4
<1> HIDE DEF Q
<1>3. N \in Q
  BY <1>1, <1>2, AllNumbers
<1> QED
  BY <1>3 DEF Q

\* So the walk is the end of one.
LEMMA WalkIsPath ==
    ASSUME NEW i, NEW after, NEW seen, Bound \in Nat
    PROVE  \E p : /\ Path(p, i, after, seen, Bound)
                  /\ Walk(i, after, seen) = p[Bound]
<1> DEFINE p == CHOOSE q : Path(q, i, after, seen, Bound)
<1>1. Path(p, i, after, seen, Bound)
  BY PathExists
<1>2. Walk(i, after, seen) = p[Bound]
  BY DEF Walk, Path
<1> QED
  BY <1>1, <1>2

\* The n-th document of a walk from i.
At(i, walk, n) == IF n = 0 THEN i ELSE walk[n]

\* It follows one column, and
Links(i, after, walk) ==
    /\ walk \in Seq(Existing)
    /\ \A n \in 0 .. Len(walk) - 1 : At(i, walk, n + 1) = after[At(i, walk, n)]

\* ends where there is no row, or one that it has seen.
Stops(i, after, seen, walk) ==
    after[At(i, walk, Len(walk))] \in {None} \cup seen \cup ToSet(walk)

\* One step of a walk.
LEMMA FollowLinks ==
    ASSUME NEW i \in Existing, NEW after \in [Existing -> Existing \cup {None}],
           NEW seen, NEW walk, Links(i, after, walk)
    PROVE  LET next == Follow(i, after, seen, walk) IN
           /\ Links(i, after, next)
           /\ \/ next = walk /\ Stops(i, after, seen, walk)
              \/ Len(next) = Len(walk) + 1
<1> DEFINE at == At(i, walk, Len(walk))
           next == Follow(i, after, seen, walk)
<1>1. walk \in Seq(Existing) /\ Len(walk) \in Nat
  BY DEF Links
<1>2. \A n \in 0 .. Len(walk) - 1 : At(i, walk, n + 1) = after[At(i, walk, n)]
  BY DEF Links
<1>3. at = IF walk = << >> THEN i ELSE Last(walk)
  BY <1>1 DEF At, Last
<1>4. at \in Existing
  BY <1>1 DEF At
<1>5. next = IF after[at] \in {None} \cup seen \cup ToSet(walk) THEN walk
             ELSE Append(walk, after[at])
  BY <1>3 DEF Follow
<1>6. CASE after[at] \in {None} \cup seen \cup ToSet(walk)
  BY <1>5, <1>6 DEF Stops
<1>7. CASE after[at] \notin {None} \cup seen \cup ToSet(walk)
  <2> DEFINE x == after[at]
  <2>1. x \in Existing /\ next = Append(walk, x)
    BY <1>4, <1>5, <1>7
  <2> HIDE DEF x, next
  <2>2. /\ next \in Seq(Existing) /\ Len(next) = Len(walk) + 1
        /\ next[Len(walk) + 1] = x
        /\ \A n \in 1 .. Len(walk) : next[n] = walk[n]
    BY <1>1, <2>1
  <2>3. ASSUME NEW n \in 0 .. Len(next) - 1
        PROVE  At(i, next, n + 1) = after[At(i, next, n)]
    <3>1. \A m \in 0 .. Len(walk) : At(i, next, m) = At(i, walk, m)
      BY <2>2 DEF At
    <3>2. CASE n = Len(walk)
      BY <1>1, <2>2, <3>1, <3>2 DEF At, x
    <3>3. CASE n # Len(walk)
      <4>1. n \in 0 .. Len(walk) - 1 /\ n + 1 \in 0 .. Len(walk)
            /\ n \in 0 .. Len(walk)
        BY <1>1, <2>2, <3>3
      <4> QED
        BY <1>2, <3>1, <4>1
    <3> QED
      BY <3>2, <3>3
  <2> QED
    BY <2>2, <2>3 DEF Links, next
<1> QED
  BY <1>6, <1>7

\* A walk goes from row to row, and ends of itself or at its limit.
LEMMA WalkLinks ==
    ASSUME NEW i \in Existing, NEW after \in [Existing -> Existing \cup {None}],
           NEW seen, Bound \in Nat
    PROVE  LET walk == Walk(i, after, seen) IN
           /\ Links(i, after, walk)
           /\ Len(walk) < Bound => Stops(i, after, seen, walk)
<1>1. PICK p : /\ Path(p, i, after, seen, Bound)
               /\ Walk(i, after, seen) = p[Bound]
  BY WalkIsPath
<1>2. /\ p[0] = << >>
      /\ \A n \in 0 .. Bound - 1 : p[n + 1] = Follow(i, after, seen, p[n])
  <2>1. \A n \in 0 .. Bound :
          p[n] = IF n = 0 THEN << >> ELSE Follow(i, after, seen, p[n - 1])
    BY <1>1 DEF Path
  <2>2. ASSUME NEW n \in 0 .. Bound - 1
        PROVE  p[n + 1] = Follow(i, after, seen, p[n])
    <3>1. n + 1 \in 0 .. Bound /\ n + 1 # 0 /\ (n + 1) - 1 = n
      OBVIOUS
    <3>2. p[n + 1] = Follow(i, after, seen, p[(n + 1) - 1])
      BY <2>1, <3>1
    <3> QED
      BY <3>1, <3>2
  <2> QED
    BY <2>1, <2>2
<1> DEFINE Fine(n) == /\ Links(i, after, p[n])
                      /\ \/ Len(p[n]) = n
                         \/ Stops(i, after, seen, p[n])
           Q == {n \in Nat : n <= Bound => Fine(n)}
<1>3. 0 \in Q
  <2>1. << >> \in Seq(Existing) /\ Len(<< >>) = 0
    OBVIOUS
  <2>2. Links(i, after, << >>)
    BY <2>1 DEF Links
  <2> QED
    BY <1>2, <2>1, <2>2
<1>4. ASSUME NEW n \in Nat, n \in Q PROVE n + 1 \in Q
  <2> SUFFICES ASSUME n + 1 <= Bound PROVE Fine(n + 1)
    OBVIOUS
  <2>1. n \in 0 .. Bound - 1 /\ Fine(n)
    BY <1>4
  <2>2. p[n + 1] = Follow(i, after, seen, p[n])
    BY <1>2, <2>1
  <2>3. PICK w : w = p[n]
    OBVIOUS
  <2>4. Links(i, after, w)
    BY <2>1, <2>3
  <2>5. /\ Links(i, after, Follow(i, after, seen, w))
        /\ \/ Follow(i, after, seen, w) = w /\ Stops(i, after, seen, w)
           \/ Len(Follow(i, after, seen, w)) = Len(w) + 1
    BY <2>4, FollowLinks
  <2>6. CASE Follow(i, after, seen, w) = w /\ Stops(i, after, seen, w)
    BY <2>2, <2>3, <2>5, <2>6
  <2>7. CASE ~(Follow(i, after, seen, w) = w /\ Stops(i, after, seen, w))
    <3>1. Len(p[n + 1]) = Len(w) + 1
      BY <2>2, <2>3, <2>5, <2>7
    <3>2. CASE Len(w) = n
      BY <2>2, <2>3, <2>5, <3>1, <3>2
    <3>3. CASE Stops(i, after, seen, w)
      <4>1. Follow(i, after, seen, w) = w
        BY <2>4, <3>3 DEF Follow, Stops, At, Last, Links
      <4> QED
        BY <2>7, <3>3, <4>1
    <3> QED
      BY <2>1, <2>3, <3>2, <3>3
  <2> QED
    BY <2>6, <2>7
<1> HIDE DEF Q
<1>5. Bound \in Q
  BY <1>3, <1>4, AllNumbers
<1>6. Fine(Bound)
  BY <1>5 DEF Q
<1>7. Len(p[Bound]) < Bound => Stops(i, after, seen, p[Bound])
  BY <1>6
<1> QED
  BY <1>1, <1>6, <1>7

-----------------------------------------------------------------------------
(* A walk that ascends.                                                    *)

\* Whatever rank the rows have, a walk along which it grows meets no row twice.
Ascends(after, rank) ==
    /\ rank \in [Existing -> Int]
    /\ after \in [Existing -> Existing \cup {None}]
    /\ None \notin Existing
    /\ \A x \in Existing : after[x] # None => rank[x] < rank[after[x]]

\* Along it ranks grow: no row is met twice.
LEMMA WalkAscends ==
    ASSUME NEW i \in Existing, NEW after, NEW rank, Ascends(after, rank),
           NEW walk, Links(i, after, walk)
    PROVE  /\ \A n \in 0 .. Len(walk) : At(i, walk, n) \in Existing
           /\ \A m, n \in 0 .. Len(walk) :
                m < n => rank[At(i, walk, m)] < rank[At(i, walk, n)]
<1>1. /\ walk \in Seq(Existing) /\ Len(walk) \in Nat
      /\ \A n \in 0 .. Len(walk) - 1 :
           At(i, walk, n + 1) = after[At(i, walk, n)]
  BY DEF Links
<1>2. \A n \in 0 .. Len(walk) : At(i, walk, n) \in Existing
  BY <1>1 DEF At
<1>3. /\ \A x \in Existing : rank[x] \in Int
      /\ None \notin Existing
      /\ \A x \in Existing : after[x] # None => rank[x] < rank[after[x]]
  BY DEF Ascends
<1>4. ASSUME NEW n \in 0 .. Len(walk) - 1
      PROVE  rank[At(i, walk, n)] < rank[At(i, walk, n + 1)]
  <2>1. n \in 0 .. Len(walk) /\ n + 1 \in 0 .. Len(walk)
    BY <1>1
  <2> QED
    BY <1>1, <1>2, <1>3, <2>1
<1> DEFINE r(n) == rank[At(i, walk, n)]
           Q == {n \in Nat : n <= Len(walk) => \A m \in 0 .. n - 1 : r(m) < r(n)}
<1>5. \A n \in 0 .. Len(walk) : r(n) \in Int
  BY <1>2, <1>3
<1>6. \A n \in 0 .. Len(walk) - 1 : r(n) < r(n + 1)
  BY <1>4
<1> HIDE DEF r
<1>7. 0 \in Q
  OBVIOUS
<1>8. ASSUME NEW n \in Nat, n \in Q PROVE n + 1 \in Q
  <2> SUFFICES ASSUME n + 1 <= Len(walk), NEW m \in 0 .. n
               PROVE  r(m) < r(n + 1)
    OBVIOUS
  <2>1. /\ r(n) < r(n + 1) /\ r(n) \in Int /\ r(n + 1) \in Int /\ r(m) \in Int
    BY <1>1, <1>5, <1>6
  <2>2. CASE m = n
    BY <2>1, <2>2
  <2>3. CASE m # n
    <3>1. m \in 0 .. n - 1 /\ n <= Len(walk)
      BY <1>1, <2>3
    <3>2. r(m) < r(n)
      BY <1>8, <3>1
    <3> QED
      BY <2>1, <3>2
  <2> QED
    BY <2>2, <2>3
<1> HIDE DEF Q
<1>9. \A n \in Nat : n \in Q
  BY <1>7, <1>8, AllNumbers
<1>10. ASSUME NEW m \in 0 .. Len(walk), NEW n \in 0 .. Len(walk), m < n
       PROVE  r(m) < r(n)
  <2>1. n \in Q /\ m \in 0 .. n - 1 /\ n <= Len(walk)
    BY <1>1, <1>9, <1>10
  <2> QED
    BY <2>1 DEF Q
<1> QED
  BY <1>2, <1>10 DEF r

\* So it is shorter than there are rows,
LEMMA WalkIsShort ==
    ASSUME NEW i \in Existing, NEW after, NEW rank, Ascends(after, rank),
           NEW walk, Links(i, after, walk), IsFiniteSet(Existing)
    PROVE  Len(walk) < Cardinality(Existing)
<1> DEFINE S == 0 .. Len(walk)
           f == [n \in S |-> At(i, walk, n)]
           T == {f[n] : n \in S}
<1>1. Len(walk) \in Nat
  BY DEF Links
<1>2. IsFiniteSet(S) /\ Cardinality(S) = Len(walk) + 1
  <2>1. 0 \in Int /\ Len(walk) \in Int /\ 0 <= Len(walk)
    BY <1>1
  <2> QED
    BY <2>1, FS_Interval
<1>3. /\ \A n \in S : f[n] \in Existing /\ rank[f[n]] \in Int
      /\ \A m, n \in S : m < n => rank[f[m]] < rank[f[n]]
  BY WalkAscends DEF Ascends
<1>4. \A m, n \in S : f[m] = f[n] => m = n
  <2> SUFFICES ASSUME NEW m \in S, NEW n \in S, f[m] = f[n], m # n
               PROVE  FALSE
    OBVIOUS
  <2>1. m < n \/ n < m
    BY <1>1
  <2> HIDE DEF f
  <2> QED
    BY <1>3, <2>1
<1>5. f \in [S -> T] /\ T \subseteq Existing
  BY <1>3
<1>6. \A z \in T : \E n \in S : z = f[n]
  OBVIOUS
<1> HIDE DEF S, f, T
<1>7. Cardinality(T) = Len(walk) + 1
  BY <1>2, <1>4, <1>5, <1>6, SameCount
<1>8. T \in SUBSET Existing
  BY <1>5
<1>9. Cardinality(T) <= Cardinality(Existing) /\ Cardinality(Existing) \in Nat
  BY <1>8, FS_Subset, FS_CardinalityType
<1> QED
  BY <1>1, <1>7, <1>9

\* and it does not end because it met a row again.
LEMMA WalkEnds ==
    ASSUME NEW i \in Existing, NEW after, NEW rank, Ascends(after, rank),
           NEW walk, Links(i, after, walk),
           NEW seen, \A x \in seen : x \in Existing /\ rank[x] <= rank[i],
           Stops(i, after, seen, walk)
    PROVE  after[At(i, walk, Len(walk))] = None
<1> DEFINE last == At(i, walk, Len(walk))
           x == after[last]
<1>1. /\ Len(walk) \in Nat /\ walk \in Seq(Existing)
      /\ 0 \in 0 .. Len(walk) /\ Len(walk) \in 0 .. Len(walk)
  BY DEF Links
<1>2. /\ \A n \in 0 .. Len(walk) : At(i, walk, n) \in Existing
      /\ \A m, n \in 0 .. Len(walk) :
           m < n => rank[At(i, walk, m)] < rank[At(i, walk, n)]
  BY WalkAscends
<1>3. /\ last \in Existing /\ rank[last] \in Int
      /\ \A y \in Existing : rank[y] \in Int
  BY <1>1, <1>2 DEF Ascends
<1> SUFFICES ASSUME x # None PROVE FALSE
  OBVIOUS
<1>4. rank[last] < rank[x] /\ x \in Existing
  BY <1>3 DEF Ascends
<1>5. \A n \in 0 .. Len(walk) : rank[At(i, walk, n)] <= rank[last]
  <2> SUFFICES ASSUME NEW n \in 0 .. Len(walk)
               PROVE  rank[At(i, walk, n)] <= rank[last]
    OBVIOUS
  <2>1. CASE n = Len(walk)
    BY <1>3, <2>1
  <2>2. CASE n < Len(walk)
    BY <1>1, <1>2, <1>3, <2>2
  <2> QED
    BY <1>1, <2>1, <2>2
<1>6. At(i, walk, 0) = i
  BY DEF At
<1>7. x \in seen \cup ToSet(walk)
  BY DEF Stops
<1>8. CASE x \in seen
  <2>1. rank[x] <= rank[i] /\ rank[i] <= rank[last] /\ rank[i] \in Int
    BY <1>1, <1>3, <1>5, <1>6, <1>8
  <2> HIDE DEF x, last
  <2> QED
    BY <1>3, <1>4, <2>1
<1>9. CASE x \in ToSet(walk)
  <2>1. PICK n \in 1 .. Len(walk) : x = walk[n]
    BY <1>1, <1>9 DEF ToSet
  <2>2. n \in 0 .. Len(walk) /\ At(i, walk, n) = x
    BY <2>1 DEF At
  <2>3. rank[x] <= rank[last]
    BY <1>5, <2>2
  <2> HIDE DEF x, last
  <2> QED
    BY <1>3, <1>4, <2>3
<1> QED
  BY <1>7, <1>8, <1>9

-----------------------------------------------------------------------------
(* The history of a document.                                              *)

\* What the table looks like, as far as the walks see it.
Rows ==
    /\ None \notin Existing
    /\ \A i \in Existing :
         /\ invoices[i].number \in Int
         /\ invoices[i].supersedes \in Existing \cup {None}
    /\ LinksTrue

\* The ranks of the walk to newer documents, and of the one to older.
Numbers == [i \in Existing |-> invoices[i].number]
Countdown == [i \in Existing |-> 0 - invoices[i].number]

\* What findFirst finds is the only one there is.
LEMMA NewerKnown ==
    ASSUME Rows, NEW i \in Existing
    PROVE  /\ i \notin Superseded => Newer[i] = None
           /\ i \in Superseded =>
                Newer[i] \in Existing /\ invoices[Newer[i]].supersedes = i
<1>1. CASE i \notin Superseded
  BY <1>1 DEF Newer
<1>2. CASE i \in Superseded
  <2>1. \E j \in Existing : invoices[j].supersedes = i
    BY <1>2 DEF Superseded
  <2>2. Newer[i] = CHOOSE j \in Existing : invoices[j].supersedes = i
    BY <1>2 DEF Newer
  <2> QED
    BY <1>2, <2>1, <2>2
<1> QED
  BY <1>1, <1>2

\* Replacements have later numbers.
LEMMA BothAscend ==
    ASSUME Rows
    PROVE  Ascends(Older, Countdown) /\ Ascends(Newer, Numbers)
<1>1. \A i \in Existing : invoices[i].supersedes # None =>
        invoices[invoices[i].supersedes].number < invoices[i].number
  BY DEF Rows, LinksTrue
<1>2. /\ None \notin Existing
      /\ \A i \in Existing : /\ invoices[i].number \in Int
                             /\ invoices[i].supersedes \in Existing \cup {None}
  BY DEF Rows
<1>3. Ascends(Older, Countdown)
  <2>1. Countdown \in [Existing -> Int] /\ Older \in [Existing -> Existing \cup {None}]
    BY <1>2 DEF Countdown, Older
  <2>2. ASSUME NEW i \in Existing, Older[i] # None
        PROVE  Countdown[i] < Countdown[Older[i]]
    <3> DEFINE old == invoices[i].supersedes
    <3>1. Older[i] = old /\ old \in Existing
      BY <1>2, <2>2 DEF Older
    <3>2. invoices[old].number < invoices[i].number
      BY <1>1, <2>2, <3>1
    <3>3. /\ Countdown[i] = 0 - invoices[i].number
          /\ Countdown[old] = 0 - invoices[old].number
      BY <3>1 DEF Countdown
    <3> HIDE DEF old
    <3>4. invoices[i].number \in Int /\ invoices[old].number \in Int
      BY <1>2, <3>1
    <3> QED
      BY <3>1, <3>2, <3>3, <3>4
  <2> QED
    BY <1>2, <2>1, <2>2 DEF Ascends
<1>4. Ascends(Newer, Numbers)
  <2>1. Numbers \in [Existing -> Int]
    BY <1>2 DEF Numbers
  <2>2. Newer \in [Existing -> Existing \cup {None}]
    <3>1. \A i \in Existing : Newer[i] \in Existing \cup {None}
      BY NewerKnown
    <3>2. Newer = [i \in Existing |-> Newer[i]]
      BY DEF Newer
    <3> QED
      BY <3>1, <3>2
  <2>3. ASSUME NEW i \in Existing, Newer[i] # None
        PROVE  Numbers[i] < Numbers[Newer[i]]
    <3> DEFINE new == Newer[i]
    <3>1. new \in Existing /\ invoices[new].supersedes = i
      BY <2>3, NewerKnown
    <3> HIDE DEF new
    <3>2. invoices[i].number < invoices[new].number
      BY <1>1, <1>2, <3>1
    <3> QED
      BY <3>1, <3>2 DEF Numbers, new
  <2> QED
    BY <1>2, <2>1, <2>2, <2>3 DEF Ascends
<1> QED
  BY <1>3, <1>4

\* The two walks of a document, and where each ends if its limit did not end it.
Back(i) == loadChain(i).backward
Forth(i) == loadChain(i).forward

LEMMA BackKnown ==
    ASSUME Rows, Bound \in Nat, NEW i \in Existing
    PROVE  /\ Links(i, Older, Back(i))
           /\ Len(Back(i)) < Bound =>
                Older[At(i, Back(i), Len(Back(i)))] = None
<1>1. Back(i) = Walk(i, Older, {i})
  BY DEF Back, loadChain
<1>2. Ascends(Older, Countdown)
  BY BothAscend
<1>3. Older \in [Existing -> Existing \cup {None}] /\ Countdown[i] \in Int
  BY <1>2 DEF Ascends
<1>4. /\ Links(i, Older, Back(i))
      /\ Len(Back(i)) < Bound => Stops(i, Older, {i}, Back(i))
  BY <1>1, <1>3, WalkLinks
<1>5. \A x \in {i} : x \in Existing /\ Countdown[x] <= Countdown[i]
  BY <1>3
<1> QED
  BY <1>2, <1>4, <1>5, WalkEnds

LEMMA ForthKnown ==
    ASSUME Rows, Bound \in Nat, NEW i \in Existing
    PROVE  /\ Links(i, Newer, Forth(i))
           /\ Len(Forth(i)) < Bound =>
                Newer[At(i, Forth(i), Len(Forth(i)))] = None
<1> DEFINE seen == {i} \cup ToSet(Back(i))
<1>1. Forth(i) = Walk(i, Newer, seen)
  BY DEF Back, Forth, loadChain
<1>2. Ascends(Newer, Numbers) /\ Ascends(Older, Countdown)
  BY BothAscend
<1>3. Newer \in [Existing -> Existing \cup {None}] /\ Numbers[i] \in Int
  BY <1>2 DEF Ascends
<1>4. ASSUME NEW x \in seen PROVE x \in Existing /\ Numbers[x] <= Numbers[i]
  <2>1. CASE x = i
    BY <1>3, <2>1
  <2>2. CASE x \in ToSet(Back(i))
    <3> DEFINE walk == Back(i)
    <3>1. Links(i, Older, walk)
      BY BackKnown
    <3>2. walk \in Seq(Existing) /\ Len(walk) \in Nat
      BY <3>1 DEF Links
    <3>3. PICK n \in 1 .. Len(walk) : x = walk[n]
      BY <2>2, <3>2 DEF ToSet
    <3> HIDE DEF walk
    <3>4. x = At(i, walk, n) /\ i = At(i, walk, 0)
          /\ n \in 0 .. Len(walk) /\ 0 \in 0 .. Len(walk) /\ 0 < n
      BY <3>2, <3>3 DEF At
    <3>5. x \in Existing /\ Countdown[i] < Countdown[x]
      BY <1>2, <3>1, <3>4, WalkAscends
    <3>6. /\ Countdown[i] = 0 - invoices[i].number
          /\ Countdown[x] = 0 - invoices[x].number
          /\ invoices[i].number \in Int /\ invoices[x].number \in Int
      BY <3>5 DEF Countdown, Rows
    <3>7. Numbers[i] = invoices[i].number /\ Numbers[x] = invoices[x].number
      BY <3>5 DEF Numbers
    <3> QED
      BY <3>5, <3>6, <3>7
  <2> QED
    BY <2>1, <2>2
<1> HIDE DEF seen
<1>5. /\ Links(i, Newer, Forth(i))
      /\ Len(Forth(i)) < Bound => Stops(i, Newer, seen, Forth(i))
  BY <1>1, <1>3, WalkLinks
<1> QED
  BY <1>2, <1>4, <1>5, WalkEnds

\* A chain: each document replaces the one before it.
Chain(h) ==
    /\ h \in Seq(Existing)
    /\ \A n \in 1 .. Len(h) - 1 : invoices[h[n + 1]].supersedes = h[n]

\* It has nothing before and nothing after it.
Whole(h) ==
    /\ invoices[h[1]].supersedes = None
    /\ h[Len(h)] \notin Superseded

\* The two walks and the document between them are one chain, and a whole one if
\* no limit ended them.
LEMMA HistoryIsChain ==
    ASSUME Rows, Bound \in Nat, NEW i \in Existing
    PROVE  /\ Chain(History(i)) /\ i \in ToSet(History(i)) /\ Len(History(i)) > 0
           /\ Len(Back(i)) < Bound /\ Len(Forth(i)) < Bound => Whole(History(i))
<1> DEFINE b == Back(i)
           f == Forth(i)
           h == History(i)
           B == Len(b)
           F == Len(f)
<1>1. /\ Links(i, Older, b) /\ Links(i, Newer, f)
      /\ B < Bound => Older[At(i, b, B)] = None
      /\ F < Bound => Newer[At(i, f, F)] = None
  BY BackKnown, ForthKnown
<1>2. h = Reverse(b) \o <<i>> \o f
  BY DEF History, Back, Forth
<1> HIDE DEF b, f, h
<1>3. /\ b \in Seq(Existing) /\ f \in Seq(Existing) /\ B \in Nat /\ F \in Nat
      /\ \A n \in 0 .. B - 1 : At(i, b, n + 1) = Older[At(i, b, n)]
      /\ \A n \in 0 .. F - 1 : At(i, f, n + 1) = Newer[At(i, f, n)]
  BY <1>1 DEF Links
<1>4. /\ \A n \in 0 .. B : At(i, b, n) \in Existing
      /\ \A n \in 0 .. F : At(i, f, n) \in Existing
  BY <1>3 DEF At
<1>5. /\ Reverse(b) \in Seq(Existing) /\ Len(Reverse(b)) = B
      /\ \A n \in 1 .. B : Reverse(b)[n] = b[B - n + 1]
  <2>1. \A n \in 1 .. B : (B - n) + 1 \in 1 .. B
    BY <1>3
  <2>2. \A n \in 1 .. B : b[(B - n) + 1] \in Existing
    BY <1>3, <2>1
  <2>3. Reverse(b) = [n \in 1 .. B |-> b[(B - n) + 1]]
    BY DEF Reverse
  <2>4. Reverse(b) \in [1 .. B -> Existing]
    BY <2>2, <2>3
  <2> QED
    BY <1>3, <2>3, <2>4
<1>6. /\ h \in Seq(Existing) /\ Len(h) = B + 1 + F
      /\ \A n \in 0 .. B : h[B + 1 - n] = At(i, b, n)
      /\ \A n \in 0 .. F : h[B + 1 + n] = At(i, f, n)
  <2> DEFINE v == Reverse(b)
  <2>1. v \in Seq(Existing) /\ Len(v) = B
        /\ \A n \in 1 .. B : v[n] = b[B - n + 1]
    BY <1>5
  <2> HIDE DEF v
  <2>2. PICK u : u = v \o <<i>>
    OBVIOUS
  <2>3. /\ u \in Seq(Existing) /\ Len(u) = B + 1 /\ u[B + 1] = i
        /\ \A n \in 1 .. B : u[n] = v[n]
    BY <1>3, <2>1, <2>2
  <2>4. h = u \o f
    BY <1>2, <2>2 DEF v
  <2>5. /\ h \in Seq(Existing) /\ Len(h) = B + 1 + F
        /\ \A n \in 1 .. B + 1 : h[n] = u[n]
        /\ \A n \in 1 .. F : h[B + 1 + n] = f[n]
    <3>1. h \in Seq(Existing)
      BY <1>3, <2>3, <2>4
    <3>2. Len(h) = B + 1 + F
      BY <1>3, <2>3, <2>4
    <3>3. \A n \in 1 .. Len(u) + F :
            h[n] = IF n <= Len(u) THEN u[n] ELSE f[n - Len(u)]
      BY <1>3, <2>3, <2>4
    <3>4. ASSUME NEW n \in 1 .. B + 1 PROVE h[n] = u[n]
      BY <1>3, <2>3, <3>3
    <3>5. ASSUME NEW n \in 1 .. F PROVE h[B + 1 + n] = f[n]
      <4>1. /\ B + 1 + n \in 1 .. Len(u) + F /\ ~(B + 1 + n <= Len(u))
            /\ (B + 1 + n) - Len(u) = n
        BY <1>3, <2>3
      <4>2. h[B + 1 + n] = f[(B + 1 + n) - Len(u)]
        BY <3>3, <4>1
      <4> QED
        BY <4>1, <4>2
    <3> QED
      BY <3>1, <3>2, <3>4, <3>5
  <2>6. ASSUME NEW n \in 0 .. B PROVE h[B + 1 - n] = At(i, b, n)
    <3>1. CASE n = 0
      BY <1>3, <2>3, <2>5, <3>1 DEF At
    <3>2. CASE n # 0
      <4>1. B + 1 - n \in 1 .. B /\ B - (B + 1 - n) + 1 = n
            /\ B + 1 - n \in 1 .. B + 1
        BY <1>3, <3>2
      <4>2. h[B + 1 - n] = v[B + 1 - n]
        BY <2>3, <2>5, <4>1
      <4>3. v[B + 1 - n] = b[n]
        BY <2>1, <4>1
      <4> QED
        BY <3>2, <4>2, <4>3 DEF At
    <3> QED
      BY <3>1, <3>2
  <2>7. ASSUME NEW n \in 0 .. F PROVE h[B + 1 + n] = At(i, f, n)
    <3>1. CASE n = 0
      BY <1>3, <2>3, <2>5, <3>1 DEF At
    <3>2. CASE n # 0
      BY <1>3, <2>5, <3>2 DEF At
    <3> QED
      BY <3>1, <3>2
  <2> QED
    BY <2>5, <2>6, <2>7
<1>7. ASSUME NEW n \in 1 .. Len(h) - 1
      PROVE  invoices[h[n + 1]].supersedes = h[n]
  <2>1. CASE n <= B
    <3> DEFINE m == B - n
    <3>1. m \in 0 .. B - 1 /\ m \in 0 .. B /\ m + 1 \in 0 .. B
          /\ n = B + 1 - (m + 1) /\ n + 1 = B + 1 - m
      BY <1>3, <2>1
    <3>2. h[n] = At(i, b, m + 1) /\ h[n + 1] = At(i, b, m)
      <4>1. h[B + 1 - (m + 1)] = At(i, b, m + 1) /\ h[B + 1 - m] = At(i, b, m)
        BY <1>6, <3>1
      <4> QED
        BY <3>1, <4>1
    <3>3. At(i, b, m + 1) = Older[At(i, b, m)] /\ At(i, b, m) \in Existing
      BY <1>3, <1>4, <3>1
    <3> QED
      BY <3>2, <3>3 DEF Older
  <2>2. CASE n > B
    <3> DEFINE m == n - B - 1
    <3>1. m \in 0 .. F - 1 /\ m \in 0 .. F /\ m + 1 \in 0 .. F
          /\ n = B + 1 + m /\ n + 1 = B + 1 + (m + 1)
      BY <1>3, <1>6, <2>2
    <3>2. h[n] = At(i, f, m) /\ h[n + 1] = At(i, f, m + 1)
      <4>1. h[B + 1 + m] = At(i, f, m) /\ h[B + 1 + (m + 1)] = At(i, f, m + 1)
        BY <1>6, <3>1
      <4> QED
        BY <3>1, <4>1
    <3>3. /\ At(i, f, m + 1) = Newer[At(i, f, m)] /\ At(i, f, m) \in Existing
          /\ At(i, f, m + 1) \in Existing
      BY <1>3, <1>4, <3>1
    <3> QED
      BY <3>2, <3>3, NewerKnown DEF Rows
  <2> QED
    BY <1>3, <2>1, <2>2
<1>8. i \in ToSet(h) /\ Len(h) > 0
  <2>1. 0 \in 0 .. B /\ B + 1 - 0 \in 1 .. Len(h) /\ At(i, b, 0) = i
    BY <1>3, <1>6 DEF At
  <2>2. h[B + 1 - 0] = i
    BY <1>6, <2>1
  <2> QED
    BY <1>3, <1>6, <2>1, <2>2 DEF ToSet
<1>9. ASSUME B < Bound, F < Bound
      PROVE  Whole(h)
  <2>1. B \in 0 .. B /\ F \in 0 .. F
    BY <1>3
  <2>2. h[B + 1 - B] = At(i, b, B) /\ h[B + 1 + F] = At(i, f, F)
    BY <1>6, <2>1
  <2>3. B + 1 - B = 1 /\ B + 1 + F = Len(h)
    BY <1>3, <1>6
  <2>4. h[1] = At(i, b, B) /\ h[Len(h)] = At(i, f, F)
    BY <2>2, <2>3
  <2>5. h[1] \in Existing /\ h[Len(h)] \in Existing
    BY <1>4, <2>1, <2>4
  <2>6. Older[h[1]] = None /\ Newer[h[Len(h)]] = None
    BY <1>1, <1>9, <2>4
  <2>7. invoices[h[1]].supersedes = None
    BY <2>5, <2>6 DEF Older
  <2>8. h[Len(h)] \notin Superseded
    BY <2>5, <2>6, NewerKnown DEF Rows
  <2> QED
    BY <2>7, <2>8 DEF Whole
<1>10. Chain(h)
  BY <1>6, <1>7 DEF Chain
<1> QED
  BY <1>8, <1>9, <1>10 DEF b, f, h

\* A document that two whole chains share has the same place in both,
LEMMA BackFromShared ==
    ASSUME Rows, NEW h, NEW g, Chain(h), Chain(g), Whole(h), Whole(g),
           NEW a \in 1 .. Len(h), NEW b \in 1 .. Len(g), h[a] = g[b]
    PROVE  a = b
<1>1. /\ h \in Seq(Existing) /\ g \in Seq(Existing)
      /\ Len(h) \in Nat /\ Len(g) \in Nat
      /\ \A n \in 1 .. Len(h) - 1 : invoices[h[n + 1]].supersedes = h[n]
      /\ \A n \in 1 .. Len(g) - 1 : invoices[g[n + 1]].supersedes = g[n]
  BY DEF Chain
<1>2. /\ invoices[h[1]].supersedes = None /\ invoices[g[1]].supersedes = None
      /\ None \notin Existing
  BY DEF Whole, Rows
<1> DEFINE Q == {n \in Nat : \A x \in 1 .. Len(h), y \in 1 .. Len(g) :
                               x = n /\ h[x] = g[y] => y = n}
<1>3. ASSUME NEW x \in 1 .. Len(h), NEW y \in 1 .. Len(g), h[x] = g[y]
      PROVE  /\ x = 1 <=> y = 1
             /\ x # 1 => /\ x - 1 \in 1 .. Len(h) /\ y - 1 \in 1 .. Len(g)
                         /\ h[x - 1] = g[y - 1]
  <2>1. x # 1 => /\ x - 1 \in 1 .. Len(h) - 1 /\ x - 1 \in 1 .. Len(h)
                 /\ (x - 1) + 1 = x
    BY <1>1
  <2>2. y # 1 => /\ y - 1 \in 1 .. Len(g) - 1 /\ y - 1 \in 1 .. Len(g)
                 /\ (y - 1) + 1 = y
    BY <1>1
  <2>3. x # 1 => /\ invoices[h[x]].supersedes = h[x - 1]
                 /\ h[x - 1] \in Existing
    <3>1. x # 1 => invoices[h[(x - 1) + 1]].supersedes = h[x - 1]
      BY <1>1, <2>1
    <3> QED
      BY <1>1, <2>1, <3>1
  <2>4. y # 1 => /\ invoices[g[y]].supersedes = g[y - 1]
                 /\ g[y - 1] \in Existing
    <3>1. y # 1 => invoices[g[(y - 1) + 1]].supersedes = g[y - 1]
      BY <1>1, <2>2
    <3> QED
      BY <1>1, <2>2, <3>1
  <2> QED
    BY <1>2, <1>3, <2>1, <2>2, <2>3, <2>4
<1>4. 0 \in Q
  OBVIOUS
<1>5. ASSUME NEW n \in Nat, n \in Q PROVE n + 1 \in Q
  <2> SUFFICES ASSUME NEW x \in 1 .. Len(h), NEW y \in 1 .. Len(g),
                      x = n + 1, h[x] = g[y]
               PROVE  y = n + 1
    OBVIOUS
  <2>1. CASE x = 1
    BY <1>3, <2>1
  <2>2. CASE x # 1
    <3>1. /\ x - 1 \in 1 .. Len(h) /\ y - 1 \in 1 .. Len(g)
          /\ h[x - 1] = g[y - 1] /\ x - 1 = n
      BY <1>3, <2>2
    <3>2. y - 1 = n
      BY <1>5, <3>1
    <3> QED
      BY <1>1, <3>2
  <2> QED
    BY <2>1, <2>2
<1> HIDE DEF Q
<1>6. a \in Q
  BY <1>1, <1>4, <1>5, AllNumbers
<1> QED
  BY <1>6 DEF Q

\* from there they go on alike,
LEMMA ForthFromShared ==
    ASSUME Rows, NEW h, NEW g, Chain(h), Chain(g), Whole(h), Whole(g),
           NEW a \in 1 .. Len(h), a <= Len(g), h[a] = g[a]
    PROVE  \A n \in 1 .. Len(h) : a <= n => n <= Len(g) /\ h[n] = g[n]
<1>1. /\ h \in Seq(Existing) /\ g \in Seq(Existing)
      /\ Len(h) \in Nat /\ Len(g) \in Nat
      /\ \A n \in 1 .. Len(h) - 1 : invoices[h[n + 1]].supersedes = h[n]
      /\ \A n \in 1 .. Len(g) - 1 : invoices[g[n + 1]].supersedes = g[n]
  BY DEF Chain
<1>2. /\ g[Len(g)] \notin Superseded
      /\ \A i, j \in Existing :
           /\ invoices[i].supersedes = invoices[j].supersedes
           /\ invoices[i].supersedes # None
           => i = j
      /\ None \notin Existing
  BY DEF Whole, Rows, LinksTrue
<1> DEFINE Q == {n \in Nat : n \in a .. Len(h) => n <= Len(g) /\ h[n] = g[n]}
<1>3. 0 \in Q
  OBVIOUS
<1>4. ASSUME NEW n \in Nat, n \in Q PROVE n + 1 \in Q
  <2> SUFFICES ASSUME n + 1 \in a .. Len(h)
               PROVE  n + 1 <= Len(g) /\ h[n + 1] = g[n + 1]
    OBVIOUS
  <2>1. CASE n + 1 = a
    BY <2>1
  <2>2. CASE n + 1 # a
    <3>1. n \in a .. Len(h) /\ n \in 1 .. Len(h) - 1 /\ n + 1 \in 1 .. Len(h)
      BY <1>1, <2>2
    <3>2. n <= Len(g) /\ h[n] = g[n]
      BY <1>4, <3>1
    <3>3. /\ invoices[h[n + 1]].supersedes = h[n]
          /\ h[n + 1] \in Existing /\ h[n] \in Existing
      BY <1>1, <3>1
    <3>4. h[n] \in Superseded
      BY <3>3 DEF Superseded
    <3>5. n # Len(g)
      BY <1>2, <3>2, <3>4
    <3>6. n \in 1 .. Len(g) - 1 /\ n + 1 \in 1 .. Len(g)
      BY <1>1, <3>1, <3>2, <3>5
    <3>7. invoices[g[n + 1]].supersedes = g[n] /\ g[n + 1] \in Existing
      BY <1>1, <3>6
    <3>8. h[n + 1] = g[n + 1]
      BY <1>2, <3>2, <3>3, <3>7
    <3> QED
      BY <3>6, <3>8
  <2> QED
    BY <2>1, <2>2
<1> HIDE DEF Q
<1>5. \A n \in Nat : n \in Q
  BY <1>3, <1>4, AllNumbers
<1>6. ASSUME NEW n \in 1 .. Len(h), a <= n
      PROVE  n <= Len(g) /\ h[n] = g[n]
  <2>1. n \in Nat /\ n \in a .. Len(h)
    BY <1>1, <1>6
  <2> QED
    BY <1>5, <2>1 DEF Q
<1> QED
  BY <1>6

\* and up to there they are the same,
LEMMA SharedBefore ==
    ASSUME NEW h, NEW g, Chain(h), Chain(g),
           NEW a \in 1 .. Len(h), a <= Len(g), h[a] = g[a]
    PROVE  \A n \in 1 .. a : h[n] = g[n]
<1>1. /\ h \in Seq(Existing) /\ g \in Seq(Existing)
      /\ Len(h) \in Nat /\ Len(g) \in Nat
      /\ \A n \in 1 .. Len(h) - 1 : invoices[h[n + 1]].supersedes = h[n]
      /\ \A n \in 1 .. Len(g) - 1 : invoices[g[n + 1]].supersedes = g[n]
  BY DEF Chain
<1> DEFINE Q == {k \in Nat : k < a => h[a - k] = g[a - k]}
<1>2. 0 \in Q
  BY <1>1
<1>3. ASSUME NEW k \in Nat, k \in Q PROVE k + 1 \in Q
  <2> SUFFICES ASSUME k + 1 < a PROVE h[a - (k + 1)] = g[a - (k + 1)]
    OBVIOUS
  <2> DEFINE m == a - (k + 1)
  <2>1. /\ m \in 1 .. Len(h) - 1 /\ m \in 1 .. Len(g) - 1 /\ m + 1 = a - k
        /\ k < a
    BY <1>1
  <2>2. h[a - k] = g[a - k]
    BY <1>3, <2>1
  <2>3. h[m + 1] = g[m + 1]
    BY <2>1, <2>2
  <2>4. /\ invoices[h[m + 1]].supersedes = h[m]
        /\ invoices[g[m + 1]].supersedes = g[m]
    BY <1>1, <2>1
  <2>5. h[m] = g[m]
    BY <2>3, <2>4
  <2> QED
    BY <2>5
<1> HIDE DEF Q
<1>4. \A k \in Nat : k \in Q
  BY <1>2, <1>3, AllNumbers
<1>5. ASSUME NEW n \in 1 .. a PROVE h[n] = g[n]
  <2>1. a - n \in Nat /\ a - n < a /\ a - (a - n) = n
    BY <1>1
  <2>2. a - n \in Q
    BY <1>4, <2>1
  <2>3. h[a - (a - n)] = g[a - (a - n)]
    BY <2>1, <2>2 DEF Q
  <2> QED
    BY <2>1, <2>3
<1> QED
  BY <1>5

\* so whole chains that share one are the same.
LEMMA WholeChainsMeet ==
    ASSUME Rows, NEW h, NEW g, Chain(h), Chain(g), Whole(h), Whole(g),
           NEW x, x \in ToSet(h), x \in ToSet(g)
    PROVE  h = g
<1>1. /\ h \in Seq(Existing) /\ g \in Seq(Existing)
      /\ Len(h) \in Nat /\ Len(g) \in Nat
  BY DEF Chain
<1>2. PICK a \in 1 .. Len(h), b \in 1 .. Len(g) : h[a] = x /\ g[b] = x
  BY <1>1 DEF ToSet
<1>3. a = b
  BY <1>2, BackFromShared
<1>4. /\ a <= Len(g) /\ b <= Len(h) /\ h[a] = g[a] /\ g[b] = h[b]
  BY <1>1, <1>2, <1>3
<1>5. /\ \A n \in 1 .. Len(h) : a <= n => n <= Len(g) /\ h[n] = g[n]
      /\ \A n \in 1 .. Len(g) : b <= n => n <= Len(h) /\ g[n] = h[n]
  BY <1>4, ForthFromShared
<1>6. Len(h) = Len(g)
  BY <1>1, <1>4, <1>5
<1>7. \A n \in 1 .. a : h[n] = g[n]
  BY <1>4, SharedBefore
<1>8. \A n \in 1 .. Len(h) : h[n] = g[n]
  BY <1>1, <1>5, <1>7
<1> QED
  BY <1>1, <1>6, <1>8

-----------------------------------------------------------------------------
(* What the histories tell.                                                *)

\* The limit of the model is that of the code, or no limit at all.
LEMMA BoundKnown ==
    ASSUME IsFiniteSet(InvoiceIds)
    PROVE  Bound \in Nat /\ (Bound = MAX_CHAIN \/ Bound = Cardinality(InvoiceIds))
<1>1. Cardinality(InvoiceIds) \in Nat /\ MAX_CHAIN \in Nat
  BY FS_CardinalityType DEF MAX_CHAIN
<1> DEFINE S == {MAX_CHAIN, Cardinality(InvoiceIds)}
<1>2. \E x \in S : \A y \in S : x <= y
  BY <1>1
<1>3. Bound = CHOOSE x \in S : \A y \in S : x <= y
  BY DEF Bound, Min
<1>4. Bound \in S
  BY <1>2, <1>3
<1> QED
  BY <1>1, <1>4

\* No walk has run into it.
Uncut == \A i \in Existing : Len(Back(i)) < Bound /\ Len(Forth(i)) < Bound

\* Each walk is shorter than there are documents,
LEMMA WalksAreShort ==
    ASSUME Rows, IsFiniteSet(InvoiceIds), NEW i \in Existing
    PROVE  /\ Len(Back(i)) \in Nat /\ Len(Forth(i)) \in Nat
           /\ Cardinality(Existing) \in Nat
           /\ Cardinality(Existing) <= Cardinality(InvoiceIds)
           /\ Len(Back(i)) < Cardinality(Existing)
           /\ Len(Forth(i)) < Cardinality(Existing)
<1>1. Existing \in SUBSET InvoiceIds
  BY DEF Existing
<1>2. /\ IsFiniteSet(Existing) /\ Cardinality(Existing) \in Nat
      /\ Cardinality(Existing) <= Cardinality(InvoiceIds)
  BY <1>1, FS_Subset, FS_CardinalityType
<1>3. Links(i, Older, Back(i)) /\ Links(i, Newer, Forth(i))
  BY BoundKnown, BackKnown, ForthKnown
<1>4. Ascends(Older, Countdown) /\ Ascends(Newer, Numbers)
  BY BothAscend
<1>5. /\ Len(Back(i)) < Cardinality(Existing)
      /\ Len(Forth(i)) < Cardinality(Existing)
  BY <1>2, <1>3, <1>4, WalkIsShort
<1>6. Len(Back(i)) \in Nat /\ Len(Forth(i)) \in Nat
  BY <1>3 DEF Links
<1> QED
  BY <1>2, <1>5, <1>6

\* so it runs into MAX_CHAIN only where there are more of them.
LEMMA CutOrNot ==
    ASSUME Rows, IsFiniteSet(InvoiceIds)
    PROVE  /\ NothingCut => Uncut
           /\ Cardinality(Existing) <= MAX_CHAIN => NothingCut
<1>1. ASSUME NothingCut, NEW i \in Existing
      PROVE  Len(Back(i)) < Bound /\ Len(Forth(i)) < Bound
  <2>1. Len(Back(i)) < MAX_CHAIN /\ Len(Forth(i)) < MAX_CHAIN
    BY <1>1 DEF NothingCut, Back, Forth
  <2>2. /\ Len(Back(i)) < Cardinality(InvoiceIds)
        /\ Len(Forth(i)) < Cardinality(InvoiceIds)
    <3>1. Cardinality(InvoiceIds) \in Nat
      BY FS_CardinalityType
    <3> QED
      BY <3>1, WalksAreShort
  <2> QED
    BY <2>1, <2>2, BoundKnown
<1>2. ASSUME Cardinality(Existing) <= MAX_CHAIN, NEW i \in Existing
      PROVE  Len(Back(i)) < MAX_CHAIN /\ Len(Forth(i)) < MAX_CHAIN
  BY <1>2, WalksAreShort DEF MAX_CHAIN
<1> QED
  BY <1>1, <1>2 DEF Uncut, NothingCut, Back, Forth

\* The two conjuncts of HistoryTold.
LEMMA HistoryIsWhole ==
    ASSUME Rows, Bound \in Nat, Uncut, NEW i \in Existing
    PROVE  TellsAll(i)
<1> DEFINE told == History(i)
<1>1. /\ Chain(told) /\ Whole(told) /\ i \in ToSet(told)
  BY HistoryIsChain DEF Uncut
<1> HIDE DEF told
<1>2. /\ told \in Seq(Existing) /\ Len(told) \in Nat
      /\ \A n \in 1 .. Len(told) - 1 : invoices[told[n + 1]].supersedes = told[n]
      /\ told[Len(told)] \notin Superseded
  BY <1>1 DEF Chain, Whole
<1>3. ASSUME NEW j \in Existing, invoices[j].supersedes \in ToSet(told)
      PROVE  j \in ToSet(told) /\ History(j) = told
  <2>1. PICK n \in 1 .. Len(told) : invoices[j].supersedes = told[n]
    BY <1>2, <1>3 DEF ToSet
  <2>2. told[n] \in Superseded /\ told[n] \in Existing
    BY <1>2, <2>1 DEF Superseded
  <2>3. n # Len(told)
    BY <1>2, <2>2
  <2>4. n \in 1 .. Len(told) - 1 /\ n + 1 \in 1 .. Len(told)
    BY <1>2, <2>3
  <2>5. /\ invoices[told[n + 1]].supersedes = told[n]
        /\ told[n + 1] \in Existing
    BY <1>2, <2>4
  <2>6. j = told[n + 1]
    BY <2>1, <2>2, <2>5 DEF Rows, LinksTrue
  <2>7. j \in ToSet(told)
    BY <1>2, <2>4, <2>6 DEF ToSet
  <2>8. Chain(History(j)) /\ Whole(History(j)) /\ j \in ToSet(History(j))
    BY HistoryIsChain DEF Uncut
  <2>9. History(j) = told
    BY <1>1, <2>7, <2>8, WholeChainsMeet
  <2> QED
    BY <2>7, <2>9
<1> QED
  BY <1>3 DEF TellsAll, told

\* All documents of a chain are of one account.
LEMMA ChainAccount ==
    ASSUME Rows, NEW h, Chain(h), NEW x \in ToSet(h), NEW y \in ToSet(h)
    PROVE  invoices[x].account = invoices[y].account
<1>1. /\ h \in Seq(Existing) /\ Len(h) \in Nat
      /\ \A n \in 1 .. Len(h) - 1 : invoices[h[n + 1]].supersedes = h[n]
  BY DEF Chain
<1> DEFINE Q == {n \in Nat : n \in 1 .. Len(h) =>
                   invoices[h[n]].account = invoices[h[1]].account}
<1>2. 0 \in Q
  OBVIOUS
<1>3. ASSUME NEW n \in Nat, n \in Q PROVE n + 1 \in Q
  <2> SUFFICES ASSUME n + 1 \in 1 .. Len(h)
               PROVE  invoices[h[n + 1]].account = invoices[h[1]].account
    OBVIOUS
  <2>1. CASE n = 0
    BY <2>1
  <2>2. CASE n # 0
    <3>1. n \in 1 .. Len(h) /\ n \in 1 .. Len(h) - 1
      BY <1>1, <2>2
    <3>2. /\ invoices[h[n + 1]].supersedes = h[n]
          /\ h[n + 1] \in Existing /\ h[n] \in Existing
      BY <1>1, <3>1
    <3>3. invoices[h[n]].account = invoices[h[n + 1]].account
      BY <3>2 DEF Rows, LinksTrue
    <3>4. invoices[h[n]].account = invoices[h[1]].account
      BY <1>3, <3>1
    <3> QED
      BY <3>3, <3>4
  <2> QED
    BY <2>1, <2>2
<1> HIDE DEF Q
<1>4. \A n \in Nat : n \in Q
  BY <1>2, <1>3, AllNumbers
<1>5. \A n \in 1 .. Len(h) : invoices[h[n]].account = invoices[h[1]].account
  BY <1>1, <1>4 DEF Q
<1> QED
  BY <1>1, <1>5 DEF ToSet

LEMMA HistoryInOrder ==
    ASSUME Rows, Bound \in Nat, NEW i \in Existing,
           \A l \in lines : AccountOf[l.feeAssignment] = invoices[l.invoice].account
    PROVE  TellsInOrder(i)
<1> DEFINE told == History(i)
<1>1. Chain(told) /\ i \in ToSet(told)
  BY HistoryIsChain
<1> HIDE DEF told
<1>2. /\ told \in Seq(Existing) /\ Len(told) \in Nat
      /\ \A n \in 1 .. Len(told) - 1 : invoices[told[n + 1]].supersedes = told[n]
  BY <1>1 DEF Chain
<1>3. ASSUME NEW l \in lines, l.invoice \in ToSet(told)
      PROVE  AccountOf[l.feeAssignment] = invoices[i].account
  BY <1>1, <1>3, ChainAccount
<1>4. ASSUME NEW n \in 1 .. Len(told) - 1
      PROVE  /\ invoices[told[n]].status = "cancelled"
             /\ invoices[told[n]].account = invoices[told[n + 1]].account
             /\ invoices[told[n]].number < invoices[told[n + 1]].number
  <2>1. /\ told[n] \in Existing /\ told[n + 1] \in Existing
        /\ invoices[told[n + 1]].supersedes = told[n]
    BY <1>2
  <2>2. told[n] # None
    BY <2>1 DEF Rows
  <2> QED
    BY <2>1, <2>2 DEF Rows, LinksTrue
<1> QED
  BY <1>3, <1>4 DEF TellsInOrder, told
-----------------------------------------------------------------------------
\* What is written on a document is never changed, and a new one takes the next
\* number.
LEMMA WrittenForGood ==
    ASSUME InvoicesInv, [Next]_vars
    PROVE  /\ \A i \in Existing : /\ invoices'[i].number = invoices[i].number
                                  /\ invoices'[i].account = invoices[i].account
           /\ \A r \in Requests : InsertInvoice(r) =>
                /\ invoices'[req[r].id].number = sequence + 1
                /\ invoices'[req[r].id].account = req[r].account
                /\ sequence' = sequence + 1
           /\ \/ sequence' = sequence /\ Existing' = Existing
              \/ \E r \in Requests : InsertInvoice(r)
<1>1. \A i \in Existing : i \in InvoiceIds /\ invoices[i] \in Invoice
  BY RowFields DEF InvoicesInv, Existing
<1>2. ASSUME NEW i \in Existing
      PROVE  /\ [invoices[i] EXCEPT !.status = "cancelled"].number
                  = invoices[i].number
             /\ [invoices[i] EXCEPT !.status = "cancelled"].account
                  = invoices[i].account
  BY <1>1 DEF Invoice
<1>3. ASSUME NEW r \in Requests, Cancel(r)
      PROVE  /\ \A i \in Existing :
                  /\ invoices'[i].number = invoices[i].number
                  /\ invoices'[i].account = invoices[i].account
             /\ sequence' = sequence /\ Existing' = Existing
  <2>1. /\ invoices' = [invoices EXCEPT ![req[r].supersedes] =
                          [invoices[req[r].supersedes]
                             EXCEPT !.status = "cancelled"]]
        /\ sequence' = sequence
    BY <1>3 DEF Cancel
  <2>2. invoices \in [InvoiceIds -> Invoice \cup {NoInvoice}]
    BY DEF InvoicesInv, TypeOK
  <2>3. Existing' = Existing
    BY <1>3, CancelDoes
  <2>4. ASSUME NEW i \in Existing
        PROVE  \/ invoices'[i] = invoices[i]
               \/ invoices'[i] = [invoices[i] EXCEPT !.status = "cancelled"]
    BY <1>1, <2>1, <2>2
  <2> QED
    BY <1>2, <2>1, <2>3, <2>4
<1>4. ASSUME NEW r \in Requests, InsertInvoice(r)
      PROVE  /\ \A i \in Existing :
                  /\ invoices'[i].number = invoices[i].number
                  /\ invoices'[i].account = invoices[i].account
             /\ invoices'[req[r].id].number = sequence + 1
             /\ invoices'[req[r].id].account = req[r].account
             /\ sequence' = sequence + 1
  <2> DEFINE new == [number |-> sequence + 1, account |-> req[r].account,
                     status |-> "issued", supersedes |-> req[r].supersedes]
  <2>1. /\ invoices' = [j \in InvoiceIds |->
                          IF j = req[r].id THEN new
                          ELSE IF j = req[r].supersedes
                               THEN [invoices[j] EXCEPT !.status = "cancelled"]
                               ELSE invoices[j]]
        /\ sequence' = sequence + 1
    BY <1>4 DEF InsertInvoice
  <2>2. req[r].id \in InvoiceIds /\ req[r].id \notin Existing
    BY <1>4, InsertDoes
  <2>3. new.number = sequence + 1 /\ new.account = req[r].account
    OBVIOUS
  <2> HIDE DEF new
  <2>4. invoices'[req[r].id] = new
    BY <2>1, <2>2
  <2>5. ASSUME NEW i \in Existing
        PROVE  \/ invoices'[i] = invoices[i]
               \/ invoices'[i] = [invoices[i] EXCEPT !.status = "cancelled"]
    BY <1>1, <2>1, <2>2
  <2> QED
    BY <1>2, <2>1, <2>3, <2>4, <2>5
<1>5. CASE KeepTables
  <2>1. \A r \in Requests : ~InsertInvoice(r)
    BY <1>4, <1>5 DEF KeepTables, InvoicesInv, TypeOK
  <2> QED
    BY <1>5, <2>1 DEF KeepTables, Existing
<1>6. CASE \E r \in Requests : Cancel(r)
  <2>1. \A r \in Requests : ~InsertInvoice(r)
    BY <1>3, <1>4, <1>6 DEF InvoicesInv, TypeOK
  <2> QED
    BY <1>3, <1>6, <2>1
<1>7. CASE \E r \in Requests : InsertInvoice(r)
  BY <1>4, <1>7
<1> QED
  BY <1>5, <1>6, <1>7, TablesMove

\* The sequence goes up with each document.
LEMMA StepNumbersBehind ==
    ASSUME ChainInv, [Next]_vars
    PROVE  NumbersBehind'
<1> SUFFICES ASSUME NEW i \in Existing' PROVE invoices'[i].number <= sequence'
  BY DEF NumbersBehind
<1>1. InvoicesInv /\ NumbersBehind /\ sequence \in Nat
  BY DEF ChainInv, InvoicesInv, TypeOK
<1>2. \A j \in Existing : invoices[j].number \in Nat
  BY <1>1, RowFields DEF InvoicesInv, Existing, Invoice
<1>3. sequence' \in {sequence, sequence + 1}
  BY <1>1, WrittenForGood
<1>4. CASE i \in Existing
  <2>1. invoices'[i].number = invoices[i].number
    BY <1>1, <1>4, WrittenForGood
  <2> QED
    BY <1>1, <1>2, <1>3, <1>4, <2>1 DEF NumbersBehind
<1>5. CASE i \notin Existing
  <2>1. PICK r \in Requests : InsertInvoice(r) /\ req[r].id = i
    BY <1>1, <1>5, RowsStay
  <2> QED
    BY <1>1, <2>1, WrittenForGood
<1> QED
  BY <1>4, <1>5

\* A correction is the first of the document that it replaces, and has a later
\* number and the same account.
LEMMA StepLinksTrue ==
    ASSUME ChainInv, [Next]_vars
    PROVE  LinksTrue'
<1>1. InvoicesInv /\ OneAccount /\ NumbersBehind /\ LinksTrue /\ sequence \in Nat
  BY DEF ChainInv, InvoicesInv, TypeOK
<1>2. \A j \in Existing : invoices[j].number \in Nat /\ j # None
  BY <1>1, RowFields DEF InvoicesInv, Existing, Invoice
<1>3. /\ Existing \subseteq Existing'
      /\ \A j \in Existing :
           /\ invoices'[j].supersedes = invoices[j].supersedes
           /\ invoices'[j].number = invoices[j].number
           /\ invoices'[j].account = invoices[j].account
           /\ invoices[j].status = "cancelled" =>
                invoices'[j].status = "cancelled"
  BY <1>1, RowsStay, WrittenForGood
<1>4. ASSUME NEW r \in Requests, InsertInvoice(r)
      PROVE  /\ Existing' = Existing \cup {req[r].id}
             /\ req[r].id \notin Existing
             /\ invoices'[req[r].id].supersedes = req[r].supersedes
             /\ req[r].supersedes # None =>
                  /\ req[r].supersedes \in Existing
                  /\ invoices'[req[r].supersedes].status = "cancelled"
                  /\ invoices'[req[r].id].account
                       = invoices[req[r].supersedes].account
                  /\ invoices'[req[r].id].number = sequence + 1
                  /\ \A j \in Existing :
                       invoices[j].supersedes # req[r].supersedes
  <2>1. /\ Existing' = Existing \cup {req[r].id}
        /\ req[r].id \notin Existing
        /\ invoices'[req[r].id].supersedes = req[r].supersedes
        /\ req[r].supersedes \in Existing \cup {None}
        /\ req[r].supersedes # req[r].id
        /\ \A j \in InvoiceIds : j # req[r].id =>
             invoices'[j].status =
               IF j = req[r].supersedes THEN "cancelled" ELSE invoices[j].status
    BY <1>1, <1>4, InsertDoes
  <2>2. /\ invoices'[req[r].id].number = sequence + 1
        /\ invoices'[req[r].id].account = req[r].account
    BY <1>1, <1>4, WrittenForGood
  <2>3. req[r].supersedes # None =>
          req[r].account = invoices[req[r].supersedes].account
    BY <1>1, <1>4 DEF InsertInvoice, OneAccount, BeforeIssue
  <2>4. req[r].supersedes # None =>
          \A j \in Existing : invoices[j].supersedes # req[r].supersedes
    BY <1>4 DEF InsertInvoice, SupersededAlready, Superseded
  <2>5. req[r].supersedes # None =>
          invoices'[req[r].supersedes].status = "cancelled"
    BY <2>1 DEF Existing
  <2> QED
    BY <2>1, <2>2, <2>3, <2>4, <2>5
<1> SUFFICES ASSUME NEW i \in Existing', invoices'[i].supersedes # None
             PROVE  LET old == invoices'[i].supersedes IN
                    /\ old \in Existing'
                    /\ invoices'[old].status = "cancelled"
                    /\ invoices'[old].account = invoices'[i].account
                    /\ invoices'[old].number < invoices'[i].number
                    /\ \A j \in Existing' :
                         invoices'[j].supersedes = old => j = i
  BY DEF LinksTrue
<1>5. CASE i \in Existing
  <2> DEFINE old == invoices[i].supersedes
  <2>1. /\ invoices'[i].supersedes = old /\ old # None
    BY <1>3, <1>5
  <2>2. /\ old \in Existing /\ invoices[old].status = "cancelled"
        /\ invoices[old].account = invoices[i].account
        /\ invoices[old].number < invoices[i].number
        /\ \A j \in Existing : invoices[j].supersedes = old => j = i
    BY <1>1, <1>5, <2>1 DEF LinksTrue
  <2> HIDE DEF old
  <2>3. ASSUME NEW j \in Existing', invoices'[j].supersedes = old
        PROVE  j = i
    <3>1. CASE j \in Existing
      BY <1>3, <2>2, <2>3, <3>1
    <3>2. CASE j \notin Existing
      <4>1. PICK r \in Requests : InsertInvoice(r) /\ req[r].id = j
        BY <1>1, <3>2, RowsStay
      <4>2. req[r].supersedes = old
        BY <1>4, <2>3, <4>1
      <4>3. invoices[i].supersedes # old
        BY <1>4, <1>5, <2>1, <4>1, <4>2
      <4> QED
        BY <4>3 DEF old
    <3> QED
      BY <3>1, <3>2
  <2> QED
    BY <1>3, <1>5, <2>1, <2>2, <2>3
<1>6. CASE i \notin Existing
  <2>1. PICK r \in Requests : InsertInvoice(r) /\ req[r].id = i
    BY <1>1, <1>6, RowsStay
  <2>2. PICK old : old = req[r].supersedes
    OBVIOUS
  <2>3. /\ Existing' = Existing \cup {i}
        /\ invoices'[i].supersedes = old /\ old # None
        /\ old \in Existing /\ invoices'[old].status = "cancelled"
        /\ invoices'[i].account = invoices[old].account
        /\ invoices'[i].number = sequence + 1
        /\ \A j \in Existing : invoices[j].supersedes # old
    BY <1>4, <2>1, <2>2
  <2>4. invoices'[old].number = invoices[old].number
        /\ invoices'[old].account = invoices[old].account
    BY <1>3, <2>3
  <2>5. invoices[old].number < sequence + 1
    BY <1>1, <1>2, <2>3 DEF NumbersBehind
  <2>6. \A j \in Existing' : invoices'[j].supersedes = old => j = i
    BY <1>3, <2>3
  <2> QED
    BY <1>3, <2>3, <2>4, <2>5, <2>6
<1> QED
  BY <1>5, <1>6

\* Before it inserts, a request has looked at the assignments of its set.
LEMMA SetLookedAt ==
    ASSUME InvoicesInv, [Next]_vars, NEW s \in Requests,
           pc'[s] \in {"claim", "insert"}
    PROVE  /\ req'[s] = req[s]
           /\ \/ pc[s] \in {"claim", "insert"}
              \/ \A a \in req[s].set : AccountOf[a] = req[s].account
<1> USE DEF InvoicesInv, TypeOK, Goto
<1>1. CASE Rests(s)
  BY <1>1 DEF Rests
<1>2. CASE LoadAssignments(s) \/ ClaimNumber(s)
  BY <1>2 DEF LoadAssignments, ClaimNumber, MayBeInvoiced
<1>3. CASE ReadLines(s) \/ VoidOriginal(s) \/ NumberCollision(s)
  BY <1>3 DEF ReadLines, VoidOriginal, NumberCollision, Return
<1>4. CASE \/ CreateStart(s) \/ CancelStart(s) \/ CorrectStart(s)
           \/ Cancel(s) \/ InsertInvoice(s) \/ AuditOriginal(s)
  BY <1>4, RequestStarts, RequestWrites
<1> QED
  BY <1>1, <1>2, <1>3, <1>4, WhichStep

\* A correction takes over the account of its original, and lines are of it.
LEMMA StepOneAccount ==
    ASSUME ChainInv, [Next]_vars
    PROVE  OneAccount'
<1>1. InvoicesInv /\ OneAccount
  BY DEF ChainInv
<1>2. \A j \in Existing : invoices'[j].account = invoices[j].account
  BY <1>1, WrittenForGood
<1>3. ASSUME NEW l \in lines'
      PROVE  AccountOf[l.feeAssignment] = invoices'[l.invoice].account
  <2>1. \A m \in lines :
          /\ m.invoice \in Existing
          /\ AccountOf[m.feeAssignment] = invoices'[m.invoice].account
    BY <1>1, <1>2 DEF InvoicesInv, LiveIffIssued, OneAccount
  <2>2. CASE KeepTables
    BY <2>1, <2>2 DEF KeepTables
  <2>3. ASSUME NEW r \in Requests, Cancel(r)
        PROVE  AccountOf[l.feeAssignment] = invoices'[l.invoice].account
    <3>1. PICK m \in lines : /\ l.invoice = m.invoice
                             /\ l.feeAssignment = m.feeAssignment
      BY <1>1, <2>3, CancelDoes
    <3> QED
      BY <2>1, <3>1
  <2>4. ASSUME NEW r \in Requests, InsertInvoice(r)
        PROVE  AccountOf[l.feeAssignment] = invoices'[l.invoice].account
    <3>1. PICK i, old, set :
            i = req[r].id /\ old = req[r].supersedes /\ set = req[r].set
      OBVIOUS
    <3>2. l \in Voided(old, lines) \/ l \in New(i, set)
      BY <1>1, <2>4, <3>1, InsertDoes
    <3>3. CASE l \in Voided(old, lines)
      <4>1. PICK m \in lines : /\ l.invoice = m.invoice
                               /\ l.feeAssignment = m.feeAssignment
        BY <1>1, <3>3, VoidedLines DEF InvoicesInv
      <4> QED
        BY <2>1, <4>1
    <3>4. CASE l \in New(i, set)
      <4>1. l.invoice = i /\ l.feeAssignment \in set
        BY <3>4, NewLines
      <4>2. \A a \in set : AccountOf[a] = req[r].account
        BY <1>1, <2>4, <3>1 DEF InsertInvoice, OneAccount
      <4>3. invoices'[i].account = req[r].account
        BY <1>1, <2>4, <3>1, WrittenForGood
      <4> QED
        BY <4>1, <4>2, <4>3
    <3> QED
      BY <3>2, <3>3, <3>4
  <2> QED
    BY <2>2, <2>3, <2>4, TablesMove
<1>4. ASSUME NEW s \in Requests, pc'[s] \in BeforeIssue,
             req'[s].supersedes # None
      PROVE  req'[s].account = invoices'[req'[s].supersedes].account
  <2>1. CASE /\ pc[s] \in BeforeIssue
             /\ req'[s].supersedes = req[s].supersedes
             /\ req'[s].account = req[s].account
    <3>1. /\ req[s].supersedes \in Existing
          /\ req[s].account = invoices[req[s].supersedes].account
      BY <1>1, <1>4, <2>1 DEF InvoicesInv, RequestsKnown, OneAccount
    <3> QED
      BY <1>2, <2>1, <3>1
  <2>2. CASE CorrectStart(s)
    <3>1. PICK i \in InvoiceIds, new \in FreshIds,
                chosen \in SUBSET Assignments :
            /\ MayBeCancelled(i)
            /\ req' = [req EXCEPT ![s] =
                         [id |-> new, supersedes |-> i,
                          account |-> invoices[i].account, set |-> chosen,
                          attempt |-> 1]]
      BY <2>2 DEF CorrectStart
    <3>2. i \in Existing
      BY <1>1, <3>1, RowFields DEF MayBeCancelled, InvoicesInv
    <3>3. /\ req'[s].supersedes = i
          /\ req'[s].account = invoices[i].account
      BY <1>1, <3>1 DEF InvoicesInv, TypeOK
    <3> QED
      BY <1>2, <3>2, <3>3
  <2>3. CASE Rests(s) \/ Proceeds(s)
    BY <1>4, <2>1, <2>3 DEF Rests, Proceeds, NoRequest
  <2>4. CASE CreateStart(s) \/ CancelStart(s)
    <3>1. \/ pc'[s] = "load" /\ req'[s].supersedes = None
          \/ pc'[s] = "cancel"
          \/ CorrectStart(s)
      BY <1>1, <2>4, RequestStarts
    <3> QED
      BY <1>4, <2>2, <3>1 DEF BeforeIssue
  <2>5. CASE Cancel(s) \/ InsertInvoice(s) \/ AuditOriginal(s)
    BY <1>1, <1>4, <2>5, RequestWrites DEF BeforeIssue
  <2> QED
    BY <1>1, <2>2, <2>3, <2>4, <2>5, RequestMoves
<1>5. ASSUME NEW s \in Requests, pc'[s] \in {"claim", "insert"}
      PROVE  \A a \in req'[s].set : AccountOf[a] = req'[s].account
  BY <1>1, <1>5, SetLookedAt DEF OneAccount
<1> QED
  BY <1>3, <1>4, <1>5 DEF OneAccount

LEMMA ChainInvStep == ChainInv /\ [Next]_vars => ChainInv'
BY InvoicesInvStep, StepOneAccount, StepNumbersBehind, StepLinksTrue
DEF ChainInv

LEMMA ChainInvInit == Init => ChainInv
<1> SUFFICES ASSUME Init PROVE ChainInv
  OBVIOUS
<1>1. Existing = {}
  BY DEF Init, Existing
<1>2. OneAccount /\ NumbersBehind /\ LinksTrue
  BY <1>1 DEF Init, OneAccount, NumbersBehind, LinksTrue, BeforeIssue
<1> QED
  BY <1>2, InvoicesInvInit DEF ChainInv

\* Documents have the lines of their own account, the sequence stays ahead of
\* their numbers, and corrections link them into chains that never branch.
THEOREM ChainsSafe == Spec => []ChainInv
BY ChainInvInit, ChainInvStep, PTL DEF Spec

\* What the walks need of the tables is invariant.
LEMMA ChainRows == ChainInv => Rows
<1> SUFFICES ASSUME ChainInv PROVE Rows
  OBVIOUS
<1>1. InvoicesInv /\ TypeOK /\ LinksTrue
  BY DEF ChainInv, InvoicesInv
<1>2. None \notin Existing /\ \A i \in Existing : invoices[i].number \in Int
  BY <1>1, RowFields DEF Existing, Invoice
<1>3. \A i \in Existing : invoices[i].supersedes \in Existing \cup {None}
  BY <1>1 DEF LinksTrue
<1> QED
  BY <1>1, <1>2, <1>3 DEF Rows

\* Whatever document is opened, and however corrections and cancellations
\* raced: what it tells is of one account, every document but the last is
\* cancelled, and the numbers ascend.
THEOREM HistoriesInOrder ==
    ASSUME IsFiniteSet(InvoiceIds)
    PROVE  Spec => [](\A i \in Existing : TellsInOrder(i))
<1>1. ChainInv => \A i \in Existing : TellsInOrder(i)
  BY BoundKnown, ChainRows, HistoryInOrder DEF ChainInv, OneAccount
<1> QED
  BY <1>1, ChainsSafe, PTL

\* Whichever document of a chain is opened, the same whole history is told, as
\* long as no walk has run into its limit; with no more documents than the
\* limit none can.
THEOREM HistoriesWhole ==
    ASSUME IsFiniteSet(InvoiceIds)
    PROVE  Spec => [](NothingCut \/ Cardinality(Existing) <= MAX_CHAIN =>
                        HistoryTold)
<1>1. ASSUME ChainInv, NothingCut \/ Cardinality(Existing) <= MAX_CHAIN
      PROVE  HistoryTold
  <2>1. Rows /\ Bound \in Nat
    BY <1>1, BoundKnown, ChainRows
  <2>2. Uncut
    BY <1>1, <2>1, CutOrNot
  <2>3. ASSUME NEW i \in Existing PROVE TellsAll(i) /\ TellsInOrder(i)
    BY <1>1, <2>1, <2>2, HistoryIsWhole, HistoryInOrder
    DEF ChainInv, OneAccount
  <2> QED
    BY <2>3 DEF HistoryTold
<1> QED
  BY <1>1, ChainsSafe, PTL
==============================================================================
