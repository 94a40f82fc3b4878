# Brite SMS in TLA+

Brite SMS is a school management server: NestJS handlers, Prisma, and one
PostgreSQL database at its default isolation level, READ COMMITTED. The program
keeps almost nothing in memory between requests. Its difficulty is in what several
requests do to the same rows: a transaction that reads and then writes, a read that
happens before the transaction, a unique index that is the only thing between two
concurrent inserts, a retry of a transaction that was rolled back, an audit entry
that is a statement of its own, a token that outlives what it was signed from, a
poller that dies with rows in its hands. That is what is modelled here.

Paths below are relative to the repository.

## 1. Inventory

| Component | State | Operations | Meets | What makes it correct |
|---|---|---|---|---|
| Payment ledger (`src/fees/fee-payments.service.ts`, `fees.money.ts`) | `fee_payments`, append-only; an assignment's balance is computed, never stored | `create` (row lock, balance check, receipt number, insert; then audit and text), `reverse` (a negative entry) | the row of `fee_assignments` (FOR UPDATE), the receipt sequence, the audit log, the outbox | never more collected than due; at most one reversal per payment; unique receipts; a text only for a recorded payment |
| Fee reports (`src/fees/fees-reporting.service.ts`) | none | `bill`, `levelSummary`, `ledger`, each with queries of its own | assignments, payments, enrollments | three routes to the same money give one answer |
| Document numbers (`common/utils/document-number.util.ts`, `document-sequences`, and the retry loops of `students`, `staff`, `admissions`) | one `document_sequences` row per document type | `nextDocumentNumber` within a caller's transaction, `generateNext`, change of prefix or padding | every transaction that claims a number; numbers typed by hand | a value is given out once; the counter moves only with the record that uses it; the retry gets past a taken number |
| Invoices (`src/invoices/invoices.service.ts`) | `invoices`, `invoice_lines` with `voided_at` | `create`, `cancel`, `correct`; the history of a document (`loadChain`) | assignments, the invoice number sequence, the audit log | one live line per assignment; one history whichever document of a chain is opened; one enrollment and term per invoice; the status of a document and the state of its lines agree |
| Fee assignments (`src/fees/fee-assignments.service.ts`) | `fee_assignments.amount_due` | `update` | payments (a bill may not drop below them), invoices (which freeze it) | no credit; no change under a live invoice |
| School fees (`src/fees/school-fees.service.ts`), classrooms (`src/classrooms/classrooms.service.ts`) | `school_fees` and generated assignments; the level and year of a classroom | create, update, archive, restore, `reconcile`; a classroom moves to another level or year with the children in it | enrollments, assignments | whoever is active in the level is billed, unless they came after the last list; what was billed keeps its price |
| SMS outbox (`src/notifications/*`, consent in `src/guardians/guardians.service.ts`) | `notification_messages`; `guardians.sms_consent_given` | `enqueue`, `tick` and `drainOnce`, `grantSmsConsent`, `revokeSmsConsent` | triggers, an external gateway that may charge per attempt | no double claim; at most three attempts; no text without consent; every message comes to an outcome |
| Triggers and batches (`notifications.triggers.ts`, `dispatchBatch`) | one dedupe key per day: of a student and term for a fee reminder, of an enrollment for an absence alert | `feeReminders`, `absenceAlerts`, `feeReceipt`, `passwordReset` | fees, the register, guardians and links, the outbox | one row a day for each student's reminder and each enrollment's absence; the summary of a batch adds up |
| Message text and phone numbers (`notifications.segments.ts`, `notifications.phone.ts`, `notifications.templates.ts`) | none | rendering, degradation to GSM-7, segment count, normalisation | `enqueue` | the price on record is that of what is sent; a number that cannot be reached is not sent to |
| Guardian links (`src/student-guardians`, `src/guardians`) | `student_guardians`, `guardians` | link, update, `setPrimary`, unlink; consent, phone, archive, restore | consent, reminders | one primary guardian, displaced only by name; a link is messageable only with consent |
| Sessions and passwords (`src/auth/auth.service.ts`) | `user_sessions`, `auth_tokens`, passwords | login, refresh with rotation, logout, password change and reset | users, roles, triggers | who is cut off stays cut off; a refresh token opens one session; nobody is logged out by a refresh that succeeded |
| Users and roles (`src/users`, `src/roles`, `PermissionsGuard`, `JwtStrategy`) | `users`, `user_roles`, `role_permissions` | create, deactivate, give and take roles and permissions; the guard reads the token | sessions | what a token grants is what its user is granted, as of its last refresh |
| Admissions, enrollments | `applications`, `enrollments` | status changes, `enroll`, transfer, withdrawal | students, classrooms, fees | one active enrollment per student and year; an enrolled application has its enrollment; a revert overrides no outcome; rejected and withdrawn are the end |
| Terms, attendance register | `terms`, sessions and marks of attendance | activate, close, reopen (known from the audit log), mark, amend | academic years, enrollments, the audit log | one active term; a closed register changes only while reopened |
| Attendance reports (`attendance.service.ts`, `attendance.reporting.ts`, `attendance.formatter.ts`) | none | a day's register, two summaries, the grid, the CSV | the register, enrollments | all of them count the same sessions |
| Reference data, files, settings | single rows | plain edits behind unique indexes | — | uniqueness, which the database enforces |
| Audit log | append-only rows | `create`, on a connection of its own | everything | what it says is true |

Components meet through the database: row locks, unique indexes, foreign keys, and
the sequence row that every numbered document claims. The only code that runs without
a request is the dispatcher's interval timer.

The hard behaviours, each at its line, are the `hazards` of `PROJECT.json`.

## 2. Modules

| Module | Models | State and actions |
|---|---|---|
| `FeeLedger` | what the ledger promises | amount due and amount collected per assignment; `Pay` and `GiveBack` are single steps |
| `FeePayments` | `FeePaymentsService` | one program counter and one record of locals per request; **one action per SQL statement** and its continuation: `LockAssignment`, `AcceptAmount`/`RefuseAmount`, `ClaimReceipt`, `InsertPayment` (the commit)/`ReceiptCollision`, `AuditPayment`, `NotifyReceipt`; `CheckNotReversed`, `InsertReversal`/`ReversalConflict`, `AuditReversal`; `Abort` at every point |
| `FeeReporting` | `FeesReportingService`, over `FeePayments` | no state of its own: `bill`, `levelSummary` and `ledger` as operators on its tables, given which child and term each assignment belongs to |
| `DocumentNumbers` | number claims | requests (`Takers`) and their locals, the sequence row with its lock, the documents; records with claimed or typed numbers, `generateNext`, `update` of the format, renumbering of an application |
| `InvoiceCover` | what invoicing promises | which invoice covers each assignment; issue, withdraw, and replace are single steps |
| `Invoices` | `InvoicesService` | `create`, `cancel`, `correct` by statement; locks on the sequence row and on an invoice row; waits in a unique index; deadlock detection |
| `InvoiceChain` | `loadChain`, over `Invoices` | the walk in both directions with its guard against cycles, as a function of the rows |
| `FeeAssignments` | `FeeAssignmentsService.update`, **composed** with `FeePayments`, which it extends, and an instance of `Invoices` over the same assignments | the three reads and writes of the edit, each a step among those of payers and billers |
| `Outbox` | enqueue, dispatcher, consent | rows with status, attempts and due flag; the locals of each enqueue call; the batch of each poller; ghost counters of what the gateway was handed, and of how often it left open whether it took it |
| `MessageText` | templates, segments, phone numbers | operators: `renderTemplate`, `degradeToGsm7`, `analyseSms`, `normaliseGhanaPhone` |
| `GuardianLinks` | `GuardiansService`, `StudentGuardiansService` | guardians and links; each operation is its reads and, later, its write, against the unique pairs and the partial index |
| `Reminders` | `feeReminders`, `absenceAlerts`, `dispatchBatch`, over `GuardianLinks` and `MessageText` | a batch selects enrollments once; then one enqueue for each of them, side by side, each of two steps; the summary and its audit entry come last. Pollers claim rows and record outcomes, and withdrawals come between |
| `Sessions` | `AuthService`, `UsersService`, `RolesService`, `JwtStrategy`, `PermissionsGuard` | sessions with the payload of their access token, reset tokens, users and roles; one action per statement of a login, a refresh and a reset; ghosts for who was overtaken by what |
| `AttendanceReporting` | the counting rules of `attendance.reporting.ts` | operators: `tally`, `addTallies`, `summarise` |
| `Register` | `AttendanceService` and `TermsService` | terms with their days, the register, the newest entry of each kind in the audit log and the clock they are stamped by; one action per statement of `markRegister`, `reopenTerm` and `close`, the two reads of `isReopened` in either order |
| `RegisterReports` | the reads of `AttendanceService` and the CSV, over `Register` | no state of its own: each report as an operator on the register and on the roster read before it |
| `Enrollments` | `EnrollmentsService` | the row of each student, year and track, with its classroom; every operation is one statement behind two unique indexes. The three modules below extend it |
| `Classrooms` | `ClassroomsService.update`, among enrollments | level and year of each classroom, and the years it has had, one of which a `create` of an enrollment has read; what joins a child to a level |
| `Admissions` | `AdmissionsService`, among enrollments | applications; each transition is a read with its check and, later, an unconditional write by id; `enroll` inserts and then updates; ghosts for what an `enroll` made and what came back while a revert waited |
| `SchoolFees` | `SchoolFeesService`, among enrollments and classrooms | fees and the amount of each assignment; create and reconcile read the list of enrollments, then bill it; a ghost for who joined the level after a list was read |
| `SumTheorems` | sums and counts over finite sets | proofs about the fold of the community modules: order, parts, differences; both kinds of reports stand on it |
| `FeePaymentsProofs`, `InvoicesProofs`, `EnrollmentsProofs`, `OutboxProofs`, `RemindersProofs`, `RegisterProofs`, `SessionsProofs` | theorems | proofs, section 5. `FeePaymentsProofs` is about payments, their reports and the edits of assignments; `EnrollmentsProofs` about admissions, school fees and document numbers |
| `MC…` | instances for TLC | sets of model values, symmetry |

### How the code is read

*Statements are steps.* A handler is cut at every `await` on the database, since any
other request may run there. What happens between two awaits is one action. Prisma's
`include` is a query of its own; that is a separate step where the difference can be
seen (`ReadLines` in `Invoices`, `ReadPermissions` in `Sessions`), and part of its neighbour elsewhere.

*Transactions.* A transaction's own writes stay in the request's locals, under the
locks that it holds, until the step that commits; rolling back drops them. This is
READ COMMITTED for the tables concerned: each such row is either locked by its writer
or guarded by a unique index. The last statement of a transaction and its COMMIT are
one step, and a `$transaction` of a list of writes is one step altogether, except in `Register`, whose transaction is a list of upserts in any order and has a `Commit` of its own.

*Locks.* `SELECT … FOR UPDATE` and every UPDATE lock a row until the transaction ends.
An insert takes a key-share lock on the row that it refers to, so it waits for a
FOR UPDATE on that row and for nothing else (`InsertReversal`, `LinesMayRefer`). A unique index makes an insert wait for
the transaction that is changing the conflicting entry (`WaitsForVoid`).

*Failures.* `Abort`, `Fail`, `PollerFails`, `EnqueueFails`, `WithdrawFails`, `LinkFails`, `CallFails` and `BatchFails` are the end of the
process, a lost connection, a failed statement or a timeout, possible between any two
steps. What was committed stays; what was not is gone.

*Data.* Names and labels are left out. Amounts are positive integers, in the unit the code
computes in (pesewas). Ids are model values. A document number is the counter with a
format, as far as two numbers can be told apart. A text is how many characters of each
kind it has: those of the basic alphabet, of its extension, those that degradation
replaces, and the rest. A phone number is its digits and separators. Days and terms are numbers in order.

*Ghost variables* record what a property needs and no guard reads: `texted` and
`audited` in the ledger, `known` in `FeeAssignments`, `handed`, `unanswered`, `stranded` and
`consented` in `Outbox`, `yearsHad` in `Classrooms`, `lastEntry`, `reopenedSince`, `closeLost`, `sawOpen` and `teller` in `Register`,
`placed` and `revived` in `Admissions`, `missed` in `SchoolFees`, `lapsed` and the `overtaken` and `withdrawn` flags of
`GuardianLinks` and `Reminders`, `origin`, `changed`, `stranded` and `shared` in `Sessions`.

### Abstractions worth knowing

- `Outbox.Claim` takes any batch of due rows and not the oldest: SKIP LOCKED and a
  rollback of a concurrent claim mean that no order can be relied on. It allows more
  than the code does, so safety carries over.
- `Outbox` does not keep the batch-level and consent audit entries, which nothing there reads; the batch's is in `Reminders`.
- `BackoffElapses` lets a backoff of any length pass; MAX_ATTEMPTS and the order of
  transitions are exact.
- The receipt text in `FeePayments` is the call of the trigger; what the trigger leads to is `Outbox`.
- In `Reminders` a poller claims a row, and then records an outcome or fails, as in `Outbox`, one row at a time; the batch of a
  poller, attempts and backoff are left to `Outbox`, so that a row may be tried any number of times.
- `Reminders` does not model fees, the register and enrollments: a batch may select any enrollments, one of each student at most.
- `EnrollmentsService.create` reads the classroom before it inserts. `Classrooms.YearMatches` asks for one of the years that the classroom
  has had, `yearsHad`: a classroom that is moved meanwhile leaves an enrollment of another year than its classroom's. It may be a year of long ago,
  which allows more than the code does.
- An access token of `Sessions` lives as long as its session, and not 15 minutes: this only adds behaviours.
- In `Enrollments`, `completed` stands for transferred and graduated too.
- `SchoolFees.EditDue` is the edit of an assignment without its guards, and allows more than `FeeAssignments`, where they are.
- A report of `FeeReporting` and of `RegisterReports` is evaluated in one state. `RegisterReports` takes any roster, so that
  the query of the roster may be older than that of the records.
- Recurring requests are unlimited; the ids they may use up are not (section 4).

## 3. Runs

| Run | Question | Shows |
|---|---|---|
| `payments` | Can payments, reversals, retries and crashes break the ledger, and do the reports on it agree? | `NeverOvercollected`, `ReversedOnce`, `TextedWasRecorded`, and `FeePayments` implements `FeeLedger`. `ReportsAgree`: bill, level summary and ledger give one answer to every question about money |
| `numbers` | Is a counter value given out twice, or lost? | No, also under format changes. `IncrementConsumed`: the counter moves by one, with exactly one record or answer |
| `invoices` | Do overlapping create, cancel and correct bill a debt twice, break the chain, or leave lines that disagree with the document? | No; `Invoices` implements `InvoiceCover`. `HistoryTold`: the history is the same from every document of a chain, complete, and of one account |
| `invoices_answers` | Do requests that lock each other's rows come to an end? | Yes, with PostgreSQL's deadlock detection; the run has real deadlocks and a number in use |
| `assignments` | What survives of the rules on the amount due when an edit overlaps a payment or an invoice? | A payment fits the bill as it stands at its commit; an amount changes under a live invoice only if the edit looked before that invoice existed |
| `outbox` | Two pollers, triggers, withdrawals and crashes: double sends, extra attempts, lost messages? | No double claim, at most three attempts, one hand-over per message, and one more only for each that the gateway left open, one message per dedupe key, final outcomes stay, every message settles unless a poller failed while sending it |
| `outbox_withdrawal` | Does withdrawal take effect on the next send? | **No.** See the finding below |
| `reminders` | Two batches over enrollments of students whose guardians, consents, numbers and links change, next to a poller: who is texted, and does the summary add up? | `BatchAccounted`: one row a day for each student's reminder and each enrollment's absence, a true summary. `SmsHasConsent`: a link is messageable with consent, **except** by a write whose consent was withdrawn after its read. `WithdrawnIsSilent`: what waits has consent, **except** where it was withdrawn between the read and the insert of that row, or while a poller had the row and failed to send it. `PrimaryKept`: nobody loses the primary slot unnamed. `PricedAsSent`: the segments on record are those of the text that is sent |
| `sessions` | Logins, refreshes, password changes and resets overlap with deactivation and with changes of roles: who keeps access? | `InactiveIsCutOff` and `OldPasswordIsCutOff`: nobody, **except** a session that was being opened at that very moment, or (old password) what was refreshed from one. `TokensExplained`: a token is right as of its last refresh. `RotationIsHandedOver`: a session is given up only for another. `SpentOnce`: a token is used twice only if two requests read it before either marked it |
| `register` | Can a mark slip into a locked term; what does closing guarantee; is every mark in the audit log; do the reports agree? | `OpenWhileAsked`: who gets past the lock saw the term open at some moment since asking. `LockHolds`: closing undoes every older reopen, **except** between the two statements of `close`, and for good if the second never runs. `RegisterExplained`: no value in the register is unlogged unless its writer failed. `TotalsAgree`: a day, the two summaries, the grid and the CSV count the same sessions |
| `admissions` | Transitions, reverts and `enroll` overlap with each other and with enrollments: what still holds? | `EnrolledIsPlaced`: enrolled applications have an enrollment on record, whatever fails. `RevertSeesOutcome`: a revert overrides only enrollments that came to be, or came back, after it looked. `TerminalStays`: what reopens a rejected or withdrawn application is `enroll`, or a transition that read it before |
| `school_fees` | Is everyone billed, once, at a price that stays? | `NoRevenueHole`: who is active in the level and has no assignment joined it after every list that was billed, be it alone or with the classroom. `PriceFrozen`: neither an edit of the fee nor any reconcile changes what was billed |

The comments on `reject` and `withdraw` in `admissions.service.ts` call these states terminal. They are, but for what `TerminalStays` names:
`enroll` checks no status at all, and a transition writes with no condition on the status it has read.

When an edit of an assignment reads, and a payment or an invoice commits before it writes, the result is a bill below what was
collected (which `fee-assignments.service.ts` means to rule out), or a changed amount under a live invoice. `FeeAssignments` has these
behaviours; `assignments` states what is left: each payment fits the bill of its moment, and only an edit that looked too early changes an invoiced amount.

What `ChargedOnce` allows is what the comment in `drainOnce` accepts ("worst case a parent gets one message twice"), and a little more: when the gateway
throws or leaves a message out of its answer, it may have taken it, and the message is handed over again, up to `MAX_ATTEMPTS` times in all. After an acceptance, or a
failure for good, it never is.

The exception in `LockHolds` is narrower than `starter-docs/API_ENDPOINTS.md` puts it ("closing the
term again writes a newer `terms.closed` entry that outranks it and re-locks the register"): the two statements of `close`
are not a transaction, so a term can be `closed` with its last reopen still in force. Closing it once more repairs it.

What a reader may not expect, and the models have:

- `classrooms.update` moves the children of a classroom to another level or year with it, and neither bills them there nor
  unbills them; the next `reconcile` of the new level does the first (`SchoolFees`).
- `levelSummary` leaves out what was billed to an enrollment that was withdrawn, and the bill of the child has it. Its
  `unassigned` counts only students with no fee at all (`FeeReporting`).
- A suppressed row holds the dedupe key of its day: a child whose guardian gives consent at noon is not reminded before
  tomorrow. When one enqueue of a batch fails there is no summary and no audit entry, and the rows of the others stay (`Reminders`).
- `loadChain` stops after 50 documents in each direction: opening an invoice shows the whole history, as its comment says, of chains up to that length (`InvoiceChain`).
- An ellipsis becomes three characters, so degrading a text may make it dearer; without one it never does (`RemindersProofs!DegradingSaves`).
- A session that is opened while its user is deactivated keeps access to the API until it ends: `JwtStrategy` reads the session, and
  nobody reads the user before the next refresh, which is refused. A new reset token leaves older ones valid (`Sessions`).
- `ROLES_AND_PERMISSIONS_ADMIN_GUIDE.md` says that a change of a role takes effect at the next sign-in; it does at the next refresh (`TokensExplained`).

### Finding

**A message can be queued after the consent was withdrawn** (`outbox_withdrawal`, `WithdrawalRespected`). `enqueue` reads the consent before the
row exists, so the withdrawal finds nothing to cancel. A second way to the same
end: a retryable failure recorded after the withdrawal sets the cancelled row back to `queued`. `WithdrawnIsSilent` says that there is no third.

Three more disagreements are stated as formulas that no run checks, because they do not hold; each becomes a
counterexample when it is added to the cfg named here:

- `DocumentNumbers!RetryClaimsNextValue` (an invariant, `MCDocumentNumbers.cfg`). `students.service.ts`, `staff.service.ts`,
  `admissions.service.ts` and `fee-payments.service.ts` claim the number and insert in one
  transaction, "claim the next value and try again". A collision rolls back the increment too, so all three attempts use the
  same number, and so does every later request, until the number is freed or somebody
  advances the counter (`generateNext` does).
- `Invoices!ReplacesOnlyIssued` (a property, `MCInvoices.cfg`). `correct` reads the status outside its
  transaction. A `cancel` between the read and the transaction is overwritten; with
  the second query of the `include` it can even produce an invoice without lines.
- `Reminders!OneAlertPerChild` (an invariant, `MCReminders.cfg`). `notifications.triggers.ts` says of the key of an absence alert "One alert per child
  per day"; the key is of the enrollment. A child that was marked absent, moves to another track and is marked absent there for the same date has two.

## 4. Bounds and fairness

| Run | Bounds | Why they are enough |
|---|---|---|
| `payments` | 2 assignments, 3 concurrent requests, 4 rows, amounts 1–2, receipt number 3 in use by an import; 4 books, each way round | two racing payments, a third party that reverses, and a spare row for what follows; the receipt loop reaches its limit. The books are the ways two assignments can lie to each other: one child in two terms, two children, an active and a withdrawn enrollment in one term and in two |
| `numbers` | 2 requests, 2 records, 2 formats, typed numbers up to 2, 2 generated | a claim, its rival, and a format change between them |
| `invoices` | 3 assignments (one of another term), 3 invoices, 2 requests | an invoice, its replacement, and a rival for each of the lines; chains of up to three. The cut of `loadChain` at 50 documents is in the model and not reached |
| `invoices_answers` | 1 assignment, 3 invoices, 2 requests, invoice number 3 in use | the smallest instance with a deadlock, and with a collision that is retried to its limit |
| `assignments` | 1 assignment, 1 payer, 1 biller, 1 editor, 2 payment rows, 2 invoices, amounts 1–2 | one of each actor, each able to act before and after the edit |
| `outbox` | 1 guardian, 2 messages, 2 pollers, batches of up to 2, 1 enqueue call at a time | two messages compete for a batch and for a dedupe key; two pollers for a row |
| `reminders` | 2 students, one with 2 enrollments, 2 guardians, 1 link request, 2 batches on one of 2 occasions, 2 numbers (one unreachable), 1 wording with 2 names | two batches compete for the keys of a reminder, which two enrollments of a child share, or of absences, which they do not; one body fits its segment and one needs UCS-2, both at the edge; a second guardian competes for the primary slot. `Bound` keeps the second guardian, and requests on links, to behaviours before the first batch, and lets one thing about a guardian change at a time during it: a batch reads links and guardians only in `Resolve`, and meets a change only through what that reads. Within it `BatchBound` lets one of the two batches have two enrollments, one call fail, and one row at a time be in a poller's hands, as rows do not read each other once they are inserted; what follows a `failed` row, which nothing changes any more, is cut off |
| `sessions` | 2 logins, 1 role, 1 permission, 2 passwords, 2 requests, 3 sessions, 1 reset token | a request and whoever overtakes it, a lineage of three sessions. `Bound` lets roles, passwords and the second login change in behaviours of their own, with two sessions: no action reads two of them, so they meet only in the sessions they end. `View` drops what nothing reads of a session that has ended |
| `register` | 1 term, 1 day, 2 children (one of them may be withdrawn meanwhile), 2 submissions, 2 requests, `MaxTime` 2 | a marker and whoever closes or reopens meanwhile, or two markers; with two times, a reopen and two closes can fall before, into and after the same instant. The one active term and overlapping terms need a second term, which only the proofs cover |
| `admissions` | 1 application, 1 student, 1 year, 2 tracks, 1 classroom, 2 requests | two tracks give a student a second row for the year, which the partial index keeps from being active; two requests: a transition and whoever overtakes it, while enrollments move by themselves |
| `school_fees` | 1 fee, 1 classroom, 2 levels, 2 years, 2 students, 1 track, 2 amounts, 2 requests | a child billed and one who comes too late; a classroom that leaves the level or the year and comes back with children in it; two lists that overlap. A child whose enrollment changes its classroom is to the fee a child whose classroom changes its level |

`MaxAmount`, `MaxTyped`, `MaxGenerated`, `MaxMessages`, `MaxTime`, `MaxSessions`, `MaxResets`, the two `Bound`s and the finite sets of ids are the only bounds.
When they are used up the model has nothing left to do, which is why
`CHECK_DEADLOCK` is off: it is not a state of the program.
`outbox` has no staff recipient: a staff message runs the same path as one to a guardian
who has consented and does not withdraw, and those are in the run. `outbox_withdrawal` has two enqueue calls.

`ReportsAgree`, `TotalsAgree` and `HistoryTold` are evaluated only where no request is under way. They read
committed rows and nothing of a request, and every request may fail where it stands and leave these rows as they are, so
each set of rows that is reachable at all is reachable there.

**Fairness.** Only the two runs with a liveness property assume any.

- `Invoices.Fairness`: strong fairness of a request's steps. A handler that is not blocked
  continues, and PostgreSQL serves the waiters of a row in turn, so one that can go on
  again and again does. Breaking a deadlock is weakly fair, `deadlock_timeout`. No
  fairness of requests being made, nor of any other abort.
- `Outbox.Fairness`: weak fairness of a poller's claim (the `@Interval` timer fires as long as the
  process lives, and `drainOnce` is what it calls), of working off a batch already claimed, and of
  time passing. Nothing makes the gateway accept, an enqueue go on, or a guardian act.
  `SettledUnlessStranded` states the exception plainly: a row that was `sending` when its poller
  failed is never looked at again.

## 5. Proofs

Checked by TLAPS, for every value of the constants that satisfies the named assumptions.

| Theorem | States | Argument |
|---|---|---|
| `FeePaymentsProofs!LedgerSafe` | `Spec => []LedgerInv` | the inductive invariant, below |
| `FeePaymentsProofs!Typed`, `!Solvent` | type correctness; no overcollection | conjuncts of `LedgerInv` |
| `FeePaymentsProofs!ReversedAtMostOnce`, `!ReceiptsTrue` | `ReversedOnce`, `TextedWasRecorded` | from `HistoryInv`, below |
| `FeePaymentsProofs!LedgerImplemented` | `Spec => ImplementsLedger` | step simulation, below |
| `FeePaymentsProofs!OneAnswer` | `Spec => []ReportsAgree` | sums over parts of the ledger, below |
| `FeePaymentsProofs!AssignmentsSafe` | `AssignmentsSpec => []AssignmentsInv` | payments, invoices and edits next to each other, below |
| `FeePaymentsProofs!PaymentsFit`, `!EditsRespectFreeze` | `PaymentFitsBill`, `FreezeRespected` | from `AssignmentsInv`, action by action |
| `EnrollmentsProofs!CounterSafe` | `NumbersSpec => []CounterInv` | one claimant at a time holds the row; what was given out is at most the committed counter |
| `EnrollmentsProofs!GivenOnce` | no counter value is given out twice | a conjunct |
| `EnrollmentsProofs!IncrementsConsumed` | `NumbersSpec => IncrementConsumed` | what is committed lies above every counter given out, so it is new; `AnswersLogged` puts the audit entry first |
| `InvoicesProofs!InvoicesSafe` | `Spec => []InvoicesInv` | the inductive invariant, below |
| `InvoicesProofs!BilledOnce`, `!FreezeEndsWithDocument`, `!AuditTrailHolds` | `OneLiveLine`, `LiveIffIssued`, `AuditTrailTrue` | conjuncts |
| `InvoicesProofs!ChainsSafe` | `Spec => []ChainInv` | replacements link documents into chains that never branch, below |
| `InvoicesProofs!HistoriesInOrder` | in every state, whatever document is opened and however long its chain: `TellsInOrder` | from `ChainInv` and what a walk is, below |
| `InvoicesProofs!HistoriesWhole` | `HistoryTold`, in every state where no walk has run into `MAX_CHAIN`; none can while there are at most that many documents | as before, below |
| `InvoicesProofs!CoverImplemented` | `Spec => ImplementsCover` | step simulation, below |
| `OutboxProofs!OutboxSafe` | `Spec => []OutboxInv` | the inductive invariant, below |
| `OutboxProofs!NobodyClaimsTwice`, `!ThreeAttempts`, `!NobodyChargedTwice`, `!ConsentBeforeSend` | no row in two batches; at most MAX_ATTEMPTS hand-overs; one hand-over per message and dedupe key but for those that the gateway left open; what was sent was consented to at its enqueue | consequences of `OutboxInv` |
| `OutboxProofs!OutcomeStays` | `Spec => OutcomeFinal`: what is sent, failed or suppressed never changes | from `OutboxInv`, action by action |
| `RemindersProofs!RemindersSafe` | `Spec => []RemindersInv` | the inductive invariant, below |
| `RemindersProofs!ConsentKept`, `!PrimaryStays`, `!BatchesAccounted`, `!WithdrawalSilences`, `!RowsArePriced` | `SmsHasConsent`, `PrimaryKept`, `BatchAccounted`, `WithdrawnIsSilent`, `PricedAsSent` | from `RemindersInv`; `PrimaryKept` action by action |
| `RemindersProofs!DegradingSaves` | a text without an ellipsis has no more segments after `degradeToGsm7` than before | at most twice as many GSM characters as UCS-2 units, and 2 · 67 < 153 |
| `RegisterProofs!RegisterSafe` | `Spec => []RegisterInv` | the inductive invariant, below |
| `RegisterProofs!NobodySlipsIn`, `!ClosingLocks`, `!EveryMarkLogged` | `OpenWhileAsked`, `LockHolds`, `RegisterExplained` | conjuncts |
| `RegisterProofs!ReportsCount` | `Spec => []TotalsAgree` | tallies of parts of the register, below |
| `EnrollmentsProofs!AdmissionsSafe` | `Spec => []AdmissionsInv` | what a request is about to write, it has checked (`WritesChecked`); rows of enrollments are never deleted (`EnrollmentsKept`) |
| `EnrollmentsProofs!EnrolledPlaced`, `!OutcomesSeen`, `!TerminalKept` | `EnrolledIsPlaced`, `RevertSeesOutcome`, `TerminalStays` | conjuncts; the last one from the invariant, action by action |
| `EnrollmentsProofs!FeesSafe` | `FeesSpec => []FeesInv` | the inductive invariant, below |
| `EnrollmentsProofs!EveryoneBilled` | `NoRevenueHole` | a conjunct |
| `EnrollmentsProofs!PriceStays` | `FeesSpec => PriceFrozen` | `skipDuplicates` leaves what is there, and only `EditDue` writes over it |
| `SessionsProofs!SessionsSafe` | `Spec => []SessionsInv` | the inductive invariant, below |
| `SessionsProofs!InactiveCutOff`, `!OldPasswordCutOff`, `!RotationHandsOver`, `!TokensRight`, `!TokensSpentOnce` | `InactiveIsCutOff`, `OldPasswordIsCutOff`, `RotationIsHandedOver`, `TokensExplained`, `SpentOnce` | consequences of `SessionsInv` |

*Why `NeverOvercollected` needs more.* That no balance is negative does not survive the insert of
a payment unless the amount still fits the balance at that moment. `AmountFits` says so of every
request past the check, and is itself preserved only because nobody else can insert a payment on that
assignment (`LocksHeld`: the request holds the row lock), while a reversal only makes the balance
larger. `OwnRows` keeps a request's new row apart from those in the table, so that an insert adds exactly its amount to the sum.
The sum of a set of rows is the cardinality of its unit pairs `{<<row, k>> : k <= amount}`, which
makes it amenable to the library's facts on finite sets; `RowMovesBalance` is the lemma the
ledger stands on.

*Why a reversal happens once.* `reverse` reads that a payment has no reversal and inserts one later; what keeps a second one out is
the unique index on `reverses_payment_id`. `HistoryInv` says what the table looks like at all times: ids tell rows apart (`RowsDistinct`); a reversal mirrors the row that it names, which
is there and is no reversal itself, and is alone in that (`Reverses`, `RowsMirror`); what a request is about to
insert would mirror its original too (`RequestsMirror`). For the receipts the same invariant follows the
request: it texts and audits only after its commit (`ReceiptsFollow`), what it committed is a row that stays (`Recorded`), and
receipt numbers are distinct (`ReceiptsDistinct`), because the index refuses the insert that would repeat one.

*Why the rows keep the ledger.* `FeeLedger` knows balances only. Every step of `FeePayments` leaves them alone, except the two inserts. The
insert of a payment is a `Pay` because of `AmountFits`. The insert of a reversal is a `GiveBack`, which takes no more than was
collected, and this is the harder half: no check in the code says so. It holds because each reversal takes back a payment of its own
(`RowsMirror`, `Reverses`): the units of all reversals, with those of the one about to be inserted, map one to one into the units of the
payments on the same assignment (`ReversalFits`).

*Why an edit of an assignment harms neither ledger.* `AssignmentsInv` is `LedgerInv` without its bound on the balance, which an edit does break (section 3),
with the invariant of the invoices and `EditsKnow`. The update of an amount waits for the row lock of the assignment, so no request
stands between its check of the amount and its insert: `AmountFits`, and with it `PaymentsFit`, survive an edit. `EditsKnow` says that the live lines
which came since an edit looked are on documents that did not exist then, because a line only becomes live with a new document. The theorems
about `Invoices` are used through an instance, and one lemma (`SameInvoices`) identifies it with that of the model.

*Why the reports give one answer.* `FiguresFit` is all that they need of the ledger: each assignment has collected between nothing and its
amount, which `LedgerInv` and `HistoryInv` give (a reversal never takes back more than was paid). A bill, a row of the level summary and the
ledger sum these figures over sets that cut the assignments up differently: by child, term, fee type, or state of the enrollment.
`SumOfParts` says that a sum is the sum of the sums of the parts. Where a report cuts off at zero (`orZero`) or names a state (`paymentState`), the
bound makes the cut idle, and a whole paid or pending exactly when every part is.

*Sums.* `MapThenSumSet` picks elements in an order of its own. `SumTheorems` shows that the order does not matter. This is induction over the size of a set;
the library states induction with an operator, which cannot be instantiated here, so `AllNumbers` and `AllSubsets` state it with the *set* of numbers
or subsets that have the property. The recursive function inside the fold is a CHOOSE: `SolutionExists` and `SolutionsAgree` show that there is one, and one only.

*Why the reports of attendance count alike.* They group the same rows differently: by child (both summaries, the CSV), by day (the views), by child and day (the grid),
and not at all. `TallyOfParts` says that each of the eight figures of some rows is the sum of that figure over parts of them, `TallyMoved` that it
does not depend on what identifies the rows, and `FoldAddsUp` that folding tallies with `addTallies` is summing them. `SessionsTallied` is where
every row states one of four statuses for each of two sessions: without it marked sessions would not be twice the marked days. Of the register's
behaviour the reports need one thing, `NothingAhead`, a conjunct of `RegisterInv`: a grid ends with the day that was asked for, the summary with the term, and
they agree because no day ahead is ever marked. What is offered for editing is open because of `EntriesOrdered`.

*Why a debt is on one live invoice.* The partial index refuses the second live line; what the proof adds is that nothing around it goes
wrong. A correction voids lines and inserts others in one transaction, so its insert must meet no live line but those that it
voids. `LiveIffIssued` is preserved only if the id of a new document is not taken: `IdsOwned` says that a request's id is fresh until
its insert, and that no two requests hold the same. `RequestsKnown` says that what is being corrected exists. The audit log comes after the commit,
in a statement of its own, so its truth is that of `LogsTrue`: what a request is about to log has happened, and the original's entry
is there before the replacement's.

*Why every document tells the same history.* `LinksTrue` says that a replacement points at a cancelled document of the same account with a smaller
number, and is alone in that: the unique index gives the last part, `NumbersBehind` (the sequence is ahead of all numbers) the one before, and
`OneAccount` the account, which a request has carried since it read its original. So numbers grow along the walk to newer documents and fall along
the walk to older ones. A walk along which a rank grows meets no document twice (`WalkAscends`), hence is shorter than there are documents
(`WalkIsShort`), and what ends it is the end of the chain (`WalkEnds`): the guard against cycles in `loadChain` never acts, as its comment says. Back, the
document and forth are then one chain with nothing before and after it (`HistoryIsChain`), and two such chains with a document in common are equal
(`WholeChainsMeet`). The exception is the limit: in a chain of more than 50 documents a walk may stop early, and then not every document of it tells the whole.
`HistoriesWhole` says so in its condition, `NothingCut`; what a cut history does tell is in order all the same.

*Why every document keeps its cover.* The cover of an assignment, the invoice of its one live line, is moved by the commits only: a cancel
withdraws what the document had, an insert issues to assignments that are free, or hands over those of the invoice that it
supersedes in the same step (`InsertIsIssue`, `CancelIsWithdraw`). The invariant makes the choice of "the" live line one of a single line.

*Why the outbox needs eight conjuncts.* That a message is not sent twice relates the gateway's
count to the row's status, the pollers' batches and their locals. `NoDoubleClaim` says a row is in
one batch at most, and only while it is `sending`; `HandedCounted` that each hand-over was counted by the claim
before it, so `attempts` bounds what the gateway saw; `AttemptsLeft` that a row which waits has one
left, because `Record` settles it otherwise; `AnswerHeld` that a message which the gateway has answered for good is either recorded so,
or stays with the poller that knows, or is stranded in `sending`, where no claim finds it; `KeysUnique` carries this from rows to
dedupe keys; `ConsentAsked` ties the recipient of each row to the read that preceded it; `RowsDense` says that rows are
numbered without gaps, so an insert overwrites nothing.

*Why consent is kept, and batches add up.* Every operation on a guardian or a link reads first and writes later, and `enqueue` reads the consent before its row exists.
`RemindersInv` says of each request and call that what it has read still holds, or that the write which changed it marked the request as overtaken;
the row that a call inserts inherits the mark. So a row that waits has the guardian's consent, or carries the mark of its race. A row that a poller has claimed may wait again, whatever its status: `ConsentHeld`
says the same of it, and that a withdrawal which cancels it under the poller marks it, for the consent may have been given again when the poller puts it back. For the
counts the invariant keeps a correspondence between the enrollments of a batch, its calls and the rows of its keys, which the unique index on the
key makes one to one: that is what turns "so many calls ended this way" into "so many rows have this status" (`BatchesAccounted`). A call of another batch
cannot disturb it, because rows are never deleted and a key stays with the row that has it.

*Why the register needs `AnswerTrue`.* A request learns whether its term is open from the status, the newest reopen and the
newest close, each read when it gets there. `AnswerTrue` speaks of a request in the middle of this: *if* what it has read,
completed with what it would read now, says "reopened", then the term was seen open since the request began. A new close
can only make that answer "locked"; a new reopen makes the term open at that very step. `EntriesOrdered` ties times to the order
of events: stamps lie in the past, and a reopen that is strictly newer than the close also came last, which is where
"ties go to the close" is used. `TermKnown` keeps the term of a marking request begun, and `TouchedMarked` keeps what it logs to what it wrote.

*Why nobody slips through a bill.* That an unbilled child came after the lists is not inductive while a list is under way.
`TargetsKnown` says of a request between its list and its insert that whoever the level has now is on the list or joined since, and
that it is alone with a fee that it creates. The set of targets grows in two ways only: an enrollment becomes active, or
a classroom is given the fee's level and year and brings its children. A lemma says so of every step (`Joined` is what it
brings), and the history variable `missed` collects exactly these.

*Why a session ends when it should.* Login and refresh read the user, the roles and their permissions in separate statements, and insert the session
last. So no invariant can say that the session fits the user as the user is now. `ReadsCurrent` says what can be said: what a request
has read of its user still holds, or the write that changed it has marked the request as overtaken. The insert carries this over to the
session (`SessionsCurrent`); deactivation and password change end every session they find, and thereby only those
that were in flight survive. `RolesCurrent` and `TokensExplained` do the same for roles and permissions.
`ParentsSpent` says that a session which is, or is about to be, refreshed into another is no longer live, which is why a live session of an inactive user
has no successors. `RefreshedOnce` and `ConfirmedOnce` say of a token which no two requests have read unused at the same time that one request at
most is working on it, and that before its first use. `IdsDense` keeps an insert from overwriting a row.

*Assumptions*: SQL NULL is not an id, a password or a reason of revocation; the seed has created a user and a role; `MaxAmount` is a positive integer; numbers in use are
naturals; the bounds are naturals; an academic year has at most four terms; what clients submit is well-formed; each fee has a level and a year, and amounts are positive;
a batch selects from finitely many enrollments; of the fee reports, that terms are finitely many numbers, and the tables they sum over finite; of those of attendance, that children and days are finitely many, and days numbers; of the histories of invoices, that there are finitely many ids to give. Each module names its own, and TLC evaluates them in its runs.

*Only model-checked*: liveness (`EveryRequestReturns`, `SettledUnlessStranded`), which is out of the prover's reach, as ENABLED is. Of `MessageText` the price of a text is proved
about, the form of a phone number is not: `normaliseGhanaPhone` keeps the digits of what was typed with the recursive `SelectSeq`, and TLC evaluates it in the run `reminders`.

## 6. Not modelled

- `confirmAccountSetup`: it consumes tokens that no code issues. The cookies of the controller and the profile that `getMe` returns.
- Edits that no property can tell apart: names, e-mail addresses, labels, fee types, levels' names, the class teacher, the archive flags of
  reference data. They write one row, behind an index.
- Files, settings and the school profile: single-row writes and a file store. The settings that other modules read are their constants.
- The layout of the printed sheets and of invoices, and their HTML.
- Controllers, validation pipes, seeds and migrations. The permission guard is modelled as far as it reads the token; the unique indexes
  of the migrations appear as guards of the inserts.
- The connection pool: `generateNext` takes a second connection while it holds the first. An exhausted pool shows only as `Abort`.
- The upserts of two registers that wait for each other's rows: PostgreSQL ends one of them, which shows only as `Fail`.
- Who may mark which classroom, and the reads of the notification log.

## 7. Plan

What was written, the most important first:

1. `FeePayments` over `FeeLedger`; `DocumentNumbers`; `Invoices` over `InvoiceCover`; `FeeAssignments`, which composes
   payments and invoices; `Outbox`; `Register`, the terms and the attendance register, with the reopening that is read from the audit log;
   `Admissions` and `SchoolFees`, both over `Enrollments`.
2. `Sessions`: refresh rotation, logout, password change and reset, deactivation, roles and permissions against each other.
3. `GuardianLinks` and, over it, `Reminders`: the primary guardian, `canReceiveSms` and the batches against the withdrawal of consent.
4. What is computed: `MessageText` (phone normalisation, SMS segments), `FeeReporting` and `RegisterReports` (the reports), `InvoiceChain` (the history of a document).
5. `Classrooms` under `SchoolFees`: an edit that moves a class to another level or year.
6. Proofs of the ledger, its history, its refinement and its reports, of the edits next to it, the counter, invoices, their chains and their refinement, the
   outbox, links and reminders, the register and its reports, admissions, school fees and sessions.

What is left: the answers of `loadChain` beyond its limit, as an abstract specification of the history that a reader may expect there; the read-only listings that page
through invoices and messages; liveness, which stays with TLC.
