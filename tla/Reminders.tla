------------------------------- MODULE Reminders -------------------------------
(***************************************************************************)
(* Fee reminders and absence alerts: NotificationsTriggers.feeReminders    *)
(* and absenceAlerts (src/src/notifications/notifications.triggers.ts)     *)
(* with NotificationsService.dispatchBatch and enqueue                     *)
(* (notifications.service.ts), next to the guardians, consents and links   *)
(* that they read (GuardianLinks).                                         *)
(*                                                                         *)
(* A batch reads once which enrollments owe, or are marked absent; then    *)
(* the calls of enqueue run side by side, one for each.  The key of the    *)
(* unique index uq_notification_dedupe is a student, a term and the day    *)
(* for a fee reminder, an enrollment and the date for an absence alert;    *)
(* the model is one day.  What becomes of a queued row is Outbox's, down   *)
(* to attempts and due times; here a poller claims it, records one of the  *)
(* outcomes or fails, and a withdrawal may come at any time between.       *)
(* Fees, registers and enrollments are left to their own modules: a batch  *)
(* may find any of them.                                                   *)
(***************************************************************************)
EXTENDS GuardianLinks, MessageText

CONSTANTS
    Batches,        \* calls of feeReminders and absenceAlerts
    Occasions,      \* fee_reminder for a term, attendance_absence for a date
    Reminding,      \* those of the Occasions that are fee reminders
    Enrollments,    \* a student may have had several in a year
    StudentOf,      \* whose each of them is
    Templates,      \* the wordings that the school may have set
    ValuesOf        \* what the values of the template add for each of them

ASSUME TextAssumption ==
    /\ Templates \subseteq Text
    /\ ValuesOf \in [Enrollments -> Text]
ASSUME PhoneAssumption == Phones \subseteq Typed
ASSUME EnrollmentsAssumption ==
    IsFiniteSet(Enrollments) /\ StudentOf \in [Enrollments -> Students]

VARIABLES
    batch,          \* the locals of each batch
    call,           \* the locals of each enqueue, by batch and enrollment
    outbox,         \* the rows of notification_messages
    log             \* the entries notifications.dispatched

reminderVars == <<batch, call, outbox, log>>
vars == <<guardian, link, req, withdrawing, lapsed, batch, call, outbox, log>>
-----------------------------------------------------------------------------
Calls == Batches \X Enrollments
BatchOf(c) == c[1]
Enrollment(c) == c[2]
Child(c) == StudentOf[Enrollment(c)]

\* dedupeKey, but for the day.
Key(occasion, e) ==
    IF occasion \in Reminding THEN <<occasion, StudentOf[e]>>
    ELSE <<occasion, e>>

\* enrollments: the requests of the batch.
Batch == [pc : {"enqueue", "done", "failed"}, occasion : Occasions,
          enrollments : SUBSET Enrollments]
NoBatch == [pc |-> "new", occasion |-> None, enrollments |-> {}]

\* to: the resolved guardian, None when the outcome is suppressed.
\* withdrawn: the consent was withdrawn since it was read.
Call == [pc : {"resolve", "insert", "queued", "suppressed", "duplicate",
               "failed"},
         to : Guardians \cup {None}, withdrawn : BOOLEAN]
NoCall == [pc |-> "none", to |-> None, withdrawn |-> FALSE]
Answered == {"queued", "suppressed", "duplicate"}

\* The row of a call.  claimed: a poller has it and will record an outcome of it.
\* withdrawn: consent went while enqueue, or a poller, was at work on the row.
Row == [call : Calls, occasion : Occasions,
        status : {"queued", "sending", "sent", "failed", "cancelled",
                  "suppressed"},
        to : Guardians \cup {None}, body : Text, segments : Nat,
        claimed : BOOLEAN, withdrawn : BOOLEAN]
KeyOf(row) == Key(row.occasion, Enrollment(row.call))

Entry == [requested : Nat, queued : Nat, suppressed : Nat, duplicates : Nat]
NoEntry == [requested |-> 0, queued |-> 0, suppressed |-> 0, duplicates |-> 0]

Init ==
    /\ LinksInit
    /\ batch = [b \in Batches |-> NoBatch]
    /\ call = [c \in Calls |-> NoCall]
    /\ outbox = {}
    /\ log = [b \in Batches |-> NoEntry]
-----------------------------------------------------------------------------
\* The requests of feeReminders, for one student, a level or the school, or of
\* absenceAlerts, for a classroom: what owes and is marked absent changes all
\* the time, so it may be any of the enrollments.  They are active, and of a
\* student one at most is (uq_one_active_enrollment_per_student_year).  When
\* there are none there is no batch.
Select(b, occasion, enrollments) ==
    /\ batch[b] = NoBatch
    /\ enrollments # {}
    /\ \A e, f \in enrollments : StudentOf[e] = StudentOf[f] => e = f
    /\ batch' = [batch EXCEPT ![b] = [pc |-> "enqueue", occasion |-> occasion,
                                      enrollments |-> enrollments]]
    /\ call' = [c \in Calls |->
                  IF BatchOf(c) = b /\ Enrollment(c) \in enrollments
                  THEN [NoCall EXCEPT !.pc = "resolve"] ELSE call[c]]
    /\ UNCHANGED <<linkVars, outbox, log>>

\* The primary guardian of a student, if it consents, its link may be texted,
\* it is not archived and its number is one that a message can reach.
Recipients(s) ==
    {GuardianOf(pair) : pair \in {p \in PrimaryOf(s) :
        /\ guardian[GuardianOf(p)].consent
        /\ link[p].sms = TRUE
        /\ ~guardian[GuardianOf(p)].archived
        /\ normaliseGhanaPhone(guardian[GuardianOf(p)].phone) # NoNumber}}

\* resolveRecipient.  The link and its guardian are two reads; a link that may
\* be texted and a consent are both needed, whichever is read first.
Resolve(c) ==
    /\ call[c].pc = "resolve"
    /\ call' = [call EXCEPT ![c] =
                  [pc |-> "insert", withdrawn |-> FALSE,
                   to |-> IF Recipients(Child(c)) = {} THEN None
                          ELSE CHOOSE g \in Recipients(Child(c)) : TRUE]]
    /\ UNCHANGED <<linkVars, batch, outbox, log>>

\* Mutant of Duplicate: the key is looked up among the rows to be sent.
DuplicateQueued(occasion, e) ==
    \E row \in outbox : KeyOf(row) = Key(occasion, e) /\ row.status = "queued"

\* uq_notification_dedupe: a suppressed row holds its key as any other.
Duplicate(occasion, e) ==
    \E row \in outbox : KeyOf(row) = Key(occasion, e)

\* The rest of enqueue, and writeSuppressed: the body in the wording of the
\* moment and its price, and the row, or the answer "duplicate".
Insert(c) ==
    LET b == BatchOf(c)
        outcome == IF Duplicate(batch[b].occasion, Enrollment(c))
                   THEN "duplicate"
                   ELSE IF call[c].to = None THEN "suppressed" ELSE "queued" IN
    /\ call[c].pc = "insert"
    /\ call' = [call EXCEPT ![c] = [NoCall EXCEPT !.pc = outcome]]
    /\ \E template \in Templates :
         LET body ==
               degradeToGsm7(renderTemplate(template, ValuesOf[Enrollment(c)]))
         IN outbox' =
              IF outcome = "duplicate" THEN outbox
              ELSE outbox \cup
                   {[call |-> c, occasion |-> batch[b].occasion,
                     status |-> outcome, to |-> call[c].to, body |-> body,
                     segments |-> analyseSms(body), claimed |-> FALSE,
                     withdrawn |-> call[c].withdrawn]}
    /\ UNCHANGED <<linkVars, batch, log>>

\* A statement of enqueue fails.  The calls next to it go on.
CallFails(c) ==
    /\ call[c].pc \in {"resolve", "insert"}
    /\ call' = [call EXCEPT ![c] = [NoCall EXCEPT !.pc = "failed"]]
    /\ UNCHANGED <<linkVars, batch, outbox, log>>

CallsOf(b) == {b} \X batch[b].enrollments
Outcomes(b, outcome) == {c \in CallsOf(b) : call[c].pc = outcome}

Counts(b) ==
    [requested |-> Cardinality(batch[b].enrollments),
     queued |-> Cardinality(Outcomes(b, "queued")),
     suppressed |-> Cardinality(Outcomes(b, "suppressed")),
     duplicates |-> Cardinality(Outcomes(b, "duplicate"))]

\* dispatchBatch: Promise.all has every answer, and one entry is written.
Dispatched(b) ==
    /\ batch[b].pc = "enqueue"
    /\ \A c \in CallsOf(b) : call[c].pc \in Answered
    /\ log' = [log EXCEPT ![b] = Counts(b)]
    /\ batch' = [batch EXCEPT ![b].pc = "done"]
    /\ UNCHANGED <<linkVars, call, outbox>>

\* Promise.all gives up with the first call that fails, or the entry cannot be
\* written: there is none, and the rows stay.
BatchFails(b) ==
    /\ batch[b].pc = "enqueue"
    /\ \A c \in CallsOf(b) : call[c].pc \in Answered \cup {"failed"}
    /\ batch' = [batch EXCEPT ![b].pc = "failed"]
    /\ UNCHANGED <<linkVars, call, outbox, log>>

\* The row with another status, and with or without a poller that holds it.
Moved(row, status, claimed) ==
    outbox' = (outbox \ {row})
                \cup {[row EXCEPT !.status = status, !.claimed = claimed]}

\* NotificationsDispatcher.claim.
Claim(row) ==
    /\ row.status = "queued"
    /\ Moved(row, "sending", TRUE)
    /\ UNCHANGED <<linkVars, batch, call, log>>

\* drainOnce: the gateway's answer, or a failure to be tried again or given up.
\* The update is by id: the row may have been cancelled by then.
Record(row) ==
    /\ row.claimed
    /\ \E status \in {"sent", "failed", "queued"} : Moved(row, status, FALSE)
    /\ UNCHANGED <<linkVars, batch, call, log>>

\* The process ends, or an update of the loop throws, and the row stays.
PollerFails(row) ==
    /\ row.claimed
    /\ Moved(row, row.status, FALSE)
    /\ UNCHANGED <<linkVars, batch, call, log>>

\* Mutant of CancelledFor: a withdrawal leaves the outbox alone.
CancelledLater(g, row) == row

CancelledFor(g, row) ==
    IF row.to = g /\ row.status \in {"queued", "sending"}
    THEN [row EXCEPT !.status = "cancelled", !.withdrawn = row.claimed]
    ELSE row

\* revokeSmsConsent, with what it cancels in the outbox.
WithdrawConsent(g) ==
    /\ Withdraw(g)
    /\ outbox' = {CancelledFor(g, row) : row \in outbox}
    /\ call' = [c \in Calls |->
                  IF call[c].to = g THEN [call[c] EXCEPT !.withdrawn = TRUE]
                  ELSE call[c]]
    /\ UNCHANGED <<batch, log>>
-----------------------------------------------------------------------------
LinkStep ==
    /\ \/ \E r \in Requests : LinkRequest(r)
       \/ \E g \in Guardians, phone \in Phones :
            CreateGuardian(g, phone) \/ UpdatePhone(g, phone)
       \/ \E g \in Guardians :
            Archive(g) \/ Restore(g) \/ Grant(g) \/ WithdrawStart(g)
            \/ WithdrawFails(g)
       \/ \E pair \in Pairs : Unlink(pair)
    /\ UNCHANGED reminderVars

Next ==
    \/ LinkStep
    \/ \E g \in Guardians : WithdrawConsent(g)
    \/ \E b \in Batches, occasion \in Occasions :
         \E enrollments \in SUBSET Enrollments : Select(b, occasion, enrollments)
    \/ \E c \in Calls : Resolve(c) \/ Insert(c) \/ CallFails(c)
    \/ \E b \in Batches : Dispatched(b) \/ BatchFails(b)
    \/ \E row \in outbox : Claim(row) \/ Record(row) \/ PollerFails(row)

Spec == Init /\ [][Next]_vars
-----------------------------------------------------------------------------
TypeOK ==
    /\ LinksTypeOK
    /\ batch \in [Batches -> Batch \cup {NoBatch}]
    /\ call \in [Calls -> Call \cup {NoCall}]
    /\ outbox \subseteq Row
    /\ log \in [Batches -> Entry \cup {NoEntry}]

\* What is on record for a child: of its fee, or of one enrollment's absence.
RowsFor(occasion, e) ==
    {row \in outbox :
        /\ row.occasion = occasion
        /\ IF occasion \in Reminding THEN Child(row.call) = StudentOf[e]
           ELSE Enrollment(row.call) = e}

\* Of the batches of a day that select a student who owes, or an enrollment
\* that is absent, whatever of them fails or overlaps, one at most leaves a row
\* (a child that moves to another track between two batches may have an alert
\* for each of its enrollments); an entry that was written accounts for all that
\* was requested, names as many rows as the batch has made, and everyone in it
\* has a row, made by this batch or by another.
BatchAccounted ==
    /\ \A occasion \in Occasions, e \in Enrollments :
         Cardinality(RowsFor(occasion, e)) <= 1
    /\ \A b \in Batches :
         batch[b].pc = "done" =>
           /\ log[b].requested
                = log[b].queued + log[b].suppressed + log[b].duplicates
           /\ log[b].queued + log[b].suppressed
                = Cardinality({row \in outbox : BatchOf(row.call) = b})
           /\ \A e \in batch[b].enrollments : RowsFor(batch[b].occasion, e) # {}

\* Withdrawing consent cancels all that waits or is being sent, and it stays
\* cancelled, but for two cases: the withdrawal came between the two statements
\* of enqueue for that very row, or while a poller had it claimed, whose failure
\* to send it then put it back.
WithdrawnIsSilent ==
    \A row \in outbox :
        row.status = "queued" => guardian[row.to].consent \/ row.withdrawn

\* How many characters a number of segments holds.
Capacity(body, segments) ==
    IF FitsGsm7(body) THEN IF segments = 1 THEN 160 ELSE 153 * segments
    ELSE IF segments = 1 THEN 70 ELSE 67 * segments

\* The price on record is the least number of segments that hold what is sent,
\* in the alphabet that the degraded body needs.
PricedAsSent ==
    \A row \in outbox :
        LET length == IF FitsGsm7(row.body) THEN Gsm7Length(row.body)
                      ELSE Ucs2Length(row.body) IN
        /\ row.segments >= 1 /\ length <= Capacity(row.body, row.segments)
        /\ row.segments > 1 => length > Capacity(row.body, row.segments - 1)

\* "One alert per child per day".  It does not hold: the key of an absence alert
\* is an enrollment, and a child that moves to another track the same day is
\* marked absent there too.
OneAlertPerChild ==
    \A p, q \in outbox :
        p.occasion = q.occasion /\ Child(p.call) = Child(q.call) => p = q

\* The inductive strengthening of the four: no two rows have the same key, a
\* call has left the row it says it has, a row belongs to a call that says so
\* and has the price of its body, and what was counted does not change.
KeysDistinct ==
    \A p, q \in outbox : KeyOf(p) = KeyOf(q) => p = q

CallsKnown ==
    \A c \in Calls :
        /\ call[c].pc # "none" =>
             /\ batch[BatchOf(c)] # NoBatch
             /\ Enrollment(c) \in batch[BatchOf(c)].enrollments
        /\ call[c].pc \in {"queued", "suppressed"} =>
             \E row \in outbox : row.call = c
        /\ call[c].pc = "duplicate" =>
             Duplicate(batch[BatchOf(c)].occasion, Enrollment(c))

ConsentRead ==
    \A c \in Calls : call[c].to # None =>
        guardian[call[c].to].consent \/ call[c].withdrawn

\* What waits, and what a poller may yet put back.
Pending(row) == row.status = "queued" \/ row.claimed

RowsKnown ==
    \A row \in outbox :
        /\ call[row.call].pc \in {"queued", "suppressed"}
        /\ row.occasion = batch[BatchOf(row.call)].occasion
        /\ row.segments = analyseSms(row.body)
        /\ Pending(row) => row.to \in Guardians

\* It has the consent, or the excuse; what is cancelled under a poller has the
\* excuse even if the consent is given again.
ConsentHeld ==
    \A row \in outbox :
        /\ Pending(row) => guardian[row.to].consent \/ row.withdrawn
        /\ row.claimed => \/ row.status = "sending"
                          \/ row.status = "cancelled" /\ row.withdrawn

DoneCounted ==
    \A b \in Batches : batch[b].pc = "done" =>
        /\ \A c \in CallsOf(b) : call[c].pc \in Answered
        /\ log[b] = Counts(b)

RemindersInv ==
    /\ TypeOK /\ LinksKnown /\ SmsHasConsent
    /\ KeysDistinct /\ CallsKnown /\ RowsKnown /\ DoneCounted
    /\ ConsentRead /\ ConsentHeld
=============================================================================
