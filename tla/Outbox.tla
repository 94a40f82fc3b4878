-------------------------------- MODULE Outbox --------------------------------
(***************************************************************************)
(* The SMS outbox: NotificationsService.enqueue                            *)
(* (src/src/notifications/notifications.service.ts) writes rows of         *)
(* notification_messages behind the consent gate, NotificationsDispatcher  *)
(* (notifications.dispatcher.ts) claims and sends them, and                *)
(* GuardiansService (src/src/guardians/guardians.service.ts) grants and    *)
(* withdraws the consent.                                                  *)
(*                                                                         *)
(* The calls of enqueue run side by side, also within one dispatchBatch.   *)
(* `running` keeps two ticks of a process apart, but POST                  *)
(* /notifications/dispatch calls drainOnce past it, so there may be        *)
(* several pollers.  Bodies, phone numbers and the audit log of consent    *)
(* decisions and batches are left out: nothing here reads them.            *)
(***************************************************************************)
EXTENDS Integers, FiniteSets

CONSTANTS
    Guardians,      \* whom a message needs the consent of
    Staff,          \* logins that are not a guardian's: no consent applies
    Keys,           \* dedupe keys of the triggers
    Enqueuers,      \* the calls of enqueue that run at the same time
    Pollers,        \* the calls of drainOnce that run at the same time
    MaxMessages,    \* rows of notification_messages (a bound)
    BatchSize,      \* CLAIM_BATCH_SIZE
    None            \* SQL NULL

ASSUME RecipientAssumption == Guardians \cap Staff = {}
ASSUME NullAssumption == None \notin Guardians \cup Staff \cup Keys
ASSUME BoundAssumption == MaxMessages \in Nat /\ BatchSize \in Nat \ {0}

VARIABLES
    consent,        \* guardians with sms_consent_given
    messages,       \* the rows of notification_messages, in queued_at order
    call,           \* the locals of each enqueue, after resolveRecipient
    withdrawing,    \* guardians in revokeSmsConsent, past its check
    batch,          \* what each poller has claimed and not recorded yet
    handed,         \* how often each message was handed to the gateway,
                    \* which may have taken it whatever it reports
    unanswered,     \* how often it then said neither yes nor never
    stranded,       \* messages that were being sent when their poller failed
    consented       \* guardians who have ever consented

vars == <<consent, messages, call, withdrawing, batch, handed, unanswered,
          stranded, consented>>
-----------------------------------------------------------------------------
MAX_ATTEMPTS == 3

Recipients == Guardians \cup Staff
MessageIds == 1 .. MaxMessages

Statuses == {"queued", "sending", "sent", "failed", "cancelled", "suppressed"}
Final == {"sent", "failed", "suppressed"}

\* due: next_attempt_at is null, or not in the future.
Message == [status : Statuses, to : Recipients, dedupeKey : Keys \cup {None},
            attemptCount : 0 .. MAX_ATTEMPTS, due : BOOLEAN]
NoMessage == [status |-> "none", to |-> None, dedupeKey |-> None,
              attemptCount |-> 0, due |-> FALSE]

\* The row with another status, number of attempts and next_attempt_at.
Moved(row, status, attemptCount, due) ==
    [status |-> status, to |-> row.to, dedupeKey |-> row.dedupeKey,
     attemptCount |-> attemptCount, due |-> due]

Existing == {m \in MessageIds : messages[m] # NoMessage}

Call == [to : Recipients, dedupeKey : Keys \cup {None}, suppressed : BOOLEAN]
NoCall == [to |-> None, dedupeKey |-> None, suppressed |-> FALSE]

\* A claimed message as the poller holds it, with the gateway's answer.
Outcomes == {"accepted", "terminal_failure", "retryable_failure"}
Claimed == [id : MessageIds, attemptCount : 1 .. MAX_ATTEMPTS,
            outcome : Outcomes \cup {"unsent"}]

Init ==
    /\ consent = {}
    /\ messages = [m \in MessageIds |-> NoMessage]
    /\ call = [r \in Enqueuers |-> NoCall]
    /\ withdrawing = {}
    /\ batch = [p \in Pollers |-> {}]
    /\ handed = [m \in MessageIds |-> 0]
    /\ unanswered = [m \in MessageIds |-> 0]
    /\ stranded = {}
    /\ consented = {}

KeepConsent == UNCHANGED <<consent, withdrawing, consented>>
KeepGateway == UNCHANGED <<handed, unanswered, stranded>>
-----------------------------------------------------------------------------
\* Mutant of Resolve: a path of resolveRecipient that forgets the consent.
ResolveUnasked(r) ==
    /\ call[r] = NoCall
    /\ \E to \in Recipients, key \in Keys \cup {None}, refused \in BOOLEAN :
         call' = [call EXCEPT ![r] =
                    [to |-> to, dedupeKey |-> key, suppressed |-> refused]]
    /\ UNCHANGED <<messages, batch>>
    /\ KeepConsent /\ KeepGateway

\* resolveRecipient reads the consent.  Without it the outcome is suppressed;
\* with it, it may still be: no primary guardian, an archived one, a link that
\* may not be texted, a deactivated login, a number that cannot be normalised.
Resolve(r) ==
    /\ call[r] = NoCall
    /\ \E to \in Recipients, key \in Keys \cup {None}, refused \in BOOLEAN :
         call' = [call EXCEPT ![r] =
                    [to |-> to, dedupeKey |-> key,
                     suppressed |-> refused \/ to \in Guardians \ consent]]
    /\ UNCHANGED <<messages, batch>>
    /\ KeepConsent /\ KeepGateway

\* Mutant of Duplicate: the index uq_notification_dedupe was never created.
NoDedupeIndex(r) == FALSE

Duplicate(r) ==
    /\ call[r].dedupeKey # None
    /\ \E m \in Existing : messages[m].dedupeKey = call[r].dedupeKey

Row(c) ==
    [status |-> IF c.suppressed THEN "suppressed" ELSE "queued", to |-> c.to,
     dedupeKey |-> c.dedupeKey, attemptCount |-> 0, due |-> TRUE]

\* The insert of a queued or a suppressed row; uq_notification_dedupe turns a
\* second row with the key into the answer "duplicate".
InsertRow(r) ==
    /\ call[r] # NoCall
    /\ IF Duplicate(r)
       THEN UNCHANGED messages
       ELSE /\ Cardinality(Existing) < MaxMessages
            /\ messages' =
                 [messages EXCEPT ![Cardinality(Existing) + 1] = Row(call[r])]
    /\ call' = [call EXCEPT ![r] = NoCall]
    /\ UNCHANGED batch
    /\ KeepConsent /\ KeepGateway

\* A statement of enqueue fails, or the process ends: there is no row.
EnqueueFails(r) ==
    /\ call[r] # NoCall
    /\ call' = [call EXCEPT ![r] = NoCall]
    /\ UNCHANGED <<messages, batch>>
    /\ KeepConsent /\ KeepGateway
-----------------------------------------------------------------------------
\* grantSmsConsent.
Grant(g) ==
    /\ consent' = consent \cup {g}
    /\ consented' = consented \cup {g}
    /\ UNCHANGED <<messages, call, withdrawing, batch>>
    /\ KeepGateway

\* revokeSmsConsent: the check is a read of its own, before the transaction.
WithdrawStart(g) ==
    /\ g \in consent
    /\ withdrawing' = withdrawing \cup {g}
    /\ UNCHANGED <<consent, consented, messages, call, batch>>
    /\ KeepGateway

\* Mutant of CancelledFor: no condition on the status.
CancelledAnyway(g, row) ==
    IF row.to = g THEN Moved(row, "cancelled", row.attemptCount, TRUE)
    ELSE row

CancelledFor(g, row) ==
    IF row.to = g /\ row.status \in {"queued", "sending"}
    THEN Moved(row, "cancelled", row.attemptCount, TRUE)
    ELSE row

\* The transaction: no consent, and what waits in the outbox is cancelled.
Withdraw(g) ==
    /\ g \in withdrawing
    /\ withdrawing' = withdrawing \ {g}
    /\ consent' = consent \ {g}
    /\ messages' = [m \in MessageIds |-> CancelledFor(g, messages[m])]
    /\ UNCHANGED <<call, batch, consented>>
    /\ KeepGateway

WithdrawFails(g) ==
    /\ g \in withdrawing
    /\ withdrawing' = withdrawing \ {g}
    /\ UNCHANGED <<consent, consented, messages, call, batch>>
    /\ KeepGateway
-----------------------------------------------------------------------------
\* Mutant of Due: rows that were left in `sending` are picked up again.
DueOrSending ==
    {m \in Existing : messages[m].status \in {"queued", "sending"}
                         /\ messages[m].due}

Due == {m \in Existing : messages[m].status = "queued" /\ messages[m].due}

\* claim: one transaction.  It takes the oldest due rows but for those that
\* others have locked (SKIP LOCKED), and whoever holds them may yet roll back:
\* no order between messages can be relied on, and none is kept here.
Claim(p) ==
    /\ batch[p] = {}
    /\ \E ids \in SUBSET Due :
         /\ Cardinality(ids) \in 1 .. BatchSize
         /\ messages' = [m \in MessageIds |->
              IF m \in ids
              THEN Moved(messages[m], "sending",
                         messages[m].attemptCount + 1, TRUE)
              ELSE messages[m]]
         /\ batch' = [batch EXCEPT ![p] =
              {[id |-> m, attemptCount |-> messages[m].attemptCount + 1,
                outcome |-> "unsent"] : m \in ids}]
    /\ UNCHANGED call
    /\ KeepConsent /\ KeepGateway

Ids(b) == {c.id : c \in b}

\* gateway.send, with the whole batch.  A message of which it reports nothing,
\* and every message when it throws, counts as a retryable failure.  Then, as
\* after a timeout that it reports, the gateway may have taken it all the same.
Send(p) ==
    /\ batch[p] # {}
    /\ \A c \in batch[p] : c.outcome = "unsent"
    /\ \E outcome \in [Ids(batch[p]) -> Outcomes] :
         /\ batch' = [batch EXCEPT ![p] =
              {[id |-> c.id, attemptCount |-> c.attemptCount,
                outcome |-> outcome[c.id]] : c \in batch[p]}]
         /\ unanswered' = [m \in MessageIds |->
              IF m \in Ids(batch[p]) /\ outcome[m] = "retryable_failure"
              THEN unanswered[m] + 1 ELSE unanswered[m]]
    /\ handed' = [m \in MessageIds |->
         IF m \in Ids(batch[p]) THEN handed[m] + 1 ELSE handed[m]]
    /\ UNCHANGED <<messages, call, stranded>>
    /\ KeepConsent

\* Mutant of StatusAfter: a retryable failure is counted, and not written.
NotRequeued(c) ==
    CASE c.outcome = "accepted" -> "sent"
      [] c.outcome = "terminal_failure" -> "failed"
      [] c.outcome = "retryable_failure" ->
           IF c.attemptCount >= MAX_ATTEMPTS THEN "failed" ELSE "sending"

\* Where an outcome sends its row; attempts are those that the claim read.
StatusAfter(c) ==
    CASE c.outcome = "accepted" -> "sent"
      [] c.outcome = "terminal_failure" -> "failed"
      [] c.outcome = "retryable_failure" ->
           IF c.attemptCount >= MAX_ATTEMPTS THEN "failed" ELSE "queued"

\* One update by id for each message of the batch, whatever the row's status
\* is by then; a retry is due after its backoff.
Record(p) ==
    \E c \in batch[p] :
        /\ c.outcome # "unsent"
        /\ messages' = [messages EXCEPT ![c.id] =
             Moved(@, StatusAfter(c), @.attemptCount,
                   StatusAfter(c) # "queued")]
        /\ batch' = [batch EXCEPT ![p] = @ \ {c}]
        /\ UNCHANGED call
        /\ KeepConsent /\ KeepGateway

\* BACKOFF_MS have passed.
BackoffElapses(m) ==
    /\ messages[m].status = "queued"
    /\ ~messages[m].due
    /\ messages' = [messages EXCEPT ![m] =
         Moved(@, "queued", @.attemptCount, TRUE)]
    /\ UNCHANGED <<call, batch>>
    /\ KeepConsent /\ KeepGateway

\* Mutant of PollerFails: the batch is put back, and its attempts refunded.
PollerPutsBack(p) ==
    /\ batch[p] # {}
    /\ batch' = [batch EXCEPT ![p] = {}]
    /\ messages' = [m \in MessageIds |->
         IF m \in Ids(batch[p])
         THEN [messages[m] EXCEPT !.status = "queued", !.attemptCount = @ - 1]
         ELSE messages[m]]
    /\ UNCHANGED <<call, handed, unanswered, stranded>>
    /\ KeepConsent

\* The process ends, or an update of the loop throws: drainOnce gives up the
\* rest of its batch, and the rows keep their status.
PollerFails(p) ==
    /\ batch[p] # {}
    /\ batch' = [batch EXCEPT ![p] = {}]
    /\ stranded' = stranded \cup
         {m \in Ids(batch[p]) : messages[m].status = "sending"}
    /\ UNCHANGED <<messages, call, handed, unanswered>>
    /\ KeepConsent
-----------------------------------------------------------------------------
Next ==
    \/ \E r \in Enqueuers : Resolve(r) \/ InsertRow(r) \/ EnqueueFails(r)
    \/ \E g \in Guardians :
         Grant(g) \/ WithdrawStart(g) \/ Withdraw(g) \/ WithdrawFails(g)
    \/ \E p \in Pollers : Claim(p) \/ Send(p) \/ Record(p) \/ PollerFails(p)
    \/ \E m \in MessageIds : BackoffElapses(m)

Spec == Init /\ [][Next]_vars

\* The interval timer ticks as long as the process lives, a batch that was
\* claimed is worked off, and time passes.
Fairness ==
    /\ \A p \in Pollers : WF_vars(Claim(p)) /\ WF_vars(Send(p) \/ Record(p))
    /\ \A m \in MessageIds : WF_vars(BackoffElapses(m))

FairSpec == Spec /\ Fairness
-----------------------------------------------------------------------------
\* The shape of the rows and of what each call holds.
TypeOK ==
    /\ consent \subseteq Guardians
    /\ consented \subseteq Guardians
    /\ withdrawing \subseteq Guardians
    /\ messages \in [MessageIds -> Message \cup {NoMessage}]
    /\ call \in [Enqueuers -> Call \cup {NoCall}]
    /\ batch \in [Pollers -> SUBSET Claimed]
    /\ handed \in [MessageIds -> Nat]
    /\ unanswered \in [MessageIds -> Nat]
    /\ stranded \subseteq MessageIds

\* "two pollers cannot claim the same row": what a poller holds is nobody
\* else's, is not waiting to be claimed, and still counts the attempts that
\* the claim read.
NoDoubleClaim ==
    \A p, q \in Pollers : \A c \in batch[p], d \in batch[q] :
        /\ c.id = d.id => p = q /\ c = d
        /\ messages[c.id].status \in {"sending", "cancelled"}
        /\ messages[c.id].attemptCount = c.attemptCount

\* "Maximum THREE attempts": however pollers, failures and withdrawals overlap,
\* the gateway, which may charge for each attempt, never sees a fourth.
AttemptsBounded ==
    \A m \in MessageIds :
        /\ handed[m] <= messages[m].attemptCount
        /\ messages[m].attemptCount <= MAX_ATTEMPTS

\* "nobody is charged twice for one message", but where the gateway left it
\* open whether it took it ("worst case a parent gets one message twice"): after
\* an acceptance, or a failure for good, no poller hands the message over again,
\* however withdrawals, crashes and records cross; and of two messages with the
\* same dedupe key it is handed one at most.
ChargedOnce ==
    \A m, n \in MessageIds :
        /\ handed[m] <= 1 + unanswered[m]
        /\ /\ handed[m] > 0 /\ handed[n] > 0
           /\ messages[m].dedupeKey = messages[n].dedupeKey
           => m = n \/ messages[m].dedupeKey = None

\* No guardian who has never consented is texted, by any trigger or retry.
SentWasConsented ==
    \A m \in MessageIds :
        handed[m] > 0 /\ messages[m].to \in Guardians
            => messages[m].to \in consented

\* The parts of the inductive invariant that the properties above rest on.
\* Rows are numbered in the order of their inserts.
RowsDense == \E n \in 0 .. MaxMessages : Existing = 1 .. n

\* A row that waits may still be tried.
AttemptsLeft ==
    \A m \in MessageIds :
        messages[m].status = "queued" => messages[m].attemptCount < MAX_ATTEMPTS

\* Every hand-over was counted by a claim first.
HandedCounted ==
    /\ \A m \in MessageIds : handed[m] <= messages[m].attemptCount
    /\ \A p \in Pollers : \A c \in batch[p] :
         c.outcome = "unsent" => handed[c.id] < c.attemptCount

\* What the gateway has answered for does not wait, and whoever holds it knows.
AnswerHeld ==
    \A m \in MessageIds :
        /\ handed[m] \in {unanswered[m], unanswered[m] + 1}
        /\ handed[m] > unanswered[m] =>
             /\ messages[m].status \in {"sending", "sent", "failed", "cancelled"}
             /\ \A p \in Pollers : \A c \in batch[p] :
                  c.id = m => c.outcome \in {"accepted", "terminal_failure"}

\* uq_notification_dedupe.
KeysUnique ==
    \A m, n \in Existing :
        messages[m].dedupeKey = messages[n].dedupeKey
            => m = n \/ messages[m].dedupeKey = None

\* What is on its way to a guardian comes from a call that found the consent.
ConsentAsked ==
    /\ consent \subseteq consented
    /\ \A r \in Enqueuers :
         call[r].to \in Guardians /\ ~call[r].suppressed
             => call[r].to \in consented
    /\ \A m \in MessageIds :
         messages[m].to \in Guardians /\ messages[m].status # "suppressed"
             => messages[m].to \in consented
    /\ \A m \in MessageIds :
         handed[m] > 0 => messages[m].status \notin {"none", "suppressed"}

OutboxInv ==
    /\ TypeOK /\ RowsDense /\ NoDoubleClaim /\ AttemptsLeft
    /\ HandedCounted /\ AnswerHeld /\ KeysUnique /\ ConsentAsked

\* What the log shows as sent, failed or suppressed is the last word on a
\* message: no late record, withdrawal or retry changes it.
OutcomeFinal ==
    [][\A m \in MessageIds :
         messages[m].status \in Final => messages'[m] = messages[m]]_vars

\* Every message comes to an outcome, unless a poller failed while the message
\* was being sent: nothing claims a `sending` row again.
SettledUnlessStranded ==
    \A m \in MessageIds :
        messages[m].status \in {"queued", "sending"} ~>
            messages[m].status \in Final \cup {"cancelled"} \/ m \in stranded

\* Withdrawing consent "takes effect on the NEXT send": no message to a
\* guardian starts being sent while the guardian does not consent.
WithdrawalRespected ==
    [][\A m \in MessageIds :
         /\ messages[m].status = "queued" /\ messages'[m].status = "sending"
         /\ messages[m].to \in Guardians
         => messages[m].to \in consent]_vars
=============================================================================
