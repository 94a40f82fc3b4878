------------------------------- MODULE Register -------------------------------
(***************************************************************************)
(* The attendance register of a classroom and the terms that lock it:      *)
(* AttendanceService (src/src/attendance/attendance.service.ts) and        *)
(* TermsService (src/src/terms/terms.service.ts).                          *)
(*                                                                         *)
(* There is no `reopened` column.  Whether a closed term can be written to *)
(* is read from the audit log: the newest attendance.term_reopened entry   *)
(* against the newest terms.closed entry, by created_at, where two entries *)
(* may carry the same time.  close() changes the status and writes its     *)
(* entry in two statements without a transaction.                          *)
(*                                                                         *)
(* Who may mark which classroom, the reasons beside the statuses, the      *)
(* renumbering of a term and its move to another year, and the entries     *)
(* that nothing reads (terms.created, .updated, .activated) are left out.  *)
(***************************************************************************)
EXTENDS AttendanceReporting

CONSTANTS
    Terms,          \* the terms of the academic year, by term_number
    Dates,          \* days, as numbers
    Today,          \* the last day that is not in the future
    Enrollments,    \* the enrollments in the classroom
    Movers,         \* those that are withdrawn and taken up again meanwhile
    Payloads,       \* what a client may submit: a mark for some enrollments
    Requests,       \* the requests that run at the same time
    MaxTime,        \* the last created_at (a bound)
    None,           \* SQL NULL
    Omitted         \* a mark that does not state its afternoon

ASSUME MoversAssumption == Movers \subseteq Enrollments
ASSUME TermsAssumption == Terms \subseteq 1 .. 4
ASSUME PayloadsAssumption ==
    \A marks \in Payloads : \E es \in SUBSET Enrollments :
        marks \in [es -> [am : AttendanceStatuses,
                          pm : AttendanceStatuses \cup {Omitted}]]
ASSUME OmittedAssumption == Omitted \notin AttendanceStatuses
ASSUME TimeAssumption == MaxTime \in Nat \ {0}
ASSUME NullAssumption == None \notin 0 .. MaxTime \cup Requests \cup Dates

VARIABLES
    status,         \* of each term
    covers,         \* the days from start_date to end_date of each term
    active,         \* enrollments with status active
    register,       \* the attendance records, by enrollment and date
    reopenedAt,     \* newest attendance.term_reopened entry per term, 0: none
    closedAt,       \* newest terms.closed entry per term, 0: none
    clock,          \* the database's time
    rowLock,        \* who holds each row of the register
    req,            \* the locals of each request
    lastEntry,      \* ghost: which of the two entries came last, per term
    reopenedSince,  \* ghost: a reopening came after the last change to closed
    closeLost,      \* ghost: a close ended between its status and its entry
    sawOpen,        \* ghost: requests whose term was writable since they asked
    teller          \* ghost: who has yet to log the value of each row

ghosts == <<lastEntry, reopenedSince, closeLost, teller>>
terms == <<status, covers, reopenedAt, closedAt>>
vars == <<terms, active, register, clock, rowLock, req, ghosts, sawOpen>>
-----------------------------------------------------------------------------
\* @@unique([enrollmentId, attendanceDate]): one row per pair.
Slots == Enrollments \X Dates

NoRow == [s \in Sessions |-> None]

NoMarks == [e \in {} |-> None]

\* The locals of a request that has got as far as pc and read nothing more.
Locals(pc, t, date, marks) ==
    [pc |-> pc, term |-> t, date |-> date, marks |-> marks,
     reopened |-> None, closed |-> None, created |-> {}, amended |-> {},
     todo |-> {}]
Idle == Locals("idle", None, None, NoMarks)

Init ==
    /\ status = [t \in Terms |-> "none"]
    /\ covers = [t \in Terms |-> {}]
    /\ active = Enrollments
    /\ register = [s \in Slots |-> NoRow]
    /\ reopenedAt = [t \in Terms |-> 0]
    /\ closedAt = [t \in Terms |-> 0]
    /\ clock = 1
    /\ rowLock = [s \in Slots |-> None]
    /\ req = [r \in Requests |-> Idle]
    /\ lastEntry = [t \in Terms |-> "none"]
    /\ reopenedSince = [t \in Terms |-> FALSE]
    /\ closeLost = [t \in Terms |-> FALSE]
    /\ sawOpen = {}
    /\ teller = [s \in Slots |-> "told"]

\* The answer of the request, whatever it is: the locals are gone.
Return(r) == req' = [req EXCEPT ![r] = Idle]

\* The order of the entries, not their times, says whether a term is open.
Writable(t) ==
    \/ status[t] = "active"
    \/ status[t] = "closed" /\ lastEntry[t] = "reopened"

Marking(r) == req[r].date # None
MarkingOpen(r) == Marking(r) /\ Writable(req[r].term)

\* Keeps the ghost sawOpen along; a conjunct of every action.
Watch ==
    sawOpen' = {r \in Requests :
                  Marking(r)' /\ (r \in sawOpen \/ MarkingOpen(r)')}

KeepRegister == UNCHANGED <<register, rowLock, active>>
KeepTerms == UNCHANGED terms
-----------------------------------------------------------------------------
(* Terms *)

\* Days between a start_date and a later end_date (chk_term_dates).
Ranges == {{d \in Dates : a <= d /\ d <= b} : a, b \in Dates}

CreateTerm(t) ==
    /\ status[t] = "none"
    /\ status' = [status EXCEPT ![t] = "draft"]
    /\ \E days \in Ranges : covers' = [covers EXCEPT ![t] = days]
    /\ UNCHANGED <<reopenedAt, closedAt, clock, req, ghosts>>
    /\ KeepRegister /\ Watch

\* Any term may be moved, to days of another term as well: nothing looks at
\* the status or at overlaps.
UpdateTerm(t) ==
    /\ status[t] # "none"
    /\ \E days \in Ranges : covers' = [covers EXCEPT ![t] = days]
    /\ UNCHANGED <<status, reopenedAt, closedAt, clock, req, ghosts>>
    /\ KeepRegister /\ Watch

\* A closed term may be activated again.  uq_one_active_term_per_school
\* refuses a second active term.
Activate(t) ==
    /\ status[t] # "none"
    /\ \A u \in Terms \ {t} : status[u] # "active"
    /\ status' = [status EXCEPT ![t] = "active"]
    /\ UNCHANGED <<covers, reopenedAt, closedAt, clock, req, ghosts>>
    /\ KeepRegister /\ Watch

\* close: the update.  It does not look at the status.
CloseTerm(r, t) ==
    /\ req[r].pc = "idle" /\ status[t] # "none"
    /\ status' = [status EXCEPT ![t] = "closed"]
    /\ req' = [req EXCEPT ![r] = Locals("logClose", t, None, NoMarks)]
    /\ reopenedSince' = [reopenedSince EXCEPT ![t] = FALSE]
    /\ UNCHANGED <<covers, reopenedAt, closedAt, clock, lastEntry, closeLost,
                   teller>>
    /\ KeepRegister /\ Watch

\* Mutant of LogClose: a term is closed once, so only the first is logged.
LogFirstClose(r) ==
    LET t == req[r].term IN
    /\ req[r].pc = "logClose"
    /\ closedAt' = [closedAt EXCEPT ![t] = IF @ = 0 THEN clock ELSE @]
    /\ lastEntry' = [lastEntry EXCEPT ![t] = "closed"]
    /\ closeLost' = [closeLost EXCEPT ![t] = FALSE]
    /\ Return(r)
    /\ UNCHANGED <<status, covers, reopenedAt, clock, reopenedSince, teller>>
    /\ KeepRegister /\ Watch

\* close: the entry that locks the register.
LogClose(r) ==
    LET t == req[r].term IN
    /\ req[r].pc = "logClose"
    /\ closedAt' = [closedAt EXCEPT ![t] = clock]
    /\ lastEntry' = [lastEntry EXCEPT ![t] = "closed"]
    /\ closeLost' = [closeLost EXCEPT ![t] = FALSE]
    /\ Return(r)
    /\ UNCHANGED <<status, covers, reopenedAt, clock, reopenedSince, teller>>
    /\ KeepRegister /\ Watch
-----------------------------------------------------------------------------
(* The lock *)

\* Mutant of isReopened: a tie goes to the reopening.
isReopenedOnTie(reopened, closed) == reopened # 0 /\ reopened >= closed

\* "Ties go to the close: locked is the safe default."
isReopened(reopened, closed) ==
    reopened # 0 /\ (closed = 0 \/ reopened > closed)

\* The two queries of isReopened run side by side.
ReadReopened(r) ==
    /\ req[r].pc \in {"markLock", "reopenLock"} /\ req[r].reopened = None
    /\ req' = [req EXCEPT ![r].reopened = reopenedAt[req[r].term]]
    /\ UNCHANGED <<clock, ghosts>> /\ KeepTerms /\ KeepRegister /\ Watch

ReadClosed(r) ==
    /\ req[r].pc \in {"markLock", "reopenLock"} /\ req[r].closed = None
    /\ req' = [req EXCEPT ![r].closed = closedAt[req[r].term]]
    /\ UNCHANGED <<clock, ghosts>> /\ KeepTerms /\ KeepRegister /\ Watch

BothRead(r) == req[r].reopened # None /\ req[r].closed # None
SaysReopened(r) == BothRead(r) /\ isReopened(req[r].reopened, req[r].closed)
SaysLocked(r) == BothRead(r) /\ ~isReopened(req[r].reopened, req[r].closed)

\* reopenTerm: the role and the status, then isReopened.
ReopenStart(r, t) ==
    /\ req[r].pc = "idle" /\ status[t] = "closed"
    /\ req' = [req EXCEPT ![r] = Locals("reopenLock", t, None, NoMarks)]
    /\ UNCHANGED <<clock, ghosts>> /\ KeepTerms /\ KeepRegister /\ Watch

\* The entry that unlocks the register, and nothing but the entry.
LogReopen(r) ==
    LET t == req[r].term IN
    /\ req[r].pc = "reopenLock" /\ SaysLocked(r)
    /\ reopenedAt' = [reopenedAt EXCEPT ![t] = clock]
    /\ lastEntry' = [lastEntry EXCEPT ![t] = "reopened"]
    /\ reopenedSince' = [reopenedSince EXCEPT ![t] = TRUE]
    /\ Return(r)
    /\ UNCHANGED <<status, covers, closedAt, clock, closeLost, teller>>
    /\ KeepRegister /\ Watch

\* "Already reopened", or a closed term that is still locked.
Refuse(r) ==
    /\ \/ req[r].pc = "reopenLock" /\ SaysReopened(r)
       \/ req[r].pc = "markLock" /\ SaysLocked(r)
    /\ Return(r)
    /\ UNCHANGED <<clock, ghosts>> /\ KeepTerms /\ KeepRegister /\ Watch
-----------------------------------------------------------------------------
(* Marking a register *)

Covering(date) == {t \in Terms : status[t] # "none" /\ date \in covers[t]}

\* findTermForDate: the lowest term_number among those that cover the date.
IsTermFor(t, date) == t \in Covering(date) /\ \A u \in Covering(date) : t <= u

\* An omitted afternoon mirrors the morning, on create and on amend.
resolve(mark) ==
    [s \in Sessions |-> IF s = "am" \/ mark.pm = Omitted THEN mark.am
                        ELSE mark.pm]

\* The date, its term and the state of the term.
MarkStart(r, date, marks) ==
    /\ req[r].pc = "idle"
    /\ date <= Today
    /\ \E t \in Terms :
         /\ IsTermFor(t, date)
         /\ status[t] \in {"active", "closed"}
         /\ req' = [req EXCEPT ![r] =
                      Locals(IF status[t] = "active" THEN "roster"
                             ELSE "markLock", t, date, marks)]
    /\ UNCHANGED <<clock, ghosts>> /\ KeepTerms /\ KeepRegister /\ Watch

\* Every enrollment must be active, or the register is refused as a whole.
ReadRoster(r) ==
    /\ \/ req[r].pc = "roster"
       \/ req[r].pc = "markLock" /\ SaysReopened(r)
    /\ IF DOMAIN req[r].marks \subseteq active
       THEN req' = [req EXCEPT ![r].pc = "prior",
                               ![r].reopened = None, ![r].closed = None]
       ELSE Return(r)
    /\ UNCHANGED <<clock, ghosts>> /\ KeepTerms /\ KeepRegister /\ Watch

\* The rows on record now decide what is new and what is amended; a mark that
\* says what is on record already is left alone.
NewMarks(r) ==
    {e \in DOMAIN req[r].marks : register[<<e, req[r].date>>] = NoRow}
ChangedMarks(r) ==
    {e \in DOMAIN req[r].marks \ NewMarks(r) :
       register[<<e, req[r].date>>] # resolve(req[r].marks[e])}

ReadPrior(r) ==
    /\ req[r].pc = "prior"
    /\ req' = [req EXCEPT ![r] =
                 IF NewMarks(r) \cup ChangedMarks(r) = {}
                 THEN Idle
                 ELSE [@ EXCEPT !.pc = "upsert",
                                !.created = NewMarks(r),
                                !.amended = ChangedMarks(r),
                                !.todo = NewMarks(r) \cup ChangedMarks(r)]]
    /\ UNCHANGED <<clock, ghosts>> /\ KeepTerms /\ KeepRegister /\ Watch

ReleaseRows(r) ==
    rowLock' = [s \in Slots |-> IF rowLock[s] = r THEN None ELSE rowLock[s]]

Touched(r) == (req[r].created \cup req[r].amended) \X {req[r].date}

\* One upsert of the transaction, in the order of the payload, which may be
\* any.  INSERT ... ON CONFLICT DO UPDATE waits for whoever holds the row.
Upsert(r, e) ==
    /\ req[r].pc = "upsert" /\ e \in req[r].todo
    /\ rowLock[<<e, req[r].date>>] = None
    /\ rowLock' = [rowLock EXCEPT ![<<e, req[r].date>>] = r]
    /\ req' = [req EXCEPT ![r].todo = @ \ {e}]
    /\ UNCHANGED <<register, active, clock, ghosts>>
    /\ KeepTerms /\ Watch

\* All rows become visible at once.
Commit(r) ==
    /\ req[r].pc = "upsert" /\ req[r].todo = {}
    /\ register' = [s \in Slots |-> IF s \in Touched(r)
                                    THEN resolve(req[r].marks[s[1]])
                                    ELSE register[s]]
    /\ teller' = [s \in Slots |-> IF s \in Touched(r) THEN r ELSE teller[s]]
    /\ ReleaseRows(r)
    /\ req' = [req EXCEPT ![r].pc = IF req[r].created = {} THEN "logAmended"
                                    ELSE "logMarked"]
    /\ UNCHANGED <<active, clock, lastEntry, reopenedSince, closeLost>>
    /\ KeepTerms /\ Watch

Logged(r, es) ==
    teller' = [s \in Slots |-> IF teller[s] = r /\ s \in es \X {req[r].date}
                               THEN "told" ELSE teller[s]]

\* Mutant of LogMarked: one entry per request, so the amendments of a mixed
\* register go unlogged.
LogMarkedOnly(r) ==
    /\ req[r].pc = "logMarked"
    /\ Logged(r, req[r].created)
    /\ Return(r)
    /\ UNCHANGED <<clock, lastEntry, reopenedSince, closeLost>>
    /\ KeepTerms /\ KeepRegister /\ Watch

LogMarked(r) ==
    /\ req[r].pc = "logMarked"
    /\ Logged(r, req[r].created)
    /\ IF req[r].amended = {}
       THEN Return(r)
       ELSE req' = [req EXCEPT ![r].pc = "logAmended", ![r].created = {}]
    /\ UNCHANGED <<clock, lastEntry, reopenedSince, closeLost>>
    /\ KeepTerms /\ KeepRegister /\ Watch

LogAmended(r) ==
    /\ req[r].pc = "logAmended"
    /\ Logged(r, req[r].amended)
    /\ Return(r)
    /\ UNCHANGED <<clock, lastEntry, reopenedSince, closeLost>>
    /\ KeepTerms /\ KeepRegister /\ Watch
-----------------------------------------------------------------------------
(* Around the requests *)

\* EnrollmentsService.create, update and withdraw.
ChangeEnrollment(e) ==
    /\ active' = IF e \in active THEN active \ {e} ELSE active \cup {e}
    /\ UNCHANGED <<register, clock, rowLock, req, ghosts>>
    /\ KeepTerms /\ Watch

Tick ==
    /\ clock < MaxTime
    /\ clock' = clock + 1
    /\ UNCHANGED <<req, ghosts>> /\ KeepTerms /\ KeepRegister /\ Watch

\* The process ends, a statement fails, or the database picks the request as
\* the victim of a deadlock.  A transaction that has not committed leaves
\* nothing; an entry that was not written stays unwritten.
Fail(r) ==
    /\ req[r].pc # "idle"
    /\ ReleaseRows(r)
    /\ closeLost' = [t \in Terms |->
                       \/ closeLost[t]
                       \/ req[r].pc = "logClose" /\ req[r].term = t]
    /\ teller' = [s \in Slots |-> IF teller[s] = r THEN "lost" ELSE teller[s]]
    /\ Return(r)
    /\ UNCHANGED <<register, active, clock, lastEntry, reopenedSince>>
    /\ KeepTerms /\ Watch

Mark(r) ==
    \/ \E date \in Dates, marks \in Payloads : MarkStart(r, date, marks)
    \/ ReadRoster(r) \/ ReadPrior(r)
    \/ \E e \in Enrollments : Upsert(r, e)
    \/ Commit(r) \/ LogMarked(r) \/ LogAmended(r)

Lock(r) ==
    \/ \E t \in Terms : CloseTerm(r, t) \/ ReopenStart(r, t)
    \/ LogClose(r) \/ LogReopen(r)
    \/ ReadReopened(r) \/ ReadClosed(r) \/ Refuse(r)

Next ==
    \/ \E r \in Requests : Mark(r) \/ Lock(r) \/ Fail(r)
    \/ \E t \in Terms : CreateTerm(t) \/ UpdateTerm(t) \/ Activate(t)
    \/ \E e \in Movers : ChangeEnrollment(e)
    \/ Tick

Spec == Init /\ [][Next]_vars
-----------------------------------------------------------------------------
(* Properties *)

Request ==
    [pc : {"idle", "logClose", "reopenLock", "markLock", "roster", "prior",
           "upsert", "logMarked", "logAmended"},
     term : Terms \cup {None}, date : Dates \cup {None},
     marks : Payloads \cup {NoMarks},
     reopened : (0 .. MaxTime) \cup {None},
     closed : (0 .. MaxTime) \cup {None},
     created : SUBSET Enrollments, amended : SUBSET Enrollments,
     todo : SUBSET Enrollments]

Value == [Sessions -> AttendanceStatuses]

TypeOK ==
    /\ status \in [Terms -> {"none", "draft", "active", "closed"}]
    /\ covers \in [Terms -> SUBSET Dates]
    /\ active \subseteq Enrollments
    /\ register \in [Slots -> Value \cup {NoRow}]
    /\ reopenedAt \in [Terms -> 0 .. MaxTime]
    /\ closedAt \in [Terms -> 0 .. MaxTime]
    /\ clock \in 1 .. MaxTime
    /\ rowLock \in [Slots -> Requests \cup {None}]
    /\ req \in [Requests -> Request]
    /\ lastEntry \in [Terms -> {"none", "closed", "reopened"}]
    /\ reopenedSince \in [Terms -> BOOLEAN]
    /\ closeLost \in [Terms -> BOOLEAN]
    /\ sawOpen \subseteq Requests
    /\ teller \in [Slots -> Requests \cup {"told", "lost"}]

\* "Can this term's registers be written to right now?"  The answer is put
\* together from three reads at three moments.  Whoever is let through, the
\* term was open at some moment since the request began.
OpenWhileAsked ==
    \A r \in Requests :
        req[r].pc \in {"prior", "upsert", "logMarked", "logAmended"} =>
            r \in sawOpen

\* A closed term can be written to only if somebody reopened it since it was
\* last set to closed, however often it was reopened before; or a close stands
\* between its two statements, or failed there.
LockHolds ==
    \A t \in Terms :
        status[t] = "closed" /\ isReopened(reopenedAt[t], closedAt[t]) =>
            \/ reopenedSince[t]
            \/ closeLost[t]
            \/ \E r \in Requests : req[r].pc = "logClose" /\ req[r].term = t

\* Each value in the register was logged as it is, or whoever wrote it is
\* still about to log it, or failed before it could.
RegisterExplained ==
    \A s \in Slots :
        \/ teller[s] \in {"told", "lost"}
        \/ \E r \in Requests :
             /\ teller[s] = r
             /\ req[r].pc \in {"logMarked", "logAmended"}
             /\ s \in Touched(r)
             /\ register[s] = resolve(req[r].marks[s[1]])
-----------------------------------------------------------------------------
(* The inductive invariant: TypeOK, what the properties say, and what they
   rest on. *)

MarkPcs == {"markLock", "roster", "prior", "upsert", "logMarked", "logAmended"}

\* A term that a request works on exists; one that is marked has begun.
TermKnown ==
    \A r \in Requests :
        /\ req[r].pc # "idle" => req[r].term \in Terms
        /\ req[r].pc \in MarkPcs =>
             req[r].date \in Dates /\ status[req[r].term] \in {"active", "closed"}

\* Times are in the past, and a newer reopening is also the last entry.
EntriesOrdered ==
    \A t \in Terms :
        /\ reopenedAt[t] <= clock /\ closedAt[t] <= clock
        /\ isReopened(reopenedAt[t], closedAt[t]) => lastEntry[t] = "reopened"

\* What a request would read now, where it has not read yet.
WouldSayReopened(r) ==
    isReopened(IF req[r].reopened = None THEN reopenedAt[req[r].term]
               ELSE req[r].reopened,
               IF req[r].closed = None THEN closedAt[req[r].term]
               ELSE req[r].closed)

AnswerTrue ==
    \A r \in Requests :
        /\ req[r].pc = "markLock" /\ WouldSayReopened(r) => r \in sawOpen
        /\ req[r].pc = "roster" => r \in sawOpen

\* The rows of a transaction are among those marked; once the new rows are
\* logged, only the amended ones are left.
TouchedMarked ==
    \A r \in Requests :
        /\ req[r].created \cup req[r].amended \subseteq DOMAIN req[r].marks
        /\ req[r].pc = "logAmended" => req[r].created = {}

\* Nobody marks a day after today, and no such day is marked.
NothingAhead ==
    /\ \A r \in Requests : req[r].pc \in MarkPcs => req[r].date <= Today
    /\ \A s \in Slots : register[s] # NoRow => s[2] <= Today

RegisterInv ==
    /\ TypeOK /\ TermKnown /\ EntriesOrdered /\ AnswerTrue /\ TouchedMarked
    /\ NothingAhead /\ OpenWhileAsked /\ LockHolds /\ RegisterExplained
=============================================================================
