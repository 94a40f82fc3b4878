---------------------------- MODULE RegisterProofs ----------------------------
(***************************************************************************)
(* Proofs about Register: RegisterInv is inductive, and what follows; and  *)
(* about the reports of RegisterReports, which count the same sessions in  *)
(* every state where no day ahead is marked.                               *)
(***************************************************************************)
EXTENDS RegisterReports, SumTheorems

LEMMA IdleTyped == Idle \in Request
BY DEF Idle, Locals, Request, NoMarks

LEMMA InvInit == Init => RegisterInv
<1> SUFFICES ASSUME Init PROVE RegisterInv
    OBVIOUS
<1> USE TimeAssumption
<1>1. \A r \in Requests : req[r] = Idle
  BY DEF Init
<1>2. \A r \in Requests : /\ req[r].pc = "idle"
                           /\ req[r].created = {} /\ req[r].amended = {}
  BY <1>1 DEF Idle, Locals
<1>3. TypeOK
  <2>1. register \in [Slots -> Value \cup {NoRow}]
    BY DEF Init
  <2>2. req \in [Requests -> Request]
    BY IdleTyped DEF Init
  <2> QED
    BY <2>1, <2>2 DEF Init, TypeOK
<1>4. EntriesOrdered
  BY DEF Init, EntriesOrdered, isReopened
<1>5. LockHolds
  BY DEF Init, LockHolds
<1>6. RegisterExplained
  BY DEF Init, RegisterExplained
<1>7. NothingAhead
  BY <1>2 DEF Init, NothingAhead, MarkPcs
<1> QED
  BY <1>2, <1>3, <1>4, <1>5, <1>6, <1>7
  DEF RegisterInv, TermKnown, AnswerTrue, TouchedMarked, OpenWhileAsked, MarkPcs
-----------------------------------------------------------------------------
\* Every step keeps the record of who has seen its term open.
LEMMA NextWatches == Next => Watch
<1>1. ASSUME NEW r \in Requests, Mark(r) \/ Lock(r) \/ Fail(r)
      PROVE  Watch
  BY <1>1 DEF Mark, Lock, Fail, MarkStart, ReadRoster, ReadPrior, Upsert, Commit,
              LogMarked, LogAmended, CloseTerm, ReopenStart, LogClose, LogReopen,
              ReadReopened, ReadClosed, Refuse
<1>2. ASSUME NEW t \in Terms, CreateTerm(t) \/ UpdateTerm(t) \/ Activate(t)
      PROVE  Watch
  BY <1>2 DEF CreateTerm, UpdateTerm, Activate
<1> QED
  BY <1>1, <1>2 DEF Next, ChangeEnrollment, Tick

\* The actions that touch neither the times nor the order of the entries.
LEMMA EntriesStay ==
    ASSUME Next, \A r \in Requests : ~LogClose(r) /\ ~LogReopen(r), ~Tick
    PROVE  UNCHANGED <<reopenedAt, closedAt, clock, lastEntry>>
<1>1. ASSUME NEW r \in Requests, Mark(r)
      PROVE  UNCHANGED <<reopenedAt, closedAt, clock, lastEntry>>
  BY <1>1 DEF Mark, MarkStart, ReadRoster, ReadPrior, Upsert, Commit,
              LogMarked, LogAmended, KeepTerms, terms, ghosts
<1>2. ASSUME NEW r \in Requests, Lock(r)
      PROVE  UNCHANGED <<reopenedAt, closedAt, clock, lastEntry>>
  BY <1>2 DEF Lock, CloseTerm, ReopenStart, ReadReopened, ReadClosed, Refuse,
              KeepTerms, terms, ghosts
<1>3. ASSUME NEW r \in Requests, Fail(r)
      PROVE  UNCHANGED <<reopenedAt, closedAt, clock, lastEntry>>
  BY <1>3 DEF Fail, KeepTerms, terms
<1>4. ASSUME NEW t \in Terms, CreateTerm(t) \/ UpdateTerm(t) \/ Activate(t)
      PROVE  UNCHANGED <<reopenedAt, closedAt, clock, lastEntry>>
  BY <1>4 DEF CreateTerm, UpdateTerm, Activate, ghosts
<1>5. ASSUME NEW e \in Movers, ChangeEnrollment(e)
      PROVE  UNCHANGED <<reopenedAt, closedAt, clock, lastEntry>>
  BY <1>5 DEF ChangeEnrollment, KeepTerms, terms, ghosts
<1> QED
  BY <1>1, <1>2, <1>3, <1>4, <1>5 DEF Next

LEMMA EntriesKept ==
    ASSUME TypeOK, TermKnown, EntriesOrdered, Next
    PROVE  EntriesOrdered'
<1> USE TimeAssumption
<1>1. /\ reopenedAt \in [Terms -> 0 .. MaxTime]
      /\ closedAt \in [Terms -> 0 .. MaxTime]
      /\ lastEntry \in [Terms -> {"none", "closed", "reopened"}]
      /\ clock \in 1 .. MaxTime
  BY DEF TypeOK
<1>2. ASSUME NEW r \in Requests, LogClose(r)
      PROVE  EntriesOrdered'
  <2>1. req[r].term \in Terms
    BY <1>2 DEF TermKnown, LogClose
  <2>2. closedAt' = [closedAt EXCEPT ![req[r].term] = clock]
    BY <1>2 DEF LogClose
  <2>3. lastEntry' = [lastEntry EXCEPT ![req[r].term] = "closed"]
    BY <1>2 DEF LogClose
  <2>4. UNCHANGED <<reopenedAt, clock>>
    BY <1>2 DEF LogClose
  <2> QED
    BY <1>1, <2>1, <2>2, <2>3, <2>4 DEF EntriesOrdered, isReopened
<1>3. ASSUME NEW r \in Requests, LogReopen(r)
      PROVE  EntriesOrdered'
  <2>1. req[r].term \in Terms
    BY <1>3 DEF TermKnown, LogReopen
  <2>2. reopenedAt' = [reopenedAt EXCEPT ![req[r].term] = clock]
    BY <1>3 DEF LogReopen
  <2>3. lastEntry' = [lastEntry EXCEPT ![req[r].term] = "reopened"]
    BY <1>3 DEF LogReopen
  <2>4. UNCHANGED <<closedAt, clock>>
    BY <1>3 DEF LogReopen
  <2> QED
    BY <1>1, <2>1, <2>2, <2>3, <2>4 DEF EntriesOrdered, isReopened
<1>4. CASE Tick
  <2>1. clock' = clock + 1 /\ UNCHANGED <<reopenedAt, closedAt, lastEntry>>
    BY <1>4 DEF Tick, KeepTerms, terms, ghosts
  <2> QED
    BY <1>1, <2>1 DEF EntriesOrdered, isReopened
<1>5. CASE UNCHANGED <<reopenedAt, closedAt, clock, lastEntry>>
  BY <1>5 DEF EntriesOrdered, isReopened
<1> QED
  BY <1>2, <1>3, <1>4, <1>5, EntriesStay
-----------------------------------------------------------------------------
\* What a step may do to a request: only its own actions touch its locals.
LEMMA TermKept ==
    ASSUME TypeOK, TermKnown, Next
    PROVE  TermKnown'
<1>1. /\ status \in [Terms -> {"none", "draft", "active", "closed"}]
      /\ req \in [Requests -> Request]
  BY DEF TypeOK
<1> DEFINE Begun == \A t \in Terms : status[t] \in {"active", "closed"} =>
                                     status'[t] \in {"active", "closed"}
           Own(r) == /\ req'[r].pc # "idle" => req'[r].term \in Terms
                     /\ req'[r].pc \in MarkPcs =>
                          /\ req'[r].date \in Dates
                          /\ status[req'[r].term] \in {"active", "closed"}
           Others(r) == \A q \in Requests \ {r} : req'[q] = req[q]
<1>2. Begun
  <2>1. CASE \E t \in Terms : CreateTerm(t) \/ UpdateTerm(t) \/ Activate(t)
    BY <1>1, <2>1 DEF CreateTerm, UpdateTerm, Activate
  <2>2. CASE \E r \in Requests : Lock(r)
    BY <1>1, <2>2 DEF Lock, CloseTerm, LogClose, LogReopen, ReopenStart,
                      ReadReopened, ReadClosed, Refuse, KeepTerms, terms
  <2>3. CASE \E r \in Requests : Mark(r)
    BY <2>3 DEF Mark, MarkStart, ReadRoster, ReadPrior, Upsert, Commit,
                LogMarked, LogAmended, KeepTerms, terms
  <2> QED
    BY <2>1, <2>2, <2>3 DEF Next, Fail, ChangeEnrollment, Tick, KeepTerms, terms
<1>3. ASSUME NEW r \in Requests, Mark(r)
      PROVE  Own(r) /\ Others(r)
  <2> USE <1>1 DEF Request, MarkPcs, TermKnown, Idle, Locals
  <2>1. CASE \E date \in Dates, marks \in Payloads : MarkStart(r, date, marks)
    BY <2>1 DEF MarkStart
  <2>2. CASE ReadRoster(r)
    BY <2>2 DEF ReadRoster, Return
  <2>3. CASE ReadPrior(r)
    BY <2>3 DEF ReadPrior, Return
  <2>4. CASE \E e \in Enrollments : Upsert(r, e)
    BY <2>4 DEF Upsert
  <2>5. CASE Commit(r)
    BY <2>5 DEF Commit
  <2>6. CASE LogMarked(r) \/ LogAmended(r)
    BY <2>6 DEF LogMarked, LogAmended, Return
  <2> QED
    BY <1>3, <2>1, <2>2, <2>3, <2>4, <2>5, <2>6 DEF Mark
<1>4. ASSUME NEW r \in Requests, Lock(r)
      PROVE  Own(r) /\ Others(r)
  <2> USE <1>1 DEF Request, MarkPcs, TermKnown, Idle, Locals
  <2>1. CASE \E t \in Terms : CloseTerm(r, t) \/ ReopenStart(r, t)
    BY <2>1 DEF CloseTerm, ReopenStart
  <2>2. CASE LogClose(r) \/ LogReopen(r) \/ Refuse(r)
    BY <2>2 DEF LogClose, LogReopen, Refuse, Return
  <2>3. CASE ReadReopened(r) \/ ReadClosed(r)
    BY <2>3 DEF ReadReopened, ReadClosed
  <2> QED
    BY <1>4, <2>1, <2>2, <2>3 DEF Lock
<1>5. ASSUME NEW r \in Requests, Fail(r)
      PROVE  Own(r) /\ Others(r)
  BY <1>1, <1>5 DEF Fail, Return, Idle, Locals, MarkPcs, Request
<1>6. CASE \E r \in Requests : Own(r) /\ Others(r)
  <2> PICK r \in Requests : Own(r) /\ Others(r)
    BY <1>6
  <2> QED
    BY <1>2, <1>1 DEF TermKnown, MarkPcs
<1>7. CASE UNCHANGED req
  BY <1>2, <1>7 DEF TermKnown, MarkPcs
<1>8. \/ \E r \in Requests : Mark(r) \/ Lock(r) \/ Fail(r)
      \/ UNCHANGED req
  BY DEF Next, CreateTerm, UpdateTerm, Activate, ChangeEnrollment, Tick
<1> QED
  BY <1>3, <1>4, <1>5, <1>6, <1>7, <1>8
-----------------------------------------------------------------------------
LEMMA ResolveTyped ==
    ASSUME NEW marks \in Payloads \cup {NoMarks}, NEW e \in DOMAIN marks
    PROVE  resolve(marks[e]) \in Value
<1>1. marks \in Payloads
  BY DEF NoMarks
<1>2. PICK es \in SUBSET Enrollments :
         marks \in [es -> [am : AttendanceStatuses,
                           pm : AttendanceStatuses \cup {Omitted}]]
  BY <1>1, PayloadsAssumption
<1>3. marks[e] \in [am : AttendanceStatuses,
                    pm : AttendanceStatuses \cup {Omitted}]
  BY <1>2
<1>4. /\ marks[e].am \in AttendanceStatuses
      /\ marks[e].pm \in AttendanceStatuses \cup {Omitted}
  BY <1>3
<1> QED
  BY <1>4 DEF resolve, Value

LEMMA PayloadDomain ==
    ASSUME NEW marks \in Payloads \cup {NoMarks}
    PROVE  DOMAIN marks \subseteq Enrollments
BY PayloadsAssumption DEF NoMarks

LEMMA TouchedSlots ==
    ASSUME TypeOK, TouchedMarked, NEW r \in Requests, NEW s \in Slots,
           s \in Touched(r)
    PROVE  s[1] \in DOMAIN req[r].marks
BY DEF TouchedMarked, Touched, Slots
-----------------------------------------------------------------------------
\* The locals stay well formed.
LEMMA RequestsTyped ==
    ASSUME TypeOK, TermKnown, Next
    PROVE  req' \in [Requests -> Request]
<1> USE DEF Request, Locals
<1>1. /\ req \in [Requests -> Request]
      /\ reopenedAt \in [Terms -> 0 .. MaxTime]
      /\ closedAt \in [Terms -> 0 .. MaxTime]
  BY DEF TypeOK
<1>2. ASSUME NEW r \in Requests, Return(r)
      PROVE  req' \in [Requests -> Request]
  BY <1>1, <1>2, IdleTyped DEF Return
<1>3. ASSUME NEW r \in Requests, NEW new \in Request,
             req' = [req EXCEPT ![r] = new]
      PROVE  req' \in [Requests -> Request]
  BY <1>1, <1>3
<1>4. ASSUME NEW r \in Requests, Mark(r)
      PROVE  req' \in [Requests -> Request]
  <2>1. CASE \E date \in Dates, marks \in Payloads : MarkStart(r, date, marks)
    <3> PICK date \in Dates, marks \in Payloads, t \in Terms :
           req' = [req EXCEPT ![r] =
                     Locals(IF status[t] = "active" THEN "roster"
                            ELSE "markLock", t, date, marks)]
      BY <2>1 DEF MarkStart
    <3> QED
      BY <1>1
  <2>2. CASE ReadRoster(r)
    BY <1>1, <1>2, <2>2 DEF ReadRoster
  <2>3. CASE ReadPrior(r)
    <3>1. NewMarks(r) \subseteq Enrollments /\ ChangedMarks(r) \subseteq Enrollments
      <4>1. req[r].marks \in Payloads \cup {NoMarks}
        BY <1>1
      <4> QED
        BY <4>1, PayloadDomain DEF NewMarks, ChangedMarks
    <3> DEFINE new == [req[r] EXCEPT
                         !.pc = "upsert",
                         !.created = NewMarks(r),
                         !.amended = ChangedMarks(r),
                         !.todo = NewMarks(r) \cup ChangedMarks(r)]
    <3>2. new \in Request
      BY <1>1, <3>1
    <3>3. \/ req' = [req EXCEPT ![r] = Idle]
          \/ req' = [req EXCEPT ![r] = new]
      BY <1>1, <2>3 DEF ReadPrior
    <3> HIDE DEF new
    <3> QED
      BY <1>3, <3>2, <3>3, IdleTyped
  <2>4. CASE \E e \in Enrollments : Upsert(r, e)
    <3> PICK e \in Enrollments : Upsert(r, e)
      BY <2>4
    <3> DEFINE new == [req[r] EXCEPT !.todo = @ \ {e}]
    <3>1. new \in Request
      BY <1>1
    <3>2. req' = [req EXCEPT ![r] = new]
      BY <1>1 DEF Upsert
    <3> HIDE DEF new
    <3> QED
      BY <1>3, <3>1, <3>2
  <2>5. CASE Commit(r)
    BY <1>1, <2>5 DEF Commit
  <2>6. CASE LogMarked(r) \/ LogAmended(r)
    BY <1>1, <1>2, <2>6 DEF LogMarked, LogAmended
  <2> QED
    BY <1>4, <2>1, <2>2, <2>3, <2>4, <2>5, <2>6 DEF Mark
<1>5. ASSUME NEW r \in Requests, Lock(r)
      PROVE  req' \in [Requests -> Request]
  <2>1. CASE \E t \in Terms : CloseTerm(r, t) \/ ReopenStart(r, t)
    <3>1. NoMarks \in Payloads \cup {NoMarks}
      OBVIOUS
    <3> QED
      BY <1>1, <2>1, <3>1 DEF CloseTerm, ReopenStart
  <2>2. CASE LogClose(r) \/ LogReopen(r) \/ Refuse(r)
    BY <1>2, <2>2 DEF LogClose, LogReopen, Refuse
  <2>3. CASE ReadReopened(r) \/ ReadClosed(r)
    <3>1. req[r].term \in Terms
      BY <2>3 DEF ReadReopened, ReadClosed, TermKnown
    <3> QED
      BY <1>1, <2>3, <3>1 DEF ReadReopened, ReadClosed
  <2> QED
    BY <1>5, <2>1, <2>2, <2>3 DEF Lock
<1>6. ASSUME NEW r \in Requests, Fail(r)
      PROVE  req' \in [Requests -> Request]
  BY <1>2, <1>6 DEF Fail
<1>7. CASE UNCHANGED req
  BY <1>1, <1>7
<1> QED
  BY <1>4, <1>5, <1>6, <1>7
  DEF Next, CreateTerm, UpdateTerm, Activate, ChangeEnrollment, Tick

\* Only a commit writes the register, and it writes what was marked.
LEMMA RegisterTyped ==
    ASSUME TypeOK, TouchedMarked, Next
    PROVE  register' \in [Slots -> Value \cup {NoRow}]
<1>1. register \in [Slots -> Value \cup {NoRow}]
  BY DEF TypeOK
<1>2. ASSUME NEW r \in Requests, Commit(r)
      PROVE  register' \in [Slots -> Value \cup {NoRow}]
  <2>1. ASSUME NEW s \in Slots, s \in Touched(r)
        PROVE  resolve(req[r].marks[s[1]]) \in Value
    <3>1. req[r].marks \in Payloads \cup {NoMarks}
      BY DEF TypeOK, Request
    <3>2. s[1] \in DOMAIN req[r].marks
      BY <2>1, TouchedSlots
    <3> QED
      BY <3>1, <3>2, ResolveTyped
  <2> QED
    BY <1>1, <1>2, <2>1 DEF Commit
<1>3. ASSUME NEW r \in Requests, Mark(r), ~Commit(r)
      PROVE  UNCHANGED register
  BY <1>3 DEF Mark, MarkStart, ReadRoster, ReadPrior, Upsert, LogMarked,
              LogAmended, KeepRegister
<1>4. ASSUME NEW r \in Requests, Lock(r)
      PROVE  UNCHANGED register
  BY <1>4 DEF Lock, CloseTerm, LogClose, LogReopen, ReopenStart, ReadReopened,
              ReadClosed, Refuse, KeepRegister
<1>5. CASE UNCHANGED register
  BY <1>1, <1>5
<1> QED
  BY <1>2, <1>3, <1>4, <1>5
  DEF Next, Fail, CreateTerm, UpdateTerm, Activate, ChangeEnrollment, Tick,
      KeepRegister

LEMMA LockTyped ==
    ASSUME TypeOK, Next
    PROVE  /\ rowLock' \in [Slots -> Requests \cup {None}]
           /\ teller' \in [Slots -> Requests \cup {"told", "lost"}]
<1> DEFINE Goal == /\ rowLock' \in [Slots -> Requests \cup {None}]
                   /\ teller' \in [Slots -> Requests \cup {"told", "lost"}]
<1>1. /\ rowLock \in [Slots -> Requests \cup {None}]
      /\ teller \in [Slots -> Requests \cup {"told", "lost"}]
  BY DEF TypeOK
<1>2. ASSUME NEW r \in Requests, Mark(r)
      PROVE  Goal
  <2>1. CASE \E e \in Enrollments : Upsert(r, e)
    BY <1>1, <2>1 DEF Upsert, ghosts
  <2>2. CASE Commit(r)
    BY <1>1, <2>2 DEF Commit, ReleaseRows
  <2>3. CASE LogMarked(r) \/ LogAmended(r)
    BY <1>1, <2>3 DEF LogMarked, LogAmended, Logged, KeepRegister
  <2> QED
    BY <1>1, <1>2, <2>1, <2>2, <2>3
    DEF Mark, MarkStart, ReadRoster, ReadPrior, KeepRegister, ghosts
<1>3. ASSUME NEW r \in Requests, Lock(r)
      PROVE  Goal
  BY <1>1, <1>3 DEF Lock, CloseTerm, LogClose, LogReopen, ReopenStart,
                    ReadReopened, ReadClosed, Refuse, KeepRegister, ghosts
<1>4. ASSUME NEW r \in Requests, Fail(r)
      PROVE  Goal
  BY <1>1, <1>4 DEF Fail, ReleaseRows
<1> QED
  BY <1>1, <1>2, <1>3, <1>4
  DEF Next, CreateTerm, UpdateTerm, Activate, ChangeEnrollment, Tick,
      KeepRegister, ghosts

LEMMA TermsTyped ==
    ASSUME TypeOK, Next
    PROVE  /\ status' \in [Terms -> {"none", "draft", "active", "closed"}]
           /\ covers' \in [Terms -> SUBSET Dates]
           /\ active' \subseteq Enrollments
           /\ clock' \in 1 .. MaxTime
           /\ reopenedAt' \in [Terms -> 0 .. MaxTime]
           /\ closedAt' \in [Terms -> 0 .. MaxTime]
           /\ lastEntry' \in [Terms -> {"none", "closed", "reopened"}]
           /\ reopenedSince' \in [Terms -> BOOLEAN]
           /\ closeLost' \in [Terms -> BOOLEAN]
<1> USE DEF TypeOK
<1>1. CASE \E r \in Requests : Mark(r)
  BY <1>1 DEF Mark, MarkStart, ReadRoster, ReadPrior, Upsert, Commit,
              LogMarked, LogAmended, KeepTerms, KeepRegister, terms, ghosts
<1>2. CASE \E r \in Requests : Lock(r)
  <2> PICK r \in Requests : Lock(r)
    BY <1>2
  <2>1. CASE \E t \in Terms : CloseTerm(r, t)
    BY <2>1 DEF CloseTerm, KeepRegister
  <2> DEFINE t == req[r].term
  <2>0. clock \in 0 .. MaxTime
    BY TimeAssumption
  <2>2. CASE LogClose(r)
    <3>1. /\ closedAt' = [closedAt EXCEPT ![t] = clock]
          /\ lastEntry' = [lastEntry EXCEPT ![t] = "closed"]
          /\ closeLost' = [closeLost EXCEPT ![t] = FALSE]
          /\ UNCHANGED <<status, covers, active, clock, reopenedAt, reopenedSince>>
      BY <2>2 DEF LogClose, KeepRegister
    <3> HIDE DEF t
    <3> QED
      BY <2>0, <3>1
  <2>3. CASE LogReopen(r)
    <3>1. /\ reopenedAt' = [reopenedAt EXCEPT ![t] = clock]
          /\ lastEntry' = [lastEntry EXCEPT ![t] = "reopened"]
          /\ reopenedSince' = [reopenedSince EXCEPT ![t] = TRUE]
          /\ UNCHANGED <<status, covers, active, clock, closedAt, closeLost>>
      BY <2>3 DEF LogReopen, KeepRegister
    <3> HIDE DEF t
    <3> QED
      BY <2>0, <3>1
  <2> QED
    BY <2>1, <2>2, <2>3 DEF Lock, ReopenStart, ReadReopened, ReadClosed,
                            Refuse, KeepTerms, KeepRegister, terms, ghosts
<1>3. CASE \E r \in Requests : Fail(r)
  BY <1>3 DEF Fail, KeepTerms, terms
<1>4. CASE \E t \in Terms : CreateTerm(t) \/ UpdateTerm(t) \/ Activate(t)
  <2>1. \A days \in Ranges : days \in SUBSET Dates
    BY DEF Ranges
  <2> PICK t \in Terms : CreateTerm(t) \/ UpdateTerm(t) \/ Activate(t)
    BY <1>4
  <2>2. CASE CreateTerm(t)
    BY <2>1, <2>2 DEF CreateTerm, KeepRegister, ghosts
  <2>3. CASE UpdateTerm(t)
    BY <2>1, <2>3 DEF UpdateTerm, KeepRegister, ghosts
  <2>4. CASE Activate(t)
    BY <2>4 DEF Activate, KeepRegister, ghosts
  <2> QED
    BY <2>2, <2>3, <2>4
<1>5. CASE \E e \in Movers : ChangeEnrollment(e)
  BY <1>5, MoversAssumption DEF ChangeEnrollment, KeepTerms, terms, ghosts
<1>6. CASE Tick
  BY <1>6, TimeAssumption DEF Tick, KeepTerms, KeepRegister, terms, ghosts
<1> QED
  BY <1>1, <1>2, <1>3, <1>4, <1>5, <1>6 DEF Next

LEMMA TypeKept ==
    ASSUME TypeOK, TermKnown, TouchedMarked, Next
    PROVE  TypeOK'
<1>1. sawOpen' \subseteq Requests
  BY NextWatches DEF Watch
<1> QED
  BY <1>1, RequestsTyped, RegisterTyped, LockTyped, TermsTyped
  DEF TypeOK, Slots
-----------------------------------------------------------------------------
LEMMA OthersStay ==
    ASSUME TypeOK, NEW r \in Requests, Mark(r) \/ Lock(r) \/ Fail(r),
           NEW q \in Requests, q # r
    PROVE  req'[q] = req[q]
<1>1. req \in [Requests -> Request]
  BY DEF TypeOK
<1>2. CASE Mark(r)
  <2>1. CASE \E date \in Dates, marks \in Payloads : MarkStart(r, date, marks)
    BY <1>1, <2>1 DEF MarkStart
  <2>2. CASE ReadRoster(r) \/ ReadPrior(r)
    BY <1>1, <2>2 DEF ReadRoster, ReadPrior, Return
  <2>3. CASE (\E e \in Enrollments : Upsert(r, e)) \/ Commit(r)
    BY <1>1, <2>3 DEF Upsert, Commit
  <2>4. CASE LogMarked(r) \/ LogAmended(r)
    BY <1>1, <2>4 DEF LogMarked, LogAmended, Return
  <2> QED
    BY <1>2, <2>1, <2>2, <2>3, <2>4 DEF Mark
<1>3. CASE Lock(r)
  BY <1>1, <1>3 DEF Lock, CloseTerm, LogClose, LogReopen, ReopenStart,
                    ReadReopened, ReadClosed, Refuse, Return
<1>4. CASE Fail(r)
  BY <1>1, <1>4 DEF Fail, Return
<1> QED
  BY <1>2, <1>3, <1>4

\* Nobody leaves the window between the two statements of close() but by
\* writing the entry or by failing.
LEMMA LockKept ==
    ASSUME TypeOK, TermKnown, EntriesOrdered, LockHolds, Next
    PROVE  LockHolds'
<1> DEFINE Pending(r, t) == req[r].pc = "logClose" /\ req[r].term = t
           Excused(t) == \/ reopenedSince[t] \/ closeLost[t]
                         \/ \E r \in Requests : Pending(r, t)
           Open(t) == status[t] = "closed" /\ isReopened(reopenedAt[t], closedAt[t])
<1>1. /\ req \in [Requests -> Request]
      /\ status \in [Terms -> {"none", "draft", "active", "closed"}]
      /\ reopenedAt \in [Terms -> 0 .. MaxTime]
      /\ closedAt \in [Terms -> 0 .. MaxTime]
      /\ clock \in 1 .. MaxTime
      /\ reopenedSince \in [Terms -> BOOLEAN]
      /\ closeLost \in [Terms -> BOOLEAN]
  BY DEF TypeOK
<1>2. \A t \in Terms : Open(t) => Excused(t)
  BY DEF LockHolds
<1>3. SUFFICES ASSUME NEW t \in Terms, Open(t)'
               PROVE  Excused(t)'
  BY DEF LockHolds
<1>4. ASSUME NEW r \in Requests, Mark(r)
      PROVE  Excused(t)'
  <2>1. UNCHANGED <<status, reopenedAt, closedAt, reopenedSince, closeLost>>
    BY <1>4 DEF Mark, MarkStart, ReadRoster, ReadPrior, Upsert, Commit,
                LogMarked, LogAmended, KeepTerms, terms, ghosts
  <2>2. req[r].pc # "logClose"
    BY <1>4 DEF Mark, MarkStart, ReadRoster, ReadPrior, Upsert, Commit,
                LogMarked, LogAmended
  <2>3. \A q \in Requests : Pending(q, t) => Pending(q, t)'
    BY <1>4, <2>2, OthersStay
  <2> HIDE DEF Pending
  <2> QED
    BY <1>2, <1>3, <2>1, <2>3
<1>5. ASSUME NEW r \in Requests, Lock(r)
      PROVE  Excused(t)'
  <2>1. CASE \E u \in Terms : CloseTerm(r, u)
    <3> PICK u \in Terms : CloseTerm(r, u)
      BY <2>1
    <3>1. CASE u = t
      <4>1. Pending(r, t)'
        BY <1>1, <3>1 DEF CloseTerm, Locals
      <4> QED
        BY <4>1
    <3>2. CASE u # t
      <4>1. /\ status'[t] = status[t] /\ reopenedSince'[t] = reopenedSince[t]
            /\ UNCHANGED <<reopenedAt, closedAt, closeLost>>
        BY <1>1, <3>2 DEF CloseTerm
      <4>2. \A q \in Requests : Pending(q, t) => Pending(q, t)'
        BY <1>5, OthersStay DEF CloseTerm
      <4> HIDE DEF Pending
      <4> QED
        BY <1>2, <1>3, <4>1, <4>2
    <3> QED
      BY <3>1, <3>2
  <2>2. CASE LogClose(r)
    <3>1. req[r].term \in Terms
      BY <2>2 DEF LogClose, TermKnown
    <3>2. /\ closedAt' = [closedAt EXCEPT ![req[r].term] = clock]
          /\ closeLost' = [closeLost EXCEPT ![req[r].term] = FALSE]
          /\ UNCHANGED <<status, reopenedAt, reopenedSince>>
      BY <2>2 DEF LogClose
    <3>3. req[r].term # t
      BY <1>1, <1>3, <3>2 DEF EntriesOrdered, isReopened
    <3>4. \A q \in Requests : Pending(q, t) => Pending(q, t)'
      BY <1>5, <3>3, OthersStay
    <3> HIDE DEF Pending
    <3> QED
      BY <1>1, <1>2, <1>3, <3>2, <3>3, <3>4
  <2>3. CASE LogReopen(r)
    <3>1. req[r].term \in Terms
      BY <2>3 DEF LogReopen, TermKnown
    <3>2. /\ reopenedAt' = [reopenedAt EXCEPT ![req[r].term] = clock]
          /\ reopenedSince' = [reopenedSince EXCEPT ![req[r].term] = TRUE]
          /\ UNCHANGED <<status, closedAt, closeLost>>
      BY <2>3 DEF LogReopen
    <3>3. \A q \in Requests : Pending(q, t) => Pending(q, t)'
      BY <1>5, <2>3, OthersStay DEF LogReopen
    <3> HIDE DEF Pending
    <3> QED
      BY <1>1, <1>2, <1>3, <3>1, <3>2, <3>3
  <2>4. CASE \/ \E u \in Terms : ReopenStart(r, u)
             \/ ReadReopened(r) \/ ReadClosed(r) \/ Refuse(r)
    <3>1. UNCHANGED <<status, reopenedAt, closedAt, reopenedSince, closeLost>>
      BY <2>4 DEF ReopenStart, ReadReopened, ReadClosed, Refuse, KeepTerms,
                  terms, ghosts
    <3>2. req[r].pc # "logClose"
      BY <2>4 DEF ReopenStart, ReadReopened, ReadClosed, Refuse
    <3>3. \A q \in Requests : Pending(q, t) => Pending(q, t)'
      BY <1>5, <3>2, OthersStay
    <3> HIDE DEF Pending
    <3> QED
      BY <1>2, <1>3, <3>1, <3>3
  <2> QED
    BY <1>5, <2>1, <2>2, <2>3, <2>4 DEF Lock
<1>6. ASSUME NEW r \in Requests, Fail(r)
      PROVE  Excused(t)'
  <2>1. /\ UNCHANGED <<status, reopenedAt, closedAt, reopenedSince>>
        /\ closeLost'[t] = (closeLost[t] \/ Pending(r, t))
    BY <1>6 DEF Fail, KeepTerms, terms
  <2>2. \A q \in Requests \ {r} : Pending(q, t) => Pending(q, t)'
    BY <1>6, OthersStay
  <2> HIDE DEF Pending
  <2> QED
    BY <1>2, <1>3, <2>1, <2>2
<1>7. ASSUME NEW u \in Terms, CreateTerm(u) \/ UpdateTerm(u) \/ Activate(u)
      PROVE  Excused(t)'
  <2>1. UNCHANGED <<reopenedAt, closedAt, req, reopenedSince, closeLost>>
    BY <1>7 DEF CreateTerm, UpdateTerm, Activate, ghosts
  <2>2. status'[t] = "closed" => status[t] = "closed"
    BY <1>1, <1>7 DEF CreateTerm, UpdateTerm, Activate
  <2> QED
    BY <1>2, <1>3, <2>1, <2>2
<1>8. CASE (\E e \in Movers : ChangeEnrollment(e)) \/ Tick
  <2>1. UNCHANGED <<status, reopenedAt, closedAt, req, reopenedSince, closeLost>>
    BY <1>8 DEF ChangeEnrollment, Tick, KeepTerms, terms, ghosts
  <2> QED
    BY <1>2, <1>3, <2>1
<1> QED
  BY <1>4, <1>5, <1>6, <1>7, <1>8 DEF Next
-----------------------------------------------------------------------------
\* What a step does to the rows that a request is working on.
LEMMA TouchedKept ==
    ASSUME TypeOK, TouchedMarked, Next
    PROVE  TouchedMarked'
<1> DEFINE P(r) == /\ req[r].created \cup req[r].amended \subseteq DOMAIN req[r].marks
                   /\ req[r].pc = "logAmended" => req[r].created = {}
<1>1. req \in [Requests -> Request]
  BY DEF TypeOK
<1>2. \A r \in Requests : P(r)
  BY DEF TouchedMarked
<1>3. ASSUME NEW r \in Requests, req'[r].created = {}, req'[r].amended = {}
      PROVE  P(r)'
  BY <1>3
<1>4. ASSUME NEW r \in Requests, Return(r)
      PROVE  P(r)'
  BY <1>1, <1>4 DEF Return, Idle, Locals
<1>5. ASSUME NEW r \in Requests, Mark(r)
      PROVE  P(r)'
  <2> USE <1>1 DEF Request
  <2>1. CASE \E date \in Dates, marks \in Payloads : MarkStart(r, date, marks)
    BY <1>3, <2>1 DEF MarkStart, Locals
  <2>2. CASE ReadRoster(r)
    BY <1>2, <1>4, <2>2 DEF ReadRoster
  <2>3. CASE ReadPrior(r)
    <3>1. CASE NewMarks(r) \cup ChangedMarks(r) = {}
      BY <1>4, <2>3, <3>1 DEF ReadPrior, Return
    <3>2. CASE NewMarks(r) \cup ChangedMarks(r) # {}
      <4>1. /\ req'[r].created = NewMarks(r) /\ req'[r].amended = ChangedMarks(r)
            /\ req'[r].marks = req[r].marks /\ req'[r].pc = "upsert"
        BY <2>3, <3>2 DEF ReadPrior
      <4>2. NewMarks(r) \cup ChangedMarks(r) \subseteq DOMAIN req[r].marks
        BY DEF NewMarks, ChangedMarks
      <4> QED
        BY <4>1, <4>2
    <3> QED
      BY <3>1, <3>2
  <2>4. CASE \E e \in Enrollments : Upsert(r, e)
    BY <1>2, <2>4 DEF Upsert
  <2>5. CASE Commit(r)
    BY <1>2, <2>5 DEF Commit
  <2>6. CASE LogMarked(r)
    BY <1>2, <1>4, <2>6 DEF LogMarked
  <2>7. CASE LogAmended(r)
    BY <1>4, <2>7 DEF LogAmended
  <2> QED
    BY <1>5, <2>1, <2>2, <2>3, <2>4, <2>5, <2>6, <2>7 DEF Mark
<1>6. ASSUME NEW r \in Requests, Lock(r)
      PROVE  P(r)'
  <2>1. CASE \E t \in Terms : CloseTerm(r, t) \/ ReopenStart(r, t)
    BY <1>1, <2>1 DEF CloseTerm, ReopenStart, Locals
  <2>2. CASE LogClose(r) \/ LogReopen(r) \/ Refuse(r)
    BY <1>4, <2>2 DEF LogClose, LogReopen, Refuse
  <2>3. CASE ReadReopened(r) \/ ReadClosed(r)
    BY <1>1, <1>2, <2>3 DEF ReadReopened, ReadClosed, Request
  <2> QED
    BY <1>6, <2>1, <2>2, <2>3 DEF Lock
<1>7. ASSUME NEW r \in Requests, Fail(r)
      PROVE  P(r)'
  BY <1>4, <1>7 DEF Fail
<1>8. CASE \E r \in Requests : Mark(r) \/ Lock(r) \/ Fail(r)
  <2> PICK r \in Requests : Mark(r) \/ Lock(r) \/ Fail(r)
    BY <1>8
  <2>1. \A q \in Requests \ {r} : P(q)'
    BY <1>2, OthersStay
  <2> HIDE DEF P
  <2>2. \A q \in Requests : P(q)'
    BY <1>5, <1>6, <1>7, <2>1
  <2> QED
    BY <2>2 DEF P, TouchedMarked
<1>9. CASE UNCHANGED req
  BY <1>9 DEF TouchedMarked
<1> QED
  BY <1>8, <1>9
  DEF Next, CreateTerm, UpdateTerm, Activate, ChangeEnrollment, Tick

\* A commit leaves its rows to the committer to log; nobody else's entry or
\* failure settles them.
LEMMA ToldKept ==
    ASSUME TypeOK, TouchedMarked, RegisterExplained, Next
    PROVE  RegisterExplained'
<1> DEFINE Telling(r, s) ==
             /\ req[r].pc \in {"logMarked", "logAmended"}
             /\ s \in Touched(r)
             /\ register[s] = resolve(req[r].marks[s[1]])
<1>1. /\ req \in [Requests -> Request]
      /\ teller \in [Slots -> Requests \cup {"told", "lost"}]
      /\ register \in [Slots -> Value \cup {NoRow}]
  BY DEF TypeOK
<1>2. \A s \in Slots : \/ teller[s] \in {"told", "lost"}
                       \/ \E q \in Requests : teller[s] = q /\ Telling(q, s)
  BY DEF RegisterExplained
<1>3. SUFFICES ASSUME NEW s \in Slots
               PROVE  \/ teller'[s] \in {"told", "lost"}
                      \/ \E q \in Requests : teller'[s] = q /\ Telling(q, s)'
  BY DEF RegisterExplained
<1> DEFINE Goal == \/ teller'[s] \in {"told", "lost"}
                   \/ \E q \in Requests : teller'[s] = q /\ Telling(q, s)'
<1>4. ASSUME NEW r \in Requests, Mark(r) \/ Lock(r) \/ Fail(r),
             UNCHANGED <<register, teller>>,
             req[r].pc \notin {"logMarked", "logAmended"}
      PROVE  Goal
  <2>1. \A q \in Requests : Telling(q, s) => q # r
    BY <1>4
  <2>2. \A q \in Requests : q # r /\ Telling(q, s) => Telling(q, s)'
    BY <1>4, OthersStay DEF Touched
  <2> HIDE DEF Telling
  <2> QED
    BY <1>2, <1>4, <2>1, <2>2
<1>5. ASSUME NEW r \in Requests, Commit(r)
      PROVE  Goal
  <2>1. Mark(r)
    BY <1>5 DEF Mark
  <2>2. /\ register'[s] = IF s \in Touched(r) THEN resolve(req[r].marks[s[1]])
                          ELSE register[s]
        /\ teller'[s] = IF s \in Touched(r) THEN r ELSE teller[s]
    BY <1>5 DEF Commit
  <2>3. /\ req'[r].pc \in {"logMarked", "logAmended"}
        /\ req'[r].marks = req[r].marks /\ req'[r].date = req[r].date
        /\ req'[r].created = req[r].created /\ req'[r].amended = req[r].amended
    BY <1>1, <1>5 DEF Commit, Request
  <2>4. CASE s \in Touched(r)
    <3>1. Telling(r, s)'
      BY <2>2, <2>3, <2>4 DEF Touched
    <3> HIDE DEF Telling
    <3> QED
      BY <2>2, <2>4, <3>1
  <2>5. CASE s \notin Touched(r)
    <3>1. \A q \in Requests : Telling(q, s) => q # r
      BY <2>5
    <3>2. \A q \in Requests : q # r /\ Telling(q, s) => Telling(q, s)'
      BY <2>1, <2>2, <2>5, OthersStay DEF Touched
    <3> HIDE DEF Telling
    <3> QED
      BY <1>2, <2>2, <2>5, <3>1, <3>2
  <2> QED
    BY <2>4, <2>5
<1>6. ASSUME NEW r \in Requests, LogMarked(r) \/ LogAmended(r)
      PROVE  Goal
  <2>1. Mark(r) /\ UNCHANGED register
    BY <1>6 DEF Mark, LogMarked, LogAmended, KeepRegister
  <2>2. CASE teller[s] # r
    <3>1. teller'[s] = teller[s]
      BY <1>6, <2>2 DEF LogMarked, LogAmended, Logged
    <3>2. \A q \in Requests : q # r /\ Telling(q, s) => Telling(q, s)'
      BY <2>1, OthersStay DEF Touched
    <3> HIDE DEF Telling
    <3> QED
      BY <1>2, <2>2, <3>1, <3>2
  <2>3. CASE teller[s] = r
    <3>1. CASE r \in {"told", "lost"}
      <4>1. teller'[s] \in {"told", r}
        BY <1>6, <2>3 DEF LogMarked, LogAmended, Logged
      <4> QED
        BY <3>1, <4>1
    <3>2. CASE Telling(r, s)
      <4>1. s \in (req[r].created \cup req[r].amended) \X {req[r].date}
        BY <3>2 DEF Touched
      <4>2. CASE LogMarked(r) /\ req[r].amended # {}
        <5>1. teller'[s] = IF s \in req[r].created \X {req[r].date} THEN "told" ELSE r
          BY <2>3, <4>2 DEF LogMarked, Logged
        <5>2. /\ req'[r].pc = "logAmended" /\ req'[r].created = {}
              /\ req'[r].amended = req[r].amended
              /\ req'[r].marks = req[r].marks /\ req'[r].date = req[r].date
          BY <1>1, <4>2 DEF LogMarked, Request
        <5>3. s \notin req[r].created \X {req[r].date} => Telling(r, s)'
          BY <2>1, <3>2, <4>1, <5>2 DEF Touched
        <5> HIDE DEF Telling
        <5> QED
          BY <5>1, <5>3
      <4>3. CASE LogMarked(r) /\ req[r].amended = {}
        BY <2>3, <4>1, <4>3 DEF LogMarked, Logged
      <4>4. CASE LogAmended(r)
        <5>1. req[r].created = {}
          BY <4>4 DEF LogAmended, TouchedMarked
        <5> QED
          BY <2>3, <4>1, <4>4, <5>1 DEF LogAmended, Logged
      <4> QED
        BY <1>6, <4>2, <4>3, <4>4
    <3> HIDE DEF Telling
    <3> QED
      BY <1>2, <2>3, <3>1, <3>2
  <2> QED
    BY <2>2, <2>3
<1>7. ASSUME NEW r \in Requests, Mark(r), ~Commit(r), ~LogMarked(r), ~LogAmended(r)
      PROVE  Goal
  <2>1. UNCHANGED <<register, teller>>
    BY <1>7 DEF Mark, MarkStart, ReadRoster, ReadPrior, Upsert, KeepRegister,
                ghosts
  <2>2. req[r].pc \notin {"logMarked", "logAmended"}
    BY <1>7 DEF Mark, MarkStart, ReadRoster, ReadPrior, Upsert
  <2> QED
    BY <1>4, <1>7, <2>1, <2>2
<1>8. ASSUME NEW r \in Requests, Lock(r)
      PROVE  Goal
  <2>1. UNCHANGED <<register, teller>>
    BY <1>8 DEF Lock, CloseTerm, LogClose, LogReopen, ReopenStart, ReadReopened,
                ReadClosed, Refuse, KeepRegister, ghosts
  <2>2. req[r].pc \notin {"logMarked", "logAmended"}
    BY <1>8 DEF Lock, CloseTerm, LogClose, LogReopen, ReopenStart, ReadReopened,
                ReadClosed, Refuse
  <2> QED
    BY <1>4, <1>8, <2>1, <2>2
<1>9. ASSUME NEW r \in Requests, Fail(r)
      PROVE  Goal
  <2>1. /\ teller'[s] = IF teller[s] = r THEN "lost" ELSE teller[s]
        /\ UNCHANGED register
    BY <1>9 DEF Fail
  <2>2. \A q \in Requests : q # r /\ Telling(q, s) => Telling(q, s)'
    BY <1>9, <2>1, OthersStay DEF Touched
  <2> HIDE DEF Telling
  <2> QED
    BY <1>2, <2>1, <2>2
<1>10. CASE UNCHANGED <<register, teller, req>>
  <2>1. \A q \in Requests : Telling(q, s) => Telling(q, s)'
    BY <1>10 DEF Touched
  <2> HIDE DEF Telling
  <2> QED
    BY <1>2, <1>10, <2>1
<1>11. \/ \E r \in Requests : Mark(r) \/ Lock(r) \/ Fail(r)
       \/ UNCHANGED <<register, teller, req>>
  BY DEF Next, CreateTerm, UpdateTerm, Activate, ChangeEnrollment, Tick,
         KeepRegister, ghosts
<1> HIDE DEF Goal
<1>12. Goal
  BY <1>5, <1>6, <1>7, <1>8, <1>9, <1>10, <1>11 DEF Goal
<1> QED
  BY <1>12 DEF Goal
-----------------------------------------------------------------------------
\* A close never gets older, and a newer reopening is the last entry.
LEMMA EntriesGrow ==
    ASSUME TypeOK, TermKnown, EntriesOrdered, Next, NEW t \in Terms
    PROVE  /\ closedAt[t] <= closedAt'[t]
           /\ reopenedAt'[t] = reopenedAt[t] \/ lastEntry'[t] = "reopened"
<1>1. /\ reopenedAt \in [Terms -> 0 .. MaxTime]
      /\ closedAt \in [Terms -> 0 .. MaxTime]
      /\ lastEntry \in [Terms -> {"none", "closed", "reopened"}]
      /\ clock \in 1 .. MaxTime
  BY DEF TypeOK
<1>2. ASSUME NEW r \in Requests, LogClose(r)
      PROVE  /\ closedAt[t] <= closedAt'[t]
             /\ reopenedAt'[t] = reopenedAt[t]
  BY <1>1, <1>2, TimeAssumption DEF LogClose, EntriesOrdered
<1>3. ASSUME NEW r \in Requests, LogReopen(r)
      PROVE  /\ closedAt[t] <= closedAt'[t]
             /\ reopenedAt'[t] = reopenedAt[t] \/ lastEntry'[t] = "reopened"
  BY <1>1, <1>3, TimeAssumption DEF LogReopen
<1>4. Tick => UNCHANGED <<reopenedAt, closedAt>>
  BY DEF Tick, KeepTerms, terms
<1>5. UNCHANGED <<reopenedAt, closedAt>> =>
        closedAt[t] <= closedAt'[t] /\ reopenedAt'[t] = reopenedAt[t]
  BY <1>1, TimeAssumption
<1> QED
  BY <1>2, <1>3, <1>4, <1>5, EntriesStay

LEMMA SawOpenStays ==
    ASSUME TermKnown', Watch, NEW r \in Requests, req'[r].pc \in MarkPcs,
           r \in sawOpen \/ Writable(req[r].term)'
    PROVE  r \in sawOpen'
<1>1. req'[r].date # None
  BY NullAssumption DEF TermKnown
<1> QED
  BY <1>1 DEF Watch, Marking, MarkingOpen, Writable

\* While a request has not read both entries, what it would say is true now or
\* was true before.
LEMMA AskingKept ==
    ASSUME TypeOK, TermKnown, TermKnown', EntriesOrdered, EntriesOrdered',
           AnswerTrue, Next, Watch,
           NEW r \in Requests, req'[r] = req[r],
           req[r].pc = "markLock", WouldSayReopened(r)'
    PROVE  r \in sawOpen'
<1> DEFINE t == req[r].term
<1>1. /\ t \in Terms /\ req'[r].pc \in MarkPcs
      /\ status'[t] \in {"active", "closed"}
  BY DEF TermKnown, MarkPcs
<1>2. /\ closedAt[t] \in 0 .. MaxTime /\ closedAt'[t] \in 0 .. MaxTime
      /\ reopenedAt[t] \in 0 .. MaxTime
      /\ req[r].reopened \in (0 .. MaxTime) \cup {None}
      /\ req[r].closed \in (0 .. MaxTime) \cup {None}
  <2>1. /\ closedAt \in [Terms -> 0 .. MaxTime]
        /\ reopenedAt \in [Terms -> 0 .. MaxTime]
        /\ req[r] \in Request
    BY DEF TypeOK
  <2>2. closedAt' \in [Terms -> 0 .. MaxTime]
    BY TermsTyped
  <2> QED
    BY <1>1, <2>1, <2>2 DEF Request
<1>3. /\ closedAt[t] <= closedAt'[t]
      /\ reopenedAt'[t] = reopenedAt[t] \/ lastEntry'[t] = "reopened"
  BY <1>1, EntriesGrow
<1>4. lastEntry'[t] = "reopened" => Writable(req[r].term)'
  BY <1>1 DEF Writable
<1>5. isReopened(reopenedAt'[t], closedAt'[t]) => lastEntry'[t] = "reopened"
  BY <1>1 DEF EntriesOrdered, isReopened
<1>6. isReopened(IF req[r].reopened = None THEN reopenedAt'[t] ELSE req[r].reopened,
                 IF req[r].closed = None THEN closedAt'[t] ELSE req[r].closed)
  BY DEF WouldSayReopened, isReopened
<1>7. WouldSayReopened(r) => r \in sawOpen
  BY DEF AnswerTrue
<1>8. WouldSayReopened(r) \/ lastEntry'[t] = "reopened"
  <2>1. CASE req[r].reopened # None /\ req[r].closed # None
    BY <1>6, <2>1 DEF WouldSayReopened
  <2>2. CASE req[r].reopened # None /\ req[r].closed = None
    <3>1. req[r].reopened \in Nat
      BY <1>2, <2>2, TimeAssumption
    <3>2. isReopened(req[r].reopened, closedAt[t])
      BY <1>2, <1>3, <1>6, <2>2, <3>1, TimeAssumption DEF isReopened
    <3> QED
      BY <2>2, <3>2 DEF WouldSayReopened
  <2>3. CASE req[r].reopened = None /\ req[r].closed # None
    <3>1. CASE reopenedAt'[t] = reopenedAt[t]
      BY <1>6, <2>3, <3>1 DEF WouldSayReopened
    <3> QED
      BY <1>3, <3>1
  <2>4. CASE req[r].reopened = None /\ req[r].closed = None
    BY <1>5, <1>6, <2>4
  <2> QED
    BY <2>1, <2>2, <2>3, <2>4
<1> QED
  BY <1>1, <1>4, <1>7, <1>8, SawOpenStays

\* Whoever is let through has seen the term open.
LEMMA AskedKept ==
    ASSUME TypeOK, TermKnown, TermKnown', EntriesOrdered, EntriesOrdered',
           AnswerTrue, OpenWhileAsked, Next, Watch
    PROVE  AnswerTrue' /\ OpenWhileAsked'
<1> DEFINE Passed == {"roster", "prior", "upsert", "logMarked", "logAmended"}
           P(r) == /\ req[r].pc = "markLock" /\ WouldSayReopened(r) => r \in sawOpen
                   /\ req[r].pc \in Passed => r \in sawOpen
<1>1. /\ req \in [Requests -> Request]
      /\ \A q \in Requests : req[q] \in Request
  BY DEF TypeOK
<1>2. \A r \in Requests : P(r)
  BY DEF AnswerTrue, OpenWhileAsked
<1>3. SUFFICES \A r \in Requests : P(r)'
  BY DEF AnswerTrue, OpenWhileAsked
<1>4. ASSUME NEW r \in Requests, req'[r] = req[r]
      PROVE  P(r)'
  <2>1. req'[r].pc = "markLock" /\ WouldSayReopened(r)' => r \in sawOpen'
    BY <1>4, AskingKept
  <2>2. req'[r].pc \in Passed => r \in sawOpen'
    BY <1>2, <1>4, SawOpenStays DEF MarkPcs
  <2> QED
    BY <2>1, <2>2
<1>5. ASSUME NEW r \in Requests,
             r \in sawOpen \/ req'[r].pc \notin MarkPcs
      PROVE  P(r)'
  BY <1>5, SawOpenStays DEF MarkPcs
<1>6. ASSUME NEW r \in Requests, Return(r)
      PROVE  P(r)'
  BY <1>1, <1>5, <1>6 DEF Return, Idle, Locals, MarkPcs
<1>7. ASSUME NEW r \in Requests, Mark(r)
      PROVE  P(r)'
  <2>1. ASSUME NEW date \in Dates, NEW marks \in Payloads,
               MarkStart(r, date, marks)
        PROVE  P(r)'
    <3>1. PICK t \in Terms :
            /\ status[t] \in {"active", "closed"}
            /\ req'[r] = Locals(IF status[t] = "active" THEN "roster"
                                ELSE "markLock", t, date, marks)
      BY <1>1, <2>1 DEF MarkStart
    <3>2. status'[t] = status[t]
      BY <2>1 DEF MarkStart, KeepTerms, terms
    <3>3. /\ req'[r].term = t /\ req'[r].reopened = None /\ req'[r].closed = None
          /\ req'[r].pc = IF status[t] = "active" THEN "roster" ELSE "markLock"
      BY <3>1 DEF Locals
    <3>4. CASE status[t] = "active"
      <4>1. Writable(req[r].term)'
        BY <3>2, <3>3, <3>4 DEF Writable
      <4> QED
        BY <3>3, <3>4, <4>1, SawOpenStays DEF MarkPcs
    <3>5. CASE status[t] = "closed"
      <4>1. WouldSayReopened(r)' => isReopened(reopenedAt'[t], closedAt'[t])
        BY <3>3 DEF WouldSayReopened, isReopened
      <4>2. WouldSayReopened(r)' => Writable(req[r].term)'
        BY <3>2, <3>3, <3>5, <4>1 DEF Writable, EntriesOrdered, isReopened
      <4> QED
        BY <3>3, <3>5, <4>2, SawOpenStays DEF MarkPcs
    <3> QED
      BY <3>1, <3>4, <3>5
  <2>2. CASE ReadRoster(r)
    <3>1. r \in sawOpen
      <4>1. CASE req[r].pc = "roster"
        BY <1>2, <4>1
      <4>2. CASE req[r].pc = "markLock" /\ SaysReopened(r)
        BY <1>2, <4>2 DEF SaysReopened, BothRead, WouldSayReopened
      <4> QED
        BY <2>2, <4>1, <4>2 DEF ReadRoster
    <3> QED
      BY <1>5, <3>1
  <2>3. CASE \/ ReadPrior(r) \/ Commit(r) \/ LogMarked(r) \/ LogAmended(r)
             \/ \E e \in Enrollments : Upsert(r, e)
    <3>1. r \in sawOpen
      BY <1>2, <2>3 DEF ReadPrior, Commit, LogMarked, LogAmended, Upsert
    <3> QED
      BY <1>5, <3>1
  <2> QED
    BY <1>7, <2>1, <2>2, <2>3 DEF Mark
<1>8. ASSUME NEW r \in Requests, ReadReopened(r) \/ ReadClosed(r),
             req[r].pc = "markLock", WouldSayReopened(r)'
      PROVE  WouldSayReopened(r)
  <2>1. /\ UNCHANGED <<reopenedAt, closedAt>>
        /\ req'[r].term = req[r].term
    BY <1>1, <1>8 DEF ReadReopened, ReadClosed, KeepTerms, terms, Request
  <2>2. isReopened(IF req'[r].reopened = None THEN reopenedAt[req[r].term]
                   ELSE req'[r].reopened,
                   IF req'[r].closed = None THEN closedAt[req[r].term]
                   ELSE req'[r].closed)
    BY <1>8, <2>1 DEF WouldSayReopened, isReopened
  <2>3. CASE ReadReopened(r)
    <3>1. /\ req[r].reopened = None /\ req'[r].closed = req[r].closed
          /\ req'[r].reopened = reopenedAt[req[r].term]
      BY <1>1, <2>3 DEF ReadReopened, Request
    <3> QED
      BY <2>2, <3>1 DEF WouldSayReopened
  <2>4. CASE ReadClosed(r)
    <3>1. /\ req[r].closed = None /\ req'[r].reopened = req[r].reopened
          /\ req'[r].closed = closedAt[req[r].term]
      BY <1>1, <2>4 DEF ReadClosed, Request
    <3> QED
      BY <2>2, <3>1 DEF WouldSayReopened
  <2> QED
    BY <1>8, <2>3, <2>4
<1>9. ASSUME NEW r \in Requests, Lock(r)
      PROVE  P(r)'
  <2>1. CASE \E t \in Terms : CloseTerm(r, t) \/ ReopenStart(r, t)
    BY <1>1, <1>5, <2>1 DEF CloseTerm, ReopenStart, Locals, MarkPcs
  <2>2. CASE LogClose(r) \/ LogReopen(r) \/ Refuse(r)
    BY <1>6, <2>2 DEF LogClose, LogReopen, Refuse
  <2>3. CASE ReadReopened(r) \/ ReadClosed(r)
    <3>1. req'[r].pc = req[r].pc /\ req[r].pc \in {"markLock", "reopenLock"}
      BY <1>1, <2>3 DEF ReadReopened, ReadClosed, Request
    <3>2. CASE req[r].pc = "reopenLock"
      BY <1>5, <3>1, <3>2 DEF MarkPcs
    <3>3. CASE req[r].pc = "markLock"
      <4>1. WouldSayReopened(r)' => r \in sawOpen
        BY <1>2, <1>8, <2>3, <3>3
      <4>2. WouldSayReopened(r)' => r \in sawOpen'
        BY <3>1, <3>3, <4>1, SawOpenStays DEF MarkPcs
      <4> QED
        BY <3>1, <3>3, <4>2
    <3> QED
      BY <3>1, <3>2, <3>3
  <2> QED
    BY <1>9, <2>1, <2>2, <2>3 DEF Lock
<1>10. ASSUME NEW r \in Requests, Fail(r)
       PROVE  P(r)'
  BY <1>6, <1>10 DEF Fail
<1> HIDE DEF P
<1>11. CASE \E r \in Requests : Mark(r) \/ Lock(r) \/ Fail(r)
  <2> PICK r \in Requests : Mark(r) \/ Lock(r) \/ Fail(r)
    BY <1>11
  <2>1. \A q \in Requests \ {r} : P(q)'
    BY <1>4, OthersStay
  <2>2. P(r)'
    BY <1>7, <1>9, <1>10
  <2> QED
    BY <2>1, <2>2
<1>12. CASE UNCHANGED req
  BY <1>4, <1>12
<1> QED
  BY <1>11, <1>12
  DEF Next, CreateTerm, UpdateTerm, Activate, ChangeEnrollment, Tick
-----------------------------------------------------------------------------
\* A request is let in for no day ahead, and marks no day but its own.
LEMMA AheadKept ==
    ASSUME TypeOK, NothingAhead, Next
    PROVE  NothingAhead'
<1>1. req \in [Requests -> Request]
  BY DEF TypeOK
<1> DEFINE Own(r) == req'[r].pc \in MarkPcs => req'[r].date <= Today
           Others(r) == \A q \in Requests \ {r} : req'[q] = req[q]
           Unmarked == \A s \in Slots : register'[s] # NoRow => s[2] <= Today
<1> USE <1>1 DEF NothingAhead
<1>2. ASSUME NEW r \in Requests, Mark(r)
      PROVE  Own(r) /\ Others(r) /\ Unmarked
  <2>1. CASE \E date \in Dates, marks \in Payloads : MarkStart(r, date, marks)
    BY <2>1 DEF MarkStart, Locals, Request, KeepRegister
  <2>2. CASE ReadRoster(r)
    BY <2>2 DEF ReadRoster, Return, Idle, Locals, Request, MarkPcs, KeepRegister
  <2>3. CASE ReadPrior(r)
    BY <2>3 DEF ReadPrior, Idle, Locals, Request, MarkPcs, KeepRegister
  <2>4. CASE \E e \in Enrollments : Upsert(r, e)
    BY <2>4 DEF Upsert, Request
  <2>5. CASE Commit(r)
    <3>1. req[r].date <= Today
      BY <2>5 DEF Commit, MarkPcs
    <3>2. \A s \in Slots : s \in Touched(r) => s[2] = req[r].date
      BY DEF Touched
    <3>3. \A s \in Slots : s \notin Touched(r) => register'[s] = register[s]
      BY <2>5 DEF Commit
    <3>4. Unmarked
      BY <3>1, <3>2, <3>3
    <3>5. Own(r) /\ Others(r)
      BY <2>5, <3>1 DEF Commit, Request
    <3> QED
      BY <3>4, <3>5
  <2>6. CASE LogMarked(r) \/ LogAmended(r)
    BY <2>6 DEF LogMarked, LogAmended, Return, Idle, Locals, Request, MarkPcs,
                KeepRegister
  <2> QED
    BY <1>2, <2>1, <2>2, <2>3, <2>4, <2>5, <2>6 DEF Mark
<1>3. ASSUME NEW r \in Requests, Lock(r)
      PROVE  Own(r) /\ Others(r) /\ Unmarked
  BY <1>3 DEF Lock, CloseTerm, ReopenStart, LogClose, LogReopen, ReadReopened,
              ReadClosed, Refuse, Return, Idle, Locals, Request, MarkPcs,
              KeepRegister
<1>4. ASSUME NEW r \in Requests, Fail(r)
      PROVE  Own(r) /\ Others(r) /\ Unmarked
  BY <1>4 DEF Fail, Return, Idle, Locals, Request, MarkPcs
<1>5. CASE \E r \in Requests : Own(r) /\ Others(r) /\ Unmarked
  BY <1>5
<1>6. CASE UNCHANGED <<req, register>>
  BY <1>6
<1>7. \/ \E r \in Requests : Mark(r) \/ Lock(r) \/ Fail(r)
      \/ UNCHANGED <<req, register>>
  BY DEF Next, CreateTerm, UpdateTerm, Activate, ChangeEnrollment, Tick,
         KeepRegister
<1> QED
  BY <1>2, <1>3, <1>4, <1>5, <1>6, <1>7
-----------------------------------------------------------------------------
LEMMA StepKeepsInv == RegisterInv /\ [Next]_vars => RegisterInv'
<1>1. ASSUME RegisterInv, Next
      PROVE  RegisterInv'
  <2>1. Next /\ Watch
    BY <1>1, NextWatches
  <2>2. TypeOK' /\ TermKnown' /\ EntriesOrdered' /\ TouchedMarked'
    BY <1>1, <2>1, TypeKept, TermKept, EntriesKept, TouchedKept DEF RegisterInv
  <2>3. AnswerTrue' /\ OpenWhileAsked'
    BY <1>1, <2>1, <2>2, AskedKept DEF RegisterInv
  <2>4. LockHolds' /\ RegisterExplained'
    BY <1>1, <2>1, LockKept, ToldKept DEF RegisterInv
  <2>5. NothingAhead'
    BY <1>1, AheadKept DEF RegisterInv
  <2> QED
    BY <2>2, <2>3, <2>4, <2>5 DEF RegisterInv
<1>2. ASSUME RegisterInv, UNCHANGED vars
      PROVE  RegisterInv'
  <2>1. TypeOK' /\ TermKnown' /\ EntriesOrdered' /\ TouchedMarked'
    BY <1>2 DEF RegisterInv, vars, terms, ghosts, TypeOK, TermKnown,
                EntriesOrdered, TouchedMarked
  <2>2. AnswerTrue' /\ OpenWhileAsked'
    BY <1>2 DEF RegisterInv, vars, terms, ghosts, AnswerTrue, OpenWhileAsked,
                WouldSayReopened
  <2>3. LockHolds' /\ RegisterExplained'
    BY <1>2 DEF RegisterInv, vars, terms, ghosts, LockHolds, RegisterExplained,
                Touched
  <2>4. NothingAhead'
    BY <1>2 DEF RegisterInv, vars, terms, ghosts, NothingAhead
  <2> QED
    BY <2>1, <2>2, <2>3, <2>4 DEF RegisterInv
<1> QED
  BY <1>1, <1>2

\* The invariant that TLC checks on the instance holds for all constants.
THEOREM RegisterSafe == Spec => []RegisterInv
BY InvInit, StepKeepsInv, PTL DEF Spec

\* Three reads at three moments never let a mark through to a term that was
\* locked all the while: isReopened reads the two entries side by side.
THEOREM NobodySlipsIn == Spec => []OpenWhileAsked
<1>1. RegisterInv => OpenWhileAsked
  BY DEF RegisterInv
<1> QED
  BY <1>1, RegisterSafe, PTL

\* However often a term was reopened before, closing it locks it again, unless
\* the close has not written its entry.
THEOREM ClosingLocks == Spec => []LockHolds
<1>1. RegisterInv => LockHolds
  BY DEF RegisterInv
<1> QED
  BY <1>1, RegisterSafe, PTL

\* Every value in the register has an entry, or an author who is about to write
\* it, or one who failed first.
THEOREM EveryMarkLogged == Spec => []RegisterExplained
<1>1. RegisterInv => RegisterExplained
  BY DEF RegisterInv
<1> QED
  BY <1>1, RegisterSafe, PTL
-----------------------------------------------------------------------------
(* Tallies.                                                                *)

\* What a tally counts, one by one.
StatusHits(rows, c) ==
    {x \in (DOMAIN rows) \X Sessions : rows[x[1]][x[2]] = c}
ShapeHits(rows, c) == {x \in DOMAIN rows : Shape(rows[x]) = c}

LEMMA StatusTally ==
    ASSUME NEW rows, NEW c \in AttendanceStatuses
    PROVE  tally(rows)[c] = Cardinality(StatusHits(rows, c))
BY DEF tally, StatusHits, Counted, AttendanceStatuses, DayShapes

LEMMA ShapeTally ==
    ASSUME NEW rows, NEW c \in DayShapes
    PROVE  tally(rows)[c] = Cardinality(ShapeHits(rows, c))
BY DEF tally, ShapeHits, Counted, AttendanceStatuses, DayShapes

LEMMA DaysTally ==
    ASSUME NEW rows
    PROVE  tally(rows)["daysMarked"] = Cardinality(DOMAIN rows)
BY DEF tally, Counted, AttendanceStatuses, DayShapes

LEMMA TallyIsFunction ==
    ASSUME NEW rows
    PROVE  tally(rows) = [c \in Counted |-> tally(rows)[c]]
BY DEF tally

LEMMA HitsFinite ==
    ASSUME NEW rows, IsFiniteSet(DOMAIN rows), NEW c
    PROVE  IsFiniteSet(StatusHits(rows, c)) /\ IsFiniteSet(ShapeHits(rows, c))
<1>1. IsFiniteSet(Sessions) /\ Cardinality(Sessions) = 2
  <2>1. Sessions = {"am"} \cup {"pm"}
    BY DEF Sessions
  <2>2. IsFiniteSet({"am"}) /\ Cardinality({"am"}) = 1
    BY FS_Singleton
  <2> QED
    BY <2>1, <2>2, FS_AddElement
<1>2. IsFiniteSet((DOMAIN rows) \X Sessions)
  BY <1>1, FS_Product
<1>3. StatusHits(rows, c) \in SUBSET ((DOMAIN rows) \X Sessions)
  BY DEF StatusHits
<1>4. ShapeHits(rows, c) \in SUBSET DOMAIN rows
  BY DEF ShapeHits
<1>5. IsFiniteSet(StatusHits(rows, c))
  BY <1>2, <1>3, FS_Subset
<1>6. IsFiniteSet(ShapeHits(rows, c))
  BY <1>4, FS_Subset
<1> QED
  BY <1>5, <1>6

\* The rows are in some parts.
Splits(rows, parts) ==
    /\ InParts(DOMAIN rows, [k \in DOMAIN parts |-> DOMAIN parts[k]])
    /\ \A k \in DOMAIN parts : \A x \in DOMAIN parts[k] : parts[k][x] = rows[x]

Column(parts, c) == [k \in DOMAIN parts |-> tally(parts[k])[c]]

\* A figure of the rows is the sum of the figures of the parts.
LEMMA TallyOfParts ==
    ASSUME NEW rows, NEW parts, Splits(rows, parts), NEW c \in Counted
    PROVE  tally(rows)[c] = SumOf(Column(parts, c), DOMAIN parts)
<1>1. /\ IsFiniteSet(DOMAIN rows) /\ IsFiniteSet(DOMAIN parts)
      /\ \A x \in DOMAIN rows : \E k \in DOMAIN parts : x \in DOMAIN parts[k]
      /\ \A k \in DOMAIN parts : \A x \in DOMAIN parts[k] : x \in DOMAIN rows
      /\ \A k, l \in DOMAIN parts :
           k # l => (DOMAIN parts[k]) \cap (DOMAIN parts[l]) = {}
  BY DEF Splits, InParts
<1>2. \A k \in DOMAIN parts : \A x \in DOMAIN parts[k] : parts[k][x] = rows[x]
  BY DEF Splits
<1>3. CASE c \in AttendanceStatuses
  <2> DEFINE part == [k \in DOMAIN parts |-> StatusHits(parts[k], c)]
  <2>1. IsFiniteSet(StatusHits(rows, c))
    BY <1>1, HitsFinite
  <2>2. StatusHits(rows, c) = UNION {part[k] : k \in DOMAIN part}
    <3>1. ASSUME NEW x \in StatusHits(rows, c)
          PROVE  \E k \in DOMAIN parts : x \in part[k]
      <4>1. PICK k \in DOMAIN parts : x[1] \in DOMAIN parts[k]
        BY <1>1 DEF StatusHits
      <4> QED
        BY <1>2, <4>1 DEF StatusHits
    <3>2. ASSUME NEW k \in DOMAIN parts
          PROVE  part[k] \subseteq StatusHits(rows, c)
      BY <1>1, <1>2 DEF StatusHits
    <3> QED
      BY <3>1, <3>2
  <2>3. \A k, l \in DOMAIN part : k # l => part[k] \cap part[l] = {}
    BY <1>1 DEF StatusHits
  <2>4. \A k \in DOMAIN part : Column(parts, c)[k] = Cardinality(part[k])
    BY <1>3, StatusTally DEF Column
  <2>5. IsFiniteSet(DOMAIN part) /\ DOMAIN part = DOMAIN parts
    BY <1>1
  <2> HIDE DEF part
  <2>6. CountsUp(Column(parts, c), StatusHits(rows, c), part)
    BY <2>1, <2>2, <2>3, <2>4, <2>5 DEF CountsUp, InParts
  <2>7. Cardinality(StatusHits(rows, c)) = SumOf(Column(parts, c), DOMAIN part)
    BY <2>6, CountOfParts
  <2> QED
    BY <1>3, <2>5, <2>7, StatusTally
<1>4. CASE c \in DayShapes
  <2> DEFINE part == [k \in DOMAIN parts |-> ShapeHits(parts[k], c)]
  <2>1. IsFiniteSet(ShapeHits(rows, c))
    BY <1>1, HitsFinite
  <2>2. ShapeHits(rows, c) = UNION {part[k] : k \in DOMAIN part}
    <3>1. ASSUME NEW x \in ShapeHits(rows, c)
          PROVE  \E k \in DOMAIN parts : x \in part[k]
      <4>1. PICK k \in DOMAIN parts : x \in DOMAIN parts[k]
        BY <1>1 DEF ShapeHits
      <4> QED
        BY <1>2, <4>1 DEF ShapeHits
    <3>2. ASSUME NEW k \in DOMAIN parts
          PROVE  part[k] \subseteq ShapeHits(rows, c)
      BY <1>1, <1>2 DEF ShapeHits
    <3> QED
      BY <3>1, <3>2
  <2>3. \A k, l \in DOMAIN part : k # l => part[k] \cap part[l] = {}
    BY <1>1 DEF ShapeHits
  <2>4. \A k \in DOMAIN part : Column(parts, c)[k] = Cardinality(part[k])
    BY <1>4, ShapeTally DEF Column
  <2>5. IsFiniteSet(DOMAIN part) /\ DOMAIN part = DOMAIN parts
    BY <1>1
  <2> HIDE DEF part
  <2>6. CountsUp(Column(parts, c), ShapeHits(rows, c), part)
    BY <2>1, <2>2, <2>3, <2>4, <2>5 DEF CountsUp, InParts
  <2>7. Cardinality(ShapeHits(rows, c)) = SumOf(Column(parts, c), DOMAIN part)
    BY <2>6, CountOfParts
  <2> QED
    BY <1>4, <2>5, <2>7, ShapeTally
<1>5. CASE c = "daysMarked"
  <2> DEFINE part == [k \in DOMAIN parts |-> DOMAIN parts[k]]
  <2>1. \A k \in DOMAIN part : Column(parts, c)[k] = Cardinality(part[k])
    BY <1>5, DaysTally DEF Column
  <2>2. InParts(DOMAIN rows, part) /\ DOMAIN part = DOMAIN parts
    BY DEF Splits
  <2> HIDE DEF part
  <2>3. CountsUp(Column(parts, c), DOMAIN rows, part)
    BY <2>1, <2>2 DEF CountsUp
  <2>4. Cardinality(DOMAIN rows) = SumOf(Column(parts, c), DOMAIN part)
    BY <2>3, CountOfParts
  <2> QED
    BY <1>5, <2>2, <2>4, DaysTally
<1> QED
  BY <1>3, <1>4, <1>5 DEF Counted

\* The same rows, identified by something else.
Renames(f, rows, moved) ==
    /\ IsFiniteSet(DOMAIN rows)
    /\ f \in [DOMAIN rows -> DOMAIN moved]
    /\ \A x, y \in DOMAIN rows : f[x] = f[y] => x = y
    /\ \A z \in DOMAIN moved : \E x \in DOMAIN rows : z = f[x]
    /\ \A x \in DOMAIN rows : moved[f[x]] = rows[x]

LEMMA TallyMoved ==
    ASSUME NEW rows, NEW moved, NEW f, Renames(f, rows, moved)
    PROVE  tally(moved) = tally(rows)
<1> SUFFICES ASSUME NEW c \in Counted
             PROVE  tally(moved)[c] = tally(rows)[c]
  BY TallyIsFunction
<1>1. /\ f \in [DOMAIN rows -> DOMAIN moved]
      /\ \A x, y \in DOMAIN rows : f[x] = f[y] => x = y
      /\ \A z \in DOMAIN moved : \E x \in DOMAIN rows : z = f[x]
      /\ \A x \in DOMAIN rows : moved[f[x]] = rows[x]
  BY DEF Renames
<1>2. IsFiniteSet(DOMAIN rows)
  BY DEF Renames
<1>3. CASE c \in AttendanceStatuses
  <2> DEFINE S == StatusHits(rows, c)
             T == StatusHits(moved, c)
             g == [x \in S |-> <<f[x[1]], x[2]>>]
  <2>1. IsFiniteSet(S)
    BY <1>2, HitsFinite
  <2>2. g \in [S -> T]
    <3> SUFFICES ASSUME NEW x \in S PROVE <<f[x[1]], x[2]>> \in T
      OBVIOUS
    <3>1. x[1] \in DOMAIN rows /\ x[2] \in Sessions /\ rows[x[1]][x[2]] = c
      BY DEF StatusHits
    <3> QED
      BY <1>1, <3>1 DEF StatusHits
  <2>3. \A x, y \in S : g[x] = g[y] => x = y
    BY <1>1 DEF StatusHits
  <2>4. \A z \in T : \E x \in S : z = g[x]
    <3> SUFFICES ASSUME NEW z \in T PROVE \E x \in S : z = g[x]
      OBVIOUS
    <3>1. /\ z = <<z[1], z[2]>> /\ z[1] \in DOMAIN moved /\ z[2] \in Sessions
          /\ moved[z[1]][z[2]] = c
      BY DEF StatusHits
    <3>2. PICK x \in DOMAIN rows : z[1] = f[x]
      BY <1>1, <3>1
    <3>3. <<x, z[2]>> \in S
      BY <1>1, <3>1, <3>2 DEF StatusHits
    <3>4. g[<<x, z[2]>>] = <<f[x], z[2]>>
      BY <3>3
    <3> QED
      BY <3>1, <3>2, <3>3, <3>4
  <2> HIDE DEF S, T, g
  <2>5. Cardinality(T) = Cardinality(S)
    BY <2>1, <2>2, <2>3, <2>4, SameCount
  <2> QED
    BY <1>3, <2>5, StatusTally DEF S, T
<1>4. CASE c \in DayShapes
  <2> DEFINE S == ShapeHits(rows, c)
             T == ShapeHits(moved, c)
             g == [x \in S |-> f[x]]
  <2>1. IsFiniteSet(S)
    BY <1>2, HitsFinite
  <2>2. g \in [S -> T]
    BY <1>1 DEF ShapeHits
  <2>3. \A x, y \in S : g[x] = g[y] => x = y
    BY <1>1 DEF ShapeHits
  <2>4. \A z \in T : \E x \in S : z = g[x]
    BY <1>1 DEF ShapeHits
  <2> HIDE DEF S, T, g
  <2>5. Cardinality(T) = Cardinality(S)
    BY <2>1, <2>2, <2>3, <2>4, SameCount
  <2> QED
    BY <1>4, <2>5, ShapeTally DEF S, T
<1>5. CASE c = "daysMarked"
  <2>1. Cardinality(DOMAIN moved) = Cardinality(DOMAIN rows)
    BY <1>1, <1>2, SameCount
  <2> QED
    BY <1>5, <2>1, DaysTally
<1> QED
  BY <1>3, <1>4, <1>5 DEF Counted

LEMMA TwoSessions == IsFiniteSet(Sessions) /\ Cardinality(Sessions) = 2
<1>1. Sessions = {"am"} \cup {"pm"}
  BY DEF Sessions
<1>2. IsFiniteSet({"am"}) /\ Cardinality({"am"}) = 1
  BY FS_Singleton
<1> QED
  BY <1>1, <1>2, FS_AddElement

\* The sum of four figures.
LEMMA SumOfStatuses ==
    ASSUME NEW f, \A c \in AttendanceStatuses : f[c] \in Int
    PROVE  SumOf(f, AttendanceStatuses)
             = f["present"] + f["absent"] + f["late"] + f["excused"]
<1> DEFINE A == {"present"}
           B == A \cup {"absent"}
           C == B \cup {"late"}
           D == C \cup {"excused"}
<1>1. /\ f["present"] \in Int /\ f["absent"] \in Int
      /\ f["late"] \in Int /\ f["excused"] \in Int
  BY DEF AttendanceStatuses
<1>2. IsFiniteSet(A) /\ SumOf(f, A) = f["present"]
  BY <1>1, SumOne, FS_Singleton
<1>3. IsFiniteSet(B) /\ SumOf(f, B) = f["absent"] + SumOf(f, A)
  <2>1. "absent" \notin A /\ \A y \in A \cup {"absent"} : f[y] \in Int
    BY <1>1
  <2> QED
    BY <1>2, <2>1, SumAdd, FS_AddElement
<1>4. IsFiniteSet(C) /\ SumOf(f, C) = f["late"] + SumOf(f, B)
  <2>1. "late" \notin B /\ \A y \in B \cup {"late"} : f[y] \in Int
    BY <1>1
  <2> HIDE DEF B
  <2> QED
    BY <1>3, <2>1, SumAdd, FS_AddElement
<1>5. SumOf(f, D) = f["excused"] + SumOf(f, C)
  <2>1. "excused" \notin C /\ \A y \in C \cup {"excused"} : f[y] \in Int
    BY <1>1
  <2> HIDE DEF C
  <2> QED
    BY <1>4, <2>1, SumAdd
<1>6. AttendanceStatuses = D
  BY DEF AttendanceStatuses
<1> HIDE DEF A, B, C, D
<1> QED
  BY <1>1, <1>2, <1>3, <1>4, <1>5, <1>6

\* Every row states one of four statuses for each of its two sessions.
LEMMA SessionsTallied ==
    ASSUME NEW rows, IsFiniteSet(DOMAIN rows),
           \A x \in DOMAIN rows : rows[x] \in Value
    PROVE  /\ \A c \in AttendanceStatuses : tally(rows)[c] \in Nat
           /\ tally(rows)["daysMarked"] \in Nat
           /\ tally(rows)["present"] + tally(rows)["absent"]
                + tally(rows)["late"] + tally(rows)["excused"]
                = 2 * tally(rows)["daysMarked"]
<1> DEFINE S == (DOMAIN rows) \X Sessions
           part == [c \in AttendanceStatuses |-> StatusHits(rows, c)]
           counts == [c \in AttendanceStatuses |-> tally(rows)[c]]
<1>1. /\ IsFiniteSet(S) /\ Cardinality(DOMAIN rows) \in Nat
      /\ Cardinality(S) = Cardinality(DOMAIN rows) * 2
  BY TwoSessions, FS_Product, FS_CardinalityType
<1>2. \A c \in AttendanceStatuses :
        counts[c] = Cardinality(part[c]) /\ counts[c] \in Nat
  <2> SUFFICES ASSUME NEW c \in AttendanceStatuses
               PROVE  counts[c] = Cardinality(part[c]) /\ counts[c] \in Nat
    OBVIOUS
  <2>1. IsFiniteSet(StatusHits(rows, c))
    BY HitsFinite
  <2>2. Cardinality(StatusHits(rows, c)) \in Nat
    BY <2>1, FS_CardinalityType
  <2> QED
    BY <2>2, StatusTally
<1>3. S = UNION {part[c] : c \in AttendanceStatuses}
  <2>1. ASSUME NEW x \in S
        PROVE  \E c \in AttendanceStatuses : x \in part[c]
    <3>1. x[1] \in DOMAIN rows /\ x[2] \in Sessions
      OBVIOUS
    <3>2. rows[x[1]][x[2]] \in AttendanceStatuses
      BY <3>1 DEF Value
    <3> QED
      BY <3>2 DEF StatusHits
  <2>2. \A c \in AttendanceStatuses : part[c] \subseteq S
    BY DEF StatusHits
  <2> QED
    BY <2>1, <2>2
<1>4. \A c, d \in AttendanceStatuses : c # d => part[c] \cap part[d] = {}
  BY DEF StatusHits
<1>5. IsFiniteSet(AttendanceStatuses)
  <2>1. IsFiniteSet({"present", "absent"})
    <3>1. {"present", "absent"} = {"present"} \cup {"absent"}
      OBVIOUS
    <3>2. IsFiniteSet({"present"})
      BY FS_Singleton
    <3>3. IsFiniteSet({"present"} \cup {"absent"})
      BY <3>2, FS_AddElement
    <3> QED
      BY <3>1, <3>3
  <2>2. IsFiniteSet({"present", "absent"} \cup {"late"})
    BY <2>1, FS_AddElement
  <2>3. IsFiniteSet(({"present", "absent"} \cup {"late"}) \cup {"excused"})
    BY <2>2, FS_AddElement
  <2>4. AttendanceStatuses
          = ({"present", "absent"} \cup {"late"}) \cup {"excused"}
    BY DEF AttendanceStatuses
  <2> QED
    BY <2>3, <2>4
<1>6. DOMAIN part = AttendanceStatuses
  OBVIOUS
<1>7. \A c \in AttendanceStatuses : counts[c] = tally(rows)[c]
  OBVIOUS
<1> HIDE DEF S, part, counts
<1>8. CountsUp(counts, S, part)
  BY <1>1, <1>2, <1>3, <1>4, <1>5, <1>6 DEF CountsUp, InParts
<1>9. Cardinality(S) = SumOf(counts, AttendanceStatuses)
  BY <1>6, <1>8, CountOfParts
<1>10. SumOf(counts, AttendanceStatuses)
         = counts["present"] + counts["absent"] + counts["late"]
             + counts["excused"]
  <2>1. \A c \in AttendanceStatuses : counts[c] \in Int
    BY <1>2
  <2> QED
    BY <2>1, SumOfStatuses
<1>11. {"present", "absent", "late", "excused"} = AttendanceStatuses
  BY DEF AttendanceStatuses
<1>12. tally(rows)["daysMarked"] = Cardinality(DOMAIN rows)
  BY DaysTally
<1>13. \A c \in AttendanceStatuses : tally(rows)[c] \in Nat
  BY <1>2, <1>7
<1>14. tally(rows)["present"] + tally(rows)["absent"]
         + tally(rows)["late"] + tally(rows)["excused"]
         = Cardinality(DOMAIN rows) * 2
  BY <1>1, <1>7, <1>9, <1>10, <1>11
<1> QED
  BY <1>1, <1>12, <1>13, <1>14

ShownIn(day) == Cardinality({s \in Sessions : countsAsPresent(day[s])})

\* The sessions that a grid shows as present, day by day.
LEMMA PresentShown ==
    ASSUME NEW rows, IsFiniteSet(DOMAIN rows)
    PROVE  SumOf([x \in DOMAIN rows |-> ShownIn(rows[x])], DOMAIN rows)
             = tally(rows)["present"] + tally(rows)["late"]
<1> DEFINE P == StatusHits(rows, "present")
           L == StatusHits(rows, "late")
           marks(x) == {s \in Sessions : countsAsPresent(rows[x][s])}
           part == [x \in DOMAIN rows |-> {x} \X marks(x)]
           counts == [x \in DOMAIN rows |-> ShownIn(rows[x])]
<1>1. IsFiniteSet(P) /\ IsFiniteSet(L)
  BY HitsFinite
<1>2. P \cap L = {}
  BY DEF StatusHits
<1>3. /\ Cardinality(P \cup L) = Cardinality(P) + Cardinality(L)
      /\ IsFiniteSet(P \cup L)
  <2>1. Cardinality({}) = 0
    BY FS_EmptySet
  <2>2. /\ IsFiniteSet(P \cup L)
        /\ Cardinality(P \cup L)
             = Cardinality(P) + Cardinality(L) - Cardinality(P \cap L)
    BY <1>1, FS_Union
  <2>3. Cardinality(P) \in Nat /\ Cardinality(L) \in Nat
    BY <1>1, FS_CardinalityType
  <2>4. Cardinality(P \cap L) = 0
    BY <1>2, <2>1
  <2> HIDE DEF P, L
  <2> QED
    BY <2>2, <2>3, <2>4
<1>4. P \cup L = UNION {part[x] : x \in DOMAIN rows}
  <2>1. ASSUME NEW x \in DOMAIN rows, NEW s \in Sessions
        PROVE  <<x, s>> \in P \cup L <=> <<x, s>> \in part[x]
    BY DEF StatusHits, countsAsPresent, PRESENT_STATUSES
  <2>2. \A z \in P \cup L :
          z = <<z[1], z[2]>> /\ z[1] \in DOMAIN rows /\ z[2] \in Sessions
    BY DEF StatusHits
  <2>3. \A x \in DOMAIN rows : \A z \in part[x] :
          z = <<x, z[2]>> /\ z[2] \in Sessions
    OBVIOUS
  <2> HIDE DEF P, L, part
  <2> QED
    BY <2>1, <2>2, <2>3
<1>5. \A x, y \in DOMAIN rows : x # y => part[x] \cap part[y] = {}
  OBVIOUS
<1>6. \A x \in DOMAIN rows : counts[x] = Cardinality(part[x])
  <2> SUFFICES ASSUME NEW x \in DOMAIN rows
               PROVE  ShownIn(rows[x]) = Cardinality({x} \X marks(x))
    OBVIOUS
  <2>1. marks(x) \in SUBSET Sessions
    OBVIOUS
  <2>2. ShownIn(rows[x]) = Cardinality(marks(x))
    BY DEF ShownIn
  <2> HIDE DEF marks
  <2>3. IsFiniteSet(marks(x)) /\ Cardinality(marks(x)) \in Nat
    BY <2>1, TwoSessions, FS_Subset, FS_CardinalityType
  <2>4. IsFiniteSet({x}) /\ Cardinality({x}) = 1
    BY FS_Singleton
  <2>5. Cardinality({x} \X marks(x)) = Cardinality({x}) * Cardinality(marks(x))
    BY <2>3, <2>4, FS_Product
  <2> QED
    BY <2>2, <2>3, <2>4, <2>5
<1>7. DOMAIN part = DOMAIN rows
  OBVIOUS
<1>8. /\ tally(rows)["present"] = Cardinality(P)
      /\ tally(rows)["late"] = Cardinality(L)
  BY StatusTally DEF AttendanceStatuses
<1> HIDE DEF P, L, part
<1>9. CountsUp(counts, P \cup L, part)
  BY <1>3, <1>4, <1>5, <1>6, <1>7 DEF CountsUp, InParts
<1>10. Cardinality(P \cup L) = SumOf(counts, DOMAIN rows)
  BY <1>7, <1>9, CountOfParts
<1> QED
  BY <1>3, <1>8, <1>10

-----------------------------------------------------------------------------
(* The fold of tallies.                                                    *)

Added(g, tallies, s) ==
    IF s = {} THEN emptyTally
    ELSE addTallies(g[s \ {Pick(s)}], tallies[Pick(s)])

Folds(g, tallies, S) == g = [s \in SUBSET S |-> Added(g, tallies, s)]

Folded(tallies) ==
    FoldFunction(LAMBDA one, total : addTallies(total, one), emptyTally,
                 tallies)

LEMMA FoldIsSolution ==
    ASSUME NEW tallies
    PROVE  Folded(tallies)
             = (CHOOSE g : Folds(g, tallies, DOMAIN tallies))[DOMAIN tallies]
BY DEF Folded, FoldFunction, FoldFunctionOnSet, MapThenFoldSet, Folds, Added,
       Pick

\* Folding tallies adds them up, figure by figure.
LEMMA FoldAddsUp ==
    ASSUME NEW parts, IsFiniteSet(DOMAIN parts),
           \A k \in DOMAIN parts : \A c \in Counted : tally(parts[k])[c] \in Int
    PROVE  Folded([k \in DOMAIN parts |-> tally(parts[k])])
             = [c \in Counted |-> SumOf(Column(parts, c), DOMAIN parts)]
<1> DEFINE S == DOMAIN parts
           tallies == [k \in S |-> tally(parts[k])]
           h == [s \in SUBSET S |->
                   [c \in Counted |-> SumOf(Column(parts, c), s)]]
<1>1. \A s \in SUBSET S : IsFiniteSet(s) /\ Cardinality(s) \in Nat
  BY FS_Subset, FS_CardinalityType
<1>2. \A c \in Counted : \A k \in S :
        Column(parts, c)[k] = tallies[k][c] /\ Column(parts, c)[k] \in Int
  BY DEF Column
<1>3. DOMAIN tallies = S
  OBVIOUS
<1>4. IsFiniteSet(S)
  OBVIOUS
<1> HIDE DEF S, tallies
<1>5. ASSUME NEW s \in SUBSET S
      PROVE  h[s] = Added(h, tallies, s)
  <2>1. CASE s = {}
    <3>1. \A c \in Counted : SumOf(Column(parts, c), {}) = 0
      BY SumEmpty
    <3> QED
      BY <2>1, <3>1 DEF Added, emptyTally
  <2>2. CASE s # {}
    <3> DEFINE p == Pick(s)
    <3>1. p \in s /\ s \ {p} \in SUBSET S
      BY <1>1, <2>2, Picked
    <3>2. ASSUME NEW c \in Counted
          PROVE  SumOf(Column(parts, c), s)
                   = SumOf(Column(parts, c), s \ {p}) + tallies[p][c]
      <4> DEFINE f == Column(parts, c)
      <4>1. \A x \in S : f[x] \in Int
        BY <1>2
      <4>2. f[p] = tallies[p][c] /\ f[p] \in Int
        BY <1>2, <3>1
      <4> HIDE DEF f, p
      <4>3. SumOf(f, s) = f[p] + SumOf(f, s \ {p})
        BY <1>4, <3>1, <4>1, SumFirst
      <4>4. SumOf(f, s \ {p}) \in Int
        BY <1>4, <3>1, <4>1, SumFirst
      <4> QED
        BY <4>2, <4>3, <4>4 DEF f
    <3> HIDE DEF p
    <3>3. h[s] = addTallies(h[s \ {p}], tallies[p])
      BY <3>1, <3>2 DEF addTallies
    <3> QED
      BY <2>2, <3>3 DEF Added, p
  <2> QED
    BY <2>1, <2>2
<1>6. Folds(h, tallies, S)
  <2>1. h = [s \in SUBSET S |-> Added(h, tallies, s)]
    <3>1. \A s \in SUBSET S : h[s] = Added(h, tallies, s)
      BY <1>5
    <3>2. h = [s \in SUBSET S |-> h[s]]
      OBVIOUS
    <3> HIDE DEF h
    <3> QED
      BY <3>1, <3>2
  <2> QED
    BY <2>1 DEF Folds
<1>7. PICK g : /\ Folds(g, tallies, S)
               /\ Folded(tallies) = g[S]
  <2>1. Folds(CHOOSE g : Folds(g, tallies, S), tallies, S)
    BY <1>6
  <2>2. Folded(tallies) = (CHOOSE g : Folds(g, tallies, S))[S]
    BY <1>3, FoldIsSolution
  <2> QED
    BY <2>1, <2>2
<1>8. \A s \in SUBSET S : g[s] = Added(g, tallies, s)
  BY <1>7 DEF Folds
<1> HIDE DEF h
<1> DEFINE Q == {n \in Nat : \A s \in SUBSET S :
                               Cardinality(s) = n => g[s] = h[s]}
<1>9. 0 \in Q
  <2>1. \A s \in SUBSET S : Cardinality(s) = 0 => s = {}
    BY <1>1, FS_EmptySet
  <2>2. g[{}] = h[{}]
    BY <1>5, <1>8 DEF Added
  <2> QED
    BY <2>1, <2>2
<1>10. ASSUME NEW n \in Nat, n \in Q PROVE n + 1 \in Q
  <2> SUFFICES ASSUME NEW s \in SUBSET S, Cardinality(s) = n + 1
               PROVE  g[s] = h[s]
    OBVIOUS
  <2>1. s # {}
    BY FS_EmptySet
  <2>2. /\ s \ {Pick(s)} \in SUBSET S
        /\ Cardinality(s \ {Pick(s)}) = n
    BY <1>1, <2>1, Picked
  <2>3. g[s \ {Pick(s)}] = h[s \ {Pick(s)}]
    BY <1>10, <2>2
  <2> QED
    BY <1>5, <1>8, <2>1, <2>3 DEF Added
<1> HIDE DEF Q
<1>11. \A n \in Nat : n \in Q
  BY <1>9, <1>10, AllNumbers
<1>12. g[S] = h[S]
  BY <1>1, <1>11 DEF Q
<1> QED
  BY <1>7, <1>12 DEF S, tallies, h

LEMMA TallyTyped ==
    ASSUME NEW rows, IsFiniteSet(DOMAIN rows), NEW c \in Counted
    PROVE  tally(rows)[c] \in Nat
<1>1. /\ Cardinality(StatusHits(rows, c)) \in Nat
      /\ Cardinality(ShapeHits(rows, c)) \in Nat
      /\ Cardinality(DOMAIN rows) \in Nat
  BY HitsFinite, FS_CardinalityType
<1> QED
  BY <1>1, StatusTally, ShapeTally, DaysTally DEF Counted

\* A total folded from the parts is the tally of all.
LEMMA FoldOfParts ==
    ASSUME NEW rows, NEW parts, Splits(rows, parts)
    PROVE  Folded([k \in DOMAIN parts |-> tally(parts[k])]) = tally(rows)
<1>1. /\ IsFiniteSet(DOMAIN rows) /\ IsFiniteSet(DOMAIN parts)
      /\ \A k \in DOMAIN parts : DOMAIN parts[k] \in SUBSET DOMAIN rows
  BY DEF Splits, InParts
<1>2. \A k \in DOMAIN parts : IsFiniteSet(DOMAIN parts[k])
  BY <1>1, FS_Subset
<1>3. \A k \in DOMAIN parts : \A c \in Counted : tally(parts[k])[c] \in Int
  BY <1>2, TallyTyped
<1>4. Folded([k \in DOMAIN parts |-> tally(parts[k])])
        = [c \in Counted |-> SumOf(Column(parts, c), DOMAIN parts)]
  BY <1>1, <1>3, FoldAddsUp
<1>5. \A c \in Counted :
        SumOf(Column(parts, c), DOMAIN parts) = tally(rows)[c]
  BY TallyOfParts
<1> QED
  BY <1>4, <1>5, TallyIsFunction

-----------------------------------------------------------------------------
(* The reports.                                                            *)

\* What the reports need of the register.
Countable ==
    /\ covers \in [Terms -> SUBSET Dates]
    /\ register \in [Slots -> Value \cup {NoRow}]
    /\ \A s \in Slots : register[s] # NoRow => s[2] <= Today

Marked(roster, days) == {s \in roster \X days : register[s] # NoRow}

LEMMA RecordsKnown ==
    ASSUME Countable, NEW roster \in SUBSET Enrollments,
           NEW days \in SUBSET Dates
    PROVE  /\ Records(roster, days) = [s \in Marked(roster, days) |-> register[s]]
           /\ IsFiniteSet(Marked(roster, days))
           /\ \A s \in Marked(roster, days) : register[s] \in Value
<1>1. IsFiniteSet(roster) /\ IsFiniteSet(days)
  BY TablesAssumption, FS_Subset
<1>2. IsFiniteSet(roster \X days)
  BY <1>1, FS_Product
<1>3. Marked(roster, days) \in SUBSET (roster \X days)
  BY DEF Marked
<1>4. IsFiniteSet(Marked(roster, days))
  BY <1>2, <1>3, FS_Subset
<1>5. \A s \in Marked(roster, days) : register[s] \in Value
  BY DEF Countable, Marked, Slots
<1> QED
  BY <1>4, <1>5 DEF Records, Marked

\* The records of one child, and of one day.
BucketOf(roster, days, e) ==
    LET records == Records(roster, days)
    IN  [s \in {x \in DOMAIN records : x[1] = e} |-> records[s]]

Buckets(roster, days) == [e \in roster |-> BucketOf(roster, days, e)]

LEMMA BucketIsOwn ==
    ASSUME Countable, NEW roster \in SUBSET Enrollments,
           NEW days \in SUBSET Dates, NEW e \in roster
    PROVE  BucketOf(roster, days, e) = Records({e}, days)
<1>1. {e} \in SUBSET Enrollments
  OBVIOUS
<1>2. /\ Records(roster, days) = [s \in Marked(roster, days) |-> register[s]]
      /\ Records({e}, days) = [s \in Marked({e}, days) |-> register[s]]
  BY <1>1, RecordsKnown
<1>3. {x \in Marked(roster, days) : x[1] = e} = Marked({e}, days)
  BY DEF Marked
<1> QED
  BY <1>2, <1>3 DEF BucketOf

LEMMA SplitByChild ==
    ASSUME Countable, NEW roster \in SUBSET Enrollments,
           NEW days \in SUBSET Dates
    PROVE  Splits(Records(roster, days), Buckets(roster, days))
<1>1. /\ Records(roster, days) = [s \in Marked(roster, days) |-> register[s]]
      /\ IsFiniteSet(Marked(roster, days))
  BY RecordsKnown
<1>2. IsFiniteSet(roster)
  BY TablesAssumption, FS_Subset
<1>3. \A e \in roster :
        Buckets(roster, days)[e] = [s \in Marked({e}, days) |-> register[s]]
  <2> SUFFICES ASSUME NEW e \in roster
               PROVE  BucketOf(roster, days, e)
                        = [s \in Marked({e}, days) |-> register[s]]
    BY DEF Buckets
  <2>1. {e} \in SUBSET Enrollments
    OBVIOUS
  <2> QED
    BY <2>1, BucketIsOwn, RecordsKnown
<1>4. Marked(roster, days) = UNION {Marked({e}, days) : e \in roster}
  BY DEF Marked
<1>5. \A e, d \in roster : e # d => Marked({e}, days) \cap Marked({d}, days) = {}
  BY DEF Marked
<1>6. DOMAIN Buckets(roster, days) = roster
  BY DEF Buckets
<1>7. \A e \in roster : Marked({e}, days) \subseteq Marked(roster, days)
  BY <1>4
<1> DEFINE rows == Records(roster, days)
           parts == Buckets(roster, days)
<1>8. /\ DOMAIN rows = Marked(roster, days)
      /\ \A s \in Marked(roster, days) : rows[s] = register[s]
  BY <1>1
<1>9. \A e \in roster :
        /\ DOMAIN parts[e] = Marked({e}, days)
        /\ \A s \in Marked({e}, days) : parts[e][s] = register[s]
  BY <1>3
<1> HIDE DEF rows, parts
<1>10. InParts(DOMAIN rows, [e \in roster |-> DOMAIN parts[e]])
  <2> DEFINE places == [e \in roster |-> DOMAIN parts[e]]
             S == DOMAIN rows
  <2>1. DOMAIN places = roster /\ S = Marked(roster, days)
    BY <1>8
  <2>2. \A e \in roster : places[e] = Marked({e}, days)
    BY <1>9
  <2> HIDE DEF places, S
  <2>3. S = UNION {places[e] : e \in roster}
    BY <1>4, <2>1, <2>2
  <2>4. \A e, d \in roster : e # d => places[e] \cap places[d] = {}
    BY <1>5, <2>2
  <2>5. InParts(S, places)
    BY <1>1, <1>2, <2>1, <2>3, <2>4 DEF InParts
  <2> QED
    BY <2>5 DEF places, S
<1>11. DOMAIN parts = roster
  BY <1>6 DEF parts
<1>12. Splits(rows, parts)
  BY <1>7, <1>8, <1>9, <1>10, <1>11 DEF Splits
<1> QED
  BY <1>12 DEF rows, parts

DayRecords(roster, days) == [d \in days |-> Records(roster, {d})]

LEMMA SplitByDay ==
    ASSUME Countable, NEW roster \in SUBSET Enrollments,
           NEW days \in SUBSET Dates
    PROVE  Splits(Records(roster, days), DayRecords(roster, days))
<1>1. /\ Records(roster, days) = [s \in Marked(roster, days) |-> register[s]]
      /\ IsFiniteSet(Marked(roster, days))
  BY RecordsKnown
<1>2. IsFiniteSet(days)
  BY TablesAssumption, FS_Subset
<1>3. \A d \in days :
        DayRecords(roster, days)[d]
          = [s \in Marked(roster, {d}) |-> register[s]]
  <2> SUFFICES ASSUME NEW d \in days
               PROVE  Records(roster, {d})
                        = [s \in Marked(roster, {d}) |-> register[s]]
    BY DEF DayRecords
  <2>1. {d} \in SUBSET Dates
    OBVIOUS
  <2> QED
    BY <2>1, RecordsKnown
<1>4. Marked(roster, days) = UNION {Marked(roster, {d}) : d \in days}
  BY DEF Marked
<1>5. \A c, d \in days :
        c # d => Marked(roster, {c}) \cap Marked(roster, {d}) = {}
  BY DEF Marked
<1>6. \A d \in days : Marked(roster, {d}) \subseteq Marked(roster, days)
  BY <1>4
<1> DEFINE rows == Records(roster, days)
           parts == DayRecords(roster, days)
<1>7. /\ DOMAIN rows = Marked(roster, days)
      /\ \A s \in Marked(roster, days) : rows[s] = register[s]
  BY <1>1
<1>8. \A d \in days :
        /\ DOMAIN parts[d] = Marked(roster, {d})
        /\ \A s \in Marked(roster, {d}) : parts[d][s] = register[s]
  BY <1>3
<1>9. DOMAIN parts = days
  BY DEF DayRecords
<1> HIDE DEF rows, parts
<1>10. InParts(DOMAIN rows, [d \in days |-> DOMAIN parts[d]])
  <2> DEFINE places == [d \in days |-> DOMAIN parts[d]]
             S == DOMAIN rows
  <2>1. DOMAIN places = days /\ S = Marked(roster, days)
    BY <1>7
  <2>2. \A d \in days : places[d] = Marked(roster, {d})
    BY <1>8
  <2> HIDE DEF places, S
  <2>3. S = UNION {places[d] : d \in days}
    BY <1>4, <2>1, <2>2
  <2>4. \A c, d \in days : c # d => places[c] \cap places[d] = {}
    BY <1>5, <2>2
  <2>5. InParts(S, places)
    BY <1>1, <1>2, <2>1, <2>3, <2>4 DEF InParts
  <2> QED
    BY <2>5 DEF places, S
<1>11. Splits(rows, parts)
  BY <1>6, <1>7, <1>8, <1>9, <1>10 DEF Splits
<1> QED
  BY <1>11 DEF rows, parts

-----------------------------------------------------------------------------
(* The summary of a class.                                                 *)

TermRecords(roster, t) == Records(roster, covers[t])

LEMMA CoversDates ==
    ASSUME Countable, NEW t \in Terms
    PROVE  covers[t] \in SUBSET Dates
BY DEF Countable

LEMMA SummaryRows ==
    ASSUME NEW roster, NEW t \in Terms, NEW e \in roster
    PROVE  classroomTermSummary(roster, t).students[e]
             = summariseRecords(BucketOf(roster, covers[t], e))
BY DEF classroomTermSummary, BucketOf

LEMMA SummaryDomain ==
    ASSUME NEW roster, NEW t \in Terms
    PROVE  DOMAIN classroomTermSummary(roster, t).students = roster
BY DEF classroomTermSummary

LEMMA SummaryTotals ==
    ASSUME NEW roster, NEW t \in Terms
    PROVE  classroomTermSummary(roster, t).classroomTotals
             = summarise(Folded([e \in roster |->
                   tally(Buckets(roster, covers[t])[e])]), None)
<1>1. [e \in roster |-> tally(Buckets(roster, covers[t])[e])]
        = [e \in roster |-> tally(BucketOf(roster, covers[t], e))]
  BY DEF Buckets
<1>2. classroomTermSummary(roster, t).classroomTotals
        = Fold([e \in roster |-> tally(BucketOf(roster, covers[t], e))])
  BY DEF classroomTermSummary, BucketOf
<1>3. Fold([e \in roster |-> tally(BucketOf(roster, covers[t], e))])
        = summarise(Folded([e \in roster |->
              tally(BucketOf(roster, covers[t], e))]), None)
  BY DEF Fold, Folded
<1> QED
  BY <1>1, <1>2, <1>3

LEMMA ClassTotals ==
    ASSUME Countable, NEW roster \in SUBSET Enrollments, NEW t \in Terms
    PROVE  classroomTermSummary(roster, t).classroomTotals
             = summariseRecords(TermRecords(roster, t))
<1> DEFINE rows == Records(roster, covers[t])
           parts == Buckets(roster, covers[t])
<1>1. Splits(rows, parts) /\ DOMAIN parts = roster
  BY CoversDates, SplitByChild DEF Buckets
<1>2. classroomTermSummary(roster, t).classroomTotals
        = summarise(Folded([e \in roster |-> tally(parts[e])]), None)
  BY SummaryTotals
<1> HIDE DEF rows, parts
<1>3. Folded([e \in roster |-> tally(parts[e])]) = tally(rows)
  BY <1>1, FoldOfParts
<1>4. classroomTermSummary(roster, t).classroomTotals = summariseRecords(rows)
  BY <1>2, <1>3 DEF summariseRecords
<1> QED
  BY <1>4 DEF rows, TermRecords

\* The columns of the CSV.
LEMMA CsvLines ==
    ASSUME NEW summary
    PROVE  /\ Csv(summary)["CLASS TOTAL"].counts = summary.classroomTotals.tallied
           /\ Csv(summary)["CLASS TOTAL"].marked
                = summary.classroomTotals.sessionsMarked
           /\ Csv(summary)["CLASS TOTAL"].present
                = summary.classroomTotals.sessionsPresent
           /\ Csv(summary)["CLASS TOTAL"].absent
                = summary.classroomTotals.sessionsAbsent
           /\ \A e \in DOMAIN summary.students :
                e # "CLASS TOTAL" =>
                  Csv(summary)[e].counts = summary.students[e].tallied
BY DEF Csv

LEMMA Figures ==
    ASSUME NEW rows
    PROVE  /\ summariseRecords(rows).tallied = tally(rows)
           /\ summariseRecords(rows).sessionsPresent
                = tally(rows)["present"] + tally(rows)["late"]
           /\ summariseRecords(rows).sessionsAbsent
                = tally(rows)["absent"] + tally(rows)["excused"]
           /\ summariseRecords(rows).sessionsMarked
                = summariseRecords(rows).sessionsPresent
                    + summariseRecords(rows).sessionsAbsent
BY DEF summariseRecords, summarise

LEMMA TermRecordsKnown ==
    ASSUME Countable, NEW roster \in SUBSET Enrollments,
           NEW days \in SUBSET Dates
    PROVE  /\ IsFiniteSet(DOMAIN Records(roster, days))
           /\ \A s \in DOMAIN Records(roster, days) :
                Records(roster, days)[s] \in Value
BY RecordsKnown

LEMMA ClassAddsUp ==
    ASSUME Countable, NEW roster \in SUBSET Enrollments, NEW t \in Terms
    PROVE  TotalsAddUp(roster, t)
<1> DEFINE summary == classroomTermSummary(roster, t)
           csv == Csv(summary)
           total == csv["CLASS TOTAL"]
           rows == Records(roster, covers[t])
           parts == Buckets(roster, covers[t])
<1>1. summary.classroomTotals = summariseRecords(rows)
  BY ClassTotals DEF TermRecords
<1>2. /\ total.counts = summary.classroomTotals.tallied
      /\ total.marked = summary.classroomTotals.sessionsMarked
      /\ total.present = summary.classroomTotals.sessionsPresent
      /\ total.absent = summary.classroomTotals.sessionsAbsent
  BY CsvLines
<1>3. ASSUME NEW c \in Counted
      PROVE  total.counts[c] = SumOver([e \in roster |-> csv[e].counts[c]])
  <2>1. \A e \in roster : csv[e].counts = tally(parts[e])
    <3> SUFFICES ASSUME NEW e \in roster
                 PROVE  csv[e].counts = tally(parts[e])
      OBVIOUS
    <3>1. e # "CLASS TOTAL" /\ DOMAIN summary.students = roster
      BY TablesAssumption, SummaryDomain
    <3>2. csv[e].counts = summary.students[e].tallied
      BY <3>1, CsvLines
    <3>3. summary.students[e] = summariseRecords(parts[e])
      BY SummaryRows DEF Buckets
    <3> QED
      BY <3>2, <3>3, Figures
  <2>2. [e \in roster |-> csv[e].counts[c]] = Column(parts, c)
    <3>1. DOMAIN parts = roster
      BY DEF Buckets
    <3> HIDE DEF csv, parts
    <3> QED
      BY <2>1, <3>1 DEF Column
  <2>3. Splits(rows, parts) /\ DOMAIN parts = roster
    BY CoversDates, SplitByChild DEF Buckets
  <2>4. total.counts[c] = tally(rows)[c]
    BY <1>1, <1>2, Figures
  <2> HIDE DEF rows, parts
  <2>5. tally(rows)[c] = SumOf(Column(parts, c), roster)
    BY <2>3, TallyOfParts
  <2>6. SumOver(Column(parts, c)) = SumOf(Column(parts, c), roster)
    <3>1. DOMAIN Column(parts, c) = roster
      BY <2>3 DEF Column
    <3> QED
      BY <3>1 DEF SumOver, SumOf
  <2> QED
    BY <2>2, <2>4, <2>5, <2>6
<1>4. total.present + total.absent = total.marked
  BY <1>1, <1>2, Figures
<1>5. total.marked = 2 * total.counts["daysMarked"]
  <2>1. IsFiniteSet(DOMAIN rows) /\ \A s \in DOMAIN rows : rows[s] \in Value
    BY CoversDates, TermRecordsKnown
  <2> HIDE DEF rows, summary, csv, total
  <2>2. /\ \A c \in AttendanceStatuses : tally(rows)[c] \in Nat
        /\ tally(rows)["present"] + tally(rows)["absent"]
             + tally(rows)["late"] + tally(rows)["excused"]
             = 2 * tally(rows)["daysMarked"]
    BY <2>1, SessionsTallied
  <2>3. total.marked = (tally(rows)["present"] + tally(rows)["late"])
                         + (tally(rows)["absent"] + tally(rows)["excused"])
    BY <1>1, <1>2, Figures
  <2>4. total.counts["daysMarked"] = tally(rows)["daysMarked"]
    BY <1>1, <1>2, Figures
  <2>5. /\ tally(rows)["present"] \in Nat /\ tally(rows)["absent"] \in Nat
        /\ tally(rows)["late"] \in Nat /\ tally(rows)["excused"] \in Nat
    BY <2>2 DEF AttendanceStatuses
  <2> QED
    BY <2>2, <2>3, <2>4, <2>5
<1>6. summary.classroomTotals = summariseRecords(Records(roster, covers[t]))
  BY <1>1
<1> QED
  BY <1>3, <1>4, <1>5, <1>6 DEF TotalsAddUp

-----------------------------------------------------------------------------
(* The grid.                                                               *)

\* "Clamped into the term": of a whole term the grid reads what the summary
\* reads, for no day ahead is marked.
LEMMA WholeTerm ==
    ASSUME Countable, NEW roster \in SUBSET Enrollments, NEW t \in Terms
    PROVE  /\ Clamped(t, 0, Today + 1) \in SUBSET Dates
           /\ Records(roster, Clamped(t, 0, Today + 1))
                = Records(roster, covers[t])
<1> DEFINE days == Clamped(t, 0, Today + 1)
<1>1. covers[t] \in SUBSET Dates
  BY CoversDates
<1>2. days \in SUBSET Dates
  BY <1>1 DEF Clamped
<1>3. ASSUME NEW s \in Marked(roster, covers[t]) PROVE s[2] \in days
  <2>1. s \in Slots /\ register[s] # NoRow /\ s[2] \in covers[t]
    BY <1>1 DEF Marked, Slots
  <2>2. s[2] <= Today /\ s[2] \in Nat
    BY <1>1, <2>1, TablesAssumption DEF Countable
  <2>3. Today \in Nat
    BY TablesAssumption
  <2>4. 0 <= s[2] /\ s[2] <= Today + 1
    BY <2>2, <2>3
  <2> QED
    BY <2>1, <2>4 DEF Clamped
<1>4. days \subseteq covers[t]
  BY DEF Clamped
<1>5. Marked(roster, days) = Marked(roster, covers[t])
  BY <1>3, <1>4 DEF Marked
<1> HIDE DEF days
<1>6. /\ Records(roster, days) = [s \in Marked(roster, days) |-> register[s]]
      /\ Records(roster, covers[t])
           = [s \in Marked(roster, covers[t]) |-> register[s]]
  BY <1>1, <1>2, RecordsKnown
<1>7. Records(roster, days) = Records(roster, covers[t])
  BY <1>5, <1>6
<1> QED
  BY <1>2, <1>7 DEF days

\* The cells of a line of the grid.
CellsOf(roster, days, e) ==
    LET records == Records(roster, days)
    IN  [d \in {x \in days : <<e, x>> \in DOMAIN records} |-> records[<<e, d>>]]

LEMMA CellsAreBucket ==
    ASSUME Countable, NEW roster \in SUBSET Enrollments,
           NEW days \in SUBSET Dates, NEW e \in roster
    PROVE  /\ IsFiniteSet(DOMAIN CellsOf(roster, days, e))
           /\ tally(CellsOf(roster, days, e)) = tally(BucketOf(roster, days, e))
<1> DEFINE records == Records(roster, days)
           cells == CellsOf(roster, days, e)
           bucket == BucketOf(roster, days, e)
           f == [d \in DOMAIN cells |-> <<e, d>>]
<1>1. DOMAIN records = Marked(roster, days)
  BY RecordsKnown
<1>2. /\ DOMAIN cells = {x \in days : <<e, x>> \in DOMAIN records}
      /\ \A d \in DOMAIN cells : cells[d] = records[<<e, d>>]
  BY DEF CellsOf
<1>3. /\ DOMAIN bucket = {x \in DOMAIN records : x[1] = e}
      /\ \A x \in DOMAIN bucket : bucket[x] = records[x]
  BY DEF BucketOf
<1>4. IsFiniteSet(DOMAIN cells)
  <2>1. DOMAIN cells \in SUBSET days
    BY <1>2
  <2>2. IsFiniteSet(days)
    BY TablesAssumption, FS_Subset
  <2> QED
    BY <2>1, <2>2, FS_Subset
<1>5. \A d \in DOMAIN cells : f[d] = <<e, d>>
  OBVIOUS
<1>6. f \in [DOMAIN cells -> DOMAIN bucket]
  <2>1. \A d \in DOMAIN cells : <<e, d>> \in DOMAIN bucket
    BY <1>2, <1>3
  <2> HIDE DEF cells, bucket
  <2> QED
    BY <2>1
<1>7. \A z \in DOMAIN bucket : \E d \in DOMAIN cells : z = f[d]
  <2> SUFFICES ASSUME NEW z \in DOMAIN bucket
               PROVE  \E d \in DOMAIN cells : z = f[d]
    OBVIOUS
  <2>1. z \in Marked(roster, days) /\ z[1] = e
    BY <1>1, <1>3
  <2>2. z = <<e, z[2]>> /\ z[2] \in days
    BY <2>1 DEF Marked
  <2>3. z[2] \in DOMAIN cells
    BY <1>1, <1>2, <2>1, <2>2
  <2> QED
    BY <1>5, <2>2, <2>3
<1>8. \A c, d \in DOMAIN cells : f[c] = f[d] => c = d
  BY <1>5
<1>9. \A d \in DOMAIN cells : bucket[f[d]] = cells[d]
  BY <1>2, <1>3, <1>5, <1>6
<1> HIDE DEF records, cells, bucket, f
<1>10. Renames(f, cells, bucket)
  BY <1>4, <1>6, <1>7, <1>8, <1>9 DEF Renames
<1>11. tally(bucket) = tally(cells)
  BY <1>10, TallyMoved
<1> QED
  BY <1>4, <1>11 DEF cells, bucket

LEMMA GridKnown ==
    ASSUME NEW roster, NEW t \in Terms, NEW days,
           days = Clamped(t, 0, Today + 1)
    PROVE  /\ classroomRegisterGrid(roster, t, 0, Today + 1).dates
                = {s[2] : s \in DOMAIN Records(roster, days)}
           /\ classroomRegisterGrid(roster, t, 0, Today + 1).cells
                = [e \in roster |-> CellsOf(roster, days, e)]
           /\ classroomRegisterGrid(roster, t, 0, Today + 1).summary
                = [e \in roster |-> summariseRecords(CellsOf(roster, days, e))]
           /\ classroomRegisterGrid(roster, t, 0, Today + 1).totals
                = Fold([e \in roster |-> tally(CellsOf(roster, days, e))])
BY DEF classroomRegisterGrid, CellsOf

LEMMA SummaryKnown ==
    ASSUME NEW roster, NEW t \in Terms
    PROVE  /\ classroomTermSummary(roster, t).datesMarked
                = Cardinality({s[2] : s \in DOMAIN Records(roster, covers[t])})
           /\ classroomTermSummary(roster, t).students
                = [e \in roster |->
                     summariseRecords(BucketOf(roster, covers[t], e))]
           /\ classroomTermSummary(roster, t).classroomTotals
                = Fold([e \in roster |-> tally(BucketOf(roster, covers[t], e))])
BY DEF classroomTermSummary, BucketOf

\* What a line of the grid shows as present.
ShownOf(cells) ==
    SumOver([d \in DOMAIN cells |->
               Cardinality({s \in Sessions : countsAsPresent(cells[d][s])})])

LEMMA LineShows ==
    ASSUME NEW cells, IsFiniteSet(DOMAIN cells)
    PROVE  ShownOf(cells) = tally(cells)["present"] + tally(cells)["late"]
<1> DEFINE figures == [d \in DOMAIN cells |-> ShownIn(cells[d])]
<1>1. figures = [d \in DOMAIN cells |->
                   Cardinality({s \in Sessions : countsAsPresent(cells[d][s])})]
  BY DEF ShownIn
<1>2. SumOver(figures) = SumOf(figures, DOMAIN cells)
  <2>1. DOMAIN figures = DOMAIN cells
    OBVIOUS
  <2> HIDE DEF figures
  <2> QED
    BY <2>1 DEF SumOver, SumOf
<1> QED
  BY <1>1, <1>2, PresentShown DEF ShownOf

LEMMA GridAgrees ==
    ASSUME Countable, NEW roster \in SUBSET Enrollments, NEW t \in Terms
    PROVE  GridMatchesSummary(roster, t)
<1> DEFINE grid == classroomRegisterGrid(roster, t, 0, Today + 1)
           summary == classroomTermSummary(roster, t)
           days == Clamped(t, 0, Today + 1)
           rows == Records(roster, covers[t])
           parts == Buckets(roster, covers[t])
           cells(e) == CellsOf(roster, days, e)
           shown == [e \in roster |-> ShownOf(grid.cells[e])]
<1>1. days \in SUBSET Dates /\ Records(roster, days) = rows
  BY WholeTerm
<1>2. \A e \in roster : BucketOf(roster, days, e) = parts[e]
  BY <1>1 DEF BucketOf, Buckets
<1>3. \A e \in roster :
        IsFiniteSet(DOMAIN cells(e)) /\ tally(cells(e)) = tally(parts[e])
  BY <1>1, <1>2, CellsAreBucket
<1>4. /\ grid.dates = {s[2] : s \in DOMAIN rows}
      /\ grid.cells = [e \in roster |-> cells(e)]
      /\ grid.summary = [e \in roster |-> summariseRecords(cells(e))]
      /\ grid.totals = Fold([e \in roster |-> tally(cells(e))])
  BY <1>1, GridKnown
<1>5. /\ summary.datesMarked = Cardinality({s[2] : s \in DOMAIN rows})
      /\ summary.students = [e \in roster |-> summariseRecords(parts[e])]
      /\ summary.classroomTotals = Fold([e \in roster |-> tally(parts[e])])
  <2>1. \A e \in roster : parts[e] = BucketOf(roster, covers[t], e)
    BY DEF Buckets
  <2>2. /\ [e \in roster |-> summariseRecords(parts[e])]
             = [e \in roster |->
                  summariseRecords(BucketOf(roster, covers[t], e))]
        /\ [e \in roster |-> tally(parts[e])]
             = [e \in roster |-> tally(BucketOf(roster, covers[t], e))]
    BY <2>1
  <2>3. summary.datesMarked = Cardinality({s[2] : s \in DOMAIN rows})
    BY SummaryKnown
  <2>4. /\ summary.students
             = [e \in roster |->
                  summariseRecords(BucketOf(roster, covers[t], e))]
        /\ summary.classroomTotals
             = Fold([e \in roster |-> tally(BucketOf(roster, covers[t], e))])
    BY SummaryKnown
  <2> HIDE DEF parts, summary, rows
  <2> QED
    BY <2>2, <2>3, <2>4
<1>6. \A e \in roster : studentTermSummary(e, t) = summary.students[e]
  <2> SUFFICES ASSUME NEW e \in roster
               PROVE  studentTermSummary(e, t) = summary.students[e]
    OBVIOUS
  <2>1. covers[t] \in SUBSET Dates
    BY CoversDates
  <2>2. parts[e] = Records({e}, covers[t])
    BY <2>1, BucketIsOwn DEF Buckets
  <2> QED
    BY <1>5, <2>2 DEF studentTermSummary
<1>7. Splits(rows, parts) /\ DOMAIN parts = roster /\ IsFiniteSet(roster)
  BY CoversDates, SplitByChild, TablesAssumption, FS_Subset DEF Buckets
<1>8. summary.classroomTotals = summariseRecords(rows)
  BY ClassTotals DEF TermRecords
<1>9. \A e \in roster :
        shown[e] = tally(cells(e))["present"] + tally(cells(e))["late"]
  BY <1>3, <1>4, LineShows
<1> HIDE DEF grid, summary, days, rows, parts, cells
<1>10. grid.summary = summary.students
  BY <1>3, <1>4, <1>5 DEF summariseRecords
<1>11. grid.totals = summary.classroomTotals
  <2>1. [e \in roster |-> tally(cells(e))] = [e \in roster |-> tally(parts[e])]
    BY <1>3
  <2> QED
    BY <1>4, <1>5, <2>1
<1>12. Cardinality(grid.dates) = summary.datesMarked
  BY <1>4, <1>5
<1>13. grid.totals.sessionsPresent = SumOver(shown)
  <2> DEFINE present == Column(parts, "present")
             late == Column(parts, "late")
  <2>1. "present" \in Counted /\ "late" \in Counted
    BY DEF Counted, AttendanceStatuses
  <2>2. /\ tally(rows)["present"] = SumOf(present, roster)
        /\ tally(rows)["late"] = SumOf(late, roster)
    BY <1>7, <2>1, TallyOfParts
  <2>3. \A e \in roster :
          /\ present[e] \in Int /\ late[e] \in Int
          /\ shown[e] = present[e] + late[e]
    <3> SUFFICES ASSUME NEW e \in roster
                 PROVE  /\ present[e] \in Int /\ late[e] \in Int
                        /\ shown[e] = present[e] + late[e]
      OBVIOUS
    <3>1. present[e] = tally(cells(e))["present"]
          /\ late[e] = tally(cells(e))["late"]
      BY <1>3, <1>7 DEF Column
    <3>2. /\ tally(cells(e))["present"] \in Nat
          /\ tally(cells(e))["late"] \in Nat
      BY <1>3, <2>1, TallyTyped
    <3> QED
      BY <1>9, <3>1, <3>2
  <2>4. DOMAIN shown = roster
    OBVIOUS
  <2> HIDE DEF present, late, shown
  <2>5. \A e \in roster :
          shown[e] \in Int /\ late[e] \in Int /\ present[e] = shown[e] - late[e]
    BY <2>3
  <2>6. SumOf(present, roster) = SumOf(shown, roster) - SumOf(late, roster)
    BY <1>7, <2>5, SumMinus
  <2>7. SumOf(shown, roster) \in Int /\ SumOf(late, roster) \in Int
    BY <1>7, <2>5, SumInt
  <2>8. grid.totals.sessionsPresent
          = tally(rows)["present"] + tally(rows)["late"]
    BY <1>8, <1>11, Figures
  <2>9. SumOver(shown) = SumOf(shown, roster)
    BY <2>4 DEF SumOver, SumOf
  <2> QED
    BY <2>2, <2>6, <2>7, <2>8, <2>9
<1>14. \A e \in roster : studentTermSummary(e, t) = summary.students[e]
  BY <1>6
<1> QED
  BY <1>10, <1>11, <1>12, <1>13, <1>14
     DEF GridMatchesSummary, grid, summary, shown, ShownOf

-----------------------------------------------------------------------------
(* The days.                                                               *)

LEMMA DayKnown ==
    ASSUME NEW roster, NEW d
    PROVE  /\ getRegister(roster, d).counts = tally(Records(roster, {d}))
           /\ getRegister(roster, d).unmarkedCount
                = Cardinality({e \in roster : register[<<e, d>>].am = None})
           /\ getRegister(roster, d).editable
                => \E t \in Terms : IsTermFor(t, d) /\ amendable(t)
BY DEF getRegister

\* Of a roster each child is marked or unmarked.
LEMMA MarkedOrNot ==
    ASSUME Countable, NEW roster \in SUBSET Enrollments, NEW d \in Dates
    PROVE  getRegister(roster, d).unmarkedCount
             + getRegister(roster, d).counts["daysMarked"]
             = Cardinality(roster)
<1> DEFINE M == Marked(roster, {d})
           U == {e \in roster : register[<<e, d>>].am = None}
           K == {e \in roster : register[<<e, d>>] # NoRow}
           f == [s \in M |-> s[1]]
<1>1. /\ Records(roster, {d}) = [s \in M |-> register[s]]
      /\ IsFiniteSet(M)
  BY RecordsKnown
<1>2. IsFiniteSet(roster)
  BY TablesAssumption, FS_Subset
<1>3. U = roster \ K
  <2> SUFFICES ASSUME NEW e \in roster
               PROVE  register[<<e, d>>].am = None <=> register[<<e, d>>] = NoRow
    OBVIOUS
  <2>1. register[<<e, d>>] \in Value \cup {NoRow}
    BY DEF Countable, Slots
  <2>2. CASE register[<<e, d>>] = NoRow
    BY <2>2 DEF NoRow, Sessions
  <2>3. CASE register[<<e, d>>] \in Value
    <3>1. register[<<e, d>>].am \in AttendanceStatuses
      BY <2>3 DEF Value, Sessions
    <3>2. NoRow.am = None
      BY DEF NoRow, Sessions
    <3> QED
      BY <3>1, <3>2, TablesAssumption
  <2> QED
    BY <2>1, <2>2, <2>3
<1>4. Cardinality(K) = Cardinality(M)
  <2>1. f \in [M -> K]
    BY DEF Marked
  <2>2. \A x, y \in M : f[x] = f[y] => x = y
    BY DEF Marked
  <2>3. \A z \in K : \E x \in M : z = f[x]
    <3> SUFFICES ASSUME NEW z \in K PROVE \E x \in M : z = f[x]
      OBVIOUS
    <3>1. <<z, d>> \in M
      BY DEF Marked
    <3> QED
      BY <3>1
  <2> HIDE DEF M, K, f
  <2> QED
    BY <1>1, <2>1, <2>2, <2>3, SameCount
<1>5. Cardinality(U) = Cardinality(roster) - Cardinality(K)
  <2>1. K \subseteq roster /\ roster \cap K = K
    OBVIOUS
  <2> HIDE DEF U, K
  <2>2. Cardinality(roster \ K)
          = Cardinality(roster) - Cardinality(roster \cap K)
    BY <1>2, FS_Difference
  <2> QED
    BY <1>3, <2>1, <2>2
<1>6. IsFiniteSet(K)
  <2>1. K \in SUBSET roster
    OBVIOUS
  <2> HIDE DEF K
  <2> QED
    BY <1>2, <2>1, FS_Subset
<1>7. Cardinality(roster) \in Nat /\ Cardinality(K) \in Nat
  BY <1>2, <1>6, FS_CardinalityType
<1>8. getRegister(roster, d).counts["daysMarked"] = Cardinality(M)
  <2>1. DOMAIN Records(roster, {d}) = M
    BY <1>1
  <2> HIDE DEF M
  <2> QED
    BY <2>1, DayKnown, DaysTally
<1>9. getRegister(roster, d).unmarkedCount = Cardinality(U)
  BY DayKnown
<1> HIDE DEF U, K, M
<1> QED
  BY <1>4, <1>5, <1>7, <1>8, <1>9

LEMMA DaysOfTerm ==
    ASSUME Countable, EntriesOrdered,
           NEW roster \in SUBSET Enrollments, NEW t \in Terms
    PROVE  DaysAddUp(roster, t)
<1> DEFINE totals == classroomTermSummary(roster, t).classroomTotals
           rows == Records(roster, covers[t])
           parts == DayRecords(roster, covers[t])
<1>1. covers[t] \in SUBSET Dates
  BY CoversDates
<1>2. totals = summariseRecords(rows)
  BY ClassTotals DEF TermRecords
<1>3. Splits(rows, parts) /\ DOMAIN parts = covers[t]
  BY <1>1, SplitByDay DEF DayRecords
<1>4. ASSUME NEW c \in Counted
      PROVE  totals.tallied[c] =
               SumOver([d \in covers[t] |-> getRegister(roster, d).counts[c]])
  <2>1. \A d \in covers[t] : getRegister(roster, d).counts = tally(parts[d])
    BY DayKnown DEF DayRecords
  <2>2. totals.tallied[c] = tally(rows)[c]
    BY <1>2, Figures
  <2> HIDE DEF totals, rows, parts
  <2>3. [d \in covers[t] |-> getRegister(roster, d).counts[c]]
          = Column(parts, c)
    BY <1>3, <2>1 DEF Column
  <2>4. tally(rows)[c] = SumOf(Column(parts, c), covers[t])
    BY <1>3, TallyOfParts
  <2>5. SumOver(Column(parts, c)) = SumOf(Column(parts, c), covers[t])
    <3>1. DOMAIN Column(parts, c) = covers[t]
      BY <1>3 DEF Column
    <3> QED
      BY <3>1 DEF SumOver, SumOf
  <2> QED
    BY <2>2, <2>3, <2>4, <2>5
<1>5. ASSUME NEW d \in covers[t]
      PROVE  getRegister(roster, d).unmarkedCount
               + getRegister(roster, d).counts["daysMarked"]
               = Cardinality(roster)
  BY <1>1, MarkedOrNot
<1>6. ASSUME NEW d \in covers[t], getRegister(roster, d).editable
      PROVE  \E u \in Terms : d \in covers[u] /\ Writable(u)
  <2>1. PICK u \in Terms : IsTermFor(u, d) /\ amendable(u)
    BY <1>6, DayKnown
  <2>2. d \in covers[u]
    BY <2>1 DEF IsTermFor, Covering
  <2>3. Writable(u)
    BY <2>1 DEF amendable, Writable, EntriesOrdered
  <2> QED
    BY <2>2, <2>3
<1> QED
  BY <1>4, <1>5, <1>6 DEF DaysAddUp

\* "If a second query ever computes this independently, the two will drift":
\* the four reports of a term, the view of a day and the spreadsheet count the
\* same sessions, whatever roster they read.  It holds while requests are under
\* way as well.
THEOREM ReportsCount == Spec => []TotalsAgree
<1>1. RegisterInv => Countable
  BY DEF RegisterInv, TypeOK, NothingAhead, Countable
<1>2. RegisterInv => TotalsAgree
  BY <1>1, ClassAddsUp, GridAgrees, DaysOfTerm DEF RegisterInv, TotalsAgree
<1> QED
  BY <1>2, RegisterSafe, PTL
=============================================================================
