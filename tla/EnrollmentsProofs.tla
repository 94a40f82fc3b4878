--------------------------- MODULE EnrollmentsProofs ---------------------------
(***************************************************************************)
(* Theorems about the way into the school, for all values of the           *)
(* constants: the two components that work on the table of enrollments,    *)
(* Admissions and SchoolFees, and the numbers that applications, students  *)
(* and staff members get, DocumentNumbers.                                 *)
(***************************************************************************)
EXTENDS Admissions, SchoolFees, DocumentNumbers, FiniteSetTheorems, TLAPS

(* Enrollments.                                                            *)

\* What an operation on enrollments does to the rows.
LEMMA InsertKeeps ==
    ASSUME EnrollmentsTyped, OneActive, NEW s \in Slots, NEW classroom \in Classrooms,
           Insert(s, classroom)
    PROVE  /\ EnrollmentsTyped' /\ OneActive'
           /\ Enrolled(s)'
           /\ \A t \in Slots : Enrolled(t) => Enrolled(t)'
<1>1. enrollment' = [enrollment EXCEPT ![s] =
                       [status |-> "active", classroom |-> classroom]]
  BY DEF Insert
<1>2. EnrollmentsTyped'
  BY <1>1 DEF EnrollmentsTyped, Enrollment, EnrollmentStatuses
<1>3. OneActive'
  BY <1>1 DEF EnrollmentsTyped, OneActive, Insert, ActiveTwice, Active
<1>4. Enrolled(s)' /\ \A t \in Slots : Enrolled(t) => Enrolled(t)'
  BY <1>1 DEF EnrollmentsTyped, Enrolled, NotEnrolled
<1> QED
  BY <1>2, <1>3, <1>4

LEMMA ChangeKeeps ==
    ASSUME EnrollmentsTyped, OneActive, NEW s \in Slots,
           (\E status \in EnrollmentStatuses : UpdateEnrollment(s, status))
             \/ Withdraw(s)
    PROVE  /\ EnrollmentsTyped' /\ OneActive'
           /\ \A t \in Slots : Enrolled(t) => Enrolled(t)'
<1>1. PICK status \in EnrollmentStatuses :
        /\ enrollment' = [enrollment EXCEPT ![s].status = status]
        /\ status = "active" => ~ActiveTwice(s)
  BY DEF UpdateEnrollment, Withdraw, EnrollmentStatuses
<1>2. enrollment[s] \in Enrollment
  BY DEF UpdateEnrollment, Withdraw, Enrolled, EnrollmentsTyped
<1>3. EnrollmentsTyped'
  BY <1>1, <1>2 DEF EnrollmentsTyped, Enrollment
<1>4. \A t \in Slots : t # s => enrollment'[t] = enrollment[t]
  BY <1>1 DEF EnrollmentsTyped
<1>5. enrollment'[s].status = status
  BY <1>1, <1>2 DEF EnrollmentsTyped, Enrollment
<1>6. OneActive'
  BY <1>1, <1>4, <1>5 DEF OneActive, ActiveTwice, Active
<1>7. \A t \in Slots : Enrolled(t) => Enrolled(t)'
  BY <1>3, <1>4, <1>5 DEF Enrolled, NotEnrolled, EnrollmentStatuses
<1> QED
  BY <1>3, <1>6, <1>7

\* Rows are never deleted, and none becomes active twice.
LEMMA EnrollmentsKept ==
    ASSUME EnrollmentsTyped, OneActive, EnrollmentsStep
    PROVE  /\ EnrollmentsTyped' /\ OneActive'
           /\ \A t \in Slots : Enrolled(t) => Enrolled(t)'
<1>1. PICK s \in Slots :
        \/ \E classroom \in Classrooms : Insert(s, classroom)
        \/ \E status \in EnrollmentStatuses : UpdateEnrollment(s, status)
        \/ Withdraw(s)
  BY DEF EnrollmentsStep, CreateEnrollment
<1> QED
  BY <1>1, InsertKeeps, ChangeKeeps

-----------------------------------------------------------------------------
(* Admissions.                                                             *)

\* The same for every step: rows are never deleted.
LEMMA RowsKept ==
    ASSUME TypeOK, OneActive, Next
    PROVE  /\ EnrollmentsTyped' /\ OneActive'
           /\ \A t \in Slots : Enrolled(t) => Enrolled(t)'
<1>1. CASE Elsewhere
  BY <1>1, EnrollmentsKept DEF Elsewhere, TypeOK
<1>2. ASSUME NEW r \in Requests, InsertEnrollment(r)
      PROVE  /\ EnrollmentsTyped' /\ OneActive'
             /\ \A t \in Slots : Enrolled(t) => Enrolled(t)'
  <2>1. PICK s \in SlotsOf(req[r].student), classroom \in Classrooms :
          Insert(s, classroom) \/ UNCHANGED enrollment
    BY <1>2 DEF InsertEnrollment
  <2>2. s \in Slots
    BY DEF SlotsOf
  <2>3. CASE UNCHANGED enrollment
    BY <2>3 DEF TypeOK, EnrollmentsTyped, OneActive, Active, Enrolled
  <2> QED
    BY <2>1, <2>2, <2>3, InsertKeeps DEF TypeOK
<1>3. CASE UNCHANGED enrollment
  BY <1>3 DEF TypeOK, EnrollmentsTyped, OneActive, Active, Enrolled
<1> QED
  BY <1>1, <1>2, <1>3
  DEF Next, Step, Create, Update, Transition, RevertEnrollment, Enroll,
      CheckOutcome, Write, Fail
-----------------------------------------------------------------------------
LEMMA InitInv == Init => AdmissionsInv
<1> SUFFICES ASSUME Init
             PROVE  AdmissionsInv
  OBVIOUS
<1>1. TypeOK
  BY DEF Init, TypeOK, EnrollmentsInit, EnrollmentsTyped, NoApplication, Request
<1>2. OneActive
  BY DEF Init, EnrollmentsInit, OneActive, Active, NotEnrolled
<1>3. WritesChecked /\ RevertSeesOutcome
  BY DEF Init, WritesChecked, RevertSeesOutcome, Idle
<1>4. EnrolledIsPlaced
  BY DEF Init, EnrolledIsPlaced, NoApplication
<1> QED
  BY <1>1, <1>2, <1>3, <1>4 DEF AdmissionsInv

LEMMA OperationsKnown ==
    Operations = {"apply", "offer", "revertOffer", "reject", "withdraw",
                  "revertEnrollment", "enroll"}
BY DEF Operations, Legal

LEMMA StudentKnown ==
    ASSUME TypeOK, NEW a \in Applications
    PROVE  application[a].student \in Students \cup {None}
BY DEF TypeOK, Application, NoApplication

\* A request is idle, or has just begun, or goes on with its own locals.
LEMMA RequestsTyped ==
    ASSUME TypeOK, Next
    PROVE  req' \in [Requests -> Request]
<1>1. req \in [Requests -> Request]
  BY DEF TypeOK
<1>2. Idle \in Request
  BY DEF Request
<1>3. ASSUME NEW r \in Requests, Return(r)
      PROVE  req' \in [Requests -> Request]
  BY <1>1, <1>2, <1>3 DEF Return
<1>4. ASSUME NEW r \in Requests, NEW a \in Applications, NEW op \in Operations,
             Transition(r, a, op)
      PROVE  req' \in [Requests -> Request]
  <2>1. application[a].status \in Statuses
    BY <1>4, OperationsKnown DEF Transition, Legal, Statuses, Open
  <2>2. [pc |-> "write", op |-> op, app |-> a, student |-> None,
         seen |-> application[a].status] \in Request
    BY <1>4, <2>1 DEF Transition, Request
  <2> QED
    BY <1>1, <1>4, <2>2 DEF Transition
<1>5. ASSUME NEW r \in Requests, NEW a \in Applications, RevertEnrollment(r, a)
      PROVE  req' \in [Requests -> Request]
  <2>1. application[a].status \in Statuses
    BY <1>5 DEF RevertEnrollment, Legal, Statuses
  <2>2. application[a].student \in Students \cup {None}
    BY StudentKnown
  <2>3. [pc |-> IF application[a].student = None THEN "write" ELSE "guard",
         op |-> "revertEnrollment", app |-> a,
         student |-> application[a].student,
         seen |-> application[a].status] \in Request
    BY <2>1, <2>2 DEF Request
  <2> QED
    BY <1>1, <1>5, <2>3 DEF RevertEnrollment
<1>6. ASSUME NEW r \in Requests, NEW a \in Applications,
             NEW given \in Students \cup {None}, Enroll(r, a, given)
      PROVE  req' \in [Requests -> Request]
  <2> DEFINE student == IF given # None THEN given ELSE application[a].student
  <2>1. application[a].status \in Statuses
    BY <1>6 DEF Enroll, Legal
  <2>2. student \in Students
    BY <1>6, StudentKnown DEF Enroll
  <2>3. [pc |-> "insert", op |-> "enroll", app |-> a, student |-> student,
         given |-> given # None, seen |-> application[a].status] \in Request
    BY <2>1, <2>2 DEF Request
  <2> QED
    BY <1>1, <1>6, <2>3 DEF Enroll
<1>7. ASSUME NEW r \in Requests, req[r].pc \in {"guard", "insert"},
             req' = [req EXCEPT ![r].pc = "write"]
      PROVE  req' \in [Requests -> Request]
  <2>1. req[r] \in Request /\ req[r] # Idle
    BY <1>1, <1>7 DEF Idle
  <2>2. [req[r] EXCEPT !.pc = "write"] \in Request
    BY <1>7, <2>1 DEF Request, Idle
  <2> QED
    BY <1>1, <1>7, <2>2
<1>8. CASE UNCHANGED req
  BY <1>1, <1>8
<1> QED
  BY <1>3, <1>4, <1>5, <1>6, <1>7, <1>8
  DEF Next, Step, Create, Update, CheckOutcome, InsertEnrollment, Write, Fail,
      Elsewhere

LEMMA TablesTyped ==
    ASSUME TypeOK, Next
    PROVE  /\ application' \in [Applications -> Application \cup {NoApplication}]
           /\ placed' \in [Applications -> SUBSET Slots]
           /\ revived' \in [Requests -> SUBSET Slots]
<1> USE DEF TypeOK
<1>1. ASSUME Watch
      PROVE  revived' \in [Requests -> SUBSET Slots]
  BY <1>1 DEF Watch, Revived
<1>2. ASSUME NEW a \in Applications, NEW student \in Students \cup {None},
             Create(a, student) \/ Update(a, student)
      PROVE  application' \in [Applications -> Application \cup {NoApplication}]
  <2>1. CASE Create(a, student)
    <3>1. [status |-> "enquiry", student |-> student] \in Application
      BY DEF Application, Statuses, Open
    <3> QED
      BY <2>1, <3>1 DEF Create
  <2>2. CASE Update(a, student)
    <3>1. [application[a] EXCEPT !.student = student] \in Application
      BY <2>2 DEF Update, Application
    <3> QED
      BY <2>2, <3>1 DEF Update
  <2> QED
    BY <1>2, <2>1, <2>2
<1>3. ASSUME NEW r \in Requests, Write(r)
      PROVE  application' \in [Applications -> Application \cup {NoApplication}]
  <2>1. /\ req[r] \in Request /\ req[r] # Idle
        /\ req[r].app \in Applications
        /\ req[r].op \in Operations
        /\ req[r].op = "enroll" => req[r].student \in Students
    BY <1>3, OperationsKnown DEF Write, Request, Idle
  <2>2. Target[req[r].op] \in Statuses
    BY <2>1, OperationsKnown DEF Target, Statuses, Open, Terminal
  <2>3. application[req[r].app].student \in Students \cup {None}
    BY <2>1, StudentKnown
  <2>4. ASSUME NEW row, row \in Application \cup {NoApplication},
               NEW student \in Students \cup {None}
        PROVE  [row EXCEPT !.status = Target[req[r].op], !.student = student]
                 \in Application
    BY <2>2, <2>4 DEF Application, NoApplication
  <2>5. PICK student \in Students \cup {None} :
          application' = [application EXCEPT
                            ![req[r].app].status = Target[req[r].op],
                            ![req[r].app].student = student]
    BY <1>3, <2>1, <2>3 DEF Write
  <2> QED
    BY <2>1, <2>4, <2>5
<1>4. ASSUME NEW r \in Requests, InsertEnrollment(r)
      PROVE  placed' \in [Applications -> SUBSET Slots]
  BY <1>4 DEF InsertEnrollment, SlotsOf
<1> QED
  BY <1>1, <1>2, <1>3, <1>4
  DEF Next, Step, Create, Update, Transition, RevertEnrollment, Enroll,
      CheckOutcome, InsertEnrollment, Write, Fail, Elsewhere

LEMMA TypeKept ==
    ASSUME TypeOK, OneActive, Next
    PROVE  TypeOK'
BY RowsKept, RequestsTyped, TablesTyped DEF TypeOK
-----------------------------------------------------------------------------
\* What an application's enroll made is never lost.
LEMMA PlacedGrows ==
    ASSUME TypeOK, Next, NEW a \in Applications
    PROVE  placed[a] \subseteq placed'[a]
<1>1. ASSUME NEW r \in Requests, InsertEnrollment(r)
      PROVE  placed[a] \subseteq placed'[a]
  <2>1. ASSUME NEW s, placed' = [placed EXCEPT ![req[r].app] = @ \cup {s}]
        PROVE  placed[a] \subseteq placed'[a]
    BY <2>1 DEF TypeOK
  <2> QED
    BY <1>1, <2>1 DEF InsertEnrollment
<1>2. CASE UNCHANGED placed
  BY <1>2
<1> QED
  BY <1>1, <1>2
  DEF Next, Step, Create, Update, Transition, RevertEnrollment, Enroll,
      CheckOutcome, Write, Fail, Elsewhere

\* Create and Update leave the status of an application that is there alone.
LEMMA EditsKeepStatus ==
    ASSUME TypeOK, NEW b \in Applications, NEW student \in Students \cup {None},
           Create(b, student) \/ Update(b, student), NEW a \in Applications
    PROVE  /\ application[a] # NoApplication =>
                application'[a].status = application[a].status
           /\ application[a] = NoApplication =>
                application'[a].status \in {"none", "enquiry"}
<1>1. application \in [Applications -> Application \cup {NoApplication}]
  BY DEF TypeOK
<1>2. CASE Create(b, student)
  BY <1>1, <1>2 DEF Create, NoApplication
<1>3. CASE Update(b, student)
  <2>1. application[b] \in Application
    BY <1>1, <1>3 DEF Update
  <2>2. [application[b] EXCEPT !.student = student].status
          = application[b].status
    BY <2>1 DEF Application
  <2>3. application'[a] = IF a = b THEN [application[b] EXCEPT !.student = student]
                          ELSE application[a]
    BY <1>1, <1>3 DEF Update
  <2> QED
    BY <1>3, <2>2, <2>3 DEF Update, NoApplication
<1> QED
  BY <1>2, <1>3

\* Applications are never deleted.
LEMMA ApplicationsStay ==
    ASSUME TypeOK, Next, NEW a \in Applications, application[a] # NoApplication
    PROVE  application'[a] # NoApplication
<1>1. ASSUME NEW b \in Applications, NEW student \in Students \cup {None},
             Create(b, student) \/ Update(b, student)
      PROVE  application'[a] # NoApplication
  <2>1. application[a].status # "none"
    BY DEF TypeOK, Application, Statuses, Open, Terminal
  <2>2. application'[a].status = application[a].status
    BY <1>1, EditsKeepStatus
  <2> QED
    BY <2>1, <2>2 DEF NoApplication
<1>2. ASSUME NEW r \in Requests, Write(r)
      PROVE  application'[a] # NoApplication
  <2>1. req[r].op \in Operations
    BY <1>2, OperationsKnown DEF TypeOK, Write, Request, Idle
  <2>2. Target[req[r].op] # "none"
    BY <2>1, OperationsKnown DEF Target
  <2> QED
    BY <1>2, <2>2 DEF TypeOK, Write, NoApplication
<1> QED
  BY <1>1, <1>2
  DEF Next, Step, Transition, RevertEnrollment, Enroll, CheckOutcome,
      InsertEnrollment, Fail, Elsewhere

\* What WritesChecked says of one request.
Checked(r) ==
    req[r].pc # "idle" =>
        /\ req[r].seen \in Legal[req[r].op]
        /\ application[req[r].app] # NoApplication
        /\ req[r].pc = "write" /\ req[r].op = "enroll" =>
             placed[req[r].app] # {}

LEMMA WritesKept ==
    ASSUME TypeOK, WritesChecked, Next
    PROVE  WritesChecked'
<1> SUFFICES ASSUME NEW q \in Requests
             PROVE  Checked(q)'
  BY DEF WritesChecked, Checked
<1>1. Checked(q)
  BY DEF WritesChecked, Checked
<1>2. req[q].pc # "idle" => req[q].app \in Applications
  BY DEF TypeOK, Request, Idle
<1>3. ASSUME req'[q] = req[q]
      PROVE  Checked(q)'
  BY <1>1, <1>2, <1>3, PlacedGrows, ApplicationsStay DEF Checked
<1>4. ASSUME req'[q] = Idle
      PROVE  Checked(q)'
  BY <1>4 DEF Checked, Idle
<1>5. ASSUME NEW r \in Requests, Return(r)
      PROVE  Checked(q)'
  BY <1>3, <1>4, <1>5 DEF Return, TypeOK
<1>6. ASSUME NEW r \in Requests, NEW a \in Applications, NEW op \in Operations,
             Transition(r, a, op)
      PROVE  Checked(q)'
  <2>1. application[a] # NoApplication
    BY <1>6, OperationsKnown DEF Transition, Legal, Open, NoApplication
  <2> QED
    BY <1>3, <1>6, <2>1 DEF Transition, TypeOK, Checked
<1>7. ASSUME NEW r \in Requests, NEW a \in Applications, RevertEnrollment(r, a)
      PROVE  Checked(q)'
  <2>1. application[a] # NoApplication
    BY <1>7 DEF RevertEnrollment, Legal, NoApplication
  <2> QED
    BY <1>3, <1>7, <2>1 DEF RevertEnrollment, TypeOK, Checked
<1>8. ASSUME NEW r \in Requests, NEW a \in Applications,
             NEW given \in Students \cup {None}, Enroll(r, a, given)
      PROVE  Checked(q)'
  <2>1. application[a] # NoApplication
    BY <1>8 DEF Enroll, Legal, NoApplication, Statuses, Open, Terminal
  <2> QED
    BY <1>3, <1>8, <2>1 DEF Enroll, TypeOK, Checked
<1>9. ASSUME NEW r \in Requests, CheckOutcome(r)
      PROVE  Checked(q)'
  <2>1. CASE Return(r)
    BY <1>5, <2>1
  <2>2. CASE r = q /\ req' = [req EXCEPT ![r].pc = "write"]
    <3>1. /\ req[q] \in Request /\ req[q].op = "revertEnrollment"
      BY <1>9, <2>2 DEF CheckOutcome, TypeOK, Request, Idle
    <3>2. /\ req'[q].op = req[q].op /\ req'[q].seen = req[q].seen
          /\ req'[q].app = req[q].app
      BY <2>2 DEF TypeOK
    <3>3. /\ req[q].pc # "idle" /\ req'[q].op # "enroll"
          /\ application' = application
      BY <1>9, <2>2, <3>1, <3>2 DEF CheckOutcome
    <3>4. application'[req'[q].app] # NoApplication
      BY <1>1, <3>2, <3>3 DEF Checked
    <3> QED
      BY <1>1, <3>2, <3>3, <3>4 DEF Checked
  <2>3. CASE r # q /\ req' = [req EXCEPT ![r].pc = "write"]
    BY <1>3, <2>3 DEF TypeOK
  <2> QED
    BY <1>9, <2>1, <2>2, <2>3 DEF CheckOutcome
<1>10. ASSUME NEW r \in Requests, InsertEnrollment(r)
       PROVE  Checked(q)'
  <2>1. CASE Return(r)
    BY <1>5, <2>1
  <2>2. CASE r = q /\ req' = [req EXCEPT ![r].pc = "write"]
    <3>1. /\ req'[q].op = req[q].op /\ req'[q].seen = req[q].seen
          /\ req'[q].app = req[q].app
      BY <2>2 DEF TypeOK
    <3>2. CASE \E s : placed' = [placed EXCEPT ![req[r].app] = @ \cup {s}]
      <4>1. placed'[req'[q].app] # {}
        <5>1. req[q].app \in Applications
          BY <1>2, <1>10, <2>2 DEF InsertEnrollment
        <5>2. PICK s : placed' = [placed EXCEPT ![req[q].app] = @ \cup {s}]
          BY <2>2, <3>2
        <5>3. placed'[req[q].app] = placed[req[q].app] \cup {s}
          BY <5>1, <5>2 DEF TypeOK
        <5> QED
          BY <3>1, <5>3
      <4>2. /\ req[q].pc # "idle" /\ application' = application
        BY <1>10, <2>2 DEF InsertEnrollment
      <4>3. application'[req'[q].app] # NoApplication
        BY <1>1, <3>1, <4>2 DEF Checked
      <4> QED
        BY <1>1, <3>1, <4>1, <4>2, <4>3 DEF Checked
    <3>3. CASE Return(r)
      BY <1>5, <3>3
    <3> QED
      BY <1>10, <3>2, <3>3 DEF InsertEnrollment
  <2>3. CASE r # q /\ req' = [req EXCEPT ![r].pc = "write"]
    BY <1>3, <2>3 DEF TypeOK
  <2> QED
    BY <1>10, <2>1, <2>2, <2>3 DEF InsertEnrollment
<1>11. CASE UNCHANGED req
  BY <1>3, <1>11
<1> QED
  BY <1>5, <1>6, <1>7, <1>8, <1>9, <1>10, <1>11
  DEF Next, Step, Create, Update, Write, Fail, Elsewhere

LEMMA PlacedKept ==
    ASSUME TypeOK, OneActive, WritesChecked, EnrolledIsPlaced, Next
    PROVE  EnrolledIsPlaced'
<1>1. \A t \in Slots : Enrolled(t) => Enrolled(t)'
  BY RowsKept
<1>2. ASSUME NEW a \in Applications, NEW s \in placed'[a]
      PROVE  Enrolled(s)'
  <2>1. CASE s \in placed[a]
    BY <1>1, <2>1 DEF EnrolledIsPlaced, TypeOK
  <2>2. ASSUME s \notin placed[a]
        PROVE  Enrolled(s)'
    <3>1. PICK r \in Requests : InsertEnrollment(r) /\ ~UNCHANGED placed
      BY <1>2, <2>2
      DEF Next, Step, Create, Update, Transition, RevertEnrollment, Enroll,
          CheckOutcome, InsertEnrollment, Write, Fail, Elsewhere
    <3>2. PICK t \in SlotsOf(req[r].student), classroom \in Classrooms :
            /\ Insert(t, classroom)
            /\ placed' = [placed EXCEPT ![req[r].app] = @ \cup {t}]
      BY <3>1 DEF InsertEnrollment
    <3>3. s = t
      BY <1>2, <2>2, <3>2 DEF TypeOK
    <3> QED
      BY <3>2, <3>3, InsertKeeps DEF SlotsOf, TypeOK
  <2> QED
    BY <2>1, <2>2
<1>3. ASSUME NEW a \in Applications, application'[a].status = "enrolled"
      PROVE  placed'[a] # {}
  <2>1. CASE application[a].status = "enrolled"
    BY <2>1, PlacedGrows DEF EnrolledIsPlaced
  <2>2. ASSUME application[a].status # "enrolled"
        PROVE  placed'[a] # {}
    <3>1. ASSUME NEW b \in Applications, NEW student \in Students \cup {None},
                 Create(b, student) \/ Update(b, student)
          PROVE  FALSE
      BY <1>3, <2>2, <3>1, EditsKeepStatus
    <3>2. PICK r \in Requests : Write(r)
      BY <1>3, <2>2, <3>1
      DEF Next, Step, Transition, RevertEnrollment, Enroll, CheckOutcome,
          InsertEnrollment, Fail, Elsewhere
    <3>3. req[r].op \in Operations
      BY <3>2, OperationsKnown DEF TypeOK, Write, Request, Idle
    <3>4. req[r].app = a /\ Target[req[r].op] = "enrolled"
      BY <1>3, <2>2, <3>2 DEF Write, TypeOK
    <3>5. req[r].op = "enroll"
      BY <3>3, <3>4, OperationsKnown DEF Target
    <3> QED
      BY <3>2, <3>4, <3>5, PlacedGrows DEF Write, WritesChecked
  <2> QED
    BY <2>1, <2>2
<1> QED
  BY <1>2, <1>3 DEF EnrolledIsPlaced
-----------------------------------------------------------------------------
\* From the check of a revert to its write, a row that becomes live is noted.
LEMMA OutcomeKept ==
    ASSUME TypeOK, OneActive, RevertSeesOutcome, Next
    PROVE  RevertSeesOutcome'
<1> SUFFICES ASSUME NEW q \in Requests, req'[q].pc = "write",
                    req'[q].op = "revertEnrollment",
                    NEW s \in SlotsOf(req'[q].student), Live(s)'
             PROVE  s \in revived'[q]
  BY DEF RevertSeesOutcome, SlotsOf, Slots
<1>1. Watch
  BY DEF Next, Step, Create, Update, Transition, RevertEnrollment, Enroll,
         CheckOutcome, InsertEnrollment, Write, Fail, Elsewhere
<1>2. s \in Slots
  BY DEF SlotsOf
<1>3. CASE req[q].pc = "write" /\ req'[q] = req[q]
  BY <1>1, <1>2, <1>3 DEF RevertSeesOutcome, Watch, Revived
<1>4. ASSUME req'[q] # req[q]
      PROVE  s \in revived'[q]
  <2>1. ASSUME NEW r \in Requests, Return(r)
        PROVE  FALSE
    BY <1>4, <2>1 DEF Return, TypeOK, Idle
  <2>2. ASSUME NEW a \in Applications, NEW r \in Requests,
               RevertEnrollment(r, a)
        PROVE  FALSE
    BY <1>2, <1>4, <2>2, NullAssumption
    DEF RevertEnrollment, TypeOK, SlotsOf, Slots
  <2>3. ASSUME NEW r \in Requests, CheckOutcome(r)
        PROVE  FALSE
    <3>1. r = q /\ req' = [req EXCEPT ![r].pc = "write"]
      BY <1>4, <2>1, <2>3 DEF CheckOutcome, TypeOK
    <3>2. req'[q].student = req[q].student /\ UNCHANGED enrollment
      BY <2>3, <3>1 DEF CheckOutcome, TypeOK
    <3>3. ~Live(s)
      BY <2>1, <2>3, <3>1, <3>2 DEF CheckOutcome, Return
    <3> QED
      BY <3>2, <3>3 DEF Live
  <2>4. ASSUME NEW r \in Requests, InsertEnrollment(r)
        PROVE  FALSE
    <3>1. r = q /\ req' = [req EXCEPT ![r].pc = "write"]
      BY <1>4, <2>1, <2>4 DEF InsertEnrollment, TypeOK
    <3>2. req'[q].op = req[q].op
      BY <3>1 DEF TypeOK
    <3>3. req[q].op = "enroll"
      BY <2>4, <3>1 DEF InsertEnrollment, TypeOK, Request, Idle
    <3> QED
      BY <3>2, <3>3
  <2>5. ASSUME NEW r \in Requests, NEW a \in Applications, NEW op \in Operations,
               Transition(r, a, op)
        PROVE  FALSE
    BY <1>4, <2>5 DEF Transition, TypeOK
  <2>6. ASSUME NEW r \in Requests, NEW a \in Applications,
               NEW given \in Students \cup {None}, Enroll(r, a, given)
        PROVE  FALSE
    BY <1>4, <2>6 DEF Enroll, TypeOK
  <2> QED
    BY <1>4, <2>1, <2>2, <2>3, <2>4, <2>5, <2>6
    DEF Next, Step, Create, Update, Write, Fail, Elsewhere
<1> QED
  BY <1>3, <1>4

LEMMA StepKeepsInv == AdmissionsInv /\ [Next]_vars => AdmissionsInv'
<1>1. ASSUME AdmissionsInv, Next
      PROVE  AdmissionsInv'
  BY <1>1, TypeKept, RowsKept, WritesKept, PlacedKept, OutcomeKept
  DEF AdmissionsInv
<1>2. ASSUME AdmissionsInv, UNCHANGED vars
      PROVE  AdmissionsInv'
  BY <1>2 DEF AdmissionsInv, vars, TypeOK, EnrollmentsTyped, OneActive, Active,
              WritesChecked, EnrolledIsPlaced, Enrolled, RevertSeesOutcome, Live
<1> QED
  BY <1>1, <1>2

\* The invariant that TLC checks on the instance holds for all constants.
THEOREM AdmissionsSafe == Spec => []AdmissionsInv
BY InitInv, StepKeepsInv, PTL DEF Spec

\* No application is ever enrolled without an enrollment on record:
\* enroll inserts first and updates second.
THEOREM EnrolledPlaced == Spec => []EnrolledIsPlaced
<1>1. AdmissionsInv => EnrolledIsPlaced
  BY DEF AdmissionsInv
<1> QED
  BY <1>1, AdmissionsSafe, PTL

\* revertEnrollment goes ahead only past outcomes that came after its check.
THEOREM OutcomesSeen == Spec => []RevertSeesOutcome
<1>1. AdmissionsInv => RevertSeesOutcome
  BY DEF AdmissionsInv
<1> QED
  BY <1>1, AdmissionsSafe, PTL

LEMMA TerminalStep ==
    ASSUME TypeOK, WritesChecked, Next, NEW a \in Applications,
           application[a].status \in Terminal,
           application[a].status # application'[a].status
    PROVE  \E r \in Requests :
             /\ req[r].pc = "write" /\ req[r].app = a
             /\ req[r].op = "enroll" \/ req[r].seen \notin Terminal
<1>1. ASSUME NEW b \in Applications, NEW student \in Students \cup {None},
             Create(b, student) \/ Update(b, student)
      PROVE  FALSE
  BY <1>1, EditsKeepStatus DEF Terminal, NoApplication
<1>2. PICK r \in Requests : Write(r)
  BY <1>1
  DEF Next, Step, Transition, RevertEnrollment, Enroll, CheckOutcome,
      InsertEnrollment, Fail, Elsewhere
<1>3. req[r].op \in Operations
  BY <1>2, OperationsKnown DEF TypeOK, Write, Request, Idle
<1>4. req[r].app = a
  BY <1>2 DEF Write, TypeOK
<1>5. req[r].seen \in Legal[req[r].op]
  BY <1>2 DEF Write, WritesChecked
<1>6. req[r].op = "enroll" \/ req[r].seen \notin Terminal
  BY <1>3, <1>5, OperationsKnown DEF Legal, Terminal, Open
<1> QED
  BY <1>2, <1>4, <1>6 DEF Write

\* Rejected and withdrawn applications stay so, but for enroll and for
\* transitions that had read them before.
THEOREM TerminalKept == Spec => TerminalStays
<1>1. AdmissionsInv /\ [Next]_vars =>
        [\A a \in Applications :
           /\ application[a].status \in Terminal
           /\ application[a].status # application'[a].status
           => \E r \in Requests :
                /\ req[r].pc = "write" /\ req[r].app = a
                /\ req[r].op = "enroll" \/ req[r].seen \notin Terminal]_vars
  BY TerminalStep DEF AdmissionsInv
<1> QED
  BY <1>1, AdmissionsSafe, PTL DEF Spec, TerminalStays
-----------------------------------------------------------------------------
(* School fees.                                                            *)

LEMMA FeesInitInv == FeesInit => FeesInv
<1> SUFFICES ASSUME FeesInit
             PROVE  FeesInv
  OBVIOUS
<1>1. FeesTypeOK
  <2>1. ClassesTyped
    BY DEF FeesInit, EnrollmentsInit, ClassesInit, ClassesTyped, EnrollmentsTyped, Class
  <2> QED
    BY <2>1, FeesAssumption DEF FeesInit, FeesTypeOK, NoFee, Billing
<1>2. OneActive
  BY DEF FeesInit, EnrollmentsInit, OneActive, Active, NotEnrolled
<1>3. TargetsKnown
  BY DEF FeesInit, TargetsKnown, NoBilling
<1>4. NoRevenueHole
  BY DEF FeesInit, EnrollmentsInit, NoRevenueHole, Targets, Seat, Active, NotEnrolled
<1> QED
  BY <1>1, <1>2, <1>3, <1>4 DEF FeesInv

\* The locals of a request that has begun.
LEMMA BegunTyped ==
    ASSUME FeesTypeOK, NEW r \in Billings, billing[r].pc # "idle"
    PROVE  /\ billing[r].pc \in {"target", "assign"} /\ billing[r].fee \in Fees
           /\ billing[r].new \in BOOLEAN /\ billing[r].amount \in Amounts
           /\ billing[r].targets \in SUBSET Slots
           /\ billing[r] = [pc |-> billing[r].pc, fee |-> billing[r].fee, new |-> billing[r].new,
                        amount |-> billing[r].amount, targets |-> billing[r].targets]
BY DEF FeesTypeOK, Billing, NoBilling

\* No fee that is there has the amount, or the status, of one that is not.
LEMMA FeeTyped ==
    ASSUME FeesTypeOK, NEW f \in Fees, fee[f] # NoFee
    PROVE  /\ fee[f].status \in {"active", "archived"} /\ fee[f].amount \in Amounts
           /\ fee[f] = [status |-> fee[f].status, amount |-> fee[f].amount]
BY DEF FeesTypeOK

\* What createMany leaves of the assignments.
LEMMA BilledTyped ==
    ASSUME FeesTypeOK, NEW r \in Billings, billing[r].pc # "idle"
    PROVE  /\ Billed(r) \in [Fees -> [Slots -> Amounts \cup {0}]]
           /\ \A f \in Fees, s \in Slots :
                /\ due[f][s] # 0 => Billed(r)[f][s] = due[f][s]
                /\ f = billing[r].fee /\ s \in billing[r].targets => Billed(r)[f][s] # 0
<1>1. billing[r].fee \in Fees /\ billing[r].amount \in Amounts /\ billing[r].amount # 0
  BY BegunTyped, FeesAssumption
<1>2. due \in [Fees -> [Slots -> Amounts \cup {0}]]
  BY DEF FeesTypeOK
<1> DEFINE row == [s \in Slots |->
                     IF s \in billing[r].targets /\ due[billing[r].fee][s] = 0
                     THEN billing[r].amount ELSE due[billing[r].fee][s]]
<1>3. row \in [Slots -> Amounts \cup {0}]
  BY <1>1, <1>2
<1>4. \A s \in Slots : /\ due[billing[r].fee][s] # 0 => row[s] = due[billing[r].fee][s]
                       /\ s \in billing[r].targets => row[s] # 0
  BY <1>1, <1>2
<1>5. Billed(r) = [due EXCEPT ![billing[r].fee] = row]
  BY DEF Billed
<1> HIDE DEF row
<1> QED
  BY <1>1, <1>2, <1>3, <1>4, <1>5

\* A fee's row after a create or a reconcile commits.
LEMMA AssignedFee ==
    ASSUME FeesTypeOK, TargetsKnown, NEW r \in Billings, Assign(r)
    PROVE  /\ fee' \in [Fees -> [status : {"active", "archived"}, amount : Amounts]
                               \cup {NoFee}]
           /\ fee'[billing[r].fee] # NoFee
           /\ \A f \in Fees \ {billing[r].fee} : fee'[f] = fee[f]
<1>1. billing[r].pc # "idle"
  BY DEF Assign
<1>2. /\ billing[r].fee \in Fees /\ billing[r].amount \in Amounts
      /\ billing[r].new \in BOOLEAN
  BY <1>1, BegunTyped
<1>3. billing[r].new <=> fee[billing[r].fee] = NoFee
  BY <1>1 DEF TargetsKnown
<1>4. CASE billing[r].new
  BY <1>2, <1>4 DEF Assign, FeesTypeOK, NoFee
<1>5. CASE ~billing[r].new
  BY <1>2, <1>3, <1>5 DEF Assign, FeesTypeOK
<1> QED
  BY <1>4, <1>5
\* What a step on enrollments and classrooms leaves true.
LEMMA ClassroomsKept ==
    ASSUME ClassesTyped, OneActive, ClassroomsStep
    PROVE  ClassesTyped' /\ OneActive'
<1>1. CASE ChangeEnrollments
  BY <1>1, EnrollmentsKept DEF ChangeEnrollments, ClassesTyped, classVars
<1>2. ASSUME NEW c \in Classrooms, UpdateClassroom(c)
      PROVE  ClassesTyped' /\ OneActive'
  <2>1. class' \in [Classrooms -> Class]
    BY <1>2 DEF UpdateClassroom, ClassesTyped
  <2>2. yearsHad' \in [Classrooms -> SUBSET SchoolYears]
    BY <1>2 DEF UpdateClassroom, ClassesTyped, Class
  <2> QED
    BY <1>2, <2>1, <2>2
    DEF UpdateClassroom, ClassesTyped, EnrollmentsTyped, OneActive, Active
<1> QED
  BY <1>1, <1>2 DEF ClassroomsStep
-----------------------------------------------------------------------------
LEMMA FeesTypeKept ==
    ASSUME FeesTypeOK, OneActive, TargetsKnown, FeesNext
    PROVE  FeesTypeOK' /\ OneActive'
<1>1. ASSUME NEW r \in Billings, NEW f \in Fees, NEW amount \in Amounts,
             CreateFee(r, f, amount)
      PROVE  FeesTypeOK' /\ OneActive'
  <2>1. [pc |-> "target", fee |-> f, new |-> TRUE, amount |-> amount,
         targets |-> {}] \in Billing
    BY DEF Billing
  <2> QED
    BY <1>1, <2>1
    DEF CreateFee, FeesTypeOK, ClassesTyped, EnrollmentsTyped, classVars, OneActive, Active
<1>2. ASSUME NEW r \in Billings, NEW f \in Fees, Reconcile(r, f)
      PROVE  FeesTypeOK' /\ OneActive'
  <2>1. [pc |-> "target", fee |-> f, new |-> FALSE, amount |-> fee[f].amount,
         targets |-> {}] \in Billing
    BY <1>2, FeeTyped DEF Reconcile, Billing
  <2> QED
    BY <1>2, <2>1
    DEF Reconcile, FeesTypeOK, ClassesTyped, EnrollmentsTyped, classVars, OneActive, Active
<1>3. ASSUME NEW r \in Billings, ReadTargets(r)
      PROVE  FeesTypeOK' /\ OneActive'
  <2> DEFINE targets == Targets(billing[r].fee)
  <2>a. targets \in SUBSET Slots
    BY DEF Targets
  <2> HIDE DEF targets
  <2>1. [billing[r] EXCEPT !.pc = "assign", !.targets = targets] \in Billing
    <3>1. billing[r] \in Billing \ {NoBilling}
      BY <1>3 DEF ReadTargets, FeesTypeOK, NoBilling
    <3> QED
      BY <2>a, <3>1 DEF Billing
  <2>2. billing' \in [Billings -> Billing]
    BY <1>3, <2>1 DEF ReadTargets, FeesTypeOK, targets
  <2>3. missed' \in [Fees \cup Billings -> SUBSET Slots]
    BY <1>3 DEF ReadTargets, FeesTypeOK
  <2> QED
    BY <1>3, <2>2, <2>3
    DEF ReadTargets, FeesTypeOK, ClassesTyped, EnrollmentsTyped, classVars, OneActive, Active
<1>4. ASSUME NEW r \in Billings, Assign(r)
      PROVE  FeesTypeOK' /\ OneActive'
  <2>1. billing[r].pc # "idle"
    BY <1>4 DEF Assign
  <2>2. due' \in [Fees -> [Slots -> Amounts \cup {0}]]
    BY <1>4, <2>1, BilledTyped DEF Assign
  <2>3. billing' \in [Billings -> Billing]
    BY <1>4 DEF Assign, EndBilling, FeesTypeOK, Billing
  <2>4. missed' \in [Fees \cup Billings -> SUBSET Slots]
    BY <1>4, <2>1, BegunTyped DEF Assign, FeesTypeOK
  <2> QED
    BY <1>4, <2>2, <2>3, <2>4, AssignedFee
    DEF Assign, FeesTypeOK, ClassesTyped, EnrollmentsTyped, classVars, OneActive, Active
<1>5. ASSUME NEW r \in Billings, Rollback(r)
      PROVE  FeesTypeOK' /\ OneActive'
  BY <1>5
  DEF Rollback, EndBilling, FeesTypeOK, Billing, ClassesTyped, EnrollmentsTyped, classVars,
      OneActive, Active
<1>6. ASSUME NEW f \in Fees, NEW row,
             row \in [status : {"active", "archived"}, amount : Amounts],
             fee' = [fee EXCEPT ![f] = row],
             UNCHANGED <<enrollment, classVars, due, billing, missed>>
      PROVE  FeesTypeOK' /\ OneActive'
  BY <1>6 DEF FeesTypeOK, ClassesTyped, EnrollmentsTyped, classVars, OneActive, Active
<1>7. ASSUME NEW f \in Fees,
             \/ \E amount \in Amounts : UpdateFee(f, amount)
             \/ Archive(f) \/ Restore(f)
      PROVE  FeesTypeOK' /\ OneActive'
  <2>1. fee[f] \in [status : {"active", "archived"}, amount : Amounts]
    BY <1>7 DEF FeesTypeOK, UpdateFee, Archive, Restore, NoFee
  <2>2. \A amount \in Amounts :
          [fee[f] EXCEPT !.amount = amount]
             \in [status : {"active", "archived"}, amount : Amounts]
    BY <2>1
  <2>3. \A status \in {"active", "archived"} :
          [fee[f] EXCEPT !.status = status]
             \in [status : {"active", "archived"}, amount : Amounts]
    BY <2>1
  <2>4. CASE \E amount \in Amounts : UpdateFee(f, amount)
    BY <1>6, <2>2, <2>4 DEF UpdateFee
  <2>5. CASE Archive(f) \/ Restore(f)
    BY <1>6, <2>3, <2>5 DEF Archive, Restore
  <2> QED
    BY <1>7, <2>4, <2>5
<1>8. ASSUME NEW f \in Fees, NEW s \in Slots, NEW amount \in Amounts,
             EditDue(f, s, amount)
      PROVE  FeesTypeOK' /\ OneActive'
  <2>1. due' \in [Fees -> [Slots -> Amounts \cup {0}]]
    BY <1>8 DEF EditDue, FeesTypeOK
  <2> QED
    BY <1>8, <2>1
    DEF EditDue, FeesTypeOK, ClassesTyped, EnrollmentsTyped, classVars, OneActive, Active
<1>9. CASE EnrollElsewhere
  <2>1. missed' \in [Fees \cup Billings -> SUBSET Slots]
    <3>1. Joined \in SUBSET Slots
      BY DEF Joined
    <3> QED
      BY <1>9, <3>1 DEF EnrollElsewhere, FeesTypeOK
  <2>2. ClassesTyped' /\ OneActive'
    BY <1>9, ClassroomsKept DEF EnrollElsewhere, FeesTypeOK
  <2> QED
    BY <1>9, <2>1, <2>2 DEF EnrollElsewhere, FeesTypeOK
<1> QED
  BY <1>1, <1>2, <1>3, <1>4, <1>5, <1>7, <1>8, <1>9, FeesAssumption DEF FeesNext
-----------------------------------------------------------------------------
\* What TargetsKnown says of one request.
Known(r) ==
    billing[r].pc # "idle" =>
        /\ billing[r].new <=> fee[billing[r].fee] = NoFee
        /\ billing[r].new => ~\E q \in Billings \ {r} :
             billing[q].pc # "idle" /\ billing[q].fee = billing[r].fee
        /\ billing[r].pc = "assign" =>
             Targets(billing[r].fee) \subseteq billing[r].targets \cup missed[r]

\* Enrollments and classrooms move on, and nobody comes to a level unnoticed.
LEMMA TargetsGrow ==
    ASSUME FeesInv, NEW f \in Fees, ClassroomsStep
    PROVE  Targets(f)' \subseteq Targets(f) \cup Joined
<1>1. ASSUME NEW s \in Targets(f)', s \notin Joined
      PROVE  s \in Targets(f)
  <2>1. s \in Slots /\ Active(s)' /\ Active(s) /\ Seat(s)' = Seat(s)
    BY <1>1 DEF Targets, Joined
  <2> QED
    BY <1>1, <2>1 DEF Targets
<1> QED
  BY <1>1

\* Steps that move no request and no fee in or out of existence.
LEMMA KnownElsewhere ==
    ASSUME FeesInv, EnrollElsewhere
    PROVE  TargetsKnown' /\ NoRevenueHole'
<1>1. \A f \in Fees : Targets(f)' \subseteq Targets(f) \cup Joined
  BY TargetsGrow DEF EnrollElsewhere
<1>2. /\ \A f \in Fees : missed'[f] = missed[f] \cup Joined
      /\ \A r \in Billings :
           billing[r].pc = "assign" => missed'[r] = missed[r] \cup Joined
  BY DEF EnrollElsewhere
<1>3. UNCHANGED <<fee, due, billing>>
  BY DEF EnrollElsewhere
<1>4. ASSUME NEW r \in Billings, billing[r].pc # "idle"
      PROVE  Known(r)'
  <2>1. billing[r].fee \in Fees
    BY <1>4, BegunTyped DEF FeesInv
  <2>2. billing[r].pc = "assign" =>
          Targets(billing[r].fee) \subseteq billing[r].targets \cup missed[r]
    BY <1>4 DEF FeesInv, TargetsKnown
  <2>3. \A g \in Fees : g = billing[r].fee /\ billing[r].pc = "assign" =>
          Targets(g)' \subseteq billing'[r].targets \cup missed'[r]
    BY <1>1, <1>2, <1>3, <2>2
  <2>4. billing'[r].pc = "assign" =>
          Targets(billing[r].fee)' \subseteq billing'[r].targets \cup missed'[r]
    BY <1>3, <2>1, <2>3
  <2> QED
    BY <1>3, <1>4, <2>4 DEF FeesInv, TargetsKnown, Known
<1>5. TargetsKnown'
  BY <1>3, <1>4 DEF TargetsKnown, Known
<1>6. NoRevenueHole'
  BY <1>1, <1>2, <1>3 DEF FeesInv, NoRevenueHole
<1> QED
  BY <1>5, <1>6

\* A request that begins has read nothing, and creates only what nobody else
\* is at work on.
LEMMA KnownBegin ==
    ASSUME FeesInv, NEW r \in Billings, NEW f \in Fees,
           (\E amount \in Amounts : CreateFee(r, f, amount)) \/ Reconcile(r, f)
    PROVE  TargetsKnown'
<1>1. /\ billing[r].pc = "idle"
      /\ billing'[r].pc = "target" /\ billing'[r].fee = f
      /\ billing'[r].new <=> fee[f] = NoFee
      /\ \A q \in Billings \ {r} : billing'[q] = billing[q]
  BY DEF FeesInv, FeesTypeOK, CreateFee, Reconcile
<1>2. UNCHANGED <<enrollment, classVars, fee, missed>>
  BY DEF CreateFee, Reconcile
<1>3. billing'[r].new => ~BeingCreated(f)
  BY <1>1 DEF CreateFee, Reconcile
<1>4. \A q \in Billings \ {r} : billing[q].pc # "idle" /\ billing[q].fee = f =>
        (billing[q].new <=> fee[f] = NoFee)
  BY DEF FeesInv, TargetsKnown
<1>5. ~\E q \in Billings \ {r} :
         billing[q].pc # "idle" /\ billing[q].fee = f /\ (billing[q].new \/ billing'[r].new)
  BY <1>1, <1>3, <1>4 DEF BeingCreated
<1>6. ASSUME NEW q \in Billings, billing'[q].pc # "idle"
      PROVE  Known(q)'
  <2>1. CASE q = r
    BY <1>1, <1>2, <1>5, <2>1 DEF Known
  <2>2. CASE q # r
    <3>1. billing'[q] = billing[q] /\ Targets(billing[q].fee)' = Targets(billing[q].fee)
      BY <1>1, <1>2, <2>2 DEF Targets, Seat, Active, classVars
    <3>2. billing[q].new => billing[q].fee # f
      BY <1>5, <1>6, <2>2, <3>1
    <3> QED
      BY <1>1, <1>2, <1>6, <2>2, <3>1, <3>2 DEF Known, FeesInv, TargetsKnown
  <2> QED
    BY <2>1, <2>2
<1> QED
  BY <1>6 DEF TargetsKnown, Known

\* A request that ends, whatever becomes of the fee that it alone made.
LEMMA KnownEnd ==
    ASSUME FeesInv, NEW r \in Billings, Assign(r) \/ Rollback(r)
    PROVE  TargetsKnown'
<1>1. /\ billing[r].pc # "idle" /\ billing[r].fee \in Fees
      /\ billing'[r] = NoBilling /\ \A q \in Billings \ {r} : billing'[q] = billing[q]
  BY BegunTyped DEF FeesInv, FeesTypeOK, Assign, Rollback, EndBilling
<1>2. \A q \in Billings \ {r} : missed'[q] = missed[q]
  BY <1>1, FeesAssumption DEF FeesInv, FeesTypeOK, Assign, Rollback
<1>3. ASSUME NEW q \in Billings \ {r}, billing[q].pc # "idle"
      PROVE  /\ fee'[billing[q].fee] = NoFee <=> fee[billing[q].fee] = NoFee
             /\ \A f \in Fees : Targets(f)' = Targets(f)
  <2>1. billing[q].fee \in Fees
    BY <1>3, BegunTyped DEF FeesInv
  <2>2. \A f \in Fees : Targets(f)' = Targets(f)
    BY DEF Assign, Rollback, Targets, Seat, Active, classVars
  <2>3. CASE Rollback(r)
    BY <2>2, <2>3 DEF Rollback
  <2>4. CASE Assign(r)
    <3>1. /\ fee'[billing[r].fee] # NoFee
          /\ \A f \in Fees \ {billing[r].fee} : fee'[f] = fee[f]
      BY <2>4, AssignedFee DEF FeesInv
    <3>2. billing[q].fee = billing[r].fee => fee[billing[r].fee] # NoFee
      BY <1>1, <1>3 DEF FeesInv, TargetsKnown
    <3> QED
      BY <2>1, <2>2, <3>1, <3>2
  <2> QED
    BY <2>3, <2>4
<1>4. ASSUME NEW q \in Billings, billing'[q].pc # "idle"
      PROVE  Known(q)'
  <2>1. q # r /\ billing'[q] = billing[q]
    BY <1>1, <1>4 DEF NoBilling
  <2>2. billing[q].pc # "idle" /\ billing[q].fee \in Fees
    BY <1>4, <2>1, BegunTyped DEF FeesInv
  <2>3. billing'[q].new => ~\E p \in Billings \ {q} :
          billing'[p].pc # "idle" /\ billing'[p].fee = billing'[q].fee
    BY <1>1, <2>1, <2>2 DEF FeesInv, TargetsKnown, NoBilling
  <2>4. billing[q].pc = "assign" =>
          Targets(billing[q].fee) \subseteq billing[q].targets \cup missed[q]
    BY <2>2 DEF FeesInv, TargetsKnown
  <2>5. \A f \in Fees : f = billing[q].fee /\ billing[q].pc = "assign" =>
          Targets(f)' \subseteq billing'[q].targets \cup missed'[q]
    BY <1>2, <1>3, <2>1, <2>2, <2>4
  <2>6. billing'[q].new <=> fee'[billing'[q].fee] = NoFee
    BY <1>3, <2>1, <2>2 DEF FeesInv, TargetsKnown
  <2>7. billing'[q].pc = "assign" =>
          Targets(billing[q].fee)' \subseteq billing'[q].targets \cup missed'[q]
    BY <2>1, <2>2, <2>5
  <2> QED
    BY <2>3, <2>6, <2>7 DEF Known
<1> QED
  BY <1>4 DEF TargetsKnown, Known

LEMMA KnownRead ==
    ASSUME FeesInv, NEW r \in Billings, ReadTargets(r)
    PROVE  TargetsKnown'
<1>1. /\ billing[r].pc = "target" /\ billing[r].fee \in Fees
      /\ \A q \in Billings \ {r} : billing'[q] = billing[q]
      /\ billing'[r].fee = billing[r].fee /\ billing'[r].new = billing[r].new
      /\ billing'[r].targets = Targets(billing[r].fee)
  BY BegunTyped DEF FeesInv, FeesTypeOK, ReadTargets
<1>2. /\ UNCHANGED <<enrollment, classVars, fee>>
      /\ \A q \in Billings \ {r} : missed'[q] = missed[q]
  BY DEF FeesInv, FeesTypeOK, ReadTargets
<1>3. ASSUME NEW q \in Billings, billing'[q].pc # "idle"
      PROVE  Known(q)'
  <2>1. billing[q].pc # "idle" /\ billing'[q].fee = billing[q].fee /\ billing'[q].new = billing[q].new
    BY <1>1, <1>3
  <2>2. \A f \in Fees : Targets(f)' = Targets(f)
    BY <1>2 DEF Targets, Seat, Active, classVars
  <2>3. billing'[q].new => ~\E p \in Billings \ {q} :
          billing'[p].pc # "idle" /\ billing'[p].fee = billing'[q].fee
    BY <1>1, <2>1 DEF FeesInv, TargetsKnown
  <2>4. billing'[q].pc = "assign" =>
          Targets(billing[q].fee) \subseteq billing'[q].targets \cup missed'[q]
    BY <1>1, <1>2, <2>1 DEF FeesInv, TargetsKnown
  <2>5. billing[q].fee \in Fees
    BY <2>1, BegunTyped DEF FeesInv
  <2>6. \A f \in Fees : f = billing'[q].fee /\ billing'[q].pc = "assign" =>
          Targets(f)' \subseteq billing'[q].targets \cup missed'[q]
    BY <2>1, <2>2, <2>4
  <2>7. billing'[q].pc = "assign" =>
          Targets(billing[q].fee)' \subseteq billing'[q].targets \cup missed'[q]
    BY <2>1, <2>5, <2>6
  <2>8. billing'[q].new <=> fee'[billing'[q].fee] = NoFee
    BY <1>2, <2>1 DEF FeesInv, TargetsKnown
  <2> QED
    BY <2>3, <2>7, <2>8 DEF Known
<1> QED
  BY <1>3 DEF TargetsKnown, Known

\* After a create or a reconcile, the active enrollments of the level that are
\* not billed are those that became active after this and every earlier list.
LEMMA HoleAssign ==
    ASSUME FeesInv, NEW r \in Billings, Assign(r)
    PROVE  NoRevenueHole'
<1> DEFINE g == billing[r].fee
<1>1. billing[r].pc = "assign" /\ g \in Fees
  BY BegunTyped DEF FeesInv, Assign
<1>2. \A f \in Fees : Targets(f)' = Targets(f)
  BY DEF Assign, Targets, Seat, Active, classVars
<1>3. /\ \A f \in Fees, s \in Slots :
           /\ due[f][s] # 0 => due'[f][s] # 0
           /\ f = g /\ s \in billing[r].targets => due'[f][s] # 0
  BY <1>1, BilledTyped DEF FeesInv, Assign
<1>4. /\ missed'[g] = missed[g] \cap missed[r]
      /\ \A f \in Fees \ {g} : missed'[f] = missed[f]
  BY <1>1, FeesAssumption DEF FeesInv, FeesTypeOK, Assign
<1>5. ASSUME NEW f \in Fees, NEW s \in Targets(f)
      PROVE  due'[f][s] # 0 \/ s \in missed'[f]
  <2>1. s \in Slots
    BY DEF Targets
  <2>2. CASE f # g
    BY <1>3, <1>4, <1>5, <2>1, <2>2 DEF FeesInv, NoRevenueHole
  <2>3. CASE f = g
    <3>1. s \in billing[r].targets \cup missed[r]
      BY <1>1, <2>3 DEF FeesInv, TargetsKnown
    <3>2. CASE s \in billing[r].targets
      BY <1>3, <2>1, <2>3, <3>2
    <3>3. ASSUME s \notin billing[r].targets, s \in missed[r]
          PROVE  due'[f][s] # 0 \/ s \in missed'[f]
      BY <1>3, <1>4, <2>1, <2>3, <3>3 DEF FeesInv, NoRevenueHole
    <3> QED
      BY <3>1, <3>2, <3>3
  <2> QED
    BY <2>2, <2>3
<1> QED
  BY <1>2, <1>5 DEF NoRevenueHole

LEMMA RestKept ==
    ASSUME FeesInv, FeesNext
    PROVE  TargetsKnown' /\ NoRevenueHole'
<1>1. ASSUME NEW r \in Billings, NEW f \in Fees,
             (\E amount \in Amounts : CreateFee(r, f, amount)) \/ Reconcile(r, f)
      PROVE  TargetsKnown' /\ NoRevenueHole'
  <2>1. UNCHANGED <<enrollment, classVars, due, missed>>
    BY <1>1 DEF CreateFee, Reconcile
  <2> QED
    BY <1>1, <2>1, KnownBegin DEF FeesInv, NoRevenueHole, Targets, Seat, Active, classVars
<1>2. ASSUME NEW r \in Billings, ReadTargets(r)
      PROVE  TargetsKnown' /\ NoRevenueHole'
  <2>1. \A f \in Fees : missed'[f] = missed[f] /\ due'[f] = due[f]
    BY <1>2, FeesAssumption DEF ReadTargets, FeesInv, FeesTypeOK
  <2>2. \A f \in Fees : Targets(f)' = Targets(f)
    BY <1>2 DEF ReadTargets, Targets, Seat, Active, classVars
  <2> QED
    BY <1>2, <2>1, <2>2, KnownRead DEF FeesInv, NoRevenueHole
<1>3. ASSUME NEW r \in Billings, Assign(r)
      PROVE  TargetsKnown' /\ NoRevenueHole'
  BY <1>3, KnownEnd, HoleAssign
<1>4. ASSUME NEW r \in Billings, Rollback(r)
      PROVE  TargetsKnown' /\ NoRevenueHole'
  <2>1. \A f \in Fees : missed'[f] = missed[f] /\ Targets(f)' = Targets(f)
    BY <1>4, FeesAssumption
    DEF Rollback, FeesInv, FeesTypeOK, Targets, Seat, Active, classVars
  <2>2. UNCHANGED due
    BY <1>4 DEF Rollback
  <2> QED
    BY <1>4, <2>1, <2>2, KnownEnd DEF FeesInv, NoRevenueHole
<1>5. ASSUME NEW f \in Fees,
             \/ \E amount \in Amounts : UpdateFee(f, amount)
             \/ Archive(f) \/ Restore(f)
      PROVE  TargetsKnown' /\ NoRevenueHole'
  <2>1. UNCHANGED <<enrollment, classVars, due, billing, missed>>
    BY <1>5 DEF UpdateFee, Archive, Restore
  <2>2. NoRevenueHole'
    BY <2>1 DEF FeesInv, NoRevenueHole, Targets, Seat, Active, classVars
  <2>3. \A g \in Fees : fee'[g] = NoFee <=> fee[g] = NoFee
    BY <1>5 DEF UpdateFee, Archive, Restore, FeesInv, FeesTypeOK, NoFee
  <2>4. \A r \in Billings : billing[r].pc # "idle" => billing[r].fee \in Fees
    BY BegunTyped DEF FeesInv
  <2>5. TargetsKnown'
    BY <2>1, <2>3, <2>4 DEF FeesInv, TargetsKnown, Targets, Seat, Active, classVars
  <2> QED
    BY <2>2, <2>5
<1>6. ASSUME NEW f \in Fees, NEW s \in Slots, NEW amount \in Amounts,
             EditDue(f, s, amount)
      PROVE  TargetsKnown' /\ NoRevenueHole'
  <2>1. UNCHANGED <<enrollment, classVars, fee, billing, missed>>
    BY <1>6 DEF EditDue
  <2>2. TargetsKnown'
    BY <2>1 DEF FeesInv, TargetsKnown, Targets, Seat, Active, classVars
  <2>3. \A g \in Fees, t \in Slots : due[g][t] # 0 => due'[g][t] # 0
    BY <1>6, FeesAssumption DEF EditDue, FeesInv, FeesTypeOK
  <2>4. \A g \in Fees : Targets(g)' = Targets(g) /\ Targets(g) \subseteq Slots
    BY <2>1 DEF Targets, Seat, Active, classVars
  <2> QED
    BY <2>1, <2>2, <2>3, <2>4 DEF FeesInv, NoRevenueHole
<1> QED
  BY <1>1, <1>2, <1>3, <1>4, <1>5, <1>6, KnownElsewhere DEF FeesNext

LEMMA FeesStepKeepsInv == FeesInv /\ [FeesNext]_feesVars => FeesInv'
<1>1. ASSUME FeesInv, FeesNext
      PROVE  FeesInv'
  BY <1>1, FeesTypeKept, RestKept DEF FeesInv
<1>2. ASSUME FeesInv, UNCHANGED feesVars
      PROVE  FeesInv'
  BY <1>2
  DEF FeesInv, feesVars, FeesTypeOK, ClassesTyped, EnrollmentsTyped, classVars, OneActive,
      Active, TargetsKnown,
      NoRevenueHole, Targets, Seat
<1> QED
  BY <1>1, <1>2

\* The whole invariant: types, one active enrollment per year, and what each
\* request knows of the level it is about to bill.
THEOREM FeesSafe == FeesSpec => []FeesInv
BY FeesInitInv, FeesStepKeepsInv, PTL DEF FeesSpec

\* Every active enrollment of a fee's level is billed, but for those that joined
\* the level after every list the fee was billed from: create and reconcile
\* read the list and bill it in one transaction.
THEOREM EveryoneBilled == FeesSpec => []NoRevenueHole
<1>1. FeesInv => NoRevenueHole
  BY DEF FeesInv
<1> QED
  BY <1>1, FeesSafe, PTL

LEMMA PriceStep ==
    ASSUME FeesInv, FeesNext, NEW f \in Fees, NEW s \in Slots,
           due[f][s] # 0, due'[f][s] # due[f][s]
    PROVE  \E amount \in Amounts : EditDue(f, s, amount)
<1>1. ASSUME NEW r \in Billings, Assign(r)
      PROVE  FALSE
  BY <1>1, BilledTyped DEF FeesInv, Assign
<1>2. PICK g \in Fees, t \in Slots, amount \in Amounts : EditDue(g, t, amount)
  BY <1>1
  DEF FeesNext, CreateFee, Reconcile, ReadTargets, Rollback, UpdateFee, Archive,
      Restore, EnrollElsewhere
<1>3. g = f /\ t = s
  BY <1>2 DEF EditDue, FeesInv, FeesTypeOK
<1> QED
  BY <1>2, <1>3

\* The price freeze: no change of a fee, and no reconcile, changes what was
\* billed before.
THEOREM PriceStays == FeesSpec => PriceFrozen
<1>1. FeesInv /\ [FeesNext]_feesVars =>
        [\A f \in Fees, s \in Slots :
           due[f][s] # 0 /\ due'[f][s] # due[f][s] =>
              \E amount \in Amounts : EditDue(f, s, amount)]_feesVars
  BY PriceStep
<1> QED
  BY <1>1, FeesSafe, PTL DEF FeesSpec, PriceFrozen
-----------------------------------------------------------------------------
(* Document numbers.                                                       *)

LEMMA CounterInvInit == NumbersInit => CounterInv
BY DEF NumbersInit, CounterInv, NumbersTypeOK, LocalsSet, OneClaimant,
       CountersBounded, CountersGivenOnce, Consumed, HoldsSequence,
       Statements, NoLocals, Local, Locals, MAX_ATTEMPTS

\* Types survive every step.
LEMMA StepTypeOK ==
    ASSUME CounterInv, [NumbersNext]_numberVars
    PROVE  NumbersTypeOK'
<1> USE DEF CounterInv, NumbersTypeOK, LocalsSet, OneClaimant, HoldsSequence,
            EndRequest, Goto, Release, Statements
<1>0. NoLocals \in Locals
  BY DEF NoLocals, Local, Locals, MAX_ATTEMPTS
<1>1. CASE UNCHANGED numberVars
  BY <1>1 DEF numberVars
<1>2. ASSUME NEW r \in Takers, CreateStart(r) PROVE NumbersTypeOK'
  <2>1. PICK id \in FreshIds :
           \/ locals' = [locals EXCEPT ![r] = Local(id, Null, 1, Null)]
           \/ \E number \in Typed :
                locals' = [locals EXCEPT ![r] = Local(id, number, 0, Null)]
    BY <1>2 DEF CreateStart
  <2>2. id \in Ids /\ Typed \subseteq Number
    BY NumberAssumption DEF FreshIds, Typed, Number
  <2>3. Local(id, Null, 1, Null) \in Locals
    BY <2>2 DEF Locals, Local, MAX_ATTEMPTS
  <2>4. \A number \in Typed :
           Local(id, number, 0, Null) \in Locals
    BY <2>2 DEF Locals, Local, MAX_ATTEMPTS
  <2>5. locals' \in [Takers -> Locals]
    BY <2>1, <2>3, <2>4
  <2>6. QED
    BY <1>2, <2>5 DEF CreateStart
<1>3. ASSUME NEW r \in Takers, RenumberStart(r) PROVE NumbersTypeOK'
  <2>1. PICK d \in documents, number \in Typed :
           locals' = [locals EXCEPT ![r] = Local(d.id, number, 0, Null)]
    BY <1>3 DEF RenumberStart
  <2>2. d.id \in Ids /\ number \in Number
    BY NumberAssumption DEF Document, Typed, Number
  <2>3. Local(d.id, number, 0, Null) \in Locals
    BY <2>2 DEF Locals, Local, MAX_ATTEMPTS
  <2>4. QED
    BY <1>3, <2>1, <2>2, <2>3 DEF RenumberStart
<1>4. ASSUME NEW r \in Takers, GenerateStart(r) PROVE NumbersTypeOK'
  BY <1>0, <1>4 DEF GenerateStart
<1>5. ASSUME NEW r \in Takers, UpdateStart(r) PROVE NumbersTypeOK'
  BY <1>5 DEF UpdateStart, Locals, Local, MAX_ATTEMPTS
<1>6. ASSUME NEW r \in Takers, ClaimNumber(r) PROVE NumbersTypeOK'
  BY <1>6 DEF ClaimNumber, Claim, Number, Locals
<1>7. ASSUME NEW r \in Takers, InsertDocument(r) PROVE NumbersTypeOK'
  <2>1. pc[r] = "insert" /\ locals[r].id \in Ids /\ locals[r].number \in Number
    BY <1>7 DEF InsertDocument, Row
  <2>2. Row(r, TRUE) \in Document
    BY <2>1 DEF Document, Row
  <2>3. locals[r].number[2] \in Nat
    BY <2>1 DEF Number
  <2>4. QED
    BY <1>0, <1>7, <2>2, <2>3 DEF InsertDocument
<1>8. ASSUME NEW r \in Takers, InsertCollision(r) PROVE NumbersTypeOK'
  <2>1. CASE locals[r].attempt < MAX_ATTEMPTS
    <3>1. /\ locals[r].number \in Number
          /\ locals' = [locals EXCEPT ![r].attempt = @ + 1,
                                  ![r].collided = locals[r].number]
      BY <1>8, <2>1 DEF InsertCollision
    <3>2. [locals[r] EXCEPT !.attempt = @ + 1, !.collided = locals[r].number]
            \in Locals
      <4>1. locals[r] \in Locals /\ locals[r].attempt + 1 \in 0 .. MAX_ATTEMPTS
        BY <2>1 DEF Locals, MAX_ATTEMPTS
      <4>2. [locals[r] EXCEPT !.attempt = @ + 1] \in Locals
        BY <4>1 DEF Locals
      <4>3. [[locals[r] EXCEPT !.attempt = @ + 1]
               EXCEPT !.collided = locals[r].number] \in Locals
        BY <3>1, <4>2 DEF Locals
      <4>4. QED
        BY <4>3
    <3>3. locals' = [locals EXCEPT ![r] =
                    [locals[r] EXCEPT !.attempt = @ + 1,
                                   !.collided = locals[r].number]]
      BY <3>1
    <3>4. QED
      BY <1>8, <2>1, <3>2, <3>3 DEF InsertCollision
  <2>2. CASE ~(locals[r].attempt < MAX_ATTEMPTS)
    BY <1>0, <1>8, <2>2 DEF InsertCollision
  <2>3. QED
    BY <2>1, <2>2
<1>9. ASSUME NEW r \in Takers, InsertTyped(r) PROVE NumbersTypeOK'
  <2>1. locals[r].id \in Ids /\ locals[r].number \in Number
    BY <1>9 DEF InsertTyped, Row
  <2>2. Row(r, FALSE) \in Document
    BY <2>1 DEF Document, Row
  <2>3. documents' \subseteq Document
    BY <1>9, <2>2 DEF InsertTyped
  <2>4. QED
    BY <1>0, <1>9, <2>3 DEF InsertTyped
<1>10. ASSUME NEW r \in Takers, Renumber(r) PROVE NumbersTypeOK'
  <2>1. locals[r].id \in Ids /\ locals[r].number \in Number
    BY <1>10 DEF Renumber, Row
  <2>2. Row(r, FALSE) \in Document
    BY <2>1 DEF Document, Row
  <2>3. documents' \subseteq Document
    BY <1>10, <2>2 DEF Renumber
  <2>4. QED
    BY <1>0, <1>10, <2>3 DEF Renumber
<1>11. ASSUME NEW r \in Takers, GenerateClaim(r) PROVE NumbersTypeOK'
  BY <1>11 DEF GenerateClaim, Claim, Number, Locals
<1>12. ASSUME NEW r \in Takers, AuditGenerated(r) PROVE NumbersTypeOK'
  BY <1>0, <1>12 DEF AuditGenerated
<1>13. ASSUME NEW r \in Takers, CommitGenerated(r) PROVE NumbersTypeOK'
  <2>1. locals[r].number \in Number /\ locals[r].number[2] \in Nat
    BY <1>13 DEF CommitGenerated, Number
  <2>2. QED
    BY <1>0, <1>13, <2>1 DEF CommitGenerated
<1>14. ASSUME NEW r \in Takers, SetFormat(r) PROVE NumbersTypeOK'
  BY <1>0, <1>14 DEF SetFormat
<1>15. ASSUME NEW r \in Takers, Abort(r) PROVE NumbersTypeOK'
  BY <1>0, <1>15 DEF Abort
<1>16. QED
  BY <1>1, <1>2, <1>3, <1>4, <1>5, <1>6, <1>7, <1>8, <1>9, <1>10, <1>11,
     <1>12, <1>13, <1>14, <1>15
  DEF NumbersNext, TakerStep

\* What a request needs is set when it gets to a statement.
LEMMA StepLocalsSet ==
    ASSUME CounterInv, [NumbersNext]_numberVars
    PROVE  LocalsSet'
<1> USE DEF CounterInv, NumbersTypeOK, LocalsSet, EndRequest, Goto
<1>1. CASE UNCHANGED numberVars
  BY <1>1 DEF numberVars
<1>2. ASSUME NEW r \in Takers, CreateStart(r) PROVE LocalsSet'
  BY <1>2, NumberAssumption DEF CreateStart, Local, FreshIds, Typed,
    Number
<1>3. ASSUME NEW r \in Takers, RenumberStart(r) PROVE LocalsSet'
  BY <1>3, NumberAssumption DEF RenumberStart, Local, Typed, Number,
    Document
<1>4. ASSUME NEW r \in Takers, GenerateStart(r) PROVE LocalsSet'
  BY <1>4 DEF GenerateStart
<1>5. ASSUME NEW r \in Takers, UpdateStart(r) PROVE LocalsSet'
  BY <1>5 DEF UpdateStart, Local
<1>6. ASSUME NEW r \in Takers, ClaimNumber(r) PROVE LocalsSet'
  BY <1>6 DEF ClaimNumber, Claim, Number, Locals
<1>7. ASSUME NEW r \in Takers, InsertDocument(r) PROVE LocalsSet'
  BY <1>7 DEF InsertDocument, Row
<1>8. ASSUME NEW r \in Takers, InsertCollision(r) PROVE LocalsSet'
  BY <1>8 DEF InsertCollision, Locals
<1>9. ASSUME NEW r \in Takers, InsertTyped(r) PROVE LocalsSet'
  BY <1>9 DEF InsertTyped, Row
<1>10. ASSUME NEW r \in Takers, Renumber(r) PROVE LocalsSet'
  BY <1>10 DEF Renumber, Row
<1>11. ASSUME NEW r \in Takers, GenerateClaim(r) PROVE LocalsSet'
  BY <1>11 DEF GenerateClaim, Claim, Number, Locals
<1>12. ASSUME NEW r \in Takers, AuditGenerated(r) PROVE LocalsSet'
  BY <1>12 DEF AuditGenerated
<1>13. ASSUME NEW r \in Takers, CommitGenerated(r) PROVE LocalsSet'
  BY <1>13 DEF CommitGenerated
<1>14. ASSUME NEW r \in Takers, SetFormat(r) PROVE LocalsSet'
  BY <1>14 DEF SetFormat
<1>15. ASSUME NEW r \in Takers, Abort(r) PROVE LocalsSet'
  BY <1>15 DEF Abort
<1>16. QED
  BY <1>1, <1>2, <1>3, <1>4, <1>5, <1>6, <1>7, <1>8, <1>9, <1>10, <1>11,
     <1>12, <1>13, <1>14, <1>15
  DEF NumbersNext, TakerStep

\* The row lock makes claims exclusive, and nothing else moves the counter.
LEMMA StepOneClaimant ==
    ASSUME CounterInv, [NumbersNext]_numberVars
    PROVE  OneClaimant'
<1> USE DEF CounterInv, NumbersTypeOK, OneClaimant, HoldsSequence, EndRequest,
            Goto, Release
<1>1. CASE UNCHANGED numberVars
  BY <1>1 DEF numberVars
<1>2. ASSUME NEW r \in Takers, CreateStart(r) PROVE OneClaimant'
  BY <1>2 DEF CreateStart
<1>3. ASSUME NEW r \in Takers, RenumberStart(r) PROVE OneClaimant'
  BY <1>3 DEF RenumberStart
<1>4. ASSUME NEW r \in Takers, GenerateStart(r) PROVE OneClaimant'
  BY <1>4 DEF GenerateStart
<1>5. ASSUME NEW r \in Takers, UpdateStart(r) PROVE OneClaimant'
  BY <1>5 DEF UpdateStart
<1>6. ASSUME NEW r \in Takers, ClaimNumber(r) PROVE OneClaimant'
  BY <1>6, NobodyAssumption DEF ClaimNumber, Claim, Number
<1>7. ASSUME NEW r \in Takers, InsertDocument(r) PROVE OneClaimant'
  BY <1>7 DEF InsertDocument, Row
<1>8. ASSUME NEW r \in Takers, InsertCollision(r) PROVE OneClaimant'
  BY <1>8 DEF InsertCollision
<1>9. ASSUME NEW r \in Takers, InsertTyped(r) PROVE OneClaimant'
  BY <1>9 DEF InsertTyped, Row
<1>10. ASSUME NEW r \in Takers, Renumber(r) PROVE OneClaimant'
  BY <1>10 DEF Renumber, Row
<1>11. ASSUME NEW r \in Takers, GenerateClaim(r) PROVE OneClaimant'
  BY <1>11, NobodyAssumption DEF GenerateClaim, Claim, Number
<1>12. ASSUME NEW r \in Takers, AuditGenerated(r) PROVE OneClaimant'
  BY <1>12 DEF AuditGenerated
<1>13. ASSUME NEW r \in Takers, CommitGenerated(r) PROVE OneClaimant'
  BY <1>13 DEF CommitGenerated
<1>14. ASSUME NEW r \in Takers, SetFormat(r) PROVE OneClaimant'
  BY <1>14 DEF SetFormat
<1>15. ASSUME NEW r \in Takers, Abort(r) PROVE OneClaimant'
  BY <1>15 DEF Abort
<1>16. QED
  BY <1>1, <1>2, <1>3, <1>4, <1>5, <1>6, <1>7, <1>8, <1>9, <1>10, <1>11,
     <1>12, <1>13, <1>14, <1>15
  DEF NumbersNext, TakerStep

\* Every counter that was given out is at most the committed counter.
LEMMA StepCountersBounded ==
    ASSUME CounterInv, [NumbersNext]_numberVars
    PROVE  CountersBounded'
<1> USE DEF CounterInv, NumbersTypeOK, OneClaimant, HoldsSequence,
            CountersBounded,
            Consumed
<1>1. CASE UNCHANGED numberVars
  BY <1>1 DEF numberVars
<1>2. ASSUME NEW r \in Takers, CreateStart(r) PROVE CountersBounded'
  BY <1>2 DEF CreateStart
<1>3. ASSUME NEW r \in Takers, RenumberStart(r) PROVE CountersBounded'
  BY <1>3 DEF RenumberStart
<1>4. ASSUME NEW r \in Takers, GenerateStart(r) PROVE CountersBounded'
  BY <1>4 DEF GenerateStart
<1>5. ASSUME NEW r \in Takers, UpdateStart(r) PROVE CountersBounded'
  BY <1>5 DEF UpdateStart
<1>6. ASSUME NEW r \in Takers, ClaimNumber(r) PROVE CountersBounded'
  BY <1>6 DEF ClaimNumber
<1>7. ASSUME NEW r \in Takers, InsertDocument(r) PROVE CountersBounded'
  <2> DEFINE row == Row(r, TRUE)
  <2>1. /\ documents' = documents \cup {row} /\ generated' = generated
        /\ currentNumber' = row.number[2]
    BY <1>7 DEF InsertDocument, Row
  <2>2. row.number[2] = currentNumber + 1 /\ row.auto
    BY <1>7 DEF InsertDocument, Row
  <2> HIDE DEF row
  <2>3. /\ \A d \in documents : d.number[2] \in Nat
        /\ \A g \in generated : g[2] \in Nat
    BY DEF Document, Number
  <2>4. QED
    BY <2>1, <2>2, <2>3
<1>8. ASSUME NEW r \in Takers, InsertCollision(r) PROVE CountersBounded'
  BY <1>8 DEF InsertCollision
<1>9. ASSUME NEW r \in Takers, InsertTyped(r) PROVE CountersBounded'
  BY <1>9 DEF InsertTyped, Row
<1>10. ASSUME NEW r \in Takers, Renumber(r) PROVE CountersBounded'
  BY <1>10 DEF Renumber, Row
<1>11. ASSUME NEW r \in Takers, GenerateClaim(r) PROVE CountersBounded'
  BY <1>11 DEF GenerateClaim
<1>12. ASSUME NEW r \in Takers, AuditGenerated(r) PROVE CountersBounded'
  BY <1>12 DEF AuditGenerated
<1>13. ASSUME NEW r \in Takers, CommitGenerated(r) PROVE CountersBounded'
  <2> DEFINE new == locals[r].number
  <2>1. /\ documents' = documents /\ generated' = generated \cup {new}
        /\ currentNumber' = new[2]
    BY <1>13 DEF CommitGenerated
  <2>2. new[2] = currentNumber + 1
    BY <1>13 DEF CommitGenerated
  <2> HIDE DEF new
  <2>3. /\ \A d \in documents : d.number[2] \in Nat
        /\ \A g \in generated : g[2] \in Nat
    BY DEF Document, Number
  <2>4. QED
    BY <2>1, <2>2, <2>3
<1>14. ASSUME NEW r \in Takers, SetFormat(r) PROVE CountersBounded'
  BY <1>14 DEF SetFormat
<1>15. ASSUME NEW r \in Takers, Abort(r) PROVE CountersBounded'
  BY <1>15 DEF Abort
<1>16. QED
  BY <1>1, <1>2, <1>3, <1>4, <1>5, <1>6, <1>7, <1>8, <1>9, <1>10, <1>11,
     <1>12, <1>13, <1>14, <1>15
  DEF NumbersNext, TakerStep

\* A new counter is above every counter that was given out before.
LEMMA StepCountersGivenOnce ==
    ASSUME CounterInv, [NumbersNext]_numberVars
    PROVE  CountersGivenOnce'
<1> USE DEF CounterInv, NumbersTypeOK, OneClaimant, HoldsSequence,
            CountersBounded,
            CountersGivenOnce, Consumed
<1>1. CASE UNCHANGED numberVars
  BY <1>1 DEF numberVars
<1>2. ASSUME NEW r \in Takers, CreateStart(r) PROVE CountersGivenOnce'
  BY <1>2 DEF CreateStart
<1>3. ASSUME NEW r \in Takers, RenumberStart(r) PROVE CountersGivenOnce'
  BY <1>3 DEF RenumberStart
<1>4. ASSUME NEW r \in Takers, GenerateStart(r) PROVE CountersGivenOnce'
  BY <1>4 DEF GenerateStart
<1>5. ASSUME NEW r \in Takers, UpdateStart(r) PROVE CountersGivenOnce'
  BY <1>5 DEF UpdateStart
<1>6. ASSUME NEW r \in Takers, ClaimNumber(r) PROVE CountersGivenOnce'
  BY <1>6 DEF ClaimNumber
<1>7. ASSUME NEW r \in Takers, InsertDocument(r) PROVE CountersGivenOnce'
  <2> DEFINE row == Row(r, TRUE)
  <2>1. /\ documents' = documents \cup {row} /\ generated' = generated
        /\ currentNumber' = row.number[2]
    BY <1>7 DEF InsertDocument, Row
  <2>2. row.number[2] = currentNumber + 1 /\ row.auto
    BY <1>7 DEF InsertDocument, Row
  <2> HIDE DEF row
  <2>3. /\ \A d \in documents : d.number[2] \in Nat
        /\ \A g \in generated : g[2] \in Nat
    BY DEF Document, Number
  <2>4. QED
    BY <2>1, <2>2, <2>3
<1>8. ASSUME NEW r \in Takers, InsertCollision(r) PROVE CountersGivenOnce'
  BY <1>8 DEF InsertCollision
<1>9. ASSUME NEW r \in Takers, InsertTyped(r) PROVE CountersGivenOnce'
  BY <1>9 DEF InsertTyped, Row
<1>10. ASSUME NEW r \in Takers, Renumber(r) PROVE CountersGivenOnce'
  BY <1>10 DEF Renumber, Row
<1>11. ASSUME NEW r \in Takers, GenerateClaim(r) PROVE CountersGivenOnce'
  BY <1>11 DEF GenerateClaim
<1>12. ASSUME NEW r \in Takers, AuditGenerated(r) PROVE CountersGivenOnce'
  BY <1>12 DEF AuditGenerated
<1>13. ASSUME NEW r \in Takers, CommitGenerated(r) PROVE CountersGivenOnce'
  <2> DEFINE new == locals[r].number
  <2>1. /\ documents' = documents /\ generated' = generated \cup {new}
        /\ currentNumber' = new[2]
    BY <1>13 DEF CommitGenerated
  <2>2. new[2] = currentNumber + 1
    BY <1>13 DEF CommitGenerated
  <2> HIDE DEF new
  <2>3. /\ \A d \in documents : d.number[2] \in Nat
        /\ \A g \in generated : g[2] \in Nat
    BY DEF Document, Number
  <2>4. QED
    BY <2>1, <2>2, <2>3
<1>14. ASSUME NEW r \in Takers, SetFormat(r) PROVE CountersGivenOnce'
  BY <1>14 DEF SetFormat
<1>15. ASSUME NEW r \in Takers, Abort(r) PROVE CountersGivenOnce'
  BY <1>15 DEF Abort
<1>16. QED
  BY <1>1, <1>2, <1>3, <1>4, <1>5, <1>6, <1>7, <1>8, <1>9, <1>10, <1>11,
     <1>12, <1>13, <1>14, <1>15
  DEF NumbersNext, TakerStep

-----------------------------------------------------------------------------
\* The counter invariant holds in every state: nextDocumentNumber and
\* generateNext hold the sequence row from their UPDATE to their commit.
THEOREM CounterSafe == NumbersSpec => []CounterInv
<1>1. CounterInv /\ [NumbersNext]_numberVars => CounterInv'
  BY StepTypeOK, StepLocalsSet, StepOneClaimant, StepCountersBounded,
     StepCountersGivenOnce DEF CounterInv
<1>2. QED
  BY CounterInvInit, <1>1, PTL DEF NumbersSpec

\* A counter value is given to one record or to one caller of generateNext,
\* however the format is changed, numbers are typed and transactions fail.
THEOREM GivenOnce == NumbersSpec => []CountersGivenOnce
<1>1. CounterInv => CountersGivenOnce
  BY DEF CounterInv
<1>2. QED
  BY CounterSafe, <1>1, PTL

\* generateNext commits after its audit entry, and the log is never cut.
LEMMA StepAnswersLogged ==
    ASSUME CounterInv, AnswersLogged, [NumbersNext]_numberVars
    PROVE  AnswersLogged'
<1> USE DEF CounterInv, NumbersTypeOK, AnswersLogged, EndRequest, Goto
<1>1. CASE UNCHANGED numberVars
  BY <1>1 DEF numberVars
<1>2. ASSUME NEW r \in Takers, TakerStep(r) \/ Abort(r) PROVE AnswersLogged'
  <2>1. CASE AuditGenerated(r)
    BY <2>1 DEF AuditGenerated
  <2>2. CASE CommitGenerated(r)
    BY <2>2 DEF CommitGenerated
  <2>3. CASE ClaimNumber(r) \/ GenerateClaim(r)
    BY <2>3 DEF ClaimNumber, GenerateClaim, Claim
  <2>4. CASE InsertCollision(r)
    BY <2>4 DEF InsertCollision
  <2>5. CASE InsertDocument(r) \/ InsertTyped(r) \/ Renumber(r) \/ SetFormat(r)
             \/ Abort(r)
    BY <2>5 DEF InsertDocument, InsertTyped, Renumber, SetFormat, Abort
  <2> QED
    BY <1>2, <2>1, <2>2, <2>3, <2>4, <2>5 DEF TakerStep
<1>3. ASSUME NEW r \in Takers,
             CreateStart(r) \/ RenumberStart(r) \/ GenerateStart(r)
               \/ UpdateStart(r)
      PROVE  AnswersLogged'
  BY <1>3 DEF CreateStart, RenumberStart, GenerateStart, UpdateStart
<1> QED
  BY <1>1, <1>2, <1>3 DEF NumbersNext

\* The two commits that move the counter.
LEMMA InsertConsumes ==
    ASSUME CounterInv, AnswersLogged, NEW r \in Takers, InsertDocument(r)
    PROVE  /\ currentNumber' = currentNumber + 1
           /\ Cardinality((Consumed' \ Consumed)
                            \cup (generated' \ generated)) = 1
           /\ generated' \subseteq audited
<1> DEFINE row == Row(r, TRUE)
<1>1. /\ documents' = documents \cup {row} /\ generated' = generated
      /\ currentNumber' = row.number[2]
  BY DEF InsertDocument, Row
<1>2. row.number[2] = currentNumber + 1 /\ row.auto
  BY DEF InsertDocument, Row, CounterInv, OneClaimant, HoldsSequence
<1> HIDE DEF row
<1>3. row \notin Consumed
  BY <1>2 DEF CounterInv, CountersBounded, NumbersTypeOK
<1>4. Consumed' \ Consumed = {row}
  BY <1>1, <1>2, <1>3 DEF Consumed
<1>5. (Consumed' \ Consumed) \cup (generated' \ generated) = {row}
  BY <1>1, <1>4
<1> QED
  BY <1>1, <1>2, <1>5, FS_Singleton DEF AnswersLogged

LEMMA CommitConsumes ==
    ASSUME CounterInv, AnswersLogged, NEW r \in Takers, CommitGenerated(r)
    PROVE  /\ currentNumber' = currentNumber + 1
           /\ Cardinality((Consumed' \ Consumed)
                            \cup (generated' \ generated)) = 1
           /\ generated' \subseteq audited
<1> DEFINE new == locals[r].number
<1>1. /\ documents' = documents /\ generated' = generated \cup {new}
      /\ currentNumber' = new[2] /\ new \in audited
  BY DEF CommitGenerated, AnswersLogged
<1>2. new[2] = currentNumber + 1
  BY DEF CommitGenerated, CounterInv, OneClaimant, HoldsSequence
<1> HIDE DEF new
<1>3. new \notin generated
  BY <1>2 DEF CounterInv, CountersBounded, NumbersTypeOK
<1>4. Consumed' = Consumed
  BY <1>1 DEF Consumed
<1>5. (Consumed' \ Consumed) \cup (generated' \ generated) = {new}
  BY <1>1, <1>3, <1>4
<1> QED
  BY <1>1, <1>2, <1>5, FS_Singleton DEF AnswersLogged

\* The counter moves only with the one record or answer that consumes the new
\* value, never past a number that nobody got.
THEOREM IncrementsConsumed == NumbersSpec => IncrementConsumed
<1> DEFINE Consumes ==
      IF currentNumber' = currentNumber
      THEN Consumed' \subseteq Consumed /\ generated' = generated
      ELSE /\ currentNumber' = currentNumber + 1
           /\ Cardinality((Consumed' \ Consumed)
                            \cup (generated' \ generated)) = 1
           /\ generated' \subseteq audited
<1>1. NumbersInit => AnswersLogged
  BY DEF NumbersInit, AnswersLogged
<1>2. ASSUME CounterInv, AnswersLogged, NumbersNext PROVE Consumes
  <2>1. ASSUME NEW r \in Takers, InsertDocument(r) PROVE Consumes
    BY <1>2, <2>1, InsertConsumes DEF CounterInv, NumbersTypeOK
  <2>2. ASSUME NEW r \in Takers, CommitGenerated(r) PROVE Consumes
    BY <1>2, <2>2, CommitConsumes DEF CounterInv, NumbersTypeOK
  <2>3. ASSUME NEW r \in Takers, InsertTyped(r) \/ Renumber(r) PROVE Consumes
    BY <2>3 DEF InsertTyped, Renumber, Row, Consumed
  <2>4. ASSUME NEW r \in Takers,
               CreateStart(r) \/ RenumberStart(r) \/ GenerateStart(r)
                 \/ UpdateStart(r) \/ ClaimNumber(r) \/ InsertCollision(r)
                 \/ GenerateClaim(r) \/ AuditGenerated(r) \/ SetFormat(r)
                 \/ Abort(r)
        PROVE  Consumes
    <3>1. UNCHANGED <<documents, currentNumber, generated>>
      BY <2>4 DEF CreateStart, RenumberStart, GenerateStart, UpdateStart,
        ClaimNumber, InsertCollision, GenerateClaim, AuditGenerated, SetFormat,
        Abort
    <3> QED
      BY <3>1 DEF Consumed
  <2> HIDE DEF Consumes
  <2> QED
    BY <1>2, <2>1, <2>2, <2>3, <2>4 DEF NumbersNext, TakerStep
<1>3. CounterInv /\ AnswersLogged /\ [NumbersNext]_numberVars
        => AnswersLogged' /\ [Consumes]_numberVars
  BY <1>2, StepAnswersLogged
<1> QED
  BY <1>1, <1>3, CounterSafe, PTL DEF NumbersSpec, IncrementConsumed
=============================================================================
