------------------------------- MODULE Admissions -------------------------------
(***************************************************************************)
(* The path of an application to an enrollment: AdmissionsService          *)
(* (src/src/admissions/admissions.service.ts).                             *)
(*                                                                         *)
(* Each transition reads the application, checks its status, and writes it *)
(* by id with no condition, in two statements without a transaction; what  *)
(* it read may be out of date by then.  enroll checks no status, and       *)
(* creates the enrollment and updates the application in two statements.   *)
(*                                                                         *)
(* The number of an application is in DocumentNumbers.  Notes, dates, the  *)
(* approver and audit entries, which nothing reads, are left out.          *)
(***************************************************************************)
EXTENDS Enrollments

CONSTANTS
    Applications,
    Requests,       \* the requests that run at the same time
    None            \* SQL NULL

ASSUME NullAssumption == None \notin Students \cup Applications

VARIABLES
    application,    \* status and student of each application
    req,            \* the locals of each request
    placed,         \* ghost: the enrollments that an application's enroll made
    revived         \* ghost: rows made live again since a revert looked

vars == <<enrollment, application, req, placed, revived>>
-----------------------------------------------------------------------------
NoApplication == [status |-> "none", student |-> None]
Idle == [pc |-> "idle"]

\* Mutant of Open: a rejected application is still to be decided.
OpenOrRejected == {"enquiry", "application", "offered", "rejected"}

Open == {"enquiry", "application", "offered"}

Terminal == {"rejected", "withdrawn"}
Statuses == Open \cup Terminal \cup {"enrolled"}
Application == [status : Statuses, student : Students \cup {None}]

\* The statuses in which each operation goes ahead.
Legal ==
    [apply |-> {"enquiry"}, offer |-> {"enquiry", "application"},
     revertOffer |-> {"offered"}, reject |-> Open, withdraw |-> Open,
     revertEnrollment |-> {"enrolled"}, enroll |-> Statuses]

\* The status that each operation writes.
Target ==
    [apply |-> "application", offer |-> "offered",
     revertOffer |-> "application", reject |-> "rejected",
     withdraw |-> "withdrawn", revertEnrollment |-> "offered",
     enroll |-> "enrolled"]

Operations == DOMAIN Legal

Init ==
    /\ EnrollmentsInit
    /\ application = [a \in Applications |-> NoApplication]
    /\ req = [r \in Requests |-> Idle]
    /\ placed = [a \in Applications |-> {}]
    /\ revived = [r \in Requests |-> {}]

Return(r) == req' = [req EXCEPT ![r] = Idle]

\* Keeps the ghost revived along; a conjunct of every action.
Watch ==
    revived' = [r \in Requests |->
                  IF req'[r].pc = "write" /\ req[r].pc = "write"
                  THEN revived[r] \cup Revived ELSE {}]
-----------------------------------------------------------------------------
Create(a, student) ==
    /\ application[a] = NoApplication
    /\ application' = [application EXCEPT ![a] =
                         [status |-> "enquiry", student |-> student]]
    /\ UNCHANGED <<enrollment, req, placed>> /\ Watch

\* The student may be changed, or unset, in any status.
Update(a, student) ==
    /\ application[a] # NoApplication
    /\ application' = [application EXCEPT ![a].student = student]
    /\ UNCHANGED <<enrollment, req, placed>> /\ Watch

\* The read and the check of apply, offer, revertOffer, reject and withdraw.
Transition(r, a, op) ==
    /\ req[r].pc = "idle"
    /\ op \in Operations \ {"revertEnrollment", "enroll"}
    /\ application[a].status \in Legal[op]
    /\ req' = [req EXCEPT ![r] =
                 [pc |-> "write", op |-> op, app |-> a, student |-> None,
                  seen |-> application[a].status]]
    /\ UNCHANGED <<enrollment, application, placed>> /\ Watch

RevertEnrollment(r, a) ==
    /\ req[r].pc = "idle"
    /\ application[a].status \in Legal["revertEnrollment"]
    /\ req' = [req EXCEPT ![r] =
                 [pc |-> IF application[a].student = None THEN "write"
                         ELSE "guard",
                  op |-> "revertEnrollment", app |-> a,
                  student |-> application[a].student,
                  seen |-> application[a].status]]
    /\ UNCHANGED <<enrollment, application, placed>> /\ Watch

\* Mutant of CheckOutcome: only an active enrollment is in the way.
CheckActive(r) ==
    /\ req[r].pc = "guard"
    /\ IF \E s \in SlotsOf(req[r].student) : Active(s)
       THEN Return(r)
       ELSE req' = [req EXCEPT ![r].pc = "write"]
    /\ UNCHANGED <<enrollment, application, placed>> /\ Watch

\* No enrollment of the student may be in any state but withdrawn.
CheckOutcome(r) ==
    /\ req[r].pc = "guard"
    /\ IF \E s \in SlotsOf(req[r].student) : Live(s)
       THEN Return(r)
       ELSE req' = [req EXCEPT ![r].pc = "write"]
    /\ UNCHANGED <<enrollment, application, placed>> /\ Watch

\* enroll: the student of the request, or else that of the application.
Enroll(r, a, given) ==
    LET student == IF given # None THEN given ELSE application[a].student IN
    /\ req[r].pc = "idle"
    /\ application[a].status \in Legal["enroll"]
    /\ student # None
    /\ req' = [req EXCEPT ![r] =
                 [pc |-> "insert", op |-> "enroll", app |-> a,
                  student |-> student, given |-> given # None,
                  seen |-> application[a].status]]
    /\ UNCHANGED <<enrollment, application, placed>> /\ Watch

\* Mutant of InsertEnrollment: a student who is there already is good enough.
InsertUnlessThere(r) ==
    /\ req[r].pc = "insert"
    /\ \E s \in SlotsOf(req[r].student), classroom \in Classrooms :
         /\ \/ /\ Insert(s, classroom)
               /\ placed' = [placed EXCEPT ![req[r].app] = @ \cup {s}]
            \/ /\ Enrolled(s) \/ ActiveTwice(s)
               /\ UNCHANGED <<enrollment, placed>>
         /\ req' = [req EXCEPT ![r].pc = "write"]
    /\ UNCHANGED application /\ Watch

InsertEnrollment(r) ==
    /\ req[r].pc = "insert"
    /\ \E s \in SlotsOf(req[r].student), classroom \in Classrooms :
         \/ /\ Insert(s, classroom)
            /\ placed' = [placed EXCEPT ![req[r].app] = @ \cup {s}]
            /\ req' = [req EXCEPT ![r].pc = "write"]
         \/ /\ Enrolled(s) \/ ActiveTwice(s)
            /\ Return(r)
            /\ UNCHANGED <<enrollment, placed>>
    /\ UNCHANGED application /\ Watch

\* The update, by id.
Write(r) ==
    LET a == req[r].app  op == req[r].op IN
    /\ req[r].pc = "write"
    /\ application' =
         [application EXCEPT
            ![a].status = Target[op],
            ![a].student = IF op = "enroll" /\ req[r].given
                           THEN req[r].student ELSE @]
    /\ Return(r)
    /\ UNCHANGED <<enrollment, placed>> /\ Watch

\* The process ends or a statement fails; what was committed stays.
Fail(r) ==
    /\ req[r].pc # "idle"
    /\ Return(r)
    /\ UNCHANGED <<enrollment, application, placed>> /\ Watch

Elsewhere == EnrollmentsStep /\ UNCHANGED <<application, req, placed>> /\ Watch

Step(r) ==
    \/ \E a \in Applications :
         \/ \E op \in Operations : Transition(r, a, op)
         \/ RevertEnrollment(r, a)
         \/ \E given \in Students \cup {None} : Enroll(r, a, given)
    \/ CheckOutcome(r) \/ InsertEnrollment(r) \/ Write(r) \/ Fail(r)

Next ==
    \/ \E r \in Requests : Step(r)
    \/ \E a \in Applications, student \in Students \cup {None} :
         Create(a, student) \/ Update(a, student)
    \/ Elsewhere

Spec == Init /\ [][Next]_vars
-----------------------------------------------------------------------------
(* Properties *)

Request ==
    [pc : {"write"}, op : Operations \ {"enroll", "revertEnrollment"},
     app : Applications, student : {None}, seen : Statuses]
    \cup [pc : {"guard", "write"}, op : {"revertEnrollment"},
          app : Applications, student : Students \cup {None}, seen : Statuses]
    \cup [pc : {"insert", "write"}, op : {"enroll"}, app : Applications,
          student : Students, given : BOOLEAN, seen : Statuses]
    \cup {Idle}

TypeOK ==
    /\ EnrollmentsTyped
    /\ application \in [Applications -> Application \cup {NoApplication}]
    /\ req \in [Requests -> Request]
    /\ placed \in [Applications -> SUBSET Slots]
    /\ revived \in [Requests -> SUBSET Slots]

\* An enrolled application led to an enrollment that is still on record, in
\* whatever status: the enrollment comes first, and a failure between the two
\* leaves an enrollment without an enrolled application, never the reverse.
EnrolledIsPlaced ==
    \A a \in Applications :
        /\ application[a].status = "enrolled" => placed[a] # {}
        /\ \A s \in placed[a] : Enrolled(s)

\* "Reverting the admission would falsify that history": an application is set
\* back to offered only if every enrollment of its student was withdrawn, but
\* for those that came to be, or came back, after the check.
RevertSeesOutcome ==
    \A r \in Requests :
        req[r].pc = "write" /\ req[r].op = "revertEnrollment" =>
            \A s \in SlotsOf(req[r].student) : Live(s) => s \in revived[r]

\* "rejected (terminal)", "withdrawn (terminal)": what moves such an
\* application is enroll, or a transition that read it before the end.
TerminalStays ==
    [][\A a \in Applications :
         /\ application[a].status \in Terminal
         /\ application[a].status # application'[a].status
         => \E r \in Requests :
              /\ req[r].pc = "write" /\ req[r].app = a
              /\ req[r].op = "enroll" \/ req[r].seen \notin Terminal]_vars

\* What an operation writes, it checked the status for; enroll's write comes
\* after its enrollment.
WritesChecked ==
    \A r \in Requests :
        req[r].pc # "idle" =>
            /\ req[r].seen \in Legal[req[r].op]
            /\ application[req[r].app] # NoApplication
            /\ req[r].pc = "write" /\ req[r].op = "enroll" =>
                 placed[req[r].app] # {}

AdmissionsInv ==
    /\ TypeOK /\ OneActive /\ WritesChecked
    /\ EnrolledIsPlaced /\ RevertSeesOutcome
=============================================================================
