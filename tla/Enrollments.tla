------------------------------ MODULE Enrollments ------------------------------
(***************************************************************************)
(* The table of enrollments (EnrollmentsService, src/src/enrollments/      *)
(* enrollments.service.ts), on which admissions and school fees both work. *)
(* Every operation is one statement; the reads before it concern students, *)
(* classrooms and years, and only refuse.  Years are those that have not   *)
(* ended.                                                                  *)
(***************************************************************************)
EXTENDS Integers, FiniteSets

CONSTANTS
    Students,
    Years,          \* academic years that have not ended
    Tracks,         \* CurriculumCode
    Classrooms

VARIABLE enrollment     \* the row of each student, year and track

\* @@unique([studentId, academicYearId, curriculumTrack]).
Slots == Students \X Years \X Tracks
SlotsOf(student) == {s \in Slots : s[1] = student}

\* "completed" stands for completed, transferred and graduated, which nothing
\* tells apart.
EnrollmentStatuses == {"active", "withdrawn", "completed"}
Enrollment == [status : EnrollmentStatuses, classroom : Classrooms]
NotEnrolled == [status |-> "none"]

EnrollmentsInit == enrollment = [s \in Slots |-> NotEnrolled]

Enrolled(s) == enrollment[s] # NotEnrolled
Active(s) == enrollment[s].status = "active"

\* uq_one_active_enrollment_per_student_year refuses s as an active row.
ActiveTwice(s) ==
    \E t \in Slots \ {s} : t[1] = s[1] /\ t[2] = s[2] /\ Active(t)

Insert(s, classroom) ==
    /\ ~Enrolled(s) /\ ~ActiveTwice(s)
    /\ enrollment' = [enrollment EXCEPT ![s] =
                        [status |-> "active", classroom |-> classroom]]

CreateEnrollment(s) == \E classroom \in Classrooms : Insert(s, classroom)

\* Any status may follow any other, so a row can become active again.
UpdateEnrollment(s, status) ==
    /\ Enrolled(s)
    /\ status = "active" => ~ActiveTwice(s)
    /\ enrollment' = [enrollment EXCEPT ![s].status = status]

Withdraw(s) ==
    /\ Enrolled(s)
    /\ enrollment' = [enrollment EXCEPT ![s].status = "withdrawn"]

EnrollmentsStep ==
    \E s \in Slots :
        \/ CreateEnrollment(s)
        \/ \E status \in EnrollmentStatuses : UpdateEnrollment(s, status)
        \/ Withdraw(s)

\* The rows that are live after a step and were not before it.
Live(s) == enrollment[s].status \notin {"none", "withdrawn"}
Revived == {s \in Slots : ~Live(s) /\ Live(s)'}

EnrollmentsTyped == enrollment \in [Slots -> Enrollment \cup {NotEnrolled}]

\* "A student may hold only one active enrollment per academic year",
\* whichever of create, enroll and update made it active.
OneActive ==
    \A s, t \in Slots :
        Active(s) /\ Active(t) /\ s[1] = t[1] /\ s[2] = t[2] => s = t
=============================================================================
