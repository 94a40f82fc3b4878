------------------------------- MODULE Classrooms -------------------------------
(***************************************************************************)
(* Classrooms (ClassroomsService, src/src/classrooms/                      *)
(* classrooms.service.ts) and who sits in them.  A classroom has a level   *)
(* and a year, and an update may give it others with its children in it:   *)
(* they change level with it, their enrollments keep their year.  A        *)
(* classroom that does not exist yet is one that nobody is in, so all of   *)
(* them are there from the start.  Labels, capacity, teacher and the       *)
(* archive flag, which fees do not read, are left out.                     *)
(***************************************************************************)
EXTENDS Enrollments

CONSTANTS
    Levels,
    SchoolYears     \* every academic year, those that have ended too

ASSUME YearsAssumption == Years \subseteq SchoolYears

VARIABLES
    class,          \* the level and year of each classroom
    yearsHad        \* the years each has had: what a create may have read

classVars == <<class, yearsHad>>

Class == [level : Levels, year : SchoolYears]

ClassesInit ==
    /\ class \in [Classrooms -> Class]
    /\ yearsHad = [c \in Classrooms |-> {class[c].year}]

\* Where the child of an enrollment sits.
Seat(s) == class[enrollment[s].classroom]

\* EnrollmentsService.create: "the classroom must belong to the selected year".
\* It is read before the insert, and may have been given another year since.
YearMatches(s) ==
    ~Enrolled(s) /\ Enrolled(s)' => s[2] \in yearsHad[enrollment'[s].classroom]

ChangeEnrollments ==
    /\ EnrollmentsStep
    /\ UNCHANGED classVars
    /\ \A s \in Slots : YearMatches(s)

\* ClassroomsService.update: the level and the year must be the school's own.
UpdateClassroom(c) ==
    /\ \E row \in Class :
         /\ class' = [class EXCEPT ![c] = row]
         /\ yearsHad' = [yearsHad EXCEPT ![c] = @ \cup {row.year}]
    /\ UNCHANGED enrollment

ClassroomsStep == ChangeEnrollments \/ \E c \in Classrooms : UpdateClassroom(c)

\* Who is active in a place after a step, and was not, or not there, before it.
Joined == {s \in Slots : Active(s)' /\ (~Active(s) \/ Seat(s)' # Seat(s))}

ClassesTyped ==
    /\ EnrollmentsTyped
    /\ class \in [Classrooms -> Class]
    /\ yearsHad \in [Classrooms -> SUBSET SchoolYears]
=============================================================================
