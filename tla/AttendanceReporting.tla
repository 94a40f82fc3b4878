-------------------------- MODULE AttendanceReporting --------------------------
(***************************************************************************)
(* The counting rules of attendance (src/src/attendance/                   *)
(* attendance.reporting.ts), as operators.  A register row states a status *)
(* for each of the two sessions of a day; everything counts sessions.      *)
(* Rows come as a finite function from whatever identifies them.           *)
(***************************************************************************)
EXTENDS Integers, FiniteSets

Sessions == {"am", "pm"}
AttendanceStatuses == {"present", "absent", "late", "excused"}
PRESENT_STATUSES == {"present", "late"}

\* The two sessions of one register row.
Day == [Sessions -> AttendanceStatuses]

DayShapes == {"fullyPresent", "fullyAbsent", "partial"}
Counted == AttendanceStatuses \cup DayShapes \cup {"daysMarked"}

countsAsPresent(status) == status \in PRESENT_STATUSES

Shape(day) ==
    CASE \A s \in Sessions : countsAsPresent(day[s]) -> "fullyPresent"
      [] \A s \in Sessions : ~countsAsPresent(day[s]) -> "fullyAbsent"
      [] OTHER -> "partial"

emptyTally == [c \in Counted |-> 0]

\* Each row adds two sessions and one day.
tally(rows) ==
    [c \in Counted |->
       CASE c \in AttendanceStatuses ->
              Cardinality({x \in (DOMAIN rows) \X Sessions :
                             rows[x[1]][x[2]] = c})
         [] c \in DayShapes ->
              Cardinality({x \in DOMAIN rows : Shape(rows[x]) = c})
         [] OTHER -> Cardinality(DOMAIN rows)]

\* Mutant of addTallies: one of the eight lines was forgotten.
addTalliesButPartial(into, from) ==
    [c \in Counted |-> IF c = "partial" THEN into[c] ELSE into[c] + from[c]]

addTallies(into, from) == [c \in Counted |-> into[c] + from[c]]

\* Where late and excused are folded into present and absent.  The rate is in
\* tenths of a percent, rounded half up; None (null) when nothing is marked.
summarise(tallied, None) ==
    LET sessionsPresent == tallied["present"] + tallied["late"]
        sessionsAbsent == tallied["absent"] + tallied["excused"]
        sessionsMarked == sessionsPresent + sessionsAbsent
    IN  [tallied |-> tallied,
         sessionsMarked |-> sessionsMarked,
         sessionsPresent |-> sessionsPresent,
         sessionsAbsent |-> sessionsAbsent,
         attendanceRate |->
           IF sessionsMarked = 0 THEN None
           ELSE (2000 * sessionsPresent + sessionsMarked)
                  \div (2 * sessionsMarked)]
=============================================================================
