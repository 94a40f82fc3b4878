---------------------------- MODULE RegisterReports ----------------------------
(***************************************************************************)
(* What the school reads of the register: the view of a day, the summaries *)
(* of a term, the printable grid and the CSV (AttendanceService in         *)
(* src/src/attendance/attendance.service.ts, and attendance.formatter.ts). *)
(*                                                                         *)
(* Every report reads the active enrollments of the classroom first and    *)
(* their records next, in two queries: it takes the roster it has read as  *)
(* an argument, and the register is the one at its second query.           *)
(*                                                                         *)
(* Who may read which classroom, names, the order of rows, and the layout  *)
(* and pagination of the printed sheet are left out.                       *)
(***************************************************************************)
EXTENDS Register, FiniteSetsExt, Functions

\* The tables are finite, days are numbers, and no child is called like the
\* last line of the CSV.
ASSUME TablesAssumption ==
    /\ IsFiniteSet(Enrollments) /\ "CLASS TOTAL" \notin Enrollments
    /\ IsFiniteSet(Dates) /\ Dates \subseteq Nat /\ Today \in Nat
    /\ None \notin AttendanceStatuses

\* attendanceRecord.findMany: the rows of some enrollments on some days.
Records(enrollments, days) ==
    [s \in {x \in enrollments \X days : register[x] # NoRow} |-> register[s]]

summariseRecords(rows) == summarise(tally(rows), None)

\* A total is folded from raw tallies, and summarised once.
Fold(tallies) ==
    summarise(FoldFunction(LAMBDA one, total : addTallies(total, one),
                           emptyTally, tallies), None)
-----------------------------------------------------------------------------
\* termWriteState: may the register of this term be written to?
amendable(t) ==
    \/ status[t] = "active"
    \/ status[t] = "closed" /\ isReopened(reopenedAt[t], closedAt[t])

\* The roster, left joined onto the records of a day.
getRegister(roster, date) ==
    LET records == Records(roster, {date})
        rows == [e \in roster |-> register[<<e, date>>]]
    IN  [rows |-> rows,
         counts |-> tally(records),
         unmarkedCount |-> Cardinality({e \in roster : rows[e].am = None}),
         editable |-> /\ date <= Today
                      /\ \E t \in Terms : IsTermFor(t, date) /\ amendable(t)]

studentTermSummary(e, t) == summariseRecords(Records({e}, covers[t]))

\* byEnrollment: each record goes into the bucket of its enrollment.
classroomTermSummary(roster, t) ==
    LET records == Records(roster, covers[t])
        Bucket(e) ==
            [s \in {x \in DOMAIN records : x[1] = e} |-> records[s]]
    IN  [students |-> [e \in roster |-> summariseRecords(Bucket(e))],
         classroomTotals |-> Fold([e \in roster |-> tally(Bucket(e))]),
         datesMarked |-> Cardinality({s[2] : s \in DOMAIN records})]

\* "The range is clamped INTO the term."
Clamped(t, from, to) == {d \in covers[t] : from <= d /\ d <= to}

\* Students down, dates across; only marked dates become columns.  There is no
\* grid of an empty range.
classroomRegisterGrid(roster, t, from, to) ==
    LET records == Records(roster, Clamped(t, from, to))
        DatesOf(e) == {d \in Clamped(t, from, to) : <<e, d>> \in DOMAIN records}
        Cells(e) == [d \in DatesOf(e) |-> records[<<e, d>>]]
    IN  [dates |-> {s[2] : s \in DOMAIN records},
         cells |-> [e \in roster |-> Cells(e)],
         summary |-> [e \in roster |-> summariseRecords(Cells(e))],
         totals |-> Fold([e \in roster |-> tally(Cells(e))])]

\* classroomTermSummaryToCsv: a line for each student, and the class total.
Csv(summary) ==
    [line \in DOMAIN summary.students \cup {"CLASS TOTAL"} |->
       LET figures == IF line = "CLASS TOTAL" THEN summary.classroomTotals
                      ELSE summary.students[line]
       IN  [counts |-> figures.tallied,
            marked |-> figures.sessionsMarked,
            present |-> figures.sessionsPresent,
            absent |-> figures.sessionsAbsent,
            rate |-> figures.attendanceRate]]
-----------------------------------------------------------------------------
(* Properties *)

SumOver(figures) == MapThenSumSet(LAMBDA x : figures[x], DOMAIN figures)

\* The totals of a class are those of its records counted directly, and what
\* the columns of the CSV add up to.
TotalsAddUp(roster, t) ==
    LET summary == classroomTermSummary(roster, t)
        csv == Csv(summary)
        total == csv["CLASS TOTAL"]
    IN  /\ summary.classroomTotals
             = summariseRecords(Records(roster, covers[t]))
        /\ \A c \in Counted :
             total.counts[c] = SumOver([e \in roster |-> csv[e].counts[c]])
        /\ total.present + total.absent = total.marked
        /\ total.marked = 2 * total.counts["daysMarked"]

\* "A printed sheet and the screen cannot disagree": the grid of the whole
\* term has the figures of the summary, and as many columns as it counts dates;
\* what its cells show is what its totals say.
GridMatchesSummary(roster, t) ==
    LET grid == classroomRegisterGrid(roster, t, 0, Today + 1)
        summary == classroomTermSummary(roster, t)
        Shown(cells) == SumOver([d \in DOMAIN cells |->
                          Cardinality({s \in Sessions :
                                         countsAsPresent(cells[d][s])})])
    IN  /\ grid.summary = summary.students
        /\ grid.totals = summary.classroomTotals
        /\ Cardinality(grid.dates) = summary.datesMarked
        /\ grid.totals.sessionsPresent
             = SumOver([e \in roster |-> Shown(grid.cells[e])])
        /\ \A e \in roster : studentTermSummary(e, t) = summary.students[e]

\* The days of a term, viewed one by one, add up to the summary of the term; of
\* each roster a child is marked or unmarked.  What is offered for editing is
\* of a term that is open, by the order of the entries and not their times.
DaysAddUp(roster, t) ==
    LET totals == classroomTermSummary(roster, t).classroomTotals IN
    /\ \A c \in Counted :
         totals.tallied[c] =
           SumOver([d \in covers[t] |-> getRegister(roster, d).counts[c]])
    /\ \A d \in covers[t] :
         LET view == getRegister(roster, d) IN
         /\ view.unmarkedCount + view.counts["daysMarked"]
              = Cardinality(roster)
         /\ view.editable => \E u \in Terms : d \in covers[u] /\ Writable(u)

\* "If a second query ever computes this independently, the two will drift":
\* four reports and a spreadsheet count the same sessions, of whatever roster
\* they found before the records changed.  It is enough to look where nothing
\* is under way: reports read nothing of a request, and each may Fail here.
TotalsAgree ==
    (\A r \in Requests : req[r] = Idle) =>
        \A t \in Terms, roster \in SUBSET Enrollments :
            /\ TotalsAddUp(roster, t)
            /\ GridMatchesSummary(roster, t)
            /\ DaysAddUp(roster, t)
=============================================================================
