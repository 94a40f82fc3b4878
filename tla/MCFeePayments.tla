---------------------------- MODULE MCFeePayments ----------------------------
(* Instances of FeePayments, and of the reports on it, for TLC. *)
EXTENDS FeeReporting, TLC

CONSTANTS a1, a2, r1, r2, r3, p1, p2, p3, p4, ama, kofi, tuition, pta

TwoAssignments == {a1, a2}
ThreeRequests == {r1, r2, r3}
FourRows == {p1, p2, p3, p4}

ThirdOccupied == {3}

TwoStudents == {ama, kofi}
TwoTerms == {1, 2}
TwoTypes == {tuition, pta}

For(student, status, term, type) ==
    [enrollment |-> <<student, status>>, term |-> term, feeType |-> type]

\* One child in two terms; two children; two fees of a child that changed
\* classes between them, in a term and over two.  Each way round, as the
\* assignments are symmetric.
Pairs ==
    {<<For(ama, "active", 1, tuition), For(ama, "active", 2, tuition)>>,
     <<For(ama, "active", 2, tuition), For(kofi, "active", 1, pta)>>,
     <<For(ama, "withdrawn", 2, tuition), For(ama, "active", 2, pta)>>,
     <<For(ama, "withdrawn", 1, tuition), For(ama, "active", 2, tuition)>>}
FourBooks ==
    UNION {{[a \in TwoAssignments |-> IF a = a1 THEN pair[1] ELSE pair[2]],
            [a \in TwoAssignments |-> IF a = a1 THEN pair[2] ELSE pair[1]]} :
           pair \in Pairs}

\* Ids of rows and of requests are interchangeable.
Symmetry == Permutations(RowIds) \cup Permutations(Requests)
              \cup Permutations(Assignments)
=============================================================================
