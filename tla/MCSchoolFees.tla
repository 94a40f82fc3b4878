----------------------------- MODULE MCSchoolFees -----------------------------
(* Instances of SchoolFees for TLC. *)
EXTENDS SchoolFees, TLC

CONSTANTS ama, kofi, tuition, q1, q2, p1

TwoStudents == {ama, kofi}
OneYear == {2026}
OneTrack == {"GES_NACCA"}
OneClassroom == {p1}
TwoLevels == {1, 2}
LastYearToo == {2025, 2026}
OneFee == {tuition}
FirstLevel == [f \in OneFee |-> 1]
ThisYear == [f \in OneFee |-> 2026]
TwoAmounts == {400, 450}
TwoRequests == {q1, q2}

Symmetry == UNION {Permutations(s) : s \in {TwoRequests, TwoStudents}}
=============================================================================
