------------------------------ MODULE MCRegister ------------------------------
(* Instances of Register for TLC. *)
EXTENDS RegisterReports, TLC

CONSTANTS ama, kofi, q1, q2

OneTerm == {1}
OneDay == {1}
OneMover == {kofi}
TwoEnrollments == {ama, kofi}
TwoRequests == {q1, q2}

AllDay == [am |-> "present", pm |-> Omitted]
LeftEarly == [am |-> "late", pm |-> "excused"]
\* A whole register, and one row of it.
Submissions == {[e \in {ama, kofi} |-> AllDay], [e \in {ama} |-> LeftEarly]}

Symmetry == Permutations(TwoRequests)
=============================================================================
