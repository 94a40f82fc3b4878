----------------------------- MODULE MCAdmissions -----------------------------
(* Instances of Admissions for TLC. *)
EXTENDS Admissions, TLC

CONSTANTS ama, p1, app1, q1, q2

OneStudent == {ama}
OneApplication == {app1}
TwoRequests == {q1, q2}
OneYear == {2026}
TwoTracks == {"GES_NACCA", "ABEKA"}
OneClassroom == {p1}

Symmetry == Permutations(TwoRequests)
=============================================================================
