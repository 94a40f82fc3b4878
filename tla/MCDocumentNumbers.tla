-------------------------- MODULE MCDocumentNumbers --------------------------
(* Instances of DocumentNumbers for TLC. *)
EXTENDS DocumentNumbers, TLC

CONSTANTS r1, r2, d1, d2, short, long

TwoTakers == {r1, r2}
TwoIds == {d1, d2}
TwoFormats == {short, long}

Symmetry == Permutations(Takers) \cup Permutations(Ids)
              \cup Permutations(Formats)
=============================================================================
