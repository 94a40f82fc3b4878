--------------------------- MODULE MCFeeAssignments ---------------------------
(* Instances of FeeAssignments for TLC. *)
EXTENDS FeeAssignments, TLC

CONSTANTS a1, first, p1, p2, i1, i2, payer, biller, editor

OneAssignment == {a1}
OneTerm == {first}
SameTerm == [a \in Assignments |-> first]
TwoRows == {p1, p2}
OneRow == {p1}
TwoInvoices == {i1, i2}
OneInvoice == {i1}
OnePayer == {payer}
NoNumber == {}
OneBiller == {biller}
OneEditor == {editor}

Symmetry == Permutations(RowIds) \cup Permutations(InvoiceIds)
=============================================================================
