------------------------------ MODULE MCInvoices ------------------------------
(* Instances of Invoices for TLC. *)
EXTENDS InvoiceChain, TLC

CONSTANTS a1, a2, a3, i1, i2, i3, r1, r2, first, second

OneAssignment == {a1}
ThreeAssignments == {a1, a2, a3}
TwoRequests == {r1, r2}
ThreeInvoices == {i1, i2, i3}
OneTerm == {first}
TwoTerms == {first, second}

\* a3 is a fee of another term than the rest.
TermOf == [a \in Assignments |-> IF a = a3 THEN second ELSE first]

NoneOccupied == {}
ThirdOccupied == {3}

\* Ids are interchangeable, and so are fees of the same term.
Symmetry == Permutations(InvoiceIds) \cup Permutations(Requests)
              \cup Permutations({a1, a2})
=============================================================================
