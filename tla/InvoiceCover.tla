----------------------------- MODULE InvoiceCover -----------------------------
(***************************************************************************)
(* What invoicing promises, with no lines, locks or requests: each fee     *)
(* assignment is covered by at most one invoice, an invoice covers a set   *)
(* that is fixed when it is issued and given up all at once, and a         *)
(* correction moves the cover from the old document to the new one in one  *)
(* step.  Invoices implements this.                                        *)
(***************************************************************************)
CONSTANTS Assignments, InvoiceIds, None

VARIABLES
    cover,      \* the live invoice of each assignment, or None
    spent       \* invoices that have been issued

coverVars == <<cover, spent>>

Covered(i) == {a \in Assignments : cover[a] = i}

CoverInit ==
    /\ cover = [a \in Assignments |-> None]
    /\ spent = {}

\* A new invoice over assignments that are free, or freed by the invoice that
\* it replaces; of none at all, when those were withdrawn while it was made.
Issue(i, replaced, set) ==
    /\ i \notin spent
    /\ \A a \in set : cover[a] \in {None, replaced}
    /\ cover' = [a \in Assignments |->
                   IF a \in set THEN i
                   ELSE IF cover[a] = replaced THEN None ELSE cover[a]]
    /\ spent' = spent \cup {i}

Withdraw(i) ==
    /\ Covered(i) # {}
    /\ cover' = [a \in Assignments |->
                   IF cover[a] = i THEN None ELSE cover[a]]
    /\ UNCHANGED spent

CoverNext ==
    \E i \in InvoiceIds :
        \/ Withdraw(i)
        \/ \E replaced \in spent \cup {None}, set \in SUBSET Assignments :
             Issue(i, replaced, set)

CoverSpec == CoverInit /\ [][CoverNext]_coverVars
=============================================================================
