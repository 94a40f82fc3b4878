------------------------------ MODULE FeeLedger ------------------------------
(***************************************************************************)
(* What the payment ledger promises, with no rows, locks or requests: each *)
(* assignment has an amount due and an amount collected, a payment is      *)
(* taken only when it fits the balance at that very moment, and money goes *)
(* back only out of what was collected.  FeePayments implements this.      *)
(***************************************************************************)
EXTENDS Integers

CONSTANTS Assignments, MaxAmount

VARIABLES due, collected

ledgerVars == <<due, collected>>

LedgerInit ==
    /\ due \in [Assignments -> 1 .. MaxAmount]
    /\ collected = [a \in Assignments |-> 0]

\* A payment, taken whole or not at all.
Pay(a, amount) ==
    /\ collected[a] + amount <= due[a]
    /\ collected' = [collected EXCEPT ![a] = @ + amount]
    /\ UNCHANGED due

\* A reversing entry.
GiveBack(a, amount) ==
    /\ collected' = [collected EXCEPT ![a] = @ - amount]
    /\ amount <= collected[a]
    /\ UNCHANGED due

LedgerNext ==
    \E a \in Assignments, amount \in 1 .. MaxAmount :
        Pay(a, amount) \/ GiveBack(a, amount)

LedgerSpec == LedgerInit /\ [][LedgerNext]_ledgerVars
=============================================================================
