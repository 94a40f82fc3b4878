----------------------------- MODULE InvoiceChain -----------------------------
(***************************************************************************)
(* The correction chain of an invoice as every read of it shows it:        *)
(* loadChain in src/src/invoices/invoices.service.ts.  One column, the     *)
(* supersedesInvoiceId of the newer document, is walked in both            *)
(* directions.  The figures of a document are those of FeeReporting.       *)
(***************************************************************************)
EXTENDS Invoices, SequencesExt

MAX_CHAIN == 50

\* A walk ends at the first row that it has seen; it cannot be longer than the
\* rows there are.
Bound == Min({MAX_CHAIN, Cardinality(InvoiceIds)})

\* One step of a walk from i, that goes from each row to the one after it.
Follow(i, after, seen, before) ==
    LET at == IF before = << >> THEN i ELSE Last(before)
    IN  IF after[at] \in {None} \cup seen \cup ToSet(before) THEN before
        ELSE Append(before, after[at])

\* What the walk collects.
Walk(i, after, seen) ==
    LET path[n \in 0 .. Bound] ==
          IF n = 0 THEN << >> ELSE Follow(i, after, seen, path[n - 1])
    IN  path[Bound]

Older == [i \in Existing |-> invoices[i].supersedes]

\* findFirst where supersedesInvoiceId is i.
Newer ==
    [i \in Existing |->
       IF i \in Superseded
       THEN CHOOSE j \in Existing : invoices[j].supersedes = i ELSE None]

loadChain(i) ==
    LET backward == Walk(i, Older, {i})
    IN  [backward |-> backward,
         forward |-> Walk(i, Newer, {i} \cup ToSet(backward))]
-----------------------------------------------------------------------------
\* The history that the detail of an invoice tells, from the oldest document.
History(i) ==
    Reverse(loadChain(i).backward) \o <<i>> \o loadChain(i).forward

\* No document of the chain is missing, and each of them tells the same.
TellsAll(i) ==
    LET told == History(i) IN
    \A j \in Existing :
        \/ j \in ToSet(told) /\ History(j) = told
        \/ invoices[j].supersedes \notin ToSet(told)

\* What is told is of one enrollment and term, all documents but the last are
\* cancelled, and their numbers ascend.
TellsInOrder(i) ==
    LET told == History(i) IN
    /\ \A l \in lines :
         l.invoice \in ToSet(told) =>
           AccountOf[l.feeAssignment] = invoices[i].account
    /\ \A n \in 1 .. Len(told) - 1 :
         LET this == invoices[told[n]]
             next == invoices[told[n + 1]]
         IN  /\ this.status = "cancelled"
             /\ this.account = next.account
             /\ this.number < next.number

\* "Opening ANY invoice in a chain shows the whole history rather than only its
\* own state": whichever document of a chain is opened, however corrections and
\* cancellations raced, the history is whole, the same, and in order.  It is
\* enough to look where nothing is under way: the walk reads nothing of a
\* request, and each may Abort here.
HistoryTold ==
    (\A r \in Requests : pc[r] = "idle") =>
        \A i \in Existing : TellsAll(i) /\ TellsInOrder(i)
-----------------------------------------------------------------------------
(* Why it holds: what an inductive invariant says of the documents beyond   *)
(* InvoicesInv.                                                             *)

\* A document has bills of its own account only.
OneAccount ==
    /\ \A l \in lines : AccountOf[l.feeAssignment] = invoices[l.invoice].account
    /\ \A r \in Requests :
         /\ pc[r] \in BeforeIssue /\ req[r].supersedes # None =>
              req[r].account = invoices[req[r].supersedes].account
         /\ pc[r] \in {"claim", "insert"} =>
              \A a \in req[r].set : AccountOf[a] = req[r].account

\* The sequence is ahead of all documents.
NumbersBehind == \A i \in Existing : invoices[i].number <= sequence

\* A document replaces an older one, cancelled, of the same account, and is
\* alone in that.
LinksTrue ==
    \A i \in Existing :
        LET old == invoices[i].supersedes IN
        old # None =>
          /\ old \in Existing
          /\ invoices[old].status = "cancelled"
          /\ invoices[old].account = invoices[i].account
          /\ invoices[old].number < invoices[i].number
          /\ \A j \in Existing : invoices[j].supersedes = old => j = i

ChainInv == InvoicesInv /\ OneAccount /\ NumbersBehind /\ LinksTrue

\* No walk has run into its limit.
NothingCut ==
    \A i \in Existing :
        /\ Len(loadChain(i).backward) < MAX_CHAIN
        /\ Len(loadChain(i).forward) < MAX_CHAIN
=============================================================================
