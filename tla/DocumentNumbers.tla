--------------------------- MODULE DocumentNumbers ---------------------------
(***************************************************************************)
(* Document numbers: nextDocumentNumber and the bounded retry around it    *)
(* (StudentsService, StaffService and AdmissionsService create records     *)
(* this way), numbers typed by hand, and DocumentSequencesService, for one *)
(* row of document_sequences and the table that takes its numbers.         *)
(*                                                                         *)
(* A document number is <<format, n>>: the prefix and padding in force     *)
(* when it was made, and the counter.  Formatting loses nothing: padStart  *)
(* keeps the digits of n and the last dash ends the prefix.                *)
(*                                                                         *)
(* Of the audit log only the entries of generateNext are kept: it writes   *)
(* them inside its transaction.  The others follow the last statement of   *)
(* their handler, nothing here reads them, and they are left out.          *)
(***************************************************************************)
EXTENDS Integers, FiniteSets

CONSTANTS
    Takers,         \* the HTTP requests being served at the same time
    Ids,            \* ids the database may give to records (a bound)
    Formats,        \* prefix and padding pairs an administrator may set
    MaxTyped,       \* the largest counter anybody types by hand (a bound)
    MaxGenerated,   \* no generate request starts beyond this counter (a bound)
    Null

ASSUME NumberAssumption == MaxTyped \in Nat /\ MaxGenerated \in Nat
ASSUME NobodyAssumption == Null \notin Takers \cup Ids

VARIABLES
    documents,      \* rows: [id, number, auto]
    currentNumber,  \* document_sequences.current_number
    format,         \* its prefix and padding_length
    sequenceLock,   \* the transaction whose UPDATE of the row is uncommitted
    pc, locals,     \* the next statement and the locals of each request
    generated,      \* numbers that generateNext has answered to a client
    audited         \* numbers named by document_sequences.generated entries

numberVars == <<documents, currentNumber, format, sequenceLock, pc, locals,
                generated, audited>>
-----------------------------------------------------------------------------
MAX_ATTEMPTS == 3

Number == Formats \X Nat
Typed == Formats \X (1 .. MaxTyped)
Document == [id : Ids, number : Number, auto : BOOLEAN]

Statements == {"idle", "claim", "insert", "insertTyped", "renumber",
               "generate", "auditGenerated", "commitGenerated",
               "setFormat"}

\* Statements of a transaction that has updated the sequence row.
HoldsSequence == {"insert", "auditGenerated", "commitGenerated"}

Local(id, number, attempt, newFormat) ==
    [id |-> id, number |-> number, collided |-> Null, attempt |-> attempt,
     format |-> newFormat]
NoLocals == Local(Null, Null, 0, Null)

Locals == [id : Ids \cup {Null}, number : Number \cup {Null},
           collided : Number \cup {Null}, attempt : 0 .. MAX_ATTEMPTS,
           format : Formats \cup {Null}]

InUse(number) == \E d \in documents : d.number = number
FreshIds == Ids \ ({d.id : d \in documents} \cup {locals[r].id : r \in Takers})

\* The record a request writes.
Row(r, auto) ==
    [id |-> locals[r].id, number |-> locals[r].number, auto |-> auto]

NumbersInit ==
    /\ documents = {}
    /\ currentNumber = 0
    /\ format \in Formats
    /\ sequenceLock = Null
    /\ pc = [r \in Takers |-> "idle"]
    /\ locals = [r \in Takers |-> NoLocals]
    /\ generated = {}
    /\ audited = {}

Goto(r, label) == pc' = [pc EXCEPT ![r] = label]
EndRequest(r) == Goto(r, "idle") /\ locals' = [locals EXCEPT ![r] = NoLocals]
Release(r) == sequenceLock' = IF sequenceLock = r THEN Null ELSE sequenceLock
-----------------------------------------------------------------------------
\* create without a number, and create with one typed by hand.
CreateStart(r) ==
    /\ pc[r] = "idle"
    /\ \E id \in FreshIds :
         \/ /\ locals' = [locals EXCEPT ![r] = Local(id, Null, 1, Null)]
            /\ Goto(r, "claim")
         \/ /\ \E number \in Typed :
                 locals' = [locals EXCEPT ![r] = Local(id, number, 0, Null)]
            /\ Goto(r, "insertTyped")
    /\ UNCHANGED <<documents, currentNumber, format, sequenceLock, generated,
                   audited>>

\* nextDocumentNumber: one UPDATE, which waits for any other transaction that
\* has updated the row, then sees the last committed value.
Claim(r) ==
    /\ sequenceLock = Null
    /\ sequenceLock' = r
    /\ locals' = [locals EXCEPT ![r].number = <<format, currentNumber + 1>>]

ClaimNumber(r) ==
    /\ pc[r] = "claim"
    /\ Claim(r)
    /\ Goto(r, "insert")
    /\ UNCHANGED <<documents, currentNumber, format, generated, audited>>

\* The row and the increment become visible together, at the commit.
InsertDocument(r) ==
    /\ pc[r] = "insert"
    /\ ~InUse(locals[r].number)
    /\ documents' = documents \cup
         {Row(r, TRUE)}
    /\ currentNumber' = locals[r].number[2]
    /\ Release(r)
    /\ EndRequest(r)
    /\ UNCHANGED <<format, generated, audited>>

\* Mutant of InsertCollision: the increment survives the failed insert.
CollisionKeepsClaim(r) ==
    /\ pc[r] = "insert"
    /\ InUse(locals[r].number)
    /\ currentNumber' = locals[r].number[2]
    /\ Release(r)
    /\ EndRequest(r)
    /\ UNCHANGED <<documents, format, generated, audited>>

\* P2002 on the number: the transaction rolls back with its increment, and the
\* loop goes round again while it has attempts left.
InsertCollision(r) ==
    /\ pc[r] = "insert"
    /\ InUse(locals[r].number)
    /\ Release(r)
    /\ IF locals[r].attempt < MAX_ATTEMPTS
       THEN /\ locals' = [locals EXCEPT ![r].attempt = @ + 1,
                                     ![r].collided = locals[r].number]
            /\ Goto(r, "claim")
       ELSE EndRequest(r)
    /\ UNCHANGED <<documents, currentNumber, format, generated, audited>>

\* A typed number is inserted as it is, or refused and never retried.
InsertTyped(r) ==
    /\ pc[r] = "insertTyped"
    /\ documents' = documents \cup
         (IF InUse(locals[r].number) THEN {}
          ELSE {Row(r, FALSE)})
    /\ EndRequest(r)
    /\ UNCHANGED <<currentNumber, format, sequenceLock, generated, audited>>

\* AdmissionsService.update with an admissionNumber, of an existing record.
RenumberStart(r) ==
    /\ pc[r] = "idle"
    /\ \E d \in documents, number \in Typed :
         locals' = [locals EXCEPT ![r] = Local(d.id, number, 0, Null)]
    /\ Goto(r, "renumber")
    /\ UNCHANGED <<documents, currentNumber, format, sequenceLock, generated,
                   audited>>

Renumber(r) ==
    /\ pc[r] = "renumber"
    /\ documents' =
         IF \E d \in documents :
              d.number = locals[r].number /\ d.id # locals[r].id
         THEN documents
         ELSE {d \in documents : d.id # locals[r].id} \cup {Row(r, FALSE)}
    /\ EndRequest(r)
    /\ UNCHANGED <<currentNumber, format, sequenceLock, generated, audited>>
-----------------------------------------------------------------------------
\* generateNext: the increment, then the audit entry, which goes through
\* another connection and so does not wait for the commit, then the commit.
GenerateStart(r) ==
    /\ pc[r] = "idle"
    /\ currentNumber < MaxGenerated
    /\ Goto(r, "generate")
    /\ UNCHANGED <<documents, currentNumber, format, sequenceLock, locals,
                   generated, audited>>

GenerateClaim(r) ==
    /\ pc[r] = "generate"
    /\ Claim(r)
    /\ Goto(r, "auditGenerated")
    /\ UNCHANGED <<documents, currentNumber, format, generated, audited>>

AuditGenerated(r) ==
    /\ pc[r] = "auditGenerated"
    /\ audited' = audited \cup {locals[r].number}
    /\ Goto(r, "commitGenerated")
    /\ UNCHANGED <<documents, currentNumber, format, sequenceLock, locals,
                   generated>>

CommitGenerated(r) ==
    /\ pc[r] = "commitGenerated"
    /\ currentNumber' = locals[r].number[2]
    /\ generated' = generated \cup {locals[r].number}
    /\ Release(r)
    /\ EndRequest(r)
    /\ UNCHANGED <<documents, format, audited>>

\* update: prefix and padding only, so the counter never moves back.
UpdateStart(r) ==
    /\ pc[r] = "idle"
    /\ \E f \in Formats :
         locals' = [locals EXCEPT ![r] = Local(Null, Null, 0, f)]
    /\ Goto(r, "setFormat")
    /\ UNCHANGED <<documents, currentNumber, format, sequenceLock, generated,
                   audited>>

\* Mutant of SetFormat: a new prefix starts counting from nothing.
SetFormatAndReset(r) ==
    /\ pc[r] = "setFormat"
    /\ sequenceLock = Null
    /\ format' = locals[r].format
    /\ currentNumber' = 0
    /\ EndRequest(r)
    /\ UNCHANGED <<documents, sequenceLock, generated, audited>>

SetFormat(r) ==
    /\ pc[r] = "setFormat"
    /\ sequenceLock = Null
    /\ format' = locals[r].format
    /\ EndRequest(r)
    /\ UNCHANGED <<documents, currentNumber, sequenceLock, generated, audited>>

\* A crash, a lost connection, a failed statement, a transaction timeout.
Abort(r) ==
    /\ pc[r] # "idle"
    /\ Release(r)
    /\ EndRequest(r)
    /\ UNCHANGED <<documents, currentNumber, format, generated, audited>>
-----------------------------------------------------------------------------
TakerStep(r) ==
    \/ ClaimNumber(r) \/ InsertDocument(r) \/ InsertCollision(r)
    \/ InsertTyped(r) \/ Renumber(r)
    \/ GenerateClaim(r) \/ AuditGenerated(r) \/ CommitGenerated(r)
    \/ SetFormat(r)

NumbersNext ==
    \E r \in Takers :
        \/ CreateStart(r) \/ RenumberStart(r) \/ GenerateStart(r)
        \/ UpdateStart(r)
        \/ TakerStep(r) \/ Abort(r)

NumbersSpec == NumbersInit /\ [][NumbersNext]_numberVars
-----------------------------------------------------------------------------
\* The shape of the tables and of the requests.
NumbersTypeOK ==
    /\ documents \subseteq Document
    /\ currentNumber \in Nat
    /\ format \in Formats
    /\ sequenceLock \in Takers \cup {Null}
    /\ pc \in [Takers -> Statements]
    /\ locals \in [Takers -> Locals]
    /\ generated \subseteq Number

\* What a request needs for its next statement has been set.
LocalsSet ==
    \A r \in Takers :
        /\ pc[r] \in {"claim", "insert", "insertTyped", "renumber"}
             => locals[r].id \in Ids
        /\ pc[r] \in {"insertTyped", "renumber"} => locals[r].number \in Number
        /\ pc[r] = "setFormat" => locals[r].format \in Formats

\* A claim that is not committed yet is the only one, and its counter is the
\* one after every committed claim.
OneClaimant ==
    \A r \in Takers : pc[r] \in HoldsSequence =>
        /\ sequenceLock = r
        /\ locals[r].number \in Number
        /\ locals[r].number[2] = currentNumber + 1

Consumed == {d \in documents : d.auto}

CountersBounded ==
    /\ \A d \in Consumed : d.number[2] <= currentNumber
    /\ \A g \in generated : g[2] <= currentNumber

\* A counter value is given out once: to one record, or to one caller of
\* generateNext, even when the prefix or the padding changes in between and the
\* unique index on the text would let the value through again.
CountersGivenOnce ==
    /\ \A d, e \in Consumed : d.number[2] = e.number[2] => d = e
    /\ \A g, h \in generated : g[2] = h[2] => g = h
    /\ \A d \in Consumed, g \in generated : d.number[2] # g[2]

CounterInv ==
    /\ NumbersTypeOK /\ LocalsSet /\ OneClaimant
    /\ CountersBounded /\ CountersGivenOnce

\* "the increment commits or rolls back together with the record that consumes
\* the number": the counter moves by one, with one new record or one answer,
\* and the answer was written to the audit log before.
IncrementConsumed ==
    [][ IF currentNumber' = currentNumber
        THEN Consumed' \subseteq Consumed /\ generated' = generated
        ELSE /\ currentNumber' = currentNumber + 1
             /\ Cardinality((Consumed' \ Consumed)
                              \cup (generated' \ generated)) = 1
             /\ generated' \subseteq audited ]_numberVars

\* What generateNext is about to answer, or has answered, is in the audit log.
AnswersLogged ==
    /\ generated \subseteq audited
    /\ \A r \in Takers :
         pc[r] = "commitGenerated" => locals[r].number \in audited

\* "claim the next value and try again": a retry never meets the number that
\* has just collided.
RetryClaimsNextValue ==
    \A r \in Takers :
        pc[r] = "insert" => locals[r].number # locals[r].collided
=============================================================================
