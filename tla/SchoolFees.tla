----------------------------- MODULE SchoolFees -----------------------------
(***************************************************************************)
(* School fees and the assignments generated from them: SchoolFeesService  *)
(* (src/src/fees/school-fees.service.ts), among changes of enrollments and *)
(* of classrooms.                                                          *)
(*                                                                         *)
(* A fee is for a level and a term; creating it bills every active         *)
(* enrollment of the level in the same transaction.  Whoever comes later,  *)
(* with the classroom or not, is billed when somebody runs reconcile.  The *)
(* transaction is READ COMMITTED: its list of enrollments may be out of    *)
(* date when it inserts.                                                   *)
(*                                                                         *)
(* FeeAssignments and the modules it composes say what happens to an       *)
(* assignment from then on.  Names and audit entries are left out.         *)
(***************************************************************************)
EXTENDS Classrooms

CONSTANTS
    Fees,           \* a fee type, level and term each
    LevelOf,        \* the level of each fee
    YearOf,         \* the academic year of each fee's term
    Amounts,        \* what a fee may be set to
    Billings        \* requests that create a fee or reconcile one

ASSUME FeesAssumption ==
    /\ LevelOf \in [Fees -> Levels] /\ YearOf \in [Fees -> Years]
    /\ Amounts \subseteq Nat \ {0} /\ Fees \cap Billings = {}

VARIABLES
    fee,            \* the row of each fee
    due,            \* amount_due of each assignment, 0 where there is none
    billing,        \* the locals of each request
    missed          \* ghost: who joined a level since a fee's targets were read,
                    \* for each fee and for each request that has read them

feesVars == <<enrollment, class, yearsHad, fee, due, billing, missed>>
-----------------------------------------------------------------------------
NoFee == [status |-> "none", amount |-> 0]
NoBilling == [pc |-> "idle"]

\* @@unique([schoolFeeId, enrollmentId]): one amount per pair.
FeesInit ==
    /\ EnrollmentsInit /\ ClassesInit
    /\ fee = [f \in Fees |-> NoFee]
    /\ due = [f \in Fees |-> [s \in Slots |-> 0]]
    /\ billing = [r \in Billings |-> NoBilling]
    /\ missed = [x \in Fees \cup Billings |-> {}]

EndBilling(r) == billing' = [billing EXCEPT ![r] = NoBilling]

\* targetEnrollmentIds: the walk from the level to its active enrollments.
Targets(f) ==
    {s \in Slots : /\ Active(s) /\ s[2] = YearOf[f]
                   /\ Seat(s) = [level |-> LevelOf[f], year |-> YearOf[f]]}
-----------------------------------------------------------------------------
\* @@unique([schoolId, feeTypeId, levelId, academicYearId, termId]): a second
\* create of the fee waits for the first, and then fails with P2002.
BeingCreated(f) ==
    \E r \in Billings :
        billing[r].pc # "idle" /\ billing[r].fee = f /\ billing[r].new

CreateFee(r, f, amount) ==
    /\ billing[r].pc = "idle" /\ fee[f] = NoFee /\ ~BeingCreated(f)
    /\ billing' = [billing EXCEPT ![r] =
           [pc |-> "target", fee |-> f, new |-> TRUE,
            amount |-> amount, targets |-> {}]]
    /\ UNCHANGED <<enrollment, classVars, fee, due, missed>>

\* reconcile: the fee is read before the transaction, archived or not.
Reconcile(r, f) ==
    /\ billing[r].pc = "idle" /\ fee[f] # NoFee
    /\ billing' = [billing EXCEPT ![r] =
           [pc |-> "target", fee |-> f, new |-> FALSE,
            amount |-> fee[f].amount, targets |-> {}]]
    /\ UNCHANGED <<enrollment, classVars, fee, due, missed>>

ReadTargets(r) ==
    /\ billing[r].pc = "target"
    /\ billing' = [billing EXCEPT ![r].pc = "assign",
                                  ![r].targets = Targets(billing[r].fee)]
    /\ missed' = [missed EXCEPT ![r] = {}]
    /\ UNCHANGED <<enrollment, classVars, fee, due>>

\* Mutant of Billed: the rows that are there already are overwritten.
BilledAgain(r) ==
    LET f == billing[r].fee IN
    [due EXCEPT ![f] = [s \in Slots |-> IF s \in billing[r].targets
                                        THEN billing[r].amount ELSE @[s]]]

\* createMany with skipDuplicates.
Billed(r) ==
    LET f == billing[r].fee IN
    [due EXCEPT ![f] = [s \in Slots |-> IF s \in billing[r].targets /\ @[s] = 0
                                        THEN billing[r].amount ELSE @[s]]]

\* Mutant of Assign: the fee is committed before the children are assigned.
AssignLater(r) ==
    LET f == billing[r].fee IN
    /\ billing[r].pc = "assign"
    /\ fee' = [fee EXCEPT ![f] = IF billing[r].new
                                 THEN [status |-> "active",
                                       amount |-> billing[r].amount] ELSE @]
    /\ due' = IF billing[r].new THEN due ELSE Billed(r)
    /\ billing' = [billing EXCEPT ![r] = IF billing[r].new
                                         THEN [@ EXCEPT !.new = FALSE]
                                         ELSE NoBilling]
    /\ missed' = [missed EXCEPT ![f] = @ \cap missed[r]]
    /\ UNCHANGED <<enrollment, classVars>>

\* The assignments, and the COMMIT.
Assign(r) ==
    LET f == billing[r].fee IN
    /\ billing[r].pc = "assign"
    /\ fee' = [fee EXCEPT ![f] = IF billing[r].new
                                 THEN [status |-> "active",
                                       amount |-> billing[r].amount] ELSE @]
    /\ due' = Billed(r)
    /\ EndBilling(r)
    /\ missed' = [missed EXCEPT ![f] = @ \cap missed[r], ![r] = {}]
    /\ UNCHANGED <<enrollment, classVars>>

\* ROLLBACK: the process ends, or a statement fails.
Rollback(r) ==
    /\ billing[r].pc # "idle"
    /\ EndBilling(r)
    /\ missed' = [missed EXCEPT ![r] = {}]
    /\ UNCHANGED <<enrollment, classVars, fee, due>>

\* The amount is for assignments to come.
UpdateFee(f, amount) ==
    /\ fee[f] # NoFee
    /\ fee' = [fee EXCEPT ![f].amount = amount]
    /\ UNCHANGED <<enrollment, classVars, due, billing, missed>>

Archive(f) ==
    /\ fee[f].status = "active"
    /\ fee' = [fee EXCEPT ![f].status = "archived"]
    /\ UNCHANGED <<enrollment, classVars, due, billing, missed>>

Restore(f) ==
    /\ fee[f].status = "archived"
    /\ fee' = [fee EXCEPT ![f].status = "active"]
    /\ UNCHANGED <<enrollment, classVars, due, billing, missed>>

\* FeeAssignmentsService.update: the one way to change an amount due.
EditDue(f, s, amount) ==
    /\ due[f][s] # 0
    /\ due' = [due EXCEPT ![f][s] = amount]
    /\ UNCHANGED <<enrollment, classVars, fee, billing, missed>>

\* Whoever enrolls, through admissions or not, becomes active again, or moves
\* with a classroom.
EnrollElsewhere ==
    /\ ClassroomsStep
    /\ missed' = [x \in Fees \cup Billings |->
                    IF x \in Fees \/ billing[x].pc = "assign"
                    THEN missed[x] \cup Joined ELSE missed[x]]
    /\ UNCHANGED <<fee, due, billing>>

FeesNext ==
    \/ \E r \in Billings :
         \/ \E f \in Fees, amount \in Amounts : CreateFee(r, f, amount)
         \/ \E f \in Fees : Reconcile(r, f)
         \/ ReadTargets(r) \/ Assign(r) \/ Rollback(r)
    \/ \E f \in Fees :
         \/ \E amount \in Amounts : UpdateFee(f, amount)
         \/ Archive(f) \/ Restore(f)
         \/ \E s \in Slots, amount \in Amounts : EditDue(f, s, amount)
    \/ EnrollElsewhere

FeesSpec == FeesInit /\ [][FeesNext]_feesVars
-----------------------------------------------------------------------------
(* Properties *)

Billing ==
    [pc : {"target", "assign"}, fee : Fees, new : BOOLEAN, amount : Amounts,
     targets : SUBSET Slots] \cup {NoBilling}

FeesTypeOK ==
    /\ ClassesTyped
    /\ fee \in [Fees -> [status : {"active", "archived"}, amount : Amounts]
                        \cup {NoFee}]
    /\ due \in [Fees -> [Slots -> Amounts \cup {0}]]
    /\ billing \in [Billings -> Billing]
    /\ missed \in [Fees \cup Billings -> SUBSET Slots]

\* "A fee that exists but assigned nobody is a silent revenue hole": every
\* active enrollment of the level has its assignment, except those that became
\* active, or came to the level with their classroom, after each create and
\* reconcile so far had read its list (all of them where there was none yet).
NoRevenueHole ==
    \A f \in Fees : \A s \in Targets(f) : due[f][s] # 0 \/ s \in missed[f]

\* "Assignment freezes the price": an amount due, once there, changes by an
\* edit of that assignment only, whatever happens to the fee meanwhile and
\* however often it is reconciled.
PriceFrozen ==
    [][\A f \in Fees, s \in Slots :
         due[f][s] # 0 /\ due'[f][s] # due[f][s] =>
            \E amount \in Amounts : EditDue(f, s, amount)]_feesVars

\* What a request found it still has, or those it lacks have come since; only
\* a fee that is not there yet is being created.
TargetsKnown ==
    \A r \in Billings : billing[r].pc # "idle" =>
        /\ billing[r].new <=> fee[billing[r].fee] = NoFee
        /\ billing[r].new => ~\E q \in Billings \ {r} :
             billing[q].pc # "idle" /\ billing[q].fee = billing[r].fee
        /\ billing[r].pc = "assign" =>
             Targets(billing[r].fee) \subseteq billing[r].targets \cup missed[r]

FeesInv == FeesTypeOK /\ OneActive /\ TargetsKnown /\ NoRevenueHole
=============================================================================
