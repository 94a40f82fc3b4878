------------------------------ MODULE MCReminders ------------------------------
(* Instances of Reminders for TLC. *)
EXTENDS Reminders, TLC

CONSTANTS ama, esi, amaA, amaB, esiA, kofi, yaw, r1, b1, b2

TwoStudents == {ama, esi}
TwoGuardians == {kofi, yaw}
OneRequest == {r1}
TwoBatches == {b1, b2}
TwoOccasions == {"fee_reminder", "attendance_absence"}
OneReminder == {"fee_reminder"}

\* One student has changed tracks within the year.
ThreeEnrollments == {amaA, amaB, esiA}
Owners == [e \in ThreeEnrollments |-> IF e = esiA THEN esi ELSE ama]

\* 024-412-3456, and 302-123-456, which is no mobile number.
Mobile == <<0, 2, 4, Separator, 4, 1, 2, Separator, 3, 4, 5, 6>>
Landline == <<3, 0, 2, Separator, 1, 2, 3, Separator, 4, 5, 6>>
PhonesTyped == {Mobile, Landline}

Chars(basic, extended, quotes, ellipses, other) ==
    [basic |-> basic, extended |-> extended, quotes |-> quotes,
     ellipses |-> ellipses, other |-> other, astral |-> 0]

\* The values of one student make a body of 160 characters, those of the other
\* one of 135 in UCS-2, both at the edge of a segment.
Wording == {Chars(60, 0, 0, 1, 0)}
Values == [e \in ThreeEnrollments |-> IF e = esiA THEN Chars(70, 0, 1, 0, 1)
                                     ELSE Chars(95, 1, 0, 0, 0)]

\* A bound on the batches: they are of one occasion; a reminder may go to both
\* children, anything else to one enrollment of the first.  One call fails at
\* most.  And on the pollers: they work on one row at a time, and a row that has
\* failed, which is as final as one that was sent, is not followed.
BatchBound ==
    /\ \A b, c \in Batches : batch[b] # NoBatch /\ batch[c] # NoBatch =>
         /\ batch[b].occasion = batch[c].occasion
         /\ b # c => \/ Cardinality(batch[b].enrollments) = 1
                     \/ Cardinality(batch[c].enrollments) = 1
    /\ \A b \in Batches : batch[b] # NoBatch =>
         batch[b].enrollments \in {{amaA}, {amaB}}
           \cup (IF batch[b].occasion \in Reminding THEN {{amaA, esiA}} ELSE {})
    /\ Cardinality({c \in Calls : call[c].pc = "failed"}) <= 1
    /\ Cardinality({row \in outbox : row.claimed \/ row.status = "sending"}) <= 1
    /\ \A row \in outbox : row.status # "failed"

\* A bound on the links: the second guardian is for behaviours of the links of
\* one student.  Batches run once the links are made, next to consents and
\* guardians that change and links that are removed.
Selected == \E b \in Batches : batch[b] # NoBatch
Bound ==
    LET archived == guardian[kofi].archived
        landline == guardian[kofi].phone = Landline
        leaving  == withdrawing # {} IN
    /\ BatchBound
    /\ Exists(yaw) => /\ ~Selected /\ guardian[yaw].phone = Landline
                      /\ \A g \in Guardians : ~Linked(<<esi, g>>)
    /\ Selected => /\ req = [r \in Requests |-> Idle] /\ lapsed = {}
                   /\ ~(archived /\ landline) /\ ~(landline /\ leaving)
                   /\ ~(leaving /\ archived)
                   /\ archived \/ landline =>
                        /\ \A b \in Batches :
                             Cardinality(batch[b].enrollments) <= 1
                        /\ \A row \in outbox :
                             row.status \in {"queued", "suppressed"}
                   /\ \A pair \in Pairs : Linked(pair) => link[pair].primary
                   /\ Linked(<<esi, kofi>>) /\ ~link[<<esi, kofi>>].sms
                      => Linked(<<ama, kofi>>) /\ ~link[<<ama, kofi>>].sms

Symmetry == Permutations(TwoBatches)
=============================================================================
