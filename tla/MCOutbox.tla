------------------------------- MODULE MCOutbox -------------------------------
(* Instances of Outbox for TLC. *)
EXTENDS Outbox

CONSTANTS parent, teacher, receipt, c1, c2, tick, manual

OneGuardian == {parent}
NoStaff == {}
OneStaff == {teacher}
OneKey == {receipt}
OneCall == {c1}
TwoCalls == {c1, c2}
TwoPollers == {tick, manual}
=============================================================================
