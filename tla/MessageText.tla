------------------------------ MODULE MessageText ------------------------------
(***************************************************************************)
(* What a text message costs and where it can go: pure functions of        *)
(* src/src/notifications (segments, phone, templates).                     *)
(*                                                                         *)
(* A body is the number of its characters in each class that the price     *)
(* depends on, so rendering a template adds the counts of its values.  A   *)
(* phone number is the sequence of its digits, with Separator for every    *)
(* other character that was typed.                                         *)
(***************************************************************************)
EXTENDS Integers, Sequences

\* basic, extended: of GSM 03.38, the latter two characters each.  quotes:
\* curly quotes and dashes.  ellipses: the one character.  other, astral:
\* outside the alphabet, with one and two UTF-16 units.
Text == [basic : Nat, extended : Nat, quotes : Nat, ellipses : Nat,
         other : Nat, astral : Nat]

\* renderTemplate: the wording of the school with the values in it.
renderTemplate(template, values) ==
    [class \in DOMAIN template |-> template[class] + values[class]]

\* degradeToGsm7: punctuation only, and an ellipsis becomes three characters.
degradeToGsm7(body) ==
    [body EXCEPT !.basic = @ + body.quotes + 3 * body.ellipses,
                 !.quotes = 0, !.ellipses = 0]

FitsGsm7(body) ==
    body.quotes + body.ellipses + body.other + body.astral = 0

\* Math.ceil(length / size)
Pages(length, size) == (length + size - 1) \div size

SegmentsOf(length, single, concatenated) ==
    IF length <= single THEN 1 ELSE Pages(length, concatenated)

Gsm7Length(body) == body.basic + 2 * body.extended
Ucs2Length(body) ==
    body.basic + body.extended + body.quotes + body.ellipses + body.other
    + 2 * body.astral

\* Mutant of analyseSms: a concatenated message holds as much in each part as
\* a single one.
analyseWithoutHeaders(body) ==
    IF FitsGsm7(body) THEN SegmentsOf(Gsm7Length(body), 160, 160)
    ELSE SegmentsOf(Ucs2Length(body), 70, 70)

\* analyseSms: the billable segments.
analyseSms(body) ==
    IF FitsGsm7(body) THEN SegmentsOf(Gsm7Length(body), 160, 153)
    ELSE SegmentsOf(Ucs2Length(body), 70, 67)
-----------------------------------------------------------------------------
Separator == 10
Digit == 0 .. 9
Typed == Seq(Digit \cup {Separator})

COUNTRY_CODE == <<2, 3, 3>>
NATIONAL_SIGNIFICANT_LENGTH == 9

NoNumber == <<>>

IsDigit(c) == c \in Digit

\* The nine digits of a number typed in any of the three forms.
National(digits) ==
    IF Len(digits) = 12 /\ SubSeq(digits, 1, 3) = COUNTRY_CODE
    THEN SubSeq(digits, 4, 12)
    ELSE IF Len(digits) = 10 /\ digits[1] = 0 THEN SubSeq(digits, 2, 10)
    ELSE IF Len(digits) = NATIONAL_SIGNIFICANT_LENGTH THEN digits
    ELSE NoNumber

\* normaliseGhanaPhone: E.164 without its plus, or NoNumber when it is empty,
\* has no digits or the wrong number of them, or is not a mobile number.
normaliseGhanaPhone(raw) ==
    LET national == National(SelectSeq(raw, IsDigit)) IN
    IF national # NoNumber /\ national[1] \in {2, 5}
    THEN COUNTRY_CODE \o national
    ELSE NoNumber
=============================================================================
