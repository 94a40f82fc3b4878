----------------------------- MODULE GuardianLinks -----------------------------
(***************************************************************************)
(* Guardians, their consent to be texted and their links to students:      *)
(* GuardiansService (src/src/guardians/guardians.service.ts) and           *)
(* StudentGuardiansService (src/src/student-guardians/                     *)
(* student-guardians.service.ts).                                          *)
(*                                                                         *)
(* link, update and setPrimary read in one step and write in another; the  *)
(* partial index uq_one_primary_guardian_per_student and the unique pairs  *)
(* are what a write finds.  A link is known by its pair: whoever holds the *)
(* id of a link that is removed finds none, even if the pair is linked     *)
(* again.  Names, relationships and the other flags are left out.          *)
(***************************************************************************)
EXTENDS Integers, FiniteSets

CONSTANTS
    Students,
    Guardians,
    Phones,         \* what is typed as phone_primary
    Requests,       \* calls of link, update and setPrimary under way
    None            \* SQL NULL

VARIABLES
    guardian,       \* the rows of guardians
    link,           \* the rows of student_guardians, by student and guardian
    req,            \* the locals of each request
    withdrawing,    \* guardians in revokeSmsConsent, past its check
    lapsed          \* ghost: links that were set to receive SMS although the
                    \* consent had been withdrawn since it was read

linkVars == <<guardian, link, req, withdrawing, lapsed>>
-----------------------------------------------------------------------------
Pairs == Students \X Guardians

ASSUME NullAssumption == None \notin BOOLEAN \cup Pairs \cup Guardians

Guardian == [phone : Phones, consent : BOOLEAN, archived : BOOLEAN]
NoGuardian == [phone |-> None, consent |-> FALSE, archived |-> FALSE]

Link == [primary : BOOLEAN, sms : BOOLEAN]
NoLink == [primary |-> FALSE, sms |-> None]

\* A field that a request leaves as it is.
Unset == None
Choice == BOOLEAN \cup {Unset}

\* gone: a link that the request has read was removed; overtaken: what it was
\* allowed by has changed since: the consent, or that a guardian is archived.
Request == [pc : {"insert", "update", "primary", "swap"}, pair : Pairs,
            current : Pairs \cup {None}, primary : Choice, sms : Choice,
            gone : BOOLEAN, overtaken : BOOLEAN]
Idle == [pc |-> "idle", pair |-> None, current |-> None, primary |-> Unset,
         sms |-> Unset, gone |-> FALSE, overtaken |-> FALSE]

Student(pair) == pair[1]
GuardianOf(pair) == pair[2]

Exists(g) == guardian[g] # NoGuardian
Linked(pair) == link[pair] # NoLink
PrimaryOf(s) == {pair \in {s} \X Guardians : link[pair].primary}

LinksInit ==
    /\ guardian = [g \in Guardians |-> NoGuardian]
    /\ link = [pair \in Pairs |-> NoLink]
    /\ req = [r \in Requests |-> Idle]
    /\ withdrawing = {}
    /\ lapsed = {}

Return(r) == req' = [req EXCEPT ![r] = Idle]
KeepLinks == UNCHANGED <<link, lapsed>>
KeepGuardians == UNCHANGED <<guardian, withdrawing>>
-----------------------------------------------------------------------------
(* GuardiansService.                                                       *)

\* @@unique([schoolId, phonePrimary]), on what was typed.
PhoneFree(g, phone) == \A h \in Guardians \ {g} : guardian[h].phone # phone

CreateGuardian(g, phone) ==
    /\ ~Exists(g) /\ PhoneFree(g, phone)
    /\ guardian' = [guardian EXCEPT ![g] = [phone |-> phone, consent |-> FALSE,
                                            archived |-> FALSE]]
    /\ UNCHANGED <<link, req, withdrawing, lapsed>>

UpdatePhone(g, phone) ==
    /\ Exists(g) /\ PhoneFree(g, phone)
    /\ guardian' = [guardian EXCEPT ![g].phone = phone]
    /\ UNCHANGED <<link, req, withdrawing, lapsed>>

\* The links stay as they are.
Archive(g) ==
    /\ Exists(g)
    /\ guardian' = [guardian EXCEPT ![g].archived = TRUE]
    /\ UNCHANGED <<link, req, withdrawing, lapsed>>

\* Whoever is displacing the guardian from a primary slot is overtaken.
Restore(g) ==
    /\ guardian[g].archived
    /\ guardian' = [guardian EXCEPT ![g].archived = FALSE]
    /\ req' = [r \in Requests |->
                 IF req[r].pc = "swap" /\ req[r].current # None
                    /\ GuardianOf(req[r].current) = g
                 THEN [req[r] EXCEPT !.overtaken = TRUE] ELSE req[r]]
    /\ UNCHANGED <<link, withdrawing, lapsed>>

Grant(g) ==
    /\ Exists(g)
    /\ guardian' = [guardian EXCEPT ![g].consent = TRUE]
    /\ UNCHANGED <<link, req, withdrawing, lapsed>>

\* revokeSmsConsent: the check is a read before the transaction.
WithdrawStart(g) ==
    /\ guardian[g].consent
    /\ withdrawing' = withdrawing \cup {g}
    /\ UNCHANGED <<guardian, link, req, lapsed>>

\* Mutant of Silenced: only the link to the first child is switched off.
SilencedPrimary(g) ==
    {pair \in Students \X {g} : Linked(pair) /\ link[pair].primary}

\* "Every link goes unreachable with them."
Silenced(g) == {pair \in Students \X {g} : Linked(pair)}

Withdraw(g) ==
    /\ g \in withdrawing
    /\ withdrawing' = withdrawing \ {g}
    /\ guardian' = [guardian EXCEPT ![g].consent = FALSE]
    /\ link' = [pair \in Pairs |->
                  IF pair \in Silenced(g) THEN [link[pair] EXCEPT !.sms = FALSE]
                  ELSE link[pair]]
    /\ lapsed' = lapsed \ Silenced(g)
    /\ req' = [r \in Requests |->
                 IF req[r].sms = TRUE /\ GuardianOf(req[r].pair) = g
                 THEN [req[r] EXCEPT !.overtaken = TRUE] ELSE req[r]]

WithdrawFails(g) ==
    /\ g \in withdrawing
    /\ withdrawing' = withdrawing \ {g}
    /\ UNCHANGED <<guardian, link, req, lapsed>>
-----------------------------------------------------------------------------
(* StudentGuardiansService.                                                *)

\* assertConsentAllowsSms: only a link that is set to receive SMS needs it.
ConsentAllowsSms(g, sms) == sms = TRUE => guardian[g].consent

\* link: the guardian is there, and its consent is read.
LinkStart(r, pair, primary, sms) ==
    /\ req[r] = Idle
    /\ Exists(GuardianOf(pair)) /\ ConsentAllowsSms(GuardianOf(pair), sms)
    /\ req' = [req EXCEPT ![r] =
                 [Idle EXCEPT !.pc = "insert", !.pair = pair,
                              !.primary = primary, !.sms = sms]]
    /\ KeepGuardians /\ KeepLinks

\* update: the link is read, and then the consent.
UpdateStart(r, pair, primary, sms) ==
    /\ req[r] = Idle
    /\ Linked(pair) /\ ConsentAllowsSms(GuardianOf(pair), sms)
    /\ req' = [req EXCEPT ![r] =
                 [Idle EXCEPT !.pc = "update", !.pair = pair,
                              !.primary = primary, !.sms = sms]]
    /\ KeepGuardians /\ KeepLinks

\* uq_one_primary_guardian_per_student.
PrimaryTaken(pair, primary) ==
    primary = TRUE /\ PrimaryOf(Student(pair)) \ {pair} # {}

\* Which link flags stand on a consent that is no longer there.
LapsedAfter(r) ==
    IF req[r].sms = Unset THEN lapsed
    ELSE IF req[r].sms /\ req[r].overtaken THEN lapsed \cup {req[r].pair}
    ELSE lapsed \ {req[r].pair}

InsertLink(r) ==
    /\ req[r].pc = "insert"
    /\ ~Linked(req[r].pair) /\ ~PrimaryTaken(req[r].pair, req[r].primary)
    /\ link' = [link EXCEPT ![req[r].pair] =
                  [primary |-> req[r].primary, sms |-> req[r].sms]]
    /\ lapsed' = LapsedAfter(r)
    /\ Return(r) /\ KeepGuardians

Chosen(choice, old) == IF choice = Unset THEN old ELSE choice

UpdateLink(r) ==
    LET pair == req[r].pair IN
    /\ req[r].pc = "update"
    /\ ~req[r].gone /\ ~PrimaryTaken(pair, req[r].primary)
    /\ link' = [link EXCEPT ![pair] =
                  [primary |-> Chosen(req[r].primary, link[pair].primary),
                   sms |-> Chosen(req[r].sms, link[pair].sms)]]
    /\ lapsed' = LapsedAfter(r)
    /\ Return(r) /\ KeepGuardians

\* setPrimary: the link is read.
SetPrimaryStart(r, pair) ==
    /\ req[r] = Idle
    /\ Linked(pair)
    /\ req' = [req EXCEPT ![r] = [Idle EXCEPT !.pc = "primary", !.pair = pair,
                                              !.primary = TRUE]]
    /\ KeepGuardians /\ KeepLinks

\* Mutant of SwapRead: whoever holds the slot is displaced.
SwapAnyone(r) ==
    LET others == PrimaryOf(Student(req[r].pair)) \ {req[r].pair} IN
    /\ req[r].pc = "primary"
    /\ req' = [req EXCEPT ![r].pc = "swap",
                          ![r].current = IF others = {} THEN None
                                         ELSE CHOOSE pair \in others : TRUE]
    /\ KeepGuardians /\ KeepLinks

\* In its transaction, the other primary link, whose guardian is archived (an
\* active one is a 409).  The link and its guardian are two reads of which the
\* second decides: they are one step.
SwapRead(r) ==
    LET others == PrimaryOf(Student(req[r].pair)) \ {req[r].pair} IN
    /\ req[r].pc = "primary"
    /\ \A pair \in others : guardian[GuardianOf(pair)].archived
    /\ req' = [req EXCEPT ![r].pc = "swap",
                          ![r].current = IF others = {} THEN None
                                         ELSE CHOOSE pair \in others : TRUE]
    /\ KeepGuardians /\ KeepLinks

\* The two updates of the transaction, both by id.
Swap(r) ==
    LET pair == req[r].pair
        demoted == {req[r].current} \ {None} IN
    /\ req[r].pc = "swap" /\ ~req[r].gone
    /\ PrimaryOf(Student(pair)) \subseteq demoted \cup {pair}
    /\ link' = [other \in Pairs |->
                  IF other = pair THEN [link[other] EXCEPT !.primary = TRUE]
                  ELSE IF other \in demoted
                  THEN [link[other] EXCEPT !.primary = FALSE]
                  ELSE link[other]]
    /\ Return(r) /\ KeepGuardians /\ UNCHANGED lapsed

\* A 409, a unique index, a link that is gone, or a statement that fails.
LinkFails(r) ==
    /\ req[r] # Idle
    /\ Return(r) /\ KeepGuardians /\ KeepLinks

Unlink(pair) ==
    /\ Linked(pair)
    /\ link' = [link EXCEPT ![pair] = NoLink]
    /\ lapsed' = lapsed \ {pair}
    /\ req' = [r \in Requests |->
                 IF req[r].pc # "insert" /\ pair \in {req[r].pair, req[r].current}
                 THEN [req[r] EXCEPT !.gone = TRUE] ELSE req[r]]
    /\ KeepGuardians
-----------------------------------------------------------------------------
LinkRequest(r) ==
    \/ \E pair \in Pairs, primary \in BOOLEAN, sms \in BOOLEAN :
         LinkStart(r, pair, primary, sms)
    \/ \E pair \in Pairs, primary \in Choice, sms \in Choice :
         UpdateStart(r, pair, primary, sms)
    \/ \E pair \in Pairs : SetPrimaryStart(r, pair)
    \/ InsertLink(r) \/ UpdateLink(r) \/ SwapRead(r) \/ Swap(r) \/ LinkFails(r)

LinksTypeOK ==
    /\ guardian \in [Guardians -> Guardian \cup {NoGuardian}]
    /\ link \in [Pairs -> Link \cup {NoLink}]
    /\ req \in [Requests -> Request \cup {Idle}]
    /\ withdrawing \subseteq Guardians
    /\ lapsed \subseteq Pairs

\* A link is set to receive SMS only while its guardian consents, or it was set
\* on a consent that was withdrawn between the read and the write: withdrawing
\* consent reaches every other link, of every child, also those of archived
\* guardians and those that are being made primary.
SmsHasConsent ==
    \A pair \in Pairs :
        link[pair].sms = TRUE
        => guardian[GuardianOf(pair)].consent \/ pair \in lapsed

\* What a request has read still stands, or the request is marked: the links
\* that it names are there, the guardian of the link that it switches on
\* consents, and the guardian that it displaces is archived.
LinksKnown ==
    \A r \in Requests : req[r] # Idle =>
        /\ req[r].pc = "insert" =>
             req[r].primary \in BOOLEAN /\ req[r].sms \in BOOLEAN
        /\ req[r].pc # "insert" /\ ~req[r].gone =>
             \A pair \in {req[r].pair, req[r].current} \ {None} : Linked(pair)
        /\ req[r].sms = TRUE =>
             guardian[GuardianOf(req[r].pair)].consent \/ req[r].overtaken
        /\ req[r].current # None =>
             /\ req[r].pc = "swap"
             /\ guardian[GuardianOf(req[r].current)].archived
                \/ req[r].overtaken

LinksInv == LinksTypeOK /\ LinksKnown /\ SmsHasConsent

\* Who is texted about a child is displaced only by name: an update that says
\* so, an unlink, or a swap that found the guardian archived, and then the
\* guardian is archived still or was restored while the swap was under way.
PrimaryKept ==
    [][\A pair \in Pairs :
         link[pair].primary /\ ~link'[pair].primary
         => \/ link'[pair] = NoLink
            \/ guardian[GuardianOf(pair)].archived
            \/ \E r \in Requests :
                 /\ req[r] # Idle /\ req'[r] = Idle
                 /\ \/ req[r].pair = pair /\ req[r].primary = FALSE
                    \/ req[r].current = pair /\ req[r].overtaken]_linkVars
=============================================================================
