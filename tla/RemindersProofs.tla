---------------------------- MODULE RemindersProofs ----------------------------
(***************************************************************************)
(* Theorems about Reminders and about the guardians, consents and links    *)
(* that it reads (GuardianLinks), for all values of their constants.       *)
(***************************************************************************)
EXTENDS Reminders, FiniteSetTheorems, TLAPS

\* The steps of GuardianLinks.
LinksMove ==
    \/ \E r \in Requests : LinkRequest(r)
    \/ \E g \in Guardians, phone \in Phones :
         CreateGuardian(g, phone) \/ UpdatePhone(g, phone)
    \/ \E g \in Guardians :
         Archive(g) \/ Restore(g) \/ Grant(g) \/ WithdrawStart(g)
         \/ WithdrawFails(g) \/ Withdraw(g)
    \/ \E pair \in Pairs : Unlink(pair)

LEMMA NextMoves == Next => LinksMove \/ UNCHANGED linkVars
<1> SUFFICES ASSUME Next
             PROVE  LinksMove \/ UNCHANGED linkVars
  OBVIOUS
<1>1. CASE LinkStep
  BY <1>1 DEF LinkStep, LinksMove
<1>2. CASE \E g \in Guardians : WithdrawConsent(g)
  BY <1>2 DEF WithdrawConsent, LinksMove
<1>3. CASE UNCHANGED linkVars
  BY <1>3
<1> QED
  BY <1>1, <1>2, <1>3
  DEF Next, Select, Resolve, Insert, CallFails, Dispatched, BatchFails, Claim,
      Record, PollerFails

LEMMA IdleTyped == Idle.pc = "idle" /\ Idle \notin Request
BY DEF Idle, Request

\* What is known of a request that is under way.
LEMMA UnderWay ==
    ASSUME LinksTypeOK, NEW r \in Requests, req[r] # Idle
    PROVE  /\ req[r] \in Request
           /\ req[r].pair \in Pairs /\ GuardianOf(req[r].pair) \in Guardians
           /\ Student(req[r].pair) \in Students
           /\ req[r].current \in Pairs \cup {None}
           /\ req[r].pc \in {"insert", "update", "primary", "swap"}
BY DEF LinksTypeOK, Request, Pairs, GuardianOf, Student

LEMMA LinkedTyped ==
    ASSUME LinksTypeOK, NEW pair \in Pairs
    PROVE  /\ Linked(pair) <=> link[pair] \in Link
           /\ link[pair].primary => Linked(pair)
           /\ link[pair].sms = TRUE => Linked(pair)
           /\ GuardianOf(pair) \in Guardians
<1>1. link[pair] \in Link \cup {NoLink} /\ NoLink \notin Link
  BY NullAssumption DEF LinksTypeOK, Link, NoLink
<1>2. ~NoLink.primary /\ NoLink.sms # TRUE
  BY NullAssumption DEF NoLink
<1>3. GuardianOf(pair) \in Guardians
  BY DEF Pairs, GuardianOf
<1> QED
  BY <1>1, <1>2, <1>3 DEF Linked

LEMMA PrimaryTyped ==
    ASSUME LinksTypeOK, NEW s \in Students, NEW pair \in PrimaryOf(s)
    PROVE  pair \in Pairs /\ Linked(pair)
BY LinkedTyped DEF PrimaryOf, Pairs
-----------------------------------------------------------------------------
LEMMA GuardiansTyped ==
    ASSUME LinksTypeOK, LinksMove
    PROVE  /\ guardian' \in [Guardians -> Guardian \cup {NoGuardian}]
           /\ withdrawing' \subseteq Guardians
<1> USE DEF LinksTypeOK
<1>1. ASSUME NEW g \in Guardians, Exists(g)
      PROVE  guardian[g] \in Guardian
  BY <1>1 DEF Exists
<1>2. ASSUME NEW g \in Guardians, NEW phone \in Phones,
             CreateGuardian(g, phone) \/ UpdatePhone(g, phone)
      PROVE  /\ guardian' \in [Guardians -> Guardian \cup {NoGuardian}]
             /\ withdrawing' \subseteq Guardians
  <2>1. CASE CreateGuardian(g, phone)
    <3>1. [phone |-> phone, consent |-> FALSE, archived |-> FALSE] \in Guardian
      BY DEF Guardian
    <3> QED
      BY <2>1, <3>1 DEF CreateGuardian
  <2>2. CASE UpdatePhone(g, phone)
    <3>1. [guardian[g] EXCEPT !.phone = phone] \in Guardian
      BY <1>1, <2>2 DEF UpdatePhone, Guardian
    <3> QED
      BY <2>2, <3>1 DEF UpdatePhone
  <2> QED
    BY <1>2, <2>1, <2>2
<1>3. ASSUME NEW g \in Guardians, Archive(g) \/ Restore(g)
      PROVE  /\ guardian' \in [Guardians -> Guardian \cup {NoGuardian}]
             /\ withdrawing' \subseteq Guardians
  <2>1. guardian[g] \in Guardian
    BY <1>1, <1>3 DEF Archive, Restore, NoGuardian
  <2>2. \A b \in BOOLEAN : [guardian[g] EXCEPT !.archived = b] \in Guardian
    BY <2>1 DEF Guardian
  <2> QED
    BY <1>3, <2>2 DEF Archive, Restore
<1>4. ASSUME NEW g \in Guardians, Grant(g) \/ Withdraw(g)
      PROVE  /\ guardian' \in [Guardians -> Guardian \cup {NoGuardian}]
             /\ withdrawing' \subseteq Guardians
  <2>1. CASE Grant(g)
    <3>1. [guardian[g] EXCEPT !.consent = TRUE] \in Guardian
      BY <1>1, <2>1 DEF Grant, Guardian
    <3> QED
      BY <2>1, <3>1 DEF Grant
  <2>2. CASE Withdraw(g)
    <3>1. [guardian[g] EXCEPT !.consent = FALSE] \in Guardian \cup {NoGuardian}
      <4>1. CASE guardian[g] \in Guardian
        BY <4>1 DEF Guardian
      <4>2. CASE guardian[g] = NoGuardian
        <5> DEFINE Rows == [phone : {None}, consent : BOOLEAN, archived : BOOLEAN]
        <5>1. \A x, y \in Rows : x.phone = y.phone /\ x.consent = y.consent
                                 /\ x.archived = y.archived => x = y
          OBVIOUS
        <5>2. /\ NoGuardian \in Rows /\ ~NoGuardian.consent
              /\ [NoGuardian EXCEPT !.consent = FALSE] \in Rows
          BY DEF NoGuardian
        <5> HIDE DEF Rows
        <5>3. ASSUME NEW x \in Rows, x = [NoGuardian EXCEPT !.consent = FALSE]
              PROVE  x = NoGuardian
          BY <5>1, <5>2, <5>3 DEF Rows
        <5> QED
          BY <4>2, <5>2, <5>3
      <4> QED
        BY <4>1, <4>2
    <3> QED
      BY <2>2, <3>1 DEF Withdraw
  <2> QED
    BY <1>4, <2>1, <2>2
<1>5. ASSUME NEW g \in Guardians, WithdrawStart(g) \/ WithdrawFails(g)
      PROVE  /\ guardian' \in [Guardians -> Guardian \cup {NoGuardian}]
             /\ withdrawing' \subseteq Guardians
  BY <1>5 DEF WithdrawStart, WithdrawFails
<1>6. CASE UNCHANGED <<guardian, withdrawing>>
  BY <1>6
<1> QED
  BY <1>2, <1>3, <1>4, <1>5, <1>6
  DEF LinksMove, LinkRequest, LinkStart, UpdateStart, SetPrimaryStart,
      InsertLink, UpdateLink, SwapRead, Swap, LinkFails, Unlink, KeepGuardians

\* A request that begins, and one that goes on with a mark.
LEMMA BegunTyped ==
    ASSUME NEW pc \in {"insert", "update", "primary"}, NEW pair \in Pairs,
           NEW primary \in Choice, NEW sms \in Choice
    PROVE  [Idle EXCEPT !.pc = pc, !.pair = pair, !.primary = primary,
                        !.sms = sms] \in Request
BY DEF Idle, Request, Unset

LEMMA RequestsTyped ==
    ASSUME LinksTypeOK, LinksMove
    PROVE  req' \in [Requests -> Request \cup {Idle}]
<1>1. req \in [Requests -> Request \cup {Idle}]
  BY DEF LinksTypeOK
<1>2. ASSUME NEW r \in Requests, Return(r)
      PROVE  req' \in [Requests -> Request \cup {Idle}]
  BY <1>1, <1>2 DEF Return
<1>3. ASSUME NEW r \in Requests, NEW pair \in Pairs,
             NEW primary \in Choice, NEW sms \in Choice,
             LinkStart(r, pair, primary, sms)
               \/ UpdateStart(r, pair, primary, sms)
      PROVE  req' \in [Requests -> Request \cup {Idle}]
  <2>1. PICK pc \in {"insert", "update", "primary"} :
          req' = [req EXCEPT ![r] =
                    [Idle EXCEPT !.pc = pc, !.pair = pair,
                                 !.primary = primary, !.sms = sms]]
    BY <1>3 DEF LinkStart, UpdateStart
  <2>2. [Idle EXCEPT !.pc = pc, !.pair = pair, !.primary = primary,
                     !.sms = sms] \in Request
    BY BegunTyped
  <2> QED
    BY <1>1, <2>1, <2>2
<1>4. ASSUME NEW r \in Requests, NEW pair \in Pairs, SetPrimaryStart(r, pair)
      PROVE  req' \in [Requests -> Request \cup {Idle}]
  <2>1. [Idle EXCEPT !.pc = "primary", !.pair = pair, !.primary = TRUE]
          \in Request
    BY DEF Idle, Request, Choice, Unset
  <2> QED
    BY <1>1, <1>4, <2>1 DEF SetPrimaryStart
<1>5. ASSUME NEW r \in Requests, SwapRead(r)
      PROVE  req' \in [Requests -> Request \cup {Idle}]
  <2> DEFINE others == PrimaryOf(Student(req[r].pair)) \ {req[r].pair}
             found == IF others = {} THEN None ELSE CHOOSE pair \in others : TRUE
  <2>1. req[r] # Idle
    BY <1>5, IdleTyped DEF SwapRead
  <2>2. req[r] \in Request /\ Student(req[r].pair) \in Students
    BY <2>1, UnderWay
  <2>3. found \in Pairs \cup {None}
    BY <2>2, PrimaryTyped
  <2>4. req' = [req EXCEPT ![r].pc = "swap", ![r].current = found]
    BY <1>5 DEF SwapRead
  <2> HIDE DEF found
  <2>5. [req[r] EXCEPT !.pc = "swap", !.current = found] \in Request
    BY <2>2, <2>3 DEF Request
  <2> QED
    BY <1>1, <2>4, <2>5
<1>6. ASSUME NEW S \in SUBSET Requests, \A r \in S : req[r] # Idle,
             req' = [r \in Requests |-> IF r \in S
                                        THEN [req[r] EXCEPT !.overtaken = TRUE]
                                        ELSE req[r]]
      PROVE  req' \in [Requests -> Request \cup {Idle}]
  <2>1. \A r \in S : [req[r] EXCEPT !.overtaken = TRUE] \in Request
    BY <1>1, <1>6 DEF Request
  <2> QED
    BY <1>1, <1>6, <2>1
<1>7. ASSUME NEW g \in Guardians, Restore(g) \/ Withdraw(g)
      PROVE  req' \in [Requests -> Request \cup {Idle}]
  <2>1. CASE Restore(g)
    <3> DEFINE S == {r \in Requests : req[r].pc = "swap" /\ req[r].current # None
                                      /\ GuardianOf(req[r].current) = g}
    <3>1. \A r \in S : req[r] # Idle
      BY IdleTyped
    <3>2. req' = [r \in Requests |-> IF r \in S
                                     THEN [req[r] EXCEPT !.overtaken = TRUE]
                                     ELSE req[r]]
      BY <2>1 DEF Restore
    <3> HIDE DEF S
    <3>3. S \in SUBSET Requests
      BY DEF S
    <3> QED
      BY <1>6, <3>1, <3>2, <3>3
  <2>2. CASE Withdraw(g)
    <3> DEFINE S == {r \in Requests : req[r].sms = TRUE
                                      /\ GuardianOf(req[r].pair) = g}
    <3>1. \A r \in S : req[r] # Idle
      <4>1. Idle.sms # TRUE
        BY NullAssumption DEF Idle, Unset
      <4> QED
        BY <4>1
    <3>2. req' = [r \in Requests |-> IF r \in S
                                     THEN [req[r] EXCEPT !.overtaken = TRUE]
                                     ELSE req[r]]
      BY <2>2 DEF Withdraw
    <3>3. S \in SUBSET Requests
      OBVIOUS
    <3> HIDE DEF S
    <3> QED
      BY <1>6, <3>1, <3>2, <3>3
  <2> QED
    BY <1>7, <2>1, <2>2
<1>8. ASSUME NEW pair \in Pairs, Unlink(pair)
      PROVE  req' \in [Requests -> Request \cup {Idle}]
  <2>1. \A r \in Requests :
          pair \in {req[r].pair, req[r].current} => req[r] \in Request
    BY <1>1, NullAssumption DEF Idle
  <2>2. \A r \in Requests :
          req[r] \in Request => [req[r] EXCEPT !.gone = TRUE] \in Request
    BY DEF Request
  <2> QED
    BY <1>1, <1>8, <2>1, <2>2 DEF Unlink
<1>9. CASE UNCHANGED req
  BY <1>1, <1>9
<1> QED
  BY <1>2, <1>3, <1>4, <1>5, <1>7, <1>8, <1>9
  DEF LinksMove, LinkRequest, InsertLink, UpdateLink, Swap, LinkFails,
      CreateGuardian, UpdatePhone, Archive, Grant, WithdrawStart,
      WithdrawFails, Choice

LEMMA LinkWrites ==
    ASSUME LinksInv, NEW r \in Requests,
           InsertLink(r) \/ UpdateLink(r) \/ Swap(r)
    PROVE  /\ link' \in [Pairs -> Link \cup {NoLink}]
           /\ lapsed' \subseteq Pairs
           /\ \A pair \in Pairs : Linked(pair) => Linked(pair)'
<1> DEFINE pair == req[r].pair
<1>1. req[r] # Idle
  BY IdleTyped DEF InsertLink, UpdateLink, Swap
<1>2. /\ req[r] \in Request /\ pair \in Pairs /\ Student(pair) \in Students
      /\ req[r].current \in Pairs \cup {None}
      /\ req[r].primary \in BOOLEAN \cup {None}
      /\ req[r].sms \in BOOLEAN \cup {None}
  BY <1>1, UnderWay DEF LinksInv, Request, Choice, Unset
<1>3. link \in [Pairs -> Link \cup {NoLink}] /\ lapsed \subseteq Pairs
  BY DEF LinksInv, LinksTypeOK
<1>4. NoLink \notin Link
  BY NullAssumption DEF Link, NoLink
<1>5. LapsedAfter(r) \subseteq Pairs
  BY <1>2, <1>3 DEF LapsedAfter
<1>6. CASE InsertLink(r)
  <2>1. [primary |-> req[r].primary, sms |-> req[r].sms] \in Link
    BY <1>1, <1>6 DEF LinksInv, LinksKnown, InsertLink, Link
  <2>2. link' = [link EXCEPT ![pair] = [primary |-> req[r].primary,
                                        sms |-> req[r].sms]]
    BY <1>6 DEF InsertLink
  <2> QED
    BY <1>2, <1>3, <1>4, <1>5, <1>6, <2>1, <2>2 DEF InsertLink, Linked
<1>7. CASE UpdateLink(r)
  <2>1. Linked(pair)
    BY <1>1, <1>2, <1>7, NullAssumption DEF LinksInv, LinksKnown, UpdateLink
  <2>2. link[pair] \in Link
    BY <1>2, <2>1, LinkedTyped DEF LinksInv
  <2> DEFINE new == [primary |-> Chosen(req[r].primary, link[pair].primary),
                     sms |-> Chosen(req[r].sms, link[pair].sms)]
  <2>3. new \in Link
    BY <1>2, <2>2, NullAssumption DEF Link, Chosen, Unset
  <2>4. link' = [link EXCEPT ![pair] = new]
    BY <1>7 DEF UpdateLink
  <2> HIDE DEF new
  <2> QED
    BY <1>2, <1>3, <1>4, <1>5, <1>7, <2>3, <2>4 DEF UpdateLink, Linked
<1>8. CASE Swap(r)
  <2>1. ASSUME NEW other \in Pairs, other \in {pair, req[r].current}
        PROVE  link[other] \in Link
    BY <1>1, <1>8, <2>1, NullAssumption, LinkedTyped
    DEF LinksInv, LinksKnown, Swap
  <2>2. \A other \in Pairs, b \in BOOLEAN :
          link[other] \in Link => [link[other] EXCEPT !.primary = b] \in Link
    BY DEF Link
  <2>3. ASSUME NEW other \in Pairs
        PROVE  /\ link'[other] \in Link \cup {NoLink}
               /\ link[other] \in Link => link'[other] \in Link
    BY <1>3, <1>8, <2>1, <2>2 DEF Swap
  <2>4. link' = [other \in Pairs |-> link'[other]]
    BY <1>8 DEF Swap
  <2>5. link' \in [Pairs -> Link \cup {NoLink}]
    BY <2>3, <2>4
  <2>6. \A other \in Pairs : Linked(other) => Linked(other)'
    BY <1>3, <1>4, <2>3 DEF Linked
  <2> QED
    BY <1>3, <1>8, <2>5, <2>6 DEF Swap
<1> QED
  BY <1>6, <1>7, <1>8

\* No request unlinks; an insert does not either.
LEMMA LinkRequestWrites ==
    ASSUME LinksInv, NEW r \in Requests, LinkRequest(r)
    PROVE  /\ link' \in [Pairs -> Link \cup {NoLink}]
           /\ lapsed' \subseteq Pairs
           /\ \A pair \in Pairs : Linked(pair) => Linked(pair)'
           /\ UNCHANGED <<guardian, withdrawing>>
<1>1. CASE InsertLink(r) \/ UpdateLink(r) \/ Swap(r)
  BY <1>1, LinkWrites DEF InsertLink, UpdateLink, Swap, KeepGuardians
<1>2. ASSUME KeepGuardians, KeepLinks
      PROVE  /\ link' \in [Pairs -> Link \cup {NoLink}]
             /\ lapsed' \subseteq Pairs
             /\ \A pair \in Pairs : Linked(pair) => Linked(pair)'
             /\ UNCHANGED <<guardian, withdrawing>>
  BY <1>2 DEF KeepGuardians, KeepLinks, LinksInv, LinksTypeOK, Linked
<1> QED
  BY <1>1, <1>2
  DEF LinkRequest, LinkStart, UpdateStart, SetPrimaryStart, SwapRead, LinkFails

LEMMA LinksTyped ==
    ASSUME LinksInv, LinksMove
    PROVE  LinksTypeOK'
<1>1. /\ link \in [Pairs -> Link \cup {NoLink}] /\ lapsed \subseteq Pairs
      /\ LinksTypeOK
  BY DEF LinksInv, LinksTypeOK
<1>2. ASSUME NEW r \in Requests, LinkRequest(r)
      PROVE  link' \in [Pairs -> Link \cup {NoLink}] /\ lapsed' \subseteq Pairs
  BY <1>2, LinkRequestWrites
<1>3. ASSUME NEW g \in Guardians, Withdraw(g)
      PROVE  link' \in [Pairs -> Link \cup {NoLink}] /\ lapsed' \subseteq Pairs
  <2>1. \A pair \in Silenced(g) : pair \in Pairs /\ link[pair] \in Link
    BY <1>1, LinkedTyped DEF Silenced, Pairs
  <2>2. \A pair \in Silenced(g) : [link[pair] EXCEPT !.sms = FALSE] \in Link
    BY <2>1 DEF Link
  <2> QED
    BY <1>1, <1>3, <2>2 DEF Withdraw
<1>4. ASSUME NEW pair \in Pairs, Unlink(pair)
      PROVE  link' \in [Pairs -> Link \cup {NoLink}] /\ lapsed' \subseteq Pairs
  BY <1>1, <1>4 DEF Unlink
<1>5. ASSUME UNCHANGED <<link, lapsed>>
      PROVE  link' \in [Pairs -> Link \cup {NoLink}] /\ lapsed' \subseteq Pairs
  BY <1>1, <1>5
<1>6. link' \in [Pairs -> Link \cup {NoLink}] /\ lapsed' \subseteq Pairs
  BY <1>2, <1>3, <1>4, <1>5
  DEF LinksMove, CreateGuardian, UpdatePhone, Archive, Restore, Grant,
      WithdrawStart, WithdrawFails
<1>7. /\ guardian' \in [Guardians -> Guardian \cup {NoGuardian}]
      /\ withdrawing' \subseteq Guardians
      /\ req' \in [Requests -> Request \cup {Idle}]
  BY <1>1, GuardiansTyped, RequestsTyped
<1> QED
  BY <1>6, <1>7 DEF LinksTypeOK
-----------------------------------------------------------------------------
\* Consent is lost only by a withdrawal, and an archived guardian comes back
\* only by a restore.
LEMMA GuardiansMove ==
    ASSUME LinksInv, LinksMove, NEW g \in Guardians
    PROVE  /\ guardian[g].consent /\ ~guardian'[g].consent => Withdraw(g)
           /\ guardian[g].archived /\ ~guardian'[g].archived => Restore(g)
<1>1. guardian \in [Guardians -> Guardian \cup {NoGuardian}]
  BY DEF LinksInv, LinksTypeOK
<1>2. ~NoGuardian.consent /\ ~NoGuardian.archived
  BY DEF NoGuardian
<1>3. ASSUME NEW h \in Guardians, NEW phone \in Phones, CreateGuardian(h, phone)
      PROVE  guardian[g].consent \/ guardian[g].archived => UNCHANGED guardian[g]
  BY <1>1, <1>2, <1>3 DEF CreateGuardian, Exists
<1>4. ASSUME NEW h \in Guardians, NEW phone \in Phones, UpdatePhone(h, phone)
      PROVE  /\ guardian'[g].consent = guardian[g].consent
             /\ guardian'[g].archived = guardian[g].archived
  BY <1>1, <1>4 DEF UpdatePhone, Exists, Guardian
<1>5. ASSUME NEW h \in Guardians, Archive(h)
      PROVE  /\ guardian'[g].consent = guardian[g].consent
             /\ guardian[g].archived => guardian'[g].archived
  BY <1>1, <1>5 DEF Archive, Exists, Guardian
<1>6. ASSUME NEW h \in Guardians, Restore(h)
      PROVE  /\ guardian'[g].consent = guardian[g].consent
             /\ g # h => guardian'[g].archived = guardian[g].archived
  <2>1. guardian[h] \in Guardian
    BY <1>1, <1>2, <1>6 DEF Restore
  <2> QED
    BY <1>1, <1>6, <2>1 DEF Restore, Guardian
<1>7. ASSUME NEW h \in Guardians, Grant(h)
      PROVE  /\ guardian[g].consent => guardian'[g].consent
             /\ guardian'[g].archived = guardian[g].archived
  BY <1>1, <1>7 DEF Grant, Exists, Guardian
<1>8. ASSUME NEW h \in Guardians, Withdraw(h)
      PROVE  /\ g # h => guardian'[g].consent = guardian[g].consent
             /\ guardian'[g].archived = guardian[g].archived
  <2>1. guardian' = [guardian EXCEPT ![h].consent = FALSE]
    BY <1>8 DEF Withdraw
  <2>2. [guardian[h] EXCEPT !.consent = FALSE].archived = guardian[h].archived
    BY <1>1 DEF Guardian, NoGuardian
  <2> QED
    BY <1>1, <2>1, <2>2
<1>9. CASE UNCHANGED guardian
  BY <1>9
<1> QED
  BY <1>3, <1>4, <1>5, <1>6, <1>7, <1>8, <1>9
  DEF LinksMove, LinkRequest, LinkStart, UpdateStart, SetPrimaryStart,
      InsertLink, UpdateLink, SwapRead, Swap, LinkFails, Unlink,
      WithdrawStart, WithdrawFails, KeepGuardians

\* What LinksKnown says of one request.
KnownReq(r) ==
    /\ req[r].pc = "insert" =>
         req[r].primary \in BOOLEAN /\ req[r].sms \in BOOLEAN
    /\ req[r].pc # "insert" /\ ~req[r].gone =>
         \A pair \in {req[r].pair, req[r].current} \ {None} : Linked(pair)
    /\ req[r].sms = TRUE =>
         guardian[GuardianOf(req[r].pair)].consent \/ req[r].overtaken
    /\ req[r].current # None =>
         /\ req[r].pc = "swap"
         /\ guardian[GuardianOf(req[r].current)].archived
            \/ req[r].overtaken

\* A request in a step that it does not make.
LEMMA KnownElsewhere ==
    ASSUME LinksInv, LinksMove, NEW r \in Requests, req[r] # Idle,
           \/ req'[r] = req[r]
           \/ req'[r] = [req[r] EXCEPT !.overtaken = TRUE]
           \/ req'[r] = [req[r] EXCEPT !.gone = TRUE]
    PROVE  /\ req'[r].pc = req[r].pc /\ req'[r].pair = req[r].pair
           /\ req'[r].current = req[r].current /\ req'[r].sms = req[r].sms
           /\ req'[r].primary = req[r].primary
           /\ req[r].overtaken => req'[r].overtaken
           /\ req[r].gone => req'[r].gone
<1>1. req[r] \in Request
  BY UnderWay DEF LinksInv
<1> QED
  BY <1>1 DEF Request

LEMMA OthersStay ==
    ASSUME LinksInv, NEW q \in Requests, LinkRequest(q), NEW r \in Requests,
           r # q
    PROVE  req'[r] = req[r]
BY DEF LinkRequest, LinkStart, UpdateStart, SetPrimaryStart, InsertLink,
       UpdateLink, SwapRead, Swap, LinkFails, Return, LinksInv, LinksTypeOK

\* The links that a request under way has read, after a step.
LEMMA LinksStay ==
    ASSUME LinksInv, LinksMove, NEW pair \in Pairs, Linked(pair),
           ~Linked(pair)'
    PROVE  Unlink(pair)
<1>1. link \in [Pairs -> Link \cup {NoLink}] /\ NoLink \notin Link
  BY NullAssumption DEF LinksInv, LinksTypeOK, Link, NoLink
<1>2. ASSUME NEW g \in Guardians, Withdraw(g)
      PROVE  FALSE
  <2>1. link[pair] \in Link /\ link'[pair] = NoLink
    BY <1>1 DEF Linked
  <2>2. [link[pair] EXCEPT !.sms = FALSE] \in Link
    BY <2>1 DEF Link
  <2> QED
    BY <1>1, <1>2, <2>1, <2>2 DEF Withdraw
<1>3. ASSUME NEW other \in Pairs, Unlink(other)
      PROVE  other = pair
  BY <1>1, <1>3 DEF Unlink, Linked
<1>4. ~UNCHANGED link
  BY DEF Linked
<1> QED
  BY <1>2, <1>3, <1>4, LinkRequestWrites
  DEF LinksMove, CreateGuardian, UpdatePhone, Archive, Restore, Grant,
      WithdrawStart, WithdrawFails

\* A request keeps what it knows, or is marked.
LEMMA KnownKept ==
    ASSUME LinksInv, LinksMove, NEW r \in Requests, req[r] # Idle,
           \/ req'[r] = req[r]
           \/ req'[r] = [req[r] EXCEPT !.overtaken = TRUE]
           \/ req'[r] = [req[r] EXCEPT !.gone = TRUE],
           \A g \in Guardians :
             /\ Withdraw(g) /\ req[r].sms = TRUE
                  /\ GuardianOf(req[r].pair) = g => req'[r].overtaken
             /\ Restore(g) /\ req[r].current # None /\ req[r].pc = "swap"
                  /\ GuardianOf(req[r].current) = g => req'[r].overtaken,
           \A pair \in Pairs :
             Unlink(pair) /\ req[r].pc # "insert"
               /\ pair \in {req[r].pair, req[r].current} => req'[r].gone
    PROVE  KnownReq(r)'
<1>1. KnownReq(r)
  BY DEF LinksInv, LinksKnown, KnownReq
<1>2. /\ req[r].pair \in Pairs /\ GuardianOf(req[r].pair) \in Guardians
      /\ req[r].current \in Pairs \cup {None}
  BY UnderWay DEF LinksInv
<1>3. /\ req'[r].pc = req[r].pc /\ req'[r].pair = req[r].pair
      /\ req'[r].current = req[r].current /\ req'[r].sms = req[r].sms
      /\ req'[r].primary = req[r].primary
      /\ req[r].overtaken => req'[r].overtaken
      /\ req[r].gone => req'[r].gone
  BY KnownElsewhere
<1>4. ASSUME req[r].pc # "insert", ~req'[r].gone,
             NEW pair \in {req[r].pair, req[r].current} \ {None}
      PROVE  Linked(pair)'
  <2>1. pair \in Pairs /\ Linked(pair)
    BY <1>1, <1>2, <1>3, <1>4 DEF KnownReq
  <2> QED
    BY <1>4, <2>1, LinksStay
<1>5. ASSUME req[r].sms = TRUE, ~req'[r].overtaken,
             NEW g \in Guardians, g = GuardianOf(req[r].pair)
      PROVE  guardian'[g].consent
  BY <1>1, <1>3, <1>5, GuardiansMove DEF KnownReq
<1>6. ASSUME req[r].current # None, ~req'[r].overtaken,
             NEW g \in Guardians, g = GuardianOf(req[r].current)
      PROVE  guardian'[g].archived
  BY <1>1, <1>3, <1>6, GuardiansMove DEF KnownReq
<1>7. req[r].current # None => GuardianOf(req[r].current) \in Guardians
  BY <1>2 DEF Pairs, GuardianOf
<1>8. req[r].sms = TRUE =>
        guardian'[GuardianOf(req[r].pair)].consent \/ req'[r].overtaken
  BY <1>2, <1>5
<1>9. req[r].current # None =>
        /\ req[r].pc = "swap"
        /\ guardian'[GuardianOf(req[r].current)].archived \/ req'[r].overtaken
  BY <1>1, <1>6, <1>7 DEF KnownReq
<1> QED
  BY <1>1, <1>3, <1>4, <1>8, <1>9 DEF KnownReq

\* A request that begins, or that reads whom it is to displace.
LEMMA KnownBegin ==
    ASSUME LinksInv, NEW r \in Requests, LinkRequest(r), req'[r] # Idle
    PROVE  KnownReq(r)'
<1>1. req \in [Requests -> Request \cup {Idle}]
  BY DEF LinksInv, LinksTypeOK
<1>2. ASSUME NEW pair \in Pairs, NEW primary \in Choice, NEW sms \in Choice,
             LinkStart(r, pair, primary, sms), primary \in BOOLEAN, sms \in BOOLEAN
      PROVE  KnownReq(r)'
  <2>1. /\ req'[r].pc = "insert" /\ req'[r].pair = pair
        /\ req'[r].primary = primary /\ req'[r].sms = sms
        /\ req'[r].current = None
    BY <1>1, <1>2 DEF LinkStart, Idle
  <2>2. sms = TRUE => guardian'[GuardianOf(pair)].consent
    BY <1>2 DEF LinkStart, ConsentAllowsSms, KeepGuardians
  <2> QED
    BY <1>2, <2>1, <2>2 DEF KnownReq
<1>3. ASSUME NEW pair \in Pairs, NEW primary \in Choice, NEW sms \in Choice,
             UpdateStart(r, pair, primary, sms)
      PROVE  KnownReq(r)'
  <2>1. /\ req'[r].pc = "update" /\ req'[r].pair = pair
        /\ req'[r].sms = sms /\ req'[r].current = None
    BY <1>1, <1>3 DEF UpdateStart, Idle
  <2>2. /\ sms = TRUE => guardian'[GuardianOf(pair)].consent
        /\ Linked(pair)'
    BY <1>3 DEF UpdateStart, ConsentAllowsSms, KeepGuardians, KeepLinks, Linked
  <2> QED
    BY <1>3, <2>1, <2>2 DEF KnownReq
<1>4. ASSUME NEW pair \in Pairs, SetPrimaryStart(r, pair)
      PROVE  KnownReq(r)'
  <2>1. /\ req'[r].pc = "primary" /\ req'[r].pair = pair
        /\ req'[r].sms = None /\ req'[r].current = None
    BY <1>1, <1>4 DEF SetPrimaryStart, Idle, Unset
  <2>2. Linked(pair)'
    BY <1>4 DEF SetPrimaryStart, KeepLinks, Linked
  <2> QED
    BY <1>4, <2>1, <2>2, NullAssumption DEF KnownReq
<1>5. CASE SwapRead(r)
  <2> DEFINE others == PrimaryOf(Student(req[r].pair)) \ {req[r].pair}
  <2>1. req[r] # Idle /\ req[r].pc = "primary"
    BY <1>5, IdleTyped DEF SwapRead
  <2>2. req[r] \in Request /\ Student(req[r].pair) \in Students
    BY <2>1, UnderWay DEF LinksInv
  <2>3. PICK found \in others \cup {None} :
          req' = [req EXCEPT ![r].pc = "swap", ![r].current = found]
    BY <1>5 DEF SwapRead
  <2>4. /\ found # None =>
             Linked(found) /\ guardian[GuardianOf(found)].archived
        /\ UNCHANGED <<guardian, link>>
    BY <1>5, <2>2, PrimaryTyped
    DEF SwapRead, LinksInv, KeepGuardians, KeepLinks
  <2>5. /\ req'[r].pc = "swap" /\ req'[r].current = found
        /\ req'[r].pair = req[r].pair /\ req'[r].sms = req[r].sms
        /\ req'[r].gone = req[r].gone /\ req'[r].overtaken = req[r].overtaken
    BY <1>1, <2>2, <2>3 DEF Request
  <2>6. KnownReq(r)
    BY <2>1 DEF LinksInv, LinksKnown, KnownReq
  <2>7. req[r].gone \/ req[r].pair = None \/ Linked(req[r].pair)
    BY <2>1, <2>6 DEF KnownReq
  <2>8. /\ found # None =>
             Linked(found)' /\ guardian'[GuardianOf(found)].archived
        /\ req[r].gone \/ req[r].pair = None \/ link'[req[r].pair] # NoLink
    BY <2>4, <2>7 DEF Linked
  <2>9. req[r].sms = TRUE =>
          guardian'[GuardianOf(req[r].pair)].consent \/ req[r].overtaken
    BY <2>4, <2>6 DEF KnownReq
  <2> QED
    BY <2>5, <2>8, <2>9 DEF KnownReq, Linked
<1>6. ASSUME Return(r)
      PROVE  FALSE
  BY <1>1, <1>6 DEF Return
<1> QED
  BY <1>2, <1>3, <1>4, <1>5, <1>6
  DEF LinkRequest, InsertLink, UpdateLink, Swap, LinkFails, Choice

LEMMA RequestsKnow ==
    ASSUME LinksInv, LinksMove
    PROVE  LinksKnown'
<1>1. req \in [Requests -> Request \cup {Idle}]
  BY DEF LinksInv, LinksTypeOK
<1>2. ASSUME NEW r \in Requests, req'[r] # Idle, req[r] = Idle
      PROVE  LinkRequest(r)
  <2>1. \A q \in Requests : LinkRequest(q) => q = r
    BY <1>2, OthersStay
  <2>2. /\ Idle.pc # "swap" /\ Idle.sms # TRUE
        /\ Idle.pair = None /\ Idle.current = None
    BY NullAssumption DEF Idle, Unset
  <2>3. \A g \in Guardians : ~Restore(g) /\ ~Withdraw(g)
    BY <1>2, <2>2 DEF Restore, Withdraw
  <2>4. \A pair \in Pairs : ~Unlink(pair)
    BY <1>2, <2>2, NullAssumption DEF Unlink
  <2> QED
    BY <1>2, <2>1, <2>3, <2>4
    DEF LinksMove, CreateGuardian, UpdatePhone, Archive, Grant, WithdrawStart,
        WithdrawFails
<1>3. ASSUME NEW r \in Requests, req'[r] # Idle
      PROVE  KnownReq(r)'
  <2>1. CASE LinkRequest(r)
    BY <1>3, <2>1, KnownBegin
  <2>2. ASSUME ~LinkRequest(r)
        PROVE  KnownReq(r)'
    <3>1. req[r] # Idle
      BY <1>2, <1>3, <2>2
    <3>2. \/ req'[r] = req[r]
          \/ req'[r] = [req[r] EXCEPT !.overtaken = TRUE]
          \/ req'[r] = [req[r] EXCEPT !.gone = TRUE]
      BY <2>2, OthersStay
      DEF LinksMove, CreateGuardian, UpdatePhone, Archive, Restore, Grant,
          WithdrawStart, WithdrawFails, Withdraw, Unlink
    <3>3. req[r] \in Request
      BY <1>1, <3>1
    <3>4. ASSUME NEW g \in Guardians
          PROVE  /\ Withdraw(g) /\ req[r].sms = TRUE
                      /\ GuardianOf(req[r].pair) = g => req'[r].overtaken
                 /\ Restore(g) /\ req[r].current # None /\ req[r].pc = "swap"
                      /\ GuardianOf(req[r].current) = g => req'[r].overtaken
      BY <3>3 DEF Withdraw, Restore, Request
    <3>5. ASSUME NEW pair \in Pairs
          PROVE  Unlink(pair) /\ req[r].pc # "insert"
                   /\ pair \in {req[r].pair, req[r].current} => req'[r].gone
      BY <3>3 DEF Unlink, Request
    <3> QED
      BY <3>1, <3>2, <3>4, <3>5, KnownKept
  <2> QED
    BY <2>1, <2>2
<1> QED
  BY <1>3 DEF LinksKnown, KnownReq
-----------------------------------------------------------------------------
\* A link that is switched on by a request whose mark says nothing.
LEMMA SmsWritten ==
    ASSUME LinksInv, NEW r \in Requests,
           InsertLink(r) \/ UpdateLink(r) \/ Swap(r),
           NEW pair \in Pairs, link'[pair].sms = TRUE
    PROVE  guardian[GuardianOf(pair)].consent \/ pair \in lapsed'
<1>1. /\ req[r] # Idle /\ req[r] \in Request
      /\ req[r].pair \in Pairs
  BY IdleTyped, UnderWay DEF InsertLink, UpdateLink, Swap, LinksInv
<1>2. link \in [Pairs -> Link \cup {NoLink}]
  BY DEF LinksInv, LinksTypeOK
<1>3. link[pair].sms = TRUE =>
        guardian[GuardianOf(pair)].consent \/ pair \in lapsed
  BY DEF LinksInv, SmsHasConsent
<1>4. req[r].sms = TRUE =>
        guardian[GuardianOf(req[r].pair)].consent \/ req[r].overtaken
  BY <1>1 DEF LinksInv, LinksKnown
<1>5. CASE InsertLink(r)
  <2>1. link'[pair] = IF pair = req[r].pair
                      THEN [primary |-> req[r].primary, sms |-> req[r].sms]
                      ELSE link[pair]
    BY <1>1, <1>2, <1>5 DEF InsertLink
  <2>2. CASE pair = req[r].pair
    <3>1. req[r].sms = TRUE
      BY <2>1, <2>2
    <3> QED
      BY <1>4, <1>5, <2>2, <3>1, NullAssumption
      DEF InsertLink, LapsedAfter, Unset
  <2>3. CASE pair # req[r].pair
    BY <1>3, <1>5, <2>1, <2>3 DEF InsertLink, LapsedAfter
  <2> QED
    BY <2>2, <2>3
<1>6. CASE UpdateLink(r)
  <2>1. link'[pair] = IF pair = req[r].pair
                      THEN [primary |-> Chosen(req[r].primary, link[pair].primary),
                            sms |-> Chosen(req[r].sms, link[pair].sms)]
                      ELSE link[pair]
    BY <1>1, <1>2, <1>6 DEF UpdateLink
  <2>2. CASE pair = req[r].pair /\ req[r].sms # Unset
    <3>1. req[r].sms = TRUE
      BY <2>1, <2>2 DEF Chosen
    <3> QED
      BY <1>4, <1>6, <2>2, <3>1 DEF UpdateLink, LapsedAfter
  <2>3. CASE pair = req[r].pair /\ req[r].sms = Unset
    <3>1. link[pair].sms = TRUE
      BY <2>1, <2>3 DEF Chosen
    <3> QED
      BY <1>3, <1>6, <2>3, <3>1 DEF UpdateLink, LapsedAfter
  <2>4. CASE pair # req[r].pair
    BY <1>3, <1>6, <2>1, <2>4 DEF UpdateLink, LapsedAfter
  <2> QED
    BY <2>2, <2>3, <2>4
<1>7. CASE Swap(r)
  <2>1. link'[pair].sms = link[pair].sms
    <3>1. \A b \in BOOLEAN :
            [link[pair] EXCEPT !.primary = b].sms = link[pair].sms
      BY <1>2 DEF Link, NoLink
    <3> QED
      BY <1>7, <3>1 DEF Swap
  <2> QED
    BY <1>3, <1>7, <2>1 DEF Swap
<1> QED
  BY <1>5, <1>6, <1>7

LEMMA ConsentStep ==
    ASSUME LinksInv, LinksMove
    PROVE  SmsHasConsent'
<1> SUFFICES ASSUME NEW pair \in Pairs, link'[pair].sms = TRUE
             PROVE  guardian'[GuardianOf(pair)].consent \/ pair \in lapsed'
  BY DEF SmsHasConsent
<1>1. link \in [Pairs -> Link \cup {NoLink}]
  BY DEF LinksInv, LinksTypeOK
<1>2. GuardianOf(pair) \in Guardians
  BY LinkedTyped DEF LinksInv
<1>3. link[pair].sms = TRUE =>
        guardian[GuardianOf(pair)].consent \/ pair \in lapsed
  BY DEF LinksInv, SmsHasConsent
<1>4. ASSUME NEW r \in Requests, InsertLink(r) \/ UpdateLink(r) \/ Swap(r)
      PROVE  guardian'[GuardianOf(pair)].consent \/ pair \in lapsed'
  <2>1. UNCHANGED guardian
    BY <1>4 DEF InsertLink, UpdateLink, Swap, KeepGuardians
  <2> QED
    BY <1>4, <2>1, SmsWritten
<1>5. ASSUME NEW g \in Guardians, Withdraw(g)
      PROVE  guardian'[GuardianOf(pair)].consent \/ pair \in lapsed'
  <2>1. pair \notin Silenced(g)
    <3>1. ASSUME pair \in Silenced(g)
          PROVE  link'[pair].sms = FALSE
      <4>1. link[pair] \in Link
        BY <3>1, LinkedTyped DEF LinksInv, Silenced
      <4> QED
        BY <1>5, <3>1, <4>1 DEF Withdraw, Link
    <3> QED
      BY <3>1
  <2>2. link'[pair] = link[pair] /\ (pair \in lapsed => pair \in lapsed')
    BY <1>5, <2>1 DEF Withdraw
  <2>3. Linked(pair)
    BY <2>2, LinkedTyped DEF LinksInv
  <2>4. GuardianOf(pair) # g
    BY <2>1, <2>3 DEF Silenced, Pairs, GuardianOf
  <2>5. guardian'[GuardianOf(pair)] = guardian[GuardianOf(pair)]
    BY <1>2, <1>5, <2>4 DEF Withdraw, LinksInv, LinksTypeOK
  <2> QED
    BY <1>3, <2>2, <2>5
<1>6. ASSUME NEW other \in Pairs, Unlink(other)
      PROVE  guardian'[GuardianOf(pair)].consent \/ pair \in lapsed'
  <2>1. NoLink.sms # TRUE
    BY NullAssumption DEF NoLink
  <2>2. pair # other /\ link'[pair] = link[pair]
    BY <1>1, <1>6, <2>1 DEF Unlink
  <2> QED
    BY <1>3, <1>6, <2>2 DEF Unlink, KeepGuardians
<1>7. ASSUME UNCHANGED <<link, lapsed>>, \A g \in Guardians : ~Withdraw(g)
      PROVE  guardian'[GuardianOf(pair)].consent \/ pair \in lapsed'
  BY <1>2, <1>3, <1>7, GuardiansMove
<1>8. ASSUME ~UNCHANGED <<link, lapsed>>
      PROVE  \/ \E r \in Requests : InsertLink(r) \/ UpdateLink(r) \/ Swap(r)
             \/ \E g \in Guardians : Withdraw(g)
             \/ \E other \in Pairs : Unlink(other)
  BY <1>8
  DEF LinksMove, LinkRequest, LinkStart, UpdateStart, SetPrimaryStart,
      SwapRead, LinkFails, CreateGuardian, UpdatePhone, Archive, Restore, Grant,
      WithdrawStart, WithdrawFails, KeepLinks
<1> QED
  BY <1>4, <1>5, <1>6, <1>7, <1>8

\* The links, and what requests know of them, in every step.
LEMMA LinksStep ==
    ASSUME LinksInv, LinksMove \/ UNCHANGED linkVars
    PROVE  LinksInv'
<1>1. CASE LinksMove
  BY <1>1, LinksTyped, RequestsKnow, ConsentStep DEF LinksInv
<1>2. CASE UNCHANGED linkVars
  BY <1>2
  DEF linkVars, LinksInv, LinksTypeOK, LinksKnown, Linked, SmsHasConsent
<1> QED
  BY <1>1, <1>2
-----------------------------------------------------------------------------
\* Who displaces a primary guardian.
Displaced(pair) ==
    \/ link'[pair] = NoLink
    \/ guardian[GuardianOf(pair)].archived
    \/ \E r \in Requests :
         /\ req[r] # Idle /\ req'[r] = Idle
         /\ \/ req[r].pair = pair /\ req[r].primary = FALSE
            \/ req[r].current = pair /\ req[r].overtaken

LEMMA PrimaryStep ==
    ASSUME LinksInv, LinksMove, NEW pair \in Pairs,
           link[pair].primary, ~link'[pair].primary
    PROVE  Displaced(pair)
<1>1. link \in [Pairs -> Link \cup {NoLink}]
  BY DEF LinksInv, LinksTypeOK
<1>2. Linked(pair) /\ link[pair] \in Link
  BY LinkedTyped DEF LinksInv
<1>3. ASSUME NEW r \in Requests, InsertLink(r) \/ UpdateLink(r) \/ Swap(r)
      PROVE  Displaced(pair)
  <2>1. /\ req[r] # Idle /\ req[r] \in Request
        /\ req[r].pair \in Pairs
    BY <1>3, IdleTyped, UnderWay DEF InsertLink, UpdateLink, Swap, LinksInv
  <2>2. req'[r] = Idle
    BY <1>3
    DEF InsertLink, UpdateLink, Swap, Return, LinksInv, LinksTypeOK
  <2>3. CASE InsertLink(r)
    BY <1>1, <1>2, <2>1, <2>3 DEF InsertLink
  <2>4. CASE UpdateLink(r)
    <3>1. link' = [link EXCEPT ![req[r].pair] =
                    [primary |-> Chosen(req[r].primary, link[req[r].pair].primary),
                     sms |-> Chosen(req[r].sms, link[req[r].pair].sms)]]
      BY <2>4 DEF UpdateLink
    <3>2. req[r].pair = pair
      BY <1>1, <2>1, <3>1
    <3>3. link'[pair].primary = Chosen(req[r].primary, link[pair].primary)
      BY <1>1, <2>1, <3>1, <3>2
    <3>4. req[r].primary # Unset /\ ~req[r].primary
      BY <3>3 DEF Chosen
    <3>5. req[r].primary = FALSE
      BY <2>1, <3>4 DEF Request, Choice
    <3> QED
      BY <2>1, <2>2, <3>2, <3>5 DEF Displaced
  <2>5. CASE Swap(r)
    <3>1. pair # req[r].pair /\ pair = req[r].current
      <4>1. [link[pair] EXCEPT !.primary = TRUE].primary
        BY <1>2 DEF Link
      <4> QED
        BY <2>5, <4>1 DEF Swap
    <3>2. req[r].current # None
      BY <2>5, <3>1 DEF Swap
    <3>3. guardian[GuardianOf(pair)].archived \/ req[r].overtaken
      BY <2>1, <3>1, <3>2 DEF LinksInv, LinksKnown
    <3> QED
      BY <2>1, <2>2, <3>1, <3>3 DEF Displaced
  <2> QED
    BY <1>3, <2>3, <2>4, <2>5
<1>4. ASSUME NEW g \in Guardians, Withdraw(g)
      PROVE  FALSE
  <2>1. [link[pair] EXCEPT !.sms = FALSE].primary = link[pair].primary
    BY <1>2 DEF Link
  <2> QED
    BY <1>4, <2>1 DEF Withdraw
<1>5. ASSUME NEW other \in Pairs, Unlink(other)
      PROVE  Displaced(pair)
  BY <1>1, <1>5 DEF Unlink, Displaced
<1>6. ~UNCHANGED link
  OBVIOUS
<1> QED
  BY <1>3, <1>4, <1>5, <1>6
  DEF LinksMove, LinkRequest, LinkStart, UpdateStart, SetPrimaryStart,
      SwapRead, LinkFails, CreateGuardian, UpdatePhone, Archive, Restore, Grant,
      WithdrawStart, WithdrawFails, KeepLinks
-----------------------------------------------------------------------------
(* What a message costs.                                                   *)

LEMMA BodyTyped ==
    ASSUME NEW template \in Text, NEW values \in Text
    PROVE  degradeToGsm7(renderTemplate(template, values)) \in Text
<1> DEFINE body == renderTemplate(template, values)
<1>1. DOMAIN template
        = {"basic", "extended", "quotes", "ellipses", "other", "astral"}
  BY DEF Text
<1>2. /\ \A class \in DOMAIN template :
           template[class] \in Nat /\ values[class] \in Nat
      /\ \A class \in DOMAIN template : body[class] \in Nat
  BY <1>1 DEF Text, renderTemplate
<1>3. body = [class \in DOMAIN template |-> body[class]]
  BY DEF renderTemplate
<1>4. body \in Text
  BY <1>1, <1>2, <1>3 DEF Text
<1> HIDE DEF body
<1>5. degradeToGsm7(body) \in Text
  <2>1. body.basic + body.quotes + 3 * body.ellipses \in Nat
    BY <1>4 DEF Text
  <2>2. ASSUME NEW n \in Nat
        PROVE  [body EXCEPT !.basic = n, !.quotes = 0, !.ellipses = 0] \in Text
    BY <1>4 DEF Text
  <2>3. [body EXCEPT !.basic = body.basic + body.quotes + 3 * body.ellipses,
                     !.quotes = 0, !.ellipses = 0] \in Text
    BY <2>1, <2>2
  <2> QED
    BY <2>3 DEF degradeToGsm7
<1> QED
  BY <1>5 DEF body

LEMMA LengthsTyped ==
    ASSUME NEW body \in Text
    PROVE  Gsm7Length(body) \in Nat /\ Ucs2Length(body) \in Nat
BY DEF Text, Gsm7Length, Ucs2Length

\* Pages of 153, and of 67, hold what is given, and one fewer would not.
LEMMA PagesHold ==
    ASSUME NEW length \in Nat, length > 0
    PROVE  /\ Pages(length, 153) \in Nat \ {0} /\ Pages(length, 67) \in Nat \ {0}
           /\ length <= 153 * Pages(length, 153)
           /\ length > 153 * (Pages(length, 153) - 1)
           /\ length <= 67 * Pages(length, 67)
           /\ length > 67 * (Pages(length, 67) - 1)
BY DEF Pages

LEMMA Priced ==
    ASSUME NEW body \in Text
    PROVE  LET length == IF FitsGsm7(body) THEN Gsm7Length(body)
                         ELSE Ucs2Length(body)
               segments == analyseSms(body) IN
           /\ segments \in Nat /\ segments >= 1
           /\ length <= Capacity(body, segments)
           /\ segments > 1 => length > Capacity(body, segments - 1)
<1>1. CASE FitsGsm7(body)
  <2> DEFINE n == Gsm7Length(body)  p == Pages(n, 153)
  <2>1. n \in Nat
    BY LengthsTyped
  <2>2. n > 160 => p \in Nat \ {0} /\ n <= 153 * p /\ n > 153 * (p - 1)
    BY <2>1, PagesHold
  <2>3. analyseSms(body) = IF n <= 160 THEN 1 ELSE p
    BY <1>1 DEF analyseSms, SegmentsOf
  <2> HIDE DEF n, p
  <2>4. ASSUME n > 160
        PROVE  p > 1 /\ (p - 1 = 1 => n > 160)
    BY <2>1, <2>2, <2>4
  <2> QED
    BY <1>1, <2>1, <2>2, <2>3, <2>4 DEF Capacity, n
<1>2. CASE ~FitsGsm7(body)
  <2> DEFINE n == Ucs2Length(body)  p == Pages(n, 67)
  <2>1. n \in Nat
    BY LengthsTyped
  <2>2. n > 70 => p \in Nat \ {0} /\ n <= 67 * p /\ n > 67 * (p - 1)
    BY <2>1, PagesHold
  <2>3. analyseSms(body) = IF n <= 70 THEN 1 ELSE p
    BY <1>2 DEF analyseSms, SegmentsOf
  <2> HIDE DEF n, p
  <2>4. ASSUME n > 70
        PROVE  p > 1
    BY <2>1, <2>2, <2>4
  <2> QED
    BY <1>2, <2>1, <2>2, <2>3, <2>4 DEF Capacity, n
<1> QED
  BY <1>1, <1>2

\* Twice as many characters need no more pages of 153 than of 67.
LEMMA PagesCompare ==
    ASSUME NEW n \in Nat, NEW m \in Nat, n <= 2 * m
    PROVE  SegmentsOf(n, 160, 153) <= SegmentsOf(m, 70, 67)
<1> DEFINE p == Pages(n, 153)
           q == Pages(m, 67)
<1>1. SegmentsOf(n, 160, 153) = IF n <= 160 THEN 1 ELSE p
  BY DEF SegmentsOf
<1>2. SegmentsOf(m, 70, 67) = IF m <= 70 THEN 1 ELSE q
  BY DEF SegmentsOf
<1>3. n > 0 => p \in Nat \ {0} /\ n > 153 * (p - 1)
  BY PagesHold
<1>4. m > 0 => q \in Nat \ {0} /\ m <= 67 * q
  BY PagesHold
<1> HIDE DEF p, q
<1>5. CASE n <= 160
  BY <1>1, <1>2, <1>4, <1>5
<1>6. CASE n > 160
  <2>1. m > 70 /\ p \in Nat /\ q \in Nat
    BY <1>3, <1>4, <1>6
  <2>2. 153 * (p - 1) < 134 * q
    BY <1>3, <1>4, <1>6, <2>1
  <2>3. p <= q
    BY <2>1, <2>2
  <2> QED
    BY <1>1, <1>2, <1>6, <2>1, <2>3
<1> QED
  BY <1>5, <1>6

\* degradeToGsm7 spares a bill and never raises one, unless the text has an
\* ellipsis, which it makes longer: whatever else is in the text, the degraded
\* one has no more segments.
THEOREM DegradingSaves ==
    ASSUME NEW body \in Text, body.ellipses = 0
    PROVE  analyseSms(degradeToGsm7(body)) <= analyseSms(body)
<1> DEFINE plain == degradeToGsm7(body)
<1>1. /\ body.basic \in Nat /\ body.extended \in Nat /\ body.quotes \in Nat
      /\ body.other \in Nat /\ body.astral \in Nat
  BY DEF Text
<1>2. /\ plain.basic = body.basic + body.quotes
      /\ plain.extended = body.extended
      /\ plain.quotes = 0 /\ plain.ellipses = 0
      /\ plain.other = body.other /\ plain.astral = body.astral
  <2>1. body.basic + body.quotes + 3 * body.ellipses = body.basic + body.quotes
    BY <1>1
  <2> QED
    BY <1>1, <2>1 DEF degradeToGsm7, Text
<1> HIDE DEF plain
<1>3. /\ Ucs2Length(plain) = Ucs2Length(body) /\ Ucs2Length(body) \in Nat
      /\ Gsm7Length(plain) \in Nat
      /\ FitsGsm7(plain) => Gsm7Length(plain) <= 2 * Ucs2Length(body)
      /\ FitsGsm7(body) => /\ FitsGsm7(plain)
                           /\ Gsm7Length(plain) = Gsm7Length(body)
  <2>1. /\ Ucs2Length(body) = body.basic + body.extended + body.quotes
                               + body.other + 2 * body.astral
        /\ Ucs2Length(plain) = Ucs2Length(body)
        /\ Ucs2Length(body) \in Nat
    BY <1>1, <1>2 DEF Ucs2Length
  <2>2. /\ Gsm7Length(plain) = body.basic + body.quotes + 2 * body.extended
        /\ Gsm7Length(plain) \in Nat
    BY <1>1, <1>2 DEF Gsm7Length
  <2>3. FitsGsm7(plain) <=> body.other + body.astral = 0
    BY <1>1, <1>2 DEF FitsGsm7
  <2>4. FitsGsm7(body) => body.quotes = 0 /\ body.other + body.astral = 0
    BY <1>1 DEF FitsGsm7
  <2>5. Gsm7Length(body) = body.basic + 2 * body.extended
    BY DEF Gsm7Length
  <2> QED
    BY <1>1, <2>1, <2>2, <2>3, <2>4, <2>5
<1>4. /\ FitsGsm7(body) => analyseSms(plain) = analyseSms(body)
      /\ ~FitsGsm7(plain) => analyseSms(plain) = analyseSms(body)
  BY <1>3 DEF analyseSms
<1>5. ASSUME FitsGsm7(plain), ~FitsGsm7(body)
      PROVE  analyseSms(plain) <= analyseSms(body)
  BY <1>3, <1>5, PagesCompare DEF analyseSms
<1>6. analyseSms(body) \in Nat
  BY Priced
<1> QED
  BY <1>4, <1>5, <1>6 DEF plain
-----------------------------------------------------------------------------
(* Calls, rows and batches.                                                *)

LEMMA LinksPart == RemindersInv => LinksInv
BY DEF RemindersInv, TypeOK, LinksInv

LEMMA CallTyped ==
    ASSUME TypeOK, NEW c \in Calls
    PROVE  /\ BatchOf(c) \in Batches /\ Enrollment(c) \in Enrollments
           /\ Child(c) \in Students
           /\ call[c] \in Call \cup {NoCall}
           /\ call[c].pc # "none" => call[c] \in Call
           /\ call[c].to \in Guardians \cup {None}
           /\ call[c].withdrawn \in BOOLEAN
           /\ c = <<BatchOf(c), Enrollment(c)>>
<1>1. call[c] \in Call \cup {NoCall}
  BY DEF TypeOK
<1>2. /\ BatchOf(c) \in Batches /\ Enrollment(c) \in Enrollments
      /\ c = <<BatchOf(c), Enrollment(c)>>
  BY DEF Calls, BatchOf, Enrollment
<1>3. Child(c) \in Students
  BY <1>2, EnrollmentsAssumption DEF Child
<1>4. NoCall.pc = "none" /\ NoCall.to = None /\ NoCall.withdrawn = FALSE
  BY DEF NoCall
<1>5. call[c] \in Call => /\ call[c].pc # "none"
                          /\ call[c].to \in Guardians \cup {None}
                          /\ call[c].withdrawn \in BOOLEAN
  BY DEF Call
<1> QED
  BY <1>1, <1>2, <1>3, <1>4, <1>5

LEMMA BatchTyped ==
    ASSUME TypeOK, NEW b \in Batches
    PROVE  /\ batch[b] # NoBatch => batch[b] \in Batch
           /\ batch[b].pc # "new" => batch[b] # NoBatch
           /\ batch[b].enrollments \subseteq Enrollments
           /\ IsFiniteSet(batch[b].enrollments)
<1>1. batch[b] \in Batch \cup {NoBatch}
  BY DEF TypeOK
<1>2. batch[b].enrollments \subseteq Enrollments
  BY <1>1 DEF Batch, NoBatch
<1>3. IsFiniteSet(batch[b].enrollments)
  BY <1>2, FS_Subset, EnrollmentsAssumption
<1> QED
  BY <1>1, <1>2, <1>3 DEF NoBatch

\* The row that a call leaves.
NewRow(c, outcome, body) ==
    [call |-> c, occasion |-> batch[BatchOf(c)].occasion, status |-> outcome,
     to |-> call[c].to, body |-> body, segments |-> analyseSms(body),
     claimed |-> FALSE, withdrawn |-> call[c].withdrawn]

LEMMA CallInserts ==
    ASSUME RemindersInv, NEW c \in Calls, Insert(c)
    PROVE  \E outcome \in Answered, body \in Text :
             /\ call' = [call EXCEPT ![c] = [NoCall EXCEPT !.pc = outcome]]
             /\ outbox' = IF outcome = "duplicate" THEN outbox
                          ELSE outbox \cup {NewRow(c, outcome, body)}
             /\ outcome = "duplicate"
                  <=> Duplicate(batch[BatchOf(c)].occasion, Enrollment(c))
             /\ outcome = "queued" => call[c].to # None
<1> DEFINE outcome ==
             IF Duplicate(batch[BatchOf(c)].occasion, Enrollment(c)) THEN "duplicate"
             ELSE IF call[c].to = None THEN "suppressed" ELSE "queued"
<1>1. PICK template \in Templates :
        LET body == degradeToGsm7(renderTemplate(template, ValuesOf[Enrollment(c)]))
        IN outbox' = IF outcome = "duplicate" THEN outbox
                     ELSE outbox \cup {NewRow(c, outcome, body)}
  BY DEF Insert, NewRow
<1>2. degradeToGsm7(renderTemplate(template, ValuesOf[Enrollment(c)])) \in Text
  <2>1. Enrollment(c) \in Enrollments
    BY DEF Calls, Enrollment
  <2> QED
    BY <2>1, BodyTyped, TextAssumption
<1>3. call' = [call EXCEPT ![c] = [NoCall EXCEPT !.pc = outcome]]
  BY DEF Insert
<1>4. /\ outcome \in Answered
      /\ outcome = "duplicate" <=> Duplicate(batch[BatchOf(c)].occasion, Enrollment(c))
      /\ outcome = "queued" => call[c].to # None
  BY DEF Answered
<1> HIDE DEF outcome
<1> QED
  BY <1>1, <1>2, <1>3, <1>4

LEMMA NewRowTyped ==
    ASSUME RemindersInv, NEW c \in Calls, call[c].pc = "insert",
           NEW outcome \in {"queued", "suppressed"}, NEW body \in Text
    PROVE  NewRow(c, outcome, body) \in Row
<1>1. batch[BatchOf(c)].occasion \in Occasions
  <2>1. batch[BatchOf(c)] # NoBatch
    BY DEF RemindersInv, CallsKnown
  <2> QED
    BY <2>1, CallTyped, BatchTyped DEF RemindersInv, Batch
<1>2. call[c].to \in Guardians \cup {None} /\ call[c].withdrawn \in BOOLEAN
  BY CallTyped DEF RemindersInv
<1>3. analyseSms(body) \in Nat
  BY Priced
<1> QED
  BY <1>1, <1>2, <1>3 DEF NewRow, Row

\* The steps of a poller on a row.
Polled(row) == Claim(row) \/ Record(row) \/ PollerFails(row)

\* What a step of a poller, or a withdrawal, may make of a row: what it says
\* stays; it waits only if it did, or was claimed; and if a withdrawal reaches it
\* and it may yet be put back, that is marked.
RowAfter(p, q) ==
    /\ q.call = p.call /\ q.occasion = p.occasion /\ q.to = p.to
    /\ q.body = p.body /\ q.segments = p.segments
    /\ q.claimed => \/ q.status = "sending"
                    \/ q.status = "cancelled" /\ q.withdrawn
    /\ Pending(q) =>
         /\ Pending(p)
         /\ \/ q.withdrawn
            \/ /\ ~p.withdrawn
               /\ \A g \in Guardians : WithdrawConsent(g) => p.to # g

LEMMA RowStays ==
    ASSUME RemindersInv, NEW p \in outbox,
           \A g \in Guardians : WithdrawConsent(g) => p.to # g
    PROVE  RowAfter(p, p)
<1>1. p.withdrawn \in BOOLEAN
  BY DEF RemindersInv, TypeOK, Row
<1> QED
  BY <1>1 DEF RemindersInv, ConsentHeld, RowAfter

\* A poller takes no consent.
LEMMA PolledAlone ==
    ASSUME NEW row \in outbox, Polled(row), NEW g \in Guardians
    PROVE  ~WithdrawConsent(g)
<1>1. SUFFICES ASSUME WithdrawConsent(g) PROVE FALSE
  OBVIOUS
<1>2. withdrawing' # withdrawing
  BY <1>1 DEF WithdrawConsent, Withdraw
<1> QED
  BY <1>2 DEF Polled, Claim, Record, PollerFails, linkVars

LEMMA PolledRow ==
    ASSUME RemindersInv, NEW row \in outbox, Polled(row)
    PROVE  \E new \in Row : /\ outbox' = (outbox \ {row}) \cup {new}
                            /\ RowAfter(row, new)
<1>1. row \in Row
  BY DEF RemindersInv, TypeOK
<1>2. PICK status \in {"queued", "sending", "sent", "failed", "cancelled"},
           claimed \in BOOLEAN :
        /\ outbox' = (outbox \ {row})
             \cup {[row EXCEPT !.status = status, !.claimed = claimed]}
        /\ Pending(row)
        /\ claimed => status = "sending"
  <2>1. CASE Claim(row)
    BY <2>1 DEF Claim, Moved, Pending
  <2>2. CASE Record(row)
    BY <2>2 DEF Record, Moved, Pending
  <2>3. CASE PollerFails(row)
    <3>1. row.status \in {"sending", "cancelled"}
      BY <2>3 DEF PollerFails, RemindersInv, ConsentHeld
    <3> QED
      BY <2>3, <3>1 DEF PollerFails, Moved, Pending
  <2> QED
    BY <2>1, <2>2, <2>3 DEF Polled
<1> DEFINE new == [row EXCEPT !.status = status, !.claimed = claimed]
<1>3. /\ new \in Row /\ new.call = row.call /\ new.occasion = row.occasion
      /\ new.to = row.to /\ new.body = row.body /\ new.segments = row.segments
      /\ new.claimed = claimed /\ new.status = status
      /\ new.withdrawn = row.withdrawn /\ row.withdrawn \in BOOLEAN
  BY <1>1 DEF Row
<1> HIDE DEF new
<1>4. RowAfter(row, new)
  BY <1>2, <1>3, PolledAlone DEF RowAfter
<1> QED
  BY <1>2, <1>3, <1>4 DEF new

LEMMA CancelledRow ==
    ASSUME RemindersInv, NEW row \in outbox, NEW g \in Guardians,
           WithdrawConsent(g)
    PROVE  CancelledFor(g, row) \in Row /\ RowAfter(row, CancelledFor(g, row))
<1>1. row \in Row
  BY DEF RemindersInv, TypeOK
<1>2. \A h \in Guardians : WithdrawConsent(h) => h = g
  BY DEF WithdrawConsent, Withdraw
<1>3. CASE row.to # g
  BY <1>1, <1>2, <1>3, RowStays DEF CancelledFor
<1>4. CASE row.to = g /\ row.status \in {"queued", "sending"}
  <2> DEFINE new == [row EXCEPT !.status = "cancelled", !.withdrawn = row.claimed]
  <2>1. /\ new \in Row /\ new.call = row.call /\ new.occasion = row.occasion
        /\ new.to = row.to /\ new.body = row.body /\ new.segments = row.segments
        /\ new.claimed = row.claimed /\ new.status = "cancelled"
        /\ new.withdrawn = row.claimed
    BY <1>1 DEF Row
  <2>2. CancelledFor(g, row) = new
    BY <1>4 DEF CancelledFor
  <2> HIDE DEF new
  <2> QED
    BY <2>1, <2>2 DEF RowAfter, Pending
<1>5. CASE row.to = g /\ row.status \notin {"queued", "sending"}
  <2>1. CancelledFor(g, row) = row
    BY <1>5 DEF CancelledFor
  <2>2. Pending(row) => row.claimed /\ row.withdrawn
    BY <1>5 DEF RemindersInv, ConsentHeld, Pending
  <2>3. RowAfter(row, row)
    BY <2>2 DEF RemindersInv, ConsentHeld, RowAfter
  <2> QED
    BY <1>1, <2>1, <2>3
<1> QED
  BY <1>3, <1>4, <1>5

\* Pollers and withdrawals change rows, each on its own.
LEMMA RowsMove ==
    ASSUME RemindersInv,
           (\E row \in outbox : Polled(row))
             \/ (\E g \in Guardians : WithdrawConsent(g))
    PROVE  \E f \in [outbox -> Row] :
             /\ outbox' = {f[row] : row \in outbox}
             /\ \A row \in outbox : RowAfter(row, f[row])
<1>1. outbox \subseteq Row
  BY DEF RemindersInv, TypeOK
<1>2. ASSUME NEW row \in outbox, Polled(row)
      PROVE  \E f \in [outbox -> Row] :
               /\ outbox' = {f[p] : p \in outbox}
               /\ \A p \in outbox : RowAfter(p, f[p])
  <2>1. PICK new \in Row : /\ outbox' = (outbox \ {row}) \cup {new}
                           /\ RowAfter(row, new)
    BY <1>2, PolledRow
  <2> DEFINE f == [p \in outbox |-> IF p = row THEN new ELSE p]
  <2>2. f \in [outbox -> Row]
    BY <1>1
  <2>3. outbox' = {f[p] : p \in outbox}
    BY <2>1
  <2>4. \A p \in outbox : p # row => RowAfter(p, p)
    BY <1>2, RowStays, PolledAlone
  <2>5. \A p \in outbox : RowAfter(p, f[p])
    BY <2>1, <2>4
  <2> HIDE DEF f
  <2> QED
    BY <2>2, <2>3, <2>5
<1>3. ASSUME NEW g \in Guardians, WithdrawConsent(g)
      PROVE  \E f \in [outbox -> Row] :
               /\ outbox' = {f[p] : p \in outbox}
               /\ \A p \in outbox : RowAfter(p, f[p])
  <2> DEFINE f == [p \in outbox |-> CancelledFor(g, p)]
  <2>1. outbox' = {f[p] : p \in outbox}
    BY <1>3 DEF WithdrawConsent
  <2>2. f \in [outbox -> Row] /\ \A p \in outbox : RowAfter(p, f[p])
    BY <1>3, CancelledRow
  <2> HIDE DEF f
  <2> QED
    BY <2>1, <2>2
<1> QED
  BY <1>2, <1>3

\* What the other steps leave as it is.
LEMMA RowsElse ==
    ASSUME Next,
           \A c \in Calls : ~Insert(c),
           \A row \in outbox : ~Polled(row),
           \A g \in Guardians : ~WithdrawConsent(g)
    PROVE  outbox' = outbox
BY DEF Next, LinkStep, reminderVars, Select, Resolve, CallFails, Dispatched,
       BatchFails, Polled

LEMMA CallsTyped ==
    ASSUME RemindersInv, Next
    PROVE  call' \in [Calls -> Call \cup {NoCall}]
<1>1. call \in [Calls -> Call \cup {NoCall}]
  BY DEF RemindersInv, TypeOK
<1>2. \A pc \in {"resolve", "queued", "suppressed", "duplicate", "failed"} :
        [NoCall EXCEPT !.pc = pc] \in Call
  BY DEF NoCall, Call
<1>3. ASSUME NEW b \in Batches, NEW occasion \in Occasions,
             NEW enrollments \in SUBSET Enrollments,
             Select(b, occasion, enrollments)
      PROVE  call' \in [Calls -> Call \cup {NoCall}]
  BY <1>1, <1>2, <1>3 DEF Select
<1>4. ASSUME NEW c \in Calls, Resolve(c)
      PROVE  call' \in [Calls -> Call \cup {NoCall}]
  <2>1. PICK to \in Recipients(Child(c)) \cup {None} :
          call' = [call EXCEPT ![c] = [pc |-> "insert", withdrawn |-> FALSE,
                                       to |-> to]]
    BY <1>4 DEF Resolve
  <2>2. Child(c) \in Students
    BY CallTyped DEF RemindersInv
  <2>3. Recipients(Child(c)) \subseteq Guardians
    BY DEF Recipients, PrimaryOf, GuardianOf
  <2>4. [pc |-> "insert", withdrawn |-> FALSE, to |-> to] \in Call
    BY <2>1, <2>3 DEF Call
  <2> QED
    BY <1>1, <2>1, <2>4
<1>5. ASSUME NEW c \in Calls, Insert(c) \/ CallFails(c)
      PROVE  call' \in [Calls -> Call \cup {NoCall}]
  <2>1. PICK pc \in {"queued", "suppressed", "duplicate", "failed"} :
          call' = [call EXCEPT ![c] = [NoCall EXCEPT !.pc = pc]]
    BY <1>5, CallInserts DEF CallFails, Answered
  <2> QED
    BY <1>1, <1>2, <2>1
<1>6. ASSUME NEW g \in Guardians, WithdrawConsent(g)
      PROVE  call' \in [Calls -> Call \cup {NoCall}]
  <2>1. \A c \in Calls : call[c].to = g =>
          [call[c] EXCEPT !.withdrawn = TRUE] \in Call
    <3>1. NoCall.to # g
      BY NullAssumption DEF NoCall
    <3>2. \A c \in Calls : call[c].to = g => call[c] \in Call
      BY <1>1, <3>1
    <3> QED
      BY <3>2 DEF Call
  <2> QED
    BY <1>1, <1>6, <2>1 DEF WithdrawConsent
<1>7. CASE UNCHANGED call
  BY <1>1, <1>7
<1> QED
  BY <1>3, <1>4, <1>5, <1>6, <1>7
  DEF Next, LinkStep, reminderVars, Dispatched, BatchFails, Claim,
      Record, PollerFails

LEMMA OutboxTyped ==
    ASSUME RemindersInv, Next
    PROVE  outbox' \subseteq Row
<1>1. outbox \subseteq Row
  BY DEF RemindersInv, TypeOK
<1>2. ASSUME NEW c \in Calls, Insert(c)
      PROVE  outbox' \subseteq Row
  <2>1. call[c].pc = "insert"
    BY <1>2 DEF Insert
  <2>2. PICK outcome \in Answered, body \in Text :
          outbox' = IF outcome = "duplicate" THEN outbox
                    ELSE outbox \cup {NewRow(c, outcome, body)}
    BY <1>2, CallInserts
  <2>3. outcome # "duplicate" => NewRow(c, outcome, body) \in Row
    BY <2>1, NewRowTyped DEF Answered
  <2> QED
    BY <1>1, <2>2, <2>3
<1>3. CASE (\E row \in outbox : Polled(row))
             \/ (\E g \in Guardians : WithdrawConsent(g))
  BY <1>3, RowsMove
<1> QED
  BY <1>1, <1>2, <1>3, RowsElse

LEMMA CountsTyped ==
    ASSUME RemindersInv, NEW b \in Batches
    PROVE  Counts(b) \in Entry
<1>1. IsFiniteSet(batch[b].enrollments)
  BY BatchTyped DEF RemindersInv
<1>2. IsFiniteSet({b})
  BY FS_Singleton
<1>3. IsFiniteSet(CallsOf(b))
  BY <1>1, <1>2, FS_Product DEF CallsOf
<1>4. \A outcome \in Answered : Outcomes(b, outcome) \subseteq CallsOf(b)
  BY DEF Outcomes
<1>5. \A outcome \in Answered : IsFiniteSet(Outcomes(b, outcome))
  BY <1>3, <1>4, FS_Subset
<1>6. /\ Cardinality(batch[b].enrollments) \in Nat
      /\ \A outcome \in Answered : Cardinality(Outcomes(b, outcome)) \in Nat
  BY <1>1, <1>5, FS_CardinalityType
<1> QED
  BY <1>6 DEF Counts, Entry, Answered

LEMMA BatchesTyped ==
    ASSUME RemindersInv, Next
    PROVE  /\ batch' \in [Batches -> Batch \cup {NoBatch}]
           /\ log' \in [Batches -> Entry \cup {NoEntry}]
<1>1. /\ batch \in [Batches -> Batch \cup {NoBatch}]
      /\ log \in [Batches -> Entry \cup {NoEntry}]
  BY DEF RemindersInv, TypeOK
<1>3. ASSUME NEW b \in Batches, NEW occasion \in Occasions,
             NEW enrollments \in SUBSET Enrollments,
             Select(b, occasion, enrollments)
      PROVE  batch' \in [Batches -> Batch \cup {NoBatch}]
  <2>1. [pc |-> "enqueue", occasion |-> occasion,
         enrollments |-> enrollments] \in Batch
    BY DEF Batch
  <2> QED
    BY <1>1, <1>3, <2>1 DEF Select
<1>4. ASSUME NEW b \in Batches, Dispatched(b) \/ BatchFails(b)
      PROVE  /\ batch' \in [Batches -> Batch \cup {NoBatch}]
             /\ log' \in [Batches -> Entry \cup {NoEntry}]
  <2>1. batch[b] \in Batch
    BY <1>4, BatchTyped DEF Dispatched, BatchFails, RemindersInv, NoBatch
  <2>2. \A pc \in {"done", "failed"} : [batch[b] EXCEPT !.pc = pc] \in Batch
    BY <2>1 DEF Batch
  <2>3. Counts(b) \in Entry
    BY CountsTyped
  <2> QED
    BY <1>1, <1>4, <2>2, <2>3 DEF Dispatched, BatchFails
<1>5. \/ UNCHANGED <<batch, log>>
      \/ /\ UNCHANGED log
         /\ \E b \in Batches, occasion \in Occasions :
              \E enrollments \in SUBSET Enrollments :
                Select(b, occasion, enrollments)
      \/ \E b \in Batches : Dispatched(b) \/ BatchFails(b)
  BY DEF Next, LinkStep, reminderVars, Select, Resolve, Insert, CallFails,
         Dispatched, BatchFails, Claim, Record, PollerFails, WithdrawConsent
<1> QED
  BY <1>1, <1>3, <1>4, <1>5

LEMMA TypeKept ==
    ASSUME RemindersInv, Next
    PROVE  TypeOK' /\ LinksKnown' /\ SmsHasConsent'
<1>1. LinksInv'
  BY LinksPart, NextMoves, LinksStep
<1> QED
  BY <1>1, CallsTyped, OutboxTyped, BatchesTyped DEF TypeOK, LinksInv
-----------------------------------------------------------------------------
\* A batch that was selected keeps its occasion and its requests.
LEMMA BatchesStay ==
    ASSUME RemindersInv, Next, NEW b \in Batches, batch[b] # NoBatch
    PROVE  /\ batch'[b] # NoBatch
           /\ batch'[b].occasion = batch[b].occasion
           /\ batch'[b].enrollments = batch[b].enrollments
           /\ batch[b].pc = "done" => batch'[b].pc = "done" /\ log'[b] = log[b]
           /\ batch'[b].pc = "done" => batch[b].pc = "done" \/ Dispatched(b)
<1>1. batch \in [Batches -> Batch \cup {NoBatch}] /\ batch[b] \in Batch
      /\ log \in [Batches -> Entry \cup {NoEntry}]
  BY BatchTyped DEF RemindersInv, TypeOK
<1>2. ASSUME NEW d \in Batches, NEW occasion \in Occasions, NEW enrollments,
             Select(d, occasion, enrollments)
      PROVE  batch'[b] = batch[b] /\ log'[b] = log[b]
  BY <1>1, <1>2 DEF Select
<1>3. ASSUME NEW d \in Batches, Dispatched(d) \/ BatchFails(d), d # b
      PROVE  batch'[b] = batch[b] /\ log'[b] = log[b]
  BY <1>1, <1>3 DEF Dispatched, BatchFails
<1>4. CASE Dispatched(b) \/ BatchFails(b)
  <2>1. batch'[b].occasion = batch[b].occasion
        /\ batch'[b].enrollments = batch[b].enrollments
        /\ batch[b].pc = "enqueue"
        /\ batch'[b].pc \in {"done", "failed"}
        /\ (batch'[b].pc = "done" => Dispatched(b))
    BY <1>1, <1>4 DEF Dispatched, BatchFails, Batch
  <2>2. batch'[b] # NoBatch
    BY <2>1 DEF NoBatch
  <2> QED
    BY <2>1, <2>2
<1>5. CASE UNCHANGED <<batch, log>>
  BY <1>1, <1>5
<1> QED
  BY <1>1, <1>2, <1>3, <1>4, <1>5
  DEF Next, LinkStep, reminderVars, Resolve, Insert, CallFails, Claim,
      Record, PollerFails,
      WithdrawConsent

\* A call that has its answer keeps it, and has it from Insert.
LEMMA AnswersStay ==
    ASSUME RemindersInv, Next, NEW c \in Calls
    PROVE  /\ call[c].pc \in Answered => call'[c].pc = call[c].pc
           /\ call'[c].pc \in Answered => call[c].pc \in Answered \/ Insert(c)
<1>1. call \in [Calls -> Call \cup {NoCall}] /\ call[c] \in Call \cup {NoCall}
  BY DEF RemindersInv, TypeOK
<1>2. ASSUME NEW b \in Batches, NEW occasion \in Occasions, NEW enrollments,
             Select(b, occasion, enrollments)
      PROVE  \/ call'[c] = call[c]
             \/ call[c].pc = "none" /\ call'[c].pc = "resolve"
  <2>1. CASE BatchOf(c) = b
    <3>1. call[c].pc = "none"
      BY <1>2, <2>1 DEF RemindersInv, CallsKnown, Select
    <3>2. [NoCall EXCEPT !.pc = "resolve"].pc = "resolve"
      BY DEF NoCall
    <3> QED
      BY <1>2, <2>1, <3>1, <3>2 DEF Select
  <2>2. CASE BatchOf(c) # b
    BY <1>2, <2>2 DEF Select
  <2> QED
    BY <2>1, <2>2
<1>3. ASSUME NEW d \in Calls, Resolve(d) \/ CallFails(d)
      PROVE  \/ call'[c] = call[c]
             \/ /\ call[c].pc \in {"resolve", "insert"}
                /\ call'[c].pc \in {"insert", "failed"}
  <2>1. [NoCall EXCEPT !.pc = "failed"].pc = "failed"
    BY DEF NoCall
  <2>2. CASE CallFails(d)
    BY <1>1, <2>1, <2>2 DEF CallFails
  <2>3. CASE Resolve(d)
    <3>1. PICK to \in Recipients(Child(d)) \cup {None} :
            call' = [call EXCEPT ![d] = [pc |-> "insert", withdrawn |-> FALSE,
                                         to |-> to]]
      BY <2>3 DEF Resolve
    <3> QED
      BY <1>1, <2>3, <3>1 DEF Resolve
  <2> QED
    BY <1>3, <2>2, <2>3
<1>4. ASSUME NEW d \in Calls, Insert(d)
      PROVE  call'[c] = call[c] \/ (d = c /\ call[c].pc = "insert")
  <2>1. PICK outcome \in Answered :
          call' = [call EXCEPT ![d] = [NoCall EXCEPT !.pc = outcome]]
    BY <1>4, CallInserts
  <2> QED
    BY <1>1, <1>4, <2>1 DEF Insert
<1>5. ASSUME NEW g \in Guardians, WithdrawConsent(g)
      PROVE  call'[c].pc = call[c].pc
  <2>1. [call[c] EXCEPT !.withdrawn = TRUE].pc = call[c].pc
    BY <1>1 DEF Call, NoCall
  <2> QED
    BY <1>5, <2>1 DEF WithdrawConsent
<1>6. CASE UNCHANGED call
  BY <1>6
<1>7. \/ call'[c].pc = call[c].pc
      \/ Insert(c) /\ call[c].pc = "insert"
      \/ /\ call[c].pc \in {"none", "resolve", "insert"}
         /\ call'[c].pc \in {"resolve", "insert", "failed"}
  BY <1>2, <1>3, <1>4, <1>5, <1>6
  DEF Next, LinkStep, reminderVars, Dispatched, BatchFails, Claim,
      Record, PollerFails
<1> QED
  BY <1>7 DEF Answered

\* No row is lost, and a row that is new is a call's.
LEMMA RowsStay ==
    ASSUME RemindersInv, Next
    PROVE  /\ \A p \in outbox : \E q \in outbox' :
                q.call = p.call /\ q.occasion = p.occasion
           /\ \A q \in outbox' :
                \/ \E p \in outbox : RowAfter(p, q)
                \/ \E c \in Calls, outcome \in {"queued", "suppressed"},
                      body \in Text :
                     /\ Insert(c) /\ q = NewRow(c, outcome, body)
                     /\ call'[c].pc = outcome
                     /\ outcome = "queued" => call[c].to # None
<1>1. outbox \subseteq Row
  BY DEF RemindersInv, TypeOK
<1>2. ASSUME NEW c \in Calls, Insert(c)
      PROVE  /\ outbox \subseteq outbox'
             /\ \A q \in outbox' \ outbox :
                  \E outcome \in {"queued", "suppressed"}, body \in Text :
                     /\ q = NewRow(c, outcome, body)
                     /\ call'[c].pc = outcome
                     /\ outcome = "queued" => call[c].to # None
  <2>1. PICK outcome \in Answered, body \in Text :
             /\ call' = [call EXCEPT ![c] = [NoCall EXCEPT !.pc = outcome]]
             /\ outbox' = IF outcome = "duplicate" THEN outbox
                          ELSE outbox \cup {NewRow(c, outcome, body)}
             /\ outcome = "queued" => call[c].to # None
    BY <1>2, CallInserts
  <2>2. call'[c].pc = outcome
    BY <2>1 DEF RemindersInv, TypeOK, NoCall
  <2> QED
    BY <2>1, <2>2 DEF Answered
<1>3. ASSUME \A g \in Guardians : ~WithdrawConsent(g), NEW p \in outbox
      PROVE  RowAfter(p, p)
  BY <1>3, RowStays
<1>4. ASSUME NEW c \in Calls, Insert(c), NEW g \in Guardians
      PROVE  ~WithdrawConsent(g)
  BY <1>4 DEF Insert, WithdrawConsent, Withdraw, linkVars
<1>5. CASE (\E row \in outbox : Polled(row))
             \/ (\E g \in Guardians : WithdrawConsent(g))
  <2>1. PICK f \in [outbox -> Row] :
          /\ outbox' = {f[row] : row \in outbox}
          /\ \A row \in outbox : RowAfter(row, f[row])
    BY <1>5, RowsMove
  <2> QED
    BY <2>1 DEF RowAfter
<1>6. CASE UNCHANGED outbox /\ \A g \in Guardians : ~WithdrawConsent(g)
  BY <1>6, <1>3
<1> QED
  BY <1>2, <1>3, <1>4, <1>5, <1>6, RowsElse

LEMMA CallsStep ==
    ASSUME RemindersInv, Next
    PROVE  CallsKnown'
<1> SUFFICES ASSUME NEW c \in Calls
             PROVE  /\ call'[c].pc # "none" =>
                         /\ batch'[BatchOf(c)] # NoBatch
                         /\ Enrollment(c) \in batch'[BatchOf(c)].enrollments
                    /\ call'[c].pc \in {"queued", "suppressed"} =>
                         \E row \in outbox' : row.call = c
                    /\ call'[c].pc = "duplicate" =>
                         \E row \in outbox' :
                            KeyOf(row)
                              = Key(batch'[BatchOf(c)].occasion, Enrollment(c))
  BY DEF CallsKnown, Duplicate, BatchOf, Enrollment, KeyOf, Key
<1> DEFINE b == BatchOf(c)
<1>1. b \in Batches
  BY CallTyped DEF RemindersInv
<1>2. call[c].pc # "none" =>
        /\ batch[b] # NoBatch /\ Enrollment(c) \in batch[b].enrollments
  BY DEF RemindersInv, CallsKnown
<1>3. ASSUME call[c].pc # "none"
      PROVE  /\ batch'[b] # NoBatch /\ Enrollment(c) \in batch'[b].enrollments
             /\ batch'[b].occasion = batch[b].occasion
  BY <1>1, <1>2, <1>3, BatchesStay
<1>4. ASSUME call[c].pc = "none", call'[c].pc # "none"
      PROVE  batch'[b] # NoBatch /\ Enrollment(c) \in batch'[b].enrollments
  <2>1. call'[c] # call[c]
    BY <1>4
  <2>2. \A d \in Calls : Resolve(d) \/ Insert(d) \/ CallFails(d) => d # c
    BY <1>4 DEF Resolve, Insert, CallFails
  <2>3. \A d \in Calls : ~(Resolve(d) \/ Insert(d) \/ CallFails(d))
    BY <2>1, <2>2 DEF RemindersInv, TypeOK, Resolve, Insert, CallFails
  <2>4. \A g \in Guardians : ~WithdrawConsent(g)
    <3>1. [call[c] EXCEPT !.withdrawn = TRUE].pc = call[c].pc
      BY DEF RemindersInv, TypeOK, Call, NoCall
    <3> QED
      BY <1>4, <3>1 DEF WithdrawConsent
  <2>5. PICK d \in Batches, occasion \in Occasions :
          \E enrollments \in SUBSET Enrollments :
            Select(d, occasion, enrollments)
    BY <2>1, <2>3, <2>4
    DEF Next, LinkStep, reminderVars, Dispatched, BatchFails, Claim,
      Record, PollerFails
  <2>6. PICK enrollments : Select(d, occasion, enrollments)
    BY <2>5
  <2>7. b = d /\ Enrollment(c) \in enrollments
    BY <2>1, <2>6 DEF Select
  <2>8. batch'[d] = [pc |-> "enqueue", occasion |-> occasion,
                     enrollments |-> enrollments]
    BY <2>6 DEF Select, RemindersInv, TypeOK
  <2> QED
    BY <2>7, <2>8 DEF NoBatch
<1>5. CASE call'[c].pc \notin Answered
  BY <1>3, <1>4, <1>5 DEF Answered
<1>6. CASE call'[c].pc \in Answered /\ call[c].pc \in Answered
  <2>1. call'[c].pc = call[c].pc
    BY <1>6, AnswersStay
  <2>2. call[c].pc # "none"
    BY <1>6 DEF Answered
  <2>3. call[c].pc \in {"queued", "suppressed"} =>
          \E row \in outbox' : row.call = c
    BY RowsStay DEF RemindersInv, CallsKnown
  <2>4. call[c].pc = "duplicate" =>
          \E row \in outbox' :
             KeyOf(row) = Key(batch[b].occasion, Enrollment(c))
    BY RowsStay DEF RemindersInv, CallsKnown, Duplicate, KeyOf
  <2> QED
    BY <1>3, <2>1, <2>2, <2>3, <2>4
<1>7. CASE call'[c].pc \in Answered /\ Insert(c)
  <2>1. PICK outcome \in Answered, body \in Text :
             /\ call' = [call EXCEPT ![c] = [NoCall EXCEPT !.pc = outcome]]
             /\ outbox' = IF outcome = "duplicate" THEN outbox
                          ELSE outbox \cup {NewRow(c, outcome, body)}
             /\ outcome = "duplicate" <=> Duplicate(batch[b].occasion, Enrollment(c))
    BY <1>7, CallInserts
  <2>2. call'[c].pc = outcome
    BY <2>1 DEF RemindersInv, TypeOK, NoCall
  <2>3. call[c].pc # "none"
    BY <1>7 DEF Insert
  <2>4. NewRow(c, outcome, body).call = c
    BY DEF NewRow
  <2>5. outcome = "duplicate" =>
          \E row \in outbox' :
             KeyOf(row) = Key(batch[b].occasion, Enrollment(c))
    BY <2>1 DEF Duplicate
  <2> QED
    BY <1>3, <2>1, <2>2, <2>3, <2>4, <2>5 DEF Answered
<1> QED
  BY <1>5, <1>6, <1>7, AnswersStay

LEMMA KeysStep ==
    ASSUME RemindersInv, Next
    PROVE  KeysDistinct'
<1>1. /\ outbox \subseteq Row
      /\ \A p, q \in outbox :
           KeyOf(p) = KeyOf(q) => p = q
  BY DEF RemindersInv, TypeOK, KeysDistinct
<1>2. ASSUME NEW c \in Calls, Insert(c)
      PROVE  KeysDistinct'
  <2>1. PICK outcome \in Answered, body \in Text :
             /\ outbox' = IF outcome = "duplicate" THEN outbox
                          ELSE outbox \cup {NewRow(c, outcome, body)}
             /\ outcome = "duplicate"
                  <=> Duplicate(batch[BatchOf(c)].occasion, Enrollment(c))
    BY <1>2, CallInserts
  <2>2. CASE outcome = "duplicate"
    BY <1>1, <2>1, <2>2 DEF KeysDistinct, KeyOf, Key, Child, Enrollment
  <2>3. CASE outcome # "duplicate"
    <3> DEFINE row == NewRow(c, outcome, body)
    <3>1. outbox' = outbox \cup {row}
      BY <2>1, <2>3
    <3>2. row.call = c /\ row.occasion = batch[BatchOf(c)].occasion
      BY DEF NewRow
    <3> HIDE DEF row
    <3>3. \A p \in outbox : KeyOf(p) # KeyOf(row)
      BY <2>1, <2>3, <3>2 DEF Duplicate, KeyOf
    <3>4. \A p, q \in outbox' :
            KeyOf(p) = KeyOf(q) => p = q
      BY <1>1, <3>1, <3>3
    <3> QED
      BY <3>4 DEF KeysDistinct, KeyOf, Key, Child, Enrollment
  <2> QED
    BY <2>2, <2>3
<1>3. CASE (\E row \in outbox : Polled(row))
             \/ (\E g \in Guardians : WithdrawConsent(g))
  <2>1. PICK f \in [outbox -> Row] :
          /\ outbox' = {f[row] : row \in outbox}
          /\ \A row \in outbox : RowAfter(row, f[row])
    BY <1>3, RowsMove
  <2>2. \A p \in outbox : KeyOf(f[p]) = KeyOf(p)
    BY <2>1 DEF RowAfter, KeyOf
  <2>3. \A p, q \in outbox' :
          KeyOf(p) = KeyOf(q) => p = q
    BY <1>1, <2>1, <2>2
  <2> QED
    BY <2>3 DEF KeysDistinct, KeyOf, Key, Child, Enrollment
<1>4. CASE UNCHANGED outbox
  BY <1>1, <1>4 DEF KeysDistinct, KeyOf, Key, Child, Enrollment
<1> QED
  BY <1>2, <1>3, <1>4, RowsElse

LEMMA RowsStep ==
    ASSUME RemindersInv, Next
    PROVE  RowsKnown'
<1>1. ASSUME NEW q \in outbox'
      PROVE  /\ call'[q.call].pc \in {"queued", "suppressed"}
             /\ q.occasion = batch'[BatchOf(q.call)].occasion
             /\ q.segments = analyseSms(q.body)
             /\ Pending(q) => q.to \in Guardians
  <2>1. ASSUME NEW p \in outbox, RowAfter(p, q)
        PROVE  /\ call'[q.call].pc \in {"queued", "suppressed"}
               /\ q.occasion = batch'[BatchOf(q.call)].occasion
               /\ q.segments = analyseSms(q.body)
               /\ Pending(q) => q.to \in Guardians
    <3>1. /\ q.call = p.call /\ q.occasion = p.occasion
          /\ q.to = p.to /\ q.body = p.body /\ q.segments = p.segments
          /\ Pending(q) => Pending(p)
      BY <2>1 DEF RowAfter
    <3>2. /\ call[p.call].pc \in {"queued", "suppressed"}
          /\ p.occasion = batch[BatchOf(p.call)].occasion
          /\ p.segments = analyseSms(p.body)
          /\ Pending(p) => p.to \in Guardians
      BY DEF RemindersInv, RowsKnown
    <3>3. PICK c \in Calls : c = p.call
      BY DEF RemindersInv, TypeOK, Row
    <3>4. call'[c].pc = call[c].pc
      BY <3>2, <3>3, AnswersStay DEF Answered
    <3>5. BatchOf(c) \in Batches /\ batch[BatchOf(c)] # NoBatch
      BY <3>2, <3>3, CallTyped DEF RemindersInv, CallsKnown
    <3>6. batch'[BatchOf(c)].occasion = batch[BatchOf(c)].occasion
      BY <3>5, BatchesStay
    <3> QED
      BY <3>1, <3>2, <3>3, <3>4, <3>6
  <2>2. ASSUME NEW c \in Calls, NEW outcome \in {"queued", "suppressed"},
               NEW body \in Text, Insert(c), q = NewRow(c, outcome, body),
               call'[c].pc = outcome, outcome = "queued" => call[c].to # None
        PROVE  /\ call'[q.call].pc \in {"queued", "suppressed"}
               /\ q.occasion = batch'[BatchOf(q.call)].occasion
               /\ q.segments = analyseSms(q.body)
               /\ Pending(q) => q.to \in Guardians
    <3>1. /\ q.call = c /\ q.occasion = batch[BatchOf(c)].occasion
          /\ q.body = body /\ q.segments = analyseSms(body)
          /\ q.status = outcome /\ q.to = call[c].to /\ ~q.claimed
      BY <2>2 DEF NewRow
    <3>2. call[c].to \in Guardians \cup {None}
      BY CallTyped DEF RemindersInv
    <3>3. UNCHANGED batch
      BY <2>2 DEF Insert
    <3> QED
      BY <2>2, <3>1, <3>2, <3>3 DEF Pending
  <2> QED
    BY <2>1, <2>2, RowsStay
<1> QED
  BY <1>1 DEF RowsKnown, Pending, BatchOf, analyseSms, FitsGsm7, SegmentsOf, Gsm7Length,
              Ucs2Length, Pages

LEMMA DoneStep ==
    ASSUME RemindersInv, Next
    PROVE  DoneCounted'
<1> SUFFICES ASSUME NEW b \in Batches, batch'[b].pc = "done"
             PROVE  /\ \A c \in CallsOf(b)' : call'[c].pc \in Answered
                    /\ log'[b] = Counts(b)'
  BY DEF DoneCounted, Answered
<1>1. batch[b] # NoBatch
  <2>1. ASSUME NEW d \in Batches, NEW occasion \in Occasions, NEW enrollments,
               Select(d, occasion, enrollments)
        PROVE  batch'[d].pc = "enqueue" /\ \A e \in Batches \ {d} :
                 batch'[e] = batch[e]
    BY <2>1 DEF Select, RemindersInv, TypeOK
  <2>2. batch'[b] = NoBatch => FALSE
    BY DEF NoBatch
  <2>3. UNCHANGED batch => batch[b] # NoBatch
    BY <2>2
  <2>4. \A d \in Batches : Dispatched(d) \/ BatchFails(d) => batch[b] # NoBatch
    BY <2>2 DEF Dispatched, BatchFails, NoBatch, RemindersInv, TypeOK
  <2> QED
    BY <2>1, <2>2, <2>3, <2>4
    DEF Next, LinkStep, reminderVars, Resolve, Insert, CallFails, Claim,
      Record, PollerFails,
        WithdrawConsent
<1>2. /\ batch'[b].enrollments = batch[b].enrollments
      /\ batch[b].pc = "done" \/ Dispatched(b)
      /\ batch[b].pc = "done" => log'[b] = log[b]
  BY <1>1, BatchesStay
<1>3. /\ \A c \in CallsOf(b) : call[c].pc \in Answered
      /\ log'[b] = Counts(b)
  <2>1. CASE batch[b].pc = "done"
    BY <1>2, <2>1 DEF RemindersInv, DoneCounted
  <2>2. CASE Dispatched(b)
    BY <2>2 DEF Dispatched, RemindersInv, TypeOK
  <2> QED
    BY <1>2, <2>1, <2>2
<1>4. CallsOf(b)' = CallsOf(b) /\ CallsOf(b) \subseteq Calls
  BY <1>2, BatchTyped DEF CallsOf, Calls, RemindersInv
<1>5. \A c \in CallsOf(b) : call'[c].pc = call[c].pc
  BY <1>3, <1>4, AnswersStay
<1>6. \A outcome : {c \in CallsOf(b) : call'[c].pc = outcome}
                     = {c \in CallsOf(b) : call[c].pc = outcome}
  BY <1>5
<1>7. Counts(b)' = Counts(b)
  BY <1>2, <1>4, <1>6 DEF Counts, Outcomes
<1> QED
  BY <1>3, <1>4, <1>5, <1>7
-----------------------------------------------------------------------------
\* A consent that was read is there, or its withdrawal marks the call, or the
\* row that waits or a poller may put back.
LEMMA ConsentsStep ==
    ASSUME RemindersInv, Next
    PROVE  ConsentRead' /\ ConsentHeld'
<1>1. /\ call \in [Calls -> Call \cup {NoCall}]
      /\ outbox \subseteq Row
  BY DEF RemindersInv, TypeOK
<1>2. ASSUME NEW g \in Guardians, guardian[g].consent, ~guardian'[g].consent
      PROVE  WithdrawConsent(g)
  <2>1. ~UNCHANGED linkVars
    BY <1>2 DEF linkVars
  <2>2. \A h \in Guardians : WithdrawConsent(h) => h = g
    <3>1. \A h \in Guardians \ {g} :
            Withdraw(h) => guardian'[g] = guardian[g]
      BY LinksPart DEF Withdraw, LinksInv, LinksTypeOK
    <3> QED
      BY <1>2, <3>1 DEF WithdrawConsent
  <2>3. ASSUME LinkStep
        PROVE  FALSE
    <3>1. LinksMove
      BY <2>3 DEF LinkStep, LinksMove
    <3>2. Withdraw(g)
      BY <1>2, <3>1, LinksPart, GuardiansMove
    <3>3. /\ g \in withdrawing /\ withdrawing' = withdrawing \ {g}
          /\ guardian' = [guardian EXCEPT ![g].consent = FALSE]
      BY <3>2 DEF Withdraw
    <3>4. UNCHANGED guardian
      BY <2>3, <3>3
      DEF LinkStep, LinkRequest, LinkStart, UpdateStart, SetPrimaryStart,
          InsertLink, UpdateLink, SwapRead, Swap, LinkFails, Unlink,
          CreateGuardian, UpdatePhone, Archive, Restore, Grant,
          WithdrawStart, WithdrawFails, KeepGuardians
    <3> QED
      BY <1>2, <3>4
  <2> QED
    BY <2>1, <2>2, <2>3
    DEF Next, Select, Resolve, Insert, CallFails, Dispatched,
        BatchFails, Claim,
      Record, PollerFails
<1>3. ConsentRead'
  <2> SUFFICES ASSUME NEW c \in Calls, call'[c].to # None
               PROVE  guardian'[call'[c].to].consent \/ call'[c].withdrawn
    BY DEF ConsentRead
  <2>1. ASSUME NEW d \in Calls, Resolve(d), call'[c] # call[c]
        PROVE  guardian'[call'[c].to].consent
    <3>1. PICK to \in Recipients(Child(d)) \cup {None} :
            call' = [call EXCEPT ![d] = [pc |-> "insert", withdrawn |-> FALSE,
                                         to |-> to]]
      BY <2>1 DEF Resolve
    <3>2. call'[c].to = to
      BY <1>1, <2>1, <3>1
    <3>3. \A g \in Recipients(Child(d)) : guardian[g].consent
      BY DEF Recipients
    <3> QED
      BY <2>1, <3>1, <3>2, <3>3 DEF Resolve, linkVars
  <2>2. \A pc \in {"resolve", "queued", "suppressed", "duplicate", "failed"} :
          [NoCall EXCEPT !.pc = pc].to = None
    BY DEF NoCall
  <2>3. ASSUME NEW d \in Calls, Insert(d) \/ CallFails(d)
        PROVE  call'[c] = call[c]
    <3>1. PICK pc \in {"queued", "suppressed", "duplicate", "failed"} :
            call' = [call EXCEPT ![d] = [NoCall EXCEPT !.pc = pc]]
      BY <2>3, CallInserts DEF CallFails, Answered
    <3> QED
      BY <1>1, <2>2, <3>1
  <2>4. ASSUME NEW b \in Batches, NEW occasion \in Occasions, NEW enrollments,
               Select(b, occasion, enrollments)
        PROVE  call'[c] = call[c]
    BY <1>1, <2>2, <2>4 DEF Select
  <2>5. ASSUME NEW g \in Guardians, WithdrawConsent(g)
        PROVE  guardian'[call'[c].to].consent \/ call'[c].withdrawn
    <3>1. CASE call[c].to = g
      <4>1. call[c] \in Call
        BY <1>1, <3>1, NullAssumption DEF NoCall
      <4>2. [call[c] EXCEPT !.withdrawn = TRUE].withdrawn
        BY <4>1 DEF Call
      <4> QED
        BY <2>5, <3>1, <4>2 DEF WithdrawConsent
    <3>2. CASE call[c].to # g
      <4>1. call'[c] = call[c]
        BY <2>5, <3>2 DEF WithdrawConsent
      <4>2. call[c].to \in Guardians
        BY <4>1, CallTyped DEF RemindersInv
      <4>3. guardian'[call[c].to] = guardian[call[c].to]
        BY <2>5, <3>2, <4>2, LinksPart
        DEF WithdrawConsent, Withdraw, LinksInv, LinksTypeOK
      <4> QED
        BY <4>1, <4>3 DEF RemindersInv, ConsentRead
    <3> QED
      BY <3>1, <3>2
  <2>6. ASSUME call'[c] = call[c], \A g \in Guardians : ~WithdrawConsent(g)
        PROVE  guardian'[call'[c].to].consent \/ call'[c].withdrawn
    <3>1. call[c].to \in Guardians
      BY <2>6, CallTyped DEF RemindersInv
    <3> QED
      BY <1>2, <2>6, <3>1 DEF RemindersInv, ConsentRead
  <2> QED
    BY <2>1, <2>3, <2>4, <2>5, <2>6
    DEF Next, LinkStep, reminderVars, Dispatched, BatchFails, Claim,
      Record, PollerFails
<1>4. ConsentHeld'
  <2> SUFFICES ASSUME NEW q \in outbox'
               PROVE  /\ Pending(q) => guardian'[q.to].consent \/ q.withdrawn
                      /\ q.claimed => \/ q.status = "sending"
                                      \/ q.status = "cancelled" /\ q.withdrawn
    BY DEF ConsentHeld, Pending
  <2>1. ASSUME NEW p \in outbox, RowAfter(p, q)
        PROVE  Pending(q) => guardian'[q.to].consent \/ q.withdrawn
    <3> SUFFICES ASSUME Pending(q), ~q.withdrawn
                 PROVE  guardian'[q.to].consent
      OBVIOUS
    <3>1. /\ Pending(p) /\ ~p.withdrawn /\ q.to = p.to
          /\ \A g \in Guardians : WithdrawConsent(g) => p.to # g
      BY <2>1 DEF RowAfter
    <3>2. p.to \in Guardians /\ guardian[p.to].consent
      BY <3>1 DEF RemindersInv, RowsKnown, ConsentHeld
    <3> QED
      BY <1>2, <3>1, <3>2
  <2>2. ASSUME NEW c \in Calls, NEW outcome \in {"queued", "suppressed"},
               NEW body \in Text, Insert(c), q = NewRow(c, outcome, body),
               outcome = "queued" => call[c].to # None
        PROVE  /\ ~q.claimed
               /\ Pending(q) => guardian'[q.to].consent \/ q.withdrawn
    <3>1. /\ q.status = outcome /\ q.to = call[c].to
          /\ q.withdrawn = call[c].withdrawn /\ q.claimed = FALSE
      BY <2>2 DEF NewRow
    <3>2. UNCHANGED guardian
      BY <2>2 DEF Insert, linkVars
    <3> QED
      BY <2>2, <3>1, <3>2 DEF RemindersInv, ConsentRead, Pending
  <2> QED
    BY <2>1, <2>2, RowsStay DEF RowAfter
<1> QED
  BY <1>3, <1>4
-----------------------------------------------------------------------------
(* What an entry accounts for.                                             *)

LEMMA OneRowEach ==
    ASSUME RemindersInv, NEW occasion \in Occasions, NEW e \in Enrollments
    PROVE  Cardinality(RowsFor(occasion, e)) <= 1
<1>1. CASE RowsFor(occasion, e) = {}
  <2>1. Cardinality({}) = 0
    BY FS_EmptySet
  <2> QED
    BY <1>1, <2>1
<1>2. ASSUME NEW row \in RowsFor(occasion, e)
      PROVE  Cardinality(RowsFor(occasion, e)) <= 1
  <2>1. \A p \in RowsFor(occasion, e) : p = row
    <3>1. \A p \in RowsFor(occasion, e) :
            p \in outbox /\ KeyOf(p) = Key(occasion, e)
      BY DEF RowsFor, KeyOf, Key, Child
    <3> QED
      BY <3>1 DEF RemindersInv, KeysDistinct
  <2>2. RowsFor(occasion, e) = {row}
    BY <2>1
  <2>3. Cardinality({row}) = 1
    BY FS_Singleton
  <2> QED
    BY <2>2, <2>3
<1>3. RowsFor(occasion, e) = {} \/ \E row : row \in RowsFor(occasion, e)
  OBVIOUS
<1> QED
  BY <1>1, <1>2, <1>3

LEMMA OutcomesFinite ==
    ASSUME RemindersInv, NEW b \in Batches
    PROVE  /\ IsFiniteSet(CallsOf(b)) /\ CallsOf(b) \subseteq Calls
           /\ Cardinality(CallsOf(b)) = Cardinality(batch[b].enrollments)
           /\ \A outcome : /\ IsFiniteSet(Outcomes(b, outcome))
                           /\ Outcomes(b, outcome) \subseteq CallsOf(b)
                           /\ Cardinality(Outcomes(b, outcome)) \in Nat
<1>1. IsFiniteSet(batch[b].enrollments) /\ IsFiniteSet({b})
  BY BatchTyped, FS_Singleton DEF RemindersInv
<1>2. IsFiniteSet(CallsOf(b))
  BY <1>1, FS_Product DEF CallsOf
<1>3. CallsOf(b) \subseteq Calls
  BY BatchTyped DEF RemindersInv, CallsOf, Calls
<1> DEFINE f == [e \in batch[b].enrollments |-> <<b, e>>]
<1>4. /\ f \in Injection(batch[b].enrollments, CallsOf(b))
      /\ f \in Surjection(batch[b].enrollments, CallsOf(b))
  BY DEF Injection, Surjection, IsInjective, CallsOf
<1>5. Cardinality(CallsOf(b)) = Cardinality(batch[b].enrollments)
  BY <1>2, <1>4, FS_Injection
<1>6. \A outcome : Outcomes(b, outcome) \subseteq CallsOf(b)
  BY DEF Outcomes
<1>7. \A outcome : IsFiniteSet(Outcomes(b, outcome))
  BY <1>2, <1>6, FS_Subset
<1> QED
  BY <1>2, <1>3, <1>5, <1>6, <1>7, FS_CardinalityType

\* The rows of a batch are as many as its calls that left one.
LEMMA RowsCounted ==
    ASSUME RemindersInv, NEW b \in Batches
    PROVE  Cardinality({row \in outbox : BatchOf(row.call) = b})
             = Cardinality(Outcomes(b, "queued") \cup Outcomes(b, "suppressed"))
<1> DEFINE rows == {row \in outbox : BatchOf(row.call) = b}
           answers == Outcomes(b, "queued") \cup Outcomes(b, "suppressed")
           f == [row \in rows |-> row.call]
<1>1. IsFiniteSet(answers)
  BY OutcomesFinite, FS_Union
<1>2. ASSUME NEW row \in rows
      PROVE  /\ row.call \in answers
             /\ row.occasion = batch[b].occasion
  <2>1. PICK c \in Calls : c = row.call
    BY DEF RemindersInv, TypeOK, Row
  <2>2. /\ call[c].pc \in {"queued", "suppressed"} /\ BatchOf(c) = b
        /\ row.occasion = batch[b].occasion
    BY <2>1 DEF RemindersInv, RowsKnown
  <2>3. Enrollment(c) \in batch[b].enrollments /\ c = <<b, Enrollment(c)>>
    BY <2>2, CallTyped DEF RemindersInv, CallsKnown
  <2> QED
    BY <2>1, <2>2, <2>3 DEF Outcomes, CallsOf
<1>3. \A p, q \in rows : p.call = q.call => p = q
  BY <1>2 DEF RemindersInv, KeysDistinct, KeyOf
<1>4. \A c \in answers : \E row \in rows : row.call = c
  <2> TAKE c \in answers
  <2>1. c \in Calls /\ call[c].pc \in {"queued", "suppressed"} /\ c \in CallsOf(b)
    BY OutcomesFinite DEF Outcomes
  <2>2. BatchOf(c) = b
    BY <2>1 DEF CallsOf, BatchOf
  <2> QED
    BY <2>1, <2>2 DEF RemindersInv, CallsKnown
<1> HIDE DEF rows, answers
<1>5. f \in Injection(rows, answers)
  BY <1>2, <1>3 DEF Injection, IsInjective
<1>6. f \in Surjection(rows, answers)
  BY <1>2, <1>4 DEF Surjection
<1>7. Cardinality(rows) = Cardinality(answers)
  BY <1>1, <1>5, <1>6, FS_Injection
<1> QED
  BY <1>7 DEF rows, answers

LEMMA Accounted == RemindersInv => BatchAccounted
<1> SUFFICES ASSUME RemindersInv
             PROVE  BatchAccounted
  OBVIOUS
<1>1. ASSUME NEW b \in Batches, batch[b].pc = "done"
      PROVE  /\ log[b].requested
                  = log[b].queued + log[b].suppressed + log[b].duplicates
             /\ log[b].queued + log[b].suppressed
                  = Cardinality({row \in outbox : BatchOf(row.call) = b})
             /\ \A e \in batch[b].enrollments : RowsFor(batch[b].occasion, e) # {}
  <2> DEFINE queued == Outcomes(b, "queued")
             suppressed == Outcomes(b, "suppressed")
             duplicates == Outcomes(b, "duplicate")
  <2>1. /\ \A c \in CallsOf(b) : call[c].pc \in Answered
        /\ log[b] = Counts(b)
    BY <1>1 DEF RemindersInv, DoneCounted
  <2>2. /\ log[b].requested = Cardinality(CallsOf(b))
        /\ log[b].queued = Cardinality(queued)
        /\ log[b].suppressed = Cardinality(suppressed)
        /\ log[b].duplicates = Cardinality(duplicates)
    BY <2>1, OutcomesFinite DEF Counts
  <2>3. /\ IsFiniteSet(queued) /\ IsFiniteSet(suppressed) /\ IsFiniteSet(duplicates)
        /\ Cardinality(queued) \in Nat /\ Cardinality(suppressed) \in Nat
        /\ Cardinality(duplicates) \in Nat
    BY OutcomesFinite
  <2>4. /\ CallsOf(b) = (queued \cup suppressed) \cup duplicates
        /\ queued \cap suppressed = {}
        /\ (queued \cup suppressed) \cap duplicates = {}
    BY <2>1 DEF Outcomes, Answered
  <2>5. ASSUME NEW e \in batch[b].enrollments
        PROVE  RowsFor(batch[b].occasion, e) # {}
    <3> DEFINE c == <<b, e>>
    <3>1. c \in CallsOf(b) /\ c \in Calls /\ BatchOf(c) = b /\ Enrollment(c) = e
      BY OutcomesFinite DEF CallsOf, BatchOf, Enrollment
    <3> HIDE DEF c
    <3>2. CASE call[c].pc = "duplicate"
      <4>1. PICK row \in outbox : KeyOf(row) = Key(batch[b].occasion, e)
        BY <3>1, <3>2 DEF RemindersInv, CallsKnown, Duplicate
      <4>2. row \in RowsFor(batch[b].occasion, e)
        BY <4>1 DEF RowsFor, KeyOf, Key, Child
      <4> QED
        BY <4>2
    <3>3. CASE call[c].pc \in {"queued", "suppressed"}
      <4>1. PICK row \in outbox : row.call = c
        BY <3>1, <3>3 DEF RemindersInv, CallsKnown
      <4>2. row.occasion = batch[b].occasion
        BY <3>1, <4>1 DEF RemindersInv, RowsKnown
      <4>3. row \in RowsFor(batch[b].occasion, e)
        BY <3>1, <4>1, <4>2 DEF RowsFor, Child
      <4> QED
        BY <4>3
    <3> QED
      BY <2>1, <3>1, <3>2, <3>3 DEF Answered
  <2> HIDE DEF queued, suppressed, duplicates
  <2>6. /\ IsFiniteSet(queued \cup suppressed)
        /\ Cardinality(queued \cup suppressed)
             = Cardinality(queued) + Cardinality(suppressed)
    <3>1. /\ IsFiniteSet(queued \cup suppressed)
          /\ Cardinality(queued \cup suppressed)
               = Cardinality(queued) + Cardinality(suppressed)
                 - Cardinality(queued \cap suppressed)
      BY <2>3, FS_Union
    <3>2. Cardinality(queued \cap suppressed) = 0
      BY <2>4, FS_EmptySet
    <3> QED
      BY <2>3, <3>1, <3>2
  <2>7. Cardinality(CallsOf(b))
          = Cardinality(queued) + Cardinality(suppressed) + Cardinality(duplicates)
    <3>1. Cardinality((queued \cup suppressed) \cup duplicates)
            = Cardinality(queued \cup suppressed) + Cardinality(duplicates)
              - Cardinality((queued \cup suppressed) \cap duplicates)
      BY <2>3, <2>6, FS_Union
    <3>2. Cardinality((queued \cup suppressed) \cap duplicates) = 0
      BY <2>4, FS_EmptySet
    <3> QED
      BY <2>3, <2>4, <2>6, <3>1, <3>2
  <2>8. Cardinality({row \in outbox : BatchOf(row.call) = b})
          = Cardinality(queued \cup suppressed)
    BY RowsCounted DEF queued, suppressed
  <2> QED
    BY <2>2, <2>5, <2>6, <2>7, <2>8
<1> QED
  BY <1>1, OneRowEach DEF BatchAccounted

-----------------------------------------------------------------------------
LEMMA InitInv == Init => RemindersInv
<1> SUFFICES ASSUME Init
             PROVE  RemindersInv
  OBVIOUS
<1>1. TypeOK
  BY DEF Init, LinksInit, TypeOK, LinksTypeOK
<1>2. LinksKnown /\ SmsHasConsent
  <2>1. \A pair \in Pairs : link[pair].sms # TRUE
    BY NullAssumption DEF Init, LinksInit, NoLink
  <2> QED
    BY <2>1 DEF Init, LinksInit, LinksKnown, SmsHasConsent
<1>3. KeysDistinct /\ RowsKnown /\ ConsentHeld
  BY DEF Init, KeysDistinct, RowsKnown, ConsentHeld
<1>4. CallsKnown /\ ConsentRead
  BY DEF Init, CallsKnown, ConsentRead, NoCall
<1>5. DoneCounted
  BY DEF Init, DoneCounted, NoBatch
<1> QED
  BY <1>1, <1>2, <1>3, <1>4, <1>5 DEF RemindersInv

LEMMA StepKeepsInv == RemindersInv /\ [Next]_vars => RemindersInv'
<1>1. ASSUME RemindersInv, Next
      PROVE  RemindersInv'
  BY <1>1, TypeKept, KeysStep, CallsStep, RowsStep, DoneStep, ConsentsStep
  DEF RemindersInv
<1>2. ASSUME RemindersInv, UNCHANGED vars
      PROVE  RemindersInv'
  <2>1. LinksInv'
    BY <1>2, LinksPart, LinksStep DEF vars, linkVars
  <2>2. TypeOK'
    BY <1>2, <2>1 DEF vars, RemindersInv, TypeOK, LinksInv
  <2>3. KeysDistinct' /\ RowsKnown' /\ ConsentHeld'
    BY <1>2 DEF vars, RemindersInv, KeysDistinct, RowsKnown, ConsentHeld
  <2>4. CallsKnown' /\ ConsentRead'
    BY <1>2 DEF vars, RemindersInv, CallsKnown, Duplicate, ConsentRead
  <2>5. DoneCounted'
    BY <1>2 DEF vars, RemindersInv, DoneCounted, CallsOf, Counts, Outcomes
  <2> QED
    BY <2>1, <2>2, <2>3, <2>4, <2>5 DEF RemindersInv, LinksInv
<1> QED
  BY <1>1, <1>2

\* The whole invariant: what requests on links, calls, rows and batches know of
\* each other.
THEOREM RemindersSafe == Spec => []RemindersInv
BY InitInv, StepKeepsInv, PTL DEF Spec

\* A link is set to receive SMS only on a consent that is there, or that was
\* withdrawn between the read and the write of that very link: revokeSmsConsent
\* reaches every other.
THEOREM ConsentKept == Spec => []SmsHasConsent
<1>1. RemindersInv => SmsHasConsent
  BY DEF RemindersInv
<1> QED
  BY <1>1, RemindersSafe, PTL

\* Who is texted about a child is displaced only by name, or was archived.
THEOREM PrimaryStays == Spec => PrimaryKept
<1>1. RemindersInv /\ [Next]_vars =>
        [\A pair \in Pairs :
           link[pair].primary /\ ~link'[pair].primary
           => \/ link'[pair] = NoLink
              \/ guardian[GuardianOf(pair)].archived
              \/ \E r \in Requests :
                   /\ req[r] # Idle /\ req'[r] = Idle
                   /\ \/ req[r].pair = pair /\ req[r].primary = FALSE
                      \/ req[r].current = pair /\ req[r].overtaken]_linkVars
  <2>1. RemindersInv /\ Next =>
          \A pair \in Pairs :
            link[pair].primary /\ ~link'[pair].primary
              => Displaced(pair) \/ UNCHANGED linkVars
    BY NextMoves, PrimaryStep, LinksPart
  <2>2. UNCHANGED vars => UNCHANGED linkVars
    BY DEF vars, linkVars
  <2> QED
    BY <2>1, <2>2 DEF Displaced
<1> QED
  BY <1>1, RemindersSafe, PTL DEF Spec, PrimaryKept

\* A batch that is done has one answer for each enrollment it asked for, as many
\* rows as it says, and each has a row; no student has two fee reminders for a
\* term, and no enrollment two alerts for a date, whatever fails or overlaps.
THEOREM BatchesAccounted == Spec => []BatchAccounted
BY Accounted, RemindersSafe, PTL

\* No row that waits to be sent outlives the consent of its guardian, but for
\* the row that a call wrote on a consent it had read before, and the one that a
\* poller had claimed before the withdrawal and put back after it.
THEOREM WithdrawalSilences == Spec => []WithdrawnIsSilent
<1>1. RemindersInv => WithdrawnIsSilent
  BY DEF RemindersInv, ConsentHeld, Pending, WithdrawnIsSilent
<1> QED
  BY <1>1, RemindersSafe, PTL

\* A row is priced by the least number of segments that hold its body.
THEOREM RowsArePriced == Spec => []PricedAsSent
<1>1. ASSUME RemindersInv, NEW row \in outbox
      PROVE  LET length == IF FitsGsm7(row.body) THEN Gsm7Length(row.body)
                           ELSE Ucs2Length(row.body) IN
             /\ row.segments >= 1 /\ length <= Capacity(row.body, row.segments)
             /\ row.segments > 1 => length > Capacity(row.body, row.segments - 1)
  <2>1. row.body \in Text
    BY <1>1 DEF RemindersInv, TypeOK, Row
  <2>2. row.segments = analyseSms(row.body)
    BY <1>1 DEF RemindersInv, RowsKnown
  <2> QED
    BY <2>1, <2>2, Priced
<1>2. RemindersInv => PricedAsSent
  BY <1>1 DEF PricedAsSent
<1> QED
  BY <1>2, RemindersSafe, PTL
=============================================================================
