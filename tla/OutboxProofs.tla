----------------------------- MODULE OutboxProofs -----------------------------
(***************************************************************************)
(* Proofs about Outbox, for any number of guardians, enqueue calls,        *)
(* pollers and messages, and any size of a batch.                          *)
(***************************************************************************)
EXTENDS Outbox, FiniteSetTheorems, TLAPS

\* A row exists when it has a status of the table; else it has no recipient,
\* no key and no attempts.
LEMMA RowFields ==
    ASSUME TypeOK, NEW m \in MessageIds
    PROVE  /\ m \in Existing => messages[m] \in Message
           /\ m \in Existing <=> messages[m].status # "none"
           /\ m \in Existing <=> messages[m].status \in Statuses
           /\ messages[m].attemptCount \in 0 .. MAX_ATTEMPTS
           /\ m \notin Existing =>
                messages[m] = NoMessage /\ messages[m].to = None
BY DEF TypeOK, Existing, Message, NoMessage, Statuses, MAX_ATTEMPTS

\* What Moved changes, and what it keeps.
LEMMA MovedRow ==
    ASSUME NEW row \in Message, NEW status \in Statuses,
           NEW n \in 0 .. MAX_ATTEMPTS, NEW due \in BOOLEAN
    PROVE  Moved(row, status, n, due) \in Message
BY DEF Moved, Message

LEMMA InvInit == Init => OutboxInv
<1> SUFFICES ASSUME Init PROVE OutboxInv
  OBVIOUS
<1> USE DEF Init
<1>1. TypeOK
  BY DEF TypeOK
<1>2. Existing = {} /\ 0 \in 0 .. MaxMessages /\ 1 .. 0 = {}
  BY BoundAssumption DEF Existing
<1>3. RowsDense /\ KeysUnique
  BY <1>2 DEF RowsDense, KeysUnique
<1>4. NoDoubleClaim /\ HandedCounted /\ AnswerHeld /\ AttemptsLeft
  BY DEF NoDoubleClaim, HandedCounted, AnswerHeld, AttemptsLeft, NoMessage
<1>5. ConsentAsked
  BY NullAssumption DEF ConsentAsked, NoMessage, NoCall
<1>6. QED
  BY <1>1, <1>3, <1>4, <1>5 DEF OutboxInv
-----------------------------------------------------------------------------
\* As long as rows, batches and the gateway's counters stay as they are, only
\* the types and the consent need an argument.
LEMMA OnlyRowsMatter ==
    ASSUME OutboxInv, UNCHANGED <<messages, batch, handed, unanswered>>,
           TypeOK', ConsentAsked'
    PROVE  OutboxInv'
BY DEF OutboxInv, RowsDense, NoDoubleClaim, AttemptsLeft, HandedCounted,
       AnswerHeld, KeysUnique, Existing

LEMMA StutterKeepsInv ==
    ASSUME OutboxInv, UNCHANGED vars
    PROVE  OutboxInv'
<1>1. TypeOK' /\ ConsentAsked'
  BY DEF OutboxInv, TypeOK, ConsentAsked, vars
<1>2. QED
  BY <1>1, OnlyRowsMatter DEF vars

LEMMA ResolveKeepsInv ==
    ASSUME OutboxInv, NEW r \in Enqueuers, Resolve(r)
    PROVE  OutboxInv'
<1> USE DEF KeepConsent, KeepGateway
<1>1. PICK to \in Recipients, key \in Keys \cup {None}, refused \in BOOLEAN :
         call' = [call EXCEPT ![r] =
                    [to |-> to, dedupeKey |-> key,
                     suppressed |-> refused \/ to \in Guardians \ consent]]
  BY DEF Resolve
<1>2. UNCHANGED <<messages, batch, handed, unanswered, stranded, consent,
                  withdrawing, consented>>
  BY DEF Resolve
<1>3. TypeOK'
  <2>1. [to |-> to, dedupeKey |-> key,
         suppressed |-> refused \/ to \in Guardians \ consent] \in Call
    <3>1. (refused \/ to \in Guardians \ consent) \in BOOLEAN
      OBVIOUS
    <3>2. QED
      BY <3>1 DEF Call
  <2>2. call' \in [Enqueuers -> Call \cup {NoCall}]
    BY <1>1, <2>1 DEF OutboxInv, TypeOK
  <2>3. QED
    BY <1>2, <2>2 DEF OutboxInv, TypeOK
<1>4. ConsentAsked'
  <2>1. ASSUME NEW s \in Enqueuers, call'[s].to \in Guardians,
               ~call'[s].suppressed
        PROVE  call'[s].to \in consented
    BY <1>1, <2>1 DEF OutboxInv, TypeOK, ConsentAsked
  <2>2. QED
    BY <1>2, <2>1 DEF OutboxInv, ConsentAsked
<1>5. QED
  BY <1>2, <1>3, <1>4, OnlyRowsMatter

LEMMA EnqueueFailsKeepsInv ==
    ASSUME OutboxInv, NEW r \in Enqueuers, EnqueueFails(r)
    PROVE  OutboxInv'
<1> USE DEF KeepConsent, KeepGateway, EnqueueFails, OutboxInv
<1>1. TypeOK'
  BY DEF TypeOK
<1>2. ConsentAsked'
  BY NullAssumption DEF ConsentAsked, TypeOK, NoCall
<1>3. QED
  BY <1>1, <1>2, OnlyRowsMatter

LEMMA ConsentStepsKeepInv ==
    ASSUME OutboxInv, NEW g \in Guardians,
           Grant(g) \/ WithdrawStart(g) \/ WithdrawFails(g)
    PROVE  OutboxInv'
<1> USE DEF KeepGateway, Grant, WithdrawStart, WithdrawFails, OutboxInv
<1>1. TypeOK'
  BY DEF TypeOK
<1>2. ConsentAsked'
  BY DEF ConsentAsked
<1>3. QED
  BY <1>1, <1>2, OnlyRowsMatter
-----------------------------------------------------------------------------
\* A step that moves rows to other states, and neither adds a row nor changes
\* what a message says.
RowsMoved ==
    \A m \in MessageIds :
        /\ m \notin Existing => messages'[m] = messages[m]
        /\ m \in Existing =>
             /\ messages'[m] \in Message
             /\ messages'[m].to = messages[m].to
             /\ messages'[m].dedupeKey = messages[m].dedupeKey
             /\ messages'[m].attemptCount >= messages[m].attemptCount
             /\ messages'[m].status = "suppressed"
                  <=> messages[m].status = "suppressed"

\* Then there are the same rows as before, with the same keys.
LEMMA MovedRowsStay ==
    ASSUME OutboxInv, RowsMoved
    PROVE  Existing' = Existing /\ RowsDense' /\ KeysUnique'
<1>1. ASSUME NEW m \in MessageIds
      PROVE  m \in Existing' <=> m \in Existing
  <2>1. CASE m \in Existing
    <3>1. messages'[m] \in Message
      BY <2>1 DEF RowsMoved
    <3>2. messages'[m] # NoMessage
      BY <3>1 DEF Message, NoMessage, Statuses
    <3>3. QED
      BY <2>1, <3>2 DEF Existing
  <2>2. CASE m \notin Existing
    BY <2>2 DEF RowsMoved, Existing
  <2>3. QED
    BY <2>1, <2>2
<1>2. Existing \subseteq MessageIds /\ Existing' \subseteq MessageIds
  BY DEF Existing, MessageIds
<1>3. Existing' = Existing
  BY <1>1, <1>2
<1>4. RowsDense'
  BY <1>3 DEF OutboxInv, RowsDense
<1>5. KeysUnique'
  BY <1>2, <1>3 DEF OutboxInv, KeysUnique, RowsMoved
<1>6. QED
  BY <1>3, <1>4, <1>5

\* And the consent behind them is still there.
LEMMA MovedRowsAsked ==
    ASSUME OutboxInv, RowsMoved, UNCHANGED <<call, consented, handed>>,
           consent' \subseteq consent
    PROVE  ConsentAsked'
<1>1. ASSUME NEW m \in MessageIds
      PROVE  /\ messages'[m].to \in Guardians /\ messages'[m].status # "suppressed"
                  => messages'[m].to \in consented
             /\ handed[m] > 0 =>
                  messages'[m].status \notin {"none", "suppressed"}
  <2>1. CASE m \in Existing
    <3>1. messages'[m] \in Message /\ messages'[m].status # "none"
      BY <2>1 DEF RowsMoved, Message, Statuses
    <3>2. QED
      BY <2>1, <3>1 DEF OutboxInv, ConsentAsked, RowsMoved
  <2>2. CASE m \notin Existing
    <3>1. messages'[m] = messages[m]
      BY <2>2 DEF RowsMoved
    <3>2. QED
      BY <3>1 DEF OutboxInv, ConsentAsked
  <2>3. QED
    BY <2>1, <2>2
<1>2. QED
  BY <1>1 DEF OutboxInv, ConsentAsked

\* Time makes a row due, and nothing else.
LEMMA BackoffKeepsInv ==
    ASSUME OutboxInv, NEW w \in MessageIds, BackoffElapses(w)
    PROVE  OutboxInv'
<1> USE DEF KeepConsent, KeepGateway
<1>1. UNCHANGED <<call, batch, handed, unanswered, stranded, consent,
                  withdrawing, consented>>
  BY DEF BackoffElapses
<1>2. messages[w].status = "queued" /\ w \in Existing /\ messages[w] \in Message
  BY RowFields DEF BackoffElapses, OutboxInv, Statuses
<1>3. /\ Moved(messages[w], "queued", messages[w].attemptCount, TRUE) \in Message
      /\ messages' = [messages EXCEPT ![w] =
           Moved(messages[w], "queued", messages[w].attemptCount, TRUE)]
  BY <1>2, MovedRow DEF BackoffElapses, Message, Statuses
<1>4. \A m \in MessageIds :
         /\ messages'[m].status = messages[m].status
         /\ messages'[m].attemptCount = messages[m].attemptCount
  BY <1>2, <1>3 DEF Moved, OutboxInv, TypeOK
<1>5. RowsMoved
  BY <1>2, <1>3, RowFields DEF RowsMoved, Moved, OutboxInv, TypeOK, MAX_ATTEMPTS
<1>6. TypeOK'
  BY <1>1, <1>3 DEF OutboxInv, TypeOK
<1>7. NoDoubleClaim' /\ AttemptsLeft' /\ HandedCounted' /\ AnswerHeld'
  BY <1>1, <1>4 DEF OutboxInv, TypeOK, Claimed, NoDoubleClaim, AttemptsLeft,
                    HandedCounted, AnswerHeld
<1>8. ConsentAsked'
  BY <1>1, <1>5, MovedRowsAsked
<1>9. QED
  BY <1>5, <1>6, <1>7, <1>8, MovedRowsStay DEF OutboxInv

\* A withdrawal only takes rows out of the way of the pollers.
LEMMA WithdrawKeepsInv ==
    ASSUME OutboxInv, NEW g \in Guardians, Withdraw(g)
    PROVE  OutboxInv'
<1> USE DEF KeepGateway
<1>1. /\ UNCHANGED <<call, batch, handed, unanswered, stranded, consented>>
      /\ consent' \subseteq consent /\ withdrawing' \subseteq withdrawing
      /\ messages' = [m \in MessageIds |-> CancelledFor(g, messages[m])]
  BY DEF Withdraw
<1>2. ASSUME NEW m \in MessageIds
      PROVE  /\ messages'[m] \in Message \cup {NoMessage}
             /\ m \in Existing => messages'[m] \in Message
             /\ m \notin Existing => messages'[m] = messages[m]
             /\ messages'[m].to = messages[m].to
             /\ messages'[m].dedupeKey = messages[m].dedupeKey
             /\ messages'[m].attemptCount = messages[m].attemptCount
             /\ \/ messages'[m].status = messages[m].status
                \/ /\ messages[m].status \in {"queued", "sending"}
                   /\ messages'[m].status = "cancelled"
  <2>1. messages'[m] = CancelledFor(g, messages[m])
    BY <1>1
  <2>2. CASE messages[m].to = g /\ messages[m].status \in {"queued", "sending"}
    <3>1. messages'[m] = Moved(messages[m], "cancelled",
                               messages[m].attemptCount, TRUE)
      BY <2>1, <2>2 DEF CancelledFor
    <3>2. m \in Existing /\ messages[m] \in Message
      BY <2>2, RowFields DEF OutboxInv, Statuses
    <3>3. messages'[m] \in Message
      <4>1. messages[m].attemptCount \in 0 .. MAX_ATTEMPTS
        BY <3>2 DEF Message
      <4>2. "cancelled" \in Statuses /\ TRUE \in BOOLEAN
        BY DEF Statuses
      <4>3. QED
        BY <3>1, <3>2, <4>1, <4>2, MovedRow
    <3>4. QED
      BY <2>2, <3>1, <3>2, <3>3 DEF Moved
  <2>3. CASE ~(messages[m].to = g /\ messages[m].status \in {"queued", "sending"})
    <3>1. messages'[m] = messages[m]
      BY <2>1, <2>3 DEF CancelledFor
    <3>2. QED
      BY <3>1, RowFields DEF OutboxInv, TypeOK
  <2>4. QED
    BY <2>2, <2>3
<1>3. TypeOK'
  <2>1. messages' \in [MessageIds -> Message \cup {NoMessage}]
    BY <1>1, <1>2
  <2>2. QED
    BY <1>1, <2>1 DEF OutboxInv, TypeOK
<1>4. RowsMoved
  BY <1>2, RowFields DEF RowsMoved, OutboxInv, MAX_ATTEMPTS
<1>5. NoDoubleClaim'
  BY <1>1, <1>2 DEF OutboxInv, TypeOK, Claimed, NoDoubleClaim
<1>6. AttemptsLeft' /\ HandedCounted' /\ AnswerHeld'
  BY <1>1, <1>2 DEF OutboxInv, AttemptsLeft, HandedCounted, AnswerHeld
<1>7. QED
  BY <1>1, <1>3, <1>4, <1>5, <1>6, MovedRowsStay, MovedRowsAsked DEF OutboxInv
-----------------------------------------------------------------------------
\* A claim takes rows that nobody holds, and counts the attempt first.
LEMMA ClaimKeepsInv ==
    ASSUME OutboxInv, NEW p \in Pollers, Claim(p)
    PROVE  OutboxInv'
<1> USE DEF KeepConsent, KeepGateway
<1>1. PICK ids \in SUBSET Due :
         /\ messages' = [m \in MessageIds |->
              IF m \in ids
              THEN Moved(messages[m], "sending",
                         messages[m].attemptCount + 1, TRUE)
              ELSE messages[m]]
         /\ batch' = [batch EXCEPT ![p] =
              {[id |-> m, attemptCount |-> messages[m].attemptCount + 1,
                outcome |-> "unsent"] : m \in ids}]
  BY DEF Claim
<1>2. /\ batch[p] = {}
      /\ UNCHANGED <<call, handed, unanswered, stranded, consent, withdrawing,
                     consented>>
  BY DEF Claim
<1>3. ASSUME NEW m \in ids
      PROVE  /\ m \in MessageIds /\ m \in Existing /\ messages[m] \in Message
             /\ messages[m].status = "queued"
             /\ messages[m].attemptCount \in 0 .. 2
  BY RowFields DEF Due, Existing, OutboxInv, AttemptsLeft, MAX_ATTEMPTS
<1>4. ASSUME NEW m \in ids
      PROVE  /\ messages'[m] \in Message
             /\ messages'[m].status = "sending"
             /\ messages'[m].to = messages[m].to
             /\ messages'[m].dedupeKey = messages[m].dedupeKey
             /\ messages'[m].attemptCount = messages[m].attemptCount + 1
  <2>1. messages'[m] = Moved(messages[m], "sending",
                             messages[m].attemptCount + 1, TRUE)
    BY <1>1, <1>3
  <2>2. messages'[m] \in Message
    <3>1. messages[m].attemptCount + 1 \in 0 .. MAX_ATTEMPTS
      BY <1>3 DEF MAX_ATTEMPTS
    <3>2. "sending" \in Statuses /\ TRUE \in BOOLEAN
      BY DEF Statuses
    <3>3. QED
      BY <1>3, <2>1, <3>1, <3>2, MovedRow
  <2>3. QED
    BY <2>1, <2>2 DEF Moved
<1>5. \A m \in MessageIds \ ids : messages'[m] = messages[m]
  BY <1>1
<1>6. RowsMoved
  BY <1>3, <1>4, <1>5, RowFields DEF RowsMoved, OutboxInv, MAX_ATTEMPTS
<1>7. ASSUME NEW m \in ids
      PROVE  \A q \in Pollers : \A c \in batch[q] : c.id # m
  BY <1>3 DEF OutboxInv, NoDoubleClaim
<1>8. ASSUME NEW c \in batch'[p]
      PROVE  /\ c \in Claimed /\ c.id \in ids /\ c.outcome = "unsent"
             /\ c.attemptCount = messages[c.id].attemptCount + 1
             /\ c = [id |-> c.id, attemptCount |-> messages[c.id].attemptCount + 1,
                     outcome |-> "unsent"]
  <2>1. PICK m \in ids :
           c = [id |-> m, attemptCount |-> messages[m].attemptCount + 1,
                outcome |-> "unsent"]
    BY <1>1, <1>8 DEF OutboxInv, TypeOK
  <2>2. c \in Claimed
    BY <1>3, <2>1 DEF Claimed, MAX_ATTEMPTS
  <2>3. QED
    BY <2>1, <2>2
<1>9. \A q \in Pollers \ {p} : batch'[q] = batch[q]
  BY <1>1 DEF OutboxInv, TypeOK
<1>10. TypeOK'
  <2>1. messages' \in [MessageIds -> Message \cup {NoMessage}]
    BY <1>1, <1>4, <1>5 DEF OutboxInv, TypeOK
  <2>2. batch' \in [Pollers -> SUBSET Claimed]
    BY <1>1, <1>8, <1>9 DEF OutboxInv, TypeOK
  <2>3. QED
    BY <1>2, <2>1, <2>2 DEF OutboxInv, TypeOK
<1>11. NoDoubleClaim'
  <2>1. ASSUME NEW q \in Pollers, NEW s \in Pollers,
               NEW c \in batch'[q], NEW d \in batch'[s]
        PROVE  /\ c.id = d.id => q = s /\ c = d
               /\ messages'[c.id].status \in {"sending", "cancelled"}
               /\ messages'[c.id].attemptCount = c.attemptCount
    <3>1. CASE q = p /\ s = p
      BY <1>4, <1>8, <2>1, <3>1
    <3>2. CASE q = p /\ s # p
      BY <1>4, <1>7, <1>8, <1>9, <2>1, <3>2
    <3>3. CASE q # p
      <4>1. c \in batch[q] /\ c \in Claimed /\ c.id \notin ids
        BY <1>7, <1>9, <2>1, <3>3 DEF OutboxInv, TypeOK
      <4>2. messages'[c.id] = messages[c.id]
        BY <1>5, <4>1 DEF Claimed
      <4>3. CASE s = p
        BY <1>8, <2>1, <3>3, <4>1, <4>2, <4>3 DEF OutboxInv, NoDoubleClaim
      <4>4. CASE s # p
        BY <1>9, <2>1, <4>1, <4>2, <4>4 DEF OutboxInv, NoDoubleClaim
      <4>5. QED
        BY <4>3, <4>4
    <3>4. QED
      BY <3>1, <3>2, <3>3
  <2>2. QED
    BY <2>1 DEF NoDoubleClaim
<1>12. AttemptsLeft'
  BY <1>4, <1>5 DEF OutboxInv, AttemptsLeft
<1>13. HandedCounted'
  <2>1. ASSUME NEW m \in MessageIds
        PROVE  handed[m] <= messages'[m].attemptCount
    BY <1>3, <1>4, <1>5 DEF OutboxInv, TypeOK, HandedCounted
  <2>2. ASSUME NEW q \in Pollers, NEW c \in batch'[q], c.outcome = "unsent"
        PROVE  handed[c.id] < c.attemptCount
    <3>1. CASE q = p
      BY <1>3, <1>8, <2>2, <3>1 DEF OutboxInv, TypeOK, HandedCounted
    <3>2. CASE q # p
      BY <1>9, <2>2, <3>2 DEF OutboxInv, HandedCounted
    <3>3. QED
      BY <3>1, <3>2
  <2>3. QED
    BY <1>2, <2>1, <2>2 DEF HandedCounted
<1>14. AnswerHeld'
  <2>1. ASSUME NEW m \in MessageIds, handed[m] > unanswered[m]
        PROVE  messages'[m] = messages[m] /\ m \notin ids
    BY <1>3, <1>5, <2>1 DEF OutboxInv, AnswerHeld
  <2>2. ASSUME NEW m \in MessageIds, handed[m] > unanswered[m],
               NEW q \in Pollers, NEW c \in batch'[q], c.id = m
        PROVE  c.outcome \in {"accepted", "terminal_failure"}
    BY <1>8, <1>9, <2>1, <2>2 DEF OutboxInv, AnswerHeld
  <2>3. QED
    BY <1>2, <2>1, <2>2 DEF OutboxInv, AnswerHeld
<1>15. QED
  BY <1>2, <1>6, <1>10, <1>11, <1>12, <1>13, <1>14, MovedRowsStay,
     MovedRowsAsked DEF OutboxInv

\* The gateway is handed only what was claimed and not handed over before.
LEMMA SendKeepsInv ==
    ASSUME OutboxInv, NEW p \in Pollers, Send(p)
    PROVE  OutboxInv'
<1> USE DEF KeepConsent
<1>1. PICK outcome \in [Ids(batch[p]) -> Outcomes] :
         /\ batch' = [batch EXCEPT ![p] =
              {[id |-> c.id, attemptCount |-> c.attemptCount,
                outcome |-> outcome[c.id]] : c \in batch[p]}]
         /\ unanswered' = [m \in MessageIds |->
              IF m \in Ids(batch[p]) /\ outcome[m] = "retryable_failure"
              THEN unanswered[m] + 1 ELSE unanswered[m]]
  BY DEF Send
<1>2. /\ \A c \in batch[p] : c.outcome = "unsent"
      /\ handed' = [m \in MessageIds |->
           IF m \in Ids(batch[p]) THEN handed[m] + 1 ELSE handed[m]]
      /\ UNCHANGED <<messages, call, stranded, consent, withdrawing, consented>>
  BY DEF Send
<1>3. /\ Existing' = Existing /\ RowsDense' /\ KeysUnique' /\ AttemptsLeft'
  BY <1>2 DEF OutboxInv, Existing, RowsDense, KeysUnique, AttemptsLeft
<1>4. ASSUME NEW c \in batch[p]
      PROVE  /\ c \in Claimed /\ c.id \in MessageIds /\ c.id \in Ids(batch[p])
             /\ outcome[c.id] \in Outcomes
             /\ messages[c.id].status \in {"sending", "cancelled"}
             /\ messages[c.id].attemptCount = c.attemptCount
             /\ handed[c.id] < c.attemptCount
             /\ handed[c.id] = unanswered[c.id]
  <2>1. c \in Claimed /\ c.id \in MessageIds /\ c.id \in Ids(batch[p])
    BY DEF OutboxInv, TypeOK, Claimed, Ids
  <2>2. handed[c.id] < c.attemptCount
    BY <1>2 DEF OutboxInv, HandedCounted
  <2>3. handed[c.id] = unanswered[c.id]
    BY <1>2, <2>1 DEF OutboxInv, TypeOK, AnswerHeld
  <2>4. QED
    BY <2>1, <2>2, <2>3 DEF OutboxInv, NoDoubleClaim
<1>5. ASSUME NEW c \in batch'[p]
      PROVE  \E d \in batch[p] :
               /\ c.id = d.id /\ c.attemptCount = d.attemptCount
               /\ c.outcome = outcome[d.id]
               /\ c = [id |-> d.id, attemptCount |-> d.attemptCount,
                       outcome |-> outcome[d.id]]
               /\ c \in Claimed
  <2>1. PICK d \in batch[p] :
           c = [id |-> d.id, attemptCount |-> d.attemptCount,
                outcome |-> outcome[d.id]]
    BY <1>1, <1>5 DEF OutboxInv, TypeOK
  <2>2. c \in Claimed
    BY <1>4, <2>1 DEF Claimed
  <2>3. QED
    BY <2>1, <2>2
<1>6. \A q \in Pollers \ {p} : batch'[q] = batch[q]
  BY <1>1 DEF OutboxInv, TypeOK
<1>7. TypeOK'
  <2>1. batch' \in [Pollers -> SUBSET Claimed]
    BY <1>1, <1>5, <1>6 DEF OutboxInv, TypeOK
  <2>2. handed' \in [MessageIds -> Nat] /\ unanswered' \in [MessageIds -> Nat]
    BY <1>1, <1>2 DEF OutboxInv, TypeOK
  <2>3. QED
    BY <1>2, <2>1, <2>2 DEF OutboxInv, TypeOK
<1>8. NoDoubleClaim'
  <2>1. ASSUME NEW q \in Pollers, NEW s \in Pollers,
               NEW c \in batch'[q], NEW d \in batch'[s]
        PROVE  /\ c.id = d.id => q = s /\ c = d
               /\ messages[c.id].status \in {"sending", "cancelled"}
               /\ messages[c.id].attemptCount = c.attemptCount
    <3>1. PICK e \in batch[q] :
             /\ c.id = e.id /\ c.attemptCount = e.attemptCount
             /\ q # p => c = e
             /\ q = p => c = [id |-> e.id, attemptCount |-> e.attemptCount,
                              outcome |-> outcome[e.id]]
      BY <1>5, <1>6, <2>1
    <3>2. PICK f \in batch[s] :
             /\ d.id = f.id
             /\ s # p => d = f
             /\ s = p => d = [id |-> f.id, attemptCount |-> f.attemptCount,
                              outcome |-> outcome[f.id]]
      BY <1>5, <1>6, <2>1
    <3>3. /\ e.id = f.id => q = s /\ e = f
          /\ messages[e.id].status \in {"sending", "cancelled"}
          /\ messages[e.id].attemptCount = e.attemptCount
      BY DEF OutboxInv, NoDoubleClaim
    <3>4. QED
      BY <3>1, <3>2, <3>3
  <2>2. QED
    BY <1>2, <2>1 DEF NoDoubleClaim
<1>9. HandedCounted'
  <2>1. ASSUME NEW m \in MessageIds
        PROVE  handed'[m] <= messages[m].attemptCount
    <3>1. CASE m \in Ids(batch[p])
      <4>1. PICK c \in batch[p] : c.id = m
        BY <3>1 DEF Ids
      <4>2. c.attemptCount \in Int /\ handed[m] \in Nat
        BY <1>4, <4>1 DEF Claimed, OutboxInv, TypeOK, MAX_ATTEMPTS
      <4>3. handed'[m] = handed[m] + 1
        BY <1>2, <3>1
      <4>4. QED
        BY <1>4, <4>1, <4>2, <4>3
    <3>2. CASE m \notin Ids(batch[p])
      BY <1>2, <3>2 DEF OutboxInv, HandedCounted
    <3>3. QED
      BY <3>1, <3>2
  <2>2. ASSUME NEW q \in Pollers, NEW c \in batch'[q], c.outcome = "unsent"
        PROVE  handed'[c.id] < c.attemptCount
    <3>1. q # p
      BY <1>4, <1>5, <2>2 DEF Outcomes
    <3>2. c \in batch[q] /\ c.id \in MessageIds
      BY <1>6, <2>2, <3>1 DEF OutboxInv, TypeOK, Claimed
    <3>3. c.id \notin Ids(batch[p])
      BY <3>1, <3>2 DEF Ids, OutboxInv, NoDoubleClaim
    <3>4. handed'[c.id] = handed[c.id]
      BY <1>2, <3>2, <3>3
    <3>5. QED
      BY <2>2, <3>2, <3>4 DEF OutboxInv, HandedCounted
  <2>3. QED
    BY <1>2, <2>1, <2>2 DEF HandedCounted
<1>10. AnswerHeld'
  <2>1. ASSUME NEW m \in MessageIds
        PROVE  handed'[m] \in {unanswered'[m], unanswered'[m] + 1}
    <3>1. CASE m \in Ids(batch[p])
      <4>1. handed[m] = unanswered[m] /\ outcome[m] \in Outcomes
        BY <1>4, <3>1 DEF Ids
      <4>2. handed'[m] = unanswered[m] + 1
        BY <1>2, <3>1, <4>1
      <4>3. unanswered'[m] \in {unanswered[m], unanswered[m] + 1}
        BY <1>1
      <4>4. QED
        BY <4>2, <4>3 DEF OutboxInv, TypeOK
    <3>2. CASE m \notin Ids(batch[p])
      BY <1>1, <1>2, <3>2 DEF OutboxInv, AnswerHeld
    <3>3. QED
      BY <3>1, <3>2
  <2>2. ASSUME NEW m \in MessageIds, handed'[m] > unanswered'[m]
        PROVE  /\ messages[m].status \in {"sending", "sent", "failed", "cancelled"}
               /\ \A q \in Pollers : \A c \in batch'[q] :
                    c.id = m => c.outcome \in {"accepted", "terminal_failure"}
    <3>1. CASE m \in Ids(batch[p])
      <4>1. PICK d \in batch[p] : d.id = m
        BY <3>1 DEF Ids
      <4>2. /\ handed[m] = unanswered[m] /\ outcome[m] \in Outcomes
            /\ messages[m].status \in {"sending", "cancelled"}
        BY <1>4, <4>1
      <4>3. outcome[m] \in {"accepted", "terminal_failure"}
        <5>1. handed'[m] = unanswered[m] + 1
          BY <1>2, <3>1, <4>2
        <5>2. unanswered[m] \in Nat
          BY DEF OutboxInv, TypeOK
        <5>3. outcome[m] = "retryable_failure"
                => unanswered'[m] = unanswered[m] + 1
          BY <1>1, <3>1
        <5>4. QED
          BY <2>2, <4>2, <5>1, <5>2, <5>3 DEF Outcomes
      <4>4. ASSUME NEW q \in Pollers, NEW c \in batch'[q], c.id = m
            PROVE  c.outcome \in {"accepted", "terminal_failure"}
        <5>1. CASE q = p
          BY <1>5, <4>3, <4>4, <5>1
        <5>2. CASE q # p
          BY <1>6, <4>1, <4>4, <5>2 DEF OutboxInv, NoDoubleClaim
        <5>3. QED
          BY <5>1, <5>2
      <4>5. QED
        BY <4>2, <4>4
    <3>2. CASE m \notin Ids(batch[p])
      <4>1. handed[m] > unanswered[m]
        BY <1>1, <1>2, <2>2, <3>2
      <4>2. ASSUME NEW q \in Pollers, NEW c \in batch'[q], c.id = m
            PROVE  c \in batch[q]
        BY <1>4, <1>5, <1>6, <3>2, <4>2
      <4>3. QED
        BY <4>1, <4>2 DEF OutboxInv, AnswerHeld
    <3>3. QED
      BY <3>1, <3>2
  <2>3. QED
    BY <1>2, <2>1, <2>2 DEF AnswerHeld
<1>11. ConsentAsked'
  <2>1. ASSUME NEW m \in MessageIds, handed'[m] > 0
        PROVE  messages[m].status \notin {"none", "suppressed"}
    <3>1. CASE m \in Ids(batch[p])
      BY <1>4, <3>1 DEF Ids
    <3>2. CASE m \notin Ids(batch[p])
      BY <1>2, <2>1, <3>2 DEF OutboxInv, ConsentAsked
    <3>3. QED
      BY <3>1, <3>2
  <2>2. QED
    BY <1>2, <2>1 DEF OutboxInv, ConsentAsked
<1>12. QED
  BY <1>3, <1>7, <1>8, <1>9, <1>10, <1>11 DEF OutboxInv

\* Where an outcome may send a row: back to the queue only while attempts are
\* left, and never from what the gateway has answered for.
LEMMA StatusAfterOutcome ==
    ASSUME NEW c \in Claimed, c.outcome # "unsent"
    PROVE  /\ StatusAfter(c) \in {"sent", "failed", "queued"}
           /\ StatusAfter(c) = "queued" => c.attemptCount < MAX_ATTEMPTS
           /\ c.outcome \in {"accepted", "terminal_failure"}
                => StatusAfter(c) \in {"sent", "failed"}
BY DEF StatusAfter, Claimed, Outcomes, MAX_ATTEMPTS

\* A record touches one row, which its poller alone holds.
LEMMA RecordKeepsInv ==
    ASSUME OutboxInv, NEW p \in Pollers, Record(p)
    PROVE  OutboxInv'
<1> USE DEF KeepConsent, KeepGateway
<1>1. PICK c \in batch[p] :
         /\ c.outcome # "unsent"
         /\ messages' = [messages EXCEPT ![c.id] =
              Moved(messages[c.id], StatusAfter(c), messages[c.id].attemptCount,
                    StatusAfter(c) # "queued")]
         /\ batch' = [batch EXCEPT ![p] = batch[p] \ {c}]
         /\ UNCHANGED <<call, handed, unanswered, stranded, consent, withdrawing,
                        consented>>
  BY DEF Record
<1>2. c \in Claimed /\ c.id \in MessageIds
  BY DEF OutboxInv, TypeOK, Claimed
<1>3. /\ messages[c.id].status \in {"sending", "cancelled"}
      /\ messages[c.id].attemptCount = c.attemptCount
  BY DEF OutboxInv, NoDoubleClaim
<1>4. c.id \in Existing /\ messages[c.id] \in Message
  BY <1>2, <1>3, RowFields DEF OutboxInv, Statuses
<1>5. /\ StatusAfter(c) \in {"sent", "failed", "queued"}
      /\ StatusAfter(c) = "queued" => c.attemptCount < MAX_ATTEMPTS
      /\ c.outcome \in {"accepted", "terminal_failure"}
           => StatusAfter(c) \in {"sent", "failed"}
  BY <1>1, <1>2, StatusAfterOutcome
<1>6. /\ messages'[c.id] \in Message
      /\ messages'[c.id].status = StatusAfter(c)
      /\ messages'[c.id].to = messages[c.id].to
      /\ messages'[c.id].dedupeKey = messages[c.id].dedupeKey
      /\ messages'[c.id].attemptCount = messages[c.id].attemptCount
  <2>1. messages'[c.id] = Moved(messages[c.id], StatusAfter(c),
                                messages[c.id].attemptCount,
                                StatusAfter(c) # "queued")
    BY <1>1, <1>2 DEF OutboxInv, TypeOK
  <2>2. messages[c.id].attemptCount \in 0 .. MAX_ATTEMPTS
    BY <1>4 DEF Message
  <2>3. StatusAfter(c) \in Statuses /\ (StatusAfter(c) # "queued") \in BOOLEAN
    BY <1>5 DEF Statuses
  <2>4. messages'[c.id] \in Message
    BY <1>4, <2>1, <2>2, <2>3, MovedRow
  <2>5. QED
    BY <2>1, <2>4 DEF Moved
<1>7. \A m \in MessageIds \ {c.id} : messages'[m] = messages[m]
  BY <1>1 DEF OutboxInv, TypeOK
<1>8. RowsMoved
  BY <1>3, <1>4, <1>5, <1>6, <1>7, RowFields DEF RowsMoved, OutboxInv,
     MAX_ATTEMPTS
<1>9. /\ batch'[p] = batch[p] \ {c}
      /\ \A q \in Pollers : batch'[q] \subseteq batch[q]
  BY <1>1 DEF OutboxInv, TypeOK
<1>10. ASSUME NEW q \in Pollers, NEW d \in batch'[q]
       PROVE  d \in batch[q] /\ d.id \in MessageIds /\ d.id # c.id
  <2>1. d \in batch[q]
    BY <1>9
  <2>2. d.id \in MessageIds
    BY <2>1 DEF OutboxInv, TypeOK, Claimed
  <2>3. d.id = c.id => q = p /\ d = c
    BY <2>1 DEF OutboxInv, NoDoubleClaim
  <2>4. QED
    BY <1>9, <1>10, <2>1, <2>2, <2>3
<1>11. TypeOK'
  <2>1. messages' \in [MessageIds -> Message \cup {NoMessage}]
    BY <1>1, <1>6, <1>7 DEF OutboxInv, TypeOK
  <2>2. batch' \in [Pollers -> SUBSET Claimed]
    BY <1>1, <1>9 DEF OutboxInv, TypeOK
  <2>3. QED
    BY <1>1, <2>1, <2>2 DEF OutboxInv, TypeOK
<1>12. NoDoubleClaim'
  BY <1>7, <1>10 DEF OutboxInv, NoDoubleClaim
<1>13. AttemptsLeft'
  BY <1>3, <1>5, <1>6, <1>7 DEF OutboxInv, AttemptsLeft
<1>14. HandedCounted'
  <2>1. \A m \in MessageIds : handed[m] <= messages'[m].attemptCount
    BY <1>6, <1>7 DEF OutboxInv, HandedCounted
  <2>2. QED
    BY <1>1, <1>10, <2>1 DEF OutboxInv, HandedCounted
<1>15. AnswerHeld'
  <2>1. ASSUME NEW m \in MessageIds, handed[m] > unanswered[m]
        PROVE  messages'[m].status \in {"sending", "sent", "failed", "cancelled"}
    <3>1. CASE m = c.id
      <4>1. c.outcome \in {"accepted", "terminal_failure"}
        BY <2>1, <3>1 DEF OutboxInv, AnswerHeld
      <4>2. QED
        BY <1>5, <1>6, <3>1, <4>1
    <3>2. CASE m # c.id
      BY <1>7, <2>1, <3>2 DEF OutboxInv, AnswerHeld
    <3>3. QED
      BY <3>1, <3>2
  <2>2. QED
    BY <1>1, <1>10, <2>1 DEF OutboxInv, AnswerHeld
<1>16. QED
  BY <1>1, <1>8, <1>11, <1>12, <1>13, <1>14, <1>15, MovedRowsStay,
     MovedRowsAsked DEF OutboxInv

\* A poller that fails lets go of its batch, and that is all.
LEMMA PollerFailsKeepsInv ==
    ASSUME OutboxInv, NEW p \in Pollers, PollerFails(p)
    PROVE  OutboxInv'
<1> USE DEF KeepConsent
<1>1. /\ batch' = [batch EXCEPT ![p] = {}]
      /\ stranded' = stranded \cup
           {m \in Ids(batch[p]) : messages[m].status = "sending"}
      /\ UNCHANGED <<messages, call, handed, unanswered, consent, withdrawing,
                     consented>>
  BY DEF PollerFails
<1>2. \A q \in Pollers : batch'[q] \subseteq batch[q]
  BY <1>1 DEF OutboxInv, TypeOK
<1>3. Ids(batch[p]) \subseteq MessageIds
  BY DEF Ids, OutboxInv, TypeOK, Claimed
<1>4. TypeOK'
  BY <1>1, <1>3 DEF OutboxInv, TypeOK
<1>5. RowsDense' /\ KeysUnique' /\ AttemptsLeft' /\ ConsentAsked'
  BY <1>1 DEF OutboxInv, RowsDense, KeysUnique, Existing, AttemptsLeft,
              ConsentAsked
<1>6. NoDoubleClaim'
  BY <1>1, <1>2 DEF OutboxInv, NoDoubleClaim
<1>7. HandedCounted' /\ AnswerHeld'
  BY <1>1, <1>2 DEF OutboxInv, HandedCounted, AnswerHeld
<1>8. QED
  BY <1>4, <1>5, <1>6, <1>7 DEF OutboxInv
-----------------------------------------------------------------------------
\* The row after the last one is free, so an insert overwrites nothing.
LEMMA NextRowFree ==
    ASSUME OutboxInv, Cardinality(Existing) < MaxMessages
    PROVE  /\ Cardinality(Existing) + 1 \in MessageIds \ Existing
           /\ \E n \in 0 .. MaxMessages :
                /\ Cardinality(Existing) = n
                /\ Existing = 1 .. n
<1>1. PICK n \in 0 .. MaxMessages : Existing = 1 .. n
  BY DEF OutboxInv, RowsDense
<1>2. n \in Nat /\ 1 \in Int
  BY <1>1, BoundAssumption
<1>3. Cardinality(1 .. n) = n
  <2>1. Cardinality(1 .. n) = IF 1 > n THEN 0 ELSE n - 1 + 1
    BY <1>2, FS_Interval
  <2>2. QED
    BY <1>2, <2>1
<1>4. QED
  BY <1>1, <1>2, <1>3, BoundAssumption DEF MessageIds

\* An insert of a new row: it starts with no attempt, no claim and no answer.
LEMMA InsertRowKeepsInv ==
    ASSUME OutboxInv, NEW r \in Enqueuers, InsertRow(r)
    PROVE  OutboxInv'
<1> USE DEF KeepConsent, KeepGateway
<1>1. /\ call[r] # NoCall /\ call' = [call EXCEPT ![r] = NoCall]
      /\ UNCHANGED <<batch, handed, unanswered, stranded, consent, withdrawing,
                     consented>>
  BY DEF InsertRow
<1>2. call[r] \in Call /\ call' \in [Enqueuers -> Call \cup {NoCall}]
  BY <1>1 DEF OutboxInv, TypeOK
<1>3. ASSUME NEW s \in Enqueuers, call'[s].to \in Guardians,
             ~call'[s].suppressed
      PROVE  call'[s].to \in consented
  BY <1>1, <1>3, NullAssumption DEF OutboxInv, TypeOK, ConsentAsked, NoCall
<1>4. CASE UNCHANGED messages
  <2>1. TypeOK' /\ ConsentAsked'
    BY <1>1, <1>2, <1>3, <1>4 DEF OutboxInv, TypeOK, ConsentAsked
  <2>2. QED
    BY <1>1, <1>4, <2>1, OnlyRowsMatter
<1>5. CASE ~UNCHANGED messages
  <2> DEFINE new == Cardinality(Existing) + 1
  <2>1. /\ ~Duplicate(r) /\ Cardinality(Existing) < MaxMessages
        /\ messages' = [messages EXCEPT ![new] = Row(call[r])]
    BY <1>5 DEF InsertRow
  <2>2. PICK n \in 0 .. MaxMessages :
           /\ new = n + 1 /\ Existing = 1 .. n
           /\ new \in MessageIds /\ new \notin Existing
    BY <2>1, NextRowFree
  <2> HIDE DEF new
  <2>3. /\ messages'[new] = Row(call[r])
        /\ \A m \in MessageIds \ {new} : messages'[m] = messages[m]
    BY <2>1, <2>2 DEF OutboxInv, TypeOK
  <2>4. /\ Row(call[r]) \in Message
        /\ Row(call[r]).status =
             IF call[r].suppressed THEN "suppressed" ELSE "queued"
        /\ Row(call[r]).attemptCount = 0
        /\ Row(call[r]).to = call[r].to
        /\ Row(call[r]).dedupeKey = call[r].dedupeKey
    BY <1>2 DEF Row, Call, Message, Statuses, MAX_ATTEMPTS
  <2>5. /\ messages[new].status = "none"
        /\ handed[new] = 0 /\ unanswered[new] = 0
        /\ \A p \in Pollers : \A c \in batch[p] : c.id # new
    <3>1. messages[new] = NoMessage
      BY <2>2, RowFields DEF OutboxInv
    <3>2. messages[new].status = "none" /\ messages[new].attemptCount = 0
      BY <3>1 DEF NoMessage
    <3>3. handed[new] = 0
      BY <2>2, <3>2 DEF OutboxInv, TypeOK, HandedCounted
    <3>4. unanswered[new] = 0
      BY <2>2, <3>3 DEF OutboxInv, TypeOK, AnswerHeld
    <3>5. QED
      BY <2>2, <3>2, <3>3, <3>4 DEF OutboxInv, TypeOK, NoDoubleClaim
  <2>6. TypeOK'
    <3>1. messages' \in [MessageIds -> Message \cup {NoMessage}]
      BY <2>1, <2>2, <2>3, <2>4 DEF OutboxInv, TypeOK
    <3>2. QED
      BY <1>1, <1>2, <3>1 DEF OutboxInv, TypeOK
  <2>7. Existing' = Existing \cup {new}
    <3>1. Row(call[r]) # NoMessage
      BY <2>4 DEF NoMessage
    <3>2. QED
      BY <2>2, <2>3, <3>1 DEF Existing
  <2>8. RowsDense'
    <3>1. n + 1 \in 0 .. MaxMessages
      BY <2>2, BoundAssumption DEF MessageIds
    <3>2. Existing' = 1 .. (n + 1)
      BY <2>2, <2>7
    <3>3. QED
      BY <3>1, <3>2 DEF RowsDense
  <2>9. KeysUnique'
    <3>1. ASSUME NEW m \in Existing,
                 messages[m].dedupeKey = call[r].dedupeKey
          PROVE  call[r].dedupeKey = None
      BY <2>1, <3>1 DEF Duplicate
    <3>2. ASSUME NEW m \in Existing
          PROVE  m # new /\ messages'[m] = messages[m]
      BY <2>2, <2>3 DEF Existing
    <3>3. QED
      BY <2>3, <2>4, <2>7, <3>1, <3>2 DEF OutboxInv, KeysUnique
  <2>10. NoDoubleClaim'
    BY <1>1, <2>3, <2>5 DEF OutboxInv, TypeOK, Claimed, NoDoubleClaim
  <2>11. AttemptsLeft'
    BY <2>3, <2>4 DEF OutboxInv, AttemptsLeft, MAX_ATTEMPTS
  <2>12. HandedCounted' /\ AnswerHeld'
    BY <1>1, <2>3, <2>4, <2>5 DEF OutboxInv, HandedCounted, AnswerHeld
  <2>13. ConsentAsked'
    <3>1. ASSUME NEW m \in MessageIds, messages'[m].to \in Guardians,
                 messages'[m].status # "suppressed"
          PROVE  messages'[m].to \in consented
      BY <1>2, <2>3, <2>4, <3>1 DEF OutboxInv, ConsentAsked, Call
    <3>2. ASSUME NEW m \in MessageIds, handed[m] > 0
          PROVE  messages'[m].status \notin {"none", "suppressed"}
      BY <2>3, <2>5, <3>2 DEF OutboxInv, ConsentAsked
    <3>3. QED
      BY <1>1, <1>3, <3>1, <3>2 DEF OutboxInv, ConsentAsked
  <2>14. QED
    BY <2>6, <2>8, <2>9, <2>10, <2>11, <2>12, <2>13 DEF OutboxInv
<1>6. QED
  BY <1>4, <1>5
-----------------------------------------------------------------------------
LEMMA StepKeepsInv ==
    ASSUME OutboxInv, [Next]_vars
    PROVE  OutboxInv'
BY StutterKeepsInv, ResolveKeepsInv, InsertRowKeepsInv, EnqueueFailsKeepsInv,
   ConsentStepsKeepInv, WithdrawKeepsInv, ClaimKeepsInv, SendKeepsInv,
   RecordKeepsInv, PollerFailsKeepsInv, BackoffKeepsInv
DEF Next

\* However calls, pollers, failures and withdrawals overlap, rows, batches and
\* the gateway's counters fit together.
THEOREM OutboxSafe == Spec => []OutboxInv
<1>1. OutboxInv /\ [Next]_vars => OutboxInv'
  BY StepKeepsInv
<1>2. QED
  BY InvInit, <1>1, PTL DEF Spec

\* Two pollers never hold the same message.
THEOREM NobodyClaimsTwice == Spec => []NoDoubleClaim
<1>1. OutboxInv => NoDoubleClaim
  BY DEF OutboxInv
<1>2. QED
  BY OutboxSafe, <1>1, PTL

\* The gateway never sees a fourth attempt at a message.
THEOREM ThreeAttempts == Spec => []AttemptsBounded
<1>1. OutboxInv => AttemptsBounded
  BY RowFields DEF OutboxInv, HandedCounted, AttemptsBounded, MAX_ATTEMPTS
<1>2. QED
  BY OutboxSafe, <1>1, PTL

\* A message is handed over again only where the gateway left it open whether
\* it took it, and no other message with its dedupe key is handed over at all.
THEOREM NobodyChargedTwice == Spec => []ChargedOnce
<1>1. OutboxInv => ChargedOnce
  <2>1. SUFFICES ASSUME OutboxInv, NEW m \in MessageIds, NEW n \in MessageIds
                 PROVE  /\ handed[m] <= 1 + unanswered[m]
                        /\ /\ handed[m] > 0 /\ handed[n] > 0
                           /\ messages[m].dedupeKey = messages[n].dedupeKey
                           => m = n \/ messages[m].dedupeKey = None
    BY DEF ChargedOnce
  <2>2. handed[m] <= 1 + unanswered[m]
    BY <2>1 DEF OutboxInv, TypeOK, AnswerHeld
  <2>3. ASSUME NEW k \in MessageIds, handed[k] > 0 PROVE k \in Existing
    BY <2>1, <2>3, RowFields DEF OutboxInv, ConsentAsked
  <2>4. QED
    BY <2>1, <2>2, <2>3 DEF OutboxInv, KeysUnique
<1>2. QED
  BY OutboxSafe, <1>1, PTL

\* Nobody who never consented is texted.
THEOREM ConsentBeforeSend == Spec => []SentWasConsented
<1>1. OutboxInv => SentWasConsented
  BY DEF OutboxInv, ConsentAsked, SentWasConsented
<1>2. QED
  BY OutboxSafe, <1>1, PTL

\* A message that was sent, has failed or was suppressed stays so.
THEOREM OutcomeStays == Spec => OutcomeFinal
<1>1. ASSUME OutboxInv, [Next]_vars, NEW m \in MessageIds,
             messages[m].status \in Final
      PROVE  messages'[m] = messages[m]
  <2>1. m \in Existing
    BY <1>1, RowFields DEF OutboxInv, Final, Statuses
  <2>2. ASSUME NEW r \in Enqueuers, InsertRow(r) PROVE messages'[m] = messages[m]
    <3>1. CASE UNCHANGED messages
      BY <3>1
    <3>2. CASE ~UNCHANGED messages
      <4>1. /\ Cardinality(Existing) < MaxMessages
            /\ messages' = [messages EXCEPT ![Cardinality(Existing) + 1] =
                              Row(call[r])]
        BY <2>2, <3>2 DEF InsertRow
      <4>2. Cardinality(Existing) + 1 # m
        BY <1>1, <2>1, <4>1, NextRowFree
      <4>3. QED
        BY <1>1, <4>1, <4>2 DEF OutboxInv, TypeOK
    <3>3. QED
      BY <3>1, <3>2
  <2>3. ASSUME NEW g \in Guardians, Withdraw(g) PROVE messages'[m] = messages[m]
    BY <1>1, <2>3 DEF Withdraw, CancelledFor, Final
  <2>4. ASSUME NEW p \in Pollers, Claim(p) PROVE messages'[m] = messages[m]
    BY <1>1, <2>4 DEF Claim, Due, Final
  <2>5. ASSUME NEW p \in Pollers, Record(p) PROVE messages'[m] = messages[m]
    <3>1. PICK c \in batch[p] :
             messages' = [messages EXCEPT ![c.id] =
               Moved(messages[c.id], StatusAfter(c),
                     messages[c.id].attemptCount, StatusAfter(c) # "queued")]
      BY <2>5 DEF Record
    <3>2. c.id # m
      BY <1>1 DEF OutboxInv, NoDoubleClaim, Final
    <3>3. QED
      BY <1>1, <3>1, <3>2 DEF OutboxInv, TypeOK
  <2>6. ASSUME NEW w \in MessageIds, BackoffElapses(w)
        PROVE  messages'[m] = messages[m]
    BY <1>1, <2>6 DEF BackoffElapses, Final, OutboxInv, TypeOK
  <2>7. CASE UNCHANGED messages
    BY <2>7
  <2>8. QED
    BY <1>1, <2>2, <2>3, <2>4, <2>5, <2>6, <2>7
    DEF Next, Resolve, EnqueueFails, Grant, WithdrawStart, WithdrawFails, Send,
        PollerFails, vars
<1>2. OutboxInv /\ [Next]_vars
        => [\A m \in MessageIds :
              messages[m].status \in Final => messages'[m] = messages[m]]_vars
  BY <1>1
<1>3. QED
  BY OutboxSafe, <1>2, PTL DEF Spec, OutcomeFinal
=============================================================================
