---------------------------- MODULE SessionsProofs ----------------------------
(***************************************************************************)
(* Proofs about Sessions, for any number of users, roles, permissions,     *)
(* passwords, requests, sessions and reset tokens.                         *)
(***************************************************************************)
EXTENDS Sessions, FiniteSetTheorems, TLAPS

LEMMA NotNull ==
    None \notin Users /\ None \notin Passwords /\ None \notin Reasons
BY NullAssumption DEF Reasons

LEMMA NotAnId == None \notin SessionIds /\ None \notin ResetIds
BY NullAssumption, BoundAssumption DEF SessionIds, ResetIds

\* What is in a row that exists.
LEMMA RowFields ==
    ASSUME TypeOK, NEW s \in SessionIds
    PROVE  /\ s \in Rows <=> session[s].user \in Users
           /\ s \in Rows => session[s] \in Session
           /\ s \notin Rows => session[s] = NoSession
           /\ origin[s] # NoOrigin => origin[s] \in Origin
           /\ origin[s] # NoOrigin <=> origin[s].password \in Passwords
           /\ Rows \subseteq SessionIds
BY NotNull DEF TypeOK, Rows, Session, NoSession, Origin, NoOrigin

LEMMA ResetFields ==
    ASSUME TypeOK, NEW t \in ResetIds
    PROVE  /\ t \in Issued <=> reset[t].user \in Users
           /\ t \in Issued => reset[t] \in Reset
           /\ t \notin Issued => reset[t] = NoReset
           /\ reset[t].uses \in Nat
           /\ Issued \subseteq ResetIds
BY NotNull DEF TypeOK, Issued, Reset, NoReset

\* What a request that is under way remembers.
LEMMA RequestFields ==
    ASSUME TypeOK, NEW r \in Requests
    PROVE  /\ req[r] = Idle \/ req[r] \in Request
           /\ req[r] = Idle <=> req[r].pc = "idle"
           /\ req[r].pc # "idle" => req[r].user \in Users
           /\ req[r].parent \in SessionIds \cup {None}
           /\ req[r].token \in ResetIds \cup {None}
           /\ req[r].password \in Passwords \cup {None}
           /\ req[r].roles \subseteq Roles
           /\ req[r].permissions \subseteq Permissions
           /\ req[r].overtaken \in BOOLEAN /\ req[r].escaped \in BOOLEAN
<1>1. req[r] \in Request \cup {Idle}
  BY DEF TypeOK
<1>2. CASE req[r] = Idle
  BY <1>2 DEF Idle
<1>3. CASE req[r] \in Request
  BY <1>3 DEF Request, Idle
<1>4. QED
  BY <1>1, <1>2, <1>3

LEMMA UserFields ==
    ASSUME TypeOK, NEW u \in Users
    PROVE  /\ user[u] \in User \cup {NoUser}
           /\ user[u].active \in BOOLEAN
           /\ user[u].password \in Passwords \cup {None}
           /\ user[u] # NoUser <=> user[u] \in User
           /\ user[u] # NoUser <=> user[u].password \in Passwords
           /\ user[u].active => user[u] # NoUser
<1>1. user[u] \in User \cup {NoUser}
  BY DEF TypeOK
<1>2. CASE user[u] = NoUser
  <2>1. NoUser.password = None /\ NoUser.active = FALSE
    BY DEF NoUser
  <2>2. NoUser \notin User
    BY <2>1, NotNull DEF User
  <2>3. QED
    BY <1>2, <2>1, <2>2, NotNull
<1>3. CASE user[u] \in User
  <2>1. user[u].password \in Passwords /\ user[u].active \in BOOLEAN
    BY <1>3 DEF User
  <2>2. user[u] # NoUser
    BY <2>1, NotNull DEF NoUser
  <2>3. QED
    BY <1>3, <2>1, <2>2
<1>4. QED
  BY <1>1, <1>2, <1>3

LEMMA InvInit == Init => SessionsInv
<1> SUFFICES ASSUME Init PROVE SessionsInv
  OBVIOUS
<1>1. PICK password \in Passwords :
        user = [u \in Users |-> IF u = SeedUser
                                THEN [password |-> password, active |-> TRUE]
                                ELSE NoUser]
  BY DEF Init
<1>2. /\ userRoles = {<<SeedUser, SeedRole>>}
      /\ rolePermissions = {SeedRole} \X Permissions
      /\ session = [s \in SessionIds |-> NoSession]
      /\ reset = [t \in ResetIds |-> NoReset]
      /\ req = [r \in Requests |-> Idle]
      /\ origin = [s \in SessionIds |-> NoOrigin]
      /\ changed = [sessions |-> {}, requests |-> {}]
      /\ stranded = {}
      /\ shared = [sessions |-> {}, resets |-> {}]
  BY DEF Init
<1>3. TypeOK
  <2>1. user \in [Users -> User \cup {NoUser}]
    BY <1>1 DEF User
  <2>2. userRoles \subseteq Users \X Roles
        /\ rolePermissions \subseteq Roles \X Permissions
    BY <1>2, SeedAssumption
  <2>3. QED
    BY <1>2, <2>1, <2>2 DEF TypeOK
<1>4. Rows = {} /\ Issued = {}
  BY <1>2 DEF Rows, Issued
<1>5. IdsDense
  <2>1. 1 .. 0 = {} /\ 0 \in 0 .. MaxSessions /\ 0 \in 0 .. MaxResets
    BY BoundAssumption
  <2>2. QED
    BY <1>4, <2>1 DEF IdsDense
<1>6. /\ RowsKnown /\ ParentsSpent /\ SessionsCurrent /\ TokensExplained
      /\ RotationIsHandedOver /\ RefreshedOnce
  BY <1>4 DEF RowsKnown, ParentsSpent, SessionsCurrent, TokensExplained,
              RotationIsHandedOver, RefreshedOnce
<1>7. RequestsKnown /\ ReadsCurrent /\ RolesCurrent
  BY <1>2 DEF RequestsKnown, ReadsCurrent, RolesCurrent, Opening, Idle
<1>8. ConfirmedOnce
  BY <1>2, NotAnId DEF ConfirmedOnce, Idle, NoReset
<1>9. QED
  BY <1>3, <1>5, <1>6, <1>7, <1>8 DEF SessionsInv
-----------------------------------------------------------------------------
(* Steps that leave the tables alone.                                      *)

TablesKept ==
    UNCHANGED <<user, userRoles, rolePermissions, session, reset, origin>>

\* Then all that the invariant says of the tables alone stays.
LEMMA TablesStay ==
    ASSUME SessionsInv, TablesKept, changed'.sessions = changed.sessions
    PROVE  /\ Rows' = Rows /\ Issued' = Issued
           /\ \A s \in SessionIds : Live(s)' = Live(s)
           /\ \A s \in SessionIds : Children(s)' = Children(s)
           /\ \A u \in Users : RolesOf(u)' = RolesOf(u) /\ Held(u)' = Held(u)
           /\ IdsDense' /\ RowsKnown' /\ SessionsCurrent' /\ TokensExplained'
<1>1. Rows' = Rows /\ Issued' = Issued
  BY DEF TablesKept, Rows, Issued
<1>2. ASSUME NEW s \in SessionIds
      PROVE  Live(s)' = Live(s) /\ Children(s)' = Children(s)
  BY <1>1 DEF TablesKept, Live, Children
<1>3. ASSUME NEW u \in Users
      PROVE  RolesOf(u)' = RolesOf(u) /\ Held(u)' = Held(u)
  BY DEF TablesKept, Held, Granted, RolesOf
<1>4. IdsDense'
  BY <1>1 DEF IdsDense, SessionsInv
<1>5. RowsKnown'
  BY <1>1 DEF RowsKnown, SessionsInv, TablesKept
<1>6. SessionsCurrent'
  BY <1>1 DEF SessionsCurrent, SessionsInv, TablesKept, Live
<1>7. TokensExplained'
  BY <1>1 DEF TokensExplained, SessionsInv, TablesKept, Live, Held, Granted,
              RolesOf
<1>8. QED
  BY <1>1, <1>2, <1>3, <1>4, <1>5, <1>6, <1>7

LEMMA OneRequest ==
    ASSUME TypeOK, NEW r \in Requests, NEW x \in Request \cup {Idle},
           req' = [req EXCEPT ![r] = x]
    PROVE  /\ req' \in [Requests -> Request \cup {Idle}]
           /\ req'[r] = x
           /\ \A q \in Requests \ {r} : req'[q] = req[q]
BY DEF TypeOK

\* What a request may start with.
Sound(r, x) ==
    /\ x \in Request /\ x.pc \in {"permissions", "change", "confirm"}
    /\ x.pc = "permissions" =>
         /\ user[x.user].active /\ x.password # None
         /\ x.password = user[x.user].password \/ x.escaped
         /\ x.roles = RolesOf(x.user)
         /\ x.parent # None =>
              /\ Live(x.parent)
              /\ AlsoReading(r, x.parent) => x.parent \in shared'.sessions
    /\ x.parent # None =>
         x.parent \in Rows /\ session[x.parent].user = x.user
    /\ x.pc = "change" => x.parent # None
    /\ x.pc = "confirm" <=> x.token # None
    /\ x.token # None =>
         /\ x.token \in Issued /\ reset[x.token].state = "unused"
         /\ (\E q \in Requests \ {r} : req[q].token = x.token)
              => x.token \in shared'.resets

LEMMA ReadsKeepInv ==
    ASSUME SessionsInv, TablesKept, UNCHANGED stranded,
           NEW r \in Requests, NEW x, Sound(r, x),
           req[r] = Idle, req' = [req EXCEPT ![r] = x], Forget(r),
           shared' \in [sessions : SUBSET SessionIds,
                        resets : SUBSET ResetIds],
           shared.sessions \subseteq shared'.sessions,
           shared.resets \subseteq shared'.resets
    PROVE  SessionsInv'
<1>1. x \in Request
  BY DEF Sound
<1>2. /\ req' \in [Requests -> Request \cup {Idle}]
      /\ req'[r] = x
      /\ \A q \in Requests \ {r} : req'[q] = req[q]
  BY <1>1, OneRequest DEF SessionsInv
<1>3. /\ changed'.sessions = changed.sessions
      /\ changed'.requests = changed.requests \ {r}
      /\ changed' \in [sessions : SUBSET SessionIds, requests : SUBSET Requests]
  BY DEF Forget, SessionsInv, TypeOK
<1>4. TypeOK'
  BY <1>2, <1>3 DEF TypeOK, SessionsInv, TablesKept
<1>5. /\ Rows' = Rows /\ Issued' = Issued
      /\ \A s \in SessionIds : Live(s)' = Live(s)
      /\ \A s \in SessionIds : Children(s)' = Children(s)
      /\ \A u \in Users : RolesOf(u)' = RolesOf(u) /\ Held(u)' = Held(u)
      /\ IdsDense' /\ RowsKnown' /\ SessionsCurrent' /\ TokensExplained'
  BY <1>3, TablesStay
<1>6. x.user \in Users /\ Rows \subseteq SessionIds /\ Issued \subseteq ResetIds
  BY <1>1 DEF Request, Rows, Issued
<1>7. RequestsKnown'
  <2>1. /\ user' = user /\ session' = session
        /\ x.pc \notin {"rotate", "insert"}
    BY DEF TablesKept, Sound
  <2>2. x.pc = "permissions" => user[x.user] # NoUser /\ x.password # None
    BY <1>6, UserFields DEF SessionsInv, Sound
  <2>3. /\ x.parent # None => /\ x.parent \in Rows
                              /\ session[x.parent].user = x.user
        /\ x.pc = "change" => x.parent # None
        /\ x.token # None => x.token \in Issued
        /\ x.pc = "confirm" <=> x.token # None
    BY DEF Sound
  <2>4. QED
    BY <1>2, <1>5, <2>1, <2>2, <2>3 DEF RequestsKnown, SessionsInv, Opening
<1>8. ReadsCurrent'
  <2>1. ASSUME NEW q \in Requests, q # r PROVE req'[q] = req[q]
    BY <1>2, <2>1
  <2>2. x.pc = "permissions" =>
          /\ user[x.user].active
          /\ x.password = user[x.user].password \/ x.escaped
    BY DEF Sound
  <2>3. x.pc \in {"permissions", "rotate", "insert"} => x.pc = "permissions"
    BY DEF Sound
  <2>4. user' = user
    BY DEF TablesKept
  <2>5. QED
    BY <1>2, <2>1, <2>2, <2>3, <2>4 DEF ReadsCurrent, SessionsInv, Opening
<1>9. RolesCurrent'
  <2>1. ASSUME NEW q \in Requests, q # r
        PROVE  req[q].pc # "idle" => req[q].user \in Users
    BY RequestFields DEF SessionsInv
  <2>2. QED
    BY <1>2, <1>3, <1>5, <1>6, <2>1
       DEF RolesCurrent, SessionsInv, Sound
<1>10. ParentsSpent'
  BY <1>2, <1>5, <1>6 DEF ParentsSpent, SessionsInv, Sound
<1>11. RotationIsHandedOver'
  <2>1. req[r].pc # "insert"
    BY DEF Idle
  <2>2. QED
    BY <1>2, <1>5, <1>6, <2>1
       DEF RotationIsHandedOver, SessionsInv, TablesKept
<1>12. RefreshedOnce'
  <2>1. ASSUME NEW s \in Rows, s \notin shared'.sessions,
               Opening(r)', x.parent = s, NEW q \in Requests \ {r},
               Opening(q), req[q].parent = s
        PROVE  FALSE
    <3>1. x.pc = "permissions" /\ x.parent # None
      BY <1>2, <1>6, <2>1, NotAnId DEF Opening, Sound
    <3>2. Live(s) /\ ~AlsoReading(r, s)
      BY <2>1, <3>1 DEF Sound
    <3>3. req[q].pc = "insert"
      BY <2>1, <3>2 DEF AlsoReading, Opening
    <3>4. QED
      BY <2>1, <3>2, <3>3 DEF ParentsSpent, SessionsInv
  <2>2. ASSUME NEW s \in Rows, Opening(r)', x.parent = s
        PROVE  Children(s) = {}
    BY <1>2, <2>2, <1>6, NotAnId
       DEF Opening, Sound, ParentsSpent, SessionsInv
  <2>3. ASSUME NEW q \in Requests \ {r} PROVE Opening(q)' <=> Opening(q)
    BY <1>2 DEF Opening
  <2>4. QED
    BY <1>2, <1>5, <1>6, <2>1, <2>2, <2>3 DEF RefreshedOnce, SessionsInv
<1>13. ConfirmedOnce'
  BY <1>2, NotAnId DEF ConfirmedOnce, SessionsInv, TablesKept, Sound
<1>14. QED
  BY <1>4, <1>5, <1>7, <1>8, <1>9, <1>10, <1>11, <1>12, <1>13 DEF SessionsInv

\* The record that a request starts with.
LEMMA LoginReadKeepsInv ==
    ASSUME SessionsInv, NEW r \in Requests, NEW u \in Users,
           NEW password \in Passwords, LoginRead(r, u, password)
    PROVE  SessionsInv'
<1> DEFINE x == [Idle EXCEPT !.pc = "permissions", !.user = u,
                             !.roles = RolesOf(u), !.password = password]
<1>1. /\ req[r] = Idle /\ req' = [req EXCEPT ![r] = x] /\ Forget(r)
      /\ user[u].active /\ user[u].password = password
      /\ UNCHANGED <<stranded, shared>> /\ TablesKept
  BY DEF LoginRead, KeepUsers, KeepSessions, TablesKept
<1>2. /\ x.pc = "permissions" /\ x.user = u /\ x.parent = None
      /\ x.token = None /\ x.roles = RolesOf(u) /\ x.permissions = {}
      /\ x.password = password /\ x.overtaken = FALSE
      /\ x.escaped = FALSE
  BY DEF Idle
<1>3. x \in Request
  BY DEF Idle, Request, RolesOf
<1>4. Sound(r, x)
  BY <1>1, <1>2, <1>3, NotNull DEF Sound
<1>5. shared' \in [sessions : SUBSET SessionIds, resets : SUBSET ResetIds]
  BY <1>1 DEF SessionsInv, TypeOK
<1> HIDE DEF x
<1>6. QED
  BY <1>1, <1>4, <1>5, ReadsKeepInv

LEMMA RefreshReadKeepsInv ==
    ASSUME SessionsInv, NEW r \in Requests, NEW s \in Rows, RefreshRead(r, s)
    PROVE  SessionsInv'
<1> DEFINE u == session[s].user
           x == [Idle EXCEPT !.pc = "permissions", !.user = u,
                             !.parent = s, !.roles = RolesOf(u),
                             !.password = origin[s].password,
                             !.escaped = origin[s].escaped]
<1>1. /\ req[r] = Idle /\ req' = [req EXCEPT ![r] = x] /\ Forget(r)
      /\ Live(s) /\ user[u].active
      /\ shared' = IF AlsoReading(r, s)
                   THEN [shared EXCEPT !.sessions = @ \cup {s}] ELSE shared
      /\ UNCHANGED stranded /\ TablesKept
  BY DEF RefreshRead, Refreshable, KeepUsers, KeepSessions, TablesKept
<1>2. s \in SessionIds /\ u \in Users /\ origin[s] \in Origin
  BY RowFields DEF Rows, SessionsInv, RowsKnown
<1>3. origin[s].password \in Passwords /\ origin[s].escaped \in BOOLEAN
  BY <1>2 DEF Origin
<1>4. /\ x.pc = "permissions" /\ x.user = u /\ x.parent = s
      /\ x.token = None /\ x.roles = RolesOf(u) /\ x.permissions = {}
      /\ x.password = origin[s].password /\ x.overtaken = FALSE
      /\ x.escaped = origin[s].escaped
  BY DEF Idle
<1>5. x \in Request
  BY <1>2, <1>3 DEF Idle, Request, RolesOf
<1>6. /\ shared' \in [sessions : SUBSET SessionIds, resets : SUBSET ResetIds]
      /\ shared.sessions \subseteq shared'.sessions
      /\ shared.resets \subseteq shared'.resets
      /\ AlsoReading(r, s) => s \in shared'.sessions
  <2>1. shared \in [sessions : SUBSET SessionIds, resets : SUBSET ResetIds]
    BY DEF SessionsInv, TypeOK
  <2>2. QED
    BY <1>1, <1>2, <2>1
<1>7. x.password = user[x.user].password \/ x.escaped
  BY <1>1, <1>4 DEF SessionsInv, SessionsCurrent
<1>8. Sound(r, x)
  BY <1>1, <1>3, <1>4, <1>5, <1>6, <1>7, NotNull DEF Sound
<1> HIDE DEF x
<1>9. QED
  BY <1>1, <1>6, <1>8, ReadsKeepInv

LEMMA ChangeReadKeepsInv ==
    ASSUME SessionsInv, NEW r \in Requests, NEW s \in Rows,
           NEW password \in Passwords, ChangeRead(r, s, password)
    PROVE  SessionsInv'
<1> DEFINE u == session[s].user
           x == [Idle EXCEPT !.pc = "change", !.user = u, !.parent = s,
                             !.password = password]
<1>1. /\ req[r] = Idle /\ req' = [req EXCEPT ![r] = x] /\ Forget(r)
      /\ UNCHANGED <<stranded, shared>> /\ TablesKept
  BY DEF ChangeRead, KeepUsers, KeepSessions, TablesKept
<1>2. s \in SessionIds /\ u \in Users /\ s # None
  BY RowFields, NotAnId DEF Rows, SessionsInv
<1>3. /\ x.pc = "change" /\ x.user = u /\ x.parent = s
      /\ x.token = None /\ x.roles = {} /\ x.permissions = {}
      /\ x.password = password /\ x.overtaken = FALSE
      /\ x.escaped = FALSE
  BY DEF Idle
<1>4. x \in Request
  BY <1>2 DEF Idle, Request
<1>5. Sound(r, x)
  BY <1>2, <1>3, <1>4 DEF Sound
<1>6. shared' \in [sessions : SUBSET SessionIds, resets : SUBSET ResetIds]
  BY <1>1 DEF SessionsInv, TypeOK
<1> HIDE DEF x
<1>7. QED
  BY <1>1, <1>5, <1>6, ReadsKeepInv

LEMMA ConfirmReadKeepsInv ==
    ASSUME SessionsInv, NEW r \in Requests, NEW t \in ResetIds,
           ConfirmRead(r, t)
    PROVE  SessionsInv'
<1> DEFINE x == [Idle EXCEPT !.pc = "confirm", !.token = t,
                             !.user = reset[t].user]
<1>1. /\ req[r] = Idle /\ req' = [req EXCEPT ![r] = x] /\ Forget(r)
      /\ t \in Issued /\ reset[t].state = "unused"
      /\ shared' = IF \E q \in Requests \ {r} : req[q].token = t
                   THEN [shared EXCEPT !.resets = @ \cup {t}] ELSE shared
      /\ UNCHANGED stranded /\ TablesKept
  BY DEF ConfirmRead, KeepUsers, KeepSessions, TablesKept
<1>2. reset[t].user \in Users /\ t # None
  BY <1>1, ResetFields, NotAnId DEF SessionsInv
<1>3. /\ x.pc = "confirm" /\ x.user = reset[t].user /\ x.parent = None
      /\ x.token = t /\ x.roles = {} /\ x.permissions = {}
      /\ x.password = None /\ x.overtaken = FALSE /\ x.escaped = FALSE
  BY DEF Idle
<1>4. x \in Request
  BY <1>2 DEF Idle, Request
<1>5. /\ shared' \in [sessions : SUBSET SessionIds, resets : SUBSET ResetIds]
      /\ shared.sessions \subseteq shared'.sessions
      /\ shared.resets \subseteq shared'.resets
      /\ (\E q \in Requests \ {r} : req[q].token = t) => t \in shared'.resets
  <2>1. shared \in [sessions : SUBSET SessionIds, resets : SUBSET ResetIds]
    BY DEF SessionsInv, TypeOK
  <2>2. QED
    BY <1>1, <2>1
<1>6. Sound(r, x)
  BY <1>1, <1>2, <1>3, <1>4, <1>5 DEF Sound
<1> HIDE DEF x
<1>7. QED
  BY <1>1, <1>5, <1>6, ReadsKeepInv

LEMMA FailKeepsInv ==
    ASSUME SessionsInv, NEW r \in Requests, Fail(r)
    PROVE  SessionsInv'
<1>1. /\ TablesKept /\ shared' = shared
      /\ req' = [req EXCEPT ![r] = Idle] /\ Forget(r)
      /\ stranded' = Stranded(r, req[r].pc # "insert")
  BY DEF Fail, TablesKept, KeepUsers, Return
<1>2. /\ req' \in [Requests -> Request \cup {Idle}]
      /\ req'[r] = Idle
      /\ \A q \in Requests \ {r} : req'[q] = req[q]
  BY <1>1, OneRequest DEF SessionsInv
<1>3. /\ changed'.sessions = changed.sessions
      /\ changed'.requests = changed.requests \ {r}
      /\ changed' \in [sessions : SUBSET SessionIds, requests : SUBSET Requests]
  BY <1>1 DEF Forget, SessionsInv, TypeOK
<1>4. /\ stranded \subseteq stranded' /\ stranded' \subseteq SessionIds
      /\ req[r].pc = "insert" /\ req[r].parent # None
           => req[r].parent \in stranded'
  <2>1. req[r].parent \in SessionIds \cup {None} /\ stranded \subseteq SessionIds
    BY RequestFields DEF SessionsInv, TypeOK
  <2>2. QED
    BY <1>1, <2>1 DEF Stranded
<1>5. TypeOK'
  BY <1>1, <1>2, <1>3, <1>4 DEF TypeOK, SessionsInv, TablesKept
<1>6. /\ Rows' = Rows /\ Issued' = Issued
      /\ \A s \in SessionIds : Live(s)' = Live(s)
      /\ \A s \in SessionIds : Children(s)' = Children(s)
      /\ \A u \in Users : RolesOf(u)' = RolesOf(u) /\ Held(u)' = Held(u)
      /\ IdsDense' /\ RowsKnown' /\ SessionsCurrent' /\ TokensExplained'
  BY <1>1, <1>3, TablesStay
<1>7. /\ Idle.pc = "idle" /\ Idle.parent = None /\ Idle.token = None
      /\ Rows \subseteq SessionIds
  BY DEF Idle, Rows
<1>8. RequestsKnown'
  BY <1>1, <1>2, <1>6, <1>7
     DEF RequestsKnown, SessionsInv, Opening, TablesKept
<1>9. ReadsCurrent'
  BY <1>1, <1>2, <1>7 DEF ReadsCurrent, SessionsInv, Opening, TablesKept
<1>10. RolesCurrent'
  <2>1. ASSUME NEW q \in Requests \ {r}
        PROVE  req[q].pc # "idle" => req[q].user \in Users
    BY RequestFields DEF SessionsInv
  <2>2. QED
    BY <1>2, <1>3, <1>6, <1>7, <2>1 DEF RolesCurrent, SessionsInv
<1>11. ParentsSpent'
  BY <1>2, <1>6, <1>7 DEF ParentsSpent, SessionsInv
<1>12. RotationIsHandedOver'
  <2>1. ASSUME NEW s \in Rows, session[s].revoked = "rotated",
               s \notin stranded', NEW q \in Requests,
               req[q].pc = "insert", req[q].parent = s
        PROVE  q # r
    BY <1>4, <1>7, <2>1, NotAnId
  <2>2. QED
    BY <1>1, <1>2, <1>4, <1>6, <1>7, <2>1
       DEF RotationIsHandedOver, SessionsInv, TablesKept
<1>13. RefreshedOnce'
  BY <1>1, <1>2, <1>6, <1>7 DEF RefreshedOnce, SessionsInv, Opening
<1>14. ConfirmedOnce'
  BY <1>1, <1>2, <1>7, NotAnId DEF ConfirmedOnce, SessionsInv, TablesKept
<1>15. QED
  BY <1>5, <1>6, <1>8, <1>9, <1>10, <1>11, <1>12, <1>13, <1>14
     DEF SessionsInv

LEMMA ReadPermissionsKeepsInv ==
    ASSUME SessionsInv, NEW r \in Requests, ReadPermissions(r)
    PROVE  SessionsInv'
<1> DEFINE x == [req[r] EXCEPT !.permissions = Granted(req[r].roles),
                               !.pc = IF req[r].parent = None THEN "insert"
                                      ELSE "rotate"]
<1>1. /\ TablesKept /\ UNCHANGED <<changed, stranded, shared>>
      /\ req[r].pc = "permissions"
  BY DEF ReadPermissions, TablesKept, KeepUsers, KeepSessions, KeepGhosts
<1>2. req[r] \in Request
  BY <1>1, RequestFields DEF SessionsInv, Idle
<1>3. /\ x.pc \in {"insert", "rotate"}
      /\ x.pc = "rotate" <=> req[r].parent # None
      /\ x.permissions = Granted(req[r].roles)
      /\ x.user = req[r].user /\ x.parent = req[r].parent
      /\ x.token = req[r].token /\ x.password = req[r].password
      /\ x.overtaken = req[r].overtaken /\ x.escaped = req[r].escaped
  BY <1>2 DEF Request
<1>4. x \in Request
  BY <1>2 DEF Request, Granted
<1>5. req' = [req EXCEPT ![r] = x]
  BY <1>2 DEF ReadPermissions, SessionsInv, TypeOK
<1> HIDE DEF x
<1>6. /\ req' \in [Requests -> Request \cup {Idle}]
      /\ req'[r] = x
      /\ \A q \in Requests \ {r} : req'[q] = req[q]
  BY <1>4, <1>5, OneRequest DEF SessionsInv
<1>7. TypeOK'
  BY <1>1, <1>6 DEF TypeOK, SessionsInv, TablesKept
<1>8. /\ Rows' = Rows /\ Issued' = Issued
      /\ \A s \in SessionIds : Live(s)' = Live(s)
      /\ \A s \in SessionIds : Children(s)' = Children(s)
      /\ \A u \in Users : RolesOf(u)' = RolesOf(u) /\ Held(u)' = Held(u)
      /\ IdsDense' /\ RowsKnown' /\ SessionsCurrent' /\ TokensExplained'
  BY <1>1, TablesStay
<1>9. /\ \A q \in Requests : Opening(q)' <=> Opening(q)
      /\ Rows \subseteq SessionIds
  BY <1>1, <1>3, <1>6 DEF Opening, Rows
<1>10. RequestsKnown'
  BY <1>1, <1>3, <1>6, <1>8, <1>9
     DEF RequestsKnown, SessionsInv, TablesKept
<1>11. ReadsCurrent'
  BY <1>1, <1>3, <1>6, <1>9 DEF ReadsCurrent, SessionsInv, TablesKept
<1>12. RolesCurrent'
  <2>1. ASSUME NEW q \in Requests
        PROVE  req[q].pc # "idle" => req[q].user \in Users
    BY RequestFields DEF SessionsInv
  <2>2. r \notin changed.requests => x.permissions = Held(x.user)
    BY <1>1, <1>3 DEF RolesCurrent, SessionsInv, Held
  <2>3. QED
    BY <1>1, <1>3, <1>6, <1>8, <2>1, <2>2 DEF RolesCurrent, SessionsInv
<1>13. ParentsSpent'
  BY <1>3, <1>6, <1>8, <1>9, NotAnId DEF ParentsSpent, SessionsInv
<1>14. RotationIsHandedOver'
  BY <1>1, <1>6, <1>8, <1>9
     DEF RotationIsHandedOver, SessionsInv, TablesKept
<1>15. RefreshedOnce'
  BY <1>1, <1>3, <1>6, <1>8, <1>9 DEF RefreshedOnce, SessionsInv
<1>16. ConfirmedOnce'
  BY <1>1, <1>3, <1>6 DEF ConfirmedOnce, SessionsInv, TablesKept
<1>17. QED
  BY <1>7, <1>8, <1>10, <1>11, <1>12, <1>13, <1>14, <1>15, <1>16
     DEF SessionsInv

-----------------------------------------------------------------------------
(* Steps that write to user_sessions.                                      *)

LEMMA RotateKeepsInv ==
    ASSUME SessionsInv, NEW r \in Requests, Rotate(r)
    PROVE  SessionsInv'
<1> DEFINE x == [req[r] EXCEPT !.pc = "insert"]
           p == req[r].parent
           old == [session[p] EXCEPT !.revoked = "rotated"]
<1>1. /\ UNCHANGED <<user, userRoles, rolePermissions, reset, origin>>
      /\ UNCHANGED <<changed, stranded, shared>>
      /\ req[r].pc = "rotate"
      /\ session' = [session EXCEPT ![p].revoked = "rotated"]
  BY DEF Rotate, KeepUsers, KeepGhosts
<1>2. req[r] \in Request
  BY <1>1, RequestFields DEF SessionsInv, Idle
<1>3. /\ x.pc = "insert" /\ x.permissions = req[r].permissions
      /\ x.user = req[r].user /\ x.parent = req[r].parent
      /\ x.token = req[r].token /\ x.password = req[r].password
      /\ x.overtaken = req[r].overtaken /\ x.escaped = req[r].escaped
      /\ x \in Request
  BY <1>2 DEF Request
<1>4. req' = [req EXCEPT ![r] = x]
  BY <1>2 DEF Rotate, SessionsInv, TypeOK
<1>5. p \in Rows /\ p \in SessionIds /\ p # None /\ session[p].user = req[r].user
  BY <1>1 DEF RequestsKnown, SessionsInv, Rows
<1>6. /\ old \in Session /\ old.revoked = "rotated"
      /\ old.user = session[p].user /\ old.known = session[p].known
      /\ old.permissions = session[p].permissions
  <2>1. session[p] \in Session
    BY <1>5, RowFields DEF SessionsInv
  <2>2. QED
    BY <2>1 DEF Session, Reasons
<1>7. /\ session' \in [SessionIds -> Session \cup {NoSession}]
      /\ session'[p] = old
      /\ \A s \in SessionIds \ {p} : session'[s] = session[s]
  BY <1>1, <1>5, <1>6 DEF SessionsInv, TypeOK
<1> HIDE DEF x, old
<1>8. /\ req' \in [Requests -> Request \cup {Idle}]
      /\ req'[r] = x
      /\ \A q \in Requests \ {r} : req'[q] = req[q]
  BY <1>3, <1>4, OneRequest DEF SessionsInv
<1>9. TypeOK'
  BY <1>1, <1>7, <1>8 DEF TypeOK, SessionsInv
<1>10. old # NoSession
  BY <1>6, NotNull DEF Session, NoSession
<1>11. Rows' = Rows /\ Rows \subseteq SessionIds /\ Issued' = Issued
  BY <1>1, <1>5, <1>7, <1>10 DEF Rows, Issued
<1>12. /\ \A s \in SessionIds : Live(s)' <=> Live(s) /\ s # p
       /\ \A s \in SessionIds : Children(s)' = Children(s)
       /\ \A q \in Requests : Opening(q)' <=> Opening(q)
       /\ \A u \in Users : RolesOf(u)' = RolesOf(u) /\ Held(u)' = Held(u)
  <2>1. ASSUME NEW s \in SessionIds PROVE Live(s)' <=> Live(s) /\ s # p
    BY <1>6, <1>7, <1>11, NotNull DEF Live, Reasons
  <2>2. ASSUME NEW s \in SessionIds PROVE Children(s)' = Children(s)
    BY <1>1, <1>11 DEF Children
  <2>3. ASSUME NEW q \in Requests PROVE Opening(q)' <=> Opening(q)
    BY <1>1, <1>3, <1>8 DEF Opening
  <2>4. ASSUME NEW u \in Users
        PROVE  RolesOf(u)' = RolesOf(u) /\ Held(u)' = Held(u)
    BY <1>1 DEF Held, Granted, RolesOf
  <2>5. QED
    BY <2>1, <2>2, <2>3, <2>4
<1>13. \A s \in SessionIds : /\ session'[s].user = session[s].user
                             /\ session'[s].known = session[s].known
                             /\ session'[s].permissions = session[s].permissions
  BY <1>6, <1>7
<1>14. IdsDense' /\ RowsKnown'
  BY <1>1, <1>11, <1>13 DEF IdsDense, RowsKnown, SessionsInv
<1>15. RequestsKnown'
  BY <1>1, <1>3, <1>5, <1>8, <1>11, <1>12, <1>13
     DEF RequestsKnown, SessionsInv
<1>16. ReadsCurrent' /\ SessionsCurrent'
  BY <1>1, <1>3, <1>8, <1>11, <1>12, <1>13
     DEF ReadsCurrent, SessionsCurrent, SessionsInv
<1>17. RolesCurrent' /\ TokensExplained'
  <2>1. ASSUME NEW q \in Requests
        PROVE  req[q].pc # "idle" => req[q].user \in Users
    BY RequestFields DEF SessionsInv
  <2>2. ASSUME NEW s \in Rows PROVE session[s].user \in Users
    BY <1>11, <2>2, RowFields DEF SessionsInv
  <2>3. QED
    BY <1>1, <1>3, <1>8, <1>11, <1>12, <1>13, <2>1, <2>2
       DEF RolesCurrent, TokensExplained, SessionsInv
<1>18. ParentsSpent'
  BY <1>3, <1>8, <1>11, <1>12 DEF ParentsSpent, SessionsInv
<1>19. RotationIsHandedOver'
  BY <1>1, <1>3, <1>5, <1>7, <1>8, <1>11, <1>12, <1>13
     DEF RotationIsHandedOver, SessionsInv
<1>20. RefreshedOnce' /\ ConfirmedOnce'
  BY <1>1, <1>3, <1>8, <1>11, <1>12
     DEF RefreshedOnce, ConfirmedOnce, SessionsInv
<1>21. QED
  BY <1>9, <1>14, <1>15, <1>16, <1>17, <1>18, <1>19, <1>20 DEF SessionsInv

\* Where a row is added to a table that has no gaps.
LEMMA NextId ==
    ASSUME IdsDense
    PROVE  /\ IsFiniteSet(Rows) /\ Rows = 1 .. Cardinality(Rows)
           /\ Cardinality(Rows) \in 0 .. MaxSessions
           /\ IsFiniteSet(Issued) /\ Issued = 1 .. Cardinality(Issued)
           /\ Cardinality(Issued) \in 0 .. MaxResets
<1>1. PICK n \in 0 .. MaxSessions : Rows = 1 .. n
  BY DEF IdsDense
<1>2. PICK m \in 0 .. MaxResets : Issued = 1 .. m
  BY DEF IdsDense
<1>3. IsFiniteSet(1 .. n) /\ Cardinality(1 .. n) = n
  BY FS_Interval, BoundAssumption
<1>4. IsFiniteSet(1 .. m) /\ Cardinality(1 .. m) = m
  BY FS_Interval, BoundAssumption
<1>5. QED
  BY <1>1, <1>2, <1>3, <1>4

LEMMA InsertSessionKeepsInv ==
    ASSUME SessionsInv, NEW r \in Requests, NEW answered \in BOOLEAN,
           InsertSession(r, answered)
    PROVE  SessionsInv'
<1>. PICK s \in SessionIds : s = Cardinality(Rows) + 1
  BY DEF InsertSession
<1>. PICK p \in SessionIds \cup {None} : p = req[r].parent
  BY RequestFields DEF SessionsInv
<1> DEFINE row == [user |-> req[r].user, permissions |-> req[r].permissions,
                   revoked |-> None, known |-> answered]
           from == [parent |-> p, password |-> req[r].password,
                    overtaken |-> req[r].overtaken,
                    escaped |-> req[r].escaped \/ req[r].overtaken]
<1>1. /\ UNCHANGED <<user, userRoles, rolePermissions, reset, shared>>
      /\ req[r].pc = "insert" /\ s \in SessionIds
      /\ session' = [session EXCEPT ![s] = row]
      /\ origin' = [origin EXCEPT ![s] = from]
      /\ changed' = [sessions |-> IF r \in changed.requests
                                  THEN changed.sessions \cup {s}
                                  ELSE changed.sessions,
                     requests |-> changed.requests \ {r}]
      /\ stranded' = Stranded(r, answered)
      /\ req' = [req EXCEPT ![r] = Idle]
  BY DEF InsertSession, KeepUsers, Payload, Return
<1>2. /\ Opening(r) /\ req[r] \in Request
      /\ req[r].user \in Users /\ user[req[r].user] # NoUser
      /\ req[r].password \in Passwords
      /\ p \in Rows \cup {None}
      /\ req[r].overtaken \in BOOLEAN /\ req[r].escaped \in BOOLEAN
      /\ req[r].permissions \subseteq Permissions
  <2>1. Opening(r) /\ req[r].pc # "idle"
    BY <1>1 DEF Opening
  <2>2. user[req[r].user] # NoUser /\ req[r].password # None
        /\ p \in Rows \cup {None}
    BY <2>1 DEF RequestsKnown, SessionsInv
  <2>3. QED
    BY <2>1, <2>2, RequestFields DEF SessionsInv
<1>3. /\ s \notin Rows /\ s # None /\ Rows \subseteq SessionIds
      /\ Rows \cup {s} = 1 .. s /\ s \in 0 .. MaxSessions
  <2>1. Rows = 1 .. Cardinality(Rows) /\ Cardinality(Rows) \in 0 .. MaxSessions
    BY NextId DEF SessionsInv
  <2>2. s \in 1 .. MaxSessions
    BY <1>1 DEF SessionIds
  <2>3. s # None /\ Rows \subseteq SessionIds
    BY <1>1, NotAnId DEF Rows
  <2>4. QED
    BY <2>1, <2>2, <2>3, BoundAssumption
<1>4. /\ row \in Session /\ row # NoSession /\ from \in Origin
      /\ from # NoOrigin
  <2>1. row \in Session
    BY <1>2 DEF Session
  <2>2. from \in Origin
    BY <1>2, <1>3 DEF Origin
  <2>3. row.user # None /\ from.password # None
    BY <1>2, NotNull
  <2>4. QED
    BY <2>1, <2>2, <2>3 DEF NoSession, NoOrigin
<1>5. /\ row.user = req[r].user /\ row.permissions = req[r].permissions
      /\ row.revoked = None /\ row.known = answered
      /\ from.parent = p /\ from.password = req[r].password
      /\ from.overtaken = req[r].overtaken
      /\ from.escaped = (req[r].escaped \/ req[r].overtaken)
  OBVIOUS
<1> HIDE DEF row, from
<1>6. /\ session' \in [SessionIds -> Session \cup {NoSession}]
      /\ session'[s] = row
      /\ \A c \in SessionIds \ {s} : session'[c] = session[c]
      /\ origin' \in [SessionIds -> Origin \cup {NoOrigin}]
      /\ origin'[s] = from
      /\ \A c \in SessionIds \ {s} : origin'[c] = origin[c]
  BY <1>1, <1>4 DEF SessionsInv, TypeOK
<1>7. /\ req' \in [Requests -> Request \cup {Idle}]
      /\ req'[r] = Idle
      /\ \A q \in Requests \ {r} : req'[q] = req[q]
  BY <1>1, OneRequest DEF SessionsInv
<1>8. /\ changed' \in [sessions : SUBSET SessionIds, requests : SUBSET Requests]
      /\ changed.sessions \subseteq changed'.sessions
      /\ r \in changed.requests => s \in changed'.sessions
      /\ changed'.requests = changed.requests \ {r}
  BY <1>1 DEF SessionsInv, TypeOK
<1>9. /\ stranded \subseteq stranded' /\ stranded' \subseteq SessionIds
      /\ p # None /\ ~answered => p \in stranded'
  BY <1>1, <1>2, <1>3 DEF Stranded, SessionsInv, TypeOK
<1>10. TypeOK'
  BY <1>1, <1>6, <1>7, <1>8, <1>9 DEF TypeOK, SessionsInv
<1>11. Rows' = Rows \cup {s} /\ Issued' = Issued
  BY <1>1, <1>3, <1>4, <1>6 DEF Rows, Issued
<1>12. IdsDense'
  BY <1>3, <1>11 DEF IdsDense, SessionsInv
<1>13. /\ \A c \in Rows : Live(c)' = Live(c)
       /\ \A u \in Users : RolesOf(u)' = RolesOf(u) /\ Held(u)' = Held(u)
  BY <1>1, <1>3, <1>6, <1>11 DEF Live, Held, Granted, RolesOf
<1>14. /\ \A c \in Rows : c # p => Children(c)' = Children(c)
       /\ p # None => Children(p)' = Children(p) \cup {s}
       /\ Children(s)' = {}
  <2>1. \A c \in Rows : origin'[c].parent = origin[c].parent
                        /\ origin[c].parent \in Rows \cup {None}
    BY <1>3, <1>6 DEF RowsKnown, SessionsInv
  <2>2. ASSUME NEW c \in Rows, c # p PROVE Children(c)' = Children(c)
    BY <1>5, <1>6, <1>11, <2>1, <2>2 DEF Children
  <2>3. ASSUME p # None PROVE Children(p)' = Children(p) \cup {s}
    BY <1>5, <1>6, <1>11, <2>1 DEF Children
  <2>4. Children(s)' = {}
    BY <1>2, <1>3, <1>5, <1>6, <1>11, <2>1 DEF Children
  <2>5. QED
    BY <2>2, <2>3, <2>4
<1>15. RowsKnown'
  BY <1>1, <1>2, <1>3, <1>4, <1>5, <1>6, <1>11 DEF RowsKnown, SessionsInv
<1>16. /\ Idle.pc = "idle" /\ Idle.parent = None /\ Idle.token = None
       /\ \A q \in Requests \ {r} : Opening(q)' <=> Opening(q)
       /\ ~Opening(r)'
  BY <1>7 DEF Idle, Opening
<1>17. RequestsKnown'
  BY <1>1, <1>3, <1>6, <1>7, <1>11, <1>16 DEF RequestsKnown, SessionsInv
<1>18. ReadsCurrent'
  BY <1>1, <1>7, <1>16 DEF ReadsCurrent, SessionsInv
<1>19. SessionsCurrent'
  <2>1. /\ user[req[r].user].active \/ req[r].overtaken
        /\ \/ req[r].password = user[req[r].user].password
           \/ req[r].overtaken \/ req[r].escaped
    BY <1>2 DEF ReadsCurrent, SessionsInv
  <2>2. /\ user'[session'[s].user].active \/ origin'[s].overtaken
        /\ \/ origin'[s].password = user'[session'[s].user].password
           \/ origin'[s].escaped
    BY <1>1, <1>5, <1>6, <2>1
  <2>3. ASSUME NEW c \in Rows, Live(c)
        PROVE  /\ user'[session'[c].user].active \/ origin'[c].overtaken
               /\ \/ origin'[c].password = user'[session'[c].user].password
                  \/ origin'[c].escaped
    BY <1>1, <1>3, <1>6, <2>3 DEF SessionsCurrent, SessionsInv
  <2>4. QED
    BY <1>11, <1>13, <2>2, <2>3 DEF SessionsCurrent
<1>20. RolesCurrent'
  <2>1. ASSUME NEW q \in Requests \ {r}
        PROVE  req[q].pc # "idle" => req[q].user \in Users
    BY RequestFields DEF SessionsInv
  <2>2. QED
    BY <1>7, <1>8, <1>13, <1>16, <2>1 DEF RolesCurrent, SessionsInv
<1>21. TokensExplained'
  <2>1. ASSUME NEW u \in Users, u = session'[s].user
        PROVE  session'[s].permissions = Held(u)' \/ s \in changed'.sessions
    <3>1. r \in changed.requests \/ req[r].permissions = Held(u)
      BY <1>1, <1>5, <1>6, <2>1 DEF RolesCurrent, SessionsInv
    <3>2. QED
      BY <1>5, <1>6, <1>8, <1>13, <3>1
  <2>2. ASSUME NEW c \in Rows, Live(c), NEW u \in Users, u = session'[c].user
        PROVE  session'[c].permissions = Held(u)' \/ c \in changed'.sessions
    <3>1. session[c].permissions = Held(u) \/ c \in changed.sessions
      BY <1>3, <1>6, <2>2 DEF TokensExplained, SessionsInv
    <3>2. QED
      BY <1>3, <1>6, <1>8, <1>13, <3>1
  <2>3. \A c \in Rows' : session'[c].user \in Users
    BY <1>2, <1>3, <1>5, <1>6, <1>11, RowFields DEF SessionsInv
  <2>4. QED
    BY <1>11, <1>13, <2>1, <2>2, <2>3 DEF TokensExplained
<1>22. p # None => p \in Rows /\ ~Live(p)
  BY <1>1, <1>2 DEF ParentsSpent, SessionsInv
<1>23. ParentsSpent'
  <2>1. ASSUME NEW c \in Rows, Live(c)
        PROVE  Children(c)' = {}
    BY <1>3, <1>14, <1>22, <2>1, NotAnId DEF ParentsSpent, SessionsInv
  <2>2. ASSUME NEW q \in Requests, req'[q].pc = "insert"
        PROVE  req'[q].parent # s /\ req'[q].parent = req[q].parent
    BY <1>3, <1>7, <1>16, <2>2 DEF RequestsKnown, SessionsInv
  <2>3. QED
    BY <1>7, <1>11, <1>13, <1>14, <1>16, <2>1, <2>2
       DEF ParentsSpent, SessionsInv
<1>24. RotationIsHandedOver'
  <2>1. session'[s].revoked # "rotated"
    BY <1>5, <1>6, NotNull DEF Reasons
  <2>2. p # None => \/ p \in stranded'
                    \/ \E c \in Children(p)' : session'[c].known
    BY <1>5, <1>6, <1>9, <1>14
  <2>3. ASSUME NEW c \in Rows, c # p, session[c].revoked = "rotated"
        PROVE  \/ c \in stranded'
               \/ \E d \in Children(c)' : session'[d].known
               \/ \E q \in Requests : req'[q].pc = "insert" /\ req'[q].parent = c
    <3>1. CASE c \in stranded
      BY <1>9, <3>1
    <3>2. CASE \E d \in Children(c) : session[d].known
      BY <1>3, <1>6, <1>14, <2>3, <3>2 DEF Children
    <3>3. CASE \E q \in Requests : req[q].pc = "insert" /\ req[q].parent = c
      BY <1>7, <2>3, <3>3
    <3>4. QED
      BY <2>3, <3>1, <3>2, <3>3 DEF RotationIsHandedOver, SessionsInv
  <2>4. QED
    BY <1>3, <1>6, <1>11, <2>1, <2>2, <2>3, NotAnId DEF RotationIsHandedOver
<1>25. RefreshedOnce'
  <2>1. ASSUME NEW q \in Requests, Opening(q)'
        PROVE  /\ q # r /\ Opening(q) /\ req'[q].parent = req[q].parent
               /\ req[q].parent # s
    <3>1. q # r /\ Opening(q) /\ req'[q].parent = req[q].parent
      BY <1>7, <1>16, <2>1
    <3>2. req[q].parent \in Rows \cup {None}
      BY DEF RequestsKnown, SessionsInv
    <3>3. QED
      BY <1>3, <3>1, <3>2
  <2>2. ASSUME NEW c \in Rows, c \notin shared.sessions, c = p
        PROVE  /\ \A q \in Requests : Opening(q)' => req'[q].parent # c
               /\ Children(c)' = {s}
    <3>1. Children(c) = {} /\ p # None
      BY <1>2, <1>3, <2>2, NotAnId DEF RefreshedOnce, SessionsInv
    <3>2. \A q \in Requests : Opening(q) /\ req[q].parent = c => q = r
      BY <1>2, <2>2 DEF RefreshedOnce, SessionsInv
    <3>3. QED
      BY <1>14, <2>1, <2>2, <3>1, <3>2
  <2>3. ASSUME NEW c \in Rows', c \notin shared.sessions
        PROVE  /\ \A q1, q2 \in Requests :
                    /\ Opening(q1)' /\ req'[q1].parent = c
                    /\ Opening(q2)' /\ req'[q2].parent = c
                    => q1 = q2
               /\ \A q \in Requests :
                    Opening(q)' /\ req'[q].parent = c => Children(c)' = {}
               /\ \A d, e \in Children(c)' : d = e
    <3>1. CASE c = s
      BY <1>14, <2>1, <3>1
    <3>2. CASE c \in Rows /\ c = p
      BY <2>2, <2>3, <3>2
    <3>3. CASE c \in Rows /\ c # p
      <4>1. Children(c)' = Children(c)
        BY <1>14, <3>3
      <4>2. QED
        BY <2>1, <2>3, <3>3, <4>1 DEF RefreshedOnce, SessionsInv
    <3>4. QED
      BY <1>11, <2>3, <3>1, <3>2, <3>3
  <2>4. QED
    BY <1>1, <2>3 DEF RefreshedOnce
<1>26. ConfirmedOnce'
  BY <1>1, <1>7, <1>16, NotAnId DEF ConfirmedOnce, SessionsInv
<1>27. QED
  BY <1>10, <1>12, <1>15, <1>17, <1>18, <1>19, <1>20, <1>21, <1>23, <1>24,
     <1>25, <1>26 DEF SessionsInv

-----------------------------------------------------------------------------
(* Steps that end sessions.                                                *)

\* Some live sessions end.
Ends(E) ==
    /\ E \subseteq Rows /\ \A s \in E : Live(s)
    /\ session' = [s \in SessionIds |->
                     IF s \in E THEN [session[s] EXCEPT !.revoked = "ended"]
                     ELSE session[s]]

\* Some requests that write no session return; others may be overtaken.
Overtakes(by) ==
    \A q \in Requests :
        IF q \in by THEN req[q].pc \in {"change", "confirm"} /\ req'[q] = Idle
        ELSE \/ req'[q] = req[q]
             \/ req[q] # Idle /\ req'[q] = [req[q] EXCEPT !.overtaken = TRUE]

LEMMA EndedFields ==
    ASSUME TypeOK, NEW E, Ends(E)
    PROVE  /\ session' \in [SessionIds -> Session \cup {NoSession}]
           /\ Rows' = Rows
           /\ \A s \in SessionIds :
                /\ Live(s)' <=> Live(s) /\ s \notin E
                /\ session'[s].user = session[s].user
                /\ session'[s].known = session[s].known
                /\ session'[s].permissions = session[s].permissions
                /\ session'[s].revoked = "rotated"
                     <=> session[s].revoked = "rotated"
<1>1. ASSUME NEW s \in SessionIds
      PROVE  /\ session'[s] \in Session \cup {NoSession}
             /\ session'[s] # NoSession <=> session[s] # NoSession
             /\ session'[s].user = session[s].user
             /\ session'[s].known = session[s].known
             /\ session'[s].permissions = session[s].permissions
             /\ s \in E => session'[s].revoked = "ended" /\ session[s].revoked = None
             /\ s \notin E => session'[s] = session[s]
  <2>1. CASE s \in E
    <3>1. /\ session'[s] = [session[s] EXCEPT !.revoked = "ended"]
          /\ session[s] \in Session /\ session[s].revoked = None
          /\ s \in Rows
      BY <2>1, RowFields DEF Ends, Live
    <3>2. /\ [session[s] EXCEPT !.revoked = "ended"] \in Session
          /\ session'[s].user = session[s].user
          /\ session'[s].known = session[s].known
          /\ session'[s].permissions = session[s].permissions
          /\ session'[s].revoked = "ended"
      BY <3>1 DEF Session, Reasons
    <3>3. session'[s].user \in Users /\ NoSession.user = None
      BY <3>1, <3>2 DEF Session, NoSession
    <3>4. QED
      BY <2>1, <3>1, <3>2, <3>3, NotNull DEF Rows
  <2>2. CASE s \notin E
    BY <2>2 DEF Ends, TypeOK
  <2>3. QED
    BY <2>1, <2>2
<1>2. session' \in [SessionIds -> Session \cup {NoSession}]
  BY <1>1 DEF Ends
<1>3. Rows' = Rows
  BY <1>1 DEF Rows
<1>4. ASSUME NEW s \in SessionIds
      PROVE  /\ Live(s)' <=> Live(s) /\ s \notin E
             /\ session'[s].revoked = "rotated" <=> session[s].revoked = "rotated"
  BY <1>1, <1>3, NotNull DEF Live, Reasons
<1>5. QED
  BY <1>1, <1>2, <1>3, <1>4

LEMMA OvertakenFields ==
    ASSUME TypeOK, NEW by \in SUBSET Requests, Overtakes(by),
           NEW q \in Requests
    PROVE  /\ req'[q] \in Request \cup {Idle}
           /\ q \in by => req'[q] = Idle
           /\ q \notin by =>
                /\ req'[q].pc = req[q].pc /\ req'[q].user = req[q].user
                /\ req'[q].parent = req[q].parent
                /\ req'[q].token = req[q].token
                /\ req'[q].roles = req[q].roles
                /\ req'[q].permissions = req[q].permissions
                /\ req'[q].password = req[q].password
                /\ req'[q].escaped = req[q].escaped
                /\ req[q].overtaken => req'[q].overtaken
                /\ req'[q].overtaken \in BOOLEAN
<1>1. CASE q \in by
  BY <1>1 DEF Overtakes
<1>2. CASE q \notin by /\ req'[q] = req[q]
  BY <1>2, RequestFields
<1>3. CASE /\ q \notin by /\ req[q] # Idle
           /\ req'[q] = [req[q] EXCEPT !.overtaken = TRUE]
  <2>1. req[q] \in Request
    BY <1>3, RequestFields
  <2>2. QED
    BY <1>3, <2>1 DEF Request
<1>4. QED
  BY <1>1, <1>2, <1>3 DEF Overtakes

\* All but what relates sessions to the rows of users and of reset tokens.
LEMMA EndsKeepSessions ==
    ASSUME SessionsInv, NEW E, Ends(E),
           NEW by \in SUBSET Requests, Overtakes(by),
           UNCHANGED <<userRoles, rolePermissions, stranded, shared>>,
           changed'.sessions = changed.sessions,
           changed'.requests = changed.requests \ by,
           \A u \in Users : user[u] # NoUser => user'[u] # NoUser,
           Issued' = Issued,
           \A s \in SessionIds :
              /\ origin'[s].parent = origin[s].parent
              /\ origin[s] # NoOrigin => origin'[s] # NoOrigin
    PROVE  /\ IdsDense' /\ RowsKnown' /\ RequestsKnown' /\ ParentsSpent'
           /\ RolesCurrent' /\ TokensExplained'
           /\ RotationIsHandedOver' /\ RefreshedOnce'
<1>1. /\ Rows' = Rows
      /\ \A s \in SessionIds :
           /\ Live(s)' <=> Live(s) /\ s \notin E
           /\ session'[s].user = session[s].user
           /\ session'[s].known = session[s].known
           /\ session'[s].permissions = session[s].permissions
           /\ session'[s].revoked = "rotated"
                <=> session[s].revoked = "rotated"
  BY EndedFields DEF SessionsInv
<1>2. ASSUME NEW q \in Requests
      PROVE  /\ q \in by => req'[q] = Idle
             /\ q \notin by =>
                  /\ req'[q].pc = req[q].pc /\ req'[q].user = req[q].user
                  /\ req'[q].parent = req[q].parent
                  /\ req'[q].token = req[q].token
                  /\ req'[q].roles = req[q].roles
                  /\ req'[q].permissions = req[q].permissions
                  /\ req'[q].password = req[q].password
  BY OvertakenFields DEF SessionsInv
<1>3. \A q \in by : req[q].pc \in {"change", "confirm"}
  BY DEF Overtakes
<1>4. /\ Idle.pc = "idle" /\ Idle.parent = None /\ Idle.token = None
      /\ Rows \subseteq SessionIds
  BY DEF Idle, Rows
<1>5. /\ \A q \in Requests : Opening(q)' <=> Opening(q)
      /\ \A s \in SessionIds : Children(s)' = Children(s)
      /\ \A u \in Users : RolesOf(u)' = RolesOf(u) /\ Held(u)' = Held(u)
  <2>1. ASSUME NEW q \in Requests PROVE Opening(q)' <=> Opening(q)
    BY <1>2, <1>3, <1>4 DEF Opening
  <2>2. ASSUME NEW s \in SessionIds PROVE Children(s)' = Children(s)
    BY <1>1, <1>4 DEF Children
  <2>3. ASSUME NEW u \in Users
        PROVE  RolesOf(u)' = RolesOf(u) /\ Held(u)' = Held(u)
    BY DEF Held, Granted, RolesOf
  <2>4. QED
    BY <2>1, <2>2, <2>3
<1>6. \A s \in Rows : session[s].user \in Users
  BY <1>4, RowFields DEF SessionsInv
<1>7. \A q \in Requests : req[q].pc # "idle" => req[q].user \in Users
  BY RequestFields DEF SessionsInv
<1>8. IdsDense' /\ RowsKnown'
  BY <1>1, <1>4, <1>6 DEF IdsDense, RowsKnown, SessionsInv
<1>9. RequestsKnown'
  <2>1. \A q \in Requests : Opening(q) => q \notin by /\ req[q].user \in Users
    BY <1>3, <1>7 DEF Opening
  <2>2. QED
    BY <1>1, <1>2, <1>4, <1>5, <2>1 DEF RequestsKnown, SessionsInv
<1>10. ParentsSpent'
  BY <1>1, <1>2, <1>4, <1>5 DEF ParentsSpent, SessionsInv
<1>11. RolesCurrent' /\ TokensExplained'
  BY <1>1, <1>2, <1>4, <1>5, <1>6, <1>7
     DEF RolesCurrent, TokensExplained, SessionsInv
<1>12. RotationIsHandedOver'
  <2>1. \A q \in Requests :
          req[q].pc = "insert" =>
            req'[q].pc = "insert" /\ req'[q].parent = req[q].parent
    BY <1>2, <1>3
  <2>2. QED
    BY <1>1, <1>4, <1>5, <2>1 DEF RotationIsHandedOver, SessionsInv, Children
<1>13. RefreshedOnce'
  <2>1. \A q \in Requests : Opening(q) => req'[q].parent = req[q].parent
    BY <1>2, <1>3 DEF Opening
  <2>2. QED
    BY <1>1, <1>4, <1>5, <2>1 DEF RefreshedOnce, SessionsInv
<1>14. QED
  BY <1>8, <1>9, <1>10, <1>11, <1>12, <1>13

LEMMA SessionEndsKeepInv ==
    ASSUME SessionsInv, NEW s \in Rows, Logout(s) \/ ExpireSession(s)
    PROVE  SessionsInv'
<1>1. /\ UNCHANGED <<user, userRoles, rolePermissions, reset, req, origin,
                     changed, stranded, shared>>
      /\ Live(s) /\ s \in SessionIds
      /\ session' = [session EXCEPT ![s].revoked = "ended"]
  BY DEF Logout, ExpireSession, Authorized, KeepUsers, KeepGhosts, Rows
<1>2. Ends({s})
  BY <1>1 DEF Ends, SessionsInv, TypeOK
<1>3. Overtakes({}) /\ Issued' = Issued
  BY <1>1 DEF Overtakes, Issued
<1>4. /\ IdsDense' /\ RowsKnown' /\ RequestsKnown' /\ ParentsSpent'
      /\ RolesCurrent' /\ TokensExplained'
      /\ RotationIsHandedOver' /\ RefreshedOnce'
  <2>1. {} \in SUBSET Requests /\ changed'.requests = changed.requests \ {}
    BY <1>1
  <2>2. QED
    BY <1>1, <1>2, <1>3, <2>1, EndsKeepSessions
<1>5. /\ session' \in [SessionIds -> Session \cup {NoSession}]
      /\ Rows' = Rows /\ Rows \subseteq SessionIds
      /\ \A c \in SessionIds : /\ Live(c)' => Live(c)
                               /\ session'[c].user = session[c].user
  BY <1>2, EndedFields DEF SessionsInv, Rows
<1>6. TypeOK'
  BY <1>1, <1>5 DEF TypeOK, SessionsInv
<1>7. ReadsCurrent' /\ ConfirmedOnce'
  BY <1>1 DEF ReadsCurrent, ConfirmedOnce, SessionsInv, Opening
<1>8. SessionsCurrent'
  BY <1>1, <1>5 DEF SessionsCurrent, SessionsInv
<1>9. QED
  BY <1>4, <1>6, <1>7, <1>8 DEF SessionsInv

\* Overtake, of a request that commits or of none.
LEMMA OvertakeOvertakes ==
    ASSUME TypeOK, NEW u \in Users, NEW by \in SUBSET Requests,
           \A q \in by : req[q].pc \in {"change", "confirm"},
           req' = Overtake(u, by)
    PROVE  /\ Overtakes(by)
           /\ req' \in [Requests -> Request \cup {Idle}]
           /\ \A q \in Requests \ by : req[q].user = u => req'[q].overtaken
<1>1. ASSUME NEW q \in Requests
      PROVE  /\ q \in by => req'[q] = Idle
             /\ q \notin by =>
                  \/ req'[q] = req[q] /\ req[q].user # u
                  \/ /\ req[q].user = u /\ req[q] # Idle
                     /\ req'[q] = [req[q] EXCEPT !.overtaken = TRUE]
                     /\ req'[q].overtaken
  <2>1. CASE q \in by
    BY <2>1 DEF Overtake
  <2>2. CASE q \notin by /\ req[q].user # u
    BY <2>2 DEF Overtake
  <2>3. CASE q \notin by /\ req[q].user = u
    <3>1. req[q] # Idle
      BY <2>3, NotNull DEF Idle
    <3>2. req[q] \in Request
      BY <3>1, RequestFields
    <3>3. req'[q] = [req[q] EXCEPT !.overtaken = TRUE]
      BY <2>3 DEF Overtake
    <3>4. req'[q].overtaken
      BY <3>2, <3>3 DEF Request
    <3>5. QED
      BY <2>3, <3>1, <3>3, <3>4
  <2>4. QED
    BY <2>1, <2>2, <2>3
<1>2. Overtakes(by)
  BY <1>1 DEF Overtakes
<1>3. \A q \in Requests : req'[q] \in Request \cup {Idle}
  BY <1>2, OvertakenFields
<1>4. QED
  BY <1>1, <1>2, <1>3 DEF Overtake

\* RevokeAll ends what is live of the user, except what it keeps.
LEMMA RevokeAllEnds ==
    ASSUME NEW u, NEW keep, RevokeAll(u, keep)
    PROVE  /\ Ends(Ended(u, keep))
           /\ \A s \in SessionIds :
                Live(s) /\ session[s].user = u => s \in Ended(u, keep) \cup keep
BY DEF RevokeAll, Ends, Ended, Live

LEMMA DeactivateKeepsInv ==
    ASSUME SessionsInv, NEW a \in Rows, NEW u \in Users, Deactivate(a, u)
    PROVE  SessionsInv'
<1>1. /\ UNCHANGED <<userRoles, rolePermissions, reset, origin, changed,
                     stranded, shared>>
      /\ user[u] # NoUser /\ user' = [user EXCEPT ![u].active = FALSE]
      /\ RevokeAll(u, {}) /\ req' = Overtake(u, {})
  BY DEF Deactivate, KeepGhosts
<1>2. /\ user' \in [Users -> User \cup {NoUser}]
      /\ \A v \in Users : /\ v # u => user'[v] = user[v]
                          /\ user[v] # NoUser => user'[v] # NoUser
                          /\ user'[v].password = user[v].password
  <2>1. user[u] \in User
    BY <1>1, UserFields DEF SessionsInv
  <2>2. /\ user'[u] \in User /\ user'[u].password = user[u].password
        /\ \A v \in Users : v # u => user'[v] = user[v]
    BY <1>1, <2>1 DEF User, SessionsInv, TypeOK
  <2>3. user'[u] # NoUser
    BY <2>2, NotNull DEF User, NoUser
  <2>4. QED
    BY <1>1, <2>2, <2>3 DEF SessionsInv, TypeOK
<1>3. PICK E : E = Ended(u, {})
  OBVIOUS
<1>4. Ends(E) /\ \A s \in SessionIds : Live(s) /\ session[s].user = u => s \in E
  BY <1>1, <1>3, RevokeAllEnds
<1>5. /\ Overtakes({}) /\ req' \in [Requests -> Request \cup {Idle}]
      /\ \A q \in Requests : req[q].user = u => req'[q].overtaken
  BY <1>1, OvertakeOvertakes DEF SessionsInv
<1>6. /\ IdsDense' /\ RowsKnown' /\ RequestsKnown' /\ ParentsSpent'
      /\ RolesCurrent' /\ TokensExplained'
      /\ RotationIsHandedOver' /\ RefreshedOnce'
  <2>1. {} \in SUBSET Requests /\ changed'.requests = changed.requests \ {}
        /\ Issued' = Issued
    BY <1>1 DEF Issued
  <2>2. QED
    BY <1>1, <1>2, <1>4, <1>5, <2>1, EndsKeepSessions
<1>7. /\ session' \in [SessionIds -> Session \cup {NoSession}]
      /\ Rows' = Rows /\ Rows \subseteq SessionIds
      /\ \A c \in SessionIds : /\ Live(c)' => Live(c) /\ c \notin E
                               /\ session'[c].user = session[c].user
      /\ \A c \in Rows : session[c].user \in Users
  BY <1>4, EndedFields, RowFields DEF SessionsInv, Rows
<1>8. TypeOK'
  BY <1>1, <1>2, <1>5, <1>7 DEF TypeOK, SessionsInv
<1>9. ASSUME NEW q \in Requests
      PROVE  /\ req'[q].pc = req[q].pc /\ req'[q].user = req[q].user
             /\ req'[q].token = req[q].token
             /\ req'[q].password = req[q].password
             /\ req'[q].escaped = req[q].escaped
             /\ req[q].overtaken => req'[q].overtaken
             /\ Opening(q) => req[q].user \in Users
  BY <1>5, OvertakenFields, RequestFields DEF SessionsInv, Opening
<1>10. ReadsCurrent'
  BY <1>2, <1>5, <1>9 DEF ReadsCurrent, SessionsInv, Opening
<1>11. SessionsCurrent'
  BY <1>1, <1>2, <1>4, <1>7 DEF SessionsCurrent, SessionsInv
<1>12. ConfirmedOnce'
  BY <1>1, <1>9 DEF ConfirmedOnce, SessionsInv
<1>13. QED
  BY <1>6, <1>8, <1>10, <1>11, <1>12 DEF SessionsInv

\* A password that is set makes no login exist that did not, or not exist.
LEMMA PasswordSet ==
    ASSUME TypeOK, NEW u \in Users, NEW password \in Passwords,
           user' = [user EXCEPT ![u].password = password]
    PROVE  /\ user' \in [Users -> User \cup {NoUser}]
           /\ user'[u].password = password
           /\ \A v \in Users : /\ v # u => user'[v] = user[v]
                               /\ user[v] # NoUser => user'[v] # NoUser
                               /\ user'[v].active = user[v].active
<1>1. /\ user'[u] \in User /\ user'[u].password = password
      /\ user'[u].active = user[u].active
      /\ \A v \in Users : v # u => user'[v] = user[v]
  <2>1. CASE user[u] \in User
    BY <2>1 DEF TypeOK, User
  <2>2. CASE user[u] = NoUser
    <3>1. /\ user'[u] = [NoUser EXCEPT !.password = password]
          /\ \A v \in Users : v # u => user'[v] = user[v]
      BY <2>2 DEF TypeOK
    <3>2. [NoUser EXCEPT !.password = password] \in User
      BY DEF NoUser, User
    <3>3. user'[u].password = password /\ user'[u].active = NoUser.active
      <4>1. /\ [NoUser EXCEPT !.password = password].password = password
            /\ [NoUser EXCEPT !.password = password].active = NoUser.active
        BY DEF NoUser
      <4>2. QED
        BY <3>1, <4>1
    <3>4. QED
      BY <2>2, <3>1, <3>2, <3>3
  <2>3. QED
    BY <2>1, <2>2, UserFields
<1>2. user'[u] # NoUser
  BY <1>1, NotNull DEF NoUser
<1>3. QED
  BY <1>1, <1>2 DEF TypeOK

LEMMA ChangeCommitKeepsInv ==
    ASSUME SessionsInv, NEW r \in Requests, NEW password \in Passwords,
           ChangeCommit(r, password)
    PROVE  SessionsInv'
<1>1. /\ req[r].pc = "change"
      /\ user' = [user EXCEPT ![req[r].user].password = password]
      /\ RevokeAll(req[r].user, {req[r].parent})
      /\ req' = Overtake(req[r].user, {r})
      /\ origin' = [origin EXCEPT ![req[r].parent].password = password]
      /\ Forget(r)
      /\ UNCHANGED <<userRoles, rolePermissions, reset, stranded, shared>>
  BY DEF ChangeCommit
<1>2. PICK u \in Users : u = req[r].user
  BY <1>1, RequestFields DEF SessionsInv
<1>3. PICK s \in Rows : s = req[r].parent
  BY <1>1 DEF RequestsKnown, SessionsInv
<1>4. s \in SessionIds /\ s # None /\ session[s].user = u /\ origin[s] \in Origin
      /\ Rows \subseteq SessionIds
  BY <1>2, <1>3, RowFields, NotAnId
     DEF RequestsKnown, RowsKnown, SessionsInv, Rows
<1>5. /\ user' \in [Users -> User \cup {NoUser}]
      /\ user'[u].password = password
      /\ \A v \in Users : /\ v # u => user'[v] = user[v]
                          /\ user[v] # NoUser => user'[v] # NoUser
                          /\ user'[v].active = user[v].active
  BY <1>1, <1>2, PasswordSet DEF SessionsInv
<1>6. /\ origin' \in [SessionIds -> Origin \cup {NoOrigin}]
      /\ origin'[s].password = password
      /\ \A c \in SessionIds :
           /\ c # s => origin'[c] = origin[c]
           /\ origin'[c].parent = origin[c].parent
           /\ origin'[c].overtaken = origin[c].overtaken
           /\ origin'[c].escaped = origin[c].escaped
           /\ origin[c] # NoOrigin => origin'[c] # NoOrigin
  <2>1. /\ origin'[s] \in Origin /\ origin'[s].password = password
        /\ origin'[s].parent = origin[s].parent
        /\ origin'[s].overtaken = origin[s].overtaken
        /\ origin'[s].escaped = origin[s].escaped
        /\ \A c \in SessionIds : c # s => origin'[c] = origin[c]
    BY <1>1, <1>3, <1>4 DEF Origin, SessionsInv, TypeOK
  <2>2. origin'[s] # NoOrigin
    BY <2>1, NotNull DEF NoOrigin
  <2>3. QED
    BY <1>1, <1>3, <2>1, <2>2 DEF SessionsInv, TypeOK
<1>7. PICK E : E = Ended(u, {s})
  OBVIOUS
<1>8. /\ Ends(E)
      /\ \A c \in SessionIds : Live(c) /\ session[c].user = u => c \in E \cup {s}
  BY <1>1, <1>2, <1>3, <1>7, RevokeAllEnds
<1>9. /\ Overtakes({r}) /\ req' \in [Requests -> Request \cup {Idle}]
      /\ \A q \in Requests \ {r} : req[q].user = u => req'[q].overtaken
  BY <1>1, <1>2, OvertakeOvertakes DEF SessionsInv
<1>10. /\ changed'.sessions = changed.sessions
       /\ changed'.requests = changed.requests \ {r}
       /\ changed' \in [sessions : SUBSET SessionIds, requests : SUBSET Requests]
  BY <1>1 DEF Forget, SessionsInv, TypeOK
<1>11. /\ IdsDense' /\ RowsKnown' /\ RequestsKnown' /\ ParentsSpent'
       /\ RolesCurrent' /\ TokensExplained'
       /\ RotationIsHandedOver' /\ RefreshedOnce'
  <2>1. {r} \in SUBSET Requests /\ Issued' = Issued
    BY <1>1 DEF Issued
  <2>2. QED
    BY <1>1, <1>5, <1>6, <1>8, <1>9, <1>10, <2>1, EndsKeepSessions
<1>12. /\ session' \in [SessionIds -> Session \cup {NoSession}]
       /\ Rows' = Rows
       /\ \A c \in SessionIds : /\ Live(c)' => Live(c) /\ c \notin E
                                /\ session'[c].user = session[c].user
       /\ \A c \in Rows : session[c].user \in Users
  BY <1>4, <1>8, EndedFields, RowFields DEF SessionsInv
<1>13. TypeOK'
  BY <1>1, <1>5, <1>6, <1>9, <1>10, <1>12 DEF TypeOK, SessionsInv
<1>14. ASSUME NEW q \in Requests \ {r}
       PROVE  /\ req'[q].pc = req[q].pc /\ req'[q].user = req[q].user
              /\ req'[q].token = req[q].token
              /\ req'[q].password = req[q].password
              /\ req'[q].escaped = req[q].escaped
              /\ req[q].overtaken => req'[q].overtaken
              /\ Opening(q) => req[q].user \in Users
  BY <1>9, OvertakenFields, RequestFields DEF SessionsInv, Opening
<1>15. req'[r].pc = "idle" /\ req'[r].token = None
  BY <1>9 DEF Overtakes, Idle
<1>16. ReadsCurrent'
  BY <1>5, <1>9, <1>14, <1>15 DEF ReadsCurrent, SessionsInv, Opening
<1>17. SessionsCurrent'
  BY <1>4, <1>5, <1>6, <1>8, <1>12 DEF SessionsCurrent, SessionsInv
<1>18. ConfirmedOnce'
  <2>1. \A q \in Requests, i \in ResetIds :
          req'[q].token = i => req[q].token = i
    BY <1>14, <1>15, NotAnId
  <2>2. reset' = reset /\ shared' = shared
    BY <1>1
  <2>3. QED
    BY <2>1, <2>2 DEF ConfirmedOnce, SessionsInv
<1>19. QED
  BY <1>11, <1>13, <1>16, <1>17, <1>18 DEF SessionsInv

LEMMA ConfirmCommitKeepsInv ==
    ASSUME SessionsInv, NEW r \in Requests, NEW password \in Passwords,
           ConfirmCommit(r, password)
    PROVE  SessionsInv'
<1>1. /\ req[r].pc = "confirm"
      /\ reset' = [reset EXCEPT ![req[r].token].state = "used",
                                ![req[r].token].uses = @ + 1]
      /\ user' = [user EXCEPT ![req[r].user].password = password]
      /\ RevokeAll(req[r].user, {})
      /\ req' = Overtake(req[r].user, {r})
      /\ Forget(r)
      /\ UNCHANGED <<userRoles, rolePermissions, origin, stranded, shared>>
  BY DEF ConfirmCommit
<1>2. PICK u \in Users : u = req[r].user
  BY <1>1, RequestFields DEF SessionsInv
<1>3. PICK t \in Issued : t = req[r].token
  BY <1>1 DEF RequestsKnown, SessionsInv
<1>4. t \in ResetIds /\ t # None /\ reset[t] \in Reset /\ reset[t].uses \in Nat
  BY ResetFields, NotAnId DEF SessionsInv, Issued
<1>5. /\ user' \in [Users -> User \cup {NoUser}]
      /\ \A v \in Users : /\ v # u => user'[v] = user[v]
                          /\ user[v] # NoUser => user'[v] # NoUser
                          /\ user'[v].active = user[v].active
  BY <1>1, <1>2, PasswordSet DEF SessionsInv
<1>6. /\ reset'[t] \in Reset /\ reset'[t].uses = reset[t].uses + 1
      /\ reset'[t].state = "used"
      /\ \A i \in ResetIds \ {t} : reset'[i] = reset[i]
      /\ reset' \in [ResetIds -> Reset \cup {NoReset}]
      /\ Issued' = Issued
  <2>1. /\ reset'[t] \in Reset /\ reset'[t].uses = reset[t].uses + 1
        /\ reset'[t].state = "used"
        /\ \A i \in ResetIds \ {t} : reset'[i] = reset[i]
    BY <1>1, <1>3, <1>4 DEF Reset, SessionsInv, TypeOK
  <2>2. reset'[t] # NoReset
    BY <2>1, NotNull DEF Reset, NoReset
  <2>3. QED
    BY <1>1, <1>3, <1>4, <2>1, <2>2 DEF Issued, SessionsInv, TypeOK
<1>7. PICK E : E = Ended(u, {})
  OBVIOUS
<1>8. Ends(E) /\ \A c \in SessionIds : Live(c) /\ session[c].user = u => c \in E
  BY <1>1, <1>2, <1>7, RevokeAllEnds
<1>9. /\ Overtakes({r}) /\ req' \in [Requests -> Request \cup {Idle}]
      /\ \A q \in Requests \ {r} : req[q].user = u => req'[q].overtaken
  BY <1>1, <1>2, OvertakeOvertakes DEF SessionsInv
<1>10. /\ changed'.sessions = changed.sessions
       /\ changed'.requests = changed.requests \ {r}
       /\ changed' \in [sessions : SUBSET SessionIds, requests : SUBSET Requests]
  BY <1>1 DEF Forget, SessionsInv, TypeOK
<1>11. /\ IdsDense' /\ RowsKnown' /\ RequestsKnown' /\ ParentsSpent'
       /\ RolesCurrent' /\ TokensExplained'
       /\ RotationIsHandedOver' /\ RefreshedOnce'
  <2>1. {r} \in SUBSET Requests
    OBVIOUS
  <2>2. QED
    BY <1>1, <1>5, <1>6, <1>8, <1>9, <1>10, <2>1, EndsKeepSessions
<1>12. /\ session' \in [SessionIds -> Session \cup {NoSession}]
       /\ Rows' = Rows /\ Rows \subseteq SessionIds
       /\ \A c \in SessionIds : /\ Live(c)' => Live(c) /\ c \notin E
                                /\ session'[c].user = session[c].user
       /\ \A c \in Rows : session[c].user \in Users
  BY <1>8, EndedFields, RowFields DEF SessionsInv, Rows
<1>13. TypeOK'
  BY <1>1, <1>5, <1>6, <1>9, <1>10, <1>12 DEF TypeOK, SessionsInv
<1>14. ASSUME NEW q \in Requests \ {r}
       PROVE  /\ req'[q].pc = req[q].pc /\ req'[q].user = req[q].user
              /\ req'[q].token = req[q].token
              /\ req'[q].password = req[q].password
              /\ req'[q].escaped = req[q].escaped
              /\ req[q].overtaken => req'[q].overtaken
              /\ Opening(q) => req[q].user \in Users
  BY <1>9, OvertakenFields, RequestFields DEF SessionsInv, Opening
<1>15. req'[r].pc = "idle" /\ req'[r].token = None
  BY <1>9 DEF Overtakes, Idle
<1>16. ReadsCurrent'
  BY <1>5, <1>9, <1>14, <1>15 DEF ReadsCurrent, SessionsInv, Opening
<1>17. SessionsCurrent'
  <2>1. ASSUME NEW c \in Rows, Live(c)'
        PROVE  Live(c) /\ session'[c].user \in Users
               /\ user'[session'[c].user] = user[session[c].user]
    BY <1>5, <1>8, <1>12, <2>1
  <2>2. QED
    BY <1>1, <1>12, <2>1 DEF SessionsCurrent, SessionsInv
<1>18. ConfirmedOnce'
  <2>1. ASSUME t \notin shared.resets
        PROVE  /\ reset[t].uses = 0
               /\ \A q \in Requests \ {r} : req[q].token # t
    BY <1>3, <1>4, <2>1 DEF ConfirmedOnce, SessionsInv
  <2>2. \A q \in Requests, i \in ResetIds :
          req'[q].token = i => q # r /\ req[q].token = i
    BY <1>14, <1>15, NotAnId
  <2>3. ASSUME NEW i \in ResetIds \ shared.resets
        PROVE  /\ \A q1, q2 \in Requests :
                    req'[q1].token = i /\ req'[q2].token = i => q1 = q2
               /\ \A q \in Requests : req'[q].token = i => reset'[i].uses = 0
               /\ reset'[i].state = "unused" => reset'[i].uses = 0
               /\ reset'[i].uses <= 1
    <3>1. CASE i = t
      BY <1>6, <2>1, <2>2, <2>3, <3>1
    <3>2. CASE i # t
      BY <1>6, <2>2, <3>2 DEF ConfirmedOnce, SessionsInv
    <3>3. QED
      BY <3>1, <3>2
  <2>4. QED
    BY <1>1, <2>3 DEF ConfirmedOnce
<1>19. QED
  BY <1>11, <1>13, <1>16, <1>17, <1>18 DEF SessionsInv

-----------------------------------------------------------------------------
(* Steps that leave the sessions alone.                                    *)

\* What the invariant says of sessions and of the requests that open them.
LEMMA SessionsStay ==
    ASSUME SessionsInv, UNCHANGED <<session, req, origin, stranded, shared>>
    PROVE  /\ Rows' = Rows /\ ParentsSpent' /\ RotationIsHandedOver'
           /\ RefreshedOnce'
           /\ \A s \in Rows : Live(s)' = Live(s)
           /\ \A r \in Requests : Opening(r)' = Opening(r)
<1>1. Rows' = Rows
  BY DEF Rows
<1>2. ParentsSpent'
  BY <1>1 DEF ParentsSpent, SessionsInv, Live, Children
<1>3. RotationIsHandedOver'
  BY <1>1 DEF RotationIsHandedOver, SessionsInv, Children
<1>4. RefreshedOnce'
  BY <1>1 DEF RefreshedOnce, SessionsInv, Children, Opening
<1>5. QED
  BY <1>1, <1>2, <1>3, <1>4 DEF Live, Opening

LEMMA CreateUserKeepsInv ==
    ASSUME SessionsInv, NEW a \in Rows, NEW u \in Users,
           NEW password \in Passwords, CreateUser(a, u, password)
    PROVE  SessionsInv'
<1>1. /\ UNCHANGED <<userRoles, rolePermissions, session, reset, req, origin,
                     changed, stranded, shared>>
      /\ user[u] = NoUser
      /\ user' = [user EXCEPT ![u] = [password |-> password, active |-> TRUE]]
  BY DEF CreateUser, KeepSessions
<1>2. [password |-> password, active |-> TRUE] \in User
  BY DEF User
<1>3. [password |-> password, active |-> TRUE] # NoUser
  BY NotNull DEF NoUser
<1>4. /\ user' \in [Users -> User \cup {NoUser}]
      /\ \A v \in Users : user[v] # NoUser => user'[v] = user[v] /\ v # u
  BY <1>1, <1>2 DEF SessionsInv, TypeOK
<1>5. TypeOK'
  BY <1>1, <1>4 DEF TypeOK, SessionsInv
<1>6. /\ Rows' = Rows /\ ParentsSpent' /\ RotationIsHandedOver'
      /\ RefreshedOnce'
      /\ \A s \in Rows : Live(s)' = Live(s)
      /\ \A r \in Requests : Opening(r)' = Opening(r)
  BY <1>1, SessionsStay
<1>7. \A s \in Rows : /\ session[s].user \in Users
                      /\ user[session[s].user] # NoUser
  BY RowFields DEF SessionsInv, RowsKnown, Rows
<1>8. \A r \in Requests : Opening(r) => /\ req[r].user \in Users
                                        /\ user[req[r].user] # NoUser
  BY RequestFields DEF SessionsInv, RequestsKnown, Opening
<1>9. IdsDense' /\ RowsKnown' /\ RequestsKnown'
  BY <1>1, <1>4, <1>6, <1>7, <1>8
     DEF IdsDense, RowsKnown, RequestsKnown, SessionsInv, Issued
<1>10. ReadsCurrent'
  BY <1>1, <1>4, <1>6, <1>8 DEF ReadsCurrent, SessionsInv
<1>11. SessionsCurrent'
  BY <1>1, <1>4, <1>6, <1>7 DEF SessionsCurrent, SessionsInv
<1>12. RolesCurrent' /\ TokensExplained' /\ ConfirmedOnce'
  BY <1>1, <1>6 DEF RolesCurrent, TokensExplained, ConfirmedOnce, SessionsInv,
                    Held, Granted, RolesOf
<1>13. QED
  BY <1>5, <1>6, <1>9, <1>10, <1>11, <1>12 DEF SessionsInv

\* A row of auth_tokens is new, or as good as used.
OneReset(t) ==
    /\ \A i \in ResetIds \ {t} : reset'[i] = reset[i]
    /\ reset' \in [ResetIds -> Reset \cup {NoReset}]
    /\ reset'[t].uses = reset[t].uses
    /\ reset'[t].state = "unused" => reset'[t].uses = 0
    /\ IdsDense' /\ Issued' = Issued \cup {t}

LEMMA RequestResetIsOne ==
    ASSUME SessionsInv, NEW u \in Users, RequestReset(u)
    PROVE  \E t \in ResetIds : OneReset(t)
<1> DEFINE row == [user |-> u, state |-> "unused", sent |-> user[u].active,
                   uses |-> 0]
<1>1. PICK t \in ResetIds : t = Cardinality(Issued) + 1
  BY DEF RequestReset
<1>2. reset' = [reset EXCEPT ![t] = row] /\ session' = session
  BY <1>1 DEF RequestReset, KeepSessions
<1>3. /\ t \notin Issued /\ Issued \cup {t} = 1 .. t /\ t \in 0 .. MaxResets
  <2>1. Issued = 1 .. Cardinality(Issued) /\ Cardinality(Issued) \in 0 .. MaxResets
    BY NextId DEF SessionsInv
  <2>2. t \in 1 .. MaxResets
    BY DEF ResetIds
  <2>3. QED
    BY <1>1, <2>1, <2>2, BoundAssumption
<1>4. row \in Reset /\ row.uses = 0 /\ row.user = u
  BY UserFields DEF Reset, SessionsInv
<1> HIDE DEF row
<1>5. /\ \A i \in ResetIds \ {t} : reset'[i] = reset[i]
      /\ reset'[t] = row
      /\ reset' \in [ResetIds -> Reset \cup {NoReset}]
  BY <1>2, <1>4 DEF SessionsInv, TypeOK
<1>6. row # NoReset
  BY <1>4, NotNull DEF NoReset
<1>7. Issued' = Issued \cup {t}
  BY <1>5, <1>6 DEF Issued
<1>8. reset[t].uses = 0
  BY <1>3, ResetFields DEF SessionsInv, NoReset
<1>9. IdsDense'
  BY <1>2, <1>3, <1>7 DEF IdsDense, SessionsInv, Rows
<1>10. QED
  BY <1>4, <1>5, <1>7, <1>8, <1>9 DEF OneReset

LEMMA ExpireResetIsOne ==
    ASSUME SessionsInv, NEW t \in ResetIds, ExpireReset(t)
    PROVE  OneReset(t)
<1>1. /\ reset[t].state = "unused" /\ session' = session
      /\ reset' = [reset EXCEPT ![t].state = "used"]
  BY DEF ExpireReset, KeepSessions
<1>2. t \in Issued /\ reset[t] \in Reset
  BY <1>1, ResetFields DEF SessionsInv, NoReset
<1>3. /\ reset'[t] \in Reset /\ reset'[t].uses = reset[t].uses
      /\ reset'[t].state = "used"
      /\ \A i \in ResetIds \ {t} : reset'[i] = reset[i]
  BY <1>1, <1>2 DEF Reset, SessionsInv, TypeOK
<1>4. reset'[t] # NoReset
  BY <1>3, NotNull DEF Reset, NoReset
<1>5. Issued' = Issued \cup {t}
  BY <1>2, <1>3, <1>4 DEF Issued
<1>6. IdsDense'
  BY <1>1, <1>2, <1>5 DEF IdsDense, SessionsInv, Rows
<1>7. reset' \in [ResetIds -> Reset \cup {NoReset}]
  BY <1>1, <1>3 DEF SessionsInv, TypeOK
<1>8. QED
  BY <1>3, <1>5, <1>6, <1>7 DEF OneReset

LEMMA ResetStepsKeepInv ==
    ASSUME SessionsInv,
           \/ \E u \in Users : RequestReset(u)
           \/ \E t \in ResetIds : ExpireReset(t)
    PROVE  SessionsInv'
<1>1. UNCHANGED <<user, userRoles, rolePermissions, session, req, origin,
                  changed, stranded, shared>>
  BY DEF RequestReset, ExpireReset, KeepSessions
<1>2. PICK t \in ResetIds : OneReset(t)
  BY RequestResetIsOne, ExpireResetIsOne
<1>3. TypeOK'
  BY <1>1, <1>2 DEF TypeOK, SessionsInv, OneReset
<1>4. /\ Rows' = Rows /\ ParentsSpent' /\ RotationIsHandedOver'
      /\ RefreshedOnce'
      /\ \A s \in Rows : Live(s)' = Live(s)
      /\ \A r \in Requests : Opening(r)' = Opening(r)
  BY <1>1, SessionsStay
<1>5. RowsKnown' /\ RequestsKnown'
  BY <1>1, <1>2, <1>4 DEF RowsKnown, RequestsKnown, SessionsInv, OneReset
<1>6. ReadsCurrent' /\ SessionsCurrent' /\ RolesCurrent' /\ TokensExplained'
  BY <1>1, <1>4 DEF ReadsCurrent, SessionsCurrent, RolesCurrent,
                    TokensExplained, SessionsInv, Held, Granted, RolesOf
<1>7. ConfirmedOnce'
  <2>1. ASSUME NEW i \in ResetIds \ shared.resets
        PROVE  /\ reset'[i].uses = reset[i].uses
               /\ reset'[i].state = "unused" => reset'[i].uses = 0
    BY <1>2 DEF OneReset, ConfirmedOnce, SessionsInv
  <2>2. QED
    BY <1>1, <2>1 DEF ConfirmedOnce, SessionsInv
<1>8. QED
  BY <1>2, <1>3, <1>4, <1>5, <1>6, <1>7 DEF SessionsInv, OneReset

\* Roles or permissions of some users change.
LEMMA RolesKeepInv ==
    ASSUME SessionsInv, NEW users \in SUBSET Users, NEW role \in Roles,
           changed' = Affected(users, role),
           UNCHANGED <<user, session, reset, req, origin, stranded, shared>>,
           userRoles' \subseteq Users \X Roles,
           rolePermissions' \subseteq Roles \X Permissions,
           \A v \in Users \ users :
              RolesOf(v)' = RolesOf(v) /\ Held(v)' = Held(v)
    PROVE  SessionsInv'
<1>1. /\ changed' \in [sessions : SUBSET SessionIds, requests : SUBSET Requests]
      /\ changed.sessions \subseteq changed'.sessions
      /\ changed.requests \subseteq changed'.requests
      /\ \A s \in Rows : Live(s) /\ s \notin changed'.sessions
           => session[s].user \notin users
      /\ \A r \in Requests \ changed'.requests : req[r].user \notin users
  BY DEF Affected, SessionsInv, TypeOK, Rows
<1>2. TypeOK'
  BY <1>1 DEF TypeOK, SessionsInv
<1>3. /\ Rows' = Rows /\ ParentsSpent' /\ RotationIsHandedOver'
      /\ RefreshedOnce'
      /\ \A s \in Rows : Live(s)' = Live(s)
      /\ \A r \in Requests : Opening(r)' = Opening(r)
  BY SessionsStay
<1>4. /\ \A s \in Rows : session[s].user \in Users
      /\ \A r \in Requests : req[r].pc # "idle" => req[r].user \in Users
  BY RowFields, RequestFields DEF SessionsInv, Rows
<1>5. IdsDense' /\ RowsKnown' /\ RequestsKnown'
  BY <1>3 DEF IdsDense, RowsKnown, RequestsKnown, SessionsInv, Issued
<1>6. ReadsCurrent' /\ SessionsCurrent' /\ ConfirmedOnce'
  BY <1>3 DEF ReadsCurrent, SessionsCurrent, ConfirmedOnce, SessionsInv
<1>7. RolesCurrent' /\ TokensExplained'
  BY <1>1, <1>3, <1>4 DEF RolesCurrent, TokensExplained, SessionsInv
<1>8. QED
  BY <1>2, <1>3, <1>5, <1>6, <1>7 DEF SessionsInv

LEMMA UserRolesKeepInv ==
    ASSUME SessionsInv, NEW a \in Rows, NEW u \in Users, NEW role \in Roles,
           AssignRole(a, u, role) \/ RemoveRole(a, u, role)
    PROVE  SessionsInv'
<1>1. /\ UNCHANGED <<user, rolePermissions, session, reset, req, origin,
                     stranded, shared>>
      /\ changed' = Affected({u}, role)
      /\ \/ userRoles' = userRoles \cup {<<u, role>>}
         \/ userRoles' = userRoles \ {<<u, role>>}
  BY DEF AssignRole, RemoveRole, KeepSessions
<1>2. /\ userRoles' \subseteq Users \X Roles
      /\ rolePermissions' \subseteq Roles \X Permissions
  BY <1>1 DEF SessionsInv, TypeOK
<1>3. ASSUME NEW v \in Users \ {u}
      PROVE  RolesOf(v)' = RolesOf(v) /\ Held(v)' = Held(v)
  <2>1. RolesOf(v)' = RolesOf(v)
    BY <1>1 DEF RolesOf
  <2>2. QED
    BY <1>1, <2>1 DEF Held, Granted
<1>4. {u} \in SUBSET Users
  OBVIOUS
<1>5. QED
  BY <1>1, <1>2, <1>3, <1>4, RolesKeepInv

LEMMA RolePermissionsKeepInv ==
    ASSUME SessionsInv, NEW a \in Rows, NEW role \in Roles,
           NEW p \in Permissions,
           AssignPermission(a, role, p) \/ RemovePermission(a, role, p)
    PROVE  SessionsInv'
<1>1. /\ UNCHANGED <<user, userRoles, session, reset, req, origin, stranded,
                     shared>>
      /\ changed' = Affected(HoldersOf(role), role)
      /\ \/ rolePermissions' = rolePermissions \cup {<<role, p>>}
         \/ rolePermissions' = rolePermissions \ {<<role, p>>}
  BY DEF AssignPermission, RemovePermission, KeepSessions
<1>2. /\ userRoles' \subseteq Users \X Roles
      /\ rolePermissions' \subseteq Roles \X Permissions
  BY <1>1 DEF SessionsInv, TypeOK
<1>3. PICK users \in SUBSET Users : users = HoldersOf(role)
  BY DEF HoldersOf
<1>4. ASSUME NEW v \in Users \ users
      PROVE  RolesOf(v)' = RolesOf(v) /\ Held(v)' = Held(v)
  <2>1. RolesOf(v)' = RolesOf(v) /\ role \notin RolesOf(v)
    BY <1>1, <1>3 DEF RolesOf, HoldersOf
  <2>2. \A held \in RolesOf(v), q \in Permissions :
          <<held, q>> \in rolePermissions' <=> <<held, q>> \in rolePermissions
    BY <1>1, <2>1
  <2>3. QED
    BY <2>1, <2>2 DEF Held, Granted
<1>5. QED
  BY <1>1, <1>2, <1>3, <1>4, RolesKeepInv

-----------------------------------------------------------------------------
LEMMA StutterKeepsInv ==
    ASSUME SessionsInv, UNCHANGED vars
    PROVE  SessionsInv'
<1>1. TypeOK'
  BY DEF SessionsInv, TypeOK, vars
<1>2. /\ Rows' = Rows /\ ParentsSpent' /\ RotationIsHandedOver'
      /\ RefreshedOnce'
      /\ \A s \in Rows : Live(s)' = Live(s)
      /\ \A r \in Requests : Opening(r)' = Opening(r)
  BY SessionsStay DEF vars
<1>3. TablesKept /\ changed' = changed
  BY DEF vars, TablesKept
<1>4. IdsDense' /\ RowsKnown' /\ SessionsCurrent' /\ TokensExplained'
      /\ Issued' = Issued
  BY <1>3, TablesStay
<1>5. RequestsKnown' /\ ReadsCurrent'
  BY <1>2, <1>4 DEF SessionsInv, RequestsKnown, ReadsCurrent, vars
<1>6. RolesCurrent' /\ ConfirmedOnce'
  BY DEF SessionsInv, RolesCurrent, ConfirmedOnce, Held, Granted, RolesOf, vars
<1>7. QED
  BY <1>1, <1>2, <1>4, <1>5, <1>6 DEF SessionsInv

LEMMA RequestStepKeepsInv ==
    ASSUME SessionsInv, NEW r \in Requests, RequestStep(r)
    PROVE  SessionsInv'
BY LoginReadKeepsInv, RefreshReadKeepsInv, ReadPermissionsKeepsInv,
   RotateKeepsInv, InsertSessionKeepsInv, ChangeReadKeepsInv,
   ChangeCommitKeepsInv, ConfirmReadKeepsInv, ConfirmCommitKeepsInv,
   FailKeepsInv
   DEF RequestStep

LEMMA AdministerKeepsInv ==
    ASSUME SessionsInv, NEW a \in Rows, Administer(a)
    PROVE  SessionsInv'
BY CreateUserKeepsInv, DeactivateKeepsInv, UserRolesKeepInv,
   RolePermissionsKeepInv
   DEF Administer

LEMMA NextKeepsInv == SessionsInv /\ [Next]_vars => SessionsInv'
<1> SUFFICES ASSUME SessionsInv, [Next]_vars PROVE SessionsInv'
  OBVIOUS
<1>1. ASSUME NEW r \in Requests, RequestStep(r) PROVE SessionsInv'
  BY <1>1, RequestStepKeepsInv
<1>2. ASSUME NEW s \in Rows, Logout(s) \/ ExpireSession(s) PROVE SessionsInv'
  BY <1>2, SessionEndsKeepInv
<1>3. ASSUME NEW s \in Rows, Administer(s) PROVE SessionsInv'
  BY <1>3, AdministerKeepsInv
<1>4. CASE \/ \E u \in Users : RequestReset(u)
           \/ \E t \in ResetIds : ExpireReset(t)
  BY <1>4, ResetStepsKeepInv
<1>5. CASE UNCHANGED vars
  BY <1>5, StutterKeepsInv
<1>6. QED
  BY <1>1, <1>2, <1>3, <1>4, <1>5 DEF Next

\* The invariant holds for any number of users, roles, requests, sessions and
\* reset tokens, however AuthService, UsersService and RolesService overlap.
THEOREM SessionsSafe == Spec => []SessionsInv
<1>1. Init => SessionsInv
  BY InvInit
<1>2. SessionsInv /\ [Next]_vars => SessionsInv'
  BY NextKeepsInv
<1>3. QED
  BY <1>1, <1>2, PTL DEF Spec

\* A deactivated login keeps no session but those that deactivate overtook.
THEOREM InactiveCutOff == Spec => []InactiveIsCutOff
<1>1. SessionsInv => InactiveIsCutOff
  BY DEF SessionsInv, SessionsCurrent, ParentsSpent, InactiveIsCutOff
<1>2. QED
  BY <1>1, SessionsSafe, PTL

\* Nor does a password that was changed, by its owner or by a reset.
THEOREM OldPasswordCutOff == Spec => []OldPasswordIsCutOff
<1>1. SessionsInv => OldPasswordIsCutOff
  BY DEF SessionsInv, SessionsCurrent, OldPasswordIsCutOff
<1>2. QED
  BY <1>1, SessionsSafe, PTL

\* refresh gives up a session only for another, or fails in between.
THEOREM RotationHandsOver == Spec => []RotationIsHandedOver
<1>1. SessionsInv => RotationIsHandedOver
  BY DEF SessionsInv
<1>2. QED
  BY <1>1, SessionsSafe, PTL

\* A token says what its user was granted when it was last refreshed, and what
\* it is granted now unless a role or permission was changed since.
THEOREM TokensRight == Spec => []TokensExplained
<1>1. SessionsInv => TokensExplained
  BY DEF SessionsInv
<1>2. QED
  BY <1>1, SessionsSafe, PTL

\* At most one element, at most one counted.
LEMMA AtMostOne ==
    ASSUME NEW S, \A c, d \in S : c = d
    PROVE  Cardinality(S) <= 1
<1>1. CASE S = {}
  <2>1. Cardinality(S) = 0
    BY <1>1, FS_EmptySet
  <2>2. QED
    BY <2>1
<1>2. CASE S # {}
  <2>1. PICK c \in S : S = {c}
    BY <1>2
  <2>2. Cardinality({c}) = 1
    BY FS_Singleton
  <2>3. QED
    BY <2>1, <2>2
<1>3. QED
  BY <1>1, <1>2

\* A refresh token opens one session and a reset token sets one password,
\* unless two requests had read it before either of them marked it.
THEOREM TokensSpentOnce == Spec => []SpentOnce
<1>1. SessionsInv => SpentOnce
  <2> SUFFICES ASSUME SessionsInv PROVE SpentOnce
    OBVIOUS
  <2>1. ASSUME NEW s \in Rows, s \notin shared.sessions
        PROVE  ~(Cardinality(Children(s)) > 1)
    <3>1. \A c, d \in Children(s) : c = d
      BY <2>1 DEF SessionsInv, RefreshedOnce
    <3>2. Cardinality(Children(s)) <= 1
      BY <3>1, AtMostOne
    <3>3. Cardinality(Children(s)) \in Nat
      <4>1. IsFiniteSet(Children(s))
        BY NextId, FS_Subset DEF SessionsInv, Children
      <4>2. QED
        BY <4>1, FS_CardinalityType
    <3>4. QED
      BY <3>2, <3>3
  <2>2. ASSUME NEW t \in Issued, t \notin shared.resets
        PROVE  ~(reset[t].uses > 1)
    <3>1. t \in ResetIds /\ reset[t].uses \in Nat
      BY ResetFields DEF SessionsInv, Issued
    <3>2. reset[t].uses <= 1
      BY <2>2, <3>1 DEF SessionsInv, ConfirmedOnce
    <3>3. QED
      BY <3>1, <3>2
  <2>3. QED
    BY <2>1, <2>2 DEF SpentOnce
<1>2. QED
  BY <1>1, SessionsSafe, PTL
=============================================================================
