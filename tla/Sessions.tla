------------------------------- MODULE Sessions -------------------------------
(***************************************************************************)
(* Logins, their sessions and what their access tokens may do: AuthService *)
(* (src/src/auth/auth.service.ts), UsersService, RolesService, JwtStrategy *)
(* and PermissionsGuard.                                                   *)
(*                                                                         *)
(* A session is a row of user_sessions with one refresh token and one      *)
(* access token, which carries the permissions of the moment it was        *)
(* signed.  JwtStrategy looks the session up on every call, the guard      *)
(* trusts the permissions in the token, and nobody looks at the user       *)
(* again until the session is refreshed.  The array transactions of a      *)
(* password change, a reset and a deactivation are one step each; between  *)
(* two statements of a login or a refresh anything may happen.             *)
(*                                                                         *)
(* E-mail addresses, the audit log and the 15 minutes of an access token   *)
(* are left out: a token that lives as long as its session only adds       *)
(* behaviours.  So is account-setup/confirm: nothing issues its tokens.    *)
(***************************************************************************)
EXTENDS Integers, FiniteSets

CONSTANTS
    Users,
    SeedUser,       \* the administrator that prisma/seed.ts creates
    Roles,
    SeedRole,       \* its role, which is granted everything
    Permissions,
    Manage,         \* stands for the keys users.* and roles.*
    Passwords,
    Requests,       \* logins, refreshes, changes and resets under way
    MaxSessions,    \* rows of user_sessions (a bound)
    MaxResets,      \* rows of auth_tokens (a bound)
    None            \* SQL NULL

ASSUME SeedAssumption ==
    SeedUser \in Users /\ SeedRole \in Roles /\ Manage \in Permissions
ASSUME NullAssumption ==
    None \notin Users \cup Passwords \cup Nat \cup {"rotated", "ended"}
ASSUME BoundAssumption == MaxSessions \in Nat /\ MaxResets \in Nat

VARIABLES
    user,           \* password and is_active of each login
    userRoles,      \* user_roles
    rolePermissions,
    session,        \* user_sessions, each with the payload of its access token
    reset,          \* the password_reset rows of auth_tokens
    req,            \* the locals of each request
    origin,         \* ghost: how each session came to be
    changed,        \* ghost: sessions and requests whose roles or permissions
                    \* were changed after they were read
    stranded,       \* ghost: rotated sessions whose refresh then failed
    shared          \* ghost: sessions and resets read by two requests at once

vars == <<user, userRoles, rolePermissions, session, reset, req, origin,
          changed, stranded, shared>>
-----------------------------------------------------------------------------
SessionIds == 1 .. MaxSessions
ResetIds == 1 .. MaxResets

\* Nothing tells one revoked_reason from another, except this:
Reasons == {"rotated", "ended"}

User == [password : Passwords, active : BOOLEAN]
NoUser == [password |-> None, active |-> FALSE]

\* revoked: revoked_reason, None while the session is live.  An expired session
\* is not marked in the table; every reader compares expires_at instead.
\* known: the tokens were returned to the client.
Session == [user : Users, permissions : SUBSET Permissions,
            revoked : Reasons \cup {None}, known : BOOLEAN]
NoSession == [user |-> None, permissions |-> {}, revoked |-> None,
              known |-> FALSE]

\* password: what the lineage was last authenticated with; overtaken: its
\* request had read the user when all sessions of the user were revoked;
\* escaped: so had a request before it in the lineage.
Origin == [parent : SessionIds \cup {None}, password : Passwords,
           overtaken : BOOLEAN, escaped : BOOLEAN]
NoOrigin == [parent |-> None, password |-> None, overtaken |-> FALSE,
             escaped |-> FALSE]

\* sent: notificationsTriggers.passwordReset texted the token.
Reset == [user : Users, state : {"unused", "used"}, sent : BOOLEAN,
          uses : Nat]
NoReset == [user |-> None, state |-> "used", sent |-> FALSE, uses |-> 0]

Request == [pc : {"permissions", "rotate", "insert", "change", "confirm"},
            user : Users, parent : SessionIds \cup {None},
            token : ResetIds \cup {None},
            roles : SUBSET Roles, permissions : SUBSET Permissions,
            password : Passwords \cup {None},
            overtaken : BOOLEAN, escaped : BOOLEAN]
Idle == [pc |-> "idle", user |-> None, parent |-> None, token |-> None,
         roles |-> {}, permissions |-> {}, password |-> None,
         overtaken |-> FALSE, escaped |-> FALSE]

Rows == {s \in SessionIds : session[s] # NoSession}
Live(s) == s \in Rows /\ session[s].revoked = None
Issued == {t \in ResetIds : reset[t] # NoReset}

\* What a user may do now, through the roles it has now.
RolesOf(u) == {role \in Roles : <<u, role>> \in userRoles}
Granted(roles) ==
    {p \in Permissions : \E role \in roles : <<role, p>> \in rolePermissions}
Held(u) == Granted(RolesOf(u))

Init ==
    /\ \E password \in Passwords :
         user = [u \in Users |-> IF u = SeedUser
                                THEN [password |-> password, active |-> TRUE]
                                ELSE NoUser]
    /\ userRoles = {<<SeedUser, SeedRole>>}
    /\ rolePermissions = {SeedRole} \X Permissions
    /\ session = [s \in SessionIds |-> NoSession]
    /\ reset = [t \in ResetIds |-> NoReset]
    /\ req = [r \in Requests |-> Idle]
    /\ origin = [s \in SessionIds |-> NoOrigin]
    /\ changed = [sessions |-> {}, requests |-> {}]
    /\ stranded = {}
    /\ shared = [sessions |-> {}, resets |-> {}]

KeepUsers == UNCHANGED <<user, userRoles, rolePermissions, reset>>
KeepSessions == UNCHANGED <<session, origin, stranded>>
KeepGhosts == UNCHANGED <<changed, stranded, shared>>

Return(r) == req' = [req EXCEPT ![r] = Idle]
Forget(r) ==
    changed' = [changed EXCEPT !.requests = @ \ {r}]
-----------------------------------------------------------------------------
(* createSession, for a login and for a refresh.                           *)

\* login: an active user and its password.  Anything else is a 401.
LoginRead(r, u, password) ==
    /\ req[r] = Idle
    /\ user[u].active /\ user[u].password = password
    /\ req' = [req EXCEPT ![r] =
                 [Idle EXCEPT !.pc = "permissions", !.user = u,
                              !.roles = RolesOf(u), !.password = password]]
    /\ UNCHANGED shared /\ Forget(r)
    /\ KeepUsers /\ KeepSessions

\* Whether another request has read the session and not revoked it yet.
AlsoReading(r, s) ==
    \E q \in Requests \ {r} : /\ req[q].pc \in {"permissions", "rotate"}
                              /\ req[q].parent = s

\* Mutant of Refreshable: a session that was revoked will do.
RefreshableForever(s) == user[session[s].user].active

\* Mutant of Refreshable: only login asks whether the user is active.
RefreshableByAnyone(s) == Live(s)

Refreshable(s) == Live(s) /\ user[session[s].user].active

\* refresh: the session is live and its user active, or the answer is a 401.
RefreshRead(r, s) ==
    LET u == session[s].user IN
    /\ req[r] = Idle
    /\ session[s].known /\ Refreshable(s)
    /\ req' = [req EXCEPT ![r] =
                 [Idle EXCEPT !.pc = "permissions", !.user = u,
                              !.parent = s, !.roles = RolesOf(u),
                              !.password = origin[s].password,
                              !.escaped = origin[s].escaped]]
    /\ shared' = IF AlsoReading(r, s)
                 THEN [shared EXCEPT !.sessions = @ \cup {s}] ELSE shared
    /\ Forget(r)
    /\ KeepUsers /\ KeepSessions

\* The second half of the include: the permissions of the roles just read.
ReadPermissions(r) ==
    /\ req[r].pc = "permissions"
    /\ req' = [req EXCEPT ![r].permissions = Granted(req[r].roles),
                          ![r].pc = IF req[r].parent = None THEN "insert"
                                    ELSE "rotate"]
    /\ KeepUsers /\ KeepSessions /\ KeepGhosts

\* Mutant of Rotate: every session of the user is rotated.
RotateEverySession(r) ==
    /\ req[r].pc = "rotate"
    /\ session' = [s \in SessionIds |->
                     IF Live(s) /\ session[s].user = req[r].user
                     THEN [session[s] EXCEPT !.revoked = "rotated"]
                     ELSE session[s]]
    /\ req' = [req EXCEPT ![r].pc = "insert"]
    /\ KeepUsers /\ UNCHANGED origin /\ KeepGhosts

\* By id: a session that was revoked in the meantime is revoked again.
Rotate(r) ==
    /\ req[r].pc = "rotate"
    /\ session' = [session EXCEPT ![req[r].parent].revoked = "rotated"]
    /\ req' = [req EXCEPT ![r].pc = "insert"]
    /\ KeepUsers /\ UNCHANGED origin /\ KeepGhosts

\* Of a refresh that revoked its session and returns none.
Stranded(r, answered) ==
    IF answered \/ req[r].parent = None THEN stranded
    ELSE stranded \cup {req[r].parent}

\* Mutant of Payload: refresh signs the permissions of the old token again.
PayloadOfParent(r) ==
    IF req[r].parent = None THEN req[r].permissions
    ELSE session[req[r].parent].permissions

\* extractPermissions, from the roles this request has read.
Payload(r) == req[r].permissions

\* The rest of createSession, and of login and refresh.  The session is there
\* for good once it is inserted; when the link to the old one (nobody reads it)
\* or the audit entry then fails, its tokens reach no client.
InsertSession(r, answered) ==
    LET s == Cardinality(Rows) + 1 IN
    /\ req[r].pc = "insert" /\ s \in SessionIds
    /\ session' = [session EXCEPT ![s] =
                     [user |-> req[r].user, permissions |-> Payload(r),
                      revoked |-> None, known |-> answered]]
    /\ origin' = [origin EXCEPT ![s] =
                    [parent |-> req[r].parent, password |-> req[r].password,
                     overtaken |-> req[r].overtaken,
                     escaped |-> req[r].escaped \/ req[r].overtaken]]
    /\ changed' = [sessions |-> IF r \in changed.requests
                                THEN changed.sessions \cup {s}
                                ELSE changed.sessions,
                   requests |-> changed.requests \ {r}]
    /\ stranded' = Stranded(r, answered)
    /\ Return(r)
    /\ UNCHANGED shared /\ KeepUsers

\* A statement fails, or the process ends.  Each statement commits on its own:
\* what a refresh has revoked stays revoked.
Fail(r) ==
    /\ req[r] # Idle
    /\ stranded' = Stranded(r, req[r].pc # "insert")
    /\ Return(r) /\ Forget(r)
    /\ KeepUsers /\ UNCHANGED <<session, origin, shared>>
-----------------------------------------------------------------------------
(* What ends sessions.                                                     *)

\* JwtStrategy: a token is good while its session is live; the user is not
\* looked up.
Authorized(s) == Live(s) /\ session[s].known

Logout(s) ==
    /\ Authorized(s)
    /\ session' = [session EXCEPT ![s].revoked = "ended"]
    /\ KeepUsers /\ UNCHANGED <<req, origin>> /\ KeepGhosts

\* Fourteen days have passed.
ExpireSession(s) ==
    /\ Live(s)
    /\ session' = [session EXCEPT ![s].revoked = "ended"]
    /\ KeepUsers /\ UNCHANGED <<req, origin>> /\ KeepGhosts

\* Mutant of Ended: whoever has refreshed keeps the session.
EndedUnlessRefreshed(u, keep) ==
    {s \in SessionIds \ keep : /\ Live(s) /\ session[s].user = u
                               /\ origin[s].parent = None}

\* updateMany: the live sessions of the user, except the one to keep.
Ended(u, keep) ==
    {s \in SessionIds \ keep : Live(s) /\ session[s].user = u}

RevokeAll(u, keep) ==
    session' = [s \in SessionIds |->
                  IF s \in Ended(u, keep)
                  THEN [session[s] EXCEPT !.revoked = "ended"] ELSE session[s]]

\* Whoever else has read the user, or one of its sessions, is overtaken.
Overtake(u, by) ==
    [r \in Requests |->
       IF r \in by THEN Idle
       ELSE IF req[r].user = u THEN [req[r] EXCEPT !.overtaken = TRUE]
       ELSE req[r]]

\* changePassword, once the guard has let the session in: the current password
\* is read and compared.
ChangeRead(r, s, password) ==
    LET u == session[s].user IN
    /\ req[r] = Idle
    /\ Authorized(s) /\ user[u].password = password
    /\ req' = [req EXCEPT ![r] =
                 [Idle EXCEPT !.pc = "change", !.user = u, !.parent = s,
                              !.password = password]]
    /\ UNCHANGED shared /\ Forget(r)
    /\ KeepUsers /\ KeepSessions

\* The new password, and the end of every other session.
ChangeCommit(r, password) ==
    LET u == req[r].user
        s == req[r].parent IN
    /\ req[r].pc = "change"
    /\ user' = [user EXCEPT ![u].password = password]
    /\ RevokeAll(u, {s})
    /\ req' = Overtake(u, {r})
    /\ origin' = [origin EXCEPT ![s].password = password]
    /\ Forget(r)
    /\ UNCHANGED <<userRoles, rolePermissions, reset, stranded, shared>>

\* requestPasswordReset, for any login that is found.  A text to a login that
\* is not active is suppressed: nobody learns that token.
RequestReset(u) ==
    LET t == Cardinality(Issued) + 1 IN
    /\ user[u] # NoUser /\ t \in ResetIds
    /\ reset' = [reset EXCEPT ![t] = [user |-> u, state |-> "unused",
                                      sent |-> user[u].active, uses |-> 0]]
    /\ UNCHANGED <<user, userRoles, rolePermissions, req>>
    /\ KeepSessions /\ UNCHANGED <<changed, shared>>

\* An hour has passed: as good as used.
ExpireReset(t) ==
    /\ reset[t].state = "unused"
    /\ reset' = [reset EXCEPT ![t].state = "used"]
    /\ UNCHANGED <<user, userRoles, rolePermissions, req>>
    /\ KeepSessions /\ UNCHANGED <<changed, shared>>

\* confirmPasswordReset: the token is looked up.
ConfirmRead(r, t) ==
    /\ req[r] = Idle
    /\ t \in Issued /\ reset[t].sent /\ reset[t].state = "unused"
    /\ req' = [req EXCEPT ![r] = [Idle EXCEPT !.pc = "confirm", !.token = t,
                                              !.user = reset[t].user]]
    /\ shared' = IF \E q \in Requests \ {r} : req[q].token = t
                 THEN [shared EXCEPT !.resets = @ \cup {t}] ELSE shared
    /\ Forget(r)
    /\ KeepUsers /\ KeepSessions

\* The token is marked by id, the password is set, and every session ends.
ConfirmCommit(r, password) ==
    LET u == req[r].user IN
    /\ req[r].pc = "confirm"
    /\ reset' = [reset EXCEPT ![req[r].token].state = "used",
                              ![req[r].token].uses = @ + 1]
    /\ user' = [user EXCEPT ![u].password = password]
    /\ RevokeAll(u, {})
    /\ req' = Overtake(u, {r})
    /\ Forget(r)
    /\ UNCHANGED <<userRoles, rolePermissions, origin, stranded, shared>>
-----------------------------------------------------------------------------
(* UsersService and RolesService, behind PermissionsGuard.                 *)

\* The guard reads the permissions in the token, not the user's.
Allowed(s) == Authorized(s) /\ Manage \in session[s].permissions

CreateUser(a, u, password) ==
    /\ Allowed(a) /\ user[u] = NoUser
    /\ user' = [user EXCEPT ![u] = [password |-> password, active |-> TRUE]]
    /\ UNCHANGED <<userRoles, rolePermissions, reset, req>>
    /\ KeepSessions /\ UNCHANGED <<changed, shared>>

Deactivate(a, u) ==
    /\ Allowed(a) /\ user[u] # NoUser
    /\ user' = [user EXCEPT ![u].active = FALSE]
    /\ RevokeAll(u, {})
    /\ req' = Overtake(u, {})
    /\ UNCHANGED <<userRoles, rolePermissions, reset, origin>> /\ KeepGhosts

\* Sessions and requests whose user holds the role or that have read it.
Affected(users, role) ==
    [sessions |-> changed.sessions
                  \cup {s \in Rows : Live(s) /\ session[s].user \in users},
     requests |-> changed.requests
                  \cup {r \in Requests : \/ req[r].user \in users
                                         \/ role \in req[r].roles}]

AssignRole(a, u, role) ==
    /\ Allowed(a) /\ user[u] # NoUser
    /\ userRoles' = userRoles \cup {<<u, role>>}
    /\ changed' = Affected({u}, role)
    /\ UNCHANGED <<user, rolePermissions, reset, req, shared>> /\ KeepSessions

RemoveRole(a, u, role) ==
    /\ Allowed(a) /\ <<u, role>> \in userRoles
    /\ userRoles' = userRoles \ {<<u, role>>}
    /\ changed' = Affected({u}, role)
    /\ UNCHANGED <<user, rolePermissions, reset, req, shared>> /\ KeepSessions

HoldersOf(role) == {u \in Users : <<u, role>> \in userRoles}

AssignPermission(a, role, p) ==
    /\ Allowed(a)
    /\ rolePermissions' = rolePermissions \cup {<<role, p>>}
    /\ changed' = Affected(HoldersOf(role), role)
    /\ UNCHANGED <<user, userRoles, reset, req, shared>> /\ KeepSessions

RemovePermission(a, role, p) ==
    /\ Allowed(a) /\ <<role, p>> \in rolePermissions
    /\ rolePermissions' = rolePermissions \ {<<role, p>>}
    /\ changed' = Affected(HoldersOf(role), role)
    /\ UNCHANGED <<user, userRoles, reset, req, shared>> /\ KeepSessions
-----------------------------------------------------------------------------
RequestStep(r) ==
    \/ \E u \in Users, password \in Passwords : LoginRead(r, u, password)
    \/ \E s \in Rows : RefreshRead(r, s)
    \/ ReadPermissions(r)
    \/ Rotate(r)
    \/ \E answered \in BOOLEAN : InsertSession(r, answered)
    \/ \E s \in Rows, password \in Passwords : ChangeRead(r, s, password)
    \/ \E password \in Passwords : ChangeCommit(r, password)
    \/ \E t \in ResetIds : ConfirmRead(r, t)
    \/ \E password \in Passwords : ConfirmCommit(r, password)
    \/ Fail(r)

Administer(a) ==
    \/ \E u \in Users, password \in Passwords : CreateUser(a, u, password)
    \/ \E u \in Users : Deactivate(a, u)
    \/ \E u \in Users, role \in Roles : \/ AssignRole(a, u, role)
                                        \/ RemoveRole(a, u, role)
    \/ \E role \in Roles, p \in Permissions : \/ AssignPermission(a, role, p)
                                              \/ RemovePermission(a, role, p)

Next ==
    \/ \E r \in Requests : RequestStep(r)
    \/ \E s \in Rows : Logout(s) \/ ExpireSession(s) \/ Administer(s)
    \/ \E u \in Users : RequestReset(u)
    \/ \E t \in ResetIds : ExpireReset(t)

Spec == Init /\ [][Next]_vars
-----------------------------------------------------------------------------
TypeOK ==
    /\ user \in [Users -> User \cup {NoUser}]
    /\ userRoles \subseteq Users \X Roles
    /\ rolePermissions \subseteq Roles \X Permissions
    /\ session \in [SessionIds -> Session \cup {NoSession}]
    /\ reset \in [ResetIds -> Reset \cup {NoReset}]
    /\ req \in [Requests -> Request \cup {Idle}]
    /\ origin \in [SessionIds -> Origin \cup {NoOrigin}]
    /\ changed \in [sessions : SUBSET SessionIds, requests : SUBSET Requests]
    /\ stranded \subseteq SessionIds
    /\ shared \in [sessions : SUBSET SessionIds, resets : SUBSET ResetIds]

Children(s) == {c \in Rows : origin[c].parent = s}

\* A deactivated login keeps no session but those that were being opened at
\* that very moment, and none of these can be refreshed into another.
InactiveIsCutOff ==
    \A s \in Rows :
        Live(s) /\ ~user[session[s].user].active
        => origin[s].overtaken /\ Children(s) = {}

\* After a change of password, a session begun with an old one is live only if
\* it descends from a login or refresh that the change overtook.
OldPasswordIsCutOff ==
    \A s \in Rows :
        Live(s) /\ origin[s].password # user[session[s].user].password
        => origin[s].escaped

\* A refresh that revoked a session has put another in the client's hands,
\* unless it is still under way or has failed in between.
RotationIsHandedOver ==
    \A s \in Rows :
        session[s].revoked = "rotated"
        => \/ s \in stranded
           \/ \E c \in Children(s) : session[c].known
           \/ \E r \in Requests : req[r].pc = "insert" /\ req[r].parent = s

\* What a token grants is what its user is granted, or a role or permission was
\* changed after the roles for it were read: not only at the next sign-in, at
\* the next refresh it is right again.
TokensExplained ==
    \A s \in Rows :
        Live(s) => \/ session[s].permissions = Held(session[s].user)
                   \/ s \in changed.sessions

\* A refresh token opens one session and a reset token sets one password,
\* unless two requests had read it before either of them marked it.
SpentOnce ==
    /\ \A s \in Rows : Cardinality(Children(s)) > 1 => s \in shared.sessions
    /\ \A t \in Issued : reset[t].uses > 1 => t \in shared.resets
-----------------------------------------------------------------------------
(* Why these hold: an inductive invariant, which SessionsProofs proves.    *)

Opening(r) == req[r].pc \in {"permissions", "rotate", "insert"}

\* Rows and reset tokens are numbered without gaps.
IdsDense ==
    /\ \E n \in 0 .. MaxSessions : Rows = 1 .. n
    /\ \E n \in 0 .. MaxResets : Issued = 1 .. n

\* A session belongs to a user that exists and descends from one that exists.
RowsKnown ==
    \A s \in Rows : /\ user[session[s].user] # NoUser
                    /\ origin[s] # NoOrigin
                    /\ origin[s].parent \in Rows \cup {None}

\* What a request works on exists, and belongs to its user.
RequestsKnown ==
    \A r \in Requests :
        /\ Opening(r) => /\ user[req[r].user] # NoUser
                         /\ req[r].password # None
        /\ req[r].parent # None => /\ req[r].parent \in Rows
                                   /\ session[req[r].parent].user = req[r].user
        /\ req[r].pc \in {"rotate", "change"} => req[r].parent # None
        /\ req[r].token # None => req[r].token \in Issued
        /\ req[r].pc = "confirm" <=> req[r].token # None

\* What has been refreshed, or is about to be, is no longer live.
ParentsSpent ==
    \A s \in Rows :
        Live(s) => /\ Children(s) = {}
                   /\ \A r \in Requests :
                        req[r].pc = "insert" => req[r].parent # s

\* What a request has read of a user still holds, or it was overtaken.
ReadsCurrent ==
    \A r \in Requests :
        Opening(r) =>
          /\ user[req[r].user].active \/ req[r].overtaken
          /\ \/ req[r].password = user[req[r].user].password
             \/ req[r].overtaken \/ req[r].escaped

\* And so for the sessions that came of it.
SessionsCurrent ==
    \A s \in Rows :
        Live(s) =>
          /\ user[session[s].user].active \/ origin[s].overtaken
          /\ \/ origin[s].password = user[session[s].user].password
             \/ origin[s].escaped

\* The same of roles and permissions.
RolesCurrent ==
    \A r \in Requests :
        \/ r \in changed.requests
        \/ /\ req[r].pc = "permissions" => req[r].roles = RolesOf(req[r].user)
           /\ req[r].pc \in {"rotate", "insert"} =>
                req[r].permissions = Held(req[r].user)

\* Unless two requests have read a session, one at most is opening another
\* from it, and that before there is one.
RefreshedOnce ==
    \A s \in Rows \ shared.sessions :
        /\ \A q, r \in Requests :
             /\ Opening(q) /\ req[q].parent = s
             /\ Opening(r) /\ req[r].parent = s
             => q = r
        /\ \A r \in Requests :
             Opening(r) /\ req[r].parent = s => Children(s) = {}
        /\ \A c, d \in Children(s) : c = d

\* The same of reset tokens.
ConfirmedOnce ==
    \A t \in ResetIds \ shared.resets :
        /\ \A q, r \in Requests : req[q].token = t /\ req[r].token = t => q = r
        /\ \A r \in Requests : req[r].token = t => reset[t].uses = 0
        /\ reset[t].state = "unused" => reset[t].uses = 0
        /\ reset[t].uses <= 1

SessionsInv ==
    /\ TypeOK /\ IdsDense /\ RowsKnown /\ RequestsKnown
    /\ ParentsSpent /\ ReadsCurrent /\ SessionsCurrent
    /\ RotationIsHandedOver
    /\ RolesCurrent /\ TokensExplained
    /\ RefreshedOnce /\ ConfirmedOnce
=============================================================================
