------------------------------ MODULE MCSessions ------------------------------
(* Instances of Sessions for TLC. *)
EXTENDS Sessions, TLC

CONSTANTS ama, kofi, admin, manage, p1, p2, q1, q2

TwoUsers == {ama, kofi}
OneUser == {ama}
OneRole == {admin}
OnePermission == {manage}
TwoPasswords == {p1, p2}
TwoRequests == {q1, q2}

\* A bound: the last session is for behaviours in which nothing but sessions
\* changes, and roles, passwords and the second login change one at a time.
\* No action reads two of them.
RolesChanged ==
    \/ userRoles # {<<SeedUser, SeedRole>>}
    \/ rolePermissions # {SeedRole} \X Permissions
    \/ changed # [sessions |-> {}, requests |-> {}]
PasswordsChanged ==
    \/ Issued # {}
    \/ \E r \in Requests : req[r].pc = "change"
    \/ \E s \in Rows : origin[s].password # user[session[s].user].password
UsersCreated == \E u \in Users \ {SeedUser} : user[u] # NoUser
Bound ==
    LET Touched == {x \in {<<"roles", RolesChanged>>,
                           <<"passwords", PasswordsChanged>>,
                           <<"users", UsersCreated>>} : x[2]} IN
    /\ Cardinality(Touched) <= 1
    /\ Touched # {} => Cardinality(Rows) < MaxSessions

\* What is left of a session that has ended: nothing reads the rest again.
Remains(s) ==
    IF Live(s) THEN <<session[s], origin[s], s \in changed.sessions>>
    ELSE <<session[s].user, session[s].revoked, session[s].known,
           origin[s].parent>>
View == <<user, userRoles, rolePermissions, reset, req, stranded, shared,
          changed.requests, [s \in SessionIds |-> Remains(s)]>>

Symmetry == Permutations(TwoRequests) \cup Permutations(TwoPasswords)
=============================================================================
