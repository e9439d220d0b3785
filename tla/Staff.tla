-------------------------------- MODULE Staff --------------------------------
(***************************************************************************)
(* The people who use the system (backend/app/api/users.py, api/auth.py,    *)
(* services/users.py, services/auth.py, auth/dependencies.py, cli.py):      *)
(* signing in, editing staff and one's own profile, and the administrator   *)
(* made at every start.                                                    *)
(*                                                                         *)
(* A request looks its user up, and the one it is about, checks, and commits *)
(* the columns it has changed; two requests can overlap.  Managers and       *)
(* agents are one role here, names and themes are left out, tokens do not    *)
(* expire.  A new password that is the one loaded counts as not given: in    *)
(* the code it is hashed again, and the new hash is of the same password.    *)
(***************************************************************************)
EXTENDS Naturals

CONSTANTS
    StUsers,            \* room for the rows of users
    StEmails,
    StBootEmail,        \* bootstrap_admin_email
    StPasswords,
    StBootPassword,
    StNobody,           \* no such row
    StRequests,
    StMaxRequests       \* bound on the requests started

ASSUME StaffAssumption ==
    /\ StBootEmail \in StEmails /\ StBootPassword \in StPasswords
    /\ StNobody \notin StUsers
    /\ StMaxRequests \in Nat

VARIABLES
    stUser,             \* users
    stToken,            \* users who hold a token
    stPc, stMem,
    stDemoted,          \* an observer's: an administrator has given up the own role
    stRaced,            \* an observer's: two administrators have edited staff at once
    stShared,           \* an observer's: users that two requests had in hand at once
    stRequests

stTable == <<stUser, stToken>>
stObserved == <<stDemoted, stRaced, stShared>>
stVars == <<stTable, stPc, stMem, stObserved, stRequests>>

StRows == [email : StEmails, role : {"admin", "other"}, active : BOOLEAN, password : StPasswords]

ASSUME StNobodyIsNoRow == StNobody \notin StRows

\* Who asks, about whom, the row as loaded, the row to be and the password given as current.
StMemory ==
    [by : StUsers, target : StUsers, old : StRows, new : StRows, current : StPasswords \cup {StNobody}]

StAsking(by, target, new) ==
    [by |-> by, target |-> target, old |-> stUser[target], new |-> new, current |-> StNobody]

StTypeOK ==
    /\ stUser \in [StUsers -> StRows \cup {StNobody}]
    /\ stToken \subseteq StUsers
    /\ stPc \in [StRequests -> {"idle", "create", "update", "me", "password"}]
    /\ stMem \in [StRequests -> StMemory \cup {StNobody}]
    /\ stDemoted \in BOOLEAN
    /\ stRaced \in BOOLEAN
    /\ stShared \subseteq StUsers
    /\ stRequests \in Nat

StBootstrap == [email |-> StBootEmail, role |-> "admin", active |-> TRUE, password |-> StBootPassword]

\* The first start of the backend has made the administrator.
StInit ==
    /\ \E u \in StUsers : stUser = [v \in StUsers |-> IF v = u THEN StBootstrap ELSE StNobody]
    /\ stToken = {}
    /\ stPc = [r \in StRequests |-> "idle"]
    /\ stMem = [r \in StRequests |-> StNobody]
    /\ stDemoted = FALSE
    /\ stRaced = FALSE
    /\ stShared = {}
    /\ stRequests = 0

-----------------------------------------------------------------------------

StIsUser(u) == stUser[u] # StNobody
StIsActive(u) == StIsUser(u) /\ stUser[u].active
StIsAdmin(u) == StIsActive(u) /\ stUser[u].role = "admin"
StTaken(email, except) == \E u \in StUsers \ except : StIsUser(u) /\ stUser[u].email = email

\* The guards of a request (get_current_user, require_admin) and its memory.
StStart(r, step, mem) ==
    LET others == {q \in StRequests \ {r} : stPc[q] # "idle"} IN
    /\ stPc[r] = "idle"
    /\ stRequests < StMaxRequests
    /\ stRequests' = stRequests + 1
    /\ mem.by \in stToken
    /\ IF step \in {"create", "update"} THEN StIsAdmin(mem.by) ELSE StIsActive(mem.by)
    /\ stPc' = [stPc EXCEPT ![r] = step]
    /\ stMem' = [stMem EXCEPT ![r] = mem]
    /\ stRaced' = (stRaced \/ \E q \in others : step = "update" /\ stPc[q] = "update" /\ stMem[q].by # mem.by)
    /\ stShared' = stShared \cup {u \in StUsers : u = mem.target /\ \E q \in others : stMem[q].target = u}
    /\ UNCHANGED stTable

StClose(r) ==
    /\ stPc' = [stPc EXCEPT ![r] = "idle"]
    /\ stMem' = [stMem EXCEPT ![r] = StNobody]
    /\ UNCHANGED <<stToken, stObserved, stRequests>>

-----------------------------------------------------------------------------
(* Signing in (login); refresh gives a further token on the same terms.     *)

StLogin(u, password) ==
    /\ StIsActive(u)
    /\ stUser[u].password = password
    /\ stToken' = stToken \cup {u}
    /\ UNCHANGED <<stUser, stPc, stMem, stObserved, stRequests>>

-----------------------------------------------------------------------------
(* Editing (create_staff, update_staff, deactivate_staff, update_me,         *)
(* change_password).                                                        *)

StBeginCreate(r, by, new) ==
    /\ new.active
    /\ ~StTaken(new.email, {})
    /\ StStart(r, "create", StAsking(by, by, new))
    /\ UNCHANGED stDemoted

\* The constraint on emails may still refuse it.
StCreate(r) ==
    /\ stPc[r] = "create"
    /\ IF StTaken(stMem[r].new.email, {}) THEN UNCHANGED stUser
       ELSE \E u \in StUsers : ~StIsUser(u) /\ stUser' = [stUser EXCEPT ![u] = stMem[r].new]
    /\ StClose(r)

\* Mutant: one may deactivate oneself.
StMayUpdate_Oneself(by, u, new) == TRUE

\* Nobody deactivates the own account.
StMayUpdate(by, u, new) == by = u => new.active

\* update_staff, and deactivate_staff with nothing but is_active in it.
StBeginUpdate(r, by, u, new) ==
    /\ StIsUser(u)
    /\ StMayUpdate(by, u, new)
    /\ new.email # stUser[u].email => ~StTaken(new.email, {u})
    /\ StStart(r, "update", StAsking(by, u, new))
    /\ stDemoted' = (stDemoted \/ (by = u /\ new.role # "admin"))

\* Of the own profile the email and the password.
StBeginMe(r, u, new) ==
    /\ StIsUser(u)
    /\ new.role = stUser[u].role /\ new.active = stUser[u].active
    /\ new.email # stUser[u].email => ~StTaken(new.email, {u})
    /\ StStart(r, "me", StAsking(u, u, new))
    /\ UNCHANGED stDemoted

StProven(u, current) == stUser[u].password = current

StBeginPassword(r, u, current, password) ==
    /\ StIsUser(u)
    /\ StProven(u, current)
    /\ StStart(r, "password", [StAsking(u, u, [stUser[u] EXCEPT !.password = password])
                               EXCEPT !.current = current])
    /\ UNCHANGED stDemoted

\* Mutant: every column is written.
StWritten_All(old, new, row) == new

\* The columns that differ from those loaded.
StWritten(old, new, row) ==
    [column \in DOMAIN row |-> IF new[column] = old[column] THEN row[column] ELSE new[column]]

StUpdate(r) ==
    LET m == stMem[r]
        row == StWritten(m.old, m.new, stUser[m.target])
    IN  /\ stPc[r] \in {"update", "me", "password"}
        /\ stUser' = IF StTaken(row.email, {m.target}) THEN stUser
                     ELSE [stUser EXCEPT ![m.target] = row]
        /\ StClose(r)

\* The backend starts again: requests are lost, and ensure-admin makes the administrator if
\* nobody has its email.
StRestart ==
    /\ stRequests < StMaxRequests
    /\ stRequests' = stRequests + 1
    /\ IF StTaken(StBootEmail, {}) THEN UNCHANGED stUser
       ELSE \E u \in StUsers : ~StIsUser(u) /\ stUser' = [stUser EXCEPT ![u] = StBootstrap]
    /\ stPc' = [r \in StRequests |-> "idle"]
    /\ stMem' = [r \in StRequests |-> StNobody]
    /\ UNCHANGED <<stToken, stObserved>>

StNext ==
    \/ \E u \in StUsers, password \in StPasswords : StLogin(u, password)
    \/ \E r \in StRequests :
          \/ \E by \in StUsers, new \in StRows : StBeginCreate(r, by, new)
          \/ \E by, u \in StUsers, new \in StRows : StBeginUpdate(r, by, u, new)
          \/ \E u \in StUsers, new \in StRows : StBeginMe(r, u, new)
          \/ \E u \in StUsers, current, password \in StPasswords : StBeginPassword(r, u, current, password)
          \/ StCreate(r) \/ StUpdate(r)
    \/ StRestart

StSpec == StInit /\ [][StNext]_stVars

-----------------------------------------------------------------------------
(* Properties.                                                              *)

\* Somebody can always administer the system, unless an administrator has given up the own
\* role or two have edited staff at once, each the other: the check for the own account is
\* all there is (api/users.py:75, :122).
AdminRemains == (\E u \in StUsers : StIsAdmin(u)) \/ stDemoted \/ stRaced

\* Whoever has been deactivated becomes active only by a request that found the account
\* inactive and set it active, not by one that was editing it for another reason meanwhile.
ComesBackKnowingly(u) ==
    StIsUser(u) /\ ~StIsActive(u) /\ StIsActive(u)' =>
        \E r \in StRequests : stPc[r] = "update" /\ stMem[r].target = u /\ ~stMem[r].old.active

\* "The current password is verified" (api/auth.py:112): the password that a change replaces
\* is the one that was given as current, unless two requests had the user in hand at once.  That is said of
\* change_password only: an edit of the own profile sets a password without asking for one.
PasswordProven(u) ==
    \A r \in StRequests :
        /\ u \notin stShared
        /\ stPc[r] = "password" /\ stMem[r].target = u /\ stPc'[r] = "idle"
        /\ stUser'[u] # stUser[u]
        => stUser[u].password = stMem[r].current

\* No edit takes back a deactivation, or a password, that it did not know of.
EditsStand == [][\A u \in StUsers : ComesBackKnowingly(u) /\ PasswordProven(u)]_stVars
=============================================================================
