------------------------------ MODULE Accounts ------------------------------
(***************************************************************************)
(* Accounts and the proxy pool (backend/app/api/accounts.py,               *)
(* services/accounts.py, services/proxies.py) over the engine's clients     *)
(* (EngineClients): a request loads the account's row, asks the engine,      *)
(* which takes seconds, and then writes what the answer means.             *)
(*                                                                         *)
(* A session writes the columns whose value differs from the one it had     *)
(* loaded.  An answer that comes after the client's timeout, and a process  *)
(* of the API that dies, both end a request where it is (Abandon).          *)
(*                                                                         *)
(* The label, the identity that Telegram reports and spam_state are left    *)
(* out: no decision reads them.  All proxies are active and healthy, since  *)
(* nothing in the code changes that.                                       *)
(***************************************************************************)
EXTENDS EngineClients

CONSTANTS
    Requests,
    Scenarios,          \* what may be done to which account, one of them per behavior
    MaxRequests,        \* bound on the requests started
    MaxFaults           \* bound on requests abandoned, engine restarts, sessions revoked

Operations ==
    {"create", "edit", "delete", "qr", "poll", "password", "code", "sign_in", "import",
     "logout", "check", "reconnect", "override", "quarantine", "revoke"}

ASSUME AccountsAssumption ==
    /\ Proxies \subseteq Nat \ {0}
    /\ NoProxy = 0
    /\ NoAccount \notin Accounts
    /\ Scenarios \subseteq [Accounts -> SUBSET Operations]
    /\ MaxClients \in Nat \ {0}
    /\ MaxRequests \in Nat
    /\ MaxFaults \in Nat

VARIABLES
    account,            \* accounts: status, session_ref is set, proxy_id
    holder,             \* proxies.assigned_account_id
    pc, mem,            \* the requests
    disturbed,          \* an observer's: accounts whose logins overlapped, were lost or ended
    raced,              \* an observer's: proxies written by a session with a stale row
    doings, requests, faults

tables == <<account, holder>>
observed == <<disturbed, raced>>
bounds == <<doings, requests, faults>>
vars == <<engine, tables, pc, mem, observed, bounds>>

Statuses == {"active", "quarantined", "banned", "logged_out"}

Rows == [status : Statuses \cup {"none", "gone"}, session : BOOLEAN, proxy : Proxies \cup {NoProxy}]

NoRow == [status |-> "none", session |-> FALSE, proxy |-> NoProxy]

\* What a request is for and of which account; the row and the proxy's holder it has
\* loaded; the proxy it is going to bind; the client picked; what the engine answered.
Memory ==
    [op : Operations \cup {"none"}, of : Accounts \cup {NoAccount}, row : Rows,
     held : Accounts \cup {NoAccount}, proxy : Proxies \cup {NoProxy},
     client : Clients \cup {NoClient},
     answer : {"none", "authorized", "limited", "banned", "logged_out"}]

Forgotten == [op |-> "none", of |-> NoAccount, row |-> NoRow, held |-> NoAccount,
              proxy |-> NoProxy, client |-> NoClient, answer |-> "none"]

AccountsTypeOK ==
    /\ EngineTypeOK
    /\ account \in [Accounts -> Rows]
    /\ holder \in [Proxies -> Accounts \cup {NoAccount}]
    /\ pc \in [Requests -> {"idle", "call", "locked", "release", "pick", "bind", "rebind",
                            "finish", "drop"}]
    /\ mem \in [Requests -> Memory]
    /\ disturbed \in SUBSET Accounts
    /\ raced \in SUBSET Proxies
    /\ doings \in Scenarios
    /\ requests \in 0..MaxRequests
    /\ faults \in 0..MaxFaults

Init ==
    /\ EngineInit
    /\ account = [a \in Accounts |-> NoRow]
    /\ holder = [p \in Proxies |-> NoAccount]
    /\ pc = [r \in Requests |-> "idle"]
    /\ mem = [r \in Requests |-> Forgotten]
    /\ disturbed = {}
    /\ raced = {}
    /\ doings \in Scenarios
    /\ requests = 0
    /\ faults = 0

-----------------------------------------------------------------------------

Exists(a) == account[a].status \notin {"none", "gone"}

Of(r) == mem[r].of

Pending(a) == {r \in Requests : pc[r] # "idle" /\ Of(r) = a}

Doubt(a, yes) == disturbed' = IF yes THEN disturbed \cup {a} ELSE disturbed

To(r, step, m) ==
    /\ pc' = [pc EXCEPT ![r] = step]
    /\ mem' = [mem EXCEPT ![r] = m]

Close(r) == To(r, "idle", Forgotten)

\* A column is written if its value differs from the one loaded.
Written(new, loaded, current) == IF new = loaded THEN current ELSE new

Start(r, a, op) ==
    /\ pc[r] = "idle"
    /\ op \in doings[a]
    /\ requests < MaxRequests
    /\ requests' = requests + 1
    /\ UNCHANGED <<doings, faults>>

Loaded(a, op) == [Forgotten EXCEPT !.op = op, !.of = a, !.row = account[a]]

-----------------------------------------------------------------------------
(* Accounts and their proxies.                                              *)

CreateAccount(r, a, assign) ==
    /\ Start(r, a, "create")
    /\ account[a].status = "none"
    /\ account' = [account EXCEPT ![a].status = "logged_out"]
    /\ IF assign THEN To(r, "pick", [Loaded(a, "create") EXCEPT !.row.status = "logged_out"])
       ELSE UNCHANGED <<pc, mem>>
    /\ UNCHANGED <<engine, holder, observed>>

\* update_account with a proxy taken away, any given, or one chosen: a proxy of another
\* account is refused.
UpdateAccount(r, a, p) ==
    /\ Start(r, a, "edit")
    /\ Exists(a)
    /\ p # NoProxy => holder[p] \in {NoAccount, a}
    /\ LET m == [Loaded(a, "edit") EXCEPT !.proxy = p,
                     !.held = IF p = NoProxy THEN NoAccount ELSE holder[p]] IN
       To(r, IF account[a].proxy # NoProxy THEN "release"
             ELSE IF p = NoProxy THEN "pick" ELSE "bind", m)
    /\ UNCHANGED <<engine, tables, observed>>

\* Where an edit goes on once the account's proxy is what it is to be.
Rebinds(m, p) == m.op = "edit" /\ p # m.row.proxy /\ m.row.session

\* Mutant: the account's side only.
Release_OneSided(m) == UNCHANGED holder

\* release_proxy frees the proxy of the row loaded, whoever holds it by now.
Release(m) == holder' = [holder EXCEPT ![m.row.proxy] = NoAccount]

\* The commit of release_proxy.  A row deleted meanwhile cannot be updated.
ReleaseProxy(r) ==
    LET m == mem[r]
        stale == account[m.of].proxy # m.row.proxy \/ holder[m.row.proxy] # m.of
    IN  /\ pc[r] = "release"
        /\ IF ~Exists(m.of)
           THEN Close(r) /\ UNCHANGED <<tables, raced>>
           ELSE /\ Release(m)
                /\ account' = [account EXCEPT ![m.of].proxy = NoProxy]
                /\ raced' = IF stale THEN raced \cup ({m.row.proxy, account[m.of].proxy} \ {NoProxy})
                            ELSE raced
                /\ IF m.op = "delete" THEN To(r, "drop", m)
                   ELSE IF m.proxy # NoProxy
                        THEN To(r, "bind", IF m.proxy = m.row.proxy
                                           THEN [m EXCEPT !.held = NoAccount] ELSE m)
                   ELSE IF Rebinds(m, NoProxy) THEN To(r, "rebind", m)
                   ELSE Close(r)
        /\ UNCHANGED <<engine, disturbed, bounds>>

\* assign_free_proxy: the first one that nobody has.
PickProxy(r) ==
    LET free == {p \in Proxies : holder[p] = NoAccount} IN
    /\ pc[r] = "pick"
    /\ IF free = {} THEN Close(r) ELSE To(r, "bind", [mem[r] EXCEPT !.proxy = Min(free)])
    /\ UNCHANGED <<engine, tables, observed, bounds>>

\* The commit that binds a proxy: both rows are written, whatever they are by now.
BindProxy(r) ==
    LET m == mem[r]
        stale == account[m.of].proxy # NoProxy \/ holder[m.proxy] # NoAccount
    IN  /\ pc[r] = "bind"
        /\ IF ~Exists(m.of)
           THEN Close(r) /\ UNCHANGED <<tables, raced>>
           ELSE /\ holder' = [holder EXCEPT ![m.proxy] = Written(m.of, m.held, @)]
                /\ account' = [account EXCEPT ![m.of].proxy = m.proxy]
                /\ raced' = IF stale THEN raced \cup ({m.proxy, account[m.of].proxy} \ {NoProxy})
                            ELSE raced
                /\ IF Rebinds(m, m.proxy) THEN To(r, "rebind", m) ELSE Close(r)
        /\ UNCHANGED <<engine, disturbed, bounds>>

\* The engine is asked to connect with the new proxy; whether it does is not waited for.
Rebind(r) ==
    /\ pc[r] = "rebind"
    /\ StartClient(Of(r), mem[r].proxy)
    /\ Close(r)
    /\ UNCHANGED <<tables, observed, bounds>>

-----------------------------------------------------------------------------
(* Requests to the engine.                                                  *)

Begin(r, a, op) ==
    /\ Start(r, a, op)
    /\ Exists(a)
    /\ op \in {"check", "reconnect"} => account[a].session
    /\ To(r, "call", Loaded(a, op))
    /\ Doubt(a, \E q \in Pending(a) : mem[q].op \notin {"create", "edit"})
    /\ UNCHANGED <<engine, tables, raced>>

Calls(r, op) ==
    /\ pc[r] = "call"
    /\ mem[r].op = op
    /\ UNCHANGED <<tables, raced, bounds>>

Answered(r, answer) == To(r, "finish", [mem[r] EXCEPT !.answer = answer])

CallQr(r) ==
    /\ Calls(r, "qr")
    /\ QrStart(Of(r), mem[r].row.proxy)
    /\ UNCHANGED disturbed
    /\ Close(r)

Scanned(a) == qrLogin[a].status = "authorized"

\* The login stays authorized in the engine's table: every later poll is told so again.
CallPoll(r) ==
    /\ Calls(r, "poll")
    /\ IF Scanned(Of(r)) THEN Answered(r, "authorized") ELSE Close(r)
    /\ UNCHANGED <<engine, disturbed>>

CallCode(r) ==
    /\ Calls(r, "code")
    /\ SendCode(Of(r), mem[r].row.proxy)
    /\ UNCHANGED disturbed
    /\ Close(r)

\* A password or a code: the client is picked, and then the account's lock waited for.
CallPick(r) ==
    /\ \/ Calls(r, "password") \/ Calls(r, "sign_in")
    /\ LET k == IF mem[r].op = "password" THEN qrLogin[Of(r)].client ELSE PickForSignIn(Of(r)) IN
       IF k = NoClient THEN Close(r) ELSE To(r, "locked", [mem[r] EXCEPT !.client = k])
    /\ UNCHANGED <<engine, disturbed>>

SubmitPassword(r) ==
    /\ pc[r] = "locked"
    /\ mem[r].op = "password"
    /\ QrPassword(Of(r), mem[r].client)
    /\ Answered(r, "authorized")
    /\ UNCHANGED <<tables, observed, bounds>>

SubmitCode(r) ==
    /\ pc[r] = "locked"
    /\ mem[r].op = "sign_in"
    /\ SignIn(Of(r), mem[r].client)
    /\ Answered(r, "authorized")
    /\ UNCHANGED <<tables, observed, bounds>>

\* The password or the code is wrong, or the client is no longer connected.
Rejected(r) ==
    /\ pc[r] = "locked"
    /\ Close(r)
    /\ UNCHANGED <<engine, tables, observed, bounds>>

CallImport(r, accepted) ==
    /\ Calls(r, "import")
    /\ ImportSession(Of(r), mem[r].row.proxy, accepted)
    /\ Doubt(Of(r), ~accepted)
    /\ IF accepted THEN Answered(r, "authorized") ELSE Close(r)

\* What delete_account does after the logout, and also without it.
Released(r) == To(r, IF mem[r].row.proxy = NoProxy THEN "drop" ELSE "release", mem[r])

CallLogout(r, told) ==
    /\ \/ Calls(r, "logout") \/ Calls(r, "delete")
    /\ Logout(Of(r), told)
    /\ UNCHANGED disturbed
    /\ IF mem[r].op = "delete" THEN Released(r) ELSE Answered(r, "logged_out")

\* spam_check, ban_check: an account that is logged in may be found limited or banned, and
\* one that is not is found out by ban_check; spam_check then fails, and so may both.
CallCheck(r, verdict) ==
    /\ Calls(r, "check")
    /\ StartClient(Of(r), mem[r].row.proxy)
    /\ UNCHANGED disturbed
    /\ verdict \in {"limited", "banned"} => IsLoggedIn(Of(r), mem[r].row.proxy)
    /\ verdict = "logged_out" => ~IsLoggedIn(Of(r), mem[r].row.proxy)
    /\ IF verdict = "clean" THEN Close(r) ELSE Answered(r, verdict)

CallReconnect(r) ==
    /\ Calls(r, "reconnect")
    /\ StartClient(Of(r), mem[r].row.proxy)
    /\ UNCHANGED disturbed
    /\ Close(r)

\* The engine cannot be reached: the request fails, but a deletion goes on.
Unreachable(r) ==
    /\ pc[r] = "call"
    /\ IF mem[r].op = "delete" THEN Released(r) ELSE Close(r)
    /\ UNCHANGED <<engine, tables, observed, bounds>>

-----------------------------------------------------------------------------
(* What the answers mean.                                                   *)

\* Mutant: all columns are written, also those that are what they were.
AfterLogin_AllColumns(m) == [account[m.of] EXCEPT !.status = "active", !.session = TRUE]

\* mark_logged_in
AfterLogin(m) ==
    [account[m.of] EXCEPT !.status = Written("active", m.row.status, @),
                          !.session = Written(TRUE, m.row.session, @)]

\* Mutant: a status that is not one.
AfterLogout_Misspelt(m) ==
    [account[m.of] EXCEPT !.status = Written("logged-out", m.row.status, @),
                          !.session = Written(FALSE, m.row.session, @)]

\* mark_logged_out
AfterLogout(m) ==
    [account[m.of] EXCEPT !.status = Written("logged_out", m.row.status, @),
                          !.session = Written(FALSE, m.row.session, @)]

\* set_spam_state reloads the row before set_status, so a limit is written over any status;
\* a ban may also come from ban_check, which does not.
AfterCheck(m) ==
    IF m.answer = "limited" THEN [account[m.of] EXCEPT !.status = "quarantined"]
    ELSE [account[m.of] EXCEPT !.status = Written("banned", m.row.status, @)]

Finish(r) ==
    LET m == mem[r] IN
    /\ pc[r] = "finish"
    /\ account' = IF ~Exists(m.of) THEN account
                  ELSE [account EXCEPT ![m.of] =
                           CASE m.answer = "authorized" -> AfterLogin(m)
                             [] m.answer = "logged_out" -> AfterLogout(m)
                             [] OTHER -> AfterCheck(m)]
    /\ disturbed' = IF /\ m.answer = "logged_out"
                       /\ Pending(m.of) = {r}
                       /\ ~account'[m.of].session
                       /\ clients[m.of] = NoClient /\ file[m.of] = NoKey
                    THEN disturbed \ {m.of} ELSE disturbed
    /\ Close(r)
    /\ UNCHANGED <<engine, holder, raced, bounds>>

\* The last commit of delete_account.
DropAccount(r) ==
    /\ pc[r] = "drop"
    /\ account' = [account EXCEPT ![Of(r)] = [NoRow EXCEPT !.status = "gone"]]
    /\ raced' = raced \cup ({account[Of(r)].proxy} \ {NoProxy})
    /\ Close(r)
    /\ UNCHANGED <<engine, holder, disturbed, bounds>>

-----------------------------------------------------------------------------
(* A manager's override, the senders' quarantine, and failures.             *)

OverrideStatus(a, status) ==
    /\ "override" \in doings[a]
    /\ requests < MaxRequests
    /\ requests' = requests + 1
    /\ Exists(a)
    /\ account' = [account EXCEPT ![a].status = status]
    /\ UNCHANGED <<engine, holder, pc, mem, observed, doings, faults>>

Quarantine(a) ==
    /\ "quarantine" \in doings[a]
    /\ account[a].status = "active"
    /\ account' = [account EXCEPT ![a].status = "quarantined"]
    /\ UNCHANGED <<engine, holder, pc, mem, observed, bounds>>

Fault == faults < MaxFaults /\ faults' = faults + 1 /\ UNCHANGED <<doings, requests>>

\* An account whose request ends early is in doubt until it is logged out.
Abandon(r) ==
    /\ Fault
    /\ pc[r] \notin {"idle", "call"}
    /\ Close(r)
    /\ disturbed' = disturbed \cup {Of(r)}
    /\ UNCHANGED <<engine, tables, raced>>

\* Requests inside the engine end with it.
RestartEngine ==
    /\ Fault
    /\ EngineRestart
    /\ pc' = [r \in Requests |-> IF pc[r] = "locked" THEN "idle" ELSE pc[r]]
    /\ mem' = [r \in Requests |-> IF pc[r] = "locked" THEN Forgotten ELSE mem[r]]
    /\ UNCHANGED <<tables, observed>>

RevokeSession(a, key) ==
    /\ "revoke" \in doings[a]
    /\ key \in KeysOf(a)
    /\ Fault
    /\ Revoke(key)
    /\ disturbed' = disturbed \cup {a}
    /\ UNCHANGED <<tables, pc, mem, raced>>

\* The holder of the phone scans the code.
ScanQr(a, status) ==
    /\ WatchQr(a, status)
    /\ UNCHANGED <<tables, pc, mem, observed, bounds>>

-----------------------------------------------------------------------------

Requested(r) ==
    \/ \E a \in Accounts, assign \in BOOLEAN : CreateAccount(r, a, assign)
    \/ \E a \in Accounts, p \in Proxies \cup {NoProxy} : UpdateAccount(r, a, p)
    \/ \E a \in Accounts, op \in Operations \ {"create", "edit", "override", "quarantine", "revoke"} :
            Begin(r, a, op)

AtEngine(r) ==
    \/ CallQr(r) \/ CallPoll(r) \/ CallCode(r) \/ CallPick(r)
    \/ SubmitPassword(r) \/ SubmitCode(r) \/ Rejected(r)
    \/ CallReconnect(r) \/ Rebind(r) \/ Unreachable(r)
    \/ \E yes \in BOOLEAN : CallImport(r, yes) \/ CallLogout(r, yes)
    \/ \E verdict \in {"clean", "limited", "banned", "logged_out"} : CallCheck(r, verdict)

AtDatabase(r) ==
    ReleaseProxy(r) \/ PickProxy(r) \/ BindProxy(r) \/ Finish(r) \/ DropAccount(r)

Surroundings ==
    \/ \E a \in Accounts, status \in Statuses : OverrideStatus(a, status)
    \/ \E a \in Accounts : Quarantine(a)
    \/ \E a \in Accounts, status \in {"authorized", "password_needed", "expired"} : ScanQr(a, status)
    \/ \E a \in Accounts, key \in Keys : RevokeSession(a, key)
    \/ RestartEngine

Next ==
    \/ \E r \in Requests : Requested(r) \/ AtEngine(r) \/ AtDatabase(r) \/ Abandon(r)
    \/ Surroundings

Spec == Init /\ [][Next]_vars

-----------------------------------------------------------------------------
(* Properties.                                                              *)

\* The two tables that record who has which proxy agree, whichever steps a request has got
\* to and wherever one was abandoned, and so a proxy serves one account: unless two
\* requests held rows of the proxy, or of its account, at the same time.
ProxyTablesAgree ==
    \A p \in Proxies \ raced, a \in Accounts : account[a].proxy = p <=> holder[p] = a

\* An account that the database takes for logged in can work, also after the engine has
\* started again from its files: unless requests overlapped at the engine, an answer was
\* lost, a bad session string was imported over the session, or Telegram ended it.
LoggedInWorks ==
    \A a \in Accounts \ disturbed :
        Pending(a) = {} /\ account[a].session => Serves(a)

\* Each message to an account is published once: the clients that listen are the one in the
\* table and those that an import, a sign-in by an older client or a failed logout has left
\* connected.
ListenersAccounted ==
    \A a \in Accounts :
        Cardinality(Listening(a)) <= strays[a] + (IF clients[a] = NoClient THEN 0 ELSE 1)

\* A login that was started while the account was in use does not take back a quarantine or
\* ban that came while the engine was asked.
QuarantineStands ==
    [][\A a \in Accounts :
          /\ account[a].status \in {"quarantined", "banned"}
          /\ account'[a].status = "active"
          => \/ pc' = pc
             \/ \E r \in Requests : pc[r] = "finish" /\ pc'[r] = "idle" /\ Of(r) = a
                                    /\ mem[r].row.status # "active"]_vars

\* "we ask the engine to re-bind the client so it keeps routing through the right proxy"
\* (api/accounts.py:108): once it has been asked, the client routes through the proxy that
\* the edit has bound.
ClientUsesItsProxy ==
    [][\A r \in Requests :
          pc[r] = "rebind" /\ pc'[r] = "idle" =>
              object'[clients'[Of(r)]].proxy = mem[r].proxy]_vars
=============================================================================
