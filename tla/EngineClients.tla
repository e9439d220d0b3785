---------------------------- MODULE EngineClients ----------------------------
(***************************************************************************)
(* The engine's table of Telegram clients (backend/engine/manager.py): one *)
(* process that owns the session files and logs accounts in and out.       *)
(*                                                                         *)
(* An operation holds its account's lock from beginning to end, so it is   *)
(* one step here; the operations that pick their client BEFORE they wait   *)
(* for the lock (a password, a code) are told which one they have picked.  *)
(* The operations are conjuncts for the module that calls them, Accounts;   *)
(* each leaves what it returns to its caller.                              *)
(*                                                                         *)
(* Telegram and Telethon are external: a key is what a session file and a   *)
(* client hold, "valid" the keys that Telegram accepts as logged in.  A     *)
(* client that has logged out is disconnected, and its file deleted.        *)
(***************************************************************************)
EXTENDS Naturals, FiniteSets, FiniteSetsExt

CONSTANTS
    Accounts, Proxies,
    NoAccount, NoProxy, \* NULL
    MaxClients          \* bound on the client objects the engine builds between restarts

Clients == 1..MaxClients
NoClient == 0
NoKey == 0

VARIABLES
    clients,            \* SessionManager.clients
    phoneLogin,         \* SessionManager.phone_logins
    qrLogin,            \* SessionManager.qr_logins
    object,             \* the client objects, also those no table names any more
    file,               \* the session files: the key stored
    valid,              \* Telegram's: the keys that are logged in
    strays              \* an observer's: clients replaced or dropped while they were connected

engine == <<clients, phoneLogin, qrLogin, object, file, valid, strays>>

Keys == Clients

ClientObjects ==
    [of : Accounts \cup {NoAccount}, key : Keys \cup {NoKey}, up : BOOLEAN,
     listens : BOOLEAN, proxy : Proxies \cup {NoProxy}]

NotBuilt == [of |-> NoAccount, key |-> NoKey, up |-> FALSE, listens |-> FALSE, proxy |-> NoProxy]

QrStates == [client : Clients \cup {NoClient},
             status : {"none", "waiting", "password_needed", "authorized", "expired"}]
NoQr == [client |-> NoClient, status |-> "none"]

EngineTypeOK ==
    /\ clients \in [Accounts -> Clients \cup {NoClient}]
    /\ phoneLogin \in [Accounts -> Clients \cup {NoClient}]
    /\ qrLogin \in [Accounts -> QrStates]
    /\ object \in [Clients -> ClientObjects]
    /\ file \in [Accounts -> Keys \cup {NoKey}]
    /\ valid \in SUBSET Keys
    /\ strays \in [Accounts -> Nat]

EngineInit ==
    /\ clients = [a \in Accounts |-> NoClient]
    /\ phoneLogin = [a \in Accounts |-> NoClient]
    /\ qrLogin = [a \in Accounts |-> NoQr]
    /\ object = [k \in Clients |-> NotBuilt]
    /\ file = [a \in Accounts |-> NoKey]
    /\ valid = {}
    /\ strays = [a \in Accounts |-> 0]

\* An object not built yet; its number also names the key it would make.
Unbuilt ==
    {k \in Clients : /\ object[k] = NotBuilt
                     /\ k \notin valid
                     /\ \A j \in Clients : object[j].key # k
                     /\ \A a \in Accounts : file[a] # k}

\* The keys of an account: what its clients and its session file hold.
KeysOf(a) == {object[k].key : k \in {j \in Clients : object[j].of = a}} \cup {file[a]}

Authorized(k) == k # NoClient /\ object[k].up /\ object[k].key \in valid

\* The account's client answers Telegram's calls, now or after a restart.
Serves(a) == IF clients[a] = NoClient THEN file[a] \in valid ELSE Authorized(clients[a])

Listening(a) == {k \in Clients : object[k].of = a /\ object[k].listens /\ Authorized(k)}

\* Mutant: a new client when the proxy has changed, beside the one that is connected.
Connected_Rebuilt(a, proxy) ==
    IF clients[a] # NoClient /\ (object[clients[a]].proxy = proxy \/ Unbuilt = {})
    THEN [client |-> clients[a],
          object |-> [object[clients[a]] EXCEPT !.listens = @ \/ Authorized(clients[a])]]
    ELSE LET k == Min(Unbuilt)
             key == IF file[a] = NoKey THEN k ELSE file[a]
         IN [client |-> k,
             object |-> [of |-> a, key |-> key, up |-> TRUE, listens |-> key \in valid,
                         proxy |-> proxy]]

\* _connected_client: the client there is, whatever its proxy, or one built on the session
\* file.  It listens from now on if it is logged in.
Connected(a, proxy) ==
    IF clients[a] # NoClient
    THEN [client |-> clients[a],
          object |-> [object[clients[a]] EXCEPT !.listens = @ \/ Authorized(clients[a])]]
    ELSE LET k == Min(Unbuilt)
             key == IF file[a] = NoKey THEN k ELSE file[a]
         IN [client |-> k,
             object |-> [of |-> a, key |-> key, up |-> TRUE, listens |-> key \in valid,
                         proxy |-> proxy]]

CanConnect(a) == clients[a] # NoClient \/ Unbuilt # {}

Connect(a, proxy) ==
    LET c == Connected(a, proxy) IN
    /\ CanConnect(a)
    /\ clients' = [clients EXCEPT ![a] = c.client]
    /\ object' = [object EXCEPT ![c.client] = c.object]
    /\ file' = [file EXCEPT ![a] = IF clients[a] = NoClient THEN c.object.key ELSE @]

\* start_client.  The checks, sends and look-ups begin with the same connection, and are
\* refused if it is not logged in (_authorized_client).
StartClient(a, proxy) ==
    /\ Connect(a, proxy)
    /\ UNCHANGED <<phoneLogin, qrLogin, valid, strays>>

IsLoggedIn(a, proxy) ==
    LET o == Connected(a, proxy).object IN o.up /\ o.key \in valid

-----------------------------------------------------------------------------
(* Logging in.                                                              *)

QrStart(a, proxy) ==
    /\ Connect(a, proxy)
    /\ qrLogin' = [qrLogin EXCEPT ![a] =
          [client |-> Connected(a, proxy).client, status |-> "waiting"]]
    /\ UNCHANGED <<phoneLogin, valid, strays>>

\* _watch_qr: the code is scanned, or not renewed; a person with two factors is asked for
\* the password.
WatchQr(a, status) ==
    LET k == qrLogin[a].client IN
    /\ qrLogin[a].status = "waiting"
    /\ status \in {"authorized", "password_needed", "expired"}
    /\ status = "authorized" => object[k].up
    /\ qrLogin' = [qrLogin EXCEPT ![a].status = status]
    /\ valid' = IF status = "authorized" THEN valid \cup {object[k].key} ELSE valid
    /\ UNCHANGED <<clients, phoneLogin, object, file, strays>>

\* The password of a QR login, sent by the client k that was found before the lock; the
\* login it belongs to may have been replaced since.
QrPassword(a, k) ==
    /\ object[k].up
    /\ valid' = valid \cup {object[k].key}
    /\ qrLogin' = IF qrLogin[a].client = k
                  THEN [qrLogin EXCEPT ![a].status = "authorized"] ELSE qrLogin
    /\ UNCHANGED <<clients, phoneLogin, object, file, strays>>

SendCode(a, proxy) ==
    /\ Connect(a, proxy)
    /\ phoneLogin' = [phoneLogin EXCEPT ![a] = Connected(a, proxy).client]
    /\ UNCHANGED <<qrLogin, valid, strays>>

\* The client that a code is sent back with.
PickForSignIn(a) == IF phoneLogin[a] # NoClient THEN phoneLogin[a] ELSE clients[a]

Stray(a, k) == IF clients[a] \notin {NoClient, k} /\ object[clients[a]].up
               THEN [strays EXCEPT ![a] = @ + 1] ELSE strays

\* phone_sign_in, by the client k that was picked before the lock: it takes its place in
\* the table back.
SignIn(a, k) ==
    /\ object[k].up
    /\ valid' = valid \cup {object[k].key}
    /\ strays' = Stray(a, k)
    /\ clients' = [clients EXCEPT ![a] = k]
    /\ phoneLogin' = [phoneLogin EXCEPT ![a] = NoClient]
    /\ UNCHANGED <<qrLogin, object, file>>

\* import_session: the key of the string is in the file before it is tried, and a client
\* of its own takes the place of the one there was.
ImportSession(a, proxy, accepted) ==
    /\ Unbuilt # {}
    /\ LET k == Min(Unbuilt) IN
       /\ file' = [file EXCEPT ![a] = k]
       /\ object' = [object EXCEPT ![k] =
             [of |-> a, key |-> k, up |-> accepted, listens |-> FALSE, proxy |-> proxy]]
       /\ IF accepted
          THEN /\ valid' = valid \cup {k}
               /\ strays' = Stray(a, k)
               /\ clients' = [clients EXCEPT ![a] = k]
          ELSE UNCHANGED <<valid, strays, clients>>
    /\ UNCHANGED <<phoneLogin, qrLogin>>

-----------------------------------------------------------------------------
(* Logging out, and what happens to the engine.                             *)

\* Mutant: the logins under way are forgotten, but the client keeps its place.
Forget_KeepsClient(a) ==
    /\ phoneLogin' = [phoneLogin EXCEPT ![a] = NoClient]
    /\ qrLogin' = [qrLogin EXCEPT ![a] = NoQr]
    /\ UNCHANGED clients

\* The tables forget the account.
Forget(a) ==
    /\ phoneLogin' = [phoneLogin EXCEPT ![a] = NoClient]
    /\ qrLogin' = [qrLogin EXCEPT ![a] = NoQr]
    /\ clients' = [clients EXCEPT ![a] = NoClient]

\* logout: told, Telegram ends the session; a client that is not logged in, or whose call
\* fails, is dropped as it is.  The file goes in any case.
Logout(a, told) ==
    LET k == clients[a] IN
    /\ Forget(a)
    /\ IF told /\ Authorized(k)
       THEN /\ valid' = valid \ {object[k].key}
            /\ object' = [object EXCEPT ![k].up = FALSE, ![k].listens = FALSE]
            /\ UNCHANGED strays
       ELSE /\ strays' = IF k = NoClient THEN strays ELSE [strays EXCEPT ![a] = @ + 1]
            /\ UNCHANGED <<valid, object>>
    /\ file' = [file EXCEPT ![a] = NoKey]

\* The engine stops, or dies, and starts again: the files are all it has.
EngineRestart ==
    /\ clients' = [a \in Accounts |-> NoClient]
    /\ phoneLogin' = [a \in Accounts |-> NoClient]
    /\ qrLogin' = [a \in Accounts |-> NoQr]
    /\ object' = [k \in Clients |-> NotBuilt]
    /\ strays' = [a \in Accounts |-> 0]
    /\ UNCHANGED <<file, valid>>

\* A session is ended from another device, or by Telegram.
Revoke(key) ==
    /\ key \in valid
    /\ valid' = valid \ {key}
    /\ UNCHANGED <<clients, phoneLogin, qrLogin, object, file, strays>>
=============================================================================
