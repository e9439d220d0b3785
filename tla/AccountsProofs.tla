--------------------------- MODULE AccountsProofs ---------------------------
(***************************************************************************)
(* Proofs about Accounts: what the requests hold is well formed; the two    *)
(* tables of the proxy pool agree; the clients that listen are accounted     *)
(* for; an account that the database takes for logged in can work; and no    *)
(* login takes back a quarantine.                                          *)
(*                                                                         *)
(* The engine's operations are reasoned about first, on their own: a step   *)
(* of Accounts is a step of the engine (EngineStep) beside what it does to   *)
(* the tables and the requests.                                            *)
(***************************************************************************)
EXTENDS Accounts, FiniteSetTheorems, TLAPS

-----------------------------------------------------------------------------
(* The least of a set of numbers.                                           *)

LEMMA MinOfFinite ==
  ASSUME NEW S \in SUBSET Nat, IsFiniteSet(S), S # {}
  PROVE  \E x \in S : \A y \in S : x <= y
<1>. DEFINE Below(x) == {y \in S : y < x}
            T == {Below(x) : x \in S}
<1>1. T \subseteq FiniteSubsetsOf(S)
  BY FS_FiniteSubsetsOfFinite
<1>2. T # {}
  OBVIOUS
<1>3. PICK U \in T : \A V \in T : ~(<<V, U>> \in StrictSubsetOrdering(S))
  <2>. HIDE DEF T
  <2>. QED
    BY <1>1, <1>2, FS_StrictSubsetOrderingWellFounded, WFMin
<1>4. PICK x \in S : U = Below(x)
  BY <1>3
<1>5. ASSUME NEW y \in S, y < x
      PROVE  FALSE
  <2>1. x \in Nat /\ y \in Nat /\ S \subseteq Nat
    OBVIOUS
  <2>4. \A z \in S : z < y => z < x
    BY <1>5, <2>1
  <2>5. ~(y < y)
    BY <2>1
  <2>6. Below(y) \subseteq Below(x) /\ y \in Below(x) /\ y \notin Below(y)
    BY <1>5, <2>4, <2>5, Zenon
  <2>2. Below(y) \in T
    OBVIOUS
  <2>3. <<Below(y), U>> \in StrictSubsetOrdering(S)
    BY <1>4, <2>6 DEF StrictSubsetOrdering
  <2>. QED
    BY <1>3, <2>2, <2>3
<1>6. \A y \in S : x <= y
  BY <1>5
<1>. QED
  BY <1>6

LEMMA MinIs ==
  ASSUME NEW S \in SUBSET Nat, S # {}
  PROVE  Min(S) \in S /\ \A x \in S : Min(S) <= x
<1>1. PICK n \in S : TRUE
  OBVIOUS
<1>. DEFINE F == {y \in S : y <= n}
<1>2. IsFiniteSet(F) /\ F # {} /\ F \in SUBSET Nat
  <2>1. F \in SUBSET Nat /\ n \in Nat /\ \A s \in F : s <= n
    OBVIOUS
  <2>2. n <= n
    BY <2>1
  <2>3. n \in F
    BY <2>2
  <2>4. IsFiniteSet(F)
    BY <2>1, FS_BoundedSetOfNaturals, Zenon
  <2>. QED
    BY <2>1, <2>3, <2>4, Zenon
<1>3. PICK m \in F : \A y \in F : m <= y
  BY <1>2, MinOfFinite
<1>4. \A y \in S : m <= y
  BY <1>3
<1>. QED
  BY <1>4 DEF Min

-----------------------------------------------------------------------------
(* The engine's tables.                                                     *)

\* What a table names belongs to the account; no client, no login; a client that is
\* connected holds a key; a login under way has its client.
Owned ==
    /\ \A a \in Accounts :
          /\ clients[a] # NoClient => object[clients[a]].of = a
          /\ phoneLogin[a] # NoClient => object[phoneLogin[a]].of = a
          /\ qrLogin[a].client # NoClient => object[qrLogin[a].client].of = a
          /\ qrLogin[a].status # "none" => qrLogin[a].client # NoClient
          /\ clients[a] = NoClient => phoneLogin[a] = NoClient /\ qrLogin[a] = NoQr
    /\ \A k \in Clients : object[k].up => object[k].key # NoKey

\* No two accounts share a key.
KeysApart ==
    \A a, b \in Accounts : a # b => KeysOf(a) \cap KeysOf(b) \subseteq {NoKey}

\* The clients of an account that are connected and not the one in the table.
Beside(a) == {k \in Clients : object[k].of = a /\ object[k].up /\ k # clients[a]}

BesideAccounted == \A a \in Accounts : Cardinality(Beside(a)) <= strays[a]

EngineInv ==
    /\ EngineTypeOK
    /\ Owned
    /\ KeysApart
    /\ BesideAccounted

ProxyArgs == Proxies \cup {NoProxy}

\* What a step of Accounts does to the engine as it runs.
EngineOp ==
    \/ UNCHANGED engine
    \/ \E a \in Accounts, p \in ProxyArgs :
          StartClient(a, p) \/ QrStart(a, p) \/ SendCode(a, p)
    \/ \E a \in Accounts, p \in ProxyArgs, yes \in BOOLEAN : ImportSession(a, p, yes)
    \/ \E a \in Accounts, yes \in BOOLEAN : Logout(a, yes)
    \/ \E a \in Accounts, k \in Clients : object[k].of = a /\ (QrPassword(a, k) \/ SignIn(a, k))
    \/ \E a \in Accounts : \E status \in {"authorized", "password_needed", "expired"} : WatchQr(a, status)
    \/ \E a \in Accounts : \E key \in KeysOf(a) : Revoke(key)

EngineStep == EngineOp \/ EngineRestart

LEMMA InKeys ==
  ASSUME NEW a \in Accounts, NEW key
  PROVE  /\ key \in KeysOf(a) <=>
              key = file[a] \/ \E j \in Clients : object[j].of = a /\ object[j].key = key
         /\ key \in KeysOf(a)' <=>
              key = file'[a] \/ \E j \in Clients : object'[j].of = a /\ object'[j].key = key
BY DEF KeysOf

LEMMA ClientNumbers == Clients \in SUBSET Nat /\ NoClient \notin Clients /\ IsFiniteSet(Clients)
<1>1. MaxClients \in Nat
  BY AccountsAssumption
<1>. QED
  BY <1>1, FS_Interval DEF Clients, NoClient

\* A client object built now, and the key it would make, are new.
LEMMA Fresh ==
  ASSUME EngineTypeOK, Unbuilt # {}
  PROVE  /\ Min(Unbuilt) \in Clients
         /\ object[Min(Unbuilt)] = NotBuilt
         /\ Min(Unbuilt) \notin valid
         /\ Min(Unbuilt) # NoKey
         /\ \A a \in Accounts : Min(Unbuilt) \notin KeysOf(a)
<1>1. Unbuilt \in SUBSET Nat
  BY ClientNumbers DEF Unbuilt
<1>2. Min(Unbuilt) \in Unbuilt
  BY <1>1, MinIs
<1>. DEFINE k == Min(Unbuilt)
<1>. HIDE DEF k
<1>3. k \in Unbuilt
  BY <1>2 DEF k
<1>4. k \in Clients /\ object[k] = NotBuilt /\ k \notin valid
      /\ (\A j \in Clients : object[j].key # k) /\ (\A a \in Accounts : file[a] # k)
  BY <1>3 DEF Unbuilt
<1>5. k # NoKey
  BY <1>4, ClientNumbers DEF NoKey, NoClient
<1>6. \A a \in Accounts : k \notin KeysOf(a)
  BY <1>4, InKeys
<1>. QED
  BY <1>4, <1>5, <1>6 DEF k
-----------------------------------------------------------------------------
(* What the engine's operations do.                                         *)

\* _connected_client, when the account has a client already.
Reused(a) ==
    /\ clients' = clients
    /\ file' = file
    /\ \A j \in Clients : /\ object'[j].of = object[j].of
                          /\ object'[j].key = object[j].key
                          /\ object'[j].up = object[j].up

\* A client object k built for the account; the key is new, or the one in the file.
Built(a, k) ==
    /\ k \in Clients
    /\ object[k] = NotBuilt
    /\ k \notin valid
    /\ \A b \in Accounts : k \notin KeysOf(b)
    /\ \A j \in Clients : j # k => object'[j] = object[j]
    /\ object'[k].of = a
    /\ object'[k].key \in {k, file[a]} \ {NoKey}
    /\ \A b \in Accounts : b # a => file'[b] = file[b] /\ clients'[b] = clients[b]
    /\ file'[a] = object'[k].key

LEMMA ConnectTypes ==
  ASSUME EngineTypeOK, NEW a \in Accounts, NEW p \in ProxyArgs, CanConnect(a)
  PROVE  /\ Connected(a, p).client \in Clients
         /\ Connected(a, p).object \in ClientObjects
<1>1. CASE clients[a] # NoClient
  <2>1. clients[a] \in Clients
    BY <1>1 DEF EngineTypeOK
  <2>2. object[clients[a]] \in ClientObjects
    BY <2>1 DEF EngineTypeOK
  <2>. DEFINE o == object[clients[a]]
              l == o.listens \/ Authorized(clients[a])
  <2>3. l \in BOOLEAN /\ o \in ClientObjects
    BY <2>2 DEF Authorized, ClientObjects
  <2>4. Connected(a, p) = [client |-> clients[a], object |-> [o EXCEPT !.listens = l]]
    BY <1>1 DEF Connected
  <2>. HIDE DEF o, l
  <2>5. [o EXCEPT !.listens = l] \in ClientObjects
    BY <2>3 DEF ClientObjects
  <2>. QED
    BY <2>1, <2>4, <2>5
<1>2. CASE clients[a] = NoClient
  <2>1. Unbuilt # {}
    BY <1>2 DEF CanConnect
  <2>. DEFINE k == Min(Unbuilt)
              key == IF file[a] = NoKey THEN k ELSE file[a]
              l == key \in valid
  <2>2. k \in Clients /\ key \in Keys
    BY <2>1, Fresh DEF EngineTypeOK, Keys
  <2>3. Connected(a, p) = [client |-> k, object |-> [of |-> a, key |-> key, up |-> TRUE,
                              listens |-> l, proxy |-> p]]
    BY <1>2 DEF Connected
  <2>4. l \in BOOLEAN
    OBVIOUS
  <2>. HIDE DEF k, key, l
  <2>5. [of |-> a, key |-> key, up |-> TRUE, listens |-> l, proxy |-> p] \in ClientObjects
    BY <2>2, <2>4 DEF ClientObjects, ProxyArgs
  <2>. QED
    BY <2>2, <2>3, <2>5
<1>. QED
  BY <1>1, <1>2

LEMMA ConnectEffect ==
  ASSUME EngineTypeOK, NEW a \in Accounts, NEW p \in ProxyArgs, Connect(a, p)
  PROVE  /\ clients' \in [Accounts -> Clients \cup {NoClient}]
         /\ object' \in [Clients -> ClientObjects]
         /\ file' \in [Accounts -> Keys \cup {NoKey}]
         /\ clients'[a] = Connected(a, p).client
         /\ clients'[a] # NoClient
         /\ \/ clients[a] # NoClient /\ Reused(a)
            \/ /\ clients[a] = NoClient
               /\ Built(a, clients'[a])
               /\ object'[clients'[a]].up
               /\ object'[clients'[a]].key =
                     IF file[a] = NoKey THEN clients'[a] ELSE file[a]
<1>. DEFINE c == Connected(a, p)
<1>1. c.client \in Clients /\ c.object \in ClientObjects
  BY ConnectTypes DEF Connect
<1>2. /\ clients' = [clients EXCEPT ![a] = c.client]
      /\ object' = [object EXCEPT ![c.client] = c.object]
      /\ file' = [file EXCEPT ![a] = IF clients[a] = NoClient THEN c.object.key ELSE @]
      /\ CanConnect(a)
  BY DEF Connect
<1>. HIDE DEF c
<1>3. /\ clients \in [Accounts -> Clients \cup {NoClient}]
      /\ object \in [Clients -> ClientObjects]
      /\ file \in [Accounts -> Keys \cup {NoKey}]
      /\ c.object.key \in Keys \cup {NoKey}
  BY <1>1 DEF EngineTypeOK, ClientObjects
<1>4. /\ clients' \in [Accounts -> Clients \cup {NoClient}]
      /\ object' \in [Clients -> ClientObjects]
      /\ file' \in [Accounts -> Keys \cup {NoKey}]
      /\ clients'[a] = c.client
      /\ clients'[a] # NoClient
  BY <1>1, <1>2, <1>3, ClientNumbers
<1>5. /\ \A j \in Clients : object'[j] = IF j = c.client THEN c.object ELSE object[j]
      /\ \A b \in Accounts : b # a => file'[b] = file[b] /\ clients'[b] = clients[b]
      /\ file'[a] = IF clients[a] = NoClient THEN c.object.key ELSE file[a]
  BY <1>1, <1>2, <1>3
<1>6. CASE clients[a] # NoClient
  <2>1. /\ c.client = clients[a]
        /\ c.object = [object[clients[a]] EXCEPT !.listens = @ \/ Authorized(clients[a])]
    BY <1>6 DEF c, Connected
  <2>2. object[clients[a]] \in ClientObjects
    BY <1>1, <1>3, <2>1
  <2>3. /\ c.object.of = object[clients[a]].of
        /\ c.object.key = object[clients[a]].key
        /\ c.object.up = object[clients[a]].up
    BY <2>1, <2>2 DEF ClientObjects
  <2>4. clients' = clients
    BY <1>2, <1>3, <2>1
  <2>5. file' = file
    BY <1>2, <1>3, <1>6
  <2>. QED
    BY <1>4, <1>5, <1>6, <2>1, <2>3, <2>4, <2>5 DEF Reused, c
<1>7. CASE clients[a] = NoClient
  <2>1. Unbuilt # {}
    BY <1>2, <1>7 DEF CanConnect
  <2>2. /\ c.client = Min(Unbuilt)
        /\ c.object.of = a
        /\ c.object.up = TRUE
        /\ c.object.key = IF file[a] = NoKey THEN Min(Unbuilt) ELSE file[a]
    BY <1>7 DEF c, Connected
  <2>3. c.object.key # NoKey
    BY <2>1, <2>2, Fresh
  <2>4. Built(a, c.client)
    BY <1>1, <1>5, <1>7, <2>1, <2>2, <2>3, Fresh DEF Built
  <2>. QED
    <3>1. object'[clients'[a]] = c.object
      BY <1>1, <1>4, <1>5
    <3>2. /\ object'[clients'[a]].up
          /\ object'[clients'[a]].key =
                IF file[a] = NoKey THEN clients'[a] ELSE file[a]
      BY <1>4, <2>2, <3>1
    <3>3. Built(a, clients'[a])
      BY <1>4, <2>4
    <3>. QED
      BY <1>4, <1>7, <3>2, <3>3 DEF c
<1>. QED
  BY <1>6, <1>7

\* start_client, qr_start, phone_start: a connection, and the login that it begins.
LEMMA Connecting ==
  ASSUME EngineTypeOK, NEW a \in Accounts, NEW p \in ProxyArgs,
         StartClient(a, p) \/ QrStart(a, p) \/ SendCode(a, p)
  PROVE  /\ Connect(a, p)
         /\ valid' = valid
         /\ strays' = strays
         /\ phoneLogin' = phoneLogin \/ phoneLogin' = [phoneLogin EXCEPT ![a] = clients'[a]]
         /\ \/ qrLogin' = qrLogin
            \/ qrLogin' = [qrLogin EXCEPT ![a] = [client |-> clients'[a], status |-> "waiting"]]
<1>1. Connect(a, p)
  BY DEF StartClient, QrStart, SendCode
<1>2. clients'[a] = Connected(a, p).client
  BY <1>1, ConnectEffect
<1>3. CASE StartClient(a, p)
  BY <1>1, <1>3 DEF StartClient
<1>4. CASE QrStart(a, p)
  BY <1>1, <1>2, <1>4 DEF QrStart
<1>5. CASE SendCode(a, p)
  BY <1>1, <1>2, <1>5 DEF SendCode
<1>. QED
  BY <1>3, <1>4, <1>5

LEMMA ConnectingTypes ==
  ASSUME EngineTypeOK, NEW a \in Accounts, NEW p \in ProxyArgs,
         StartClient(a, p) \/ QrStart(a, p) \/ SendCode(a, p)
  PROVE  EngineTypeOK'
<1>1. /\ clients' \in [Accounts -> Clients \cup {NoClient}]
      /\ object' \in [Clients -> ClientObjects]
      /\ file' \in [Accounts -> Keys \cup {NoKey}]
  BY Connecting, ConnectEffect
<1>2. clients'[a] \in Clients \cup {NoClient}
  BY <1>1
<1>3. phoneLogin' \in [Accounts -> Clients \cup {NoClient}]
  BY <1>2, Connecting DEF EngineTypeOK
<1>4. [client |-> clients'[a], status |-> "waiting"] \in QrStates
  BY <1>2 DEF QrStates
<1>5. qrLogin' \in [Accounts -> QrStates]
  <2>. DEFINE q == [client |-> clients'[a], status |-> "waiting"]
  <2>1. qrLogin' = qrLogin \/ qrLogin' = [qrLogin EXCEPT ![a] = q]
    BY Connecting
  <2>2. q \in QrStates
    BY <1>4
  <2>. HIDE DEF q
  <2>. QED
    BY <2>1, <2>2 DEF EngineTypeOK
<1>. QED
  BY <1>1, <1>3, <1>5, Connecting DEF EngineTypeOK

LEMMA StrayEffect ==
  ASSUME EngineTypeOK, NEW a \in Accounts, NEW k
  PROVE  /\ Stray(a, k) \in [Accounts -> Nat]
         /\ \A b \in Accounts : b # a => Stray(a, k)[b] = strays[b]
         /\ Stray(a, k)[a] = IF clients[a] \notin {NoClient, k} /\ object[clients[a]].up
                             THEN strays[a] + 1 ELSE strays[a]
BY DEF EngineTypeOK, Stray

\* import_session
LEMMA ImportEffect ==
  ASSUME EngineTypeOK, NEW a \in Accounts, NEW p \in ProxyArgs, NEW yes \in BOOLEAN,
         ImportSession(a, p, yes)
  PROVE  \E k \in Clients :
            /\ Built(a, k)
            /\ object' \in [Clients -> ClientObjects]
            /\ file' \in [Accounts -> Keys \cup {NoKey}]
            /\ object'[k].key = k
            /\ object'[k].up = yes
            /\ phoneLogin' = phoneLogin /\ qrLogin' = qrLogin
            /\ yes => /\ valid' = valid \cup {k}
                      /\ strays' = Stray(a, k)
                      /\ clients' = [clients EXCEPT ![a] = k]
            /\ ~yes => valid' = valid /\ strays' = strays /\ clients' = clients
<1>. DEFINE k == Min(Unbuilt)
            o == [of |-> a, key |-> k, up |-> yes, listens |-> FALSE, proxy |-> p]
<1>1. /\ Unbuilt # {}
      /\ file' = [file EXCEPT ![a] = k]
      /\ object' = [object EXCEPT ![k] = o]
      /\ phoneLogin' = phoneLogin /\ qrLogin' = qrLogin
      /\ yes => /\ valid' = valid \cup {k}
                /\ strays' = Stray(a, k)
                /\ clients' = [clients EXCEPT ![a] = k]
      /\ ~yes => valid' = valid /\ strays' = strays /\ clients' = clients
  BY DEF ImportSession
<1>2. /\ k \in Clients /\ object[k] = NotBuilt /\ k \notin valid /\ k # NoKey
      /\ \A b \in Accounts : k \notin KeysOf(b)
  BY <1>1, Fresh
<1>3. o \in ClientObjects /\ o.of = a /\ o.key = k /\ o.up = yes
  BY <1>2 DEF ClientObjects, ProxyArgs, Keys
<1>. HIDE DEF o, k
<1>4. /\ object \in [Clients -> ClientObjects]
      /\ file \in [Accounts -> Keys \cup {NoKey}]
      /\ clients \in [Accounts -> Clients \cup {NoClient}]
  BY DEF EngineTypeOK
<1>5. object' \in [Clients -> ClientObjects] /\ file' \in [Accounts -> Keys \cup {NoKey}]
  BY <1>1, <1>2, <1>3, <1>4 DEF Keys
<1>6. /\ object'[k] = o /\ file'[a] = k
      /\ \A j \in Clients : j # k => object'[j] = object[j]
      /\ \A b \in Accounts : b # a => file'[b] = file[b]
  BY <1>1, <1>2, <1>4
<1>7. \A b \in Accounts : b # a => clients'[b] = clients[b]
  BY <1>1, <1>4
<1>8. Built(a, k)
  BY <1>2, <1>3, <1>6, <1>7 DEF Built
<1>. QED
  BY <1>1, <1>2, <1>3, <1>5, <1>6, <1>8

LEMMA ImportTypes ==
  ASSUME EngineTypeOK, NEW a \in Accounts, NEW p \in ProxyArgs, NEW yes \in BOOLEAN,
         ImportSession(a, p, yes)
  PROVE  EngineTypeOK'
<1>1. PICK k \in Clients :
            /\ object' \in [Clients -> ClientObjects]
            /\ file' \in [Accounts -> Keys \cup {NoKey}]
            /\ phoneLogin' = phoneLogin /\ qrLogin' = qrLogin
            /\ yes => /\ valid' = valid \cup {k}
                      /\ strays' = Stray(a, k)
                      /\ clients' = [clients EXCEPT ![a] = k]
            /\ ~yes => valid' = valid /\ strays' = strays /\ clients' = clients
  BY ImportEffect
<1>2. Stray(a, k) \in [Accounts -> Nat]
  BY StrayEffect
<1>. QED
  BY <1>1, <1>2 DEF EngineTypeOK, Keys

\* logout
LEMMA LogoutEffect ==
  ASSUME EngineTypeOK, NEW a \in Accounts, NEW yes \in BOOLEAN, Logout(a, yes)
  PROVE  /\ clients' = [clients EXCEPT ![a] = NoClient]
         /\ phoneLogin' = [phoneLogin EXCEPT ![a] = NoClient]
         /\ qrLogin' = [qrLogin EXCEPT ![a] = NoQr]
         /\ file' = [file EXCEPT ![a] = NoKey]
         /\ object' \in [Clients -> ClientObjects]
         /\ \A j \in Clients : /\ object'[j].of = object[j].of
                               /\ object'[j].key = object[j].key
                               /\ object'[j].up => object[j].up
                               /\ j # clients[a] => object'[j] = object[j]
         /\ \/ /\ valid' = valid
               /\ object' = object
               /\ clients[a] = NoClient => strays' = strays
               /\ clients[a] # NoClient => strays' = [strays EXCEPT ![a] = @ + 1]
            \/ /\ clients[a] \in Clients
               /\ valid' = valid \ {object[clients[a]].key}
               /\ strays' = strays
               /\ ~object'[clients[a]].up
<1>. DEFINE k == clients[a]
<1>1. k \in Clients \cup {NoClient} /\ object \in [Clients -> ClientObjects]
  BY DEF EngineTypeOK
<1>2. /\ clients' = [clients EXCEPT ![a] = NoClient]
      /\ phoneLogin' = [phoneLogin EXCEPT ![a] = NoClient]
      /\ qrLogin' = [qrLogin EXCEPT ![a] = NoQr]
      /\ file' = [file EXCEPT ![a] = NoKey]
  BY DEF Logout, Forget
<1>3. CASE yes /\ Authorized(k)
  <2>1. /\ valid' = valid \ {object[k].key}
        /\ object' = [object EXCEPT ![k].up = FALSE, ![k].listens = FALSE]
        /\ strays' = strays
    BY <1>3 DEF Logout
  <2>2. k \in Clients
    BY <1>1, <1>3 DEF Authorized
  <2>3. /\ object' = [object EXCEPT ![k] = [object[k] EXCEPT !.up = FALSE, !.listens = FALSE]]
        /\ object[k] \in ClientObjects
    BY <1>1, <2>1, <2>2
  <2>. DEFINE o == [object[k] EXCEPT !.up = FALSE, !.listens = FALSE]
  <2>4. o \in ClientObjects /\ o.of = object[k].of /\ o.key = object[k].key /\ ~o.up
    BY <2>3 DEF ClientObjects
  <2>5. object' = [object EXCEPT ![k] = o]
    BY <2>3
  <2>. HIDE DEF o
  <2>6. /\ object' \in [Clients -> ClientObjects]
        /\ object'[k] = o
        /\ \A j \in Clients : j # k => object'[j] = object[j]
    BY <1>1, <2>2, <2>4, <2>5
  <2>7. \A j \in Clients : /\ object'[j].of = object[j].of
                           /\ object'[j].key = object[j].key
                           /\ object'[j].up => object[j].up
                           /\ j # k => object'[j] = object[j]
    <3>. SUFFICES ASSUME NEW j \in Clients
                  PROVE  /\ object'[j].of = object[j].of
                         /\ object'[j].key = object[j].key
                         /\ object'[j].up => object[j].up
                         /\ j # k => object'[j] = object[j]
      OBVIOUS
    <3>1. CASE j = k
      BY <2>4, <2>6, <3>1
    <3>2. CASE j # k
      BY <2>6, <3>2
    <3>. QED
      BY <3>1, <3>2
  <2>8. ~object'[k].up
    BY <2>4, <2>6
  <2>. QED
    BY <1>2, <2>1, <2>2, <2>6, <2>7, <2>8
<1>4. CASE ~(yes /\ Authorized(k))
  <2>1. /\ strays' = IF k = NoClient THEN strays ELSE [strays EXCEPT ![a] = @ + 1]
        /\ valid' = valid /\ object' = object
    BY <1>4 DEF Logout
  <2>. QED
    BY <1>1, <1>2, <2>1
<1>. QED
  BY <1>3, <1>4

LEMMA LogoutTypes ==
  ASSUME EngineTypeOK, NEW a \in Accounts, NEW yes \in BOOLEAN, Logout(a, yes)
  PROVE  EngineTypeOK'
<1>1. /\ clients' \in [Accounts -> Clients \cup {NoClient}]
      /\ phoneLogin' \in [Accounts -> Clients \cup {NoClient}]
      /\ object' \in [Clients -> ClientObjects]
      /\ file' \in [Accounts -> Keys \cup {NoKey}]
  BY LogoutEffect DEF EngineTypeOK
<1>2. valid' \in SUBSET Keys
  BY LogoutEffect DEF EngineTypeOK
<1>3. strays' \in [Accounts -> Nat]
  <2>1. strays' = strays \/ strays' = [strays EXCEPT ![a] = @ + 1]
    BY LogoutEffect
  <2>. QED
    BY <2>1 DEF EngineTypeOK
<1>4. NoQr \in QrStates
  BY DEF NoQr, QrStates
<1>5. qrLogin' \in [Accounts -> QrStates]
  BY <1>4, LogoutEffect DEF EngineTypeOK
<1>. QED
  BY <1>1, <1>2, <1>3, <1>5 DEF EngineTypeOK

LEMMA KeyOfUp ==
  ASSUME EngineTypeOK, Owned, NEW k \in Clients, object[k].up
  PROVE  object[k].key \in Keys
BY DEF EngineTypeOK, ClientObjects, Owned

LEMMA PasswordTypes ==
  ASSUME EngineTypeOK, Owned, NEW a \in Accounts, NEW k \in Clients, QrPassword(a, k)
  PROVE  EngineTypeOK'
<1>1. valid' \in SUBSET Keys
  BY KeyOfUp DEF QrPassword, EngineTypeOK
<1>2. qrLogin' \in [Accounts -> QrStates]
  <2>1. qrLogin \in [Accounts -> QrStates] /\ qrLogin[a] \in QrStates
    BY DEF EngineTypeOK
  <2>2. [qrLogin[a] EXCEPT !.status = "authorized"] \in QrStates
    BY <2>1 DEF QrStates
  <2>3. \/ qrLogin' = qrLogin
        \/ qrLogin' = [qrLogin EXCEPT ![a] = [qrLogin[a] EXCEPT !.status = "authorized"]]
    BY <2>1 DEF QrPassword
  <2>. DEFINE q == [qrLogin[a] EXCEPT !.status = "authorized"]
  <2>4. q \in QrStates /\ (qrLogin' = qrLogin \/ qrLogin' = [qrLogin EXCEPT ![a] = q])
    BY <2>2, <2>3
  <2>. HIDE DEF q
  <2>. QED
    BY <2>1, <2>4
<1>. QED
  BY <1>1, <1>2 DEF QrPassword, EngineTypeOK

LEMMA SignInTypes ==
  ASSUME EngineTypeOK, Owned, NEW a \in Accounts, NEW k \in Clients, SignIn(a, k)
  PROVE  EngineTypeOK'
<1>1. valid' \in SUBSET Keys
  BY KeyOfUp DEF SignIn, EngineTypeOK
<1>2. strays' \in [Accounts -> Nat]
  BY StrayEffect DEF SignIn
<1>. QED
  BY <1>1, <1>2 DEF SignIn, EngineTypeOK

LEMMA WatchTypes ==
  ASSUME EngineTypeOK, Owned, NEW a \in Accounts, NEW status, WatchQr(a, status)
  PROVE  EngineTypeOK'
<1>1. /\ qrLogin[a].status = "waiting"
      /\ status \in {"authorized", "password_needed", "expired"}
      /\ status = "authorized" => object[qrLogin[a].client].up
      /\ qrLogin' = [qrLogin EXCEPT ![a].status = status]
      /\ valid' = IF status = "authorized" THEN valid \cup {object[qrLogin[a].client].key} ELSE valid
  BY DEF WatchQr
<1>2. qrLogin[a].client \in Clients
  BY <1>1 DEF Owned, EngineTypeOK, QrStates
<1>3. valid' \in SUBSET Keys
  BY <1>1, <1>2, KeyOfUp DEF EngineTypeOK
<1>4. qrLogin' \in [Accounts -> QrStates]
  <2>1. qrLogin \in [Accounts -> QrStates] /\ qrLogin[a] \in QrStates
    BY DEF EngineTypeOK
  <2>. DEFINE q == [qrLogin[a] EXCEPT !.status = status]
  <2>2. q \in QrStates
    BY <1>1, <2>1 DEF QrStates
  <2>3. qrLogin' = [qrLogin EXCEPT ![a] = q]
    BY <1>1, <2>1
  <2>. HIDE DEF q
  <2>. QED
    BY <2>1, <2>2, <2>3
<1>. QED
  BY <1>3, <1>4 DEF WatchQr, EngineTypeOK

LEMMA RestartTypes ==
  ASSUME EngineTypeOK, EngineRestart
  PROVE  EngineTypeOK'
<1>1. NoQr \in QrStates /\ NotBuilt \in ClientObjects
  BY DEF NoQr, QrStates, NotBuilt, ClientObjects
<1>2. /\ clients' = [a \in Accounts |-> NoClient]
      /\ phoneLogin' = [a \in Accounts |-> NoClient]
      /\ qrLogin' = [a \in Accounts |-> NoQr]
      /\ object' = [k \in Clients |-> NotBuilt]
      /\ strays' = [a \in Accounts |-> 0]
      /\ file' = file /\ valid' = valid
  BY DEF EngineRestart
<1>3. strays' \in [Accounts -> Nat]
  BY <1>2
<1>. QED
  BY <1>1, <1>2, <1>3 DEF EngineTypeOK

LEMMA EngineTypes ==
  ASSUME EngineTypeOK, Owned, EngineStep
  PROVE  EngineTypeOK'
<1>1. CASE UNCHANGED engine
  BY <1>1 DEF engine, EngineTypeOK
<1>2. ASSUME NEW a \in Accounts, NEW p \in ProxyArgs,
             StartClient(a, p) \/ QrStart(a, p) \/ SendCode(a, p)
      PROVE  EngineTypeOK'
  BY <1>2, ConnectingTypes
<1>3. ASSUME NEW a \in Accounts, NEW p \in ProxyArgs, NEW yes \in BOOLEAN, ImportSession(a, p, yes)
      PROVE  EngineTypeOK'
  BY <1>3, ImportTypes
<1>4. ASSUME NEW a \in Accounts, NEW yes \in BOOLEAN, Logout(a, yes)
      PROVE  EngineTypeOK'
  BY <1>4, LogoutTypes
<1>5. ASSUME NEW a \in Accounts, NEW k \in Clients, QrPassword(a, k) \/ SignIn(a, k)
      PROVE  EngineTypeOK'
  BY <1>5, PasswordTypes, SignInTypes
<1>6. ASSUME NEW a \in Accounts, NEW status, WatchQr(a, status)
      PROVE  EngineTypeOK'
  BY <1>6, WatchTypes
<1>7. ASSUME NEW key, Revoke(key)
      PROVE  EngineTypeOK'
  BY <1>7 DEF Revoke, EngineTypeOK
<1>8. CASE EngineRestart
  BY <1>8, RestartTypes
<1>. QED
  BY <1>1, <1>2, <1>3, <1>4, <1>5, <1>6, <1>7, <1>8 DEF EngineStep, EngineOp

-----------------------------------------------------------------------------
(* Who owns what.                                                           *)

\* A client stays its account's as long as the engine runs.
OwnersKept == \A k \in Clients : object[k].of \in Accounts => object'[k].of = object[k].of

LEMMA BuiltOwners ==
  ASSUME EngineTypeOK, NEW a \in Accounts, NEW k, Built(a, k)
  PROVE  OwnersKept /\ \A j \in Clients : object[j].of \in Accounts => j # k
<1>1. object[k].of \notin Accounts
  BY AccountsAssumption DEF Built, NotBuilt
<1>. QED
  BY <1>1 DEF Built, OwnersKept

LEMMA OwnersAreKept ==
  ASSUME EngineTypeOK, EngineOp
  PROVE  OwnersKept
<1>1. ASSUME NEW a \in Accounts, NEW p \in ProxyArgs,
             StartClient(a, p) \/ QrStart(a, p) \/ SendCode(a, p)
      PROVE  OwnersKept
  <2>1. Reused(a) \/ Built(a, clients'[a])
    BY <1>1, Connecting, ConnectEffect
  <2>. QED
    BY <2>1, BuiltOwners DEF Reused, OwnersKept
<1>2. ASSUME NEW a \in Accounts, NEW p \in ProxyArgs, NEW yes \in BOOLEAN, ImportSession(a, p, yes)
      PROVE  OwnersKept
  <2>1. PICK k \in Clients : Built(a, k)
    BY <1>2, ImportEffect
  <2>. QED
    BY <2>1, BuiltOwners
<1>3. ASSUME NEW a \in Accounts, NEW yes \in BOOLEAN, Logout(a, yes)
      PROVE  OwnersKept
  BY <1>3, LogoutEffect DEF OwnersKept
<1>4. ASSUME object' = object PROVE OwnersKept
  BY <1>4 DEF OwnersKept
<1>5. CASE UNCHANGED engine
  BY <1>4, <1>5 DEF engine
<1>6. ASSUME NEW a \in Accounts, NEW k \in Clients, QrPassword(a, k) \/ SignIn(a, k)
      PROVE  OwnersKept
  BY <1>4, <1>6 DEF QrPassword, SignIn
<1>7. ASSUME NEW a \in Accounts, NEW status, WatchQr(a, status)
      PROVE  OwnersKept
  BY <1>4, <1>7 DEF WatchQr
<1>8. ASSUME NEW key, Revoke(key)
      PROVE  OwnersKept
  BY <1>4, <1>8 DEF Revoke
<1>. QED
  BY <1>1, <1>2, <1>3, <1>5, <1>6, <1>7, <1>8 DEF EngineOp

\* Owned, of one account.
OwnedBy(a) ==
    /\ clients[a] # NoClient => object[clients[a]].of = a
    /\ phoneLogin[a] # NoClient => object[phoneLogin[a]].of = a
    /\ qrLogin[a].client # NoClient => object[qrLogin[a].client].of = a
    /\ qrLogin[a].status # "none" => qrLogin[a].client # NoClient
    /\ clients[a] = NoClient => phoneLogin[a] = NoClient /\ qrLogin[a] = NoQr

UpHasKey == \A k \in Clients : object[k].up => object[k].key # NoKey

LEMMA OwnedIs == /\ Owned <=> (\A a \in Accounts : OwnedBy(a)) /\ UpHasKey
                 /\ Owned' <=> (\A a \in Accounts : OwnedBy(a)') /\ UpHasKey'
BY DEF Owned, OwnedBy, UpHasKey

\* An account whose tables stay as they are keeps what they name.
LEMMA OwnedFrame ==
  ASSUME EngineTypeOK, OwnersKept, NEW a \in Accounts, OwnedBy(a),
         clients'[a] = clients[a], phoneLogin'[a] = phoneLogin[a], qrLogin'[a] = qrLogin[a]
  PROVE  OwnedBy(a)'
<1>1. /\ clients[a] \in Clients \cup {NoClient} /\ phoneLogin[a] \in Clients \cup {NoClient}
      /\ qrLogin[a].client \in Clients \cup {NoClient}
  BY DEF EngineTypeOK, QrStates
<1>. QED
  BY <1>1 DEF OwnedBy, OwnersKept

LEMMA ConnectingOwned ==
  ASSUME EngineTypeOK, Owned, NEW a \in Accounts, NEW p \in ProxyArgs,
         StartClient(a, p) \/ QrStart(a, p) \/ SendCode(a, p)
  PROVE  Owned'
<1>1. (\A b \in Accounts : OwnedBy(b)) /\ UpHasKey
  BY OwnedIs
<1>2. Connect(a, p)
  BY Connecting
<1>3. OwnersKept
  <2>1. Reused(a) \/ Built(a, clients'[a])
    BY <1>2, ConnectEffect
  <2>. QED
    BY <2>1, BuiltOwners DEF Reused, OwnersKept
<1>4. clients'[a] # NoClient /\ object'[clients'[a]].of = a
  <2>1. CASE clients[a] # NoClient /\ Reused(a)
    <3>1. clients[a] \in Clients
      BY <2>1 DEF EngineTypeOK
    <3>. QED
      BY <1>1, <2>1, <3>1 DEF Reused, OwnedBy
  <2>2. CASE Built(a, clients'[a])
    BY <1>2, <2>2, ConnectEffect DEF Built
  <2>. QED
    BY <1>2, <2>1, <2>2, ConnectEffect
<1>5. \A b \in Accounts : b # a => clients'[b] = clients[b]
  BY <1>2, ConnectEffect DEF Reused, Built
<1>6. \A b \in Accounts : b # a => phoneLogin'[b] = phoneLogin[b] /\ qrLogin'[b] = qrLogin[b]
  <2>. DEFINE q == [client |-> clients'[a], status |-> "waiting"]
  <2>1. qrLogin' = qrLogin \/ qrLogin' = [qrLogin EXCEPT ![a] = q]
    BY Connecting
  <2>. HIDE DEF q
  <2>. QED
    BY <2>1, Connecting DEF EngineTypeOK
<1>7. phoneLogin'[a] = phoneLogin[a] \/ phoneLogin'[a] = clients'[a]
  BY Connecting DEF EngineTypeOK
<1>8. \/ qrLogin'[a] = qrLogin[a]
      \/ qrLogin'[a].client = clients'[a] /\ qrLogin'[a].status = "waiting"
  <2>. DEFINE q == [client |-> clients'[a], status |-> "waiting"]
  <2>1. qrLogin' = qrLogin \/ qrLogin' = [qrLogin EXCEPT ![a] = q]
    BY Connecting
  <2>2. q.client = clients'[a] /\ q.status = "waiting"
    OBVIOUS
  <2>. HIDE DEF q
  <2>. QED
    BY <2>1, <2>2 DEF EngineTypeOK
<1>9. OwnedBy(a)'
  <2>1. /\ phoneLogin[a] \in Clients \cup {NoClient}
        /\ qrLogin[a].client \in Clients \cup {NoClient}
    BY DEF EngineTypeOK, QrStates
  <2>2. phoneLogin[a] # NoClient => object'[phoneLogin[a]].of = a
    BY <1>1, <1>3, <2>1 DEF OwnedBy, OwnersKept
  <2>3. qrLogin[a].client # NoClient => object'[qrLogin[a].client].of = a
    BY <1>1, <1>3, <2>1 DEF OwnedBy, OwnersKept
  <2>4. phoneLogin'[a] # NoClient => object'[phoneLogin'[a]].of = a
    BY <1>4, <1>7, <2>2
  <2>5. qrLogin'[a].client # NoClient => object'[qrLogin'[a].client].of = a
    BY <1>4, <1>8, <2>3
  <2>6. qrLogin'[a].status # "none" => qrLogin'[a].client # NoClient
    BY <1>1, <1>4, <1>8 DEF OwnedBy
  <2>. QED
    BY <1>4, <2>4, <2>5, <2>6 DEF OwnedBy
<1>10. UpHasKey'
  <2>1. CASE Reused(a)
    BY <1>1, <2>1 DEF Reused, UpHasKey
  <2>2. CASE Built(a, clients'[a])
    BY <1>1, <2>2 DEF Built, UpHasKey
  <2>. QED
    BY <1>2, <2>1, <2>2, ConnectEffect
<1>11. ASSUME NEW b \in Accounts PROVE OwnedBy(b)'
  <2>1. CASE b = a
    BY <1>9, <2>1
  <2>2. CASE b # a
    BY <1>1, <1>3, <1>5, <1>6, <2>2, OwnedFrame
  <2>. QED
    BY <2>1, <2>2
<1>. QED
  BY <1>10, <1>11, OwnedIs

LEMMA ImportOwned ==
  ASSUME EngineTypeOK, Owned, NEW a \in Accounts, NEW p \in ProxyArgs, NEW yes \in BOOLEAN,
         ImportSession(a, p, yes)
  PROVE  Owned'
<1>1. (\A b \in Accounts : OwnedBy(b)) /\ UpHasKey
  BY OwnedIs
<1>2. PICK k \in Clients :
            /\ Built(a, k)
            /\ object'[k].key = k
            /\ phoneLogin' = phoneLogin /\ qrLogin' = qrLogin
            /\ yes => clients' = [clients EXCEPT ![a] = k]
            /\ ~yes => clients' = clients
  BY ImportEffect
<1>3. OwnersKept
  BY <1>2, BuiltOwners
<1>4. UpHasKey'
  BY <1>1, <1>2 DEF Built, UpHasKey
<1>5. object'[k].of = a /\ k # NoClient
  BY <1>2, ClientNumbers DEF Built
<1>6. ASSUME NEW b \in Accounts PROVE OwnedBy(b)'
  <2>1. CASE clients'[b] = clients[b]
    BY <1>1, <1>2, <1>3, <2>1, OwnedFrame
  <2>2. CASE clients'[b] # clients[b]
    <3>1. b = a /\ clients'[a] = k
      BY <1>2, <2>2 DEF EngineTypeOK
    <3>2. /\ phoneLogin[a] \in Clients \cup {NoClient}
          /\ qrLogin[a].client \in Clients \cup {NoClient}
      BY DEF EngineTypeOK, QrStates
    <3>. QED
      BY <1>1, <1>2, <1>3, <1>5, <3>1, <3>2 DEF OwnedBy, OwnersKept
  <2>. QED
    BY <2>1, <2>2
<1>. QED
  BY <1>4, <1>6, OwnedIs

LEMMA LogoutOwned ==
  ASSUME EngineTypeOK, Owned, NEW a \in Accounts, NEW yes \in BOOLEAN, Logout(a, yes)
  PROVE  Owned'
<1>1. (\A b \in Accounts : OwnedBy(b)) /\ UpHasKey
  BY OwnedIs
<1>2. OwnersKept
  BY LogoutEffect DEF OwnersKept
<1>3. /\ clients'[a] = NoClient /\ phoneLogin'[a] = NoClient /\ qrLogin'[a] = NoQr
      /\ \A b \in Accounts : b # a => /\ clients'[b] = clients[b]
                                      /\ phoneLogin'[b] = phoneLogin[b]
                                      /\ qrLogin'[b] = qrLogin[b]
  BY LogoutEffect DEF EngineTypeOK
<1>4. ASSUME NEW b \in Accounts PROVE OwnedBy(b)'
  <2>1. CASE b = a
    BY <1>3, <2>1 DEF OwnedBy, NoQr, NoClient
  <2>2. CASE b # a
    BY <1>1, <1>2, <1>3, <2>2, OwnedFrame
  <2>. QED
    BY <2>1, <2>2
<1>5. UpHasKey'
  BY <1>1, LogoutEffect DEF UpHasKey
<1>. QED
  BY <1>4, <1>5, OwnedIs

LEMMA OwnedKept ==
  ASSUME EngineTypeOK, Owned, EngineStep
  PROVE  Owned'
<1>1. (\A b \in Accounts : OwnedBy(b)) /\ UpHasKey
  BY OwnedIs
<1>2. ASSUME UNCHANGED <<clients, phoneLogin, qrLogin, object>> PROVE Owned'
  BY <1>2 DEF Owned
<1>3. ASSUME NEW a \in Accounts, NEW k \in Clients, object[k].of = a, QrPassword(a, k)
      PROVE  Owned'
  <2>1. /\ clients' = clients /\ phoneLogin' = phoneLogin /\ object' = object
        /\ qrLogin' = IF qrLogin[a].client = k
                      THEN [qrLogin EXCEPT ![a].status = "authorized"] ELSE qrLogin
    BY <1>3 DEF QrPassword
  <2>2. qrLogin \in [Accounts -> QrStates] /\ qrLogin[a] \in QrStates /\ k # NoClient
    BY ClientNumbers DEF EngineTypeOK
  <2>3. \A b \in Accounts : /\ qrLogin'[b].client = qrLogin[b].client
                            /\ \/ qrLogin'[b] = qrLogin[b]
                               \/ qrLogin[b].client = k
    BY <2>1, <2>2 DEF QrStates
  <2>4. ASSUME NEW b \in Accounts PROVE OwnedBy(b)'
    <3>1. clients[b] = NoClient => qrLogin[b].client = NoClient
      BY <1>1 DEF OwnedBy, NoQr
    <3>. QED
      BY <1>1, <2>1, <2>2, <2>3, <3>1 DEF OwnedBy
  <2>5. UpHasKey'
    BY <1>1, <2>1 DEF UpHasKey
  <2>. QED
    BY <2>4, <2>5, OwnedIs
<1>4. ASSUME NEW a \in Accounts, NEW k \in Clients, object[k].of = a, SignIn(a, k)
      PROVE  Owned'
  <2>1. /\ clients' = [clients EXCEPT ![a] = k] /\ phoneLogin' = [phoneLogin EXCEPT ![a] = NoClient]
        /\ object' = object /\ qrLogin' = qrLogin
    BY <1>4 DEF SignIn
  <2>2. ASSUME NEW b \in Accounts PROVE OwnedBy(b)'
    BY <1>1, <1>4, <2>1, ClientNumbers DEF OwnedBy, EngineTypeOK
  <2>3. UpHasKey'
    BY <1>1, <2>1 DEF UpHasKey
  <2>. QED
    BY <2>2, <2>3, OwnedIs
<1>5. ASSUME NEW a \in Accounts, NEW status, WatchQr(a, status)
      PROVE  Owned'
  <2>1. /\ clients' = clients /\ phoneLogin' = phoneLogin /\ object' = object
        /\ qrLogin' = [qrLogin EXCEPT ![a].status = status]
        /\ qrLogin[a].status = "waiting"
    BY <1>5 DEF WatchQr
  <2>2. qrLogin \in [Accounts -> QrStates] /\ qrLogin[a] \in QrStates
    BY DEF EngineTypeOK
  <2>3. \A b \in Accounts : /\ qrLogin'[b].client = qrLogin[b].client
                            /\ qrLogin'[b] = qrLogin[b] \/ qrLogin[b].status = "waiting"
    BY <2>1, <2>2 DEF QrStates
  <2>4. ASSUME NEW b \in Accounts PROVE OwnedBy(b)'
    <3>1. clients[b] = NoClient => qrLogin[b].status = "none"
      BY <1>1 DEF OwnedBy, NoQr
    <3>. QED
      BY <1>1, <2>1, <2>2, <2>3, <3>1 DEF OwnedBy
  <2>5. UpHasKey'
    BY <1>1, <2>1 DEF UpHasKey
  <2>. QED
    BY <2>4, <2>5, OwnedIs
<1>6. CASE EngineRestart
  <2>1. /\ clients' = [a \in Accounts |-> NoClient]
        /\ phoneLogin' = [a \in Accounts |-> NoClient]
        /\ qrLogin' = [a \in Accounts |-> NoQr]
        /\ object' = [k \in Clients |-> NotBuilt]
    BY <1>6 DEF EngineRestart
  <2>. QED
    BY <2>1 DEF Owned, NoQr, NotBuilt
<1>7. CASE UNCHANGED engine
  BY <1>2, <1>7 DEF engine
<1>8. ASSUME NEW key, Revoke(key) PROVE Owned'
  BY <1>2, <1>8 DEF Revoke
<1>. QED
  BY <1>3, <1>4, <1>5, <1>6, <1>7, <1>8, ConnectingOwned, ImportOwned, LogoutOwned
  DEF EngineStep, EngineOp

-----------------------------------------------------------------------------
(* Keys.                                                                    *)

\* An account gets no key but one that no account has had.
LEMMA StayApart ==
  ASSUME KeysApart, NEW a \in Accounts, NEW k,
         \A b \in Accounts : b # a => KeysOf(b)' \subseteq KeysOf(b) \cup {NoKey},
         KeysOf(a)' \subseteq KeysOf(a) \cup {k, NoKey},
         (\A b \in Accounts : k \notin KeysOf(b)) \/ k = NoKey
  PROVE  KeysApart'
<1>. SUFFICES ASSUME NEW b \in Accounts, NEW c \in Accounts, b # c,
                     NEW x \in KeysOf(b)', x \in KeysOf(c)'
              PROVE  x = NoKey
  BY DEF KeysApart
<1>1. KeysOf(b) \cap KeysOf(c) \subseteq {NoKey}
  BY DEF KeysApart
<1>2. CASE b = a
  <2>1. x \in KeysOf(b) \cup {k, NoKey} /\ x \in KeysOf(c) \cup {NoKey}
    BY <1>2
  <2>. QED
    BY <1>1, <2>1
<1>3. CASE c = a
  <2>1. x \in KeysOf(c) \cup {k, NoKey} /\ x \in KeysOf(b) \cup {NoKey}
    BY <1>3
  <2>. QED
    BY <1>1, <2>1
<1>4. CASE b # a /\ c # a
  <2>1. x \in KeysOf(b) \cup {NoKey} /\ x \in KeysOf(c) \cup {NoKey}
    BY <1>4
  <2>. QED
    BY <1>1, <2>1
<1>. QED
  BY <1>2, <1>3, <1>4

\* Clients that keep their owner and key, and files that do or are deleted.
LEMMA KeysShrink ==
  ASSUME KeysApart,
         \A j \in Clients : object'[j].of = object[j].of /\ object'[j].key = object[j].key,
         \A b \in Accounts : file'[b] \in {file[b], NoKey}
  PROVE  KeysApart'
<1>1. ASSUME NEW b \in Accounts PROVE KeysOf(b)' \subseteq KeysOf(b) \cup {NoKey}
  BY InKeys
<1>. SUFFICES ASSUME NEW b \in Accounts, NEW c \in Accounts, b # c,
                     NEW x \in KeysOf(b)', x \in KeysOf(c)'
              PROVE  x = NoKey
  BY DEF KeysApart
<1>2. KeysOf(b) \cap KeysOf(c) \subseteq {NoKey}
  BY DEF KeysApart
<1>. QED
  BY <1>1, <1>2

LEMMA BuiltKeys ==
  ASSUME EngineTypeOK, KeysApart, NEW a \in Accounts, NEW k, Built(a, k)
  PROVE  KeysApart'
<1>1. object[k].of \notin Accounts
  BY AccountsAssumption DEF Built, NotBuilt
<1>2. ASSUME NEW b \in Accounts, b # a PROVE KeysOf(b)' \subseteq KeysOf(b) \cup {NoKey}
  <2>1. ASSUME NEW j \in Clients, object'[j].of = b
        PROVE  object[j].of = b /\ object'[j].key = object[j].key
    BY <1>2, <2>1 DEF Built
  <2>2. file'[b] = file[b]
    BY <1>2 DEF Built
  <2>. QED
    BY <2>1, <2>2, InKeys
<1>3. KeysOf(a)' \subseteq KeysOf(a) \cup {k, NoKey}
  <2>1. ASSUME NEW j \in Clients, object'[j].of = a
        PROVE  object'[j].key \in KeysOf(a) \cup {k}
    <3>1. CASE j = k
      BY <3>1, InKeys DEF Built
    <3>2. CASE j # k
      BY <2>1, <3>2, InKeys DEF Built
    <3>. QED
      BY <3>1, <3>2
  <2>2. file'[a] \in KeysOf(a) \cup {k}
    BY InKeys DEF Built
  <2>. QED
    BY <2>1, <2>2, InKeys
<1>4. \A b \in Accounts : k \notin KeysOf(b)
  BY DEF Built
<1>. QED
  BY <1>2, <1>3, <1>4, StayApart

LEMMA KeysStayApart ==
  ASSUME EngineTypeOK, Owned, KeysApart, EngineStep
  PROVE  KeysApart'
<1>1. ASSUME NEW a \in Accounts, NEW p \in ProxyArgs,
             StartClient(a, p) \/ QrStart(a, p) \/ SendCode(a, p)
      PROVE  KeysApart'
  <2>1. Reused(a) \/ Built(a, clients'[a])
    BY <1>1, Connecting, ConnectEffect
  <2>. QED
    BY <2>1, BuiltKeys, KeysShrink DEF Reused
<1>2. ASSUME NEW a \in Accounts, NEW p \in ProxyArgs, NEW yes \in BOOLEAN, ImportSession(a, p, yes)
      PROVE  KeysApart'
  <2>1. PICK k \in Clients : Built(a, k)
    BY <1>2, ImportEffect
  <2>. QED
    BY <2>1, BuiltKeys
<1>3. ASSUME NEW a \in Accounts, NEW yes \in BOOLEAN, Logout(a, yes)
      PROVE  KeysApart'
  <2>1. \A b \in Accounts : file'[b] \in {file[b], NoKey}
    BY <1>3, LogoutEffect DEF EngineTypeOK
  <2>. QED
    BY <1>3, <2>1, LogoutEffect, KeysShrink
<1>4. ASSUME object' = object, file' = file PROVE KeysApart'
  BY <1>4, KeysShrink
<1>5. CASE UNCHANGED engine
  BY <1>4, <1>5 DEF engine
<1>6. ASSUME NEW a \in Accounts, NEW k \in Clients, QrPassword(a, k) \/ SignIn(a, k)
      PROVE  KeysApart'
  BY <1>4, <1>6 DEF QrPassword, SignIn
<1>7. ASSUME NEW a \in Accounts, NEW status, WatchQr(a, status)
      PROVE  KeysApart'
  BY <1>4, <1>7 DEF WatchQr
<1>8. ASSUME NEW key, Revoke(key)
      PROVE  KeysApart'
  BY <1>4, <1>8 DEF Revoke
<1>9. CASE EngineRestart
  <2>1. file' = file /\ object' = [j \in Clients |-> NotBuilt]
    BY <1>9 DEF EngineRestart
  <2>2. \A j \in Clients : object'[j].of \notin Accounts
    BY <2>1, AccountsAssumption DEF NotBuilt
  <2>3. ASSUME NEW b \in Accounts PROVE KeysOf(b)' \subseteq KeysOf(b)
    BY <2>1, <2>2, InKeys
  <2>. QED
    BY <2>3 DEF KeysApart
<1>. QED
  BY <1>1, <1>2, <1>3, <1>5, <1>6, <1>7, <1>8, <1>9 DEF EngineStep, EngineOp

-----------------------------------------------------------------------------
(* Clients beside the one in the table.                                     *)

LEMMA BesideIs ==
  /\ \A a : Beside(a) \subseteq Clients /\ IsFiniteSet(Beside(a))
  /\ \A a : Beside(a)' \subseteq Clients /\ IsFiniteSet(Beside(a)')
BY ClientNumbers, FS_Subset DEF Beside

LEMMA NoMoreBeside ==
  ASSUME NEW a \in Accounts, EngineTypeOK, BesideAccounted, strays'[a] = strays[a],
         Beside(a)' \subseteq Beside(a)
  PROVE  Cardinality(Beside(a)') <= strays'[a]
<1>1. Cardinality(Beside(a)') <= Cardinality(Beside(a))
  BY BesideIs, FS_Subset
<1>2. Cardinality(Beside(a)) \in Nat /\ Cardinality(Beside(a)') \in Nat /\ strays[a] \in Nat
  BY BesideIs, FS_CardinalityType DEF EngineTypeOK
<1>3. Cardinality(Beside(a)) <= strays[a]
  BY DEF BesideAccounted
<1>. QED
  BY <1>1, <1>2, <1>3

LEMMA OneMoreBeside ==
  ASSUME NEW a \in Accounts, EngineTypeOK, BesideAccounted, strays'[a] = strays[a] + 1, NEW k,
         Beside(a)' \subseteq Beside(a) \cup {k}
  PROVE  Cardinality(Beside(a)') <= strays'[a]
<1>1. /\ IsFiniteSet(Beside(a) \cup {k})
      /\ Cardinality(Beside(a) \cup {k}) = IF k \in Beside(a) THEN Cardinality(Beside(a))
                                           ELSE Cardinality(Beside(a)) + 1
  BY BesideIs, FS_AddElement
<1>2. Cardinality(Beside(a)') <= Cardinality(Beside(a) \cup {k})
  BY <1>1, FS_Subset
<1>3. Cardinality(Beside(a)) \in Nat /\ Cardinality(Beside(a)') \in Nat /\ strays[a] \in Nat
  BY BesideIs, FS_CardinalityType DEF EngineTypeOK
<1>4. Cardinality(Beside(a)) <= strays[a]
  BY DEF BesideAccounted
<1>. QED
  BY <1>1, <1>2, <1>3, <1>4

\* Another client takes the account's place in the table.
LEMMA Replaced ==
  ASSUME EngineTypeOK, BesideAccounted, NEW a \in Accounts, NEW k \in Clients,
         \A j \in Clients : j # k => object'[j] = object[j],
         clients' = [clients EXCEPT ![a] = k],
         strays' = Stray(a, k),
         \A b \in Accounts : b # a => object'[k].of # b
  PROVE  BesideAccounted'
<1>. SUFFICES ASSUME NEW b \in Accounts PROVE Cardinality(Beside(b)') <= strays'[b]
  BY DEF BesideAccounted
<1>1. CASE b # a
  <2>1. clients'[b] = clients[b] /\ strays'[b] = strays[b]
    BY <1>1, StrayEffect DEF EngineTypeOK
  <2>2. Beside(b)' \subseteq Beside(b)
    BY <1>1, <2>1 DEF Beside
  <2>. QED
    BY <2>1, <2>2, NoMoreBeside
<1>2. CASE b = a
  <2>1. clients'[a] = k
    BY DEF EngineTypeOK
  <2>2. CASE clients[a] \notin {NoClient, k} /\ object[clients[a]].up
    <3>1. strays'[a] = strays[a] + 1
      BY <2>2, StrayEffect
    <3>2. Beside(a)' \subseteq Beside(a) \cup {clients[a]}
      BY <2>1 DEF Beside
    <3>. QED
      BY <1>2, <3>1, <3>2, OneMoreBeside
  <2>3. CASE ~(clients[a] \notin {NoClient, k} /\ object[clients[a]].up)
    <3>1. strays'[a] = strays[a]
      BY <2>3, StrayEffect
    <3>2. Beside(a)' \subseteq Beside(a)
      BY <2>1, <2>3, ClientNumbers DEF Beside
    <3>. QED
      BY <1>2, <3>1, <3>2, NoMoreBeside
  <2>. QED
    BY <2>2, <2>3
<1>. QED
  BY <1>1, <1>2

\* Nobody gets a client beside the one in the table.
LEMMA NoneBeside ==
  ASSUME EngineTypeOK, BesideAccounted, strays' = strays,
         \A b \in Accounts : Beside(b)' \subseteq Beside(b)
  PROVE  BesideAccounted'
BY NoMoreBeside DEF BesideAccounted

LEMMA BesideKept ==
  ASSUME EngineTypeOK, Owned, BesideAccounted, EngineStep
  PROVE  BesideAccounted'
<1>1. ASSUME NEW a \in Accounts, NEW p \in ProxyArgs,
             StartClient(a, p) \/ QrStart(a, p) \/ SendCode(a, p)
      PROVE  BesideAccounted'
  <2>1. strays' = strays
    BY <1>1, Connecting
  <2>2. CASE Reused(a)
    BY <2>1, <2>2, NoneBeside DEF Reused, Beside
  <2>3. CASE clients[a] = NoClient /\ Built(a, clients'[a])
    <3>1. ASSUME NEW b \in Accounts PROVE Beside(b)' \subseteq Beside(b)
      <4>1. CASE b = a
        BY <2>3, <4>1, ClientNumbers DEF Built, Beside
      <4>2. CASE b # a
        BY <2>3, <4>2 DEF Built, Beside
      <4>. QED
        BY <4>1, <4>2
    <3>. QED
      BY <2>1, <3>1, NoneBeside
  <2>. QED
    BY <1>1, <2>2, <2>3, Connecting, ConnectEffect
<1>2. ASSUME NEW a \in Accounts, NEW p \in ProxyArgs, NEW yes \in BOOLEAN, ImportSession(a, p, yes)
      PROVE  BesideAccounted'
  <2>1. PICK k \in Clients :
              /\ Built(a, k)
              /\ object'[k].up = yes
              /\ yes => strays' = Stray(a, k) /\ clients' = [clients EXCEPT ![a] = k]
              /\ ~yes => strays' = strays /\ clients' = clients
    BY <1>2, ImportEffect
  <2>2. CASE yes
    BY <2>1, <2>2, Replaced DEF Built
  <2>3. CASE ~yes
    <3>1. ASSUME NEW b \in Accounts PROVE Beside(b)' \subseteq Beside(b)
      BY <2>1, <2>3 DEF Built, Beside
    <3>. QED
      BY <2>1, <2>3, <3>1, NoneBeside
  <2>. QED
    BY <2>2, <2>3
<1>3. ASSUME NEW a \in Accounts, NEW yes \in BOOLEAN, Logout(a, yes)
      PROVE  BesideAccounted'
  <2>. SUFFICES ASSUME NEW b \in Accounts PROVE Cardinality(Beside(b)') <= strays'[b]
    BY DEF BesideAccounted
  <2>1. clients' = [clients EXCEPT ![a] = NoClient]
    BY <1>3, LogoutEffect
  <2>2. CASE b # a
    <3>1. clients'[b] = clients[b]
      BY <2>1, <2>2 DEF EngineTypeOK
    <3>2. strays'[b] = strays[b]
      <4>1. strays' = strays \/ strays' = [strays EXCEPT ![a] = @ + 1]
        BY <1>3, LogoutEffect
      <4>. QED
        BY <2>2, <4>1 DEF EngineTypeOK
    <3>3. Beside(b)' \subseteq Beside(b)
      BY <1>3, <3>1, LogoutEffect DEF Beside
    <3>. QED
      BY <3>2, <3>3, NoMoreBeside
  <2>3. CASE b = a /\ strays' = strays
    <3>1. Beside(a)' \subseteq Beside(a)
      <4>1. clients[a] = NoClient \/ ~object'[clients[a]].up
        <5>1. ASSUME clients[a] # NoClient PROVE strays # [strays EXCEPT ![a] = @ + 1]
          BY DEF EngineTypeOK
        <5>. QED
          BY <1>3, <2>3, <5>1, LogoutEffect
      <4>2. \A j \in Clients : object'[j].of = object[j].of /\ (object'[j].up => object[j].up)
        BY <1>3, LogoutEffect
      <4>. QED
        BY <4>1, <4>2, ClientNumbers DEF Beside
    <3>. QED
      BY <2>3, <3>1, NoMoreBeside
  <2>4. CASE b = a /\ strays' = [strays EXCEPT ![a] = @ + 1]
    <3>1. Beside(a)' \subseteq Beside(a) \cup {clients[a]}
      BY <1>3, LogoutEffect DEF Beside
    <3>2. strays'[a] = strays[a] + 1
      BY <2>4 DEF EngineTypeOK
    <3>. QED
      BY <2>4, <3>1, <3>2, OneMoreBeside
  <2>. QED
    BY <1>3, <2>2, <2>3, <2>4, LogoutEffect
<1>4. ASSUME object' = object, clients' = clients, strays' = strays PROVE BesideAccounted'
  BY <1>4, NoneBeside DEF Beside
<1>5. CASE UNCHANGED engine
  BY <1>4, <1>5 DEF engine
<1>6. ASSUME NEW a \in Accounts, NEW k \in Clients, object[k].of = a, SignIn(a, k)
      PROVE  BesideAccounted'
  <2>1. clients' = [clients EXCEPT ![a] = k] /\ strays' = Stray(a, k) /\ object' = object
    BY <1>6 DEF SignIn
  <2>. QED
    BY <1>6, <2>1, Replaced
<1>7. ASSUME NEW a \in Accounts, NEW k \in Clients, QrPassword(a, k)
      PROVE  BesideAccounted'
  BY <1>4, <1>7 DEF QrPassword
<1>8. ASSUME NEW a \in Accounts, NEW status, WatchQr(a, status)
      PROVE  BesideAccounted'
  BY <1>4, <1>8 DEF WatchQr
<1>9. ASSUME NEW key, Revoke(key)
      PROVE  BesideAccounted'
  BY <1>4, <1>9 DEF Revoke
<1>10. CASE EngineRestart
  <2>1. strays' = [a \in Accounts |-> 0] /\ object' = [j \in Clients |-> NotBuilt]
    BY <1>10 DEF EngineRestart
  <2>2. ASSUME NEW b \in Accounts PROVE Beside(b)' = {}
    BY <2>1 DEF Beside, NotBuilt
  <2>. QED
    BY <2>1, <2>2, FS_EmptySet DEF BesideAccounted
<1>. QED
  BY <1>1, <1>2, <1>3, <1>5, <1>6, <1>7, <1>8, <1>9, <1>10 DEF EngineStep, EngineOp

LEMMA EngineInvInit == EngineInit => EngineInv
<1>. SUFFICES ASSUME EngineInit PROVE EngineInv
  OBVIOUS
<1>1. NoQr \in QrStates /\ NotBuilt \in ClientObjects
  BY DEF NoQr, QrStates, NotBuilt, ClientObjects
<1>2. EngineTypeOK
  BY <1>1 DEF EngineInit, EngineTypeOK
<1>3. Owned
  BY DEF EngineInit, Owned, NoQr, NotBuilt
<1>4. \A j \in Clients : object[j].of \notin Accounts
  BY AccountsAssumption DEF EngineInit, NotBuilt
<1>5. KeysApart
  <2>1. ASSUME NEW a \in Accounts PROVE KeysOf(a) \subseteq {NoKey}
    BY <1>4, InKeys DEF EngineInit
  <2>. QED
    BY <2>1 DEF KeysApart
<1>6. BesideAccounted
  <2>1. ASSUME NEW a \in Accounts PROVE Beside(a) = {} /\ strays[a] = 0
    BY <1>4 DEF Beside, EngineInit
  <2>. QED
    BY <2>1, FS_EmptySet DEF BesideAccounted
<1>. QED
  BY <1>2, <1>3, <1>5, <1>6 DEF EngineInv

LEMMA EngineInvKept ==
  ASSUME EngineInv, EngineStep
  PROVE  EngineInv'
BY EngineTypes, OwnedKept, KeysStayApart, BesideKept DEF EngineInv

-----------------------------------------------------------------------------
(* The requests.                                                            *)

Steps == {"idle", "call", "locked", "release", "pick", "bind", "rebind", "finish", "drop"}

\* What a request holds at a step.
StepOk(step, m) ==
    /\ step # "idle" => m.of \in Accounts /\ m.op # "none"
    /\ step \in {"call", "locked", "finish"} => m.op \notin {"create", "edit"}
    /\ step = "locked" => m.client \in Clients /\ m.op \in {"password", "sign_in"}
    /\ step = "finish" => m.answer # "none"
    /\ step = "drop" => m.op = "delete"
    /\ step = "release" => m.op \in {"edit", "delete"} /\ m.row.proxy \in Proxies
    /\ step = "pick" => m.op \in {"create", "edit"} /\ m.proxy = NoProxy /\ m.held = NoAccount
    /\ step = "bind" => m.op \in {"create", "edit"} /\ m.proxy \in Proxies
    /\ step = "rebind" => m.op = "edit"

TablesOK ==
    /\ account \in [Accounts -> Rows]
    /\ holder \in [Proxies -> Accounts \cup {NoAccount}]

RequestsOK ==
    /\ pc \in [Requests -> Steps]
    /\ mem \in [Requests -> Memory]
    /\ \A r \in Requests : StepOk(pc[r], mem[r])

RestOK ==
    /\ disturbed \in SUBSET Accounts
    /\ raced \in SUBSET Proxies
    /\ doings \in Scenarios
    /\ requests \in 0..MaxRequests
    /\ faults \in 0..MaxFaults

\* The client that a password or a code has been given is the account's.
LockedOwned == \A r \in Requests : pc[r] = "locked" => object[mem[r].client].of = Of(r)

BaseInv ==
    /\ EngineInv
    /\ TablesOK
    /\ RequestsOK
    /\ RestOK
    /\ LockedOwned

\* A request goes to a step, holding what it needs there.
Moves(r, step, m) ==
    /\ To(r, step, m)
    /\ step \in Steps
    /\ m \in Memory
    /\ StepOk(step, m)
    /\ step = "locked" => object[m.client].of = m.of

Moved(r) == \E step, m : Moves(r, step, m)

LEMMA MemoryFields ==
  ASSUME NEW m \in Memory
  PROVE  /\ m.op \in Operations \cup {"none"}
         /\ m.of \in Accounts \cup {NoAccount}
         /\ m.row \in Rows
         /\ m.held \in Accounts \cup {NoAccount}
         /\ m.proxy \in ProxyArgs
         /\ m.client \in Clients \cup {NoClient}
         /\ m.row.proxy \in ProxyArgs
         /\ m.row.session \in BOOLEAN
         /\ m.row.status \in Statuses \cup {"none", "gone"}
BY DEF Memory, Rows, ProxyArgs

LEMMA MemorySet ==
  ASSUME NEW m \in Memory
  PROVE  /\ \A p \in ProxyArgs : [m EXCEPT !.proxy = p] \in Memory
         /\ \A k \in Clients : [m EXCEPT !.client = k] \in Memory
         /\ [m EXCEPT !.held = NoAccount] \in Memory
         /\ \A x \in {"none", "authorized", "limited", "banned", "logged_out"} :
               [m EXCEPT !.answer = x] \in Memory
BY DEF Memory, ProxyArgs

LEMMA ForgottenOk ==
  /\ NoRow \in Rows
  /\ Forgotten \in Memory
  /\ StepOk("idle", Forgotten)
<1>1. NoRow \in Rows
  BY DEF NoRow, Rows
<1>2. Forgotten \in Memory
  BY <1>1 DEF Forgotten, Memory
<1>. QED
  BY <1>1, <1>2 DEF StepOk

LEMMA Closes == ASSUME NEW r, Close(r) PROVE Moves(r, "idle", Forgotten)
BY ForgottenOk DEF Close, Moves, Steps

LEMMA LoadedOk ==
  ASSUME TablesOK, NEW a \in Accounts, NEW op \in Operations
  PROVE  /\ Loaded(a, op) \in Memory
         /\ Loaded(a, op).op = op
         /\ Loaded(a, op).of = a
         /\ Loaded(a, op).row = account[a]
         /\ Loaded(a, op).held = NoAccount
         /\ Loaded(a, op).proxy = NoProxy
         /\ Loaded(a, op).client = NoClient
         /\ Loaded(a, op).answer = "none"
<1>1. account[a] \in Rows
  BY DEF TablesOK
<1>. DEFINE f == Forgotten
<1>2. /\ f \in Memory
      /\ f.held = NoAccount /\ f.proxy = NoProxy /\ f.client = NoClient /\ f.answer = "none"
  BY ForgottenOk DEF Forgotten
<1>3. Loaded(a, op) = [f EXCEPT !.op = op, !.of = a, !.row = account[a]]
  BY DEF Loaded
<1>. HIDE DEF f
<1>. QED
  BY <1>1, <1>2, <1>3 DEF Memory

LEMMA MovesOk ==
  ASSUME RequestsOK, NEW r \in Requests, Moved(r)
  PROVE  RequestsOK'
<1>1. PICK step, m : Moves(r, step, m)
  BY DEF Moved
<1>2. /\ pc' = [pc EXCEPT ![r] = step]
      /\ mem' = [mem EXCEPT ![r] = m]
      /\ step \in Steps /\ m \in Memory /\ StepOk(step, m)
  BY <1>1 DEF Moves, To
<1>3. pc' \in [Requests -> Steps] /\ mem' \in [Requests -> Memory]
  BY <1>2 DEF RequestsOK
<1>4. \A q \in Requests : pc'[q] = (IF q = r THEN step ELSE pc[q]) /\ mem'[q] = (IF q = r THEN m ELSE mem[q])
  BY <1>2 DEF RequestsOK
<1>5. ASSUME NEW q \in Requests PROVE StepOk(pc'[q], mem'[q])
  BY <1>2, <1>4 DEF RequestsOK
<1>6. \A q \in Requests : StepOk(pc[q], mem[q])'
  BY <1>5 DEF StepOk
<1>. QED
  BY <1>3, <1>6 DEF RequestsOK

LEMMA MovesLocked ==
  ASSUME EngineTypeOK, RequestsOK, LockedOwned, OwnersKept, NEW r \in Requests, Moved(r)
  PROVE  LockedOwned'
<1>1. PICK step, m : Moves(r, step, m)
  BY DEF Moved
<1>2. /\ pc' = [pc EXCEPT ![r] = step]
      /\ mem' = [mem EXCEPT ![r] = m]
      /\ StepOk(step, m)
      /\ step = "locked" => object[m.client].of = m.of
  BY <1>1 DEF Moves, To
<1>3. \A q \in Requests : pc'[q] = (IF q = r THEN step ELSE pc[q]) /\ mem'[q] = (IF q = r THEN m ELSE mem[q])
  BY <1>2 DEF RequestsOK
<1>4. \A q \in Requests : StepOk(pc[q], mem[q])
  BY DEF RequestsOK
<1>5. ASSUME NEW q \in Requests, pc'[q] = "locked" PROVE object'[mem'[q].client].of = mem'[q].of
  <2>1. CASE q = r
    BY <1>2, <1>3, <1>5, <2>1 DEF StepOk, OwnersKept
  <2>2. CASE q # r
    BY <1>3, <1>4, <1>5, <2>2 DEF StepOk, OwnersKept, LockedOwned, Of
  <2>. QED
    BY <2>1, <2>2
<1>. QED
  BY <1>5 DEF LockedOwned, Of

-----------------------------------------------------------------------------
(* Each action of a request moves it on.                                    *)

LEMMA AtStep ==
  ASSUME RequestsOK, NEW r \in Requests
  PROVE  mem[r] \in Memory /\ pc[r] \in Steps /\ StepOk(pc[r], mem[r])
BY DEF RequestsOK

LEMMA CreateMoves ==
  ASSUME BaseInv, NEW r \in Requests, NEW a \in Accounts, NEW assign \in BOOLEAN,
         CreateAccount(r, a, assign)
  PROVE  Moved(r) \/ UNCHANGED <<pc, mem>>
<1>. DEFINE l == Loaded(a, "create")
            m == [l EXCEPT !.row.status = "logged_out"]
<1>1. l \in Memory /\ l.op = "create" /\ l.of = a /\ l.held = NoAccount /\ l.proxy = NoProxy
  BY LoadedOk DEF BaseInv, Operations
<1>2. IF assign THEN To(r, "pick", m) ELSE UNCHANGED <<pc, mem>>
  BY DEF CreateAccount
<1>3. l.row \in Rows
  BY <1>1, MemoryFields
<1>4. [l.row EXCEPT !.status = "logged_out"] \in Rows
  BY <1>3 DEF Rows, Statuses
<1>5. m = [l EXCEPT !.row = [l.row EXCEPT !.status = "logged_out"]]
  BY <1>1, <1>3 DEF Memory
<1>. DEFINE row == [l.row EXCEPT !.status = "logged_out"]
<1>6. row \in Rows /\ m = [l EXCEPT !.row = row]
  BY <1>4, <1>5
<1>. HIDE DEF l, row, m
<1>7. m \in Memory /\ m.op = "create" /\ m.of = a /\ m.held = NoAccount /\ m.proxy = NoProxy
  BY <1>1, <1>6 DEF Memory
<1>8. StepOk("pick", m)
  BY <1>7 DEF StepOk
<1>9. CASE assign
  <2>1. Moves(r, "pick", m)
    BY <1>2, <1>7, <1>8, <1>9 DEF Moves, Steps
  <2>. QED
    BY <2>1 DEF Moved
<1>10. CASE ~assign
  BY <1>2, <1>10
<1>. QED
  BY <1>9, <1>10

LEMMA UpdateMoves ==
  ASSUME BaseInv, NEW r \in Requests, NEW a \in Accounts, NEW p \in ProxyArgs,
         UpdateAccount(r, a, p)
  PROVE  Moved(r)
<1>. DEFINE l == Loaded(a, "edit")
            h == IF p = NoProxy THEN NoAccount ELSE holder[p]
            m == [l EXCEPT !.proxy = p, !.held = h]
            step == IF account[a].proxy # NoProxy THEN "release"
                    ELSE IF p = NoProxy THEN "pick" ELSE "bind"
<1>1. /\ l \in Memory /\ l.op = "edit" /\ l.of = a /\ l.row = account[a]
      /\ account[a].proxy \in ProxyArgs
  BY LoadedOk DEF BaseInv, Operations, TablesOK, Rows, ProxyArgs
<1>2. To(r, step, m)
  BY DEF UpdateAccount
<1>3. h \in Accounts \cup {NoAccount} /\ (p = NoProxy => h = NoAccount)
  BY DEF BaseInv, TablesOK, ProxyArgs
<1>. HIDE DEF l, h
<1>4. m \in Memory /\ m.op = "edit" /\ m.of = a /\ m.row = account[a] /\ m.proxy = p /\ m.held = h
  BY <1>1, <1>3 DEF Memory, ProxyArgs
<1>. HIDE DEF m
<1>5. step \in Steps /\ StepOk(step, m)
  BY <1>1, <1>3, <1>4 DEF StepOk, Steps, ProxyArgs
<1>6. step # "locked"
  OBVIOUS
<1>. HIDE DEF step
<1>7. Moves(r, step, m)
  BY <1>2, <1>4, <1>5, <1>6 DEF Moves
<1>. QED
  BY <1>7 DEF Moved

LEMMA BeginMoves ==
  ASSUME BaseInv, NEW r \in Requests, NEW a \in Accounts,
         NEW op \in Operations \ {"create", "edit", "override", "quarantine", "revoke"},
         Begin(r, a, op)
  PROVE  Moves(r, "call", Loaded(a, op))
<1>1. Loaded(a, op) \in Memory /\ Loaded(a, op).op = op /\ Loaded(a, op).of = a
  BY LoadedOk DEF BaseInv
<1>2. StepOk("call", Loaded(a, op))
  BY <1>1 DEF StepOk, Operations
<1>. QED
  BY <1>1, <1>2 DEF Begin, Moves, Steps

LEMMA ReleaseMoves ==
  ASSUME BaseInv, NEW r \in Requests, ReleaseProxy(r)
  PROVE  Moved(r)
<1>. DEFINE m == mem[r]
            n == IF m.proxy = m.row.proxy THEN [m EXCEPT !.held = NoAccount] ELSE m
<1>1. m \in Memory /\ StepOk("release", m)
  BY AtStep DEF BaseInv, ReleaseProxy
<1>2. \/ Close(r)
      \/ m.op = "delete" /\ To(r, "drop", m)
      \/ m.op # "delete" /\ m.proxy # NoProxy /\ To(r, "bind", n)
      \/ m.op # "delete" /\ To(r, "rebind", m)
  BY DEF ReleaseProxy
<1>3. [m EXCEPT !.held = NoAccount] \in Memory
  BY <1>1, MemorySet
<1>4. n \in Memory /\ n.of = m.of /\ n.op = m.op /\ n.proxy = m.proxy
  BY <1>1, <1>3 DEF Memory
<1>. HIDE DEF m, n
<1>5. m.proxy \in ProxyArgs
  BY <1>1, MemoryFields
<1>6. CASE Close(r)
  BY <1>6, Closes DEF Moved
<1>7. CASE m.op = "delete" /\ To(r, "drop", m)
  <2>1. StepOk("drop", m)
    BY <1>1, <1>7 DEF StepOk
  <2>2. Moves(r, "drop", m)
    BY <1>1, <1>7, <2>1 DEF Moves, Steps
  <2>. QED
    BY <2>2 DEF Moved
<1>8. CASE m.op # "delete" /\ m.proxy # NoProxy /\ To(r, "bind", n)
  <2>1. StepOk("bind", n)
    BY <1>1, <1>4, <1>5, <1>8 DEF StepOk, ProxyArgs
  <2>2. Moves(r, "bind", n)
    BY <1>4, <1>8, <2>1 DEF Moves, Steps
  <2>. QED
    BY <2>2 DEF Moved
<1>9. CASE m.op # "delete" /\ To(r, "rebind", m)
  <2>1. StepOk("rebind", m)
    BY <1>1, <1>9 DEF StepOk
  <2>2. Moves(r, "rebind", m)
    BY <1>1, <1>9, <2>1 DEF Moves, Steps
  <2>. QED
    BY <2>2 DEF Moved
<1>. QED
  BY <1>2, <1>6, <1>7, <1>8, <1>9

LEMMA PickMoves ==
  ASSUME BaseInv, NEW r \in Requests, PickProxy(r)
  PROVE  Moved(r)
<1>. DEFINE free == {p \in Proxies : holder[p] = NoAccount}
            m == mem[r]
            n == [m EXCEPT !.proxy = Min(free)]
<1>1. m \in Memory /\ StepOk("pick", m)
  BY AtStep DEF BaseInv, PickProxy
<1>2. IF free = {} THEN Close(r) ELSE To(r, "bind", n)
  BY DEF PickProxy
<1>3. free \in SUBSET Nat
  BY AccountsAssumption
<1>4. ASSUME free # {} PROVE Min(free) \in Proxies
  <2>1. Min(free) \in free
    BY <1>3, <1>4, MinIs
  <2>. QED
    BY <2>1
<1>5. CASE free = {}
  BY <1>2, <1>5, Closes DEF Moved
<1>6. CASE free # {}
  <2>1. To(r, "bind", n) /\ Min(free) \in Proxies
    BY <1>2, <1>4, <1>6
  <2>. HIDE DEF free, m
  <2>2. n \in Memory /\ n.of = m.of /\ n.op = m.op /\ n.proxy \in Proxies
    BY <1>1, <2>1 DEF Memory
  <2>. HIDE DEF n
  <2>3. StepOk("bind", n)
    BY <1>1, <2>2 DEF StepOk
  <2>4. Moves(r, "bind", n)
    BY <2>1, <2>2, <2>3 DEF Moves, Steps
  <2>. QED
    BY <2>4 DEF Moved
<1>. QED
  BY <1>5, <1>6

LEMMA BindMoves ==
  ASSUME BaseInv, NEW r \in Requests, BindProxy(r)
  PROVE  Moved(r)
<1>. DEFINE m == mem[r]
<1>1. m \in Memory /\ StepOk("bind", m)
  BY AtStep DEF BaseInv, BindProxy
<1>2. \/ Close(r)
      \/ m.op = "edit" /\ To(r, "rebind", m)
  BY DEF BindProxy, Rebinds
<1>. HIDE DEF m
<1>3. CASE m.op = "edit" /\ To(r, "rebind", m)
  <2>1. StepOk("rebind", m)
    BY <1>1, <1>3 DEF StepOk
  <2>2. Moves(r, "rebind", m)
    BY <1>1, <1>3, <2>1 DEF Moves, Steps
  <2>. QED
    BY <2>2 DEF Moved
<1>. QED
  BY <1>2, <1>3, Closes DEF Moved

LEMMA AtCall ==
  ASSUME RequestsOK, NEW r \in Requests, pc[r] \in {"call", "locked"}
  PROVE  /\ Of(r) \in Accounts
         /\ mem[r] \in Memory
         /\ mem[r].row.proxy \in ProxyArgs
         /\ mem[r].op \notin {"create", "edit", "none"}
         /\ pc[r] = "locked" => mem[r].client \in Clients
<1>1. mem[r] \in Memory /\ StepOk(pc[r], mem[r])
  BY AtStep
<1>. QED
  BY <1>1, MemoryFields DEF StepOk, Of

LEMMA AnswerMoves ==
  ASSUME RequestsOK, NEW r \in Requests, pc[r] \in {"call", "locked"},
         NEW x \in {"authorized", "limited", "banned", "logged_out"}, Answered(r, x)
  PROVE  Moves(r, "finish", [mem[r] EXCEPT !.answer = x])
<1>. DEFINE m == mem[r]
            n == [m EXCEPT !.answer = x]
<1>1. m \in Memory /\ m.of \in Accounts /\ m.op \notin {"create", "edit", "none"}
  BY AtCall DEF Of
<1>2. To(r, "finish", n)
  BY DEF Answered
<1>3. n \in Memory
  BY <1>1, MemorySet
<1>. HIDE DEF m
<1>4. n.op = m.op /\ n.of = m.of /\ n.answer = x
  BY <1>1 DEF Memory
<1>. HIDE DEF n
<1>5. StepOk("finish", n)
  BY <1>1, <1>4 DEF StepOk
<1>6. Moves(r, "finish", n)
  BY <1>2, <1>3, <1>5 DEF Moves, Steps
<1>. QED
  BY <1>6 DEF n, m

LEMMA ReleasedMoves ==
  ASSUME RequestsOK, NEW r \in Requests, pc[r] = "call", mem[r].op = "delete", Released(r)
  PROVE  Moved(r)
<1>. DEFINE step == IF mem[r].row.proxy = NoProxy THEN "drop" ELSE "release"
<1>1. Of(r) \in Accounts /\ mem[r] \in Memory /\ mem[r].row.proxy \in ProxyArgs
  BY AtCall
<1>2. step \in Steps /\ StepOk(step, mem[r]) /\ step # "locked"
  BY <1>1 DEF StepOk, Steps, ProxyArgs, Of
<1>3. To(r, step, mem[r])
  BY DEF Released
<1>. HIDE DEF step
<1>4. Moves(r, step, mem[r])
  BY <1>1, <1>2, <1>3 DEF Moves
<1>. QED
  BY <1>4 DEF Moved

LEMMA PickedMoves ==
  ASSUME BaseInv, NEW r \in Requests, CallPick(r)
  PROVE  Moved(r)
<1>. DEFINE k == IF mem[r].op = "password" THEN qrLogin[Of(r)].client ELSE PickForSignIn(Of(r))
            m == mem[r]
            n == [m EXCEPT !.client = k]
<1>1. pc[r] = "call" /\ mem[r].op \in {"password", "sign_in"}
  BY DEF CallPick, Calls
<1>2. IF k = NoClient THEN Close(r) ELSE To(r, "locked", n)
  BY DEF CallPick
<1>3. Of(r) \in Accounts /\ m \in Memory
  BY <1>1, AtCall DEF BaseInv
<1>4. ASSUME k # NoClient PROVE k \in Clients /\ object[k].of = Of(r)
  BY <1>3, <1>4 DEF BaseInv, EngineInv, EngineTypeOK, Owned, PickForSignIn, QrStates
<1>5. CASE k = NoClient
  BY <1>2, <1>5, Closes DEF Moved
<1>6. CASE k # NoClient
  <2>1. To(r, "locked", n) /\ k \in Clients /\ object[k].of = m.of /\ m.of \in Accounts
        /\ m.op \in {"password", "sign_in"}
    BY <1>1, <1>2, <1>3, <1>4, <1>6 DEF Of
  <2>2. n \in Memory
    BY <1>3, <2>1, MemorySet
  <2>. HIDE DEF k, m
  <2>3. n.client = k /\ n.of = m.of /\ n.op = m.op
    BY <1>3 DEF Memory
  <2>. HIDE DEF n
  <2>4. StepOk("locked", n)
    BY <2>1, <2>3 DEF StepOk
  <2>5. Moves(r, "locked", n)
    BY <2>1, <2>2, <2>3, <2>4 DEF Moves, Steps
  <2>. QED
    BY <2>5 DEF Moved
<1>. QED
  BY <1>5, <1>6

\* Whatever a request does at the engine.
LEMMA EngineMoves ==
  ASSUME BaseInv, NEW r \in Requests, AtEngine(r)
  PROVE  /\ Moved(r)
         /\ EngineOp
         /\ UNCHANGED <<tables, raced, bounds>>
         /\ disturbed' \in {disturbed, disturbed \cup {Of(r)}}
         /\ pc[r] # "call" => disturbed' = disturbed
<1>. DEFINE Goal == /\ Moved(r)
                    /\ EngineOp
                    /\ UNCHANGED <<tables, raced, bounds>>
                    /\ disturbed' \in {disturbed, disturbed \cup {Of(r)}}
                    /\ pc[r] # "call" => disturbed' = disturbed
<1>0. RequestsOK /\ EngineTypeOK
  BY DEF BaseInv, EngineInv
<1>1. ASSUME pc[r] \in {"call", "locked"}
      PROVE  /\ Of(r) \in Accounts /\ mem[r].row.proxy \in ProxyArgs
             /\ pc[r] = "locked" => mem[r].client \in Clients /\ object[mem[r].client].of = Of(r)
  BY <1>0, <1>1, AtCall DEF BaseInv, LockedOwned
<1>2. ASSUME Close(r) PROVE Moved(r)
  BY <1>2, Closes DEF Moved
<1>3. ASSUME pc[r] \in {"call", "locked"}, NEW x \in {"authorized", "limited", "banned", "logged_out"},
             Answered(r, x)
      PROVE  Moved(r)
  BY <1>0, <1>3, AnswerMoves DEF Moved
<1>4. CASE CallQr(r)
  <2>1. pc[r] = "call" /\ QrStart(Of(r), mem[r].row.proxy) /\ Close(r)
    BY <1>4 DEF CallQr, Calls
  <2>2. EngineOp
    BY <1>1, <2>1 DEF EngineOp
  <2>. QED
    BY <1>2, <1>4, <2>1, <2>2 DEF CallQr, Calls
<1>5. CASE CallPoll(r)
  <2>1. Moved(r)
    BY <1>2, <1>3, <1>5 DEF CallPoll, Calls
  <2>. QED
    BY <1>5, <2>1 DEF CallPoll, Calls, EngineOp
<1>6. CASE CallCode(r)
  <2>1. pc[r] = "call" /\ SendCode(Of(r), mem[r].row.proxy) /\ Close(r)
    BY <1>6 DEF CallCode, Calls
  <2>2. EngineOp
    BY <1>1, <2>1 DEF EngineOp
  <2>. QED
    BY <1>2, <1>6, <2>1, <2>2 DEF CallCode, Calls
<1>7. CASE CallPick(r)
  <2>1. Moved(r)
    BY <1>7, PickedMoves
  <2>. QED
    BY <1>7, <2>1 DEF CallPick, Calls, EngineOp
<1>8. CASE SubmitPassword(r)
  <2>1. pc[r] = "locked" /\ QrPassword(Of(r), mem[r].client) /\ Answered(r, "authorized")
    BY <1>8 DEF SubmitPassword
  <2>2. EngineOp
    BY <1>1, <2>1 DEF EngineOp
  <2>. QED
    BY <1>3, <1>8, <2>1, <2>2 DEF SubmitPassword, observed
<1>9. CASE SubmitCode(r)
  <2>1. pc[r] = "locked" /\ SignIn(Of(r), mem[r].client) /\ Answered(r, "authorized")
    BY <1>9 DEF SubmitCode
  <2>2. EngineOp
    BY <1>1, <2>1 DEF EngineOp
  <2>. QED
    BY <1>3, <1>9, <2>1, <2>2 DEF SubmitCode, observed
<1>10. CASE Rejected(r)
  BY <1>2, <1>10 DEF Rejected, observed, EngineOp
<1>11. CASE CallReconnect(r)
  <2>1. pc[r] = "call" /\ StartClient(Of(r), mem[r].row.proxy) /\ Close(r)
    BY <1>11 DEF CallReconnect, Calls
  <2>2. EngineOp
    BY <1>1, <2>1 DEF EngineOp
  <2>. QED
    BY <1>2, <1>11, <2>1, <2>2 DEF CallReconnect, Calls
<1>12. CASE Rebind(r)
  <2>1. pc[r] = "rebind" /\ StartClient(Of(r), mem[r].proxy) /\ Close(r)
    BY <1>12 DEF Rebind
  <2>2. Of(r) \in Accounts /\ mem[r].proxy \in ProxyArgs
    BY <1>0, <2>1, AtStep, MemoryFields DEF StepOk, Of
  <2>3. EngineOp
    BY <2>1, <2>2 DEF EngineOp
  <2>. QED
    BY <1>2, <1>12, <2>1, <2>3 DEF Rebind, observed
<1>13. CASE Unreachable(r)
  <2>1. Moved(r)
    BY <1>0, <1>2, <1>13, ReleasedMoves DEF Unreachable
  <2>. QED
    BY <1>13, <2>1 DEF Unreachable, observed, EngineOp
<1>14. ASSUME NEW yes \in BOOLEAN, CallImport(r, yes) PROVE Goal
  <2>1. pc[r] = "call" /\ ImportSession(Of(r), mem[r].row.proxy, yes)
        /\ (Answered(r, "authorized") \/ Close(r))
    BY <1>14 DEF CallImport, Calls
  <2>2. EngineOp
    BY <1>1, <2>1 DEF EngineOp
  <2>3. Moved(r)
    BY <1>2, <1>3, <2>1
  <2>4. disturbed' = disturbed \/ disturbed' = disturbed \cup {Of(r)}
    BY <1>14 DEF CallImport, Doubt
  <2>. QED
    BY <1>14, <2>1, <2>2, <2>3, <2>4 DEF CallImport, Calls
<1>15. ASSUME NEW yes \in BOOLEAN, CallLogout(r, yes) PROVE Goal
  <2>1. pc[r] = "call" /\ Logout(Of(r), yes)
        /\ IF mem[r].op = "delete" THEN Released(r) ELSE Answered(r, "logged_out")
    BY <1>15 DEF CallLogout, Calls
  <2>2. EngineOp
    BY <1>1, <2>1 DEF EngineOp
  <2>3. Moved(r)
    BY <1>0, <1>3, <2>1, ReleasedMoves
  <2>. QED
    BY <1>15, <2>2, <2>3 DEF CallLogout, Calls
<1>16. ASSUME NEW verdict \in {"clean", "limited", "banned", "logged_out"}, CallCheck(r, verdict)
       PROVE  Goal
  <2>1. pc[r] = "call" /\ StartClient(Of(r), mem[r].row.proxy)
        /\ IF verdict = "clean" THEN Close(r) ELSE Answered(r, verdict)
    BY <1>16 DEF CallCheck, Calls
  <2>2. EngineOp
    BY <1>1, <2>1 DEF EngineOp
  <2>3. Moved(r)
    BY <1>2, <1>3, <2>1
  <2>. QED
    BY <1>16, <2>2, <2>3 DEF CallCheck, Calls
<1>17. CASE \E yes \in BOOLEAN : CallImport(r, yes) \/ CallLogout(r, yes)
  <2>1. Goal
    <3>. HIDE DEF Goal
    <3>. QED
      BY <1>14, <1>15, <1>17
  <2>. QED
    BY <2>1
<1>18. CASE \E verdict \in {"clean", "limited", "banned", "logged_out"} : CallCheck(r, verdict)
  <2>1. Goal
    <3>. HIDE DEF Goal
    <3>. QED
      BY <1>16, <1>18
  <2>. QED
    BY <2>1
<1>. QED
  BY <1>4, <1>5, <1>6, <1>7, <1>8, <1>9, <1>10, <1>11, <1>12, <1>13, <1>17, <1>18
  DEF AtEngine

-----------------------------------------------------------------------------
(* The tables.                                                              *)

\* A row written, field by field.
RowIs(a, status, session, proxy) ==
    /\ account' \in [Accounts -> Rows]
    /\ \A b \in Accounts : b # a => account'[b] = account[b]
    /\ account'[a].status = status
    /\ account'[a].session = session
    /\ account'[a].proxy = proxy

LEMMA RowWritten ==
  ASSUME TablesOK, NEW a \in Accounts, NEW x \in Rows, account' = [account EXCEPT ![a] = x]
  PROVE  RowIs(a, x.status, x.session, x.proxy)
BY DEF TablesOK, RowIs

LEMMA StatusWritten ==
  ASSUME TablesOK, NEW a \in Accounts, NEW s \in Statuses,
         account' = [account EXCEPT ![a].status = s]
  PROVE  RowIs(a, s, account[a].session, account[a].proxy)
<1>. DEFINE x == account[a]
            y == [x EXCEPT !.status = s]
<1>1. x \in Rows
  BY DEF TablesOK
<1>2. y \in Rows /\ y.status = s /\ y.session = x.session /\ y.proxy = x.proxy
  BY <1>1 DEF Rows
<1>3. account' = [account EXCEPT ![a] = y]
  BY DEF TablesOK
<1>. HIDE DEF y, x
<1>4. RowIs(a, y.status, y.session, y.proxy)
  BY <1>2, <1>3, RowWritten
<1>. QED
  BY <1>2, <1>4 DEF x

LEMMA ProxyWritten ==
  ASSUME TablesOK, NEW a \in Accounts, NEW p \in ProxyArgs,
         account' = [account EXCEPT ![a].proxy = p]
  PROVE  RowIs(a, account[a].status, account[a].session, p)
<1>. DEFINE x == account[a]
            y == [x EXCEPT !.proxy = p]
<1>1. x \in Rows
  BY DEF TablesOK
<1>2. y \in Rows /\ y.status = x.status /\ y.session = x.session /\ y.proxy = p
  BY <1>1 DEF Rows, ProxyArgs
<1>3. account' = [account EXCEPT ![a] = y]
  BY DEF TablesOK
<1>. HIDE DEF y, x
<1>4. RowIs(a, y.status, y.session, y.proxy)
  BY <1>2, <1>3, RowWritten
<1>. QED
  BY <1>2, <1>4 DEF x

LEMMA RowTables ==
  ASSUME TablesOK, NEW a, NEW s, NEW y, NEW p, RowIs(a, s, y, p), holder' = holder
  PROVE  TablesOK'
BY DEF TablesOK, RowIs

\* The commit of release_proxy.
ReleaseEffect(r) ==
    LET m == mem[r] IN
    IF ~Exists(m.of) THEN UNCHANGED <<tables, raced>> /\ Close(r)
    ELSE /\ RowIs(m.of, account[m.of].status, account[m.of].session, NoProxy)
         /\ holder' \in [Proxies -> Accounts \cup {NoAccount}]
         /\ \A p \in Proxies : holder'[p] = IF p = m.row.proxy THEN NoAccount ELSE holder[p]
         /\ raced' \in SUBSET Proxies
         /\ raced \subseteq raced'
         /\ account[m.of].proxy # m.row.proxy \/ holder[m.row.proxy] # m.of =>
               ({m.row.proxy, account[m.of].proxy} \ {NoProxy}) \subseteq raced'

LEMMA ReleaseEffects ==
  ASSUME BaseInv, NEW r \in Requests, ReleaseProxy(r)
  PROVE  /\ ReleaseEffect(r)
         /\ pc[r] = "release"
         /\ TablesOK'
         /\ UNCHANGED <<engine, disturbed, bounds>>
<1>. DEFINE m == mem[r]
            stale == account[m.of].proxy # m.row.proxy \/ holder[m.row.proxy] # m.of
            more == {m.row.proxy, account[m.of].proxy} \ {NoProxy}
<1>1. TablesOK /\ raced \in SUBSET Proxies
  BY DEF BaseInv, RestOK
<1>2. m \in Memory /\ StepOk("release", m)
  BY AtStep DEF BaseInv, ReleaseProxy
<1>3. m.of \in Accounts /\ m.row.proxy \in Proxies
  BY <1>2 DEF StepOk
<1>4. pc[r] = "release" /\ UNCHANGED <<engine, disturbed, bounds>>
  BY DEF ReleaseProxy
<1>5. CASE ~Exists(m.of)
  <2>1. Close(r) /\ UNCHANGED <<tables, raced>>
    BY <1>5 DEF ReleaseProxy
  <2>2. TablesOK'
    BY <1>1, <2>1 DEF TablesOK, tables
  <2>. QED
    BY <1>4, <1>5, <2>1, <2>2 DEF ReleaseEffect
<1>6. CASE Exists(m.of)
  <2>1. /\ holder' = [holder EXCEPT ![m.row.proxy] = NoAccount]
        /\ account' = [account EXCEPT ![m.of].proxy = NoProxy]
        /\ raced' = IF stale THEN raced \cup more ELSE raced
    BY <1>6 DEF ReleaseProxy, Release
  <2>2. account[m.of].proxy \in ProxyArgs
    BY <1>1, <1>3 DEF TablesOK, Rows, ProxyArgs
  <2>3. RowIs(m.of, account[m.of].status, account[m.of].session, NoProxy)
    BY <1>1, <1>3, <2>1, ProxyWritten DEF ProxyArgs
  <2>4. /\ holder' \in [Proxies -> Accounts \cup {NoAccount}]
        /\ \A p \in Proxies : holder'[p] = IF p = m.row.proxy THEN NoAccount ELSE holder[p]
    BY <1>1, <1>3, <2>1 DEF TablesOK
  <2>5. raced' \in SUBSET Proxies /\ raced \subseteq raced' /\ (stale => more \subseteq raced')
    BY <1>1, <1>3, <2>1, <2>2 DEF ProxyArgs
  <2>6. TablesOK'
    BY <2>3, <2>4 DEF TablesOK, RowIs
  <2>7. ReleaseEffect(r)
    BY <1>6, <2>3, <2>4, <2>5 DEF ReleaseEffect
  <2>. QED
    BY <1>4, <2>6, <2>7
<1>. QED
  BY <1>5, <1>6

\* The commit that binds a proxy.
BindEffect(r) ==
    LET m == mem[r] IN
    IF ~Exists(m.of) THEN UNCHANGED <<tables, raced>> /\ Close(r)
    ELSE /\ RowIs(m.of, account[m.of].status, account[m.of].session, m.proxy)
         /\ holder' \in [Proxies -> Accounts \cup {NoAccount}]
         /\ \A p \in Proxies : p # m.proxy => holder'[p] = holder[p]
         /\ m.held = NoAccount => holder'[m.proxy] = m.of
         /\ raced' \in SUBSET Proxies
         /\ raced \subseteq raced'
         /\ account[m.of].proxy # NoProxy \/ holder[m.proxy] # NoAccount =>
               ({m.proxy, account[m.of].proxy} \ {NoProxy}) \subseteq raced'

LEMMA BindEffects ==
  ASSUME BaseInv, NEW r \in Requests, BindProxy(r)
  PROVE  /\ BindEffect(r)
         /\ pc[r] = "bind"
         /\ TablesOK'
         /\ UNCHANGED <<engine, disturbed, bounds>>
<1>. DEFINE m == mem[r]
            stale == account[m.of].proxy # NoProxy \/ holder[m.proxy] # NoAccount
            more == {m.proxy, account[m.of].proxy} \ {NoProxy}
<1>1. TablesOK /\ raced \in SUBSET Proxies
  BY DEF BaseInv, RestOK
<1>2. m \in Memory /\ StepOk("bind", m)
  BY AtStep DEF BaseInv, BindProxy
<1>3. m.of \in Accounts /\ m.proxy \in Proxies /\ NoAccount \notin Accounts
  BY <1>2, AccountsAssumption DEF StepOk
<1>4. pc[r] = "bind" /\ UNCHANGED <<engine, disturbed, bounds>>
  BY DEF BindProxy
<1>5. CASE ~Exists(m.of)
  <2>1. Close(r) /\ UNCHANGED <<tables, raced>>
    BY <1>5 DEF BindProxy
  <2>2. TablesOK'
    BY <1>1, <2>1 DEF TablesOK, tables
  <2>. QED
    BY <1>4, <1>5, <2>1, <2>2 DEF BindEffect
<1>6. CASE Exists(m.of)
  <2>. DEFINE h == Written(m.of, m.held, holder[m.proxy])
  <2>1. /\ holder' = [holder EXCEPT ![m.proxy] = h]
        /\ account' = [account EXCEPT ![m.of].proxy = m.proxy]
        /\ raced' = IF stale THEN raced \cup more ELSE raced
    BY <1>6 DEF BindProxy
  <2>2. account[m.of].proxy \in ProxyArgs
    BY <1>1, <1>3 DEF TablesOK, Rows, ProxyArgs
  <2>3. RowIs(m.of, account[m.of].status, account[m.of].session, m.proxy)
    BY <1>1, <1>3, <2>1, ProxyWritten DEF ProxyArgs
  <2>4. h \in Accounts \cup {NoAccount} /\ (m.held = NoAccount => h = m.of)
    BY <1>1, <1>3 DEF Written, TablesOK
  <2>. HIDE DEF h
  <2>5. /\ holder' \in [Proxies -> Accounts \cup {NoAccount}]
        /\ \A p \in Proxies : p # m.proxy => holder'[p] = holder[p]
        /\ holder'[m.proxy] = h
    BY <1>1, <1>3, <2>1, <2>4 DEF TablesOK
  <2>6. raced' \in SUBSET Proxies /\ raced \subseteq raced' /\ (stale => more \subseteq raced')
    BY <1>1, <1>3, <2>1, <2>2 DEF ProxyArgs
  <2>7. TablesOK'
    BY <2>3, <2>5 DEF TablesOK, RowIs
  <2>8. BindEffect(r)
    BY <1>6, <2>3, <2>4, <2>5, <2>6 DEF BindEffect
  <2>. QED
    BY <1>4, <2>7, <2>8
<1>. QED
  BY <1>5, <1>6

\* What an answer means: mark_logged_in, mark_logged_out, set_status.
FinishEffect(r) ==
    LET m == mem[r]
        now == account[m.of]
    IN  /\ ~Exists(m.of) => account' = account
        /\ Exists(m.of) /\ m.answer = "authorized" =>
              RowIs(m.of, Written("active", m.row.status, now.status),
                    Written(TRUE, m.row.session, now.session), now.proxy)
        /\ Exists(m.of) /\ m.answer = "logged_out" =>
              RowIs(m.of, Written("logged_out", m.row.status, now.status),
                    Written(FALSE, m.row.session, now.session), now.proxy)
        /\ Exists(m.of) /\ m.answer \notin {"authorized", "logged_out"} =>
              \E s \in {"quarantined", "banned", now.status} :
                  RowIs(m.of, s, now.session, now.proxy)
        /\ disturbed' \subseteq disturbed
        /\ \A b \in disturbed \ disturbed' :
              /\ b = m.of
              /\ m.answer = "logged_out"
              /\ Pending(b) = {r}
              /\ ~account'[b].session
              /\ clients[b] = NoClient /\ file[b] = NoKey

LEMMA FinishEffects ==
  ASSUME BaseInv, NEW r \in Requests, Finish(r)
  PROVE  /\ FinishEffect(r)
         /\ pc[r] = "finish"
         /\ TablesOK'
         /\ Close(r)
         /\ UNCHANGED <<engine, holder, raced, bounds>>
<1>. DEFINE m == mem[r]
            now == account[m.of]
<1>1. TablesOK
  BY DEF BaseInv
<1>2. m \in Memory /\ StepOk("finish", m)
  BY AtStep DEF BaseInv, Finish
<1>3. m.of \in Accounts /\ m.row \in Rows /\ now \in Rows
  BY <1>1, <1>2, MemoryFields DEF StepOk, TablesOK
<1>4. /\ pc[r] = "finish" /\ Close(r) /\ UNCHANGED <<engine, holder, raced, bounds>>
      /\ disturbed' = IF /\ m.answer = "logged_out"
                         /\ Pending(m.of) = {r}
                         /\ ~account'[m.of].session
                         /\ clients[m.of] = NoClient /\ file[m.of] = NoKey
                      THEN disturbed \ {m.of} ELSE disturbed
  BY DEF Finish
<1>5. /\ disturbed' \subseteq disturbed
      /\ \A b \in disturbed \ disturbed' :
            /\ b = m.of
            /\ m.answer = "logged_out"
            /\ Pending(b) = {r}
            /\ ~account'[b].session
            /\ clients[b] = NoClient /\ file[b] = NoKey
  BY <1>4
<1>6. CASE ~Exists(m.of)
  <2>1. account' = account
    BY <1>6 DEF Finish
  <2>2. TablesOK'
    BY <1>1, <1>4, <2>1 DEF TablesOK
  <2>. QED
    BY <1>4, <1>5, <1>6, <2>1, <2>2 DEF FinishEffect
<1>7. CASE Exists(m.of)
  <2>1. account' = [account EXCEPT ![m.of] =
                       CASE m.answer = "authorized" -> AfterLogin(m)
                         [] m.answer = "logged_out" -> AfterLogout(m)
                         [] OTHER -> AfterCheck(m)]
    BY <1>7 DEF Finish
  <2>2. now.status \in Statuses /\ now.session \in BOOLEAN
    BY <1>3, <1>7 DEF Rows, Exists
  <2>3. CASE m.answer = "authorized"
    <3>. DEFINE s == Written("active", m.row.status, now.status)
                y == Written(TRUE, m.row.session, now.session)
                x == [now EXCEPT !.status = s, !.session = y]
    <3>1. s \in Statuses /\ y \in BOOLEAN
      BY <2>2 DEF Written, Statuses
    <3>2. AfterLogin(m) = x
      BY DEF AfterLogin
    <3>. HIDE DEF s, y, now
    <3>3. x \in Rows /\ x.status = s /\ x.session = y /\ x.proxy = now.proxy
      BY <1>3, <3>1 DEF Rows
    <3>4. account' = [account EXCEPT ![m.of] = AfterLogin(m)]
      BY <2>1, <2>3
    <3>5. account' = [account EXCEPT ![m.of] = x]
      BY <3>2, <3>4
    <3>. HIDE DEF x
    <3>6. RowIs(m.of, x.status, x.session, x.proxy)
      BY <1>1, <1>3, <3>3, <3>5, RowWritten
    <3>7. RowIs(m.of, s, y, now.proxy) /\ TablesOK'
      BY <1>1, <1>4, <3>3, <3>6, RowTables
    <3>. QED
      BY <1>4, <1>5, <1>7, <2>3, <3>7 DEF FinishEffect, s, y, now
  <2>4. CASE m.answer = "logged_out"
    <3>. DEFINE s == Written("logged_out", m.row.status, now.status)
                y == Written(FALSE, m.row.session, now.session)
                x == [now EXCEPT !.status = s, !.session = y]
    <3>1. s \in Statuses /\ y \in BOOLEAN
      BY <2>2 DEF Written, Statuses
    <3>2. AfterLogout(m) = x
      BY DEF AfterLogout
    <3>. HIDE DEF s, y, now
    <3>3. x \in Rows /\ x.status = s /\ x.session = y /\ x.proxy = now.proxy
      BY <1>3, <3>1 DEF Rows
    <3>4. account' = [account EXCEPT ![m.of] = AfterLogout(m)]
      BY <2>1, <2>4
    <3>5. account' = [account EXCEPT ![m.of] = x]
      BY <3>2, <3>4
    <3>. HIDE DEF x
    <3>6. RowIs(m.of, x.status, x.session, x.proxy)
      BY <1>1, <1>3, <3>3, <3>5, RowWritten
    <3>7. RowIs(m.of, s, y, now.proxy) /\ TablesOK'
      BY <1>1, <1>4, <3>3, <3>6, RowTables
    <3>. QED
      BY <1>4, <1>5, <1>7, <2>4, <3>7 DEF FinishEffect, s, y, now
  <2>5. CASE m.answer \notin {"authorized", "logged_out"}
    <3>. DEFINE s == IF m.answer = "limited" THEN "quarantined"
                     ELSE Written("banned", m.row.status, now.status)
                x == [now EXCEPT !.status = s]
    <3>1. s \in Statuses /\ s \in {"quarantined", "banned", now.status}
      BY <2>2 DEF Written, Statuses
    <3>2. AfterCheck(m) = x
      BY DEF AfterCheck
    <3>. HIDE DEF s, now
    <3>3. x \in Rows /\ x.status = s /\ x.session = now.session /\ x.proxy = now.proxy
      BY <1>3, <3>1 DEF Rows
    <3>4. account' = [account EXCEPT ![m.of] = AfterCheck(m)]
      BY <2>1, <2>5
    <3>5. account' = [account EXCEPT ![m.of] = x]
      BY <3>2, <3>4
    <3>. HIDE DEF x
    <3>6. RowIs(m.of, x.status, x.session, x.proxy)
      BY <1>1, <1>3, <3>3, <3>5, RowWritten
    <3>7. RowIs(m.of, s, now.session, now.proxy) /\ TablesOK'
      BY <1>1, <1>4, <3>3, <3>6, RowTables
    <3>. QED
      BY <1>4, <1>5, <1>7, <2>5, <3>1, <3>7 DEF FinishEffect, now
  <2>. QED
    BY <2>3, <2>4, <2>5
<1>. QED
  BY <1>6, <1>7

\* The last commit of delete_account.
LEMMA DropEffects ==
  ASSUME BaseInv, NEW r \in Requests, DropAccount(r)
  PROVE  /\ Of(r) \in Accounts
         /\ RowIs(Of(r), "gone", FALSE, NoProxy)
         /\ raced' = raced \cup ({account[Of(r)].proxy} \ {NoProxy})
         /\ raced' \in SUBSET Proxies
         /\ TablesOK'
         /\ pc[r] = "drop"
         /\ Close(r)
         /\ UNCHANGED <<engine, holder, disturbed, bounds>>
<1>. DEFINE x == [NoRow EXCEPT !.status = "gone"]
<1>1. TablesOK /\ raced \in SUBSET Proxies
  BY DEF BaseInv, RestOK
<1>2. /\ pc[r] = "drop" /\ Close(r) /\ UNCHANGED <<engine, holder, disturbed, bounds>>
      /\ account' = [account EXCEPT ![Of(r)] = x]
      /\ raced' = raced \cup ({account[Of(r)].proxy} \ {NoProxy})
  BY DEF DropAccount
<1>3. Of(r) \in Accounts
  BY <1>2, AtStep DEF BaseInv, StepOk, Of
<1>4. x \in Rows /\ x.status = "gone" /\ x.session = FALSE /\ x.proxy = NoProxy
  BY DEF NoRow, Rows
<1>. HIDE DEF x
<1>5. RowIs(Of(r), x.status, x.session, x.proxy)
  BY <1>1, <1>2, <1>3, <1>4, RowWritten
<1>6. RowIs(Of(r), "gone", FALSE, NoProxy)
  BY <1>4, <1>5
<1>7. TablesOK'
  BY <1>1, <1>2, <1>6, RowTables
<1>8. account[Of(r)].proxy \in ProxyArgs
  BY <1>1, <1>3 DEF TablesOK, Rows, ProxyArgs
<1>9. raced' \in SUBSET Proxies
  BY <1>1, <1>2, <1>8 DEF ProxyArgs
<1>. QED
  BY <1>2, <1>3, <1>6, <1>7, <1>9

-----------------------------------------------------------------------------
(* The invariant BaseInv.                                                   *)

LEMMA BaseInvInit == Init => BaseInv
<1>. SUFFICES ASSUME Init PROVE BaseInv
  OBVIOUS
<1>1. EngineInv
  BY EngineInvInit DEF Init
<1>2. TablesOK
  BY ForgottenOk DEF Init, TablesOK
<1>3. RequestsOK
  <2>1. \A r \in Requests : pc[r] = "idle" /\ mem[r] = Forgotten
    BY DEF Init
  <2>2. \A r \in Requests : StepOk(pc[r], mem[r])
    BY <2>1, ForgottenOk
  <2>. QED
    BY <2>2, ForgottenOk DEF Init, RequestsOK, Steps
<1>4. RestOK
  BY AccountsAssumption DEF Init, RestOK
<1>5. LockedOwned
  BY DEF Init, LockedOwned
<1>. QED
  BY <1>1, <1>2, <1>3, <1>4, <1>5 DEF BaseInv

\* A request that moves, with whatever it does to the engine and the tables.
LEMMA MovedBase ==
  ASSUME BaseInv, NEW r \in Requests, Moved(r), EngineOp,
         TablesOK', RestOK'
  PROVE  BaseInv'
<1>1. EngineInv'
  BY EngineInvKept DEF BaseInv, EngineStep
<1>2. OwnersKept
  BY OwnersAreKept DEF BaseInv, EngineInv
<1>3. RequestsOK' /\ LockedOwned'
  BY <1>2, MovesOk, MovesLocked DEF BaseInv, EngineInv
<1>. QED
  BY <1>1, <1>3 DEF BaseInv

LEMMA NothingAtEngine == ASSUME UNCHANGED engine PROVE EngineOp
BY DEF EngineOp

LEMMA StartRest ==
  ASSUME RestOK, NEW r, NEW a, NEW op, Start(r, a, op)
  PROVE  requests' \in 0..MaxRequests /\ doings' = doings /\ faults' = faults
BY AccountsAssumption DEF Start, RestOK

LEMMA CreateTables ==
  ASSUME BaseInv, NEW r \in Requests, NEW a \in Accounts, NEW assign \in BOOLEAN,
         CreateAccount(r, a, assign)
  PROVE  /\ TablesOK' /\ RestOK'
         /\ account[a].status = "none"
         /\ RowIs(a, "logged_out", account[a].session, account[a].proxy)
         /\ UNCHANGED <<engine, holder, observed>>
<1>1. /\ account' = [account EXCEPT ![a].status = "logged_out"]
      /\ account[a].status = "none"
      /\ Start(r, a, "create")
      /\ UNCHANGED <<engine, holder, observed>>
  BY DEF CreateAccount
<1>2. TablesOK /\ RestOK
  BY DEF BaseInv
<1>3. RowIs(a, "logged_out", account[a].session, account[a].proxy)
  BY <1>1, <1>2, StatusWritten DEF Statuses
<1>4. TablesOK'
  BY <1>1, <1>2, <1>3, RowTables
<1>5. RestOK'
  BY <1>1, <1>2, StartRest DEF RestOK, observed
<1>. QED
  BY <1>1, <1>3, <1>4, <1>5

LEMMA RequestedBase ==
  ASSUME BaseInv, NEW r \in Requests, Requested(r)
  PROVE  BaseInv'
<1>0. TablesOK /\ RestOK /\ EngineInv /\ RequestsOK /\ LockedOwned
  BY DEF BaseInv
<1>1. ASSUME NEW a \in Accounts, NEW assign \in BOOLEAN, CreateAccount(r, a, assign)
      PROVE  BaseInv'
  <2>1. TablesOK' /\ RestOK' /\ UNCHANGED engine
    BY <1>1, CreateTables
  <2>2. CASE Moved(r)
    BY <2>1, <2>2, MovedBase, NothingAtEngine
  <2>3. CASE UNCHANGED <<pc, mem>>
    <3>1. EngineInv'
      BY <1>0, <2>1, NothingAtEngine, EngineInvKept DEF EngineStep
    <3>2. RequestsOK'
      BY <1>0, <2>3 DEF RequestsOK, StepOk
    <3>3. LockedOwned'
      BY <1>0, <2>1, <2>3 DEF LockedOwned, Of, engine
    <3>. QED
      BY <2>1, <3>1, <3>2, <3>3 DEF BaseInv
  <2>. QED
    BY <1>1, <2>2, <2>3, CreateMoves
<1>2. ASSUME NEW a \in Accounts, NEW p \in ProxyArgs, UpdateAccount(r, a, p)
      PROVE  BaseInv'
  <2>1. UNCHANGED <<engine, tables, observed>> /\ Start(r, a, "edit")
    BY <1>2 DEF UpdateAccount
  <2>2. TablesOK' /\ RestOK'
    BY <1>0, <2>1, StartRest DEF TablesOK, RestOK, tables, observed
  <2>. QED
    BY <1>2, <2>1, <2>2, UpdateMoves, MovedBase, NothingAtEngine
<1>3. ASSUME NEW a \in Accounts,
             NEW op \in Operations \ {"create", "edit", "override", "quarantine", "revoke"},
             Begin(r, a, op)
      PROVE  BaseInv'
  <2>1. UNCHANGED <<engine, tables, raced>> /\ Start(r, a, op)
        /\ (disturbed' = disturbed \/ disturbed' = disturbed \cup {a})
    BY <1>3 DEF Begin, Doubt
  <2>2. TablesOK' /\ RestOK'
    BY <1>0, <2>1, StartRest DEF TablesOK, RestOK, tables
  <2>3. Moved(r)
    BY <1>3, BeginMoves DEF Moved
  <2>. QED
    BY <2>1, <2>2, <2>3, MovedBase, NothingAtEngine
<1>. QED
  BY <1>1, <1>2, <1>3 DEF Requested, ProxyArgs

LEMMA AtEngineBase ==
  ASSUME BaseInv, NEW r \in Requests, AtEngine(r)
  PROVE  BaseInv'
<1>1. /\ Moved(r) /\ EngineOp /\ UNCHANGED <<tables, raced, bounds>>
      /\ disturbed' \in {disturbed, disturbed \cup {Of(r)}}
      /\ pc[r] # "call" => disturbed' = disturbed
  BY EngineMoves
<1>2. TablesOK'
  BY <1>1 DEF BaseInv, TablesOK, tables
<1>3. disturbed' \in SUBSET Accounts
  BY <1>1, AtCall DEF BaseInv, RestOK
<1>4. RestOK'
  BY <1>1, <1>3 DEF BaseInv, RestOK, bounds
<1>. QED
  BY <1>1, <1>2, <1>4, MovedBase

LEMMA AtDatabaseBase ==
  ASSUME BaseInv, NEW r \in Requests, AtDatabase(r)
  PROVE  BaseInv'
<1>0. TablesOK /\ RestOK
  BY DEF BaseInv
<1>1. CASE ReleaseProxy(r)
  <2>1. TablesOK' /\ UNCHANGED <<engine, disturbed, bounds>> /\ ReleaseEffect(r)
    BY <1>1, ReleaseEffects
  <2>2. raced' \in SUBSET Proxies
    BY <1>0, <2>1 DEF ReleaseEffect, RestOK
  <2>3. RestOK'
    BY <1>0, <2>1, <2>2 DEF RestOK, bounds
  <2>. QED
    BY <1>1, <2>1, <2>3, ReleaseMoves, MovedBase, NothingAtEngine
<1>2. CASE PickProxy(r)
  <2>1. UNCHANGED <<engine, tables, observed, bounds>>
    BY <1>2 DEF PickProxy
  <2>2. TablesOK' /\ RestOK'
    BY <1>0, <2>1 DEF TablesOK, RestOK, tables, observed, bounds
  <2>. QED
    BY <1>2, <2>1, <2>2, PickMoves, MovedBase, NothingAtEngine
<1>3. CASE BindProxy(r)
  <2>1. TablesOK' /\ UNCHANGED <<engine, disturbed, bounds>> /\ BindEffect(r)
    BY <1>3, BindEffects
  <2>2. raced' \in SUBSET Proxies
    BY <1>0, <2>1 DEF BindEffect, RestOK
  <2>3. RestOK'
    BY <1>0, <2>1, <2>2 DEF RestOK, bounds
  <2>. QED
    BY <1>3, <2>1, <2>3, BindMoves, MovedBase, NothingAtEngine
<1>4. CASE Finish(r)
  <2>1. TablesOK' /\ UNCHANGED <<engine, raced, bounds>> /\ FinishEffect(r) /\ Close(r)
    BY <1>4, FinishEffects
  <2>2. disturbed' \subseteq disturbed
    BY <2>1 DEF FinishEffect
  <2>3. RestOK'
    BY <1>0, <2>1, <2>2 DEF RestOK, bounds
  <2>4. Moved(r)
    BY <2>1, Closes DEF Moved
  <2>. QED
    BY <2>1, <2>3, <2>4, MovedBase, NothingAtEngine
<1>5. CASE DropAccount(r)
  <2>1. /\ TablesOK' /\ UNCHANGED <<engine, disturbed, bounds>> /\ Close(r)
        /\ raced' \in SUBSET Proxies
    BY <1>5, DropEffects
  <2>2. RestOK'
    BY <1>0, <2>1 DEF RestOK, bounds
  <2>3. Moved(r)
    BY <2>1, Closes DEF Moved
  <2>. QED
    BY <2>1, <2>2, <2>3, MovedBase, NothingAtEngine
<1>. QED
  BY <1>1, <1>2, <1>3, <1>4, <1>5 DEF AtDatabase

LEMMA FaultRest ==
  ASSUME RestOK, Fault
  PROVE  faults' \in 0..MaxFaults /\ doings' = doings /\ requests' = requests
BY AccountsAssumption DEF Fault, RestOK

LEMMA AbandonBase ==
  ASSUME BaseInv, NEW r \in Requests, Abandon(r)
  PROVE  BaseInv'
<1>1. /\ Close(r) /\ UNCHANGED <<engine, tables, raced>> /\ Fault
      /\ disturbed' = disturbed \cup {Of(r)} /\ pc[r] # "idle"
  BY DEF Abandon
<1>2. Of(r) \in Accounts
  BY <1>1, AtStep DEF BaseInv, StepOk, Of
<1>3. TablesOK' /\ RestOK'
  BY <1>1, <1>2, FaultRest DEF BaseInv, TablesOK, RestOK, tables
<1>4. Moved(r)
  BY <1>1, Closes DEF Moved
<1>. QED
  BY <1>1, <1>3, <1>4, MovedBase, NothingAtEngine

\* Steps that leave the requests alone.
LEMMA AsideBase ==
  ASSUME BaseInv, EngineOp, UNCHANGED <<pc, mem>>, TablesOK', RestOK'
  PROVE  BaseInv'
<1>1. EngineInv'
  BY EngineInvKept DEF BaseInv, EngineStep
<1>2. OwnersKept
  BY OwnersAreKept DEF BaseInv, EngineInv
<1>3. RequestsOK'
  BY DEF BaseInv, RequestsOK, StepOk
<1>4. LockedOwned'
  <2>1. \A r \in Requests : pc[r] = "locked" => mem[r].client \in Clients /\ Of(r) \in Accounts
    BY AtCall DEF BaseInv
  <2>. QED
    BY <1>2, <2>1 DEF BaseInv, LockedOwned, OwnersKept, Of
<1>. QED
  BY <1>1, <1>3, <1>4 DEF BaseInv

LEMMA SurroundingsBase ==
  ASSUME BaseInv, Surroundings
  PROVE  BaseInv'
<1>0. TablesOK /\ RestOK /\ RequestsOK
  BY DEF BaseInv
<1>1. ASSUME NEW a \in Accounts, NEW status \in Statuses, OverrideStatus(a, status)
      PROVE  BaseInv'
  <2>1. /\ account' = [account EXCEPT ![a].status = status]
        /\ UNCHANGED <<engine, holder, pc, mem, observed, doings, faults>>
        /\ requests < MaxRequests /\ requests' = requests + 1
    BY <1>1 DEF OverrideStatus
  <2>2. TablesOK'
    BY <1>0, <2>1, StatusWritten, RowTables
  <2>3. RestOK'
    BY <1>0, <2>1, AccountsAssumption DEF RestOK, observed
  <2>. QED
    BY <2>1, <2>2, <2>3, AsideBase, NothingAtEngine
<1>2. ASSUME NEW a \in Accounts, Quarantine(a)
      PROVE  BaseInv'
  <2>1. /\ account' = [account EXCEPT ![a].status = "quarantined"]
        /\ UNCHANGED <<engine, holder, pc, mem, observed, bounds>>
    BY <1>2 DEF Quarantine
  <2>2. TablesOK'
    BY <1>0, <2>1, StatusWritten, RowTables DEF Statuses
  <2>3. RestOK'
    BY <1>0, <2>1 DEF RestOK, observed, bounds
  <2>. QED
    BY <2>1, <2>2, <2>3, AsideBase, NothingAtEngine
<1>3. ASSUME NEW a \in Accounts, NEW status \in {"authorized", "password_needed", "expired"},
             ScanQr(a, status)
      PROVE  BaseInv'
  <2>1. WatchQr(a, status) /\ UNCHANGED <<tables, pc, mem, observed, bounds>>
    BY <1>3 DEF ScanQr
  <2>2. TablesOK' /\ RestOK'
    BY <1>0, <2>1 DEF TablesOK, RestOK, tables, observed, bounds
  <2>3. EngineOp
    BY <2>1 DEF EngineOp
  <2>. QED
    BY <2>1, <2>2, <2>3, AsideBase
<1>4. ASSUME NEW a \in Accounts, NEW key \in Keys, RevokeSession(a, key)
      PROVE  BaseInv'
  <2>1. /\ Revoke(key) /\ key \in KeysOf(a) /\ UNCHANGED <<tables, pc, mem, raced>> /\ Fault
        /\ disturbed' = disturbed \cup {a}
    BY <1>4 DEF RevokeSession
  <2>2. TablesOK' /\ RestOK'
    BY <1>0, <2>1, FaultRest DEF TablesOK, RestOK, tables
  <2>3. EngineOp
    BY <2>1 DEF EngineOp
  <2>. QED
    BY <2>1, <2>2, <2>3, AsideBase
<1>5. CASE RestartEngine
  <2>1. /\ EngineRestart /\ UNCHANGED <<tables, observed>> /\ Fault
        /\ pc' = [r \in Requests |-> IF pc[r] = "locked" THEN "idle" ELSE pc[r]]
        /\ mem' = [r \in Requests |-> IF pc[r] = "locked" THEN Forgotten ELSE mem[r]]
    BY <1>5 DEF RestartEngine
  <2>2. TablesOK' /\ RestOK'
    BY <1>0, <2>1, FaultRest DEF TablesOK, RestOK, tables, observed
  <2>3. EngineInv'
    BY <2>1, EngineInvKept DEF BaseInv, EngineStep
  <2>4. RequestsOK'
    <3>1. pc' \in [Requests -> Steps] /\ mem' \in [Requests -> Memory]
      BY <1>0, <2>1, ForgottenOk DEF RequestsOK, Steps
    <3>2. ASSUME NEW q \in Requests PROVE StepOk(pc'[q], mem'[q])
      BY <1>0, <2>1, ForgottenOk DEF RequestsOK
    <3>3. \A q \in Requests : StepOk(pc[q], mem[q])'
      BY <3>2 DEF StepOk
    <3>. QED
      BY <3>1, <3>3 DEF RequestsOK
  <2>5. LockedOwned'
    BY <2>1 DEF LockedOwned
  <2>. QED
    BY <2>2, <2>3, <2>4, <2>5 DEF BaseInv
<1>. QED
  BY <1>1, <1>2, <1>3, <1>4, <1>5 DEF Surroundings

LEMMA BaseInvKept == BaseInv /\ [Next]_vars => BaseInv'
<1>. SUFFICES ASSUME BaseInv, [Next]_vars PROVE BaseInv'
  OBVIOUS
<1>1. CASE UNCHANGED vars
  <2>1. UNCHANGED <<engine, tables, pc, mem, observed, bounds>>
    BY <1>1 DEF vars
  <2>2. TablesOK' /\ RestOK'
    BY <2>1 DEF BaseInv, TablesOK, RestOK, tables, observed, bounds
  <2>. QED
    BY <2>1, <2>2, AsideBase, NothingAtEngine
<1>. QED
  BY <1>1, RequestedBase, AtEngineBase, AtDatabaseBase, AbandonBase, SurroundingsBase DEF Next

LEMMA AlwaysBase == Spec => []BaseInv
BY BaseInvInit, BaseInvKept, PTL DEF Spec

\* The types of the engine's tables, the rows and the requests.
THEOREM TypeCorrect == Spec => []AccountsTypeOK
<1>1. BaseInv => AccountsTypeOK
  BY DEF BaseInv, EngineInv, TablesOK, RequestsOK, RestOK, AccountsTypeOK, Steps
<1>. QED
  BY <1>1, AlwaysBase, PTL

\* Each message is published once: no client listens but the one in the table and those
\* that were replaced or dropped while they were connected.
THEOREM ListenersCounted == Spec => []ListenersAccounted
<1>1. BaseInv => ListenersAccounted
  <2>. SUFFICES ASSUME BaseInv, NEW a \in Accounts
                PROVE  Cardinality(Listening(a)) <=
                          strays[a] + (IF clients[a] = NoClient THEN 0 ELSE 1)
    BY DEF ListenersAccounted
  <2>1. IsFiniteSet(Beside(a)) /\ Cardinality(Beside(a)) <= strays[a] /\ strays[a] \in Nat
    BY BesideIs DEF BaseInv, EngineInv, BesideAccounted, EngineTypeOK
  <2>2. Cardinality(Beside(a)) \in Nat
    BY <2>1, FS_CardinalityType
  <2>3. CASE clients[a] = NoClient
    <3>1. Listening(a) \subseteq Beside(a)
      BY <2>3, ClientNumbers DEF Listening, Authorized, Beside
    <3>2. Cardinality(Listening(a)) <= Cardinality(Beside(a)) /\ Cardinality(Listening(a)) \in Nat
      BY <2>1, <3>1, FS_Subset, FS_CardinalityType
    <3>. QED
      BY <2>1, <2>2, <2>3, <3>2
  <2>4. CASE clients[a] # NoClient
    <3>1. Listening(a) \subseteq Beside(a) \cup {clients[a]}
      BY DEF Listening, Authorized, Beside
    <3>2. /\ IsFiniteSet(Beside(a) \cup {clients[a]})
          /\ Cardinality(Beside(a) \cup {clients[a]}) <= Cardinality(Beside(a)) + 1
      <4>. DEFINE c == Cardinality(Beside(a))
                  d == Cardinality(Beside(a) \cup {clients[a]})
      <4>1. IsFiniteSet(Beside(a) \cup {clients[a]}) /\ (d = c \/ d = c + 1)
        BY <2>1, FS_AddElement
      <4>2. c \in Nat
        BY <2>2
      <4>. HIDE DEF c, d
      <4>3. d <= c + 1
        BY <4>1, <4>2
      <4>. QED
        BY <4>1, <4>3 DEF c, d
    <3>3. /\ Cardinality(Listening(a)) <= Cardinality(Beside(a) \cup {clients[a]})
          /\ Cardinality(Listening(a)) \in Nat
          /\ Cardinality(Beside(a) \cup {clients[a]}) \in Nat
      BY <3>1, <3>2, FS_Subset, FS_CardinalityType
    <3>. QED
      BY <2>1, <2>2, <2>4, <3>2, <3>3
  <2>. QED
    BY <2>3, <2>4
<1>. QED
  BY <1>1, AlwaysBase, PTL

-----------------------------------------------------------------------------
(* The two tables of the proxy pool.                                        *)

\* A request that is going to bind a proxy has loaded its row free, unless it has raced.
HeldOk(step, m, R) ==
    /\ step = "call" => m.held = NoAccount
    /\ step = "bind" /\ m.held # NoAccount => m.proxy \in R
    /\ step = "release" /\ m.held # NoAccount =>
          m.proxy \in {NoProxy, m.row.proxy} \/ m.proxy \in R

ProxyInv ==
    /\ ProxyTablesAgree
    /\ \A r \in Requests : HeldOk(pc[r], mem[r], raced)

LEMMA HeldMoves ==
  ASSUME RequestsOK, NEW r \in Requests, NEW step, NEW m, To(r, step, m), raced \subseteq raced',
         HeldOk(step, m, raced'), \A q \in Requests : HeldOk(pc[q], mem[q], raced)
  PROVE  \A q \in Requests : HeldOk(pc'[q], mem'[q], raced')
<1>1. \A q \in Requests : /\ pc'[q] = (IF q = r THEN step ELSE pc[q])
                          /\ mem'[q] = (IF q = r THEN m ELSE mem[q])
  BY DEF To, RequestsOK
<1>. SUFFICES ASSUME NEW q \in Requests PROVE HeldOk(pc'[q], mem'[q], raced')
  OBVIOUS
<1>2. CASE q = r
  BY <1>1, <1>2
<1>3. CASE q # r
  <2>1. HeldOk(pc[q], mem[q], raced')
    BY <1>3 DEF HeldOk
  <2>. QED
    BY <1>1, <1>3, <2>1
<1>. QED
  BY <1>2, <1>3

LEMMA HeldElsewhere ==
  ASSUME NEW step, NEW m, NEW R, step \notin {"call", "bind", "release"}
  PROVE  HeldOk(step, m, R)
BY DEF HeldOk

LEMMA ProxyInvParts ==
  /\ ProxyTablesAgree' <=>
       \A p \in Proxies \ raced', a \in Accounts : account'[a].proxy = p <=> holder'[p] = a
  /\ (\A q \in Requests : HeldOk(pc[q], mem[q], raced))' <=>
       \A q \in Requests : HeldOk(pc'[q], mem'[q], raced')
BY DEF ProxyTablesAgree, HeldOk

\* Where a request goes from the engine.
LEMMA FromEngine ==
  ASSUME NEW r \in Requests, AtEngine(r)
  PROVE  \E step, m :
            /\ To(r, step, m)
            /\ \/ step \in {"idle", "locked", "finish", "drop"}
               \/ step = "release" /\ m = mem[r] /\ pc[r] = "call"
<1>. DEFINE Goal == \E step, m :
                       /\ To(r, step, m)
                       /\ \/ step \in {"idle", "locked", "finish", "drop"}
                          \/ step = "release" /\ m = mem[r] /\ pc[r] = "call"
<1>1. ASSUME Close(r) PROVE Goal
  BY <1>1 DEF Close
<1>2. ASSUME NEW x, Answered(r, x) PROVE Goal
  BY <1>2 DEF Answered
<1>3. ASSUME pc[r] = "call", Released(r) PROVE Goal
  BY <1>3 DEF Released
<1>4. ASSUME NEW m, To(r, "locked", m) PROVE Goal
  BY <1>4
<1>. HIDE DEF Goal
<1>5. ASSUME CallQr(r) \/ CallPoll(r) \/ CallCode(r) PROVE Goal
  BY <1>1, <1>2, <1>5 DEF CallQr, CallPoll, CallCode
<1>6. ASSUME CallPick(r) PROVE Goal
  BY <1>1, <1>4, <1>6 DEF CallPick
<1>7. ASSUME SubmitPassword(r) \/ SubmitCode(r) \/ Rejected(r) PROVE Goal
  BY <1>1, <1>2, <1>7 DEF SubmitPassword, SubmitCode, Rejected
<1>8. ASSUME CallReconnect(r) \/ Rebind(r) \/ Unreachable(r) PROVE Goal
  BY <1>1, <1>3, <1>8 DEF CallReconnect, Rebind, Unreachable
<1>9. ASSUME NEW yes \in BOOLEAN, CallImport(r, yes) \/ CallLogout(r, yes) PROVE Goal
  BY <1>1, <1>2, <1>3, <1>9 DEF CallImport, CallLogout, Calls
<1>10. ASSUME NEW verdict, CallCheck(r, verdict) PROVE Goal
  BY <1>1, <1>2, <1>10 DEF CallCheck
<1>11. Goal
  BY <1>5, <1>6, <1>7, <1>8, <1>9, <1>10 DEF AtEngine
<1>. QED
  BY <1>11 DEF Goal

LEMMA ReleaseAgrees ==
  ASSUME BaseInv, ProxyInv, NEW r \in Requests, ReleaseProxy(r)
  PROVE  ProxyInv'
<1>. DEFINE m == mem[r]
<1>1. ReleaseEffect(r) /\ pc[r] = "release"
  BY ReleaseEffects
<1>2. m \in Memory /\ StepOk("release", m)
  BY <1>1, AtStep DEF BaseInv
<1>3. m.of \in Accounts /\ m.row.proxy \in Proxies /\ m.of # NoAccount /\ NoAccount \notin Accounts
  BY <1>2, AccountsAssumption DEF StepOk
<1>4. \A q \in Requests : HeldOk(pc[q], mem[q], raced)
  BY DEF ProxyInv
<1>5. \A p \in Proxies \ raced, a \in Accounts : account[a].proxy = p <=> holder[p] = a
  BY DEF ProxyInv, ProxyTablesAgree
<1>6. CASE ~Exists(m.of)
  <2>1. UNCHANGED <<tables, raced>> /\ To(r, "idle", Forgotten)
    BY <1>1, <1>6 DEF ReleaseEffect, Close
  <2>2. \A q \in Requests : HeldOk(pc'[q], mem'[q], raced')
    BY <1>4, <2>1, HeldMoves, HeldElsewhere DEF BaseInv
  <2>3. ProxyTablesAgree'
    BY <2>1 DEF ProxyInv, ProxyTablesAgree, tables
  <2>. QED
    BY <2>2, <2>3, ProxyInvParts DEF ProxyInv
<1>7. CASE Exists(m.of)
  <2>1. /\ RowIs(m.of, account[m.of].status, account[m.of].session, NoProxy)
        /\ \A p \in Proxies : holder'[p] = IF p = m.row.proxy THEN NoAccount ELSE holder[p]
        /\ raced \subseteq raced'
        /\ account[m.of].proxy # m.row.proxy \/ holder[m.row.proxy] # m.of =>
              ({m.row.proxy, account[m.of].proxy} \ {NoProxy}) \subseteq raced'
    BY <1>1, <1>7 DEF ReleaseEffect
  <2>2. NoProxy \notin Proxies
    BY AccountsAssumption
  <2>3. ASSUME NEW p \in Proxies \ raced', NEW a \in Accounts
        PROVE  account'[a].proxy = p <=> holder'[p] = a
    <3>1. account[a].proxy = p <=> holder[p] = a
      BY <1>5, <2>1, <2>3
    <3>2. account[m.of].proxy = p <=> holder[p] = m.of
      BY <1>3, <1>5, <2>1, <2>3
    <3>3. CASE a = m.of
      <4>1. account'[a].proxy = NoProxy
        BY <2>1, <3>3 DEF RowIs
      <4>2. holder'[p] # a
        BY <1>3, <2>1, <2>2, <2>3, <3>2, <3>3
      <4>. QED
        BY <2>2, <4>1, <4>2
    <3>4. CASE a # m.of
      <4>1. account'[a].proxy = account[a].proxy
        BY <2>1, <3>4 DEF RowIs
      <4>2. holder'[p] = a <=> holder[p] = a
        BY <1>3, <2>1, <2>2, <2>3, <3>2, <3>4
      <4>. QED
        BY <3>1, <4>1, <4>2
    <3>. QED
      BY <3>3, <3>4
  <2>4. HeldOk("release", m, raced)
    BY <1>1, <1>4
  <2>5. \A q \in Requests : HeldOk(pc'[q], mem'[q], raced')
    <3>. DEFINE n == IF m.proxy = m.row.proxy THEN [m EXCEPT !.held = NoAccount] ELSE m
    <3>1. \/ \E step \in {"idle", "drop", "rebind"}, x \in {m, Forgotten} : To(r, step, x)
          \/ m.proxy # NoProxy /\ To(r, "bind", n)
      BY <1>7 DEF ReleaseProxy, Close
    <3>2. HeldOk("bind", n, raced') \/ m.proxy = NoProxy
      <4>1. CASE m.proxy = m.row.proxy
        <5>1. n = [m EXCEPT !.held = NoAccount]
          BY <4>1
        <5>. HIDE DEF m
        <5>2. n.held = NoAccount
          BY <1>2, <5>1 DEF Memory
        <5>. QED
          BY <5>2 DEF HeldOk
      <4>2. CASE m.proxy # m.row.proxy
        <5>1. n = m
          BY <4>2
        <5>. HIDE DEF n, m
        <5>. QED
          BY <2>1, <2>4, <4>2, <5>1 DEF HeldOk
      <4>. QED
        BY <4>1, <4>2
    <3>. HIDE DEF n, m
    <3>3. CASE m.proxy # NoProxy /\ To(r, "bind", n)
      BY <1>4, <2>1, <3>2, <3>3, HeldMoves DEF BaseInv
    <3>4. ASSUME NEW step \in {"idle", "drop", "rebind"}, NEW x \in {m, Forgotten}, To(r, step, x)
          PROVE  \A q \in Requests : HeldOk(pc'[q], mem'[q], raced')
      <4>1. HeldOk(step, x, raced')
        BY HeldElsewhere
      <4>. QED
        BY <1>4, <2>1, <3>4, <4>1, HeldMoves DEF BaseInv
    <3>. QED
      BY <3>1, <3>3, <3>4
  <2>. QED
    BY <2>3, <2>5, ProxyInvParts DEF ProxyInv
<1>. QED
  BY <1>6, <1>7

LEMMA BindAgrees ==
  ASSUME BaseInv, ProxyInv, NEW r \in Requests, BindProxy(r)
  PROVE  ProxyInv'
<1>. DEFINE m == mem[r]
<1>1. BindEffect(r) /\ pc[r] = "bind"
  BY BindEffects
<1>2. m \in Memory /\ StepOk("bind", m)
  BY <1>1, AtStep DEF BaseInv
<1>3. m.of \in Accounts /\ m.proxy \in Proxies /\ m.of # NoAccount /\ NoAccount \notin Accounts
  BY <1>2, AccountsAssumption DEF StepOk
<1>4. \A q \in Requests : HeldOk(pc[q], mem[q], raced)
  BY DEF ProxyInv
<1>5. \A p \in Proxies \ raced, a \in Accounts : account[a].proxy = p <=> holder[p] = a
  BY DEF ProxyInv, ProxyTablesAgree
<1>6. \E step \in {"idle", "rebind"} : \E x : To(r, step, x)
  BY DEF BindProxy, Close
<1>7. ASSUME raced \subseteq raced' PROVE \A q \in Requests : HeldOk(pc'[q], mem'[q], raced')
  <2>1. PICK step \in {"idle", "rebind"} : \E x : To(r, step, x)
    BY <1>6
  <2>2. PICK x : To(r, step, x)
    BY <2>1
  <2>3. HeldOk(step, x, raced')
    BY HeldElsewhere
  <2>. QED
    BY <1>4, <1>7, <2>2, <2>3, HeldMoves DEF BaseInv
<1>8. CASE ~Exists(m.of)
  <2>1. UNCHANGED <<tables, raced>>
    BY <1>1, <1>8 DEF BindEffect
  <2>2. ProxyTablesAgree'
    BY <2>1 DEF ProxyInv, ProxyTablesAgree, tables
  <2>. QED
    BY <1>7, <2>1, <2>2, ProxyInvParts DEF ProxyInv
<1>9. CASE Exists(m.of)
  <2>1. /\ RowIs(m.of, account[m.of].status, account[m.of].session, m.proxy)
        /\ \A p \in Proxies : p # m.proxy => holder'[p] = holder[p]
        /\ m.held = NoAccount => holder'[m.proxy] = m.of
        /\ raced \subseteq raced'
        /\ account[m.of].proxy # NoProxy \/ holder[m.proxy] # NoAccount =>
              ({m.proxy, account[m.of].proxy} \ {NoProxy}) \subseteq raced'
    BY <1>1, <1>9 DEF BindEffect
  <2>2. NoProxy \notin Proxies
    BY AccountsAssumption
  <2>3. m.proxy \notin raced => m.held = NoAccount
    BY <1>1, <1>4 DEF HeldOk
  <2>4. ASSUME NEW p \in Proxies \ raced', NEW a \in Accounts
        PROVE  account'[a].proxy = p <=> holder'[p] = a
    <3>1. account[a].proxy = p <=> holder[p] = a
      BY <1>5, <2>1, <2>4
    <3>2. account[m.of].proxy = p <=> holder[p] = m.of
      BY <1>3, <1>5, <2>1, <2>4
    <3>3. CASE p = m.proxy
      <4>1. holder[p] = NoAccount /\ holder'[p] = m.of
        BY <2>1, <2>2, <2>3, <2>4, <3>3
      <4>2. CASE a = m.of
        BY <2>1, <3>3, <4>1, <4>2 DEF RowIs
      <4>3. CASE a # m.of
        <5>1. account'[a].proxy = account[a].proxy
          BY <2>1, <4>3 DEF RowIs
        <5>. QED
          BY <1>3, <3>1, <4>1, <4>3, <5>1
      <4>. QED
        BY <4>2, <4>3
    <3>4. CASE p # m.proxy
      <4>1. holder'[p] = holder[p]
        BY <2>1, <3>4
      <4>2. CASE a = m.of
        <5>1. account'[a].proxy # p
          BY <2>1, <3>4, <4>2 DEF RowIs
        <5>2. account[a].proxy # p
          BY <1>3, <2>1, <2>2, <2>4, <4>2
        <5>. QED
          BY <3>1, <4>1, <5>1, <5>2
      <4>3. CASE a # m.of
        <5>1. account'[a].proxy = account[a].proxy
          BY <2>1, <4>3 DEF RowIs
        <5>. QED
          BY <3>1, <4>1, <5>1
      <4>. QED
        BY <4>2, <4>3
    <3>. QED
      BY <3>3, <3>4
  <2>. QED
    BY <1>7, <2>1, <2>4, ProxyInvParts DEF ProxyInv
<1>. QED
  BY <1>8, <1>9

\* Steps that leave the proxies of both tables alone.
LEMMA ProxiesAside ==
  ASSUME ProxyInv, raced' = raced, holder' = holder,
         \A a \in Accounts : account'[a].proxy = account[a].proxy
  PROVE  ProxyTablesAgree'
BY DEF ProxyInv, ProxyTablesAgree

LEMMA HeldStay ==
  ASSUME ProxyInv, UNCHANGED <<pc, mem>>, raced' = raced
  PROVE  \A q \in Requests : HeldOk(pc'[q], mem'[q], raced')
BY DEF ProxyInv

LEMMA RowKeepsProxies ==
  ASSUME NEW a \in Accounts, NEW s, NEW y, RowIs(a, s, y, account[a].proxy)
  PROVE  \A b \in Accounts : account'[b].proxy = account[b].proxy
BY DEF RowIs

LEMMA ProxyInvKept == BaseInv /\ ProxyInv /\ [Next]_vars => ProxyInv'
<1>. SUFFICES ASSUME BaseInv, ProxyInv, [Next]_vars PROVE ProxyInv'
  OBVIOUS
<1>0. TablesOK /\ RestOK /\ RequestsOK
  BY DEF BaseInv
<1>. DEFINE HeldAfter == \A q \in Requests : HeldOk(pc'[q], mem'[q], raced')
<1>1. ASSUME ProxyTablesAgree', HeldAfter PROVE ProxyInv'
  BY <1>1, ProxyInvParts DEF ProxyInv
<1>2. ASSUME NEW r \in Requests, NEW step, NEW m, To(r, step, m), raced \subseteq raced',
             HeldOk(step, m, raced')
      PROVE  HeldAfter
  BY <1>0, <1>2, HeldMoves DEF ProxyInv
<1>3. ASSUME NEW r \in Requests, Close(r), raced \subseteq raced' PROVE HeldAfter
  BY <1>2, <1>3, HeldElsewhere DEF Close
<1>. HIDE DEF HeldAfter
<1>4. ASSUME UNCHANGED <<tables, pc, mem, raced>> PROVE ProxyInv'
  <2>1. HeldAfter
    BY <1>4, HeldStay DEF HeldAfter
  <2>2. ProxyTablesAgree'
    BY <1>4, ProxiesAside DEF tables
  <2>. QED
    BY <1>1, <2>1, <2>2
<1>5. CASE UNCHANGED vars
  BY <1>4, <1>5 DEF vars, observed
<1>6. ASSUME NEW r \in Requests, NEW a \in Accounts, NEW assign \in BOOLEAN,
             CreateAccount(r, a, assign)
      PROVE  ProxyInv'
  <2>1. RowIs(a, "logged_out", account[a].session, account[a].proxy) /\ UNCHANGED <<holder, observed>>
    BY <1>6, CreateTables
  <2>2. ProxyTablesAgree'
    BY <2>1, RowKeepsProxies, ProxiesAside DEF observed
  <2>3. HeldAfter
    <3>1. UNCHANGED <<pc, mem>> \/ \E m : To(r, "pick", m)
      BY <1>6 DEF CreateAccount
    <3>2. CASE UNCHANGED <<pc, mem>>
      BY <2>1, <3>2, HeldStay DEF HeldAfter, observed
    <3>3. ASSUME NEW m, To(r, "pick", m) PROVE HeldAfter
      BY <1>2, <2>1, <3>3, HeldElsewhere DEF observed
    <3>. QED
      BY <3>1, <3>2, <3>3
  <2>. QED
    BY <1>1, <2>2, <2>3
<1>7. ASSUME NEW r \in Requests, NEW a \in Accounts, NEW p \in ProxyArgs, UpdateAccount(r, a, p)
      PROVE  ProxyInv'
  <2>. DEFINE l == Loaded(a, "edit")
              h == IF p = NoProxy THEN NoAccount ELSE holder[p]
              m == [l EXCEPT !.proxy = p, !.held = h]
              step == IF account[a].proxy # NoProxy THEN "release"
                      ELSE IF p = NoProxy THEN "pick" ELSE "bind"
  <2>1. /\ To(r, step, m)
        /\ UNCHANGED <<engine, tables, observed>>
        /\ p # NoProxy => holder[p] \in {NoAccount, a}
    BY <1>7 DEF UpdateAccount
  <2>2. l \in Memory /\ l.row = account[a]
    BY <1>0, LoadedOk DEF Operations
  <2>3. h # NoAccount => p \in Proxies /\ h = a /\ holder[p] = a
    BY <2>1 DEF ProxyArgs
  <2>4. h # NoAccount /\ p \notin raced => account[a].proxy = p
    BY <2>3 DEF ProxyInv, ProxyTablesAgree
  <2>. HIDE DEF l, h
  <2>5. m.row = account[a] /\ m.proxy = p /\ m.held = h
    BY <2>2 DEF Memory
  <2>. HIDE DEF m
  <2>6. NoProxy \notin Proxies
    BY AccountsAssumption
  <2>7. HeldOk(step, m, raced)
    BY <2>3, <2>4, <2>5, <2>6 DEF HeldOk
  <2>8. ProxyTablesAgree' /\ raced' = raced
    BY <2>1, ProxiesAside DEF tables, observed
  <2>. HIDE DEF step
  <2>9. HeldAfter
    BY <1>2, <2>1, <2>7, <2>8
  <2>. QED
    BY <1>1, <2>8, <2>9
<1>8. ASSUME NEW r \in Requests, NEW a \in Accounts,
             NEW op \in Operations \ {"create", "edit", "override", "quarantine", "revoke"},
             Begin(r, a, op)
      PROVE  ProxyInv'
  <2>1. To(r, "call", Loaded(a, op)) /\ UNCHANGED <<tables, raced>>
    BY <1>8 DEF Begin
  <2>2. Loaded(a, op).held = NoAccount
    BY <1>0, LoadedOk
  <2>3. HeldOk("call", Loaded(a, op), raced')
    BY <2>2 DEF HeldOk
  <2>4. HeldAfter
    BY <1>2, <2>1, <2>3
  <2>5. ProxyTablesAgree'
    BY <2>1, ProxiesAside DEF tables
  <2>. QED
    BY <1>1, <2>4, <2>5
<1>9. ASSUME NEW r \in Requests, AtEngine(r) PROVE ProxyInv'
  <2>1. UNCHANGED <<tables, raced>>
    BY <1>9, EngineMoves
  <2>2. PICK step, m :
            /\ To(r, step, m)
            /\ \/ step \in {"idle", "locked", "finish", "drop"}
               \/ step = "release" /\ m = mem[r] /\ pc[r] = "call"
    BY <1>9, FromEngine
  <2>3. HeldOk(step, m, raced')
    BY <2>2 DEF ProxyInv, HeldOk
  <2>4. HeldAfter
    BY <1>2, <2>1, <2>2, <2>3
  <2>5. ProxyTablesAgree'
    BY <2>1, ProxiesAside DEF tables
  <2>. QED
    BY <1>1, <2>4, <2>5
<1>10. ASSUME NEW r \in Requests, PickProxy(r) PROVE ProxyInv'
  <2>. DEFINE free == {p \in Proxies : holder[p] = NoAccount}
              m == mem[r]
              n == [m EXCEPT !.proxy = Min(free)]
  <2>1. /\ pc[r] = "pick" /\ UNCHANGED <<engine, tables, observed, bounds>>
        /\ Close(r) \/ To(r, "bind", n)
    BY <1>10 DEF PickProxy
  <2>2. m \in Memory /\ m.held = NoAccount
    BY <1>0, <2>1, AtStep DEF StepOk
  <2>. HIDE DEF m, free
  <2>3. n.held = NoAccount
    BY <2>2 DEF Memory
  <2>. HIDE DEF n
  <2>4. HeldOk("bind", n, raced')
    BY <2>3 DEF HeldOk
  <2>5. HeldAfter
    BY <1>2, <1>3, <2>1, <2>4 DEF observed
  <2>6. ProxyTablesAgree'
    BY <2>1, ProxiesAside DEF tables, observed
  <2>. QED
    BY <1>1, <2>5, <2>6
<1>11. ASSUME NEW r \in Requests, Finish(r) PROVE ProxyInv'
  <2>1. FinishEffect(r) /\ Close(r) /\ UNCHANGED <<holder, raced>> /\ Of(r) \in Accounts
    BY <1>0, <1>11, FinishEffects, AtStep DEF StepOk, Of
  <2>2. \A b \in Accounts : account'[b].proxy = account[b].proxy
    BY <2>1, RowKeepsProxies DEF FinishEffect, Of
  <2>3. ProxyTablesAgree'
    BY <2>1, <2>2, ProxiesAside
  <2>. QED
    BY <1>1, <1>3, <2>1, <2>3
<1>12. ASSUME NEW r \in Requests, DropAccount(r) PROVE ProxyInv'
  <2>1. /\ RowIs(Of(r), "gone", FALSE, NoProxy) /\ Close(r) /\ holder' = holder
        /\ raced' = raced \cup ({account[Of(r)].proxy} \ {NoProxy}) /\ Of(r) \in Accounts
    BY <1>12, DropEffects
  <2>2. NoProxy \notin Proxies
    BY AccountsAssumption
  <2>3. ASSUME NEW p \in Proxies \ raced', NEW a \in Accounts
        PROVE  account'[a].proxy = p <=> holder'[p] = a
    <3>1. account[a].proxy = p <=> holder[p] = a
      BY <2>1, <2>3 DEF ProxyInv, ProxyTablesAgree
    <3>2. CASE a = Of(r)
      BY <2>1, <2>2, <2>3, <3>1, <3>2 DEF RowIs
    <3>3. CASE a # Of(r)
      BY <2>1, <3>1, <3>3 DEF RowIs
    <3>. QED
      BY <3>2, <3>3
  <2>4. ProxyTablesAgree'
    BY <2>3, ProxyInvParts
  <2>5. HeldAfter
    BY <1>3, <2>1
  <2>. QED
    BY <1>1, <2>4, <2>5
<1>13. ASSUME NEW r \in Requests, Abandon(r) PROVE ProxyInv'
  <2>1. Close(r) /\ UNCHANGED <<tables, raced>>
    BY <1>13 DEF Abandon
  <2>2. ProxyTablesAgree'
    BY <2>1, ProxiesAside DEF tables
  <2>. QED
    BY <1>1, <1>3, <2>1, <2>2
<1>14. ASSUME NEW a \in Accounts, NEW status \in Statuses,
              OverrideStatus(a, status) \/ (Quarantine(a) /\ status = "quarantined")
       PROVE  ProxyInv'
  <2>1. account' = [account EXCEPT ![a].status = status] /\ UNCHANGED <<holder, pc, mem, observed>>
    BY <1>14 DEF OverrideStatus, Quarantine
  <2>2. \A b \in Accounts : account'[b].proxy = account[b].proxy
    BY <1>0, <2>1, StatusWritten, RowKeepsProxies
  <2>3. ProxyTablesAgree'
    BY <2>1, <2>2, ProxiesAside DEF observed
  <2>4. HeldAfter
    BY <2>1, HeldStay DEF HeldAfter, observed
  <2>. QED
    BY <1>1, <2>3, <2>4
<1>15. ASSUME NEW a \in Accounts, NEW status, ScanQr(a, status) PROVE ProxyInv'
  BY <1>4, <1>15 DEF ScanQr, observed
<1>16. ASSUME NEW a \in Accounts, NEW key, RevokeSession(a, key) PROVE ProxyInv'
  BY <1>4, <1>16 DEF RevokeSession
<1>17. CASE RestartEngine
  <2>1. /\ UNCHANGED <<tables, observed>>
        /\ pc' = [r \in Requests |-> IF pc[r] = "locked" THEN "idle" ELSE pc[r]]
        /\ mem' = [r \in Requests |-> IF pc[r] = "locked" THEN Forgotten ELSE mem[r]]
    BY <1>17 DEF RestartEngine
  <2>2. HeldAfter
    <3>. SUFFICES ASSUME NEW q \in Requests PROVE HeldOk(pc'[q], mem'[q], raced')
      BY DEF HeldAfter
    <3>1. HeldOk(pc[q], mem[q], raced)
      BY DEF ProxyInv
    <3>. QED
      BY <2>1, <3>1, HeldElsewhere DEF observed
  <2>3. ProxyTablesAgree'
    BY <2>1, ProxiesAside DEF tables, observed
  <2>. QED
    BY <1>1, <2>2, <2>3
<1>18. ASSUME NEW r \in Requests, Requested(r) PROVE ProxyInv'
  BY <1>6, <1>7, <1>8, <1>18 DEF Requested, ProxyArgs
<1>19. ASSUME NEW r \in Requests, AtDatabase(r) PROVE ProxyInv'
  BY <1>10, <1>11, <1>12, <1>19, ReleaseAgrees, BindAgrees DEF AtDatabase
<1>20. CASE Surroundings
  BY <1>14, <1>15, <1>16, <1>17, <1>20 DEF Surroundings, Statuses
<1>. QED
  BY <1>5, <1>9, <1>13, <1>18, <1>19, <1>20 DEF Next

\* A proxy serves one account, and both tables say so, wherever requests have got to or
\* were abandoned: unless two of them held rows of the proxy or its account at a time.
THEOREM ProxiesAgree == Spec => []ProxyTablesAgree
<1>1. Init => ProxyInv
  <2>. SUFFICES ASSUME Init PROVE ProxyInv
    OBVIOUS
  <2>1. ProxyTablesAgree
    BY AccountsAssumption DEF Init, NoRow, ProxyTablesAgree
  <2>2. \A r \in Requests : HeldOk(pc[r], mem[r], raced)
    BY DEF Init, HeldOk
  <2>. QED
    BY <2>1, <2>2 DEF ProxyInv
<1>2. ProxyInv => ProxyTablesAgree
  BY DEF ProxyInv
<1>. QED
  BY <1>1, <1>2, ProxyInvKept, AlwaysBase, PTL DEF Spec

-----------------------------------------------------------------------------
(* Quarantines.                                                             *)

QuarantineStep ==
    \A a \in Accounts :
       /\ account[a].status \in {"quarantined", "banned"}
       /\ account'[a].status = "active"
       => \/ pc' = pc
          \/ \E r \in Requests : pc[r] = "finish" /\ pc'[r] = "idle" /\ Of(r) = a
                                 /\ mem[r].row.status # "active"

LEMMA StatusKept ==
  ASSUME \A a \in Accounts : account[a].status # "active" => account'[a].status # "active"
  PROVE  QuarantineStep
BY DEF QuarantineStep

LEMMA RowStatus ==
  ASSUME NEW a \in Accounts, NEW s, NEW y, NEW p, RowIs(a, s, y, p),
         s = "active" => account[a].status = "active"
  PROVE  QuarantineStep
BY DEF RowIs, QuarantineStep

LEMMA QuarantineKept == BaseInv /\ [Next]_vars => QuarantineStep
<1>. SUFFICES ASSUME BaseInv, [Next]_vars PROVE QuarantineStep
  OBVIOUS
<1>0. TablesOK /\ RequestsOK
  BY DEF BaseInv
<1>1. ASSUME account' = account PROVE QuarantineStep
  BY <1>1, StatusKept
<1>2. ASSUME pc' = pc PROVE QuarantineStep
  BY <1>2 DEF QuarantineStep
<1>3. CASE UNCHANGED vars
  BY <1>2, <1>3 DEF vars
<1>4. ASSUME NEW r \in Requests, Requested(r) PROVE QuarantineStep
  <2>1. ASSUME NEW a \in Accounts, NEW assign \in BOOLEAN, CreateAccount(r, a, assign)
        PROVE  QuarantineStep
    BY <2>1, CreateTables, RowStatus
  <2>2. ASSUME NEW a \in Accounts, NEW p \in ProxyArgs, UpdateAccount(r, a, p)
        PROVE  QuarantineStep
    BY <1>1, <2>2 DEF UpdateAccount, tables
  <2>3. ASSUME NEW a, NEW op, Begin(r, a, op) PROVE QuarantineStep
    BY <1>1, <2>3 DEF Begin, tables
  <2>. QED
    BY <1>4, <2>1, <2>2, <2>3 DEF Requested, ProxyArgs
<1>5. ASSUME NEW r \in Requests, AtEngine(r) PROVE QuarantineStep
  BY <1>1, <1>5, EngineMoves DEF tables
<1>6. ASSUME NEW r \in Requests, Abandon(r) PROVE QuarantineStep
  BY <1>1, <1>6 DEF Abandon, tables
<1>7. ASSUME NEW r \in Requests, ReleaseProxy(r) PROVE QuarantineStep
  <2>1. ReleaseEffect(r) /\ pc[r] = "release"
    BY <1>7, ReleaseEffects
  <2>2. mem[r].of \in Accounts
    BY <1>0, <2>1, AtStep DEF StepOk
  <2>. QED
    BY <1>1, <2>1, <2>2, RowStatus DEF ReleaseEffect, tables
<1>8. ASSUME NEW r \in Requests, BindProxy(r) PROVE QuarantineStep
  <2>1. BindEffect(r) /\ pc[r] = "bind"
    BY <1>8, BindEffects
  <2>2. mem[r].of \in Accounts
    BY <1>0, <2>1, AtStep DEF StepOk
  <2>. QED
    BY <1>1, <2>1, <2>2, RowStatus DEF BindEffect, tables
<1>9. ASSUME NEW r \in Requests, PickProxy(r) PROVE QuarantineStep
  BY <1>1, <1>9 DEF PickProxy, tables
<1>10. ASSUME NEW r \in Requests, DropAccount(r) PROVE QuarantineStep
  BY <1>10, DropEffects, RowStatus
<1>11. ASSUME NEW r \in Requests, Finish(r) PROVE QuarantineStep
  <2>. DEFINE m == mem[r]
              now == account[m.of]
  <2>1. FinishEffect(r) /\ pc[r] = "finish" /\ Close(r)
    BY <1>11, FinishEffects
  <2>2. m.of \in Accounts
    BY <1>0, <2>1, AtStep DEF StepOk
  <2>3. pc'[r] = "idle"
    BY <1>0, <2>1 DEF Close, To, RequestsOK
  <2>4. CASE ~Exists(m.of)
    BY <1>1, <2>1, <2>4 DEF FinishEffect
  <2>5. CASE Exists(m.of) /\ m.answer = "authorized"
    <3>1. RowIs(m.of, Written("active", m.row.status, now.status),
                Written(TRUE, m.row.session, now.session), now.proxy)
      BY <2>1, <2>5 DEF FinishEffect
    <3>2. CASE m.row.status = "active"
      BY <2>2, <3>1, <3>2, RowStatus DEF Written
    <3>3. CASE m.row.status # "active"
      BY <2>1, <2>2, <2>3, <3>1, <3>3 DEF RowIs, QuarantineStep, Of
    <3>. QED
      BY <3>2, <3>3
  <2>6. CASE Exists(m.of) /\ m.answer = "logged_out"
    <3>1. RowIs(m.of, Written("logged_out", m.row.status, now.status),
                Written(FALSE, m.row.session, now.session), now.proxy)
      BY <2>1, <2>6 DEF FinishEffect
    <3>2. Written("logged_out", m.row.status, now.status) = "active" => now.status = "active"
      BY DEF Written
    <3>. QED
      BY <2>2, <3>1, <3>2, RowStatus
  <2>7. CASE Exists(m.of) /\ m.answer \notin {"authorized", "logged_out"}
    <3>1. PICK s \in {"quarantined", "banned", now.status} : RowIs(m.of, s, now.session, now.proxy)
      BY <2>1, <2>7 DEF FinishEffect
    <3>. QED
      BY <2>2, <3>1, RowStatus
  <2>. QED
    BY <2>4, <2>5, <2>6, <2>7
<1>12. CASE Surroundings
  <2>1. ASSUME NEW a, NEW status, OverrideStatus(a, status) PROVE QuarantineStep
    BY <1>2, <2>1 DEF OverrideStatus
  <2>2. ASSUME NEW a, Quarantine(a) PROVE QuarantineStep
    BY <1>2, <2>2 DEF Quarantine
  <2>3. ASSUME NEW a, NEW status, ScanQr(a, status) PROVE QuarantineStep
    BY <1>2, <2>3 DEF ScanQr
  <2>4. ASSUME NEW a, NEW key, RevokeSession(a, key) PROVE QuarantineStep
    BY <1>2, <2>4 DEF RevokeSession
  <2>5. CASE RestartEngine
    BY <1>1, <2>5 DEF RestartEngine, tables
  <2>. QED
    BY <1>12, <2>1, <2>2, <2>3, <2>4, <2>5 DEF Surroundings
<1>. QED
  BY <1>3, <1>4, <1>5, <1>6, <1>7, <1>8, <1>9, <1>10, <1>11, <1>12 DEF Next, AtDatabase

\* A login started while the account was in use does not take back a quarantine or a ban
\* that came meanwhile.
THEOREM QuarantinesStand == Spec => QuarantineStands
<1>1. BaseInv /\ [Next]_vars => [QuarantineStep]_vars
  BY QuarantineKept
<1>2. BaseInv /\ [Next]_vars =>
        [\A a \in Accounts :
            /\ account[a].status \in {"quarantined", "banned"}
            /\ account'[a].status = "active"
            => \/ pc' = pc
               \/ \E r \in Requests : pc[r] = "finish" /\ pc'[r] = "idle" /\ Of(r) = a
                                      /\ mem[r].row.status # "active"]_vars
  BY <1>1 DEF QuarantineStep
<1>. QED
  BY <1>2, AlwaysBase, PTL DEF Spec, QuarantineStands

-----------------------------------------------------------------------------
(* Sessions that work.                                                      *)

\* The file holds a session, and so does the client, if there is one.
Working(a) == file[a] \in valid /\ (clients[a] # NoClient => Authorized(clients[a]))

\* A client that may log the account in: the one in the table, unless the account works.
Placed(a, k) == k \in {NoClient, clients[a]} \/ Working(a)

LoginsPlaced(a) ==
    /\ qrLogin[a].status = "authorized" => Working(a)
    /\ Placed(a, phoneLogin[a])
    /\ Placed(a, qrLogin[a].client)
    /\ clients[a] # NoClient => object[clients[a]].key = file[a] \/ Working(a)

\* What a step of the engine leaves as it is, for an account.
Steady(a) ==
    /\ Working(a) => Working(a)'
    /\ \A k : Placed(a, k) => Placed(a, k)'
    /\ LoginsPlaced(a) => LoginsPlaced(a)'

LEMMA WorkingSettles ==
  ASSUME NEW a, Working(a)'
  PROVE  Steady(a) /\ LoginsPlaced(a)'
<1>1. \A k : Placed(a, k)'
  BY DEF Placed
<1>2. LoginsPlaced(a)'
  BY DEF LoginsPlaced, Placed
<1>. QED
  BY <1>1, <1>2 DEF Steady

\* The account's tables, its client and its keys are as they were.
Untouched(b) ==
    /\ clients'[b] = clients[b]
    /\ file'[b] = file[b]
    /\ phoneLogin'[b] = phoneLogin[b]
    /\ qrLogin'[b] = qrLogin[b]
    /\ clients[b] # NoClient => /\ object'[clients[b]].key = object[clients[b]].key
                                /\ object'[clients[b]].up = object[clients[b]].up
    /\ \A key \in KeysOf(b) : key \in valid => key \in valid'

LEMMA OwnKeys ==
  ASSUME EngineInv, NEW b \in Accounts
  PROVE  /\ file[b] \in KeysOf(b)
         /\ clients[b] # NoClient => clients[b] \in Clients /\ object[clients[b]].key \in KeysOf(b)
         /\ NoKey \notin valid
<1>1. clients[b] # NoClient => clients[b] \in Clients /\ object[clients[b]].of = b
  BY DEF EngineInv, EngineTypeOK, Owned
<1>2. NoKey \notin valid
  BY ClientNumbers DEF EngineInv, EngineTypeOK, Keys, NoKey, NoClient
<1>. QED
  BY <1>1, <1>2, InKeys

LEMMA UntouchedSteady ==
  ASSUME EngineInv, NEW b \in Accounts, Untouched(b)
  PROVE  Steady(b)
<1>1. ASSUME Working(b) PROVE Working(b)'
  BY <1>1, OwnKeys DEF Untouched, Working, Authorized
<1>2. ASSUME NEW k, Placed(b, k) PROVE Placed(b, k)'
  BY <1>1, <1>2 DEF Untouched, Placed
<1>3. ASSUME LoginsPlaced(b) PROVE LoginsPlaced(b)'
  <2>1. Placed(b, phoneLogin[b])' /\ Placed(b, qrLogin[b].client)'
    BY <1>1, <1>3 DEF Untouched, LoginsPlaced, Placed
  <2>2. qrLogin'[b].status = "authorized" => Working(b)'
    BY <1>1, <1>3 DEF Untouched, LoginsPlaced
  <2>3. clients'[b] # NoClient => object'[clients'[b]].key = file'[b] \/ Working(b)'
    BY <1>1, <1>3 DEF Untouched, LoginsPlaced
  <2>. QED
    BY <2>1, <2>2, <2>3 DEF LoginsPlaced
<1>. QED
  BY <1>1, <1>2, <1>3 DEF Steady

\* What is done to one account's engine leaves the others untouched.
LEMMA ConnectingOthers ==
  ASSUME EngineInv, NEW a \in Accounts, NEW p \in ProxyArgs, NEW b \in Accounts, b # a,
         StartClient(a, p) \/ QrStart(a, p) \/ SendCode(a, p)
  PROVE  Steady(b)
<1>0. EngineTypeOK /\ Owned
  BY DEF EngineInv
<1>1. Connect(a, p) /\ valid' = valid
  BY <1>0, Connecting
<1>2. phoneLogin'[b] = phoneLogin[b] /\ qrLogin'[b] = qrLogin[b]
  <2>. DEFINE q == [client |-> clients'[a], status |-> "waiting"]
  <2>1. /\ qrLogin' = qrLogin \/ qrLogin' = [qrLogin EXCEPT ![a] = q]
        /\ phoneLogin' = phoneLogin \/ phoneLogin' = [phoneLogin EXCEPT ![a] = clients'[a]]
    BY <1>0, Connecting
  <2>. HIDE DEF q
  <2>. QED
    BY <1>0, <2>1 DEF EngineTypeOK
<1>3. clients[b] # NoClient => clients[b] \in Clients /\ object[clients[b]].of = b
  BY <1>0 DEF EngineTypeOK, Owned
<1>4. Reused(a) \/ Built(a, clients'[a])
  BY <1>0, <1>1, ConnectEffect
<1>5. CASE Reused(a)
  BY <1>1, <1>2, <1>3, <1>5, UntouchedSteady DEF Reused, Untouched
<1>6. CASE Built(a, clients'[a])
  <2>1. clients[b] # NoClient => clients[b] # clients'[a]
    BY <1>0, <1>3, <1>6, BuiltOwners
  <2>2. Untouched(b)
    BY <1>1, <1>2, <1>3, <1>6, <2>1 DEF Built, Untouched
  <2>. QED
    BY <2>2, UntouchedSteady
<1>. QED
  BY <1>4, <1>5, <1>6

LEMMA ImportOthers ==
  ASSUME EngineInv, NEW a \in Accounts, NEW p \in ProxyArgs, NEW yes \in BOOLEAN,
         NEW b \in Accounts, b # a, ImportSession(a, p, yes)
  PROVE  Steady(b)
<1>0. EngineTypeOK /\ Owned
  BY DEF EngineInv
<1>1. PICK k \in Clients :
            /\ Built(a, k)
            /\ phoneLogin' = phoneLogin /\ qrLogin' = qrLogin
            /\ yes => valid' = valid \cup {k}
            /\ ~yes => valid' = valid
  BY <1>0, ImportEffect
<1>2. clients[b] # NoClient => clients[b] \in Clients /\ object[clients[b]].of = b
  BY <1>0 DEF EngineTypeOK, Owned
<1>3. clients[b] # NoClient => clients[b] # k
  BY <1>0, <1>1, <1>2, BuiltOwners
<1>4. Untouched(b)
  BY <1>1, <1>2, <1>3 DEF Built, Untouched
<1>. QED
  BY <1>4, UntouchedSteady

LEMMA LogoutOthers ==
  ASSUME EngineInv, NEW a \in Accounts, NEW yes \in BOOLEAN, NEW b \in Accounts, b # a,
         Logout(a, yes)
  PROVE  Steady(b)
<1>0. EngineTypeOK /\ Owned /\ KeysApart
  BY DEF EngineInv
<1>1. /\ clients'[b] = clients[b] /\ phoneLogin'[b] = phoneLogin[b] /\ qrLogin'[b] = qrLogin[b]
      /\ file'[b] = file[b]
  BY <1>0, LogoutEffect DEF EngineTypeOK
<1>2. ASSUME clients[b] # NoClient
      PROVE  clients[b] \in Clients /\ object'[clients[b]] = object[clients[b]]
  <2>1. clients[b] \in Clients /\ object[clients[b]].of = b
    BY <1>0, <1>2 DEF EngineTypeOK, Owned
  <2>2. clients[b] # clients[a]
    BY <1>0, <1>2, <2>1 DEF Owned
  <2>. QED
    BY <1>0, <2>1, <2>2, LogoutEffect
<1>3. \A key \in KeysOf(b) : key \in valid => key \in valid'
  <2>1. CASE valid' = valid
    BY <2>1
  <2>2. CASE clients[a] \in Clients /\ valid' = valid \ {object[clients[a]].key}
    <3>1. object[clients[a]].key \in KeysOf(a)
      BY <2>2, OwnKeys, ClientNumbers
    <3>2. NoKey \notin valid
      BY OwnKeys
    <3>3. KeysOf(a) \cap KeysOf(b) \subseteq {NoKey}
      BY <1>0 DEF KeysApart
    <3>. QED
      BY <2>2, <3>1, <3>2, <3>3
  <2>. QED
    BY <1>0, <2>1, <2>2, LogoutEffect
<1>4. Untouched(b)
  BY <1>1, <1>2, <1>3 DEF Untouched
<1>. QED
  BY <1>4, UntouchedSteady

LEMMA LoginOthers ==
  ASSUME EngineInv, NEW a \in Accounts, NEW k \in Clients, NEW b \in Accounts, b # a,
         \/ QrPassword(a, k)
         \/ SignIn(a, k)
         \/ \E status : WatchQr(a, status)
         \/ \E key \in KeysOf(a) : Revoke(key)
  PROVE  Steady(b)
<1>0. EngineTypeOK /\ KeysApart
  BY DEF EngineInv
<1>1. CASE QrPassword(a, k)
  BY <1>0, <1>1, UntouchedSteady DEF QrPassword, Untouched, EngineTypeOK
<1>2. CASE SignIn(a, k)
  BY <1>0, <1>2, UntouchedSteady DEF SignIn, Untouched, EngineTypeOK
<1>3. ASSUME NEW status, WatchQr(a, status) PROVE Steady(b)
  BY <1>0, <1>3, UntouchedSteady DEF WatchQr, Untouched, EngineTypeOK
<1>4. ASSUME NEW key \in KeysOf(a), Revoke(key) PROVE Steady(b)
  <2>1. /\ valid' = valid \ {key} /\ clients' = clients /\ phoneLogin' = phoneLogin
        /\ qrLogin' = qrLogin /\ object' = object /\ file' = file
    BY <1>4 DEF Revoke
  <2>2. KeysOf(a) \cap KeysOf(b) \subseteq {NoKey} /\ NoKey \notin valid
    BY <1>0, OwnKeys DEF KeysApart
  <2>3. \A x \in KeysOf(b) : x \in valid => x \in valid'
    BY <2>1, <2>2
  <2>. QED
    BY <2>1, <2>3, UntouchedSteady DEF Untouched
<1>. QED
  BY <1>1, <1>2, <1>3, <1>4

\* A connection, whatever it is for, leaves a session that works as it is.
LEMMA ConnectingOwn ==
  ASSUME EngineInv, NEW a \in Accounts, NEW p \in ProxyArgs,
         StartClient(a, p) \/ QrStart(a, p) \/ SendCode(a, p)
  PROVE  Steady(a)
<1>0. EngineTypeOK /\ Owned /\ NoKey \notin valid
  BY OwnKeys DEF EngineInv
<1>1. Connect(a, p) /\ valid' = valid
  BY <1>0, Connecting
<1>2. phoneLogin'[a] \in {phoneLogin[a], clients'[a]}
  BY <1>0, Connecting DEF EngineTypeOK
<1>3. \/ qrLogin'[a] = qrLogin[a]
      \/ qrLogin'[a].client = clients'[a] /\ qrLogin'[a].status = "waiting"
  <2>. DEFINE q == [client |-> clients'[a], status |-> "waiting"]
  <2>1. qrLogin' = qrLogin \/ qrLogin' = [qrLogin EXCEPT ![a] = q]
    BY <1>0, Connecting
  <2>2. q.client = clients'[a] /\ q.status = "waiting"
    OBVIOUS
  <2>. HIDE DEF q
  <2>. QED
    BY <1>0, <2>1, <2>2 DEF EngineTypeOK
<1>4. CASE clients[a] # NoClient /\ Reused(a)
  <2>1. clients[a] \in Clients
    BY <1>0, <1>4 DEF EngineTypeOK
  <2>2. /\ clients'[a] = clients[a] /\ file'[a] = file[a]
        /\ object'[clients[a]].key = object[clients[a]].key
        /\ object'[clients[a]].up = object[clients[a]].up
    BY <1>4, <2>1 DEF Reused
  <2>3. ASSUME Working(a) PROVE Working(a)'
    BY <1>1, <2>2, <2>3 DEF Working, Authorized
  <2>4. ASSUME NEW k, Placed(a, k) PROVE Placed(a, k)'
    BY <2>2, <2>3, <2>4 DEF Placed
  <2>5. ASSUME LoginsPlaced(a) PROVE LoginsPlaced(a)'
    <3>1. qrLogin'[a].status = "authorized" => Working(a)'
      BY <1>3, <2>3, <2>5 DEF LoginsPlaced
    <3>2. Placed(a, phoneLogin[a])' /\ Placed(a, qrLogin[a].client)'
      BY <1>2, <1>3, <2>2, <2>3, <2>5 DEF LoginsPlaced, Placed
    <3>3. clients'[a] # NoClient => object'[clients'[a]].key = file'[a] \/ Working(a)'
      BY <2>2, <2>3, <2>5 DEF LoginsPlaced
    <3>. QED
      BY <3>1, <3>2, <3>3 DEF LoginsPlaced
  <2>. QED
    BY <2>3, <2>4, <2>5 DEF Steady
<1>5. CASE /\ clients[a] = NoClient
           /\ Built(a, clients'[a])
           /\ object'[clients'[a]].up
           /\ object'[clients'[a]].key = IF file[a] = NoKey THEN clients'[a] ELSE file[a]
  <2>1. /\ object'[clients'[a]].key = file'[a] /\ clients'[a] # NoClient
        /\ phoneLogin[a] = NoClient /\ qrLogin[a] = NoQr
    BY <1>0, <1>1, <1>5, ConnectEffect DEF Built, Owned
  <2>2. ASSUME Working(a) PROVE Working(a)'
    <3>1. file[a] \in valid /\ file[a] # NoKey
      BY <1>0, <2>2 DEF Working
    <3>2. file'[a] = file[a]
      BY <1>5, <2>1, <3>1
    <3>. QED
      BY <1>1, <1>5, <2>1, <3>1, <3>2 DEF Working, Authorized
  <2>3. ASSUME NEW k, Placed(a, k) PROVE Placed(a, k)'
    BY <1>5, <2>2, <2>3 DEF Placed
  <2>4. LoginsPlaced(a)'
    <3>1. qrLogin'[a].status # "authorized"
      BY <1>3, <2>1 DEF NoQr
    <3>2. phoneLogin'[a] \in {NoClient, clients'[a]} /\ qrLogin'[a].client \in {NoClient, clients'[a]}
      BY <1>2, <1>3, <2>1 DEF NoQr
    <3>. QED
      BY <2>1, <3>1, <3>2 DEF LoginsPlaced, Placed
  <2>. QED
    BY <2>2, <2>3, <2>4 DEF Steady
<1>. QED
  BY <1>0, <1>1, <1>4, <1>5, ConnectEffect

\* A login succeeds with a client that is placed: the account works.
LEMMA LoginWorks ==
  ASSUME EngineInv, NEW a \in Accounts, NEW k \in Clients, Placed(a, k), LoginsPlaced(a),
         QrPassword(a, k) \/ SignIn(a, k)
  PROVE  Working(a)'
<1>0. EngineTypeOK
  BY DEF EngineInv
<1>1. /\ object[k].up /\ valid' = valid \cup {object[k].key}
      /\ file' = file /\ object' = object
      /\ clients'[a] \in {clients[a], k}
  BY <1>0 DEF QrPassword, SignIn, EngineTypeOK
<1>2. k # NoClient
  BY ClientNumbers
<1>3. file[a] \in valid'
  BY <1>1, <1>2 DEF Placed, LoginsPlaced, Working
<1>4. clients[a] \in {NoClient, k} \/ Authorized(clients[a])
  BY <1>2 DEF Placed, Working
<1>6. clients'[a] # NoClient => object'[clients'[a]].up /\ object'[clients'[a]].key \in valid'
  BY <1>1, <1>2, <1>4 DEF Authorized
<1>. QED
  BY <1>1, <1>3, <1>6 DEF Working, Authorized

LEMMA WatchSteady ==
  ASSUME EngineInv, NEW a \in Accounts, NEW status, LoginsPlaced(a), WatchQr(a, status)
  PROVE  Steady(a) /\ LoginsPlaced(a)'
<1>. DEFINE k == qrLogin[a].client
<1>0. EngineTypeOK /\ Owned
  BY DEF EngineInv
<1>1. /\ qrLogin[a].status = "waiting"
      /\ status = "authorized" => object[k].up
      /\ qrLogin' = [qrLogin EXCEPT ![a].status = status]
      /\ valid' = IF status = "authorized" THEN valid \cup {object[k].key} ELSE valid
      /\ UNCHANGED <<clients, phoneLogin, object, file>>
  BY DEF WatchQr
<1>2. k # NoClient
  BY <1>0, <1>1 DEF Owned
<1>3. qrLogin'[a].client = k /\ qrLogin'[a].status = status
  <2>1. qrLogin \in [Accounts -> QrStates] /\ qrLogin[a] \in QrStates
    BY <1>0 DEF EngineTypeOK
  <2>. QED
    BY <1>1, <2>1 DEF QrStates
<1>4. CASE status = "authorized"
  <2>1. file[a] \in valid'
    BY <1>1, <1>2, <1>4 DEF LoginsPlaced, Placed, Working
  <2>2. clients[a] # NoClient => Authorized(clients[a])'
    BY <1>1, <1>2, <1>4 DEF LoginsPlaced, Placed, Working, Authorized
  <2>3. Working(a)'
    BY <1>1, <2>1, <2>2 DEF Working
  <2>. QED
    BY <2>3, WorkingSettles
<1>5. CASE status # "authorized"
  <2>1. Working(a)' <=> Working(a)
    BY <1>1, <1>5 DEF Working, Authorized
  <2>2. \A j : Placed(a, j)' <=> Placed(a, j)
    BY <1>1, <2>1 DEF Placed
  <2>3. LoginsPlaced(a)'
    BY <1>1, <1>3, <1>5, <2>1, <2>2 DEF LoginsPlaced, Placed
  <2>. QED
    BY <2>1, <2>2, <2>3 DEF Steady
<1>. QED
  BY <1>4, <1>5

LEMMA ImportWorks ==
  ASSUME EngineInv, NEW a \in Accounts, NEW p \in ProxyArgs, ImportSession(a, p, TRUE)
  PROVE  Working(a)'
<1>0. EngineTypeOK
  BY DEF EngineInv
<1>1. PICK k \in Clients :
            /\ Built(a, k)
            /\ object'[k].key = k
            /\ object'[k].up = TRUE
            /\ valid' = valid \cup {k}
            /\ clients' = [clients EXCEPT ![a] = k]
  BY <1>0, ImportEffect
<1>2. clients'[a] = k /\ file'[a] = k /\ k \in valid'
  BY <1>0, <1>1 DEF Built, EngineTypeOK
<1>. QED
  BY <1>1, <1>2 DEF Working, Authorized

LEMMA LogoutPlaced ==
  ASSUME EngineInv, NEW a \in Accounts, NEW yes \in BOOLEAN, Logout(a, yes)
  PROVE  LoginsPlaced(a)'
<1>1. clients'[a] = NoClient /\ phoneLogin'[a] = NoClient /\ qrLogin'[a] = NoQr
  BY LogoutEffect DEF EngineInv, EngineTypeOK
<1>. QED
  BY <1>1 DEF LoginsPlaced, Placed, NoQr

LEMMA RestartPlaced ==
  ASSUME EngineInv, NEW a \in Accounts, EngineRestart
  PROVE  LoginsPlaced(a)' /\ (Working(a) => Working(a)')
<1>1. /\ clients'[a] = NoClient /\ phoneLogin'[a] = NoClient /\ qrLogin'[a] = NoQr
      /\ file' = file /\ valid' = valid
  BY DEF EngineRestart
<1>. QED
  BY <1>1 DEF LoginsPlaced, Placed, NoQr, Working

LEMMA StillSteady ==
  ASSUME NEW a, UNCHANGED engine
  PROVE  Steady(a)
<1>1. Working(a)' <=> Working(a)
  BY DEF Working, Authorized, engine
<1>2. \A k : Placed(a, k)' <=> Placed(a, k)
  BY <1>1 DEF Placed, engine
<1>3. LoginsPlaced(a)' <=> LoginsPlaced(a)
  BY <1>1 DEF LoginsPlaced, Placed, engine
<1>. QED
  BY <1>1, <1>2, <1>3 DEF Steady

\* Requests that are not about proxies alone.
Engaged(a) == {r \in Requests : pc[r] # "idle" /\ mem[r].of = a /\ mem[r].op \notin {"create", "edit"}}

\* The account's session has ended, but the row does not say so yet.
Leaving(r) == mem[r].op \in {"logout", "delete"} /\ pc[r] # "call"

RequestSound(a, r) ==
    /\ mem[r].row.session = account[a].session
    /\ pc[r] = "finish" /\ mem[r].answer = "authorized" => Working(a)
    /\ pc[r] = "finish" /\ mem[r].op \in {"logout", "delete"} => mem[r].answer = "logged_out"
    /\ pc[r] = "locked" => Placed(a, mem[r].client)

\* An account whose logins have not overlapped: one request at a time, that knows the row;
\* and a session works unless that request is ending it.
Sound(a) ==
    /\ LoginsPlaced(a)
    /\ \A r, q \in Engaged(a) : r = q
    /\ \A r \in Engaged(a) : RequestSound(a, r)
    /\ account[a].session => Working(a) \/ \E r \in Engaged(a) : Leaving(r)

GoneOut == \A a \in Accounts : ~Exists(a) => ~account[a].session

LoginInv ==
    /\ GoneOut
    /\ \A a \in Accounts \ disturbed : Sound(a)

LEMMA InEngaged ==
  ASSUME NEW a, NEW r
  PROVE  /\ r \in Engaged(a) <=> /\ r \in Requests /\ pc[r] # "idle" /\ mem[r].of = a
                                 /\ mem[r].op \notin {"create", "edit"}
         /\ r \in Engaged(a)' <=> /\ r \in Requests /\ pc'[r] # "idle" /\ mem'[r].of = a
                                  /\ mem'[r].op \notin {"create", "edit"}
BY DEF Engaged

LEMMA SoundParts ==
  ASSUME NEW a,
         LoginsPlaced(a)',
         \A r, q \in Engaged(a)' : r = q,
         \A r \in Engaged(a)' :
            /\ mem'[r].row.session = account'[a].session
            /\ pc'[r] = "finish" /\ mem'[r].answer = "authorized" => Working(a)'
            /\ pc'[r] = "finish" /\ mem'[r].op \in {"logout", "delete"} => mem'[r].answer = "logged_out"
            /\ pc'[r] = "locked" => mem'[r].client \in {NoClient, clients'[a]} \/ Working(a)',
         account'[a].session => \/ Working(a)'
                                \/ \E r \in Engaged(a)' : mem'[r].op \in {"logout", "delete"} /\ pc'[r] # "call"
  PROVE  Sound(a)'
BY DEF Sound, RequestSound, Leaving, Placed

\* The requests of the account that go on go on as they were.
LEMMA SoundKept ==
  ASSUME NEW a, Sound(a), LoginsPlaced(a)', Working(a) => Working(a)',
         account'[a].session = account[a].session,
         \A q \in Engaged(a)' :
            /\ q \in Engaged(a) /\ mem'[q] = mem[q] /\ pc'[q] = pc[q]
            /\ pc[q] = "locked" => \A k : Placed(a, k) => Placed(a, k)',
         \A q \in Engaged(a) : Leaving(q) => q \in Engaged(a)'
  PROVE  Sound(a)'
<1>1. \A r, q \in Engaged(a)' : r = q
  BY DEF Sound
<1>2. ASSUME NEW q \in Engaged(a)'
      PROVE  /\ mem'[q].row.session = account'[a].session
             /\ pc'[q] = "finish" /\ mem'[q].answer = "authorized" => Working(a)'
             /\ pc'[q] = "finish" /\ mem'[q].op \in {"logout", "delete"} => mem'[q].answer = "logged_out"
             /\ pc'[q] = "locked" => mem'[q].client \in {NoClient, clients'[a]} \/ Working(a)'
  <2>1. q \in Engaged(a) /\ mem'[q] = mem[q] /\ pc'[q] = pc[q]
    OBVIOUS
  <2>2. RequestSound(a, q)
    BY <2>1 DEF Sound
  <2>3. pc[q] = "locked" => Placed(a, mem[q].client)'
    <3>1. ASSUME pc[q] = "locked", NEW k, Placed(a, k) PROVE k \in {NoClient, clients'[a]} \/ Working(a)'
      BY <1>2, <3>1 DEF Placed
    <3>. QED
      BY <2>1, <2>2, <3>1 DEF RequestSound, Placed
  <2>. QED
    BY <2>1, <2>2, <2>3 DEF RequestSound, Placed
<1>3. account'[a].session => \/ Working(a)'
                             \/ \E r \in Engaged(a)' : mem'[r].op \in {"logout", "delete"} /\ pc'[r] # "call"
  BY DEF Sound, Leaving
<1>. QED
  BY <1>1, <1>2, <1>3, SoundParts

LEMMA AllSteady ==
  ASSUME NEW a, Steady(a), Sound(a)
  PROVE  LoginsPlaced(a)' /\ (Working(a) => Working(a)') /\ \A k : Placed(a, k) => Placed(a, k)'
BY DEF Steady, Sound

LEMMA SoundStay ==
  ASSUME NEW a, Sound(a), Steady(a), account'[a].session = account[a].session,
         UNCHANGED <<pc, mem>>
  PROVE  Sound(a)'
<1>1. Engaged(a)' = Engaged(a)
  BY DEF Engaged
<1>. QED
  BY <1>1, AllSteady, SoundKept

\* A request moves that is none of the account's, or only about its proxy.
LEMMA SoundAside ==
  ASSUME RequestsOK, NEW a, NEW r \in Requests, NEW step, NEW m, To(r, step, m),
         Sound(a), Steady(a), account'[a].session = account[a].session,
         r \notin Engaged(a),
         step = "idle" \/ m.of # a \/ m.op \in {"create", "edit"}
  PROVE  Sound(a)'
<1>1. \A q \in Requests : /\ pc'[q] = (IF q = r THEN step ELSE pc[q])
                          /\ mem'[q] = (IF q = r THEN m ELSE mem[q])
  BY DEF To, RequestsOK
<1>2. \A q \in Requests : q # r => (q \in Engaged(a)' <=> q \in Engaged(a))
  BY <1>1, InEngaged
<1>3. r \notin Engaged(a)'
  BY <1>1, InEngaged
<1>4. \A q \in Engaged(a)' : q \in Engaged(a) /\ mem'[q] = mem[q] /\ pc'[q] = pc[q]
  BY <1>1, <1>2, <1>3, InEngaged
<1>5. \A q \in Engaged(a) : q \in Engaged(a)'
  BY <1>2, InEngaged
<1>. QED
  BY <1>4, <1>5, AllSteady, SoundKept

\* The account's request ends.
LEMMA SoundClose ==
  ASSUME RequestsOK, NEW a, NEW r \in Requests, Close(r), r \in Engaged(a), Sound(a),
         LoginsPlaced(a)', account'[a].session => Working(a)'
  PROVE  Sound(a)'
<1>1. \A q \in Requests : /\ pc'[q] = (IF q = r THEN "idle" ELSE pc[q])
                          /\ mem'[q] = (IF q = r THEN Forgotten ELSE mem[q])
  BY DEF Close, To, RequestsOK
<1>2. \A q \in Engaged(a) : q = r
  BY DEF Sound
<1>3. Engaged(a)' = {}
  BY <1>1, <1>2, InEngaged
<1>. QED
  BY <1>3, SoundParts

\* The account's request goes on.
LEMMA SoundMove ==
  ASSUME RequestsOK, NEW a, NEW r \in Requests, NEW step, NEW m, To(r, step, m),
         r \in Engaged(a), Sound(a), LoginsPlaced(a)',
         account'[a].session = account[a].session,
         step \notin {"idle", "call"}, m.of = a, m.op = mem[r].op, m.row = mem[r].row,
         step = "finish" /\ m.answer = "authorized" => Working(a)',
         step = "finish" /\ m.op \in {"logout", "delete"} => m.answer = "logged_out",
         step = "locked" => m.client \in {NoClient, clients'[a]} \/ Working(a)',
         m.op \notin {"logout", "delete"} => (Working(a) => Working(a)')
  PROVE  Sound(a)'
<1>1. \A q \in Requests : /\ pc'[q] = (IF q = r THEN step ELSE pc[q])
                          /\ mem'[q] = (IF q = r THEN m ELSE mem[q])
  BY DEF To, RequestsOK
<1>2. (\A q \in Engaged(a) : q = r) /\ RequestSound(a, r)
  BY DEF Sound
<1>3. \A q \in Engaged(a)' : q = r
  BY <1>1, <1>2, InEngaged
<1>4. r \in Engaged(a)' /\ mem'[r] = m /\ pc'[r] = step
  BY <1>1, InEngaged
<1>5. mem'[r].row.session = account'[a].session
  BY <1>2, <1>4 DEF RequestSound
<1>6. account'[a].session => \/ Working(a)'
                             \/ \E q \in Engaged(a)' : mem'[q].op \in {"logout", "delete"} /\ pc'[q] # "call"
  <2>1. CASE m.op \in {"logout", "delete"}
    BY <1>4, <2>1
  <2>2. CASE m.op \notin {"logout", "delete"}
    <3>1. \A q \in Engaged(a) : ~Leaving(q)
      BY <1>2, <2>2 DEF Leaving
    <3>. QED
      BY <2>2, <3>1 DEF Sound
  <2>. QED
    BY <2>1, <2>2
<1>7. \A q \in Engaged(a)' :
         /\ mem'[q].row.session = account'[a].session
         /\ pc'[q] = "finish" /\ mem'[q].answer = "authorized" => Working(a)'
         /\ pc'[q] = "finish" /\ mem'[q].op \in {"logout", "delete"} => mem'[q].answer = "logged_out"
         /\ pc'[q] = "locked" => mem'[q].client \in {NoClient, clients'[a]} \/ Working(a)'
  BY <1>3, <1>4, <1>5
<1>. QED
  BY <1>3, <1>6, <1>7, SoundParts

-----------------------------------------------------------------------------
(* What the requests do to accounts that are sound.                         *)

LEMMA AnswerFields ==
  ASSUME NEW m \in Memory, NEW x
  PROVE  /\ [m EXCEPT !.answer = x].op = m.op
         /\ [m EXCEPT !.answer = x].of = m.of
         /\ [m EXCEPT !.answer = x].row = m.row
         /\ [m EXCEPT !.answer = x].answer = x
BY DEF Memory

LEMMA ClientFields ==
  ASSUME NEW m \in Memory, NEW x
  PROVE  /\ [m EXCEPT !.client = x].op = m.op
         /\ [m EXCEPT !.client = x].of = m.of
         /\ [m EXCEPT !.client = x].row = m.row
         /\ [m EXCEPT !.client = x].client = x
BY DEF Memory

\* At the engine, a request stays its account's, and disturbs no other.
LEMMA EngineOthers ==
  ASSUME BaseInv, NEW r \in Requests, AtEngine(r), NEW b \in Accounts, b # Of(r)
  PROVE  /\ Steady(b)
         /\ \E step, m : To(r, step, m) /\ (step = "idle" \/ m.of = Of(r))
<1>. DEFINE Goal == /\ Steady(b)
                    /\ \E step, m : To(r, step, m) /\ (step = "idle" \/ m.of = Of(r))
<1>0. RequestsOK /\ EngineInv
  BY DEF BaseInv
<1>1. mem[r] \in Memory
  BY <1>0, AtStep
<1>2. ASSUME Steady(b), Close(r) PROVE Goal
  BY <1>2 DEF Close
<1>3. ASSUME Steady(b), NEW x, Answered(r, x) PROVE Goal
  <2>1. [mem[r] EXCEPT !.answer = x].of = Of(r)
    BY <1>1, AnswerFields DEF Of
  <2>. QED
    BY <1>3, <2>1 DEF Answered
<1>4. ASSUME Steady(b), Released(r) PROVE Goal
  BY <1>4 DEF Released, Of
<1>5. ASSUME Steady(b), NEW k, To(r, "locked", [mem[r] EXCEPT !.client = k]) PROVE Goal
  <2>1. [mem[r] EXCEPT !.client = k].of = Of(r)
    BY <1>1, ClientFields DEF Of
  <2>. QED
    BY <1>5, <2>1
<1>6. ASSUME UNCHANGED engine PROVE Steady(b)
  BY <1>6, StillSteady
<1>7. ASSUME pc[r] \in {"call", "locked"}
      PROVE  /\ Of(r) \in Accounts /\ mem[r].row.proxy \in ProxyArgs
             /\ pc[r] = "locked" => mem[r].client \in Clients
  BY <1>0, <1>7, AtCall
<1>. HIDE DEF Goal
<1>8. ASSUME CallQr(r) PROVE Goal
  <2>1. pc[r] = "call" /\ QrStart(Of(r), mem[r].row.proxy) /\ Close(r)
    BY <1>8 DEF CallQr, Calls
  <2>. QED
    BY <1>0, <1>2, <1>7, <2>1, ConnectingOthers
<1>9. ASSUME CallPoll(r) PROVE Goal
  BY <1>2, <1>3, <1>6, <1>9 DEF CallPoll
<1>10. ASSUME CallCode(r) PROVE Goal
  <2>1. pc[r] = "call" /\ SendCode(Of(r), mem[r].row.proxy) /\ Close(r)
    BY <1>10 DEF CallCode, Calls
  <2>. QED
    BY <1>0, <1>2, <1>7, <2>1, ConnectingOthers
<1>11. ASSUME CallPick(r) PROVE Goal
  BY <1>2, <1>5, <1>6, <1>11 DEF CallPick
<1>12. ASSUME SubmitPassword(r) PROVE Goal
  <2>1. pc[r] = "locked" /\ QrPassword(Of(r), mem[r].client) /\ Answered(r, "authorized")
    BY <1>12 DEF SubmitPassword
  <2>. QED
    BY <1>0, <1>3, <1>7, <2>1, LoginOthers
<1>13. ASSUME SubmitCode(r) PROVE Goal
  <2>1. pc[r] = "locked" /\ SignIn(Of(r), mem[r].client) /\ Answered(r, "authorized")
    BY <1>13 DEF SubmitCode
  <2>. QED
    BY <1>0, <1>3, <1>7, <2>1, LoginOthers
<1>14. ASSUME Rejected(r) PROVE Goal
  BY <1>2, <1>6, <1>14 DEF Rejected
<1>15. ASSUME CallReconnect(r) PROVE Goal
  <2>1. pc[r] = "call" /\ StartClient(Of(r), mem[r].row.proxy) /\ Close(r)
    BY <1>15 DEF CallReconnect, Calls
  <2>. QED
    BY <1>0, <1>2, <1>7, <2>1, ConnectingOthers
<1>16. ASSUME Rebind(r) PROVE Goal
  <2>1. pc[r] = "rebind" /\ StartClient(Of(r), mem[r].proxy) /\ Close(r)
    BY <1>16 DEF Rebind
  <2>2. Of(r) \in Accounts /\ mem[r].proxy \in ProxyArgs
    BY <1>0, <2>1, AtStep, MemoryFields DEF StepOk, Of
  <2>. QED
    BY <1>0, <1>2, <2>1, <2>2, ConnectingOthers
<1>17. ASSUME Unreachable(r) PROVE Goal
  BY <1>2, <1>4, <1>6, <1>17 DEF Unreachable
<1>18. ASSUME NEW yes \in BOOLEAN, CallImport(r, yes) PROVE Goal
  <2>1. pc[r] = "call" /\ ImportSession(Of(r), mem[r].row.proxy, yes)
        /\ (Answered(r, "authorized") \/ Close(r))
    BY <1>18 DEF CallImport, Calls
  <2>2. Steady(b)
    BY <1>0, <1>7, <2>1, ImportOthers
  <2>. QED
    BY <1>2, <1>3, <2>1, <2>2
<1>19. ASSUME NEW yes \in BOOLEAN, CallLogout(r, yes) PROVE Goal
  <2>1. pc[r] = "call" /\ Logout(Of(r), yes) /\ (Released(r) \/ Answered(r, "logged_out"))
    BY <1>19 DEF CallLogout, Calls
  <2>2. Steady(b)
    BY <1>0, <1>7, <2>1, LogoutOthers
  <2>. QED
    BY <1>3, <1>4, <2>1, <2>2
<1>20. ASSUME NEW verdict, CallCheck(r, verdict) PROVE Goal
  <2>1. pc[r] = "call" /\ StartClient(Of(r), mem[r].row.proxy) /\ (Close(r) \/ Answered(r, verdict))
    BY <1>20 DEF CallCheck, Calls
  <2>2. Steady(b)
    BY <1>0, <1>7, <2>1, ConnectingOthers
  <2>. QED
    BY <1>2, <1>3, <2>1, <2>2
<1>21. Goal
  BY <1>8, <1>9, <1>10, <1>11, <1>12, <1>13, <1>14, <1>15, <1>16, <1>17, <1>18, <1>19, <1>20
  DEF AtEngine
<1>. QED
  BY <1>21 DEF Goal

\* A request that ends at the engine without an answer.
LEMMA OwnClose ==
  ASSUME BaseInv, NEW r \in Requests, NEW a \in Accounts, Of(r) = a, Sound(a), Steady(a), Close(r),
         UNCHANGED tables, ~(r \in Engaged(a) /\ Leaving(r))
  PROVE  Sound(a)'
<1>1. account'[a].session = account[a].session /\ RequestsOK
  BY DEF tables, BaseInv
<1>2. CASE r \notin Engaged(a)
  BY <1>1, <1>2, SoundAside DEF Close
<1>3. CASE r \in Engaged(a)
  <2>1. \A q \in Engaged(a) : ~Leaving(q)
    BY <1>3 DEF Sound
  <2>2. account'[a].session => Working(a)'
    BY <1>1, <2>1, AllSteady DEF Sound
  <2>. QED
    BY <1>1, <1>3, <2>2, AllSteady, SoundClose
<1>. QED
  BY <1>2, <1>3

\* A request that is answered at the engine.
LEMMA OwnAnswer ==
  ASSUME BaseInv, NEW r \in Requests, NEW a \in Accounts, Of(r) = a, Sound(a), LoginsPlaced(a)',
         pc[r] \in {"call", "locked"}, NEW x, Answered(r, x), UNCHANGED tables,
         x = "authorized" => Working(a)',
         mem[r].op \in {"logout", "delete"} => x = "logged_out",
         mem[r].op \notin {"logout", "delete"} => (Working(a) => Working(a)')
  PROVE  Sound(a)'
<1>1. account'[a].session = account[a].session /\ RequestsOK
  BY DEF tables, BaseInv
<1>2. mem[r] \in Memory /\ mem[r].op \notin {"create", "edit"}
  BY <1>1, AtCall
<1>3. r \in Engaged(a)
  BY <1>2, InEngaged DEF Of
<1>. DEFINE n == [mem[r] EXCEPT !.answer = x]
<1>4. n.op = mem[r].op /\ n.of = a /\ n.row = mem[r].row /\ n.answer = x
  BY <1>2, AnswerFields DEF Of
<1>5. To(r, "finish", n)
  BY DEF Answered
<1>. HIDE DEF n
<1>. QED
  BY <1>1, <1>3, <1>4, <1>5, SoundMove

\* delete_account goes on to the tables.
LEMMA OwnReleased ==
  ASSUME BaseInv, NEW r \in Requests, NEW a \in Accounts, Of(r) = a, Sound(a), LoginsPlaced(a)',
         pc[r] = "call", mem[r].op = "delete", Released(r), UNCHANGED tables
  PROVE  Sound(a)'
<1>1. account'[a].session = account[a].session /\ RequestsOK
  BY DEF tables, BaseInv
<1>2. r \in Engaged(a)
  BY InEngaged DEF Of
<1>. DEFINE step == IF mem[r].row.proxy = NoProxy THEN "drop" ELSE "release"
<1>3. step \in {"drop", "release"} /\ To(r, step, mem[r])
  BY DEF Released
<1>. HIDE DEF step
<1>4. mem[r].of = a
  BY DEF Of
<1>. QED
  BY <1>1, <1>2, <1>3, <1>4, SoundMove

LEMMA PickSound ==
  ASSUME BaseInv, NEW r \in Requests, NEW a \in Accounts, Of(r) = a, Sound(a), CallPick(r)
  PROVE  Sound(a)'
<1>. DEFINE k == IF mem[r].op = "password" THEN qrLogin[a].client ELSE PickForSignIn(a)
            n == [mem[r] EXCEPT !.client = k]
<1>1. /\ pc[r] = "call" /\ mem[r].op \in {"password", "sign_in"}
      /\ UNCHANGED <<engine, tables>>
      /\ IF k = NoClient THEN Close(r) ELSE To(r, "locked", n)
  BY DEF CallPick, Calls
<1>2. RequestsOK /\ mem[r] \in Memory /\ Steady(a) /\ account'[a].session = account[a].session
  BY <1>1, AtStep, StillSteady DEF BaseInv, tables
<1>3. r \in Engaged(a) /\ ~Leaving(r)
  BY <1>1, InEngaged DEF Of, Leaving
<1>4. Placed(a, k)
  BY DEF Sound, LoginsPlaced, PickForSignIn, Placed
<1>5. CASE k = NoClient
  BY <1>1, <1>2, <1>3, <1>5, OwnClose
<1>6. CASE k # NoClient
  <2>1. To(r, "locked", n)
    BY <1>1, <1>6
  <2>2. n.op = mem[r].op /\ n.of = a /\ n.row = mem[r].row /\ n.client = k
    BY <1>2, ClientFields DEF Of
  <2>. HIDE DEF k
  <2>3. (Working(a) => Working(a)') /\ LoginsPlaced(a)'
    BY <1>2, AllSteady
  <2>4. k \in {NoClient, clients'[a]} \/ Working(a)'
    <3>1. ASSUME NEW j, Placed(a, j) PROVE j \in {NoClient, clients'[a]} \/ Working(a)'
      <4>1. Placed(a, j)'
        BY <1>2, <3>1, AllSteady
      <4>. QED
        BY <4>1 DEF Placed
    <3>. QED
      BY <1>4, <3>1
  <2>. HIDE DEF n
  <2>. QED
    BY <1>1, <1>2, <1>3, <2>1, <2>2, <2>3, <2>4, SoundMove
<1>. QED
  BY <1>5, <1>6

LEMMA EngineOwn ==
  ASSUME BaseInv, NEW r \in Requests, AtEngine(r), NEW a \in Accounts, Of(r) = a, Sound(a),
         a \notin disturbed'
  PROVE  Sound(a)'
<1>0. RequestsOK /\ EngineInv
  BY DEF BaseInv
<1>1. UNCHANGED tables
  BY EngineMoves
<1>2. ASSUME pc[r] \in {"call", "locked"}
      PROVE  /\ mem[r].row.proxy \in ProxyArgs
             /\ pc[r] = "locked" => mem[r].client \in Clients
  BY <1>0, <1>2, AtCall
<1>3. ASSUME UNCHANGED engine PROVE Steady(a)
  BY <1>3, StillSteady
<1>4. ASSUME pc[r] = "call" PROVE ~Leaving(r)
  BY <1>4 DEF Leaving
<1>5. ASSUME pc[r] = "locked"
      PROVE  /\ mem[r].op \in {"password", "sign_in"} /\ ~Leaving(r) /\ r \in Engaged(a)
             /\ Placed(a, mem[r].client)
  <2>1. mem[r].op \in {"password", "sign_in"}
    BY <1>0, <1>5, AtStep DEF StepOk
  <2>2. r \in Engaged(a)
    BY <1>5, <2>1, InEngaged DEF Of
  <2>. QED
    BY <1>5, <2>1, <2>2 DEF Sound, RequestSound, Leaving
<1>6. LoginsPlaced(a)
  BY DEF Sound
<1>8. ASSUME CallQr(r) PROVE Sound(a)'
  <2>1. pc[r] = "call" /\ QrStart(a, mem[r].row.proxy) /\ Close(r)
    BY <1>8 DEF CallQr, Calls
  <2>2. Steady(a)
    BY <1>0, <1>2, <2>1, ConnectingOwn
  <2>. QED
    BY <1>1, <1>4, <2>1, <2>2, OwnClose
<1>9. ASSUME CallPoll(r) PROVE Sound(a)'
  <2>1. /\ pc[r] = "call" /\ mem[r].op = "poll" /\ UNCHANGED engine
        /\ IF Scanned(a) THEN Answered(r, "authorized") ELSE Close(r)
    BY <1>9 DEF CallPoll, Calls
  <2>2. Steady(a)
    BY <1>3, <2>1
  <2>3. CASE Scanned(a)
    <3>1. Working(a)
      BY <1>6, <2>3 DEF Scanned, LoginsPlaced
    <3>2. Working(a)' /\ LoginsPlaced(a)'
      BY <2>2, <3>1, AllSteady
    <3>. QED
      BY <1>1, <2>1, <2>3, <3>2, OwnAnswer
  <2>4. CASE ~Scanned(a)
    BY <1>1, <1>4, <2>1, <2>2, <2>4, OwnClose
  <2>. QED
    BY <2>3, <2>4
<1>10. ASSUME CallCode(r) PROVE Sound(a)'
  <2>1. pc[r] = "call" /\ SendCode(a, mem[r].row.proxy) /\ Close(r)
    BY <1>10 DEF CallCode, Calls
  <2>2. Steady(a)
    BY <1>0, <1>2, <2>1, ConnectingOwn
  <2>. QED
    BY <1>1, <1>4, <2>1, <2>2, OwnClose
<1>11. ASSUME CallPick(r) PROVE Sound(a)'
  BY <1>11, PickSound
<1>12. ASSUME SubmitPassword(r) \/ SubmitCode(r) PROVE Sound(a)'
  <2>1. /\ pc[r] = "locked" /\ Answered(r, "authorized")
        /\ QrPassword(a, mem[r].client) \/ SignIn(a, mem[r].client)
    BY <1>12 DEF SubmitPassword, SubmitCode
  <2>2. Working(a)'
    BY <1>0, <1>2, <1>5, <1>6, <2>1, LoginWorks
  <2>3. LoginsPlaced(a)'
    BY <2>2, WorkingSettles
  <2>. QED
    BY <1>1, <1>5, <2>1, <2>2, <2>3, OwnAnswer
<1>14. ASSUME Rejected(r) PROVE Sound(a)'
  <2>1. pc[r] = "locked" /\ Close(r) /\ UNCHANGED engine
    BY <1>14 DEF Rejected
  <2>. QED
    BY <1>1, <1>3, <1>5, <2>1, OwnClose
<1>15. ASSUME CallReconnect(r) PROVE Sound(a)'
  <2>1. pc[r] = "call" /\ StartClient(a, mem[r].row.proxy) /\ Close(r)
    BY <1>15 DEF CallReconnect, Calls
  <2>2. Steady(a)
    BY <1>0, <1>2, <2>1, ConnectingOwn
  <2>. QED
    BY <1>1, <1>4, <2>1, <2>2, OwnClose
<1>16. ASSUME Rebind(r) PROVE Sound(a)'
  <2>1. pc[r] = "rebind" /\ StartClient(a, mem[r].proxy) /\ Close(r)
    BY <1>16 DEF Rebind
  <2>2. mem[r].proxy \in ProxyArgs /\ mem[r].op = "edit"
    BY <1>0, <2>1, AtStep, MemoryFields DEF StepOk
  <2>3. Steady(a)
    BY <1>0, <2>1, <2>2, ConnectingOwn
  <2>4. r \notin Engaged(a)
    BY <2>2, InEngaged
  <2>. QED
    BY <1>1, <2>1, <2>3, <2>4, OwnClose
<1>17. ASSUME Unreachable(r) PROVE Sound(a)'
  <2>1. /\ pc[r] = "call" /\ UNCHANGED engine
        /\ IF mem[r].op = "delete" THEN Released(r) ELSE Close(r)
    BY <1>17 DEF Unreachable
  <2>2. Steady(a) /\ LoginsPlaced(a)'
    BY <1>3, <2>1, AllSteady
  <2>3. CASE mem[r].op = "delete"
    BY <1>1, <2>1, <2>2, <2>3, OwnReleased
  <2>4. CASE mem[r].op # "delete"
    BY <1>1, <1>4, <2>1, <2>2, <2>4, OwnClose
  <2>. QED
    BY <2>3, <2>4
<1>18. ASSUME NEW yes \in BOOLEAN, CallImport(r, yes) PROVE Sound(a)'
  <2>1. /\ pc[r] = "call" /\ mem[r].op = "import" /\ ImportSession(a, mem[r].row.proxy, yes)
        /\ Doubt(a, ~yes)
        /\ IF yes THEN Answered(r, "authorized") ELSE Close(r)
    BY <1>18 DEF CallImport, Calls
  <2>2. yes = TRUE
    BY <2>1 DEF Doubt
  <2>3. Working(a)'
    BY <1>0, <1>2, <2>1, <2>2, ImportWorks
  <2>4. LoginsPlaced(a)'
    BY <2>3, WorkingSettles
  <2>. QED
    BY <1>1, <2>1, <2>2, <2>3, <2>4, OwnAnswer
<1>19. ASSUME NEW yes \in BOOLEAN, CallLogout(r, yes) PROVE Sound(a)'
  <2>1. /\ pc[r] = "call" /\ mem[r].op \in {"logout", "delete"} /\ Logout(a, yes)
        /\ IF mem[r].op = "delete" THEN Released(r) ELSE Answered(r, "logged_out")
    BY <1>19 DEF CallLogout, Calls
  <2>2. LoginsPlaced(a)'
    BY <1>0, <2>1, LogoutPlaced
  <2>3. CASE mem[r].op = "delete"
    BY <1>1, <2>1, <2>2, <2>3, OwnReleased
  <2>4. CASE mem[r].op = "logout"
    BY <1>1, <2>1, <2>2, <2>4, OwnAnswer
  <2>. QED
    BY <2>1, <2>3, <2>4
<1>20. ASSUME NEW verdict \in {"clean", "limited", "banned", "logged_out"}, CallCheck(r, verdict)
       PROVE Sound(a)'
  <2>1. /\ pc[r] = "call" /\ mem[r].op = "check" /\ StartClient(a, mem[r].row.proxy)
        /\ IF verdict = "clean" THEN Close(r) ELSE Answered(r, verdict)
    BY <1>20 DEF CallCheck, Calls
  <2>2. Steady(a)
    BY <1>0, <1>2, <2>1, ConnectingOwn
  <2>3. CASE verdict = "clean"
    BY <1>1, <1>4, <2>1, <2>2, <2>3, OwnClose
  <2>4. CASE verdict # "clean"
    BY <1>1, <2>1, <2>2, <2>4, AllSteady, OwnAnswer
  <2>. QED
    BY <2>3, <2>4
<1>. QED
  BY <1>8, <1>9, <1>10, <1>11, <1>12, <1>14, <1>15, <1>16, <1>17, <1>18, <1>19, <1>20
  DEF AtEngine

-----------------------------------------------------------------------------
(* The invariant LoginInv.                                                  *)

\* A row is written: an account that is gone still has no session.
LEMMA GoneKept ==
  ASSUME GoneOut, NEW a \in Accounts, NEW s, NEW y, NEW p, RowIs(a, s, y, p),
         s \in {"none", "gone"} => y = FALSE
  PROVE  GoneOut'
<1>1. ASSUME NEW b \in Accounts, ~Exists(b)' PROVE ~account'[b].session
  <2>1. CASE b = a
    BY <1>1, <2>1 DEF RowIs, Exists
  <2>2. CASE b # a
    <3>1. account'[b] = account[b]
      BY <2>2 DEF RowIs
    <3>. QED
      BY <1>1, <3>1 DEF GoneOut, Exists
  <2>. QED
    BY <2>1, <2>2
<1>. QED
  BY <1>1 DEF GoneOut

LEMMA GoneStays ==
  ASSUME GoneOut, account' = account
  PROVE  GoneOut'
BY DEF GoneOut, Exists

\* The sessions of all rows are what they were.
LEMMA RowSessions ==
  ASSUME NEW a \in Accounts, NEW s, NEW p, RowIs(a, s, account[a].session, p), NEW b \in Accounts
  PROVE  account'[b].session = account[b].session
BY DEF RowIs

LEMMA CreateTo ==
  ASSUME BaseInv, NEW r \in Requests, NEW a \in Accounts, NEW assign \in BOOLEAN,
         CreateAccount(r, a, assign)
  PROVE  UNCHANGED <<pc, mem>> \/ \E m : To(r, "pick", m) /\ m.op = "create"
<1>. DEFINE l == Loaded(a, "create")
            row == [l.row EXCEPT !.status = "logged_out"]
            m == [l EXCEPT !.row.status = "logged_out"]
<1>1. l \in Memory /\ l.op = "create"
  BY LoadedOk DEF BaseInv, Operations
<1>2. IF assign THEN To(r, "pick", m) ELSE UNCHANGED <<pc, mem>>
  BY DEF CreateAccount
<1>3. l.row \in Rows
  BY <1>1, MemoryFields
<1>4. m = [l EXCEPT !.row = row]
  BY <1>1, <1>3 DEF Memory
<1>. HIDE DEF l, row, m
<1>5. m.op = "create"
  BY <1>1, <1>4 DEF Memory
<1>. QED
  BY <1>2, <1>5

LEMMA UpdateTo ==
  ASSUME BaseInv, NEW r \in Requests, NEW a \in Accounts, NEW p \in ProxyArgs,
         UpdateAccount(r, a, p)
  PROVE  \E step, m : To(r, step, m) /\ m.op = "edit"
<1>. DEFINE l == Loaded(a, "edit")
            h == IF p = NoProxy THEN NoAccount ELSE holder[p]
            m == [l EXCEPT !.proxy = p, !.held = h]
            step == IF account[a].proxy # NoProxy THEN "release"
                    ELSE IF p = NoProxy THEN "pick" ELSE "bind"
<1>1. l \in Memory /\ l.op = "edit"
  BY LoadedOk DEF BaseInv, Operations
<1>2. To(r, step, m)
  BY DEF UpdateAccount
<1>. HIDE DEF l, h, step
<1>3. m.op = "edit"
  BY <1>1 DEF Memory
<1>. HIDE DEF m
<1>. QED
  BY <1>2, <1>3

\* A request that asks the engine: the only one of its account, or the account is in doubt.
LEMMA BeginSound ==
  ASSUME BaseInv, NEW r \in Requests, NEW a \in Accounts,
         NEW op \in Operations \ {"create", "edit", "override", "quarantine", "revoke"},
         Begin(r, a, op), Sound(a), a \notin disturbed'
  PROVE  Sound(a)'
<1>1. /\ pc[r] = "idle" /\ To(r, "call", Loaded(a, op)) /\ UNCHANGED <<engine, tables>>
      /\ Doubt(a, \E q \in Pending(a) : mem[q].op \notin {"create", "edit"})
  BY DEF Begin, Start
<1>2. /\ Loaded(a, op).op = op /\ Loaded(a, op).of = a /\ Loaded(a, op).row = account[a]
      /\ op \notin {"create", "edit"}
  BY LoadedOk DEF BaseInv
<1>3. Engaged(a) = {}
  <2>1. ~ \E q \in Pending(a) : mem[q].op \notin {"create", "edit"}
    BY <1>1 DEF Doubt
  <2>. QED
    BY <2>1 DEF Engaged, Pending, Of
<1>4. \A q \in Requests : /\ pc'[q] = (IF q = r THEN "call" ELSE pc[q])
                          /\ mem'[q] = (IF q = r THEN Loaded(a, op) ELSE mem[q])
  BY <1>1 DEF To, BaseInv, RequestsOK
<1>5. \A q \in Engaged(a)' : q = r
  BY <1>3, <1>4, InEngaged
<1>6. r \in Engaged(a)' /\ pc'[r] = "call" /\ mem'[r].row = account[a]
  BY <1>2, <1>4, InEngaged
<1>7. account' = account
  BY <1>1 DEF tables
<1>8. LoginsPlaced(a)' /\ (Working(a) => Working(a)')
  BY <1>1, StillSteady, AllSteady
<1>9. account'[a].session => Working(a)'
  BY <1>3, <1>7, <1>8 DEF Sound
<1>. QED
  BY <1>5, <1>6, <1>7, <1>8, <1>9, SoundParts

LEMMA RequestedLogin ==
  ASSUME BaseInv, LoginInv, NEW r \in Requests, Requested(r)
  PROVE  LoginInv'
<1>0. GoneOut /\ RequestsOK /\ \A b \in Accounts \ disturbed : Sound(b)
  BY DEF LoginInv, BaseInv
<1>1. ASSUME NEW a \in Accounts, NEW assign \in BOOLEAN, CreateAccount(r, a, assign)
      PROVE  LoginInv'
  <2>1. /\ RowIs(a, "logged_out", account[a].session, account[a].proxy)
        /\ UNCHANGED engine /\ disturbed' = disturbed /\ pc[r] = "idle"
    BY <1>1, CreateTables DEF CreateAccount, Start, observed
  <2>2. ASSUME NEW b \in Accounts \ disturbed' PROVE Sound(b)'
    <3>1. Sound(b) /\ Steady(b) /\ account'[b].session = account[b].session /\ r \notin Engaged(b)
      BY <1>0, <2>1, StillSteady, RowSessions, InEngaged
    <3>2. CASE UNCHANGED <<pc, mem>>
      BY <3>1, <3>2, SoundStay
    <3>3. ASSUME NEW m, To(r, "pick", m), m.op = "create" PROVE Sound(b)'
      BY <1>0, <3>1, <3>3, SoundAside
    <3>. QED
      BY <1>1, <3>2, <3>3, CreateTo
  <2>3. GoneOut'
    BY <1>0, <2>1, GoneKept
  <2>. QED
    BY <2>2, <2>3 DEF LoginInv
<1>2. ASSUME NEW a \in Accounts, NEW p \in ProxyArgs, UpdateAccount(r, a, p)
      PROVE  LoginInv'
  <2>1. UNCHANGED engine /\ account' = account /\ disturbed' = disturbed /\ pc[r] = "idle"
    BY <1>2 DEF UpdateAccount, Start, tables, observed
  <2>2. PICK step, m : To(r, step, m) /\ m.op = "edit"
    BY <1>2, UpdateTo
  <2>3. ASSUME NEW b \in Accounts \ disturbed' PROVE Sound(b)'
    <3>1. Sound(b) /\ Steady(b) /\ account'[b].session = account[b].session /\ r \notin Engaged(b)
      BY <1>0, <2>1, StillSteady, InEngaged
    <3>. QED
      BY <1>0, <2>2, <3>1, SoundAside
  <2>. QED
    BY <1>0, <2>1, <2>3, GoneStays DEF LoginInv
<1>3. ASSUME NEW a \in Accounts,
             NEW op \in Operations \ {"create", "edit", "override", "quarantine", "revoke"},
             Begin(r, a, op)
      PROVE  LoginInv'
  <2>1. /\ UNCHANGED engine /\ account' = account /\ pc[r] = "idle" /\ disturbed \subseteq disturbed'
        /\ To(r, "call", Loaded(a, op)) /\ Loaded(a, op).of = a
    BY <1>3, LoadedOk DEF Begin, Start, tables, Doubt, BaseInv
  <2>2. ASSUME NEW b \in Accounts \ disturbed' PROVE Sound(b)'
    <3>1. Sound(b) /\ Steady(b) /\ account'[b].session = account[b].session /\ r \notin Engaged(b)
      BY <1>0, <2>1, StillSteady, InEngaged
    <3>2. CASE b = a
      BY <1>3, <2>2, <3>1, <3>2, BeginSound
    <3>3. CASE b # a
      BY <1>0, <2>1, <3>1, <3>3, SoundAside
    <3>. QED
      BY <3>2, <3>3
  <2>. QED
    BY <1>0, <2>1, <2>2, GoneStays DEF LoginInv
<1>. QED
  BY <1>1, <1>2, <1>3 DEF Requested, ProxyArgs

LEMMA AtEngineLogin ==
  ASSUME BaseInv, LoginInv, NEW r \in Requests, AtEngine(r)
  PROVE  LoginInv'
<1>0. GoneOut /\ RequestsOK /\ \A b \in Accounts \ disturbed : Sound(b)
  BY DEF LoginInv, BaseInv
<1>1. account' = account /\ disturbed \subseteq disturbed'
  BY EngineMoves DEF tables
<1>2. ASSUME NEW b \in Accounts \ disturbed' PROVE Sound(b)'
  <2>1. Sound(b) /\ b \in Accounts
    BY <1>0, <1>1
  <2>2. CASE b = Of(r)
    BY <1>2, <2>1, <2>2, EngineOwn
  <2>3. CASE b # Of(r)
    <3>1. Steady(b) /\ \E step, m : To(r, step, m) /\ (step = "idle" \/ m.of = Of(r))
      BY <2>1, <2>3, EngineOthers
    <3>2. PICK step, m : To(r, step, m) /\ (step = "idle" \/ m.of = Of(r))
      BY <3>1
    <3>3. r \notin Engaged(b) /\ account'[b].session = account[b].session
      BY <1>1, <2>3, InEngaged DEF Of
    <3>. QED
      BY <1>0, <2>1, <2>3, <3>1, <3>2, <3>3, SoundAside
  <2>. QED
    BY <2>2, <2>3
<1>. QED
  BY <1>0, <1>1, <1>2, GoneStays DEF LoginInv

\* A request of account a moves at the tables, leaving every session as it is: nothing
\* changes for the others, nor for a if it is only about a's proxy.
LEMMA TablesAside ==
  ASSUME BaseInv, LoginInv, NEW r \in Requests, UNCHANGED engine, disturbed' = disturbed,
         NEW step, NEW m, To(r, step, m), step = "idle" \/ m.of = Of(r),
         NEW b \in Accounts \ disturbed', account'[b].session = account[b].session,
         b # Of(r) \/ /\ mem[r].op \in {"create", "edit"}
                      /\ step = "idle" \/ m.op = mem[r].op
  PROVE  Sound(b)'
<1>1. RequestsOK /\ Sound(b) /\ Steady(b)
  BY StillSteady DEF BaseInv, LoginInv
<1>2. r \notin Engaged(b)
  BY InEngaged DEF Of
<1>. QED
  BY <1>1, <1>2, SoundAside DEF Of

\* A request that is not about proxies alone is the only one of its account.
LEMMA IsEngaged ==
  ASSUME BaseInv, LoginInv, NEW r \in Requests, NEW b \in Accounts \ disturbed,
         Of(r) = b, mem[r].op \notin {"create", "edit"}, pc[r] # "idle"
  PROVE  r \in Engaged(b) /\ RequestSound(b, r) /\ Sound(b) /\ LoginsPlaced(b)
<1>1. Sound(b)
  BY DEF LoginInv
<1>2. r \in Engaged(b)
  BY InEngaged DEF Of
<1>. QED
  BY <1>1, <1>2 DEF Sound

\* It ends, and the row says what has become of the session.
LEMMA TablesEnd ==
  ASSUME BaseInv, LoginInv, NEW r \in Requests, UNCHANGED engine, Close(r),
         NEW b \in Accounts \ disturbed, Of(r) = b, mem[r].op \notin {"create", "edit"},
         pc[r] # "idle", account'[b].session => Working(b)
  PROVE  Sound(b)'
<1>1. r \in Engaged(b) /\ Sound(b) /\ RequestsOK
  BY IsEngaged DEF BaseInv
<1>2. LoginsPlaced(b)' /\ (Working(b) => Working(b)')
  BY <1>1, StillSteady, AllSteady
<1>. QED
  BY <1>1, <1>2, SoundClose

LEMMA ReleaseLogin ==
  ASSUME BaseInv, LoginInv, NEW r \in Requests, ReleaseProxy(r)
  PROVE  LoginInv'
<1>. DEFINE m == mem[r]
            n == IF m.proxy = m.row.proxy THEN [m EXCEPT !.held = NoAccount] ELSE m
<1>0. GoneOut /\ m \in Memory /\ StepOk("release", m)
  BY AtStep DEF LoginInv, BaseInv, ReleaseProxy
<1>1. UNCHANGED engine /\ disturbed' = disturbed /\ ReleaseEffect(r) /\ pc[r] = "release"
  BY ReleaseEffects
<1>2. m.of \in Accounts /\ m.op \in {"edit", "delete"}
  BY <1>0 DEF StepOk
<1>3. \A b \in Accounts : account'[b].session = account[b].session
  BY <1>1, <1>2, RowSessions DEF ReleaseEffect, tables
<1>4. GoneOut'
  <2>1. CASE ~Exists(m.of)
    BY <1>0, <1>1, <2>1, GoneStays DEF ReleaseEffect, tables
  <2>2. CASE Exists(m.of)
    <3>1. RowIs(m.of, account[m.of].status, account[m.of].session, NoProxy)
      BY <1>1, <2>2 DEF ReleaseEffect
    <3>2. account[m.of].status \notin {"none", "gone"}
      BY <2>2 DEF Exists
    <3>. QED
      BY <1>0, <1>2, <3>1, <3>2, GoneKept
  <2>. QED
    BY <2>1, <2>2
<1>5. /\ n.op = m.op /\ n.of = m.of
      /\ \/ Close(r) /\ (m.op = "delete" => ~Exists(m.of))
         \/ m.op = "delete" /\ To(r, "drop", m)
         \/ m.op # "delete" /\ To(r, "bind", n)
         \/ m.op # "delete" /\ To(r, "rebind", m)
  <2>1. n.op = m.op /\ n.of = m.of
    BY <1>0 DEF Memory
  <2>. QED
    BY <2>1 DEF ReleaseProxy
<1>6. ASSUME NEW b \in Accounts \ disturbed' PROVE Sound(b)'
  <2>1. CASE b # Of(r) \/ m.op # "delete"
    <3>1. b # Of(r) \/ mem[r].op \in {"create", "edit"}
      BY <1>2, <2>1
    <3>2. \/ Close(r)
          \/ To(r, "drop", m)
          \/ To(r, "bind", n)
          \/ To(r, "rebind", m)
      BY <1>5
    <3>3. CASE Close(r)
      BY <1>1, <1>3, <1>6, <3>1, <3>3, TablesAside DEF Close
    <3>4. ASSUME NEW step, NEW x, To(r, step, x), x.of = m.of, x.op = m.op PROVE Sound(b)'
      BY <1>1, <1>3, <1>6, <3>1, <3>4, TablesAside DEF Of
    <3>. QED
      BY <1>5, <3>2, <3>3, <3>4
  <2>2. CASE b = Of(r) /\ m.op = "delete"
    <3>1. r \in Engaged(b) /\ Sound(b) /\ b \in Accounts \ disturbed
      BY <1>1, <1>6, <2>2, IsEngaged
    <3>2. LoginsPlaced(b)' /\ RequestsOK
      BY <1>1, <3>1, StillSteady, AllSteady DEF BaseInv
    <3>3. CASE Close(r) /\ ~Exists(b)
      <4>1. ~account'[b].session
        BY <1>0, <1>3, <1>6, <3>3 DEF GoneOut
      <4>. QED
        BY <1>1, <2>2, <3>1, <3>3, <4>1, TablesEnd
    <3>4. CASE To(r, "drop", m)
      <4>1. account'[b].session = account[b].session /\ m.of = b
        BY <1>3, <1>6, <2>2 DEF Of
      <4>. QED
        BY <2>2, <3>1, <3>2, <3>4, <4>1, SoundMove
    <3>. QED
      BY <1>5, <2>2, <3>3, <3>4 DEF Of
  <2>. QED
    BY <2>1, <2>2
<1>. QED
  BY <1>4, <1>6 DEF LoginInv

LEMMA PickLogin ==
  ASSUME BaseInv, LoginInv, NEW r \in Requests, PickProxy(r)
  PROVE  LoginInv'
<1>. DEFINE free == {p \in Proxies : holder[p] = NoAccount}
            m == mem[r]
            n == [m EXCEPT !.proxy = Min(free)]
<1>1. /\ UNCHANGED engine /\ disturbed' = disturbed /\ account' = account /\ pc[r] = "pick"
      /\ Close(r) \/ To(r, "bind", n)
  BY DEF PickProxy, tables, observed
<1>2. m \in Memory /\ m.op \in {"create", "edit"}
  BY <1>1, AtStep DEF BaseInv, StepOk
<1>. HIDE DEF free
<1>3. n.op = m.op /\ n.of = m.of
  BY <1>2 DEF Memory
<1>. HIDE DEF n
<1>4. ASSUME NEW b \in Accounts \ disturbed' PROVE Sound(b)'
  <2>1. CASE Close(r)
    BY <1>1, <1>2, <1>4, <2>1, TablesAside DEF Close
  <2>2. CASE To(r, "bind", n)
    BY <1>1, <1>2, <1>3, <1>4, <2>2, TablesAside DEF Of
  <2>. QED
    BY <1>1, <2>1, <2>2
<1>. QED
  BY <1>1, <1>4, GoneStays DEF LoginInv

LEMMA BindLogin ==
  ASSUME BaseInv, LoginInv, NEW r \in Requests, BindProxy(r)
  PROVE  LoginInv'
<1>. DEFINE m == mem[r]
<1>0. GoneOut /\ StepOk("bind", m)
  BY AtStep DEF LoginInv, BaseInv, BindProxy
<1>1. /\ UNCHANGED engine /\ disturbed' = disturbed /\ BindEffect(r)
      /\ Close(r) \/ To(r, "rebind", m)
  BY BindEffects DEF BindProxy
<1>2. m.of \in Accounts /\ m.op \in {"create", "edit"}
  BY <1>0 DEF StepOk
<1>3. \A b \in Accounts : account'[b].session = account[b].session
  BY <1>1, <1>2, RowSessions DEF BindEffect, tables
<1>4. GoneOut'
  <2>1. CASE ~Exists(m.of)
    BY <1>0, <1>1, <2>1, GoneStays DEF BindEffect, tables
  <2>2. CASE Exists(m.of)
    <3>1. RowIs(m.of, account[m.of].status, account[m.of].session, m.proxy)
      BY <1>1, <2>2 DEF BindEffect
    <3>2. account[m.of].status \notin {"none", "gone"}
      BY <2>2 DEF Exists
    <3>. QED
      BY <1>0, <1>2, <3>1, <3>2, GoneKept
  <2>. QED
    BY <2>1, <2>2
<1>5. ASSUME NEW b \in Accounts \ disturbed' PROVE Sound(b)'
  <2>1. CASE Close(r)
    BY <1>1, <1>2, <1>3, <1>5, <2>1, TablesAside DEF Close
  <2>2. CASE To(r, "rebind", m)
    BY <1>1, <1>2, <1>3, <1>5, <2>2, TablesAside DEF Of
  <2>. QED
    BY <1>1, <2>1, <2>2
<1>. QED
  BY <1>4, <1>5 DEF LoginInv

LEMMA FinishLogin ==
  ASSUME BaseInv, LoginInv, NEW r \in Requests, Finish(r)
  PROVE  LoginInv'
<1>. DEFINE m == mem[r]
            a == m.of
<1>0. GoneOut /\ StepOk("finish", m) /\ TablesOK
  BY AtStep DEF LoginInv, BaseInv, Finish
<1>1. UNCHANGED engine /\ FinishEffect(r) /\ pc[r] = "finish" /\ Close(r)
  BY FinishEffects
<1>2. a \in Accounts /\ m.op \notin {"create", "edit"}
  BY <1>0 DEF StepOk
<1>3. ASSUME Exists(a)
      PROVE  \E s, y : /\ RowIs(a, s, y, account[a].proxy) /\ s \notin {"none", "gone"}
                       /\ m.answer = "logged_out" => y = Written(FALSE, m.row.session, account[a].session)
                       /\ m.answer \notin {"authorized", "logged_out"} => y = account[a].session
  <2>1. account[a].status \notin {"none", "gone"}
    BY <1>3 DEF Exists
  <2>2. CASE m.answer = "authorized"
    <3>1. RowIs(a, Written("active", m.row.status, account[a].status),
                Written(TRUE, m.row.session, account[a].session), account[a].proxy)
      BY <1>1, <1>3, <2>2 DEF FinishEffect
    <3>2. Written("active", m.row.status, account[a].status) \notin {"none", "gone"}
      BY <2>1 DEF Written
    <3>. QED
      BY <2>2, <3>1, <3>2
  <2>3. CASE m.answer = "logged_out"
    <3>1. RowIs(a, Written("logged_out", m.row.status, account[a].status),
                Written(FALSE, m.row.session, account[a].session), account[a].proxy)
      BY <1>1, <1>3, <2>3 DEF FinishEffect
    <3>2. Written("logged_out", m.row.status, account[a].status) \notin {"none", "gone"}
      BY <2>1 DEF Written
    <3>. QED
      BY <2>3, <3>1, <3>2
  <2>4. CASE m.answer \notin {"authorized", "logged_out"}
    <3>1. \E s \in {"quarantined", "banned", account[a].status} :
             RowIs(a, s, account[a].session, account[a].proxy)
      BY <1>1, <1>3, <2>4 DEF FinishEffect
    <3>. QED
      BY <2>1, <2>4, <3>1
  <2>. QED
    BY <2>2, <2>3, <2>4
<1>4. GoneOut'
  <2>1. CASE ~Exists(a)
    BY <1>0, <1>1, <2>1, GoneStays DEF FinishEffect
  <2>2. CASE Exists(a)
    BY <1>0, <1>2, <1>3, <2>2, GoneKept
  <2>. QED
    BY <2>1, <2>2
<1>5. ASSUME NEW b \in Accounts, b # a PROVE account'[b] = account[b]
  <2>1. CASE ~Exists(a)
    BY <1>1, <2>1 DEF FinishEffect
  <2>2. CASE Exists(a)
    BY <1>3, <1>5, <2>2 DEF RowIs
  <2>. QED
    BY <2>1, <2>2
<1>6. ASSUME a \notin disturbed PROVE account'[a].session => Working(a)
  <2>1. RequestSound(a, r) /\ Sound(a) /\ r \in Engaged(a)
    BY <1>1, <1>2, <1>6, IsEngaged DEF Of
  <2>2. CASE ~Exists(a)
    BY <1>0, <1>1, <1>2, <2>2 DEF FinishEffect, GoneOut
  <2>3. CASE m.answer = "authorized"
    BY <1>1, <2>1, <2>3 DEF RequestSound
  <2>4. CASE Exists(a) /\ m.answer = "logged_out"
    <3>1. account'[a].session = Written(FALSE, m.row.session, account[a].session)
      BY <1>3, <2>4 DEF RowIs
    <3>2. m.row.session = account[a].session /\ account[a].session \in BOOLEAN
      BY <1>0, <1>2, <2>1 DEF RequestSound, TablesOK, Rows
    <3>3. account'[a].session = FALSE
      BY <3>1, <3>2 DEF Written
    <3>. QED
      BY <3>3
  <2>5. CASE Exists(a) /\ m.answer \notin {"authorized", "logged_out"}
    <3>1. account'[a].session = account[a].session
      BY <1>3, <2>5 DEF RowIs
    <3>2. ~Leaving(r) /\ \A q \in Engaged(a) : q = r
      BY <1>1, <2>1, <2>5 DEF RequestSound, Leaving, Sound
    <3>. QED
      BY <2>1, <3>1, <3>2 DEF Sound
  <2>. QED
    BY <2>2, <2>3, <2>4, <2>5
<1>7. ASSUME NEW b \in Accounts \ disturbed', b \in disturbed PROVE Sound(b)'
  <2>1. b = a /\ Pending(b) = {r} /\ ~account'[b].session /\ clients[b] = NoClient
    BY <1>1, <1>7 DEF FinishEffect
  <2>2. \A q \in Requests : /\ pc'[q] = (IF q = r THEN "idle" ELSE pc[q])
                            /\ mem'[q] = (IF q = r THEN Forgotten ELSE mem[q])
    BY <1>1 DEF Close, To, BaseInv, RequestsOK
  <2>3. Engaged(b)' = {}
    <3>1. ASSUME NEW q \in Engaged(b)' PROVE FALSE
      <4>1. q \in Requests /\ q # r /\ pc[q] # "idle" /\ mem[q].of = b
        BY <2>2, <3>1, InEngaged
      <4>. QED
        BY <2>1, <4>1 DEF Pending, Of
    <3>. QED
      BY <3>1
  <2>4. phoneLogin[b] = NoClient /\ qrLogin[b] = NoQr
    BY <1>7, <2>1 DEF BaseInv, EngineInv, Owned
  <2>5. LoginsPlaced(b)
    BY <2>1, <2>4 DEF LoginsPlaced, Placed, NoQr
  <2>6. LoginsPlaced(b)'
    BY <1>1, <2>5, StillSteady DEF Steady
  <2>. QED
    BY <2>1, <2>3, <2>6, SoundParts
<1>8. ASSUME NEW b \in Accounts \ disturbed, b # a PROVE Sound(b)'
  <2>1. RequestsOK /\ Sound(b) /\ Steady(b) /\ r \notin Engaged(b)
    BY <1>1, <1>8, StillSteady, InEngaged DEF BaseInv, LoginInv
  <2>2. account'[b].session = account[b].session
    BY <1>5, <1>8
  <2>. QED
    BY <1>1, <2>1, <2>2, SoundAside DEF Close
<1>9. ASSUME NEW b \in Accounts \ disturbed' PROVE Sound(b)'
  <2>1. CASE b = a /\ b \notin disturbed
    BY <1>1, <1>2, <1>6, <2>1, TablesEnd DEF Of
  <2>. QED
    BY <1>7, <1>8, <1>9, <2>1
<1>. QED
  BY <1>4, <1>9 DEF LoginInv

LEMMA DropLogin ==
  ASSUME BaseInv, LoginInv, NEW r \in Requests, DropAccount(r)
  PROVE  LoginInv'
<1>1. /\ Of(r) \in Accounts /\ RowIs(Of(r), "gone", FALSE, NoProxy) /\ pc[r] = "drop" /\ Close(r)
      /\ UNCHANGED <<engine, disturbed>>
  BY DropEffects
<1>2. mem[r].op \notin {"create", "edit"}
  BY <1>1, AtStep DEF BaseInv, StepOk
<1>3. GoneOut'
  BY <1>1, GoneKept DEF LoginInv
<1>4. ASSUME NEW b \in Accounts \ disturbed' PROVE Sound(b)'
  <2>1. CASE b = Of(r)
    <3>1. ~account'[b].session
      BY <1>1, <2>1 DEF RowIs
    <3>. QED
      BY <1>1, <1>2, <1>4, <2>1, <3>1, TablesEnd
  <2>2. CASE b # Of(r)
    <3>1. account'[b].session = account[b].session
      BY <1>1, <1>4, <2>2 DEF RowIs
    <3>. QED
      BY <1>1, <1>4, <2>2, <3>1, TablesAside DEF Close
  <2>. QED
    BY <2>1, <2>2
<1>. QED
  BY <1>3, <1>4 DEF LoginInv

LEMMA AbandonLogin ==
  ASSUME BaseInv, LoginInv, NEW r \in Requests, Abandon(r)
  PROVE  LoginInv'
<1>1. /\ Close(r) /\ UNCHANGED <<engine, tables>> /\ disturbed' = disturbed \cup {Of(r)}
  BY DEF Abandon
<1>2. ASSUME NEW b \in Accounts \ disturbed' PROVE Sound(b)'
  <2>1. RequestsOK /\ Sound(b) /\ Steady(b) /\ b # Of(r)
    BY <1>1, <1>2, StillSteady DEF BaseInv, LoginInv
  <2>2. r \notin Engaged(b) /\ account'[b].session = account[b].session
    BY <1>1, <2>1, InEngaged DEF Of, tables
  <2>. QED
    BY <1>1, <2>1, <2>2, SoundAside DEF Close
<1>3. GoneOut'
  BY <1>1, GoneStays DEF LoginInv, tables
<1>. QED
  BY <1>2, <1>3 DEF LoginInv

\* The phone's holder, the managers and Telegram do to accounts what leaves the others alone.
LEMMA ScanLogin ==
  ASSUME BaseInv, LoginInv, NEW a \in Accounts, NEW status, ScanQr(a, status)
  PROVE  LoginInv'
<1>1. WatchQr(a, status) /\ UNCHANGED <<pc, mem>> /\ account' = account /\ disturbed' = disturbed
  BY DEF ScanQr, tables, observed
<1>2. ASSUME NEW b \in Accounts \ disturbed' PROVE Sound(b)'
  <2>1. Sound(b) /\ EngineInv /\ LoginsPlaced(b)
    BY <1>1, <1>2 DEF LoginInv, BaseInv, Sound
  <2>2. Steady(b)
    <3>1. CASE b = a
      BY <1>1, <2>1, <3>1, WatchSteady
    <3>2. ASSUME b # a PROVE Steady(b)
      <4>1. qrLogin[a].client \in Clients
        BY <1>1, <2>1, ClientNumbers DEF WatchQr, EngineInv, EngineTypeOK, Owned, QrStates
      <4>. QED
        BY <1>1, <1>2, <2>1, <3>2, <4>1, LoginOthers
    <3>. QED
      BY <3>1, <3>2
  <2>. QED
    BY <1>1, <2>1, <2>2, SoundStay
<1>. QED
  BY <1>1, <1>2, GoneStays DEF LoginInv

LEMMA RevokeLogin ==
  ASSUME BaseInv, LoginInv, NEW a \in Accounts, NEW key \in Keys, RevokeSession(a, key)
  PROVE  LoginInv'
<1>1. /\ Revoke(key) /\ key \in KeysOf(a) /\ UNCHANGED <<pc, mem>> /\ account' = account
      /\ disturbed' = disturbed \cup {a}
  BY DEF RevokeSession, tables
<1>2. ASSUME NEW b \in Accounts \ disturbed' PROVE Sound(b)'
  <2>1. Sound(b) /\ EngineInv /\ b # a /\ b \in Accounts
    BY <1>1, <1>2 DEF LoginInv, BaseInv
  <2>2. key \in Clients
    BY DEF Keys
  <2>3. Steady(b)
    BY <1>1, <2>1, <2>2, LoginOthers
  <2>. QED
    BY <1>1, <2>1, <2>3, SoundStay
<1>. QED
  BY <1>1, <1>2, GoneStays DEF LoginInv

\* The engine starts again: it works from its files, and the passwords and codes that were
\* waiting are lost.
LEMMA RestartLogin ==
  ASSUME BaseInv, LoginInv, RestartEngine
  PROVE  LoginInv'
<1>1. /\ EngineRestart /\ account' = account /\ disturbed' = disturbed
      /\ pc' = [r \in Requests |-> IF pc[r] = "locked" THEN "idle" ELSE pc[r]]
      /\ mem' = [r \in Requests |-> IF pc[r] = "locked" THEN Forgotten ELSE mem[r]]
  BY DEF RestartEngine, tables, observed
<1>2. ASSUME NEW b \in Accounts \ disturbed' PROVE Sound(b)'
  <2>1. Sound(b) /\ b \in Accounts
    BY <1>1, <1>2 DEF LoginInv
  <2>2. LoginsPlaced(b)' /\ (Working(b) => Working(b)')
    BY <1>1, <2>1, RestartPlaced DEF BaseInv
  <2>3. \A q \in Engaged(b)' : q \in Engaged(b) /\ mem'[q] = mem[q] /\ pc'[q] = pc[q] /\ pc[q] # "locked"
    BY <1>1, InEngaged
  <2>4. ASSUME NEW q \in Engaged(b), Leaving(q) PROVE q \in Engaged(b)'
    <3>1. q \in Requests /\ pc[q] # "locked"
      BY <2>4, InEngaged, AtStep DEF BaseInv, StepOk, Leaving
    <3>. QED
      BY <1>1, <2>4, <3>1, InEngaged
  <2>. QED
    BY <1>1, <2>1, <2>2, <2>3, <2>4, SoundKept
<1>. QED
  BY <1>1, <1>2, GoneStays DEF LoginInv

\* A status is written, and nothing else.
LEMMA StatusLogin ==
  ASSUME BaseInv, LoginInv, NEW a \in Accounts, NEW status \in Statuses,
         account' = [account EXCEPT ![a].status = status],
         UNCHANGED <<engine, pc, mem, disturbed>>
  PROVE  LoginInv'
<1>1. RowIs(a, status, account[a].session, account[a].proxy)
  BY StatusWritten DEF BaseInv
<1>2. GoneOut'
  BY <1>1, GoneKept DEF LoginInv, Statuses
<1>3. ASSUME NEW b \in Accounts \ disturbed' PROVE Sound(b)'
  <2>1. Sound(b) /\ account'[b].session = account[b].session /\ Steady(b)
    BY <1>1, <1>3, RowSessions, StillSteady DEF LoginInv
  <2>. QED
    BY <2>1, SoundStay
<1>. QED
  BY <1>2, <1>3 DEF LoginInv

LEMMA LoginInvInit == Init => LoginInv
<1>. SUFFICES ASSUME Init PROVE LoginInv
  OBVIOUS
<1>1. \A a \in Accounts : /\ account[a].session = FALSE
                         /\ clients[a] = NoClient /\ phoneLogin[a] = NoClient /\ qrLogin[a] = NoQr
  BY DEF Init, EngineInit, NoRow
<1>2. \A a \in Accounts : Engaged(a) = {}
  BY DEF Init, Engaged
<1>3. \A a \in Accounts : LoginsPlaced(a)
  BY <1>1 DEF LoginsPlaced, Placed, NoQr
<1>. QED
  BY <1>1, <1>2, <1>3 DEF LoginInv, GoneOut, Sound

LEMMA LoginInvKept == BaseInv /\ LoginInv /\ [Next]_vars => LoginInv'
<1>. SUFFICES ASSUME BaseInv, LoginInv, [Next]_vars PROVE LoginInv'
  OBVIOUS
<1>1. CASE UNCHANGED vars
  <2>1. UNCHANGED <<engine, pc, mem, disturbed>> /\ account' = account
    BY <1>1 DEF vars, tables, observed
  <2>2. ASSUME NEW b \in Accounts \ disturbed' PROVE Sound(b)'
    BY <2>1, <2>2, StillSteady, SoundStay DEF LoginInv
  <2>. QED
    BY <2>1, <2>2, GoneStays DEF LoginInv
<1>2. ASSUME NEW r \in Requests, AtDatabase(r) PROVE LoginInv'
  BY <1>2, ReleaseLogin, PickLogin, BindLogin, FinishLogin, DropLogin DEF AtDatabase
<1>3. ASSUME NEW a \in Accounts, NEW status \in Statuses, OverrideStatus(a, status) PROVE LoginInv'
  BY <1>3, StatusLogin DEF OverrideStatus, observed
<1>4. ASSUME NEW a \in Accounts, Quarantine(a) PROVE LoginInv'
  BY <1>4, StatusLogin DEF Quarantine, observed, Statuses
<1>5. CASE Surroundings
  BY <1>3, <1>4, <1>5, ScanLogin, RevokeLogin, RestartLogin DEF Surroundings
<1>. QED
  BY <1>1, <1>2, <1>5, RequestedLogin, AtEngineLogin, AbandonLogin DEF Next

\* An account that the database takes for logged in can work, unless its logins overlapped,
\* were lost or were ended: no request is under way, so none is ending the session, and one
\* that works serves with the client there is, or with the file.
THEOREM SessionsWork == Spec => []LoggedInWorks
<1>1. BaseInv /\ LoginInv => LoggedInWorks
  <2>1. ASSUME LoginInv, NEW a \in Accounts \ disturbed, Pending(a) = {}, account[a].session
        PROVE  Serves(a)
    <3>1. Engaged(a) = {}
      BY <2>1 DEF Engaged, Pending, Of
    <3>2. Working(a)
      BY <2>1, <3>1 DEF LoginInv, Sound
    <3>. QED
      BY <3>2 DEF Working, Serves
  <2>. QED
    BY <2>1 DEF LoggedInWorks
<1>2. Spec => []LoginInv
  BY LoginInvInit, LoginInvKept, AlwaysBase, PTL DEF Spec
<1>. QED
  BY <1>1, <1>2, AlwaysBase, PTL
=============================================================================
