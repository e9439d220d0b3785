-------------------------------- MODULE Backups --------------------------------
(***************************************************************************)
(* Backup and restore (backend/app/services/backup.py, api/backups.py,       *)
(* worker/tasks/backup.py): archives of the database, the session files and   *)
(* the settings, made on request and by the hourly tick, uploaded, pruned,    *)
(* deleted and restored over the running system.                             *)
(*                                                                         *)
(* Of the database one account is modelled, whether it says that the account  *)
(* is logged in, and of the session files the one of that account.  Logging   *)
(* in makes the file before the database knows, logging out deletes it        *)
(* before the database knows.  Automatic backups are switched on; settings    *)
(* are restored without effect here.                                        *)
(***************************************************************************)
EXTENDS Naturals, FiniteSets

CONSTANTS
    BkJobs,
    BkKeep,             \* backup_keep_last
    BkInterval,         \* interval_days
    BkScopes,           \* the scopes chosen: sets of "database", "sessions", "settings"
    BkMaxTime,          \* bound on the clock
    BkMaxJobs,          \* bound on archives made, uploads and restores
    BkMaxLogins,        \* bound on logging in and out
    BkMaxFaults         \* bound on steps that fail

ASSUME BackupsAssumption ==
    /\ BkKeep \in Nat \ {0} /\ BkInterval \in Nat \ {0}
    /\ BkScopes \subseteq SUBSET {"database", "sessions", "settings"} \ {{}}
    /\ BkMaxTime \in Nat /\ BkMaxJobs \in Nat /\ BkMaxLogins \in Nat /\ BkMaxFaults \in Nat

BkTimes == 0..BkMaxTime
BkNames == BkTimes \X (0..BkMaxJobs)    \* named by the second, uploads also by a counter

VARIABLES
    bkNow,
    bkRef,              \* the database: the account is logged in (session_ref)
    bkFile,             \* the session file
    bkDoing,            \* a login or logout that the database does not know of yet
    bkArchive,          \* what the directory has under a name
    bkPc, bkMem,
    bkLoggedOut,        \* an observer's: jobs in the course of which the account was logging out
    bkBlamed,           \* an observer's: a restore whose outcome nobody promises
    bkTickRaced,        \* an observer's: two ticks were making archives at once
    bkJobs, bkLogins, bkFaults

bkLive == <<bkRef, bkFile, bkDoing, bkLogins>>
bkSessions == <<bkPc, bkMem>>
bkVerdicts == <<bkBlamed, bkTickRaced>>
bkObserved == <<bkLoggedOut, bkVerdicts>>
bkVars == <<bkNow, bkLive, bkArchive, bkSessions, bkObserved, bkJobs, bkFaults>>

BkContents ==
    [scope : BkScopes, ref : BOOLEAN, file : BOOLEAN, agrees : BOOLEAN, created : BkTimes,
     auto : BOOLEAN, whole : BOOLEAN, made : 1..BkMaxJobs]
BkNoFile == [made |-> 0]
BkMemory == [name : BkNames, content : BkContents]
BkNoMemory == [name |-> <<0, 0>>, content |-> BkNoFile]

BkTypeOK ==
    /\ bkNow \in BkTimes
    /\ bkRef \in BOOLEAN /\ bkFile \in BOOLEAN
    /\ bkDoing \in {"nothing", "login", "logout"}
    /\ bkArchive \in [BkNames -> BkContents \cup {BkNoFile}]
    /\ bkPc \in [BkJobs -> {"idle", "copy", "close", "sessions", "database"}]
    /\ bkMem \in [BkJobs -> BkMemory \cup {BkNoMemory}]
    /\ bkLoggedOut \subseteq BkJobs
    /\ bkBlamed \in BOOLEAN /\ bkTickRaced \in BOOLEAN
    /\ bkJobs \in 0..BkMaxJobs /\ bkLogins \in 0..BkMaxLogins /\ bkFaults \in 0..BkMaxFaults

BkInit ==
    /\ bkNow = 0
    /\ bkRef \in BOOLEAN
    /\ bkFile = bkRef
    /\ bkDoing = "nothing"
    /\ bkArchive = [n \in BkNames |-> BkNoFile]
    /\ bkPc = [j \in BkJobs |-> "idle"]
    /\ bkMem = [j \in BkJobs |-> BkNoMemory]
    /\ bkLoggedOut = {}
    /\ bkBlamed = FALSE
    /\ bkTickRaced = FALSE
    /\ bkJobs = 0
    /\ bkLogins = 0
    /\ bkFaults = 0

-----------------------------------------------------------------------------
(* Time, and the account.                                                   *)

BkTick ==
    /\ bkNow < BkMaxTime
    /\ bkNow' = bkNow + 1
    /\ UNCHANGED <<bkLive, bkArchive, bkSessions, bkObserved, bkJobs, bkFaults>>

BkLogin ==
    /\ bkDoing = "nothing" /\ ~bkRef
    /\ bkLogins < BkMaxLogins
    /\ bkLogins' = bkLogins + 1
    /\ bkFile' = TRUE
    /\ bkDoing' = "login"
    /\ UNCHANGED <<bkNow, bkRef, bkArchive, bkSessions, bkObserved, bkJobs, bkFaults>>

BkLogout ==
    /\ bkDoing = "nothing" /\ bkRef
    /\ bkLogins < BkMaxLogins
    /\ bkLogins' = bkLogins + 1
    /\ bkFile' = FALSE
    /\ bkDoing' = "logout"
    /\ bkLoggedOut' = {j \in BkJobs : bkPc[j] # "idle"} \cup bkLoggedOut
    /\ UNCHANGED <<bkNow, bkRef, bkArchive, bkSessions, bkVerdicts, bkJobs, bkFaults>>

BkKnown ==
    /\ bkDoing # "nothing"
    /\ bkRef' = (bkDoing = "login")
    /\ bkDoing' = "nothing"
    /\ UNCHANGED <<bkNow, bkFile, bkLogins, bkArchive, bkSessions, bkObserved, bkJobs, bkFaults>>

-----------------------------------------------------------------------------
(* Making an archive (create_backup).                                       *)

BkListed == {n \in BkNames : bkArchive[n] # BkNoFile}
BkCreatedAt(n) == bkArchive[n].created

\* Mutant: a day early.
BkDue_Early == \A n \in BkListed : BkCreatedAt(n) + BkInterval <= bkNow + 1

\* is_due: by the newest archive there is
BkDue == \A n \in BkListed : BkCreatedAt(n) + BkInterval <= bkNow

BkOpen(j, step, mem) ==
    /\ bkPc[j] = "idle"
    /\ bkJobs < BkMaxJobs
    /\ bkJobs' = bkJobs + 1
    /\ bkPc' = [bkPc EXCEPT ![j] = step]
    /\ bkMem' = [bkMem EXCEPT ![j] = mem]
    /\ bkLoggedOut' = IF bkDoing = "logout" THEN bkLoggedOut \cup {j} ELSE bkLoggedOut

BkTo(j, step) ==
    /\ bkPc' = [bkPc EXCEPT ![j] = step]
    /\ IF step = "idle"
       THEN bkMem' = [bkMem EXCEPT ![j] = BkNoMemory] /\ bkLoggedOut' = bkLoggedOut \ {j}
       ELSE UNCHANGED <<bkMem, bkLoggedOut>>

\* One part, then the other; settings.json depends on neither.
BkPut(content, part) ==
    IF part = "database" THEN [content EXCEPT !.ref = bkRef] ELSE [content EXCEPT !.file = bkFile]

\* Asked for, or by auto_tick if one is due.  A dump has what there was when it began.
BkBegin(j, scope, auto) ==
    /\ auto => BkDue
    /\ BkOpen(j, "copy",
              [name |-> <<bkNow, 0>>,
               content |-> BkPut([scope |-> scope, ref |-> FALSE, file |-> FALSE, agrees |-> FALSE, created |-> bkNow,
                                  auto |-> auto, whole |-> FALSE, made |-> bkJobs + 1], "database")])
    /\ bkTickRaced' = (bkTickRaced \/ (auto /\ \E i \in BkJobs \ {j} :
                          bkPc[i] \in {"copy", "close"} /\ bkMem[i].content.auto))
    /\ UNCHANGED <<bkNow, bkLive, bkArchive, bkBlamed, bkFaults>>

\* The archive appears, over one of the same name; its age is that of the file until the
\* metadata is there.
BkCopy(j) ==
    LET content == BkPut(bkMem[j].content, "sessions") IN
    /\ bkPc[j] = "copy"
    /\ bkArchive' = [bkArchive EXCEPT ![bkMem[j].name] = [content EXCEPT !.created = bkNow]]
    /\ bkMem' = [bkMem EXCEPT ![j].content = content]
    /\ bkPc' = [bkPc EXCEPT ![j] = "close"]
    /\ UNCHANGED <<bkNow, bkLive, bkObserved, bkJobs, bkFaults>>

\* prune_backups
BkNewer(n, archive) == {m \in BkNames : archive[m] # BkNoFile /\ archive[m].created > archive[n].created}

BkPruned(archive, lost) ==
    [n \in BkNames |-> IF n \in lost THEN BkNoFile ELSE archive[n]]

\* The archive is complete, unless another job is writing to the same file; of those there
\* are the newest are kept.
BkClose(j) ==
    LET n == bkMem[j].name
        mixed == \E i \in BkJobs \ {j} : bkPc[i] = "close" /\ bkMem[i].name = n
        content == [bkMem[j].content EXCEPT
                       !.whole = ~mixed /\ bkArchive[n].made = bkMem[j].content.made,
                       !.agrees = j \notin bkLoggedOut]
        \* deleted while it was written: it is gone
        archive == IF bkArchive[n] = BkNoFile THEN bkArchive ELSE [bkArchive EXCEPT ![n] = content]
        listed == {m \in BkNames : archive[m] # BkNoFile}
    IN  /\ bkPc[j] = "close"
        /\ \E lost \in SUBSET listed :
              /\ Cardinality(listed \ lost) = IF Cardinality(listed) < BkKeep THEN Cardinality(listed) ELSE BkKeep
              /\ \A a \in lost, b \in listed \ lost : archive[a].created <= archive[b].created
              /\ bkArchive' = BkPruned(archive, lost)
        /\ BkTo(j, "idle")
        /\ UNCHANGED <<bkNow, bkLive, bkVerdicts, bkJobs, bkFaults>>

\* save_uploaded_backup: a name nobody has.
BkUploadName == CHOOSE n \in {bkNow} \X (0..BkMaxJobs) :
    bkArchive[n] = BkNoFile /\ \A k \in 0..(n[2] - 1) : bkArchive[<<bkNow, k>>] # BkNoFile

\* An archive that was downloaded comes back; nothing is pruned.
BkUpload(n) ==
    /\ n \in BkListed /\ bkArchive[n].whole
    /\ bkJobs < BkMaxJobs
    /\ bkJobs' = bkJobs + 1
    /\ bkArchive' = [bkArchive EXCEPT ![BkUploadName] =
                        [bkArchive[n] EXCEPT !.created = bkNow, !.auto = FALSE, !.made = bkJobs + 1]]
    /\ UNCHANGED <<bkNow, bkLive, bkSessions, bkObserved, bkFaults>>

\* delete_backup
BkDelete(n) ==
    /\ n \in BkListed
    /\ bkJobs < BkMaxJobs
    /\ bkJobs' = bkJobs + 1
    /\ bkArchive' = [bkArchive EXCEPT ![n] = BkNoFile]
    /\ UNCHANGED <<bkNow, bkLive, bkSessions, bkObserved, bkFaults>>

-----------------------------------------------------------------------------
(* Restoring one (restore_backup).                                          *)

\* Mutant: the database is restored first.
BkOrder_DatabaseFirst == <<"database", "sessions">>

\* Session files, settings, and the database last.
BkOrder == <<"sessions", "database">>

BkAfter(part) == IF part = BkOrder[1] THEN BkOrder[2] ELSE "idle"

BkBeginRestore(j, n) ==
    /\ n \in BkListed /\ bkArchive[n].whole
    /\ BkOpen(j, BkOrder[1], [name |-> n, content |-> bkArchive[n]])
    /\ UNCHANGED <<bkNow, bkLive, bkArchive, bkBlamed, bkTickRaced, bkFaults>>

\* The files of the archive are put there, none is removed.
BkRestoreSessions(j) ==
    LET c == bkMem[j].content IN
    /\ bkPc[j] = "sessions"
    /\ bkFile' = (bkFile \/ ("sessions" \in c.scope /\ c.file))
    /\ BkTo(j, BkAfter("sessions"))
    /\ UNCHANGED <<bkNow, bkRef, bkDoing, bkLogins, bkArchive, bkVerdicts, bkJobs, bkFaults>>

\* The transaction in which the request has looked its user up is ended by the commit of the
\* settings; without it psql waits for its lock on users until it is given up.
BkLocksItself(c) == "settings" \notin c.scope

\* Nobody promises that the account has its file if the archive lacks it, or if the account
\* was logging out while the archive was made or is being restored.
BkRestoreDatabase(j) ==
    LET c == bkMem[j].content IN
    /\ bkPc[j] = "database"
    /\ IF "database" \in c.scope /\ ~BkLocksItself(c)
       THEN /\ bkRef' = c.ref
            /\ bkBlamed' = (bkBlamed \/ "sessions" \notin c.scope \/ ~c.agrees \/ j \in bkLoggedOut)
       ELSE UNCHANGED <<bkRef, bkBlamed>>
    /\ BkTo(j, BkAfter("database"))
    /\ UNCHANGED <<bkNow, bkFile, bkDoing, bkLogins, bkArchive, bkTickRaced, bkJobs, bkFaults>>

\* A step fails, or the process ends: what has been done stays.
BkFault(j) ==
    /\ bkPc[j] # "idle"
    /\ bkFaults < BkMaxFaults
    /\ bkFaults' = bkFaults + 1
    /\ BkTo(j, "idle")
    /\ UNCHANGED <<bkNow, bkLive, bkArchive, bkBlamed, bkTickRaced, bkJobs>>

BkNext ==
    \/ BkTick \/ BkLogin \/ BkLogout \/ BkKnown
    \/ \E j \in BkJobs :
          \/ \E scope \in BkScopes, auto \in BOOLEAN : BkBegin(j, scope, auto)
          \/ BkCopy(j) \/ BkClose(j)
          \/ \E n \in BkNames : BkBeginRestore(j, n)
          \/ BkRestoreSessions(j) \/ BkRestoreDatabase(j)
          \/ BkFault(j)
    \/ \E n \in BkNames : BkUpload(n) \/ BkDelete(n)

BkSpec == BkInit /\ [][BkNext]_bkVars

-----------------------------------------------------------------------------
(* Properties.                                                              *)

\* An account that the database says is logged in has its session file, whatever backups and
\* restores are interrupted or overlap with logins: the database is dumped first and restored
\* last.  Except while it logs out, and after a restore that promised nothing.
LoggedInHasFile == bkRef => bkFile \/ bkDoing = "logout" \/ bkBlamed

\* Automatic backups are made no closer to each other than the interval, unless a tick came
\* while another one was still making its archive.
AutoSpaced ==
    \A m, n \in BkListed :
        m # n /\ bkArchive[m].auto /\ bkArchive[n].auto /\ bkArchive[m].whole /\ bkArchive[n].whole =>
            \/ bkTickRaced
            \/ bkArchive[m].created + BkInterval <= bkArchive[n].created
            \/ bkArchive[n].created + BkInterval <= bkArchive[m].created
=============================================================================
