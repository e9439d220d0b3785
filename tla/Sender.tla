------------------------------- MODULE Sender -------------------------------
(***************************************************************************)
(* The sender: jobs that message consented contacts from a rotated pool of *)
(* accounts (backend/app/services/sender.py), driven by Celery beat        *)
(* (backend/worker/tasks/sending.py) and by the API's manual tick          *)
(* (backend/app/api/sender.py).                                            *)
(*                                                                         *)
(* A tick runs in one database session.  The session factory sets          *)
(* expire_on_commit and autoflush to False (db/session.py): rows keep the  *)
(* values they were loaded with, and what the tick assigns stays in memory *)
(* until the next commit, which writes the assigned columns and only those.*)
(* "tick" is what a session has loaded, "dirty" what it has assigned and   *)
(* not yet written.  Several sessions may tick the same job: beat fires    *)
(* whether or not the previous task has ended, and the API ticks too.      *)
(***************************************************************************)
EXTENDS Pacing

CONSTANTS
    Jobs, Contacts,
    Accounts,      \* account ids, positive integers
    Targets,       \* ids of the send_targets rows that may exist
    JobOf,         \* the job of a target
    ContactOf,     \* the contact of a target
    Cap,           \* daily_cap of an account
    Sessions,      \* database sessions that may be ticking at once
    Windows,       \* whether "now" may lie in the active window: a set of BOOLEANs
    Outcomes,      \* what the engine's send may do, see Send
    Happenings,    \* what the rest of the system may do meanwhile, see Surroundings
    Unreachable,   \* contacts without phone, username or Telegram id
    MaxCrashes     \* bound on the ticks that die half way

ASSUME SenderAssumption ==
    /\ Jobs # {}
    /\ Accounts \subseteq Nat \ {NoId}
    /\ Targets \subseteq Nat
    /\ JobOf \in [Targets -> Jobs]
    /\ ContactOf \in [Targets -> Contacts]
    /\ Cap \in [Accounts -> Nat]
    /\ Windows \subseteq BOOLEAN
    /\ Outcomes \subseteq {"sent", "rejected", "lost", "late"}
    /\ Happenings \subseteq {"opt_out", "consent", "health", "rest"}
    /\ Unreachable \subseteq Contacts
    /\ MaxCrashes \in Nat

\* So many worker processes and rows that the bounds below can be stated.
ASSUME FinitelyMany == IsFiniteSet(Sessions) /\ IsFiniteSet(Accounts)

\* unique(job_id, contact_id) on send_targets
ASSUME TargetsUnique ==
    \A t, u \in Targets : JobOf[t] = JobOf[u] /\ ContactOf[t] = ContactOf[u] => t = u

VARIABLES
    (* the database *)
    jobStatus, jobLast,       \* send_jobs.status, .last_account_id
    targetStatus,             \* send_targets.status, "absent" before the insert
    contact,                  \* consent and opted_out of a contact, see ContactStates
    accountStatus,            \* accounts.status
    actionsToday, rested,     \* accounts.actions_today; whether delay_ok holds
    (* the ticking sessions *)
    pc, tick, dirty,
    (* what an observer of Telegram counts *)
    delivered,                \* messages delivered for a target
    sentBy,                   \* messages delivered from an account
    lateSends,                \* messages a contact got after opting out
    sendsOff,                 \* messages sent for a job since it was last running
    crashes

jobVars     == <<jobStatus, jobLast>>
accountVars == <<accountStatus, actionsToday, rested>>
sessionVars == <<pc, tick, dirty>>
ghosts      == <<delivered, sentBy, lateSends, sendsOff>>
vars == <<jobVars, targetStatus, contact, accountVars, sessionVars, ghosts, crashes>>

JobStates == {"draft", "running", "paused", "done"}
Settled   == {"sent", "failed", "skipped"}
\* "eligible": consent and not opted out; "withheld": no consent, not opted out.
ContactStates == {"eligible", "withheld", "opted_out"}

\* What a session holds in memory.  "todo" are the jobs of the sweep still to be
\* ticked and "last" their last_account_id as loaded; "left", "pivot" and "seen"
\* are the accounts still to be used, the rotation's pivot and the actions_today
\* loaded; "work" the loaded targets not yet tried.
TickStates ==
    [todo : SUBSET Jobs, job : Jobs, last : [Jobs -> Accounts \cup {NoId}],
     left : SUBSET Accounts, pivot : Accounts \cup {NoId},
     seen : [Accounts -> Nat], work : SUBSET Targets]

\* Assigned and not yet written: statuses of targets, accounts that have acted
\* (actions_today + 1, last_action_at), a changed last_account_id, accounts put
\* in quarantine, the job's status.
DirtyStates ==
    [target : [Targets -> Settled \cup {"clean"}], acted : SUBSET Accounts,
     moved : BOOLEAN, flagged : SUBSET Accounts,
     job : {"clean", "paused", "done"}]

Clean == [target |-> [t \in Targets |-> "clean"], acted |-> {}, moved |-> FALSE,
          flagged |-> {}, job |-> "clean"]

NoTick == [todo |-> {}, job |-> CHOOSE j \in Jobs : TRUE,
           last |-> [j \in Jobs |-> NoId], left |-> {}, pivot |-> NoId,
           seen |-> [a \in Accounts |-> 0], work |-> {}]

TypeOK ==
    /\ jobStatus \in [Jobs -> JobStates]
    /\ jobLast \in [Jobs -> Accounts \cup {NoId}]
    /\ targetStatus \in [Targets -> Settled \cup {"absent", "queued"}]
    /\ contact \in [Contacts -> ContactStates]
    /\ accountStatus \in [Accounts -> {"active", "quarantined"}]
    /\ actionsToday \in [Accounts -> Nat]
    /\ rested \in [Accounts -> BOOLEAN]
    /\ pc \in [Sessions -> {"idle", "sweep", "targets", "send", "record", "commit"}]
    /\ tick \in [Sessions -> TickStates]
    /\ dirty \in [Sessions -> DirtyStates]
    /\ delivered \in [Targets -> Nat]
    /\ sentBy \in [Accounts -> Nat]
    /\ lateSends \in [Contacts -> Nat]
    /\ sendsOff \in [Jobs -> Nat]
    /\ crashes \in Nat

Init ==
    /\ jobStatus = [j \in Jobs |-> "draft"]
    /\ jobLast = [j \in Jobs |-> NoId]
    /\ targetStatus = [t \in Targets |-> "absent"]
    /\ contact = [c \in Contacts |-> "eligible"]
    /\ accountStatus = [a \in Accounts |-> "active"]
    /\ actionsToday = [a \in Accounts |-> 0]
    /\ rested = [a \in Accounts |-> TRUE]
    /\ pc = [s \in Sessions |-> "idle"]
    /\ tick = [s \in Sessions |-> NoTick]
    /\ dirty = [s \in Sessions |-> Clean]
    /\ delivered = [t \in Targets |-> 0]
    /\ sentBy = [a \in Accounts |-> 0]
    /\ lateSends = [c \in Contacts |-> 0]
    /\ sendsOff = [j \in Jobs |-> 0]
    /\ crashes = 0

-----------------------------------------------------------------------------
(* The manager's requests.                                                  *)

\* Mutant: only the flag consent is looked at, a contact that opted out passes.
MayMessage_ConsentOnly(c) == contact[c] # "withheld"

MayMessage(c) == contact[c] = "eligible"

\* Mutant: only targets still queued count as existing ones.
IsNew_UnlessQueued(t) == targetStatus[t] # "queued"

IsNew(t) == targetStatus[t] = "absent"

\* Contacts that may be messaged and are not yet targets of the job.
AddTargets(j, chosen) ==
    /\ targetStatus' = [t \in Targets |->
          IF JobOf[t] = j /\ ContactOf[t] \in chosen /\ MayMessage(ContactOf[t]) /\ IsNew(t)
          THEN "queued" ELSE targetStatus[t]]
    /\ UNCHANGED <<jobVars, contact, accountVars, sessionVars, ghosts, crashes>>

SetJobStatus(j, status) ==
    /\ jobStatus' = [jobStatus EXCEPT ![j] = status]
    /\ UNCHANGED <<jobLast, targetStatus, contact, accountVars, sessionVars,
                   delivered, sentBy, lateSends, crashes>>

StartJob(j) == SetJobStatus(j, "running") /\ sendsOff' = [sendsOff EXCEPT ![j] = 0]
PauseJob(j) == SetJobStatus(j, "paused") /\ UNCHANGED sendsOff
StopJob(j)  == SetJobStatus(j, "done") /\ UNCHANGED sendsOff

-----------------------------------------------------------------------------
(* What the rest of the system does to the rows the sender reads.           *)

SetContact(c, state) ==
    /\ contact' = [contact EXCEPT ![c] = state]
    /\ UNCHANGED <<jobVars, targetStatus, accountVars, sessionVars,
                   delivered, sentBy, sendsOff, crashes>>

\* A "stop" reply recorded by the inbox.
OptOut(c) ==
    /\ SetContact(c, "opted_out")
    /\ UNCHANGED lateSends

\* Giving consent back also clears opted_out.
GiveConsent(c) ==
    /\ SetContact(c, "eligible")
    /\ lateSends' = [lateSends EXCEPT ![c] = 0]

WithdrawConsent(c) ==
    /\ contact[c] = "eligible"
    /\ SetContact(c, "withheld")
    /\ UNCHANGED lateSends

SetAccount(a, state) ==
    /\ accountStatus' = [accountStatus EXCEPT ![a] = state]
    /\ UNCHANGED <<jobVars, targetStatus, contact, actionsToday, rested, sessionVars,
                   ghosts, crashes>>

Quarantine(a) == SetAccount(a, "quarantined")   \* a health check
Reactivate(a) == SetAccount(a, "active")        \* an operator's override

\* min_delay seconds have passed since the account's last action.
Rest(a) ==
    /\ rested' = [rested EXCEPT ![a] = TRUE]
    /\ UNCHANGED <<jobVars, targetStatus, contact, accountStatus, actionsToday, sessionVars,
                   ghosts, crashes>>

-----------------------------------------------------------------------------
(* A tick.                                                                  *)

WithJobs(k, js) == [k EXCEPT !.todo = js, !.last = jobLast]

Begin(s, js) ==
    /\ pc[s] = "idle"
    /\ js # {}
    /\ pc' = [pc EXCEPT ![s] = "sweep"]
    /\ tick' = [tick EXCEPT ![s] = WithJobs(@, js)]
    /\ UNCHANGED <<jobVars, targetStatus, contact, accountVars, dirty, ghosts, crashes>>

IsDue(j) == jobStatus[j] = "running"

\* The Celery task loads every running job, then ticks them one after another.
BeginSweep(s) == Begin(s, {j \in Jobs : IsDue(j)})

\* The manual tick is refused unless the job is running.
BeginManual(s, j) == IsDue(j) /\ Begin(s, {j})

\* The job's tick is over: forget its rows, go on with the sweep.
EndTick(s, todo, last) ==
    /\ pc' = [pc EXCEPT ![s] = IF todo = {} THEN "idle" ELSE "sweep"]
    /\ tick' = [tick EXCEPT ![s] = IF todo = {} THEN NoTick
                                   ELSE [NoTick EXCEPT !.todo = todo, !.last = last]]

UsableAccounts(inWindow) ==
    {a \in Accounts : /\ accountStatus[a] = "active"
                      /\ UnderDailyCap(actionsToday[a], Cap[a])
                      /\ inWindow
                      /\ rested[a]}

\* The tick of j starts with the usable accounts as they are read now.
WithAccounts(k, j, usable) ==
    [k EXCEPT !.job = j, !.left = usable, !.pivot = Pivot(usable, k.last[j]),
              !.seen = [a \in Accounts |-> IF a \in usable THEN actionsToday[a] ELSE 0]]

\* The job's status is not read again: it was running when the job was loaded.
PickAccounts(s, j) ==
    /\ pc[s] = "sweep"
    /\ j \in tick[s].todo
    /\ \E inWindow \in Windows :
        LET usable == UsableAccounts(inWindow)
        IN  IF usable = {}
            THEN EndTick(s, tick[s].todo \ {j}, tick[s].last)
            ELSE /\ pc' = [pc EXCEPT ![s] = "targets"]
                 /\ tick' = [tick EXCEPT ![s] = WithAccounts(@, j, usable)]
    /\ UNCHANGED <<jobVars, targetStatus, contact, accountVars, dirty, ghosts, crashes>>

\* Mutant: failed targets are tried again.
Queued_RetryFailed(j) ==
    {t \in Targets : JobOf[t] = j /\ targetStatus[t] \in {"queued", "failed"}}

Queued(j) == {t \in Targets : JobOf[t] = j /\ targetStatus[t] = "queued"}

WithTargets(k, allowed) == [k EXCEPT !.work = allowed]

Skipping(refused) ==
    [Clean EXCEPT !.target = [t \in Targets |-> IF t \in refused THEN "skipped" ELSE "clean"]]

\* Queued targets of contacts that may not be messaged are skipped.
PickTargets(s) ==
    LET queued  == Queued(tick[s].job)
        allowed == {t \in queued : MayMessage(ContactOf[t])}
    IN  /\ pc[s] = "targets"
        /\ pc' = [pc EXCEPT ![s] = "send"]
        /\ tick' = [tick EXCEPT ![s] = WithTargets(@, allowed)]
        /\ dirty' = [dirty EXCEPT ![s] = Skipping(queued \ allowed)]
        /\ UNCHANGED <<jobVars, targetStatus, contact, accountVars, ghosts, crashes>>

\* The next account of the rotation takes the next target.
IsTurn(s, a, t) ==
    /\ IsNext(a, tick[s].left, tick[s].pivot)
    /\ t \in tick[s].work
    /\ \A u \in tick[s].work : t <= u

UsedUp(k, a, t) == [k EXCEPT !.left = @ \ {a}, !.work = @ \ {t}]
Remembering(k, a) == [k EXCEPT !.last = [@ EXCEPT ![k.job] = a]]

Exhausted(s) == tick[s].left = {} \/ tick[s].work = {}

AfterFailure(d, t) == [d EXCEPT !.target[t] = "failed"]

\* No identifier to reach the contact by: the target fails, the account's turn
\* is used up, nothing is sent.
FailTarget(s) ==
    /\ pc[s] = "send"
    /\ \E a \in Accounts, t \in Targets :
        /\ IsTurn(s, a, t)
        /\ ContactOf[t] \in Unreachable
        /\ tick' = [tick EXCEPT ![s] = UsedUp(@, a, t)]
        /\ dirty' = [dirty EXCEPT ![s] = AfterFailure(@, t)]
    /\ UNCHANGED <<pc, jobVars, targetStatus, contact, accountVars, ghosts, crashes>>

Deliver(a, t) ==
    /\ delivered' = [delivered EXCEPT ![t] = @ + 1]
    /\ sentBy' = [sentBy EXCEPT ![a] = @ + 1]
    /\ lateSends' = [lateSends EXCEPT ![ContactOf[t]] =
                        IF contact[ContactOf[t]] = "opted_out" THEN @ + 1 ELSE @]
    /\ sendsOff' = [sendsOff EXCEPT ![JobOf[t]] =
                        IF jobStatus[JobOf[t]] = "running" THEN @ ELSE @ + 1]

\* Mutants: a warned target is marked sent; the job gets a status the table does not
\* allow.
AfterWarning_Sent(d, a, t) ==
    [d EXCEPT !.target[t] = "sent", !.flagged = {a}, !.job = "paused"]
AfterWarning_BadStatus(d, a, t) ==
    [d EXCEPT !.target[t] = "failed", !.flagged = {a}, !.job = "failed"]
\* Mutant: the account is benched but the job goes on.
AfterWarning_NoPause(d, a, t) ==
    [d EXCEPT !.target[t] = "failed", !.flagged = {a}]

\* A warning quarantines the account, pauses the job and fails the target.
AfterWarning(d, a, t) ==
    [d EXCEPT !.target[t] = "failed", !.flagged = {a}, !.job = "paused"]

\* The engine is asked to send.  "sent": it did and said so; "rejected": Telegram
\* refused (flood, peer-flood, unknown peer ...); "lost": the engine could not be
\* reached; "late": it did send, after the request had timed out.  All but the
\* first are a warning, which ends the tick.
Send(s, outcome) ==
    /\ pc[s] = "send"
    /\ \E a \in Accounts, t \in Targets :
        /\ IsTurn(s, a, t)
        /\ ContactOf[t] \notin Unreachable
        /\ IF outcome \in {"sent", "late"} THEN Deliver(a, t) ELSE UNCHANGED ghosts
        /\ IF outcome = "sent"
           THEN /\ pc' = [pc EXCEPT ![s] = "record"]
                /\ UNCHANGED dirty
           ELSE /\ pc' = [pc EXCEPT ![s] = "commit"]
                /\ dirty' = [dirty EXCEPT ![s] = AfterWarning(@, a, t)]
    /\ UNCHANGED <<jobVars, targetStatus, contact, accountVars, tick, crashes>>

\* A commit writes what the session has assigned since the previous one.
Flush(s) ==
    LET d == dirty[s] IN
    /\ targetStatus' = [t \in Targets |->
          IF d.target[t] = "clean" THEN targetStatus[t] ELSE d.target[t]]
    /\ accountStatus' = [a \in Accounts |->
          IF a \in d.flagged THEN "quarantined" ELSE accountStatus[a]]
    /\ actionsToday' = [a \in Accounts |->
          IF a \in d.acted THEN tick[s].seen[a] + 1 ELSE actionsToday[a]]
    /\ rested' = [a \in Accounts |-> IF a \in d.acted THEN FALSE ELSE rested[a]]
    /\ jobStatus' = [jobStatus EXCEPT ![tick[s].job] = IF d.job = "clean" THEN @ ELSE d.job]
    /\ jobLast' = [jobLast EXCEPT ![tick[s].job] = IF d.moved THEN tick[s].last[tick[s].job] ELSE @]

\* Mutant: the target is not marked.
AfterSend_Unmarked(s, a, t) ==
    [Clean EXCEPT !.acted = {a}, !.moved = (a # tick[s].last[tick[s].job])]

\* A send marks the target, counts the action and remembers the account.
AfterSend(s, a, t) ==
    [Clean EXCEPT !.target[t] = "sent", !.acted = {a},
                  !.moved = (a # tick[s].last[tick[s].job])]

\* The sent message is recorded in the inbox, and that commits the session with
\* everything assigned so far; only then the tick marks the target as sent and
\* counts the action, in memory.
Record(s) ==
    /\ pc[s] = "record"
    /\ Flush(s)
    /\ \E a \in Accounts, t \in Targets :
        /\ IsTurn(s, a, t)
        /\ tick' = [tick EXCEPT ![s] = Remembering(UsedUp(@, a, t), a)]
        /\ dirty' = [dirty EXCEPT ![s] = AfterSend(s, a, t)]
    /\ pc' = [pc EXCEPT ![s] = "send"]
    /\ UNCHANGED <<contact, ghosts, crashes>>

\* Mutant: a job is never completed.
AfterCount_Never(d, empty) == [d EXCEPT !.job = "clean"]

AfterCount(d, empty) == [d EXCEPT !.job = IF empty THEN "done" ELSE "clean"]

\* The job completes when the database has no queued target left for it.  The
\* count does not see what this session has assigned and not yet written.
Count(s) ==
    /\ pc[s] = "send"
    /\ Exhausted(s)
    /\ pc' = [pc EXCEPT ![s] = "commit"]
    /\ dirty' = [dirty EXCEPT ![s] = AfterCount(@, Queued(tick[s].job) = {})]
    /\ UNCHANGED <<jobVars, targetStatus, contact, accountVars, tick, ghosts, crashes>>

Commit(s) ==
    /\ pc[s] = "commit"
    /\ Flush(s)
    /\ dirty' = [dirty EXCEPT ![s] = Clean]
    /\ EndTick(s, tick[s].todo \ {tick[s].job}, tick[s].last)
    /\ UNCHANGED <<contact, ghosts, crashes>>

\* The process dies or a statement of the tick raises: the session is rolled
\* back and the rest of the sweep is lost.
Crash(s) ==
    /\ pc[s] # "idle"
    /\ crashes < MaxCrashes
    /\ crashes' = crashes + 1
    /\ pc' = [pc EXCEPT ![s] = "idle"]
    /\ tick' = [tick EXCEPT ![s] = NoTick]
    /\ dirty' = [dirty EXCEPT ![s] = Clean]
    /\ UNCHANGED <<jobVars, targetStatus, contact, accountVars, ghosts>>

-----------------------------------------------------------------------------

TickStep(s) ==
    \/ \E j \in Jobs : PickAccounts(s, j)
    \/ PickTargets(s)
    \/ FailTarget(s)
    \/ \E outcome \in Outcomes : Send(s, outcome)
    \/ Record(s)
    \/ Count(s)
    \/ Commit(s)

Manager ==
    \E j \in Jobs :
        \/ \E chosen \in SUBSET Contacts : AddTargets(j, chosen)
        \/ StartJob(j)
        \/ PauseJob(j)
        \/ StopJob(j)

Surroundings ==
    \/ "opt_out" \in Happenings /\ \E c \in Contacts : OptOut(c)
    \/ "consent" \in Happenings /\ \E c \in Contacts : GiveConsent(c) \/ WithdrawConsent(c)
    \/ "health" \in Happenings /\ \E a \in Accounts : Quarantine(a) \/ Reactivate(a)
    \/ "rest" \in Happenings /\ \E a \in Accounts : Rest(a)

Next ==
    \/ Manager
    \/ Surroundings
    \/ \E s \in Sessions :
        \/ BeginSweep(s)
        \/ \E j \in Jobs : BeginManual(s, j)
        \/ TickStep(s)
        \/ Crash(s)

Spec == Init /\ [][Next]_vars

\* Beat keeps ticking and a tick that has begun goes on; accounts come to rest.
\* Nothing is assumed of the manager or of the other parts.
FairSpec ==
    /\ Spec
    /\ \A s \in Sessions : WF_vars(BeginSweep(s)) /\ WF_vars(TickStep(s))
    /\ \A a \in Accounts : WF_vars("rest" \in Happenings /\ Rest(a))

-----------------------------------------------------------------------------
(* Properties.                                                              *)

\* A target the database shows as sent was delivered at least once: whatever
\* ticks overlap, die or time out, no contact is reported as reached (the job's
\* statistics, sender.py:85-93) that was not.
SentIsTruthful == \A t \in Targets : targetStatus[t] = "sent" => delivered[t] > 0

\* Overlapping ticks and ticks that die between the engine's answer and the
\* commit make run_tick send a target again, but each session and each crash
\* accounts for at most one delivery of it: restarting a finished job, re-adding
\* its contacts or the skipping of others never makes the number grow.
DuplicatesBounded ==
    \A t \in Targets : delivered[t] <= Cardinality(Sessions) + crashes

\* However the absolute writes of actions_today by overlapping ticks overwrite
\* each other, the counter never passes the cap (the filter of run_tick) ...
CapHeld == \A a \in Accounts : actionsToday[a] <= Cap[a]

\* ... and it never exceeds the messages the account really sent: lost updates
\* may make it too low, failed or refused sends never make it too high.
CounterHonest == \A a \in Accounts : actionsToday[a] <= sentBy[a]

CounterKept == CapHeld /\ CounterHonest

\* A contact that opted out is sent at most one more message per session that
\* was already ticking: a tick that starts later reads the flag and skips the
\* contact, also when the same sweep goes on to another job with that contact.
LateSendsBounded == \A c \in Contacts : lateSends[c] <= Cardinality(Sessions)

\* A job that stopped running sends at most one more round of its accounts per
\* session: a tick under way does not see the pause, a later one does not begin.
PauseTakesEffect ==
    \A j \in Jobs : sendsOff[j] <= Cardinality(Sessions) * Cardinality(Accounts)

\* What overlapping and dying ticks do too often is bounded by their number: deliveries of
\* a target, and sends of a job that was paused.
OverlapBounded == DuplicatesBounded /\ PauseTakesEffect

\* A target that was sent, failed or skipped is never queued again.
SettledStays ==
    [][\A t \in Targets : targetStatus[t] \in Settled => targetStatus'[t] \in Settled]_vars

\* A warning benches the account and pauses the job in one commit, so that no
\* reader ever sees the account benched by a tick and the job still running.
WarningPauses ==
    [][\A s \in Sessions, a \in Accounts :
          a \in dirty[s].flagged /\ a \notin dirty'[s].flagged /\ crashes' = crashes
             => /\ accountStatus'[a] = "quarantined"
                /\ jobStatus'[tick[s].job] # "running"]_vars

\* One worker that neither dies nor loses an answer keeps the sender's promise.
Ledger == INSTANCE SendLedger WITH status <- targetStatus
KeepsLedger == Ledger!Spec

\* A running job ends or pauses unless it runs out of usable accounts.
JobEnds ==
    \A j \in Jobs :
        jobStatus[j] = "running" ~>
            \/ jobStatus[j] # "running"
            \/ \A a \in Accounts : accountStatus[a] # "active" \/ actionsToday[a] >= Cap[a]

-----------------------------------------------------------------------------
(* What the documentation says and the code does not keep.                  *)

\* "accounts hold a per-day counter reset by ticks" (analytics.py:88): an account
\* that reached its cap can act again some day.
CounterIsReset ==
    \A a \in Accounts : actionsToday[a] >= Cap[a] ~> actionsToday[a] < Cap[a]
=============================================================================
