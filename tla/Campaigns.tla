------------------------------ MODULE Campaigns ------------------------------
(***************************************************************************)
(* Campaigns: drip steps sent, or members added, for the contacts of a     *)
(* segment (backend/app/services/campaigns.py), driven by Celery beat      *)
(* (backend/worker/tasks/campaigns.py) and by the API (api/campaigns.py).  *)
(*                                                                         *)
(* A start and a tick each run in a database session of their own; what a  *)
(* session has loaded ("tick") and assigned ("dirty") is kept as in module *)
(* Sender.  The first start makes the campaign running in one commit and   *)
(* inserts its targets in a second one.  A campaign either messages its    *)
(* contacts or makes them join its destination: the code's "add" and       *)
(* "invite" take the same path.                                            *)
(***************************************************************************)
EXTENDS Pacing

CONSTANTS
    Campaigns, Contacts,
    Accounts,      \* account ids, positive integers
    Targets,       \* ids of the campaign_targets rows that may exist
    CampaignOf, ContactOf,
    Offset,        \* hours from the start to the step of a target
    Joining,       \* the campaigns that add members, all to one destination
    Excluding,     \* the campaigns whose segment leaves out members
    Cap,           \* daily_cap of an account
    Workers,       \* database sessions of the beat-driven sweeps ...
    Requests,      \* ... and of API requests; one that is in both does one at a time
    Outcomes,      \* what the engine may do when asked, see Act
    Happenings,    \* what the rest of the system may do meanwhile
    MaxHours,      \* bound on the clock, see PassHour
    MaxStarts,     \* bound on the requests to start a campaign
    MaxServed,     \* served is not counted further than this
    MaxCrashes     \* bound on the sessions that die half way

ASSUME CampaignsAssumption ==
    /\ Campaigns # {}
    /\ Accounts \subseteq Nat \ {NoId}
    /\ Targets \subseteq Nat
    /\ CampaignOf \in [Targets -> Campaigns]
    /\ ContactOf \in [Targets -> Contacts]
    /\ Offset \in [Targets -> Nat]
    /\ Joining \subseteq Campaigns
    /\ Excluding \subseteq Campaigns
    /\ Cap \in [Accounts -> Nat]
    /\ Outcomes \subseteq {"done", "failed", "warned", "late"}
    /\ Happenings \subseteq {"opt_out", "consent", "stop", "hour"}
    /\ MaxHours \in Nat
    /\ MaxStarts \in Nat
    /\ MaxServed \in Nat
    /\ MaxCrashes \in Nat

Sessions == Workers \cup Requests

\* A duplicate is accounted for by the number of sessions, which is finite.
ASSUME FinitelyMany == IsFiniteSet(Sessions)

VARIABLES
    (* the database *)
    status, started, last,          \* campaigns.status, whether started_at is set, .last_account_id
    result, scheduled,              \* campaign_targets.result ("absent" before the insert), .scheduled_at
    member,                         \* contacts with a group_memberships row
    willing,                        \* contacts with consent that have not opted out
    active, actionsToday, rested,   \* accounts: status "active", actions_today, delay_ok
    (* the sessions and the clock *)
    pc, tick, dirty, hour,
    (* what an observer counts *)
    served,                         \* times the engine did what a target asks for
    lateAnswers,                    \* times it did and the backend had given up
    tried,                          \* targets some tick has handled other than by a warning
    materialized,                   \* campaigns whose targets were inserted
    starts, crashes

campaignVars == <<status, started, last>>
targetVars   == <<result, scheduled, member>>
accountVars  == <<active, actionsToday, rested>>
sessionVars  == <<pc, tick, dirty>>
ghosts       == <<served, lateAnswers, tried, materialized>>
bounds       == <<starts, crashes>>
vars == <<campaignVars, targetVars, willing, accountVars, sessionVars, hour, ghosts, bounds>>

Outcome == {"sent", "joined", "failed", "skipped"}

\* "first" and "campaign" are what a start has loaded; the rest is a tick's.
TickStates ==
    [todo : SUBSET Campaigns, campaign : Campaigns, first : BOOLEAN,
     last : [Campaigns -> Accounts \cup {NoId}],
     left : SUBSET Accounts, pivot : Accounts \cup {NoId},
     seen : [Accounts -> Nat], work : SUBSET Targets]

\* "inserts" are the targets for which a membership row was added.
DirtyStates ==
    [result : [Targets -> Outcome \cup {"clean"}], acted : SUBSET Accounts,
     moved : BOOLEAN, flagged : SUBSET Accounts, inserts : SUBSET Targets,
     campaign : {"clean", "paused", "done"}]

Clean == [result |-> [t \in Targets |-> "clean"], acted |-> {}, moved |-> FALSE,
          flagged |-> {}, inserts |-> {}, campaign |-> "clean"]

NoTick == [todo |-> {}, campaign |-> CHOOSE c \in Campaigns : TRUE, first |-> FALSE,
           last |-> [c \in Campaigns |-> NoId], left |-> {}, pivot |-> NoId,
           seen |-> [a \in Accounts |-> 0], work |-> {}]

TypeOK ==
    /\ status \in [Campaigns -> {"draft", "running", "paused", "done"}]
    /\ started \in [Campaigns -> BOOLEAN]
    /\ last \in [Campaigns -> Accounts \cup {NoId}]
    /\ result \in [Targets -> Outcome \cup {"absent", "queued"}]
    /\ scheduled \in [Targets -> Nat]
    /\ member \in SUBSET Contacts
    /\ willing \in SUBSET Contacts
    /\ active \in SUBSET Accounts
    /\ actionsToday \in [Accounts -> Nat]
    /\ rested \in SUBSET Accounts
    /\ pc \in [Sessions -> {"idle", "starting", "inserting",
                            "sweep", "targets", "act", "record", "commit"}]
    /\ tick \in [Sessions -> TickStates]
    /\ dirty \in [Sessions -> DirtyStates]
    /\ hour \in Nat
    /\ served \in [Targets -> Nat]
    /\ lateAnswers \in [Targets -> Nat]
    /\ tried \in SUBSET Targets
    /\ materialized \in SUBSET Campaigns
    /\ starts \in Nat
    /\ crashes \in Nat

Init ==
    /\ status = [c \in Campaigns |-> "draft"]
    /\ started = [c \in Campaigns |-> FALSE]
    /\ last = [c \in Campaigns |-> NoId]
    /\ result = [t \in Targets |-> "absent"]
    /\ scheduled = [t \in Targets |-> 0]
    /\ member = {}
    /\ willing = Contacts
    /\ active = Accounts
    /\ actionsToday = [a \in Accounts |-> 0]
    /\ rested = Accounts
    /\ pc = [s \in Sessions |-> "idle"]
    /\ tick = [s \in Sessions |-> NoTick]
    /\ dirty = [s \in Sessions |-> Clean]
    /\ hour = 0
    /\ served = [t \in Targets |-> 0]
    /\ lateAnswers = [t \in Targets |-> 0]
    /\ tried = {}
    /\ materialized = {}
    /\ starts = 0
    /\ crashes = 0

-----------------------------------------------------------------------------
(* Starting, pausing and stopping.                                          *)

\* The session is closed and its memory gone.
Release(s) ==
    /\ pc' = [pc EXCEPT ![s] = "idle"]
    /\ tick' = [tick EXCEPT ![s] = NoTick]
    /\ dirty' = [dirty EXCEPT ![s] = Clean]

LoadForStart(s, c) ==
    /\ pc[s] = "idle"
    /\ starts < MaxStarts
    /\ starts' = starts + 1
    /\ pc' = [pc EXCEPT ![s] = "starting"]
    /\ tick' = [tick EXCEPT ![s].campaign = c, ![s].first = ~started[c]]
    /\ UNCHANGED <<campaignVars, targetVars, willing, accountVars, dirty, hour, ghosts, crashes>>

\* Mutant: every start ends after its first commit.
CommitStart_Final(s) ==
    LET c == tick[s].campaign IN
    /\ pc[s] = "starting"
    /\ status' = [status EXCEPT ![c] = "running"]
    /\ started' = [started EXCEPT ![c] = TRUE]
    /\ Release(s)
    /\ UNCHANGED <<last, targetVars, willing, accountVars, hour, ghosts, bounds>>

\* Only the first start goes on to insert targets.
CommitStart(s) ==
    LET c == tick[s].campaign IN
    /\ pc[s] = "starting"
    /\ status' = [status EXCEPT ![c] = "running"]
    /\ started' = [started EXCEPT ![c] = TRUE]
    /\ IF tick[s].first
       THEN pc' = [pc EXCEPT ![s] = "inserting"] /\ UNCHANGED <<tick, dirty>>
       ELSE Release(s)
    /\ UNCHANGED <<last, targetVars, willing, accountVars, hour, ghosts, bounds>>

Segment(c) == IF c \in Excluding THEN willing \ member ELSE willing

\* One target per contact of the segment and step.  unique(campaign, contact, step)
\* rejects all of them if another start has inserted any.
Materialize(s) ==
    LET c == tick[s].campaign
        fresh == {t \in Targets : CampaignOf[t] = c /\ ContactOf[t] \in Segment(c)}
    IN  /\ pc[s] = "inserting"
        /\ IF \A t \in fresh : result[t] = "absent"
           THEN /\ result' = [t \in Targets |-> IF t \in fresh THEN "queued" ELSE result[t]]
                /\ scheduled' = [t \in Targets |->
                                    IF t \in fresh THEN hour + Offset[t] ELSE scheduled[t]]
                /\ materialized' = materialized \cup {c}
           ELSE UNCHANGED <<result, scheduled, materialized>>
        /\ Release(s)
        /\ UNCHANGED <<campaignVars, member, willing, accountVars, hour,
                       served, lateAnswers, tried, bounds>>

SetStatus(c, state) ==
    /\ status' = [status EXCEPT ![c] = state]
    /\ UNCHANGED <<started, last, targetVars, willing, accountVars, sessionVars, hour,
                   ghosts, bounds>>

PauseCampaign(c) == SetStatus(c, "paused")
StopCampaign(c)  == SetStatus(c, "done")

-----------------------------------------------------------------------------
(* What the rest of the system does to the rows a campaign reads.           *)

SetWilling(contacts) ==
    /\ willing' = contacts
    /\ UNCHANGED <<campaignVars, targetVars, accountVars, sessionVars, hour, ghosts, bounds>>

OptOut(x) == x \in willing /\ SetWilling(willing \ {x})
GiveConsent(x) == x \notin willing /\ SetWilling(willing \cup {x})

\* min_delay seconds have passed since the account's last action.
Rest(a) ==
    /\ a \notin rested
    /\ rested' = rested \cup {a}
    /\ UNCHANGED <<campaignVars, targetVars, willing, active, actionsToday, sessionVars,
                   hour, ghosts, bounds>>

\* The clock runs to MaxHours, and on while a queued target is not yet due.
PassHour ==
    /\ hour < MaxHours \/ \E t \in Targets : result[t] = "queued" /\ scheduled[t] > hour
    /\ hour' = hour + 1
    /\ UNCHANGED <<campaignVars, targetVars, willing, accountVars, sessionVars, ghosts, bounds>>

-----------------------------------------------------------------------------
(* A tick.                                                                  *)

Begin(s, cs) ==
    /\ pc[s] = "idle"
    /\ cs # {}
    /\ pc' = [pc EXCEPT ![s] = "sweep"]
    /\ tick' = [tick EXCEPT ![s].todo = cs, ![s].last = last]
    /\ UNCHANGED <<campaignVars, targetVars, willing, accountVars, dirty, hour, ghosts, bounds>>

BeginSweep(s)     == Begin(s, {c \in Campaigns : status[c] = "running"})
BeginManual(s, c) == status[c] = "running" /\ Begin(s, {c})

\* The campaign's tick is over: forget its rows, go on with the sweep.
EndTick(s, todo, lastSeen) ==
    /\ pc' = [pc EXCEPT ![s] = IF todo = {} THEN "idle" ELSE "sweep"]
    /\ tick' = [tick EXCEPT ![s] = IF todo = {} THEN NoTick
                                   ELSE [NoTick EXCEPT !.todo = todo, !.last = lastSeen]]

UsableAccounts == {a \in active \cap rested : UnderDailyCap(actionsToday[a], Cap[a])}

PickAccounts(s, c) ==
    /\ pc[s] = "sweep"
    /\ c \in tick[s].todo
    /\ IF UsableAccounts = {}
       THEN EndTick(s, tick[s].todo \ {c}, tick[s].last)
       ELSE /\ pc' = [pc EXCEPT ![s] = "targets"]
            /\ tick' = [tick EXCEPT ![s].campaign = c, ![s].left = UsableAccounts,
                                    ![s].pivot = Pivot(UsableAccounts, tick[s].last[c]),
                                    ![s].seen = actionsToday]
    /\ UNCHANGED <<campaignVars, targetVars, willing, accountVars, dirty, hour, ghosts, bounds>>

Queued(c) == {t \in Targets : CampaignOf[t] = c /\ result[t] = "queued"}

Due(c) == {t \in Queued(c) : scheduled[t] <= hour}

\* Due targets of contacts that may not be contacted are skipped.
PickTargets(s) ==
    LET due     == Due(tick[s].campaign)
        refused == {t \in due : ContactOf[t] \notin willing}
    IN  /\ pc[s] = "targets"
        /\ pc' = [pc EXCEPT ![s] = "act"]
        /\ tick' = [tick EXCEPT ![s].work = due \ refused]
        /\ dirty' = [dirty EXCEPT ![s].result =
                        [t \in Targets |-> IF t \in refused THEN "skipped" ELSE "clean"]]
        /\ tried' = tried \cup refused
        /\ UNCHANGED <<campaignVars, targetVars, willing, accountVars, hour,
                       served, lateAnswers, materialized, bounds>>

\* Mutant: only the row ids order the targets, the newest first.
Before_NewestFirst(t, u) == t >= u

\* Targets are taken in the order of their schedule, then of their ids.
Before(t, u) == scheduled[t] < scheduled[u] \/ (scheduled[t] = scheduled[u] /\ t <= u)

\* The next account of the rotation takes the next target.
IsTurn(s, a, t) ==
    /\ IsNext(a, tick[s].left, tick[s].pivot)
    /\ t \in tick[s].work
    /\ \A u \in tick[s].work : Before(t, u)

UsedUp(k, a, t) ==
    [k EXCEPT !.left = @ \ {a}, !.work = @ \ {t}, !.last = [@ EXCEPT ![k.campaign] = a]]

Exhausted(s) == tick[s].left = {} \/ tick[s].work = {}

\* Every outcome but a warning counts as an action of the account.
Settled(d, k, a, t, state) ==
    [d EXCEPT !.result[t] = state, !.acted = @ \cup {a},
              !.moved = @ \/ a # k.last[k.campaign]]

\* Mutant: no membership row is added.
Joined_NoRow(d, k, a, t) == Settled(d, k, a, t, "joined")

\* The membership is looked up in the database, which does not have the rows this
\* session has added and not yet written.
Joined(d, k, a, t) ==
    [Settled(d, k, a, t, "joined") EXCEPT
        !.inserts = IF ContactOf[t] \in member THEN @ ELSE @ \cup {t}]

\* Mutant: the campaign gets a status the table does not allow.
Warned_BadStatus(d, a, t) == [d EXCEPT !.flagged = {a}, !.campaign = "failed"]

\* A warning quarantines the account and pauses the campaign; the target stays queued.
Warned(d, a, t) == [d EXCEPT !.flagged = {a}, !.campaign = "paused"]

\* The engine is asked to message or to add the contact.  "done": it did and said so;
\* "failed": Telegram refused it for good (or there is nobody to ask for);
\* "warned": a flood warning, or no engine; "late": it did, after the request had
\* timed out.  A message that was sent is recorded before it is marked.
Act(s, outcome) ==
    /\ pc[s] = "act"
    /\ \E a \in Accounts, t \in Targets :
        /\ IsTurn(s, a, t)
        /\ served' = IF outcome \in {"done", "late"} /\ served[t] < MaxServed
                     THEN [served EXCEPT ![t] = @ + 1] ELSE served
        /\ lateAnswers' = IF outcome = "late" THEN [lateAnswers EXCEPT ![t] = @ + 1] ELSE lateAnswers
        /\ tried' = IF outcome \in {"done", "failed"} THEN tried \cup {t} ELSE tried
        /\ CASE outcome \in {"warned", "late"} ->
                  /\ pc' = [pc EXCEPT ![s] = "commit"]
                  /\ dirty' = [dirty EXCEPT ![s] = Warned(@, a, t)]
                  /\ UNCHANGED tick
             [] outcome = "failed" ->
                  /\ dirty' = [dirty EXCEPT ![s] = Settled(@, tick[s], a, t, "failed")]
                  /\ tick' = [tick EXCEPT ![s] = UsedUp(@, a, t)]
                  /\ UNCHANGED pc
             [] outcome = "done" /\ tick[s].campaign \in Joining ->
                  /\ dirty' = [dirty EXCEPT ![s] = Joined(@, tick[s], a, t)]
                  /\ tick' = [tick EXCEPT ![s] = UsedUp(@, a, t)]
                  /\ UNCHANGED pc
             [] OTHER ->
                  /\ pc' = [pc EXCEPT ![s] = "record"]
                  /\ UNCHANGED <<tick, dirty>>
    /\ UNCHANGED <<campaignVars, targetVars, willing, accountVars, hour, materialized, bounds>>

\* A commit writes what the session has assigned since the previous one.
Flush(s) ==
    LET d == dirty[s]
        k == tick[s]
    IN  /\ result' = [t \in Targets |-> IF d.result[t] = "clean" THEN result[t] ELSE d.result[t]]
        /\ member' = member \cup {ContactOf[t] : t \in d.inserts}
        /\ active' = active \ d.flagged
        /\ actionsToday' = [a \in Accounts |->
              IF a \in d.acted THEN k.seen[a] + 1 ELSE actionsToday[a]]
        /\ rested' = rested \ d.acted
        /\ status' = [status EXCEPT ![k.campaign] = IF d.campaign = "clean" THEN @ ELSE d.campaign]
        /\ last' = [last EXCEPT ![k.campaign] = IF d.moved THEN k.last[k.campaign] ELSE @]

\* Mutant: the sent target is not marked.
AfterSend_Unmarked(s, a, t) ==
    [Settled(Clean, tick[s], a, t, "sent") EXCEPT !.result[t] = "clean"]

AfterSend(s, a, t) == Settled(Clean, tick[s], a, t, "sent")

\* Recording the sent message in the inbox commits the session; only then the
\* target is marked, in memory.
Record(s) ==
    /\ pc[s] = "record"
    /\ Flush(s)
    /\ \E a \in Accounts, t \in Targets :
        /\ IsTurn(s, a, t)
        /\ tick' = [tick EXCEPT ![s] = UsedUp(@, a, t)]
        /\ dirty' = [dirty EXCEPT ![s] = AfterSend(s, a, t)]
    /\ pc' = [pc EXCEPT ![s] = "act"]
    /\ UNCHANGED <<started, scheduled, willing, hour, ghosts, bounds>>

\* Mutants: only due targets count; targets count whatever their result.
Remaining_DueOnly(c) == Due(c)
Remaining_Always(c) == {t \in Targets : CampaignOf[t] = c}

Remaining(c) == Queued(c)

\* The count does not see what this session has assigned and not yet written.
Count(s) ==
    /\ pc[s] = "act"
    /\ Exhausted(s)
    /\ pc' = [pc EXCEPT ![s] = "commit"]
    /\ dirty' = [dirty EXCEPT ![s].campaign =
                    IF Remaining(tick[s].campaign) = {} THEN "done" ELSE "clean"]
    /\ UNCHANGED <<campaignVars, targetVars, willing, accountVars, tick, hour, ghosts, bounds>>

\* unique(contact, destination) on group_memberships: two added rows, or one that
\* another session has written meanwhile.
Conflict(s) ==
    \E t \in dirty[s].inserts :
        \/ ContactOf[t] \in member
        \/ \E u \in dirty[s].inserts \ {t} : ContactOf[u] = ContactOf[t]

Commit(s) ==
    /\ pc[s] = "commit"
    /\ ~Conflict(s)
    /\ Flush(s)
    /\ dirty' = [dirty EXCEPT ![s] = Clean]
    /\ EndTick(s, tick[s].todo \ {tick[s].campaign}, tick[s].last)
    /\ UNCHANGED <<started, scheduled, willing, hour, ghosts, bounds>>

\* The commit raises: the tick is rolled back and the rest of the sweep is lost.
CommitFails(s) ==
    /\ pc[s] = "commit"
    /\ Conflict(s)
    /\ Release(s)
    /\ UNCHANGED <<campaignVars, targetVars, willing, accountVars, hour, ghosts, bounds>>

\* The process dies: the session is rolled back.
Crash(s) ==
    /\ pc[s] # "idle"
    /\ crashes < MaxCrashes
    /\ crashes' = crashes + 1
    /\ Release(s)
    /\ UNCHANGED <<campaignVars, targetVars, willing, accountVars, hour, ghosts, starts>>

-----------------------------------------------------------------------------

StartStep(s) == CommitStart(s) \/ Materialize(s)

TickStep(s) ==
    \/ \E c \in Campaigns : PickAccounts(s, c)
    \/ PickTargets(s)
    \/ \E outcome \in Outcomes : Act(s, outcome)
    \/ Record(s)
    \/ Count(s)
    \/ Commit(s)
    \/ CommitFails(s)

Surroundings ==
    \/ "opt_out" \in Happenings /\ \E x \in Contacts : OptOut(x)
    \/ "consent" \in Happenings /\ \E x \in Contacts : GiveConsent(x)
    \/ "stop" \in Happenings /\ \E c \in Campaigns : StopCampaign(c)
    \/ "hour" \in Happenings /\ PassHour
    \/ \E a \in Accounts : Rest(a)
    \/ \E c \in Campaigns : PauseCampaign(c)

Next ==
    \/ Surroundings
    \/ \E s \in Sessions :
        \/ s \in Requests /\ \E c \in Campaigns : LoadForStart(s, c) \/ BeginManual(s, c)
        \/ s \in Workers /\ BeginSweep(s)
        \/ StartStep(s)
        \/ TickStep(s)
        \/ Crash(s)

Spec == Init /\ [][Next]_vars

\* Beat keeps ticking, what has begun goes on, accounts come to rest, time passes.
FairSpec ==
    /\ Spec
    /\ \A s \in Workers : WF_vars(BeginSweep(s))
    /\ \A s \in Sessions : WF_vars(StartStep(s)) /\ WF_vars(TickStep(s))
    /\ \A a \in Accounts : WF_vars(Rest(a))
    /\ WF_vars("hour" \in Happenings /\ PassHour)

-----------------------------------------------------------------------------
(* Properties.                                                              *)

\* A message step is delivered once, plus once per overlapping session, per crash
\* and per answer that came too late (the target of a warning stays queued and is
\* sent again when the campaign is resumed): pausing, resuming and starting again
\* (campaigns.py:181-204) never add to that.
DuplicatesAccounted ==
    \A t \in Targets : CampaignOf[t] \notin Joining =>
        served[t] <= Cardinality(Sessions) + crashes + lateAnswers[t]

\* The steps of a contact go out in the order of their offsets: when one has been
\* served, every earlier one was handled first, although ticks overlap and die and
\* warnings put targets back (campaigns.py:328-346, 357-362).
DripInOrder ==
    \A t, u \in Targets :
        /\ CampaignOf[t] = CampaignOf[u]
        /\ ContactOf[t] = ContactOf[u]
        /\ Offset[t] < Offset[u]
        /\ served[u] > 0
        => t \in tried

\* No step goes out before its time, however often the campaign is started.
OnSchedule == \A t \in Targets : served[t] > 0 => scheduled[t] <= hour

\* The drip of a contact keeps its order and its times.
DripKept == DripInOrder /\ OnSchedule

\* A target reported as joined has its membership row: both are written by one
\* commit or by none, whichever session wins the insert.
JoinedIsMember == \A t \in Targets : result[t] = "joined" => ContactOf[t] \in member

\* Whether one request starts a campaign or two do so at once: when no start is under
\* way and none died, a started campaign has its targets.
StartedIsMaterialized ==
    \A c \in Campaigns :
        /\ started[c]
        /\ \A s \in Sessions : tick[s].campaign = c => pc[s] # "inserting"
        /\ crashes = 0
        => c \in materialized

\* A campaign nobody stops is done only when it has no queued target, the ones of
\* later steps included ("Complete when nothing is left queued", campaigns.py:381).
\* It holds for one session; a start and a tick at once break it.
DoneIsDrained ==
    \A c \in Campaigns : status[c] = "done" => Queued(c) = {}

\* A running campaign ends or pauses unless its accounts are at their cap or benched.
CampaignEnds ==
    \A c \in Campaigns :
        status[c] = "running" ~>
            status[c] # "running" \/ \A a \in active : actionsToday[a] >= Cap[a]
=============================================================================
