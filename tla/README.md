# TLA+ models of the Telegram Marketing CRM

This directory holds TLA+ models of the program in `../src`, the TLC
configurations that check them on small instances, and proofs for TLAPS.
Paths below are relative to `../src` unless they name a file of this directory.

Contents: [the system](#1-the-system) · [how the code is
modelled](#2-how-the-code-is-modelled) · [the modules](#3-the-modules) · [the
runs](#4-the-runs) · [fairness](#5-fairness) · [the proofs](#6-the-proofs) · [what
the models found](#7-what-the-models-found) · [what is not
modelled](#8-what-is-not-modelled) · [the plan](#9-the-plan)

## 1. The system

The CRM messages consented contacts from a pool of Telegram accounts, adds
contacts to groups, and keeps the replies. It runs as

* a FastAPI backend, four uvicorn processes (`docker-compose.prod.yml:26`), whose
  requests are the managers' and agents' operations and each of which also runs
  one consumer of incoming messages and one of bot events;
* a Celery worker with four processes (`docker-compose.prod.yml:34`), to which
  beat hands a sender sweep and a campaign sweep every 60 s, a warm-up sweep
  every 300 s, and a backup every hour (`backend/worker/celery_app.py`). Beat fires
  whether or not the previous task of the kind has ended; nothing locks;
* one engine process that owns the Telethon clients and their sessions, called
  over HTTP with a timeout of 30 s (`backend/app/services/engine_client.py`), and
  that publishes incoming messages to Redis;
* PostgreSQL, the only durable state; Redis, for pub/sub, the Celery queue and rate
  limits; a React frontend.

### Inventory

| Component | State it keeps | Operations | What makes it correct |
|---|---|---|---|
| **Sender** `services/sender.py`, `api/sender.py`, `worker/tasks/sending.py` | jobs (status, last account), targets (one row per job and contact), and the counters and statuses of accounts | create, add contacts, start / pause / stop, the tick (beat's sweep over running jobs, or a manager's request for one) | what is reported sent was delivered; duplicates, messages after an opt-out or a pause, and daily volume are bounded; a warning benches the account and pauses the job; what was settled is not queued again; jobs end |
| **Campaigns** `services/campaigns.py`, `api/campaigns.py`, `worker/tasks/campaigns.py` | campaigns, steps, targets (campaign, contact, step), memberships under a unique constraint | start in two commits, pause, stop, the tick for messaging and for adding | a started campaign has its targets; steps go out in order and on time; done means drained; a reported join has its membership row |
| **Inbox** `services/inbox.py`, `services/inbox_consumer.py`, `engine/listener.py`, `api/inbox.py` | conversations (unique per account and peer), messages, and consent, opt-out and stage of contacts | record an incoming message (in every API worker), record an outgoing one (by the ticks), set a status, delete, save the peer as a contact, edit its stage, consent and opt-out | a stop takes hold and stays, whichever worker, tick or older edit writes last |
| **Warm-up** `services/warmup.py`, `api/warmup.py`, `worker/tasks/warmup.py` | runs, participants (stage, day counter), status of accounts | add / remove participants, start / pause / stop / delete, the tick | nobody leaves the ramp early, the stage's volume is kept, no account stays *warming* for ever |
| **Pacing rules** `worker/antiban/pacing.py` | none | cap, delay, active window, rotation | equal to their plain definitions |
| **Accounts** `services/accounts.py`, `api/accounts.py` | account rows: status, session, proxy, caps | log in by phone or QR, import a session, health and spam checks, override, edit, delete | a quarantine is not taken back from a stale reading; an account taken for logged in is |
| **Proxies** `services/proxies.py` | proxies and the account each serves | import, assign, release, test | the two tables that name the holder agree; a proxy serves one account |
| **Engine** `engine/manager.py`, `actions.py`, `health.py`, `resolve.py` | one client and one lock per account, logins under way, session files | connect, sign in, log out, send, add, resolve, restart | each message is published once: one listening client per account |
| **Engine client** `services/engine_client.py` | none | HTTP calls with a timeout | a lost answer is not taken for an act that was not done |
| **Message threads** `services/inbox.py`, `api/inbox.py` | messages, the unread counter | store (in every worker), open, page back, answer, delete | nothing is lost or shown as answered when it is not; badges and pages are complete |
| **Destinations** `services/destinations.py` | groups, memberships (unique per contact) | register, queue members, the add tick, delete | nobody is added twice unexplained; the table tells who is a member; caps |
| **Contacts** `services/contacts.py` | contacts with phone, username, Telegram id | create, edit, import, resolve, unresolve, save a peer, delete | a name is one contact's; resolved means the id is known |
| **Bots** `services/bots.py`, `bot_consumer.py`, `engine/bots_manager.py` | bots, subscribers, messages; one polling task per bot | start, stop, remove, write events down | the status tells whether the bot is polled for; messages are kept |
| **Backups** `services/backup.py` | archives and their descriptions | create, the hourly tick, prune, upload, delete, restore | an account logged in by the database has its session file; automatic backups keep their distance |
| **Staff and sign-in** `services/users.py`, `services/auth.py`, `api/users.py` | users | log in, create, edit, deactivate, change the own password, bootstrap | an active administrator remains; an edit takes back nothing it did not know of |
| **Rate limits** `ratelimit.py`, `middleware.py` | a counter per address, scope and window, in Redis or a worker's memory | count a request | bounded volume; nobody is shut out for good |
| **Realtime** `realtime.py` | sockets per worker, a subscription | connect, publish, fan out | everybody connected is told, once |
| **Referrals**, **analytics**, **audit**, **templates**, **migrations**, **frontend** | appended or derived rows, texts | reading, rendering | not modelled: section 8 |

### How the components interact

Sender, Campaigns, Destinations and Warm-up are *tickers*: each tick loads the
accounts that may act, picks its work, calls the engine once per account and
writes the outcome to the shared tables `accounts` and `contacts`. There is no
message between them; all they know of each other is `accounts.actions_today`,
`last_action_at` and `status`. A health check or a manager's override writes
the same status. A Sender or Campaigns tick also calls
`inbox.record_outgoing`, which **commits the caller's session**. The consumers
write the contact's opt-out and stage, which the tickers read.

### What is hard

1. **Overlapping sessions.** Any two ticks, requests or consumers may interleave
   between their commits. The session factory sets `expire_on_commit=False` and
   `autoflush=False` (`backend/app/db/session.py:25-30`): a row keeps the values it was
   loaded with for the whole session, assignments stay in memory until the next
   commit, and a commit writes only the columns that changed, as absolute values.
2. **Commits in the middle.** `record_outgoing` commits the bookkeeping of the
   send *before* the one it records; the first start of a campaign is two commits.
3. **Partial failure.** A worker may die between the engine's act and the commit;
   a timed-out call may have been carried out; a commit may raise (a unique
   constraint, an UPDATE of a deleted row), which undoes the whole tick and ends
   the sweep.
4. **Every consumer gets every message** and handles it at its own speed; one that
   loses Redis never hears again.
5. **Time:** caps per day, delays, windows over midnight, drip offsets, the warm-up's
   stages.

The hazards this gives rise to are listed, with their lines and the properties that
watch them, in `PROJECT.json` under `hazards`.

## 2. How the code is modelled

*A session* of the database is a process. Its variables are where it stands (`pc`
or `phase`), what it has loaded (`tick` / `mem`) and what it has assigned and not yet
written (`dirty`, or the difference between the loaded and the current row). One
action runs from one point where the others can observe or disturb the session to
the next: a load, an engine call, a commit. Under READ COMMITTED and one Python
thread per session nothing in between is visible to anybody else. A crash, and a
commit that raises, forget what the session has not written.

*Data is abstracted.* A contact is a model value with what decides whether it may be
messaged; a message body, a template, a name are left out. `last_action_at` is the
boolean "the minimum delay has passed" (`rested`) that a separate action `Rest`
makes true; the window test becomes a choice of `Windows`. `PacingInputs` checks the
real window and rotation. An account's id is a number because the rotation compares ids.

*Ghost variables* say what an observer of Telegram would count: messages
delivered for a target, from an account, after an opt-out, after a pause; and which rows
two sessions have held at the same time (`raced`, `cbRaced`, `dsOverlaps`, `thSkewed`,
`stShared`). The latter name the exception of a property: where no constraint and no lock
backs a rule of the code, the property says exactly which overlap may break it, and
that nothing else does. No guard of a code action reads a ghost.

*Mutants.* Operators whose comment begins with "Mutant:" are not used by the
specifications. Each is a way the definition after it could be wrong; substituted for
it, the property named in `PROJECT.json` fails, which shows that the property
depends on that code.

## 3. The modules

| Module | Stands for | Extends |
|---|---|---|
| `Pacing`; `PacingInputs` | `worker/antiban/pacing.py`; its reference definitions over all small inputs | ; Pacing |
| `Sender` | the sender | Pacing |
| `SendLedger` | what a sender promises (abstract) | |
| `Campaigns` | campaigns | Pacing |
| `Inbox` | conversations, opt-outs and the contacts' consent | |
| `Warmup` | warm-up runs and the accounts' status | |
| `EngineClients` | the engine's table of clients, its locks and session files | |
| `Accounts` | accounts and proxies: requests that call the engine | EngineClients |
| `Threads` | the messages of one conversation | |
| `Destinations` | groups and the add tick | |
| `ContactBook` | names and resolution of contacts | |
| `Staff` | users, sign-in, guards | |
| `RateLimiter`, `Realtime`, `Bots`, `Backups` | the components of these names | |
| `SenderProofs`; `LedgerProofs`, `OverlapProofs` | theorems about the sender | Sender; SenderProofs |
| `CampaignsProofs`, `InboxProofs`, `WarmupProofs`, `AccountsProofs` | theorems | the module of the name |
| `ServicesProofs` | theorems about Staff, RateLimiter, Backups, Destinations, Realtime, Bots, Threads and ContactBook | these eight modules |
| `MCSender`, `MCCampaigns`, `MCInbox`, `MCWarmup`, `MCAccounts` | small instances of one component | the module of the name |
| `MCConversations` | small instances of what becomes of messages | MCInbox, Threads, Realtime, Bots |
| `MCServices` | small instances of the other components | MCAccounts, Destinations, ContactBook, Staff, RateLimiter, Backups, PacingInputs |

`MCConversations` checks four components in one run and `MCServices` seven. The first state
chooses which one is at work (`talking`, `atWork`); the others rest in an initial state, so the
reachable states are those of the components one by one and their properties are checked where
they belong. `MCInbox` and `MCAccounts` give the values of the constants to these runs and to the
two that expect a violation.

### Pacing

`UnderDailyCap`, `DelayOk`, `InWindow` and `Rotate` are the functions of the file.
A tick consumes the list `rotate` returns one account at a time, so the models use
`Pivot` and `IsNext`, which pick the next account from the set that is left.
`PacingInputs` enumerates sets of accounts, last accounts, windows and times, and takes
the accounts one by one: what is taken is the list (`TakenIsRotate`), everybody gets a
turn after the last account used (`RotationIsFair`), and a window, also one over
midnight, is the arc between its ends (`WindowIsArc`). `PacingHolds` is all three.

### Sender

| Variables | Code |
|---|---|
| `jobStatus`, `jobLast` | `send_jobs.status`, `.last_account_id` |
| `targetStatus` | `send_targets.status`; "absent" before the insert |
| `contact` | `contacts.consent`, `.opted_out` |
| `accountStatus`, `actionsToday`, `rested` | `accounts.status`, `.actions_today`, `.last_action_at` |
| `pc`, `tick`, `dirty` | a tick's database session |

| Action | Code (`services/sender.py` unless named) |
|---|---|
| `AddTargets` | `add_contacts`: consented, not opted out, not yet a target |
| `StartJob`, `PauseJob`, `StopJob` | `start_job`, `pause_job`, `stop_job` |
| `BeginSweep`, `BeginManual` | `_run_sender` (`worker/tasks/sending.py`), `POST /sender/{id}/tick` |
| `PickAccounts` | the head of `run_tick`: status, usable accounts, window, rotation |
| `PickTargets` | the query for queued targets, and skipping those no longer consented |
| `FailTarget`, `Send` | the loop's body up to the engine's answer |
| `Record` | `record_outgoing` with its commit, then the assignments of the send |
| `Count`, `Commit` | the count of queued targets, completion, the last commit |
| `Crash` | a worker dies or a statement raises |

`Send` distinguishes *sent*, *rejected* (Telegram refused: flood, unknown peer, ...),
*lost* (the engine could not be reached) and *late* (no answer in 30 s, but
delivered). The code takes all but the first for a warning: it benches the account,
pauses the job, fails the target and ends the tick.

`SendLedger` is the abstract specification: a target is queued once, delivered at
most once and only while queued, and settled once, as sent exactly if it was
delivered. `Sender` implements it with `status <- targetStatus` when one session
ticks, does not die and gets its answers (`KeepsLedger`, checked and proved); the
properties of the overlapping run say what remains of the promise without these
conditions.

*Properties.* `SentIsTruthful`: a target shown as sent was delivered. `OverlapBounded`: at
most one delivery of a target per session and per crash, whatever the manager does
(`DuplicatesBounded`), and at most a round of sends per session after a pause
(`PauseTakesEffect`). `CounterKept` is about the *counter*: overlapping ticks write it as
the loaded value plus one, so a slow session may set it back and the real volume of an
account may exceed the cap; but it never passes the cap (`CapHeld`) and is never too high
(`CounterHonest`). `LateSendsBounded`: a contact that opts out gets at most one message
more from each session that had loaded it. `WarningPauses`: a warning's two writes are
never seen apart. `SettledStays`: a target that was
settled never becomes queued or absent again. It may still change: a slow session may write "failed"
over the "sent" of another. `JobEnds` is liveness.

### Campaigns

The same session discipline, with what is particular to campaigns:
`LoadForStart` / `CommitStart` / `Materialize` are the two commits of
`start_campaign`, with the unique constraint on targets that makes the second of two
concurrent starts raise; `Act` covers both the message and the add path, with the
membership row (`Joined`) that a session looks for among committed rows only;
`Record` is `record_outgoing`'s commit; `Count` includes the steps that lie in the
future; `Commit` and `CommitFails` are the final commit, which the unique membership
row can make raise. The clock counts hours, the unit of the drip offsets.
`Workers` and `Requests` are sessions of sweeps and of API requests; a session in both
sets does one thing at a time.

*Properties.* `DuplicatesAccounted` adds to the sender's bound the answers that came late,
since a warning leaves the target queued. `StartedIsMaterialized`: a
started campaign has its targets when no start is under way and none died between its two commits. `JoinedIsMember` relates two tables written by one commit.
`DripKept`: the steps of a contact go out in order (`DripInOrder`) and not before their
time (`OnSchedule`). `DoneIsDrained`: a campaign nobody stops is done when nothing is
queued, the later steps included; it holds with one session (see section 7).
`CampaignEnds` is liveness.

### Inbox

| Variables | Code |
|---|---|
| `contact` | identifiers known (phone, username, Telegram id), consent, opt-out, stage |
| `conversation` | one record per account and peer; status and contact link |
| `queue`, `listening` | the Redis messages an API worker has not handled; whether its consumer still runs |
| `pc`, `mem` | a session: the rows it has found, with the columns it may write |
| `stop` | ghost: whether the peer's last word was *stop*, and a worker has committed it |

`Publish` is the listener's event, delivered to every connected worker. `TakeMessage` /
`InsertConversation` / `CommitIncoming` are `record_incoming`: find or insert the
conversation (the loser of the insert raises and drops the message), match a
contact by Telegram id or username (two matching rows raise), then write opt-out, stage
and status. `LoadForOutreach` / `RecordOutreach` / `CommitOutreach` are the steps of a
tick that touch the same rows; `SetStatus`, `DeleteConversation`, `Resolve`,
`LoadForSave` / `CommitSave` the requests. `LoadForEdit` / `CommitEdit` is an edit of a contact: the
PATCH that agents may use, and a row of the bulk requests for consent and for the stage. It sets the
stage, the consent and the opt-out to what it was asked (`Changes`), and the commit writes those that
differ from what it had loaded. The code asks for no consent before it clears an opt-out, and neither does
the action. `Crash` loses a session, `Disconnect` a
worker's subscription for good.

*Properties.* `StopTakesHold` is stated for quiet states, where all workers are through:
before that a slow worker may legitimately be about to write. It leaves out a stop that
*no* worker committed (all lost the insert of the conversation to a tick, or had lost
Redis): the code promises nothing for these. What it says of the contact's stage is for a peer
that writes to one account only (section 7). `OptOutStays`: only
the commit of an edit that had loaded the contact as opted out, and was asked to clear that, takes an opt-out
back (section 7); no worker, tick, save, or edit that had loaded the contact before the stop does.

### Warmup

`run`, `participant` and `account` are the tables; a participant has its status, stage
and the ages of `stage_started_at`, `last_action_at` and of its day counter. Times are
*ages* that saturate, so the state space is finite without a bound on the clock.
`Load` reads a run with its participants, `Graduate`, `Skip` and `Act` are the branches of
the loop of `run_tick`, `Commit` writes the columns that differ from what was loaded
(a counter set back to its loaded value is not written), `CommitFails` is the
UPDATE of a deleted participant, which loses the whole tick. The managers' requests are
`StartRun` (which makes the account of every pending participant *warming*, whatever it
was), `PauseRun`, `StopRun`, `DeleteRun`, `AddParticipant`, `RemoveParticipant`, and
`SetAccount` stands for health checks, logins and overrides. Ghosts: `did` counts real
actions of the day, `excused` those the code cannot know of (late answers, rolled back
ticks, overwritten counters), `ramp` the instants since the start (`FullRamp` is the number of
instants in all stages), `orphaned` the accounts a
person took out of a run or set by hand, `benched` the accounts in quarantine when a
session's tick or sweep began.

*Properties.* `DailyRampHeld` counts real actions against the stage's volume, up to those
`excused`. `GraduationHolds`: a tick lets a participant graduate only after the days of all
stages (`RampIsFull`), and does not take out of quarantine an account that was in it when
the tick began (`QuarantineStands`). `NoneStranded`: an account that is warming is in a
run; it relates participants, accounts and the older copies the sessions hold.

### EngineClients and Accounts

`EngineClients` is `engine/manager.py`. Its state is the table `clients` with the two tables
of logins under way, the client objects (`object`: key, proxy, connected, listening) and the
session files. An operation holds its account's lock from beginning to end and is one
step; only a code and a password pick their client *before* they wait for the lock
(`manager.py:206`, `:242`), so `Accounts` passes these operations the client a request has
picked earlier. Telegram is external: `valid` are the keys it takes for logged in.

`Accounts` is the API above it. A request loads the account, calls the engine, which takes
seconds, and writes the columns that differ from those it had loaded. Creation, edit (with the
release of the old proxy, the binding of the new one and the rebinding of the client, a step
each), deletion, code, QR and session-string logins, logout, the checks, the override and
the reconnect of all accounts are operations; a request may be abandoned wherever it stands (a timeout, a
process that dies), and the engine restarts from its files. `Scenarios` limits which
operations an instance applies to which account.

*Properties.* `ProxyTablesAgree`: `accounts.proxy_id` and `proxies.assigned_account_id` name
each other at every step and wherever a request was abandoned, except for the `raced` proxies,
of which two requests held rows at once. `LoggedInWorks`: an account with a session
reference is served by a connected client that Telegram accepts, or would be after a
restart, except the `disturbed` ones. `ListenersAccounted`: what listens for an account is the
client in the table and the `strays` the code leaves connected, so that each message is
published once in the undisturbed case. `QuarantineStands`: a login that began on an active
account does not lift a quarantine given to it meanwhile.

### Threads

One conversation and its messages. Every worker's consumer stores each incoming message once
(`ThReceive`, `ThStore`), a request opens the thread, reads older pages, marks it read, sends a
reply (`ThBeginReply`, `ThSend`, `ThSendLate`), and deletes it. A message gets its number
when it is flushed and is visible when it is committed, so pages cut by number are read while
smaller numbers are missing. `ThreadsHold` is `UnreadIsUnseen` (the badge counts stored messages
nobody has opened, except when two sessions that had it in hand wrote it), `RepliesAccounted`
(copies sent against answers lost and the rows stored), `MessageKept` (what every worker has been
through is stored by one of them; the exceptions are named) and `PagesLeaveNothingOut`.

### Destinations

The third ticker. `DsQueue` is `add_members` with its typed identifiers; a tick takes one
pending membership per account (`DsBegin`, `DsAct`, `DsFlood`, `DsMissing`) and commits once
(`DsCommit`), which raises when a membership was deleted meanwhile (`DsCommitFails`).
`AdditionsHold` is `ReachedAgainExplained` (nobody is added again but by a tick that
overlapped or after a lost commit), `MembershipTells` and `MembersCapHeld`. `AddedWithConsent` is what
the structure document requires of every outreach action: nobody is added to a group who has no consent
or has opted out. The tick does not look at either, and a typed identifier is queued
whatever the contact says, so that a run finds it violated (section 7).

### ContactBook

`find_conflict` and the write that follows are two steps (`CbBeginCreate` / `CbCreate`,
`CbBeginEdit` / `CbEdit`); an import reads the table into a dictionary and then writes line by
line; a peer is saved, and a contact resolved, seconds after its row was read.
`ContactBookHolds` is `NamesAreUnique` (a name belongs to one contact, except for those two requests had
in hand at once and those an import gave to the row found by the *other* name of the line)
and `ResolvedHasId` (who has the status *resolved* has a Telegram id, and who has an id is *resolved*
or has *failed* since, although each request writes only the columns it saw change). It leaves out the
rows that two requests had in hand at once (`cbShared`).

### Staff

Requests look their user up, and the one they are about, check, and commit the columns that
changed; a start of the backend makes an administrator when the configured address has no
user. `AdminRemains`: an active administrator is left, unless one gave up the own role or two
edited staff at once. `EditsStand`: an edit does not take back a deactivation it did not know
of (`ComesBackKnowingly`), and `change_password` replaces only the password it was shown
(`PasswordProven`). The edit of the own profile (`PATCH /auth/me`) sets a password without asking for the
current one; the property is not about it.

### RateLimiter, Realtime, Bots, Backups

* `RateLimiter`: INCR and EXPIRE are two commands and Redis may fail between them; a worker
  without Redis counts in its own memory. `TwiceTheLimit`: in any time of a window's length a counter
  lets at most twice the limit pass. `WindowEnds`: an answered request leaves a window that
  ends, so nobody is shut out for good.
* `Realtime`: sockets of several workers, one subscription per worker, publishing that may
  fail after Redis has taken the event. `BroadcastHolds` is `ToldOnce` and `EveryoneTold`, each
  with the faults that may break it.
* `Bots`: requests that start, stop and remove the hosted bot, the engine's start that awaits
  between stopping the old task and taking its place, engine restarts, and workers that
  each write down each event. `BotsHold` is `PollersAccounted`, `StatusIsTrue` and `HandledIsSaved`.
* `Backups`: an archive dumps the database first and copies the files then; a restore does
  the files first and the database last; logins come in between. `LoggedInHasFile`: an account
  the database takes for logged in has its session file, except while it logs out or after a restore
  that promised nothing. `AutoSpaced`: automatic backups keep their interval, but for ticks that overlap.

## 4. The runs

| Run | Question | Instance |
|---|---|---|
| `MCSenderOverlap` | What survives overlapping ticks, a crash and late answers? | 2 sessions, 1 job, 2 targets, 2 accounts with caps 1 and 2, 1 crash; 407 000 states |
| `MCSenderSingle` | Does one undisturbed session implement the ledger? How many messages after an opt-out? | 1 session, 2 jobs sharing a contact, opt-outs, consent, health checks, closed windows; 400 000 states |
| `MCSenderLive` | Does a running job end? | 1 session, 2 contacts of which one unreachable, 2 accounts, 1 crash, late answers |
| `MCSenderCounterIsReset` | Is the daily counter reset? (no) | 1 account with cap 2 |
| `MCCampaignsOverlap` | Has a started campaign its targets, are duplicates explained and joins backed by rows? | 2 sessions that both start and tick, a messaging and an adding campaign for one contact, 3 starts, 1 crash; 1.4 million states |
| `MCCampaignsSingle` | Order, schedule, completion and end with one session | 2 drip steps, opt-outs, consent, 1 hour, 1 crash; 34 000 states |
| `MCConversations` | Does a committed stop hold, and stay? The properties of Threads, Realtime and Bots | *Inbox* 2 workers and 1 request, 1 account, 1 peer, 3 contact tables, 1 edit out of five or another request, 1 crash; the others see below; 814 000 states |
| `MCInboxOptOutHonored` | Are opt-outs of phone-only contacts honoured? (no) | 1 worker |
| `MCWarmup` | Full ramp, daily volume, quarantine, no account stranded? | beat's tick and a manager's, 1 run, 1 account, stages of one day with caps 1 and 2, 1 edit, 1 loss; 974 000 states |
| `MCAccountsClientUsesItsProxy` | Does an edit of the proxy reach the client? (no) | 1 request, 1 account, 2 proxies |
| `MCDestinationsAddedWithConsent` | Is nobody added who has opted out or given no consent? (no) | 1 account, 1 contact, 1 tick |
| `MCServices` | Do the proxy tables, the sessions, the listeners and the quarantine survive overlapping requests? The properties of Destinations, ContactBook, Staff, RateLimiter, Backups and PacingInputs | *Accounts* 2 requests of 4 in all, 2 accounts, 2 proxies, 3 client objects, 1 fault, one account through every login, or two accounts that compete for the proxies; the others see below; 605 000 states |

The other instances of `MCConversations`: *Threads* 2 workers, 1 request, 2 messages, 1 reply, pages of one
message, 1 fault, the conversation made twice at most; *Realtime* 2 workers, 2 sockets, 2 events, 2 faults;
*Bots* 2 requests of 3 in all, 2 workers, 2 events of which one is a text, 1 fault.

The other instances of `MCServices`: *Destinations* 2 overlapping ticks, 2
accounts with cap 1, 2 contacts, 1 fault; *ContactBook* 2 requests of 3 in all, 3 rows, 1 phone
number, 2 usernames, files of one and of two lines; *Staff* 2 requests of 3 in all, 2 users, 2
addresses, 2 passwords; *RateLimiter* 2 workers, limit 2, window 2, clock to 3, 6 hits, 1 fault;
*Backups* 2 jobs of 3 in all, 2 archives kept, an interval of 2, 1 fault, looked at in two scenes: archives of
everything and of a part, asked for and restored while an account logs in and out (2 changes, clock below
the interval), and the schedule of automatic and requested whole archives of an account left alone (clock to
3, so that a tick may come too early, in time, and late). The two questions share no state but the clock and
the archives, and each would multiply the states of the other; the theorems know no scenes.
*PacingInputs* ids from {1, 2, 3}, every last id, every window and time of a six-instant day.

**Bounds and why they are enough.** Two sessions suffice for the races, which are
between one writer that has loaded and one that commits in between; a third adds
another of the same. Two accounts and two targets make a tick use several of each,
so that a commit in the middle, the rotation and a partly done tick occur; two caps
make one account reach its cap before the other. One crash per behaviour may fall
between any two steps; a second repeats the first, since a crash leaves nothing but the
database. A pending message per worker plus one in hand gives the reorderings of two
messages. Three client objects are the one in the table, the one of a login under way and a
stray. Three requests are one that prepares a state and two that race on it. A clock of
one and a half windows has two windows and every way a period can lie across them; three
backups are one more than are kept. Each bound (`MaxCrashes`, `MaxStarts`,
`MaxHours`, `MaxServed`, `MaxPending`, `MaxEdits`, `MaxLag`, `MaxLosses`, `MaxRequests`,
`MaxFaults`, `MaxClients`, and the prefixed ones of the other components) is a
CONSTANT named in its module, in a guard of the action it limits. What is proved
(section 6) has no such bounds. Symmetry is over identical sessions only, and in no run
with a liveness property.

`MCConversations`, `MCServices`, `MCAccountsClientUsesItsProxy` and
`MCDestinationsAddedWithConsent` turn deadlock checking off: their
requests, faults and clocks are bounded and their behaviours end when these are used up, as
those of `PacingInputs` do when all accounts are taken.

## 5. Fairness

`FairSpec` of Sender and of Campaigns assumes weak fairness of

* `BeginSweep`: beat fires every minute for ever, and a worker takes the task;
* the steps of a session that has begun: an engine call returns or times out after 30 s,
  a query returns. A `Crash` may still end the session, within its bound;
* `Rest`: a clock passes `last_action_at` plus the minimum delay; in Campaigns also
  `PassHour`.

Nothing is assumed of managers, contacts or health checks. The liveness properties allow for
what the code cannot help: a paused job, and accounts all benched or at their cap (the
latter is permanent, see `CounterIsReset`). In Campaigns requests are not fair; only the
beat's sweeps are. The other modules have no liveness property: their operations are
requests that nobody is bound to make, or handlers without a retry.

## 6. The proofs

Eight modules hold theorems. All are about every value of the constants that satisfies the
named assumptions, without the bounds of the runs. Of the forty properties the passing runs
check, all but six are proved; those six, and why, are at the end of this section. Three theorems
have a hypothesis beyond the assumptions of their module, which stands in the statement: one
session in `LedgerKept` and `DoneMeansDrained`, one run in `NobodyIsStranded`. The runs
that check these properties satisfy it too.

| Module | Theorems |
|---|---|
| `SenderProofs` | `TypeCorrect`, `SettledIsFinal`, `Truthful`, `CounterSafe` |
| `OverlapProofs` | `OverlapsBounded`, `LateBounded`, `WarningsPause` |
| `LedgerProofs` | `LedgerKept` |
| `CampaignsProofs` | `TypeCorrect`, `JoinedAreMembers`, `StartedAreMaterialized`, `DripHolds`, `DuplicatesBounded`, `DoneMeansDrained` |
| `InboxProofs` | `TypeCorrect`, `OptOutIsKept`, `StopHolds` |
| `WarmupProofs` | `WarmupTypes`, `GraduationIsEarned`, `NobodyIsStranded` |
| `AccountsProofs` | `TypeCorrect`, `ListenersCounted`, `ProxiesAgree`, `QuarantinesStand`, `SessionsWork` |
| `ServicesProofs` | `StaffTypes`, `AdminStays`, `EditsAlwaysStand`, `LimiterTypes`, `WindowAlwaysEnds`, `LimiterLetsTwicePass`, `BackupsSafe`, `BackupsAreSpaced`, `AdditionsSafe`, `BroadcastSafe`, `BotsSafe`, `ThreadsTyped`, `ThreadsAreTrue`, `ContactsTyped`, `ContactsAreWhoTheySay` |

*Assumptions.* Each module names the types of its constants (`SenderAssumption` and so on).
Beyond types: the unique constraint on `send_targets` (`TargetsUnique`); where something is
counted by its sessions or accounts, that there are finitely many of them (`FinitelyMany`, and
the same in `DestinationsAssumption`, for the events in `BotsAssumption`, for messages and workers in
`ThreadsAssumption`, and for the rows in that of `ContactBook`); in the tables
Inbox starts from, a row that does not exist is not opted out; there is a worker to hear of a
bot's events (`BtWorkers # {}`) and of a peer's messages (`ThWorkers # {}`); the value for "no row" is
not a row, nor the Redis counter a worker. TLC evaluates them on every run.

*How a module is laid out.* First what the operators that build a session's memory return; then
for each action what it does, variable by variable or row by row; then the invariant, one
lemma per action; then the theorem, which puts them together with PTL. Most invariants speak of
what sessions *hold*, since a property of the tables is never inductive when a commit writes
what was loaded long ago.

**`SenderProofs`**, from `SenderAssumption` and `TargetsUnique`.

* `TypeCorrect`: `Spec => []TypeOK`, inductive by itself; one lemma per operator that
  builds a session's memory, then one step per action.
* `SettledIsFinal`: `Spec => SettledStays`. Only `AddTargets` and a flush write
  `targetStatus`; the former changes absent rows, the latter writes settled values, which
  is part of the type of `dirty`.
* `Truthful`: `Spec => []SentIsTruthful`. Not inductive: a commit copies what a session has
  assigned, which the property does not mention. `TruthInv` adds `DirtyIsTruthful`
  (a target some session has assigned "sent" was delivered) and `FlightIsTruthful` (a
  session about to record a send has delivered that target).
* `CounterSafe`: `Spec => []CounterKept`. A commit writes the *loaded* counter plus one, so
  the invariant must speak of what is loaded: `SeenBelowCap` (an account a session may still
  use was loaded below its cap), `SeenIsHonest` (a loaded counter is at most what was really
  sent, and less than that once the session has acted) and `NothingActedEarly`. It is this
  strengthening that shows why lost updates can only make the counter too low.

**`OverlapProofs`** bounds what overlapping ticks do too often. Each bound counts, and the
counting is the same: choose the set of sessions that can *no longer* do the harm; show that whoever does
it once enters the set, that nothing but a crash takes one out, and that the crash is counted.

* `OverlapsBounded`: `Spec => []OverlapBounded`. For duplicates (`DupInv`) the set is `Spent(t)`: the
  sessions that have dealt with target t, or, once its outcome is in the table, all that do not
  carry it. For sends after a pause (`OffInv`) it is `Out(j)`, pairs of a session and an account: a tick uses an
  account once, and a tick that begins after the pause finds the job not running; so the bound is the
  number of sessions times that of accounts, and crashes do not raise it.
* `LateBounded`: `Spec => []LateSendsBounded`. A session that has loaded a contact before its
  opt-out carries one target of it (`Pursues`), by `TargetsUnique`; one that loads later skips it.
* `WarningsPause`: `Spec => WarningPauses`, from `HeldInv`: what a session benches is in the
  commit that pauses the job of its tick.

**`LedgerProofs`** proves the refinement: `LedgerKept` says that under `OneWorker` (at most
one session, no crash, no late answer) `Spec => KeepsLedger`, that is, the initial state is one
of `SendLedger` and every step is a step of the ledger or leaves it alone. The ledger's guard for
a delivery, "queued and not yet delivered", is not visible in the tables while a session
works. `LedgerInv` therefore says what the session holds: an outcome in the table is true
(`OutcomeIsTrue`), a queued target that was delivered is the one in hand
(`DeliveryIsHeld`), an outcome not yet written is true and its target still queued
(`AssignedIsTrue`), and what is left to send is queued and undelivered (`WorkIsOpen`). Each of
the three conditions is used: two sessions may hold one target, a crash forgets a delivery,
and a late answer is recorded as a failure.

**`CampaignsProofs`**, from `CampaignsAssumption` (and `FinitelyMany` for the last).

* `TypeCorrect`: `Spec => []TypeOK`, inductive by itself.
* `JoinedAreMembers`: `Spec => []JoinedIsMember`, and `StartedAreMaterialized`:
  `Spec => []StartedIsMaterialized`. Both follow from `TablesInv`. A flush writes assignments that
  may be old, so for each session it says that a join not yet written comes with its row,
  written or added (`JoinsHaveRows`), that what it works on and settles was inserted and is due
  (`HandIsDue`), and that a start that is not the first knows of one that was
  (`RestartIsStarted`). `StartsGoOn` says that without a crash a started campaign has its targets or a
  session about to insert them; the loser of two first starts finds a target of the winner, and
  `TargetsInv` says that a target exists only where targets were inserted.
  That the rows only grow (`Grows`) carries what one session holds through the steps of
  the others.
* `DripHolds`: `Spec => []DripKept`, for any number of overlapping sessions, where the run has
  one. `DripInv` adds that the steps of a contact are inserted together and ordered by their
  schedule, that a session's work lacks no earlier step but those already tried
  (`WorkInOrder`), and that what is assigned or about to be recorded has been tried
  (`SettlesTried`, `RecordsTried`); since the earliest step has its turn first, a later one
  that is served has no earlier step before it.
* `DuplicatesBounded`: `Spec => []DuplicatesAccounted`, counted as in `OverlapProofs`. Late answers
  leave the target queued, so they are a term of their own; and what a session settles must be of
  the campaign of its tick (`HandInv`), or an adding tick could deal with a message.
* `DoneMeansDrained`: under `OneAtATime` (one session, and nobody stops a campaign)
  `Spec => []DoneIsDrained`. The count and the commit that completes the campaign are two steps,
  and so are the two commits of a first start; `Draining` says that who is going to complete a campaign has
  found nothing queued, and that who is going to insert has made the campaign running. A pause in between
  does not matter. Each step of a second session would break one half of it.

**`InboxProofs`**, from `InboxAssumption`.

* `TypeCorrect`: `Spec => []TypeOK`, inductive by itself, one lemma per group of actions.
* `OptOutIsKept`: `Spec => OptOutStays`. What a commit does to a contact depends on the row
  the session loaded, perhaps long ago, and a save writes a whole row where none was. So
  the invariant `OptOutInv` adds to the types that a row that does not exist is not opted
  out (`AbsentIsOpen`) and that a contact a session holds exists (`LoadedExists`);
  `NextKept` then shows of each action that rows remain, that the opt-out is kept unless
  an edit that has the contact before it as opted out was asked to clear it, and that what is newly
  loaded exists. An edit that had loaded the contact before its stop finds nothing to write
  (`FlagFacts`, `CommitEditRows`).
* `StopHolds`: `Spec => []StopTakesHold`, for any number of workers, accounts, peers and rows. The
  property is about quiet states only; `StopInv` says, for every other state, who still *owes*
  what. For a stop that was said, each worker has it in its queue, after all older words of the
  peer (`Caught`), or is handling it with the contact the peer has now (`HandOk`), or has been through. If
  one has committed it, then the conversation is opted out or a worker will write that
  (`ConversationOk`), and so for the contact's opt-out (`OptOutOk`). The stage is the hard one
  (`StageOk`): a handler that has loaded the stage as "opted_out" will not write it, and must be able to
  rely on it, or on another that will. `BaseInv` holds what is true whatever is said: what a session has
  loaded and what a conversation links to are rows of the peer, which stay the peer's; no two sessions have
  inserted one conversation; a worker that has lost Redis handles nothing. When all queues are empty and all
  sessions at rest nothing is owed.

**`WarmupProofs`**, from `WarmupAssumption`: any stages, runs, accounts and sessions.

* `WarmupTypes`: `Spec => []TypeOK`. A stage is never passed after the last one, because who has been
  in the last one for all its days graduates instead.
* `GraduationIsEarned`: `Spec => GraduationHolds`. A tick commits a stage it has worked out from
  what it loaded, over what others have stored since. The invariant speaks of ages: `Climbed` says
  that who is n instants into the ramp is in a stage, and in it for a time, such that all stages before it
  and that time are at most n (`Before` counts instants; `FullRamp` is all of them). `RampInv` says
  this of the participant as stored *and* as any session would write it, as long as the participant is the
  one the session has loaded (`Holds`). A commit may take the stage from one session and the
  beginning of the stage from another, were it not for `MemoryInv`: a session that writes a stage writes a beginning
  that differs from the loaded one, so the two are written together. `BenchInv`
  says that an account which has been in quarantine since a session began has not been read as
  warming by that session, so that it is not among those it makes active.
* `NobodyIsStranded`: under `OneRun`, `Spec => []NoneStranded`. The participant and the account are
  two rows, and a tick ends the one and frees the other by what it has read of each. `Knows` says,
  for each session and account: as long as the participant that it has loaded is there, an account that
  is warming has been read as warming, or is among those the session will make active; and one whose
  participant it has let graduate is no longer known as warming. A participant deleted and added
  again under the session is `gone`, and the commit then fails if it would write it. `TicksOneRun`
  is where the hypothesis is used: what a session has read it forgets before it ticks again.

**`AccountsProofs`**, from `AccountsAssumption` and that of `EngineClients`. A step of Accounts is a step of the
engine (`EngineStep`) beside a step of the tables and requests, and the proof keeps them apart.

* `TypeCorrect`: `Spec => []AccountsTypeOK`. It needs to know what a request holds at each of its steps
  (`StepOk`).
* `ListenersCounted`: `Spec => []ListenersAccounted`. `EngineInv` says that what the tables name for an account
  is its own client (`Owned`), that no two accounts share a key (`KeysApart`), and that its connected
  clients outside the table are as many as the strays at most (`Beside`).
* `ProxiesAgree`: `Spec => []ProxyTablesAgree`. A request that will bind a proxy has loaded its
  row free, and one that will release one has loaded who holds it, unless the proxy is
  noted as raced (`HeldOk`).
* `QuarantinesStand`: `Spec => QuarantineStands`: only the write of an answer makes an account active, and only
  that of a request that had not loaded it active.
* `SessionsWork`: `Spec => []LoggedInWorks`. `Sound` says of an account that is not disturbed that one request at
  most is about it and knows its row, that a row with a session has a file and a client that Telegram
  accepts (`Working`) unless that request is ending it, and that the clients of logins under way are the one
  in the table unless the account works already (`LoginsPlaced`). Two accounts never share a key, so that
  a logout of one leaves the others working.

**`ServicesProofs`**: eight of the components that share no state.

* *Staff.* `StaffTypes`, and `AdminStays`: `StSpec => []AdminRemains`. The code's check is that nobody
  edits the own account away, which protects nothing by itself. The invariant says that, as long as
  nobody raced, all requests that edit staff are of one user, who is an administrator now
  (`OneEditsStaff`), and that an edit of the own account leaves it active and an administrator
  (`RequestsHonest`); so the editor remains. `EditsAlwaysStand`: `StSpec => EditsStand` needs the
  password a request was given to be the one in the table until it commits, unless another had the
  user in hand (`PasswordsKnown`).
* *RateLimiter.* `LimiterTypes`, and `WindowAlwaysEnds`: `RlSpec => WindowEnds`. Types need
  `CountsAreHits` (no counter has counted more than there were requests); the second theorem shows that
  a request whose EXPIRE fails is not answered by the counter in Redis, and that any other
  finds the window with an end or sets one. `LimiterLetsTwicePass`: `RlSpec => []TwiceTheLimit`. For each
  counter there is a time b (`RlSince`) such that its bucket has counted whatever passed from b on, any period that begins
  less than a window before b let at most the limit pass before b, and the bucket ends no
  sooner than a window after b. A period of a window's length then meets two buckets at most. What passed is
  counted as a set of pairs (`RlPassedIn`), so that sums over times become cardinalities.
* *Backups.* `BackupsSafe`: `BkSpec => []LoggedInHasFile`, and `BackupsAreSpaced`:
  `BkSpec => []AutoSpaced`, both from `BkAlways`. `BkJobSound` says what a job has in hand between
  its two halves: an archive whose database part says "logged in" has the file in its other part, since
  the database is read first; in a restore the file is there before the database says so. Only a
  logout in between breaks that, and it is noted. `BkSpacedInv`: while ticks do not race, one automatic archive
  is made at a time, and it began when all whole ones were old enough.
* *Destinations.* `AdditionsSafe`: `DsSpec => []AdditionsHold`. `ReachInv` counts: how often a contact was
  reached, plus the ticks that may still reach it, plus one if it is pending, is at most one plus what was noted as an
  overlap or as lost. `AccountInv` does the same for the actions of an account against the
  counter that each tick will write.
* *Realtime.* `BroadcastSafe`: `RtSpec => []BroadcastHolds`. An event owed to a socket has been told once or
  waits in the inbox of its worker, not both (`SocketInv`), and does one of the two as long as nothing
  failed.
* *Bots.* `BotsSafe`: `BtSpec => []BotsHold`. As long as no starts overlapped the manager knows the
  task that polls (`BtPollInv`); a request that is alone finds the status as it loaded it (`BtStatusInv`); and the first
  event makes the subscriber, the first text the conversation, by whichever worker comes first, so that the
  loser of a race drops a copy of what is kept already (`BtKeptInv`, with the queues in order, `BtQueueInv`).
* *Threads.* `ThreadsTyped`, and `ThreadsAreTrue`: `ThSpec => []ThreadsHold`, from `ThInv`. Numbers are given out once and
  before the commit (`ThNumbers`), so a row that is inserted is new and the badge counts it once. `ThReplyInv`: a
  reply is in the hands of one request, and its copies exceed its doubts only if that request, or the table,
  knows that it was sent. `ThKeepInv`: a message is settled unless some worker has still to take it
  or has it in hand *for the conversation there is*; and while there is no conversation, what a worker has been through
  is settled. `ThPageInv`: what was there when the thread was opened is still there, as only a
  deletion takes rows away, and then the conversation is another.
* *ContactBook.* `ContactsTyped`, and `ContactsAreWhoTheySay`: `CbSpec => []ContactBookHolds`. `CbHands`: a name or row two requests have in hand is
  among the noted ones; `CbSeen`: for any other name a request is going to write, whoever holds it
  now held it when the request looked; `CbChecked`: nobody did. An import is a fold over the lines of the
  file, inside one step; that each line keeps names apart in the table and in the dictionary
  together is a lemma about one line, and the induction over the lines is by the first line that
  fails (a least counterexample needs no induction rule). `CbTold` relates the
  status and the Telegram id of the rows that no two requests had in hand, an id that is kept with the
  status *failed* included.

### Only model-checked

* `DailyRampHeld` (Warmup) needs caps that never fall, as in the instance and in the
  default stages: with a falling cap, the actions done in one stage may exceed the cap of the next. It also needs
  stages that never go back under a session that has loaded an earlier one, which the lengths of ticks and days
  must exclude. It is no theorem for every value of the constants, and one from these hypotheses is left open.
* `PacingHolds` compares the rotated list with a reference definition: an induction over data.
* `ConversationsTypeOK` and `ServicesTypeOK` join the types of the components as the instances have them; the
  types are theorems, or parts of the invariants above, and Pacing keeps no state.
* `JobEnds` and `CampaignEnds`: liveness under fairness is out of the prover's reach.

Outside their hypotheses two of the theorems above are not true: `DoneIsDrained` fails with two sessions
(section 7), and with two runs `NoneStranded` may: a sweep keeps the status of an account that it
read in the first run, and a manager may change it before the second.


## 7. What the models found

Four runs expect a violation of what a document or comment says:

1. `CounterIsReset`. `actions_today` is incremented and never reset, although
   `backend/app/services/analytics.py:88` says "accounts hold a per-day counter reset by ticks": an
   account that reaches its cap never acts again.
2. `OptOutHonored`. A contact known by its phone number only is messaged by that number,
   but its *stop* is matched by Telegram id or username: no contact is opted out
   (`README.md:9` says "Opt-outs are honored automatically and permanently.").
3. `ClientUsesItsProxy`. An edit of the proxy asks the engine "to re-bind the client so it keeps
   routing through the right proxy" (`backend/app/api/accounts.py:108`), but the engine keeps the
   connected client it has, with its old proxy.
4. `AddedWithConsent`. "every outreach action targets a contact that exists in the contacts table with
   `consent = true` and `opted_out = false`" (`Telegram_Marketing_CRM_Structure.md:30`), but the tick that adds
   members looks at neither (`backend/app/services/destinations.py:252`): who opts out after being queued is
   added, and so is whoever's identifier is typed in.

What the models keep as the code does it, and a reader should know of:

* `PATCH /api/contacts/{id}` takes an opt-out back without asking for consent, and agents may use it
  (`backend/app/api/contacts.py:327-345`, `services/contacts.py:390-394`), whereas opt-outs are said to be
  honoured "permanently" (`Telegram_Marketing_CRM_Structure.md:30`). It takes a person's decision, so
  `OptOutStays` allows it, and says that nothing else does it.
* A tick between the two commits of a first start finds no queued target and completes the
  campaign; its targets, inserted next, stay queued in a campaign that is done
  (`backend/app/services/campaigns.py:381`). `DoneIsDrained` is therefore checked with one session.
* Two due steps of an add campaign for one contact add two membership rows in one session;
  the commit raises, everything is undone, and the next tick does the same
  (`campaigns.py:214`, `:394`).
* A peer that writes to two accounts has two conversations and one contact. A slow worker that
  still handles an older message to the one account may write the contact's stage back after the
  *stop* to the other has been handled by everybody (`backend/app/services/inbox.py:159`); the
  opt-out itself stands. The proof of `StopTakesHold` found this: the run has one account, and
  the property used to claim the stage for any number of them.
* A worker that loses the race to make a conversation drops its message, counting on the winner to store a
  copy. If the conversation is deleted before the winner takes that message, and a later message makes a new
  one while the winner has it in hand, its copy is dropped too (`backend/app/services/inbox_consumer.py:55-77`,
  `inbox.py:391`). It takes three messages and two workers, more than the run has: the proof of
  `MessageKept` found it, and the property now excuses whatever a deletion finds unsettled (`Unsettled`).
* A graduation read before a quarantine lifts it (`warmup.py:263`), and `start_run` makes
  quarantined, banned and logged-out accounts warming (`warmup.py:163`).
* A restore of the database alone waits behind the transaction of its own request
  (`backend/app/api/backups.py:139`).
* A QR login that was authorized stays so in the engine's table (`manager.py:194`): a later poll
  of an account that has been marked logged out by a check marks it logged in again.
* Referrals are never counted, since nothing calls the function that would. Two concurrent edits, one
  clearing the phone number and one the username, leave a contact without either.

## 8. What is not modelled

Within modelled components: rendering of templates and the A/B choice; the archived flag and
the filters of the inbox, its media files and who may see which conversation; in Inbox, edits of a contact's
names and assignment (ContactBook has the names); in Threads, a peer that matches two contacts; editing of warm-up
partners and the display-only warm-up columns of an account; a second warm-up run on one
account; reading files, filters and exports of contacts; replies, posts and broadcasts of bots; the checks
of an archive's contents; the parsing of pasted proxies and their health; labels and the
identity Telegram reports of an account; security headers. The interaction of two
components over a shared table is covered by the happenings of the one that reads it
("health", "opt_out" and `SetAccount`), not by composing the modules.

Whole components: Referrals and analytics (they read, or count what nothing feeds), audit
(appended and never read by a decision), templates and spintax (text), migrations,
configuration and scripts (set-up), beat and the worker's settings (a schedule, which
justifies the sessions and the fairness), the frontend (no state of its own).

## 9. The plan

1. Done: every component with state of its own has a module and theorems.
2. Proofs next: `DailyRampHeld`, from the assumptions that caps do not fall and that two ticks end
   within a day. The invariant to try: what was done today, less what is excused, is at most the stored count plus the
   sessions that have acted and not committed; and if all sessions hold the participant, one of
   them has loaded the count as it is stored.
3. Abstract specifications worth stating beside `SendLedger`: a ledger of memberships that
   Campaigns and Destinations both implement with one session; a register of opt-outs that
   Inbox implements with one worker.
4. Compositions: a restore under running workers; two warm-up runs that share an account;
   Campaigns and Destinations over the membership rows.
