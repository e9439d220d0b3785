------------------------------- MODULE Warmup -------------------------------
(***************************************************************************)
(* Warm-up runs (backend/app/services/warmup.py): participants climb the    *)
(* stages of a run, a few actions a day, and their accounts are "warming"   *)
(* until they graduate.  Ticks come from beat (worker/tasks/warmup.py) and  *)
(* from managers (api/warmup.py); they overlap with each other, with the    *)
(* managers' requests and with the health checks of the accounts.           *)
(*                                                                         *)
(* A tick works on the rows it has loaded and commits once, at its end,     *)
(* writing the columns that changed (db/session.py).                       *)
(*                                                                         *)
(* Times are kept as ages, which stop growing when nothing tells them       *)
(* apart: every stored and every loaded age grows by one as an instant      *)
(* passes.  "lag" is the age of the "now" a tick has taken.  Runs are taken  *)
(* to have messages, accounts to have phones, and no account is deleted.    *)
(***************************************************************************)
EXTENDS Integers, Sequences, FiniteSets

CONSTANTS
    Runs, Accounts,
    Groups,             \* the groups each run asks its participants to join
    Partnered,          \* whether the runs have external partners to write to
    Stages,             \* sequence of [days, cap], WarmupRun.stages
    DayLength, MinDelay,    \* in instants
    NoRun,
    Workers, Requests,  \* sessions of beat's ticks; of the managers' ticks
    Outcomes,           \* of the calls of the engine
    MaxLag,             \* bound on the instants that pass during one tick
    MaxEdits,           \* bound on what managers and health checks do
    MaxLosses           \* bound on crashes and late answers

ASSUME WarmupAssumption ==
    /\ Stages \in Seq([days : Nat \ {0}, cap : Nat]) /\ Stages # <<>>
    /\ DayLength \in Nat \ {0}
    /\ MinDelay \in Nat
    /\ Partnered \in BOOLEAN
    /\ NoRun \notin Runs
    /\ Workers \cap Requests = {}
    /\ Outcomes \subseteq {"done", "refused", "late"}
    /\ MaxLag \in Nat /\ MaxLag < DayLength
    /\ MaxEdits \in Nat
    /\ MaxLosses \in Nat

VARIABLES
    run,                \* warmup_runs.status
    participant,        \* warmup_participants, unique(run_id, account_id)
    account,            \* accounts.status
    pc, mem,            \* the sessions
    phase,              \* the instant of the day
    did, excused,       \* an observer's: today's actions, and those no counter has kept
    ramp,               \* an observer's: the age of the participation
    orphaned,           \* an observer's: accounts whose status a person answers for
    benched,            \* an observer's: accounts in quarantine ever since a session began
    edits, losses

database == <<run, participant, account>>
sessions == <<pc, mem>>
ghosts == <<did, excused, ramp, orphaned, benched>>
bounds == <<edits, losses>>
vars == <<database, sessions, phase, ghosts, bounds>>

Sessions == Workers \cup Requests
LastStage == Len(Stages)
Period(n) == Stages[n].days * DayLength

LongestPeriod == CHOOSE d \in {Period(n) : n \in 1..LastStage} : \A n \in 1..LastStage : Period(n) <= d

\* The instants of the first n stages; how many there are in all of them.
Instants(n) == UNION {{k} \X (1..Period(k)) : k \in 1..n}
FullRamp == Cardinality(Instants(LastStage))

Eldest == LongestPeriod + MaxLag
Rested == MinDelay + MaxLag

AccountStates == {"active", "warming", "quarantined"}

\* "key" is the age in days of the counter (day_key), 2 when older or NULL.
Participants ==
    [status : {"absent", "pending", "active", "done"}, stage : 1..LastStage, since : 0..Eldest,
     actions : Nat, key : 0..2, rest : 0..Rested, joined : SUBSET Groups]

NoParticipant == [status |-> "absent", stage |-> 1, since |-> 0, actions |-> 0, key |-> 2,
                  rest |-> Rested, joined |-> {}]

\* "todo": the runs a sweep has still to tick.  "known": the accounts as the session has
\* read them.  "left": participants to handle; "lifted": accounts it has made active;
\* "acted": participants it has acted for; "gone": loaded ones deleted since.
Memory ==
    [run : Runs \cup {NoRun}, todo : SUBSET Runs, lag : 0..MaxLag, day : {0, 1},
     loaded : [Accounts -> Participants], row : [Accounts -> Participants],
     known : [Accounts -> AccountStates \cup {"unread"}], left : SUBSET Accounts,
     lifted : SUBSET Accounts, acted : SUBSET Accounts, gone : SUBSET Accounts]

Nobody == [a \in Accounts |-> NoParticipant]

Forgotten == [run |-> NoRun, todo |-> {}, lag |-> 0, day |-> 0, loaded |-> Nobody,
              row |-> Nobody, known |-> [a \in Accounts |-> "unread"], left |-> {},
              lifted |-> {}, acted |-> {}, gone |-> {}]

TypeOK ==
    /\ run \in [Runs -> {"draft", "running", "paused", "done", "deleted"}]
    /\ participant \in [Runs -> [Accounts -> Participants]]
    /\ account \in [Accounts -> AccountStates]
    /\ pc \in [Sessions -> {"idle", "pick", "tick"}]
    /\ mem \in [Sessions -> Memory]
    /\ phase \in 0..(DayLength - 1)
    /\ did \in [Runs -> [Accounts -> Nat]]
    /\ excused \in [Runs -> [Accounts -> Nat]]
    /\ ramp \in [Runs -> [Accounts -> 0..FullRamp]]
    /\ orphaned \in SUBSET Accounts
    /\ benched \in [Sessions -> SUBSET Accounts]
    /\ edits \in Nat
    /\ losses \in Nat

Zero == [r \in Runs |-> [a \in Accounts |-> 0]]

\* Some accounts take part in the runs, some of which have just been started.
Init ==
    /\ run \in [Runs -> {"draft", "running"}]
    /\ \E members \in [Runs -> SUBSET Accounts] :
        /\ participant = [r \in Runs |-> [a \in Accounts |-> [NoParticipant EXCEPT
              !.status = IF a \notin members[r] THEN "absent"
                         ELSE IF run[r] = "running" THEN "active" ELSE "pending"]]]
        /\ account = [a \in Accounts |->
              IF \E r \in Runs : run[r] = "running" /\ a \in members[r]
              THEN "warming" ELSE "active"]
    /\ pc = [s \in Sessions |-> "idle"]
    /\ mem = [s \in Sessions |-> Forgotten]
    /\ phase = 0
    /\ did = Zero /\ excused = Zero /\ ramp = Zero /\ orphaned = {}
    /\ benched = [s \in Sessions |-> {}]
    /\ edits = 0 /\ losses = 0

-----------------------------------------------------------------------------
(* Time.                                                                    *)

Older(age, most) == IF age < most THEN age + 1 ELSE age

Aged(p, midnight) ==
    [p EXCEPT !.since = Older(@, Eldest), !.rest = Older(@, Rested),
              !.key = IF midnight THEN Older(@, 2) ELSE @]

PassTime ==
    LET midnight == phase + 1 = DayLength
        Day(n) == IF midnight THEN 0 ELSE n
    IN  /\ \A s \in Sessions : mem[s].run # NoRun => mem[s].lag < MaxLag
        /\ phase' = Day(phase + 1)
        /\ participant' = [r \in Runs |-> [a \in Accounts |->
              LET p == participant[r][a] IN
              IF p.status = "active" THEN Aged(p, midnight) ELSE p]]
        /\ mem' = [s \in Sessions |->
              IF mem[s].run = NoRun THEN mem[s]
              ELSE [mem[s] EXCEPT !.lag = @ + 1, !.day = IF midnight THEN 1 ELSE @,
                        !.loaded = [a \in Accounts |-> Aged(@[a], midnight)],
                        !.row = [a \in Accounts |-> Aged(@[a], midnight)]]]
        /\ ramp' = [r \in Runs |-> [a \in Accounts |->
              IF participant[r][a].status = "active" THEN Older(ramp[r][a], FullRamp)
              ELSE ramp[r][a]]]
        /\ did' = [r \in Runs |-> [a \in Accounts |-> Day(did[r][a])]]
        /\ excused' = [r \in Runs |-> [a \in Accounts |-> Day(excused[r][a])]]
        /\ UNCHANGED <<run, account, pc, orphaned, benched, bounds>>

-----------------------------------------------------------------------------
(* Managers and health checks.                                              *)

Edit == edits < MaxEdits /\ edits' = edits + 1 /\ UNCHANGED <<phase, losses>>

\* The accounts are given another status.
Unbench(as) == benched' = [s \in Sessions |-> benched[s] \ as]

\* Started from any state; the accounts of the new participants become "warming",
\* whatever they were.
StartRun(r) ==
    LET fresh == {a \in Accounts : participant[r][a].status = "pending"} IN
    /\ Edit
    /\ run[r] # "deleted"
    /\ run' = [run EXCEPT ![r] = "running"]
    /\ participant' = [participant EXCEPT ![r] = [a \in Accounts |->
          IF a \in fresh THEN [@[a] EXCEPT !.status = "active", !.since = 0] ELSE @[a]]]
    /\ account' = [a \in Accounts |-> IF a \in fresh THEN "warming" ELSE account[a]]
    /\ ramp' = [ramp EXCEPT ![r] = [a \in Accounts |-> IF a \in fresh THEN 0 ELSE @[a]]]
    /\ orphaned' = orphaned \ fresh
    /\ Unbench(fresh)
    /\ UNCHANGED <<sessions, did, excused>>

PauseRun(r) ==
    /\ Edit
    /\ run[r] # "deleted"
    /\ run' = [run EXCEPT ![r] = "paused"]
    /\ UNCHANGED <<participant, account, sessions, ghosts>>

StopRun(r) ==
    LET members == {a \in Accounts : participant[r][a].status # "absent"} IN
    /\ Edit
    /\ run[r] # "deleted"
    /\ run' = [run EXCEPT ![r] = "done"]
    /\ participant' = [participant EXCEPT ![r] = [a \in Accounts |->
          IF a \in members THEN [@[a] EXCEPT !.status = "done"] ELSE @[a]]]
    /\ account' = [a \in Accounts |->
          IF a \in members /\ account[a] = "warming" THEN "active" ELSE account[a]]
    /\ UNCHANGED <<sessions, ghosts>>

\* The account keeps its status.
AddParticipant(r, a) ==
    /\ Edit
    /\ run[r] # "deleted"
    /\ participant[r][a].status = "absent"
    /\ participant' = [participant EXCEPT ![r][a] =
          [NoParticipant EXCEPT !.status = IF run[r] = "running" THEN "active" ELSE "pending"]]
    /\ did' = [did EXCEPT ![r][a] = 0]
    /\ excused' = [excused EXCEPT ![r][a] = 0]
    /\ ramp' = [ramp EXCEPT ![r][a] = 0]
    /\ UNCHANGED <<run, account, sessions, orphaned, benched>>

\* The rows are deleted under the sessions that have loaded them.
Deleted(r, as) ==
    /\ participant' = [participant EXCEPT ![r] = [a \in Accounts |->
          IF a \in as THEN NoParticipant ELSE @[a]]]
    /\ mem' = [s \in Sessions |->
          IF mem[s].run = r THEN [mem[s] EXCEPT !.gone = @ \cup as] ELSE mem[s]]
    /\ orphaned' = orphaned \cup as
    /\ UNCHANGED <<account, pc, did, excused, ramp, benched>>

RemoveParticipant(r, a) ==
    /\ Edit
    /\ participant[r][a].status # "absent"
    /\ Deleted(r, {a})
    /\ UNCHANGED run

DeleteRun(r) ==
    /\ Edit
    /\ run[r] # "deleted"
    /\ run' = [run EXCEPT ![r] = "deleted"]
    /\ Deleted(r, Accounts)

\* A health check quarantines; a login and an override set what they like.
SetAccount(a, v) ==
    /\ Edit
    /\ account[a] # v
    /\ account' = [account EXCEPT ![a] = v]
    /\ orphaned' = IF v = "warming" THEN orphaned \cup {a} ELSE orphaned \ {a}
    /\ Unbench({a})
    /\ UNCHANGED <<run, participant, sessions, did, excused, ramp>>

-----------------------------------------------------------------------------
(* A tick.                                                                  *)

Watch(s) == benched' = [benched EXCEPT ![s] = {a \in Accounts : account[a] = "quarantined"}]

BeginSweep(s) ==
    LET running == {r \in Runs : run[r] = "running"} IN
    /\ pc[s] = "idle"
    /\ running # {}
    /\ pc' = [pc EXCEPT ![s] = "pick"]
    /\ mem' = [mem EXCEPT ![s].todo = running]
    /\ Watch(s)
    /\ UNCHANGED <<database, phase, did, excused, ramp, orphaned, bounds>>

BeginManual(s, r) ==
    /\ pc[s] = "idle"
    /\ run[r] = "running"
    /\ pc' = [pc EXCEPT ![s] = "pick"]
    /\ mem' = [mem EXCEPT ![s].todo = {r}]
    /\ Watch(s)
    /\ UNCHANGED <<database, phase, did, excused, ramp, orphaned, bounds>>

\* The active participants are loaded, and the accounts the session has not read yet.
Load(s, r) ==
    LET active == {a \in Accounts : participant[r][a].status = "active"} IN
    /\ pc[s] = "pick"
    /\ r \in mem[s].todo
    /\ pc' = [pc EXCEPT ![s] = "tick"]
    /\ mem' = [mem EXCEPT ![s] =
          [Forgotten EXCEPT !.run = r, !.todo = mem[s].todo \ {r}, !.left = active,
              !.loaded = [a \in Accounts |-> IF a \in active THEN participant[r][a] ELSE @[a]],
              !.row = [a \in Accounts |-> IF a \in active THEN participant[r][a] ELSE @[a]],
              !.known = [a \in Accounts |->
                  IF a \in active /\ mem[s].known[a] = "unread"
                  THEN account[a] ELSE mem[s].known[a]]]]
    /\ UNCHANGED <<database, phase, ghosts, bounds>>

\* Mutant: the counter is reset by every tick.
Today_EveryTick(m, p) == [p EXCEPT !.actions = 0, !.key = m.day]

Today(m, p) == IF p.key = m.day THEN p ELSE [p EXCEPT !.actions = 0, !.key = m.day]

IsOver(m, p) == p.since - m.lag >= Period(p.stage)

Graduates(m, p) == IsOver(m, p) /\ p.stage = LastStage

\* Mutant: stage_started_at is kept.
Advanced_KeepsStart(m, p) == IF IsOver(m, p) THEN [p EXCEPT !.stage = @ + 1] ELSE p

Advanced(m, p) == IF IsOver(m, p) THEN [p EXCEPT !.stage = @ + 1, !.since = m.lag] ELSE p

\* Groups first, then partners and the other participants the tick has loaded.
HasTarget(m, a) ==
    \/ m.row[a].joined # Groups
    \/ Partnered
    \/ \E b \in Accounts \ {a} : m.loaded[b].status = "active"

MayAct(m, a, p) ==
    /\ p.actions < Stages[p.stage].cap
    /\ p.rest - m.lag >= MinDelay
    /\ HasTarget(m, a)

\* Mutant: last_action_at says when the next action is allowed.
Acted_NextTime(m, p) == [p EXCEPT !.actions = @ + 1, !.rest = m.lag - MinDelay]

Acted(m, p) ==
    [p EXCEPT !.actions = @ + 1, !.rest = m.lag,
              !.joined = IF @ = Groups THEN @ ELSE @ \cup {CHOOSE g \in Groups : g \notin @}]

Handled(m, a, p) == [m EXCEPT !.left = @ \ {a}, !.row[a] = p]

\* Mutant: the account is not told.
Lifted_None(m, a) == m.lifted

Lifted(m, a) == IF m.known[a] = "warming" THEN m.lifted \cup {a} ELSE m.lifted

Graduate(s, a) ==
    LET m == mem[s]
        p == Today(m, m.row[a])
    IN  /\ a \in m.left
        /\ Graduates(m, p)
        /\ mem' = [mem EXCEPT ![s] =
              [Handled(m, a, [p EXCEPT !.status = "done"]) EXCEPT
                  !.lifted = Lifted(m, a),
                  !.known[a] = IF a \in Lifted(m, a) THEN "active" ELSE @]]
        /\ UNCHANGED <<database, pc, phase, ghosts, bounds>>

Skip(s, a) ==
    LET m == mem[s]
        p == Today(m, m.row[a])
    IN  /\ a \in m.left
        /\ ~Graduates(m, p)
        /\ ~MayAct(m, a, Advanced(m, p))
        /\ mem' = [mem EXCEPT ![s] = Handled(m, a, Advanced(m, p))]
        /\ UNCHANGED <<database, pc, phase, ghosts, bounds>>

\* An error is swallowed, and neither counted nor waited for: also when the action was
\* performed and only the answer came too late.
Act(s, a, outcome) ==
    LET m == mem[s]
        p == Advanced(m, Today(m, m.row[a]))
        counts == m.day = 0 /\ a \notin m.gone /\ outcome # "refused"
    IN  /\ a \in m.left
        /\ ~Graduates(m, Today(m, m.row[a]))
        /\ MayAct(m, a, p)
        /\ outcome = "late" => losses < MaxLosses
        /\ losses' = IF outcome = "late" THEN losses + 1 ELSE losses
        /\ mem' = [mem EXCEPT ![s] =
              IF outcome = "done" THEN [Handled(m, a, Acted(m, p)) EXCEPT !.acted = @ \cup {a}]
              ELSE Handled(m, a, p)]
        /\ did' = [did EXCEPT ![m.run][a] = IF counts THEN @ + 1 ELSE @]
        /\ excused' = [excused EXCEPT ![m.run][a] =
              IF counts /\ outcome = "late" THEN @ + 1 ELSE @]
        /\ UNCHANGED <<database, pc, phase, ramp, orphaned, benched, edits>>

Changed(m) == {a \in Accounts : m.row[a] # m.loaded[a]}

\* The columns this session has changed, over what is stored now.
Written(stored, m, a) ==
    [f \in DOMAIN stored |-> IF m.row[a][f] = m.loaded[a][f] THEN stored[f] ELSE m.row[a][f]]

\* The stored counter is one the session has not seen.
Overtaken(m, a) ==
    LET stored == participant[m.run][a] IN
    <<stored.actions, stored.key>> # <<m.loaded[a].actions, m.loaded[a].key>>

EndTurn(s) ==
    /\ pc' = [pc EXCEPT ![s] = IF mem[s].todo = {} THEN "idle" ELSE "pick"]
    /\ mem' = [mem EXCEPT ![s] =
          IF @.todo = {} THEN Forgotten
          ELSE [Forgotten EXCEPT !.todo = mem[s].todo, !.known = mem[s].known]]
    /\ benched' = [q \in Sessions |->
          IF q = s /\ mem[s].todo = {} THEN {} ELSE benched[q] \ mem[s].lifted]

Commit(s) ==
    LET m == mem[s] IN
    /\ pc[s] = "tick"
    /\ m.left = {}
    /\ Changed(m) \cap m.gone = {}
    /\ participant' = [participant EXCEPT ![m.run] = [a \in Accounts |->
          IF a \in Changed(m) THEN Written(@[a], m, a) ELSE @[a]]]
    /\ account' = [a \in Accounts |-> IF a \in m.lifted THEN "active" ELSE account[a]]
    /\ excused' = [excused EXCEPT ![m.run] = [a \in Accounts |->
          IF a \in Changed(m) /\ Overtaken(m, a)
          THEN @[a] + participant[m.run][a].actions + Cardinality(m.acted \cap {a}) ELSE @[a]]]
    /\ EndTurn(s)
    /\ UNCHANGED <<run, phase, did, ramp, orphaned, bounds>>

\* The session is closed without a commit: nothing the tick did is remembered.
RollBack(s) ==
    LET m == mem[s] IN
    /\ pc' = [pc EXCEPT ![s] = "idle"]
    /\ mem' = [mem EXCEPT ![s] = Forgotten]
    /\ excused' = [r \in Runs |-> [a \in Accounts |->
          IF r = m.run /\ m.day = 0 /\ a \in m.acted \ m.gone
          THEN excused[r][a] + 1 ELSE excused[r][a]]]
    /\ benched' = [benched EXCEPT ![s] = {}]
    /\ UNCHANGED <<database, phase, did, ramp, orphaned, edits>>

\* An UPDATE of a deleted participant raises, and ends the sweep.
CommitFails(s) ==
    /\ pc[s] = "tick"
    /\ mem[s].left = {}
    /\ Changed(mem[s]) \cap mem[s].gone # {}
    /\ RollBack(s)
    /\ UNCHANGED losses

Crash(s) ==
    /\ pc[s] # "idle"
    /\ losses < MaxLosses
    /\ losses' = losses + 1
    /\ RollBack(s)

-----------------------------------------------------------------------------

TickStep(s) ==
    \/ \E r \in Runs : Load(s, r)
    \/ \E a \in Accounts :
        \/ Graduate(s, a)
        \/ Skip(s, a)
        \/ \E outcome \in Outcomes : Act(s, a, outcome)
    \/ Commit(s)
    \/ CommitFails(s)

Manager ==
    \/ \E r \in Runs :
        \/ StartRun(r) \/ PauseRun(r) \/ StopRun(r) \/ DeleteRun(r)
        \/ \E a \in Accounts : AddParticipant(r, a) \/ RemoveParticipant(r, a)
    \/ \E a \in Accounts, v \in AccountStates : SetAccount(a, v)

Next ==
    \/ PassTime
    \/ Manager
    \/ \E s \in Sessions : TickStep(s) \/ Crash(s)
    \/ \E s \in Workers : BeginSweep(s)
    \/ \E s \in Requests, r \in Runs : BeginManual(s, r)

Spec == Init /\ [][Next]_vars

-----------------------------------------------------------------------------
(* Properties.                                                              *)

\* The largest cap a session may know of: the stage in the database or a later one it
\* has not written yet.
CapNow(r, a) ==
    LET stages == {participant[r][a].stage} \cup
                  {mem[s].row[a].stage : s \in {x \in Sessions : mem[x].run = r}}
    IN  CHOOSE c \in {Stages[n].cap : n \in stages} : \A n \in stages : Stages[n].cap <= c

\* A participant performs no more actions in a day than its stage allows, but for one
\* more per overlapping session, the actions of ticks that were rolled back, those
\* whose answer was late, and those whose count an overlapping tick has overwritten
\* (warmup.py:244-247, 274, 281-288).
DailyRampHeld ==
    \A r \in Runs, a \in Accounts :
        participant[r][a].status # "absent" =>
            did[r][a] < CapNow(r, a) + Cardinality(Sessions) + excused[r][a]

\* A tick lets a participant graduate only when the days of all stages have passed since
\* it was started, although overlapping ticks advance it from what they have loaded
\* (warmup.py:249-266).
RampIsFull(r, a) ==
    participant[r][a].status = "active" /\ participant'[r][a].status = "done"
        => run'[r] = "done" \/ ramp[r][a] = FullRamp

\* A tick does not take an account out of the quarantine it was in when the tick, or the
\* sweep it belongs to, began; one that a health check gives it later, it may (warmup.py:263).
QuarantineStands(s, a) ==
    pc[s] = "tick" /\ pc'[s] # "tick" /\ a \in benched[s] /\ account[a] = "quarantined"
        => account'[a] = "quarantined"

\* What graduation means: the whole ramp, and no way out of quarantine.
GraduationHolds ==
    [][/\ \A r \in Runs, a \in Accounts : RampIsFull(r, a)
       /\ \A s \in Sessions, a \in Accounts : QuarantineStands(s, a)]_vars

\* No account is left warming: it takes part in a run, unless a person has removed it
\* from one or set its status by hand.  Two tables and the session's older copy of
\* both decide that (warmup.py:160-164, 181-185, 249-266).
NoneStranded ==
    \A a \in Accounts :
        account[a] = "warming" /\ a \notin orphaned =>
            \E r \in Runs : participant[r][a].status = "active"
=============================================================================
