--------------------------- MODULE CampaignsProofs ---------------------------
(***************************************************************************)
(* Theorems about Campaigns: for any campaigns, contacts, accounts, targets,  *)
(* sessions and crashes, and for every outcome of the engine.               *)
(***************************************************************************)
EXTENDS Campaigns, FiniteSetTheorems, TLAPS

-----------------------------------------------------------------------------
(* Types.  What a session is made to hold, operator by operator.            *)

LEMMA CleanType == Clean \in DirtyStates
  BY DEF Clean, DirtyStates

LEMMA NoTickType == NoTick \in TickStates
<1>1. (CHOOSE c \in Campaigns : TRUE) \in Campaigns
  BY CampaignsAssumption
<1>. QED
  BY <1>1 DEF NoTick, TickStates

LEMMA DirtyType == ASSUME TypeOK, NEW s \in Sessions PROVE dirty[s] \in DirtyStates
  BY DEF TypeOK

LEMMA InitType == Init => TypeOK
  BY CleanType, NoTickType DEF Init, TypeOK, Outcome

LEMMA ReleaseType ==
  ASSUME TypeOK, NEW s \in Sessions, Release(s)
  PROVE  /\ pc' \in [Sessions -> {"idle", "starting", "inserting",
                                  "sweep", "targets", "act", "record", "commit"}]
         /\ tick' \in [Sessions -> TickStates]
         /\ dirty' \in [Sessions -> DirtyStates]
  BY CleanType, NoTickType DEF Release, TypeOK

LEMMA EndTickType ==
  ASSUME TypeOK, NEW s \in Sessions, NEW todo \in SUBSET Campaigns,
         NEW seen \in [Campaigns -> Accounts \cup {NoId}], EndTick(s, todo, seen)
  PROVE  /\ pc' \in [Sessions -> {"idle", "starting", "inserting",
                                  "sweep", "targets", "act", "record", "commit"}]
         /\ tick' \in [Sessions -> TickStates]
<1>1. [NoTick EXCEPT !.todo = todo, !.last = seen] \in TickStates
  BY NoTickType DEF TickStates
<1>. QED
  BY <1>1, NoTickType DEF EndTick, TypeOK

LEMMA UsedUpType ==
  ASSUME NEW k \in TickStates, NEW a \in Accounts, NEW t \in Targets
  PROVE  UsedUp(k, a, t) \in TickStates
<1>1. [k.last EXCEPT ![k.campaign] = a] \in [Campaigns -> Accounts \cup {NoId}]
  BY DEF TickStates
<1>. QED
  BY <1>1 DEF UsedUp, TickStates

LEMMA SettledType ==
  ASSUME NEW d \in DirtyStates, NEW k \in TickStates, NEW a \in Accounts, NEW t \in Targets,
         NEW state \in Outcome
  PROVE  Settled(d, k, a, t, state) \in DirtyStates
<1>1. [d.result EXCEPT ![t] = state] \in [Targets -> Outcome \cup {"clean"}]
  BY DEF DirtyStates
<1>2. (d.moved \/ a # k.last[k.campaign]) \in BOOLEAN
  OBVIOUS
<1>. QED
  BY <1>1, <1>2 DEF Settled, DirtyStates

LEMMA JoinedType ==
  ASSUME NEW d \in DirtyStates, NEW k \in TickStates, NEW a \in Accounts, NEW t \in Targets
  PROVE  Joined(d, k, a, t) \in DirtyStates
<1>1. Settled(d, k, a, t, "joined") \in DirtyStates
  BY SettledType DEF Outcome
<1>. QED
  BY <1>1 DEF Joined, DirtyStates

LEMMA WarnedType ==
  ASSUME NEW d \in DirtyStates, NEW a \in Accounts, NEW t \in Targets
  PROVE  Warned(d, a, t) \in DirtyStates
  BY DEF Warned, DirtyStates

\* Assigning a column of what a session has loaded.
LEMMA LoadedType ==
  ASSUME NEW ticks \in [Sessions -> TickStates], NEW s \in Sessions
  PROVE  /\ \A c \in Campaigns : [ticks EXCEPT ![s].campaign = c] \in [Sessions -> TickStates]
         /\ \A first \in BOOLEAN : [ticks EXCEPT ![s].first = first] \in [Sessions -> TickStates]
         /\ \A todo \in SUBSET Campaigns : [ticks EXCEPT ![s].todo = todo] \in [Sessions -> TickStates]
         /\ \A ls \in [Campaigns -> Accounts \cup {NoId}] :
                [ticks EXCEPT ![s].last = ls] \in [Sessions -> TickStates]
         /\ \A left \in SUBSET Accounts : [ticks EXCEPT ![s].left = left] \in [Sessions -> TickStates]
         /\ \A a \in Accounts \cup {NoId} : [ticks EXCEPT ![s].pivot = a] \in [Sessions -> TickStates]
         /\ \A seen \in [Accounts -> Nat] : [ticks EXCEPT ![s].seen = seen] \in [Sessions -> TickStates]
         /\ \A work \in SUBSET Targets : [ticks EXCEPT ![s].work = work] \in [Sessions -> TickStates]
<1>1. ticks[s] \in TickStates
  OBVIOUS
<1>2. \A k \in TickStates : [ticks EXCEPT ![s] = k] \in [Sessions -> TickStates]
  OBVIOUS
<1>3. \A c \in Campaigns : [ticks[s] EXCEPT !.campaign = c] \in TickStates
  BY <1>1 DEF TickStates
<1>4. \A first \in BOOLEAN : [ticks[s] EXCEPT !.first = first] \in TickStates
  BY <1>1 DEF TickStates
<1>5. \A todo \in SUBSET Campaigns : [ticks[s] EXCEPT !.todo = todo] \in TickStates
  BY <1>1 DEF TickStates
<1>6. \A ls \in [Campaigns -> Accounts \cup {NoId}] : [ticks[s] EXCEPT !.last = ls] \in TickStates
  BY <1>1 DEF TickStates
<1>7. \A left \in SUBSET Accounts : [ticks[s] EXCEPT !.left = left] \in TickStates
  BY <1>1 DEF TickStates
<1>8. \A a \in Accounts \cup {NoId} : [ticks[s] EXCEPT !.pivot = a] \in TickStates
  BY <1>1 DEF TickStates
<1>9. \A seen \in [Accounts -> Nat] : [ticks[s] EXCEPT !.seen = seen] \in TickStates
  BY <1>1 DEF TickStates
<1>10. \A work \in SUBSET Targets : [ticks[s] EXCEPT !.work = work] \in TickStates
  BY <1>1 DEF TickStates
<1>. QED
  BY <1>2, <1>3, <1>4, <1>5, <1>6, <1>7, <1>8, <1>9, <1>10

\* What a commit leaves in the database has the types of the columns.
LEMMA FlushType ==
  ASSUME TypeOK, NEW s \in Sessions, Flush(s)
  PROVE  /\ result' \in [Targets -> Outcome \cup {"absent", "queued"}]
         /\ member' \in SUBSET Contacts
         /\ active' \in SUBSET Accounts
         /\ actionsToday' \in [Accounts -> Nat]
         /\ rested' \in SUBSET Accounts
         /\ status' \in [Campaigns -> {"draft", "running", "paused", "done"}]
         /\ last' \in [Campaigns -> Accounts \cup {NoId}]
<1>1. dirty[s] \in DirtyStates /\ tick[s] \in TickStates
  BY DEF TypeOK
<1>2. result' \in [Targets -> Outcome \cup {"absent", "queued"}]
  BY <1>1 DEF Flush, TypeOK, DirtyStates
<1>3. member' \in SUBSET Contacts
  BY <1>1, CampaignsAssumption DEF Flush, TypeOK, DirtyStates
<1>4. active' \in SUBSET Accounts /\ rested' \in SUBSET Accounts
  BY <1>1 DEF Flush, TypeOK, DirtyStates
<1>5. actionsToday' \in [Accounts -> Nat]
  BY <1>1 DEF Flush, TypeOK, DirtyStates, TickStates
<1>6. status' \in [Campaigns -> {"draft", "running", "paused", "done"}]
  BY <1>1 DEF Flush, TypeOK, DirtyStates, TickStates
<1>7. last' \in [Campaigns -> Accounts \cup {NoId}]
  BY <1>1 DEF Flush, TypeOK, DirtyStates, TickStates
<1>. QED
  BY <1>2, <1>3, <1>4, <1>5, <1>6, <1>7

LEMMA NextType == TypeOK /\ [Next]_vars => TypeOK'
<1>. SUFFICES ASSUME TypeOK, [Next]_vars PROVE TypeOK'
  OBVIOUS
<1>. USE DEF campaignVars, targetVars, accountVars, sessionVars, ghosts, bounds
<1>1. ASSUME NEW s \in Sessions, NEW c \in Campaigns, LoadForStart(s, c)
      PROVE  TypeOK'
  <2>1. tick' \in [Sessions -> TickStates]
    <3>1. [tick EXCEPT ![s].campaign = c] \in [Sessions -> TickStates]
      BY LoadedType DEF TypeOK
    <3>2. (~started[c]) \in BOOLEAN
      OBVIOUS
    <3>. QED
      BY <1>1, <3>1, <3>2, LoadedType DEF LoadForStart
  <2>2. UNCHANGED <<campaignVars, targetVars, willing, accountVars, dirty, hour, ghosts, crashes>>
        /\ starts' \in Nat
    BY <1>1 DEF LoadForStart, TypeOK
  <2>3. pc' \in [Sessions -> {"idle", "starting", "inserting",
                              "sweep", "targets", "act", "record", "commit"}]
    BY <1>1 DEF LoadForStart, TypeOK
  <2>. QED
    BY <2>1, <2>2, <2>3 DEF TypeOK
<1>2. ASSUME NEW s \in Sessions, CommitStart(s)
      PROVE  TypeOK'
  <2>1. /\ pc' \in [Sessions -> {"idle", "starting", "inserting",
                                 "sweep", "targets", "act", "record", "commit"}]
        /\ tick' \in [Sessions -> TickStates]
        /\ dirty' \in [Sessions -> DirtyStates]
    <3>1. CASE tick[s].first
      BY <1>2, <3>1 DEF CommitStart, TypeOK
    <3>2. CASE ~tick[s].first
      BY <1>2, <3>2, ReleaseType DEF CommitStart
    <3>. QED
      BY <3>1, <3>2
  <2>2. status' \in [Campaigns -> {"draft", "running", "paused", "done"}]
        /\ started' \in [Campaigns -> BOOLEAN]
    BY <1>2 DEF CommitStart, TypeOK
  <2>3. UNCHANGED <<last, targetVars, willing, accountVars, hour, ghosts, bounds>>
    BY <1>2 DEF CommitStart
  <2>. QED
    BY <2>1, <2>2, <2>3 DEF TypeOK
<1>3. ASSUME NEW s \in Sessions, Materialize(s)
      PROVE  TypeOK'
  <2>1. Release(s) /\ UNCHANGED <<campaignVars, member, willing, accountVars, hour,
                                  served, lateAnswers, tried, bounds>>
    BY <1>3 DEF Materialize
  <2>2. PICK fresh \in SUBSET Targets :
          \/ /\ result' = [t \in Targets |-> IF t \in fresh THEN "queued" ELSE result[t]]
             /\ scheduled' = [t \in Targets |-> IF t \in fresh THEN hour + Offset[t] ELSE scheduled[t]]
             /\ materialized' = materialized \cup {tick[s].campaign}
          \/ UNCHANGED <<result, scheduled, materialized>>
    BY <1>3 DEF Materialize
  <2>3. tick[s].campaign \in Campaigns
    BY DEF TypeOK, TickStates
  <2>4. /\ result' \in [Targets -> Outcome \cup {"absent", "queued"}]
        /\ scheduled' \in [Targets -> Nat]
        /\ materialized' \in SUBSET Campaigns
    BY <2>2, <2>3, CampaignsAssumption DEF TypeOK
  <2>. QED
    BY <2>1, <2>4, ReleaseType DEF TypeOK
<1>4. ASSUME NEW s \in Sessions, NEW cs \in SUBSET Campaigns, Begin(s, cs)
      PROVE  TypeOK'
  <2>1. tick' \in [Sessions -> TickStates]
    <3>1. [tick EXCEPT ![s].todo = cs] \in [Sessions -> TickStates]
      BY LoadedType DEF TypeOK
    <3>. QED
      BY <1>4, <3>1, LoadedType DEF Begin, TypeOK
  <2>. QED
    BY <1>4, <2>1 DEF Begin, TypeOK
<1>5. ASSUME NEW s \in Sessions, NEW c \in Campaigns, PickAccounts(s, c)
      PROVE  TypeOK'
  <2>1. /\ pc' \in [Sessions -> {"idle", "starting", "inserting",
                                 "sweep", "targets", "act", "record", "commit"}]
        /\ tick' \in [Sessions -> TickStates]
    <3>1. tick[s].todo \in SUBSET Campaigns /\ tick[s].last \in [Campaigns -> Accounts \cup {NoId}]
      BY DEF TypeOK, TickStates
    <3>2. CASE UsableAccounts = {}
      BY <1>5, <3>1, <3>2, EndTickType DEF PickAccounts
    <3>3. CASE UsableAccounts # {}
      <4>1. UsableAccounts \in SUBSET Accounts
            /\ Pivot(UsableAccounts, tick[s].last[c]) \in Accounts \cup {NoId}
        BY DEF UsableAccounts, Pivot, TypeOK
      <4>. DEFINE one == [tick EXCEPT ![s].campaign = c]
                  two == [one EXCEPT ![s].left = UsableAccounts]
                  three == [two EXCEPT ![s].pivot = Pivot(UsableAccounts, tick[s].last[c])]
      <4>2. one \in [Sessions -> TickStates]
        BY LoadedType DEF TypeOK
      <4>3. two \in [Sessions -> TickStates]
        BY <4>1, <4>2, LoadedType
      <4>4. three \in [Sessions -> TickStates]
        BY <4>1, <4>3, LoadedType
      <4>5. tick' = [three EXCEPT ![s].seen = actionsToday]
        BY <1>5, <3>3 DEF PickAccounts
      <4>. HIDE DEF three
      <4>6. tick' \in [Sessions -> TickStates]
        BY <4>4, <4>5, LoadedType DEF TypeOK
      <4>. QED
        BY <1>5, <3>3, <4>6 DEF PickAccounts, TypeOK
    <3>. QED
      BY <3>2, <3>3
  <2>. QED
    BY <1>5, <2>1 DEF PickAccounts, TypeOK
<1>6. ASSUME NEW s \in Sessions, PickTargets(s)
      PROVE  TypeOK'
  <2>1. PICK work \in SUBSET Targets, refused \in SUBSET Targets :
          /\ tick' = [tick EXCEPT ![s].work = work]
          /\ dirty' = [dirty EXCEPT ![s].result =
                          [t \in Targets |-> IF t \in refused THEN "skipped" ELSE "clean"]]
          /\ tried' = tried \cup refused
    BY <1>6 DEF PickTargets, Due, Queued
  <2>2. [t \in Targets |-> IF t \in refused THEN "skipped" ELSE "clean"]
          \in [Targets -> Outcome \cup {"clean"}]
    BY DEF Outcome
  <2>3. tick' \in [Sessions -> TickStates]
    BY <2>1, LoadedType DEF TypeOK
  <2>4. dirty' \in [Sessions -> DirtyStates]
    <3>1. \A r \in [Targets -> Outcome \cup {"clean"}] : [dirty[s] EXCEPT !.result = r] \in DirtyStates
      BY DirtyType DEF DirtyStates
    <3>. QED
      BY <2>1, <2>2, <3>1 DEF TypeOK
  <2>5. UNCHANGED <<campaignVars, targetVars, willing, accountVars, hour,
                    served, lateAnswers, materialized, bounds>>
        /\ pc' = [pc EXCEPT ![s] = "act"]
    BY <1>6 DEF PickTargets
  <2>. QED
    BY <2>1, <2>3, <2>4, <2>5 DEF TypeOK
<1>7. ASSUME NEW s \in Sessions, NEW outcome \in Outcomes, Act(s, outcome)
      PROVE  TypeOK'
  <2>1. PICK a \in Accounts, t \in Targets :
        /\ IsTurn(s, a, t)
        /\ served' = IF outcome \in {"done", "late"} /\ served[t] < MaxServed
                     THEN [served EXCEPT ![t] = @ + 1] ELSE served
        /\ lateAnswers' = IF outcome = "late" THEN [lateAnswers EXCEPT ![t] = @ + 1] ELSE lateAnswers
        /\ tried' = IF outcome \in {"done", "failed"} THEN tried \cup {t} ELSE tried
        /\ \/ /\ pc' = [pc EXCEPT ![s] = "commit"]
              /\ dirty' = [dirty EXCEPT ![s] = Warned(@, a, t)]
              /\ UNCHANGED tick
           \/ /\ dirty' = [dirty EXCEPT ![s] = Settled(@, tick[s], a, t, "failed")]
              /\ tick' = [tick EXCEPT ![s] = UsedUp(@, a, t)]
              /\ UNCHANGED pc
           \/ /\ dirty' = [dirty EXCEPT ![s] = Joined(@, tick[s], a, t)]
              /\ tick' = [tick EXCEPT ![s] = UsedUp(@, a, t)]
              /\ UNCHANGED pc
           \/ /\ pc' = [pc EXCEPT ![s] = "record"]
              /\ UNCHANGED <<tick, dirty>>
    BY <1>7 DEF Act
  <2>2. tick[s] \in TickStates /\ dirty[s] \in DirtyStates
    BY DEF TypeOK
  <2>3. /\ UsedUp(tick[s], a, t) \in TickStates
        /\ Warned(dirty[s], a, t) \in DirtyStates
        /\ Settled(dirty[s], tick[s], a, t, "failed") \in DirtyStates
        /\ Joined(dirty[s], tick[s], a, t) \in DirtyStates
    BY <2>2, UsedUpType, WarnedType, SettledType, JoinedType DEF Outcome
  <2>4. /\ pc' \in [Sessions -> {"idle", "starting", "inserting",
                                 "sweep", "targets", "act", "record", "commit"}]
        /\ tick' \in [Sessions -> TickStates]
        /\ dirty' \in [Sessions -> DirtyStates]
    BY <2>1, <2>3 DEF TypeOK
  <2>5. served' \in [Targets -> Nat] /\ lateAnswers' \in [Targets -> Nat] /\ tried' \in SUBSET Targets
    BY <2>1 DEF TypeOK
  <2>6. UNCHANGED <<campaignVars, targetVars, willing, accountVars, hour, materialized, bounds>>
    BY <1>7 DEF Act
  <2>. QED
    BY <2>4, <2>5, <2>6 DEF TypeOK
<1>8. ASSUME NEW s \in Sessions, Record(s)
      PROVE  TypeOK'
  <2>1. PICK a \in Accounts, t \in Targets :
          /\ tick' = [tick EXCEPT ![s] = UsedUp(@, a, t)]
          /\ dirty' = [dirty EXCEPT ![s] = AfterSend(s, a, t)]
    BY <1>8 DEF Record
  <2>2. tick[s] \in TickStates
    BY DEF TypeOK
  <2>3. UsedUp(tick[s], a, t) \in TickStates /\ AfterSend(s, a, t) \in DirtyStates
    BY <2>2, UsedUpType, SettledType, CleanType DEF AfterSend, Outcome
  <2>4. tick' \in [Sessions -> TickStates] /\ dirty' \in [Sessions -> DirtyStates]
    BY <2>1, <2>3 DEF TypeOK
  <2>5. /\ pc' \in [Sessions -> {"idle", "starting", "inserting",
                                 "sweep", "targets", "act", "record", "commit"}]
        /\ Flush(s) /\ UNCHANGED <<started, scheduled, willing, hour, ghosts, bounds>>
    BY <1>8 DEF Record, TypeOK
  <2>. QED
    BY <2>4, <2>5, FlushType DEF TypeOK
<1>9. ASSUME NEW s \in Sessions, Count(s)
      PROVE  TypeOK'
  <2>1. dirty' \in [Sessions -> DirtyStates]
    <3>1. \A state \in {"done", "clean"} : [dirty[s] EXCEPT !.campaign = state] \in DirtyStates
      BY DirtyType DEF DirtyStates
    <3>. QED
      BY <1>9, <3>1 DEF Count, TypeOK
  <2>. QED
    BY <1>9, <2>1 DEF Count, TypeOK
<1>10. ASSUME NEW s \in Sessions, Commit(s)
       PROVE  TypeOK'
  <2>1. tick[s].todo \ {tick[s].campaign} \in SUBSET Campaigns
        /\ tick[s].last \in [Campaigns -> Accounts \cup {NoId}]
    BY DEF TypeOK, TickStates
  <2>2. dirty' \in [Sessions -> DirtyStates]
    BY <1>10, CleanType DEF Commit, TypeOK
  <2>3. /\ pc' \in [Sessions -> {"idle", "starting", "inserting",
                                 "sweep", "targets", "act", "record", "commit"}]
        /\ tick' \in [Sessions -> TickStates]
    BY <1>10, <2>1, EndTickType DEF Commit
  <2>4. Flush(s) /\ UNCHANGED <<started, scheduled, willing, hour, ghosts, bounds>>
    BY <1>10 DEF Commit
  <2>. QED
    BY <2>2, <2>3, <2>4, FlushType DEF TypeOK
<1>11. ASSUME NEW s \in Sessions, CommitFails(s) \/ Crash(s)
       PROVE  TypeOK'
  <2>1. Release(s) /\ crashes' \in Nat
        /\ UNCHANGED <<campaignVars, targetVars, willing, accountVars, hour, ghosts, starts>>
    BY <1>11 DEF CommitFails, Crash, TypeOK
  <2>. QED
    BY <2>1, ReleaseType DEF TypeOK
<1>12. CASE Surroundings
  <2>1. ASSUME NEW contacts \in SUBSET Contacts, SetWilling(contacts) PROVE TypeOK'
    BY <2>1 DEF SetWilling, TypeOK
  <2>2. ASSUME NEW c \in Campaigns, NEW state \in {"paused", "done"}, SetStatus(c, state) PROVE TypeOK'
    BY <2>2 DEF SetStatus, TypeOK
  <2>3. CASE PassHour
    BY <2>3 DEF PassHour, TypeOK
  <2>4. ASSUME NEW a \in Accounts, Rest(a) PROVE TypeOK'
    BY <2>4 DEF Rest, TypeOK
  <2>5. ASSUME NEW x \in Contacts, OptOut(x) \/ GiveConsent(x) PROVE TypeOK'
    <3>1. willing \ {x} \in SUBSET Contacts /\ willing \cup {x} \in SUBSET Contacts
      BY DEF TypeOK
    <3>. QED
      BY <2>1, <2>5, <3>1 DEF OptOut, GiveConsent
  <2>. QED
    BY <1>12, <2>2, <2>3, <2>4, <2>5 DEF Surroundings, StopCampaign, PauseCampaign
<1>13. CASE UNCHANGED vars
  BY <1>13 DEF vars, TypeOK
<1>14. ASSUME NEW s \in Sessions, BeginSweep(s) \/ \E c \in Campaigns : BeginManual(s, c)
       PROVE  TypeOK'
  BY <1>4, <1>14 DEF BeginSweep, BeginManual
<1>. QED
  BY <1>1, <1>2, <1>3, <1>5, <1>6, <1>7, <1>8, <1>9, <1>10, <1>11, <1>12, <1>13, <1>14
     DEF Next, StartStep, TickStep

\* Every reachable state is well typed.
THEOREM TypeCorrect == Spec => []TypeOK
  BY InitType, NextType, PTL DEF Spec
-----------------------------------------------------------------------------
(* What the operators of a tick do to the fields that matter below.         *)

LEMMA CleanFields ==
  /\ \A t \in Targets : Clean.result[t] = "clean"
  /\ Clean.inserts = {}
  /\ NoTick.work = {}
  BY DEF Clean, NoTick

LEMMA EndTickFields ==
  ASSUME TypeOK, NEW s \in Sessions, NEW todo, NEW seen, EndTick(s, todo, seen)
  PROVE  tick'[s].work = {}
<1>1. CASE todo = {}
  BY <1>1, CleanFields DEF EndTick, TypeOK
<1>2. CASE todo # {}
  <2>1. tick'[s] = [NoTick EXCEPT !.todo = todo, !.last = seen]
    BY <1>2 DEF EndTick, TypeOK
  <2>2. [NoTick EXCEPT !.todo = todo, !.last = seen].work = NoTick.work
    BY NoTickType DEF TickStates
  <2>. QED
    BY <2>1, <2>2, CleanFields
<1>. QED
  BY <1>1, <1>2

LEMMA UsedUpFields ==
  ASSUME NEW k \in TickStates, NEW a \in Accounts, NEW t \in Targets
  PROVE  UsedUp(k, a, t).work = k.work \ {t}
  BY DEF UsedUp, TickStates

LEMMA SettledFields ==
  ASSUME NEW d \in DirtyStates, NEW k \in TickStates, NEW a \in Accounts, NEW t \in Targets,
         NEW state
  PROVE  /\ Settled(d, k, a, t, state).result = [d.result EXCEPT ![t] = state]
         /\ Settled(d, k, a, t, state).inserts = d.inserts
  BY DEF Settled, DirtyStates

LEMMA JoinedFields ==
  ASSUME NEW d \in DirtyStates, NEW k \in TickStates, NEW a \in Accounts, NEW t \in Targets
  PROVE  /\ Joined(d, k, a, t).result = [d.result EXCEPT ![t] = "joined"]
         /\ Joined(d, k, a, t).inserts =
                IF ContactOf[t] \in member THEN d.inserts ELSE d.inserts \cup {t}
<1>1. Settled(d, k, a, t, "joined") \in DirtyStates
  BY SettledType DEF Outcome
<1>2. /\ Settled(d, k, a, t, "joined").result = [d.result EXCEPT ![t] = "joined"]
      /\ Settled(d, k, a, t, "joined").inserts = d.inserts
  BY SettledFields
<1>. HIDE DEF Settled
<1>. QED
  BY <1>1, <1>2 DEF Joined, DirtyStates

LEMMA JoinedResult ==
  ASSUME NEW d \in DirtyStates, NEW k \in TickStates, NEW a \in Accounts, NEW t \in Targets
  PROVE  Joined(d, k, a, t).result = [d.result EXCEPT ![t] = "joined"]
<1>1. Settled(d, k, a, t, "joined") \in DirtyStates
  BY SettledType DEF Outcome
<1>2. Settled(d, k, a, t, "joined").result = [d.result EXCEPT ![t] = "joined"]
  BY SettledFields
<1>. HIDE DEF Settled
<1>. QED
  BY <1>1, <1>2 DEF Joined, DirtyStates

LEMMA WarnedFields ==
  ASSUME NEW d \in DirtyStates, NEW a \in Accounts, NEW t \in Targets
  PROVE  Warned(d, a, t).result = d.result /\ Warned(d, a, t).inserts = d.inserts
  BY DEF Warned, DirtyStates

LEMMA AfterSendFields ==
  ASSUME TypeOK, NEW s \in Sessions, NEW a \in Accounts, NEW t \in Targets
  PROVE  /\ AfterSend(s, a, t).result = [Clean.result EXCEPT ![t] = "sent"]
         /\ AfterSend(s, a, t).inserts = {}
<1>1. tick[s] \in TickStates
  BY DEF TypeOK
<1>. QED
  BY <1>1, CleanType, CleanFields, SettledFields DEF AfterSend

-----------------------------------------------------------------------------
(* The invariant.  What the tables say of each other depends on what sessions  *)
(* have loaded or assigned, some of it long ago: so it says what they hold.   *)

\* A join that is not yet written comes with its row, written or added.
JoinsHaveRows(s) ==
    \A t \in Targets :
        dirty[s].result[t] = "joined" => t \in dirty[s].inserts \/ ContactOf[t] \in member

\* A session works on, and settles, targets that were inserted and are due.
HandIsDue(s) ==
    /\ \A t \in Targets : dirty[s].result[t] # "clean" => result[t] # "absent"
    /\ \A t \in tick[s].work : result[t] # "absent" /\ scheduled[t] <= hour

\* A start that is not the first one knows of one that was.
RestartIsStarted(s) == pc[s] = "starting" /\ ~tick[s].first => started[tick[s].campaign]

SessionInv(s) == JoinsHaveRows(s) /\ HandIsDue(s) /\ RestartIsStarted(s)

TargetsInv ==
    \A t \in Targets :
        /\ result[t] = "joined" => ContactOf[t] \in member
        /\ result[t] # "absent" => CampaignOf[t] \in materialized
        /\ served[t] > 0 => result[t] # "absent" /\ scheduled[t] <= hour

\* Nothing but a crash keeps a start from inserting the targets, now or soon.
StartsGoOn ==
    \A c \in Campaigns :
        started[c] /\ crashes = 0 =>
            \/ c \in materialized
            \/ \E s \in Sessions : pc[s] = "inserting" /\ tick[s].campaign = c

TablesInv == TargetsInv /\ StartsGoOn /\ \A s \in Sessions : SessionInv(s)

LEMMA InitTables == Init => TablesInv
  BY CleanFields
     DEF Init, TablesInv, TargetsInv, StartsGoOn, SessionInv, JoinsHaveRows, HandIsDue,
         RestartIsStarted

\* What is never undone.
Grows ==
    /\ member \subseteq member'
    /\ materialized \subseteq materialized'
    /\ \A t \in Targets : result[t] # "absent" => result'[t] # "absent" /\ scheduled'[t] = scheduled[t]
    /\ \A c \in Campaigns : started[c] => started'[c]
    /\ hour \in Nat /\ hour' \in Nat /\ hour <= hour'

LEMMA FlushGrows ==
  ASSUME TypeOK, NEW s \in Sessions, Flush(s)
  PROVE  /\ member \subseteq member'
         /\ \A t \in Targets : result[t] # "absent" => result'[t] # "absent"
<1>1. \A t \in Targets : dirty[s].result[t] # "absent"
  BY DEF TypeOK, DirtyStates, Outcome
<1>. QED
  BY <1>1 DEF Flush

LEMMA NextGrows == TypeOK /\ [Next]_vars => Grows
<1>. SUFFICES ASSUME TypeOK, [Next]_vars PROVE Grows
  OBVIOUS
<1>. USE DEF campaignVars, targetVars, accountVars, sessionVars, ghosts, bounds
<1>1. CASE UNCHANGED <<started, targetVars, hour, materialized>>
  BY <1>1 DEF Grows, TypeOK
<1>2. ASSUME NEW s \in Sessions, CommitStart(s) PROVE Grows
  BY <1>2 DEF CommitStart, Grows, TypeOK, TickStates
<1>3. ASSUME NEW s \in Sessions, Materialize(s) PROVE Grows
  <2>1. UNCHANGED <<started, member, hour>>
    BY <1>3 DEF Materialize
  <2>2. materialized \subseteq materialized'
    BY <1>3 DEF Materialize
  <2>3. \A t \in Targets : result[t] # "absent" => result'[t] # "absent" /\ scheduled'[t] = scheduled[t]
    BY <1>3 DEF Materialize
  <2>. QED
    BY <2>1, <2>2, <2>3 DEF Grows, TypeOK
<1>4. ASSUME NEW s \in Sessions, Record(s) \/ Commit(s) PROVE Grows
  <2>1. Flush(s) /\ UNCHANGED <<started, scheduled, hour, materialized>>
    BY <1>4 DEF Record, Commit
  <2>. QED
    BY <2>1, FlushGrows DEF Grows, TypeOK
<1>5. CASE PassHour
  BY <1>5 DEF PassHour, Grows, TypeOK
<1>6. CASE Surroundings
  BY <1>1, <1>5, <1>6
     DEF Surroundings, OptOut, GiveConsent, SetWilling, StopCampaign, PauseCampaign, SetStatus, Rest
<1>7. ASSUME NEW s \in Sessions, NEW c \in Campaigns,
             LoadForStart(s, c) \/ BeginManual(s, c) \/ BeginSweep(s) \/ PickAccounts(s, c)
      PROVE  Grows
  BY <1>1, <1>7 DEF LoadForStart, BeginManual, BeginSweep, Begin, PickAccounts
<1>8. ASSUME NEW s \in Sessions,
             \/ PickTargets(s) \/ Count(s) \/ CommitFails(s) \/ Crash(s) \/ BeginSweep(s)
             \/ \E outcome \in Outcomes : Act(s, outcome)
      PROVE  Grows
  BY <1>1, <1>8 DEF PickTargets, Count, CommitFails, Crash, BeginSweep, Begin, Act
<1>9. CASE UNCHANGED vars
  BY <1>1, <1>9 DEF vars
<1>. QED
  BY <1>2, <1>3, <1>4, <1>6, <1>7, <1>8, <1>9 DEF Next, StartStep, TickStep

\* What a session holds stays true while others act.
LEMMA OthersHold ==
  ASSUME TypeOK, Grows, NEW s \in Sessions, SessionInv(s),
         dirty'[s] = dirty[s], tick'[s] = tick[s], pc'[s] = pc[s]
  PROVE  SessionInv(s)'
<1>1. tick[s].campaign \in Campaigns /\ tick[s].work \subseteq Targets
  BY DEF TypeOK, TickStates
<1>2. JoinsHaveRows(s)'
  BY DEF SessionInv, JoinsHaveRows, Grows
<1>3. HandIsDue(s)'
  BY <1>1 DEF SessionInv, HandIsDue, Grows, TypeOK
<1>4. RestartIsStarted(s)'
  BY <1>1 DEF SessionInv, RestartIsStarted, Grows
<1>. QED
  BY <1>2, <1>3, <1>4 DEF SessionInv
\* A step of one session: it is enough to look at that one.
LEMMA OneActs ==
  ASSUME TypeOK, Grows, TablesInv, NEW s \in Sessions, SessionInv(s)',
         \A r \in Sessions \ {s} : dirty'[r] = dirty[r] /\ tick'[r] = tick[r] /\ pc'[r] = pc[r]
  PROVE  \A r \in Sessions : SessionInv(r)'
<1>1. ASSUME NEW r \in Sessions \ {s} PROVE SessionInv(r)'
  BY <1>1, OthersHold DEF TablesInv
<1>. QED
  BY <1>1

\* A session that is through holds nothing.
LEMMA ReleaseHolds ==
  ASSUME TypeOK, Grows, TablesInv, NEW s \in Sessions, Release(s)
  PROVE  \A r \in Sessions : SessionInv(r)'
<1>1. /\ dirty'[s] = Clean /\ tick'[s] = NoTick /\ pc'[s] = "idle"
      /\ \A r \in Sessions \ {s} : dirty'[r] = dirty[r] /\ tick'[r] = tick[r] /\ pc'[r] = pc[r]
  BY DEF Release, TypeOK
<1>2. SessionInv(s)'
  BY <1>1, CleanFields DEF SessionInv, JoinsHaveRows, HandIsDue, RestartIsStarted
<1>. QED
  BY <1>1, <1>2, OneActs

\* A session that begins or ends a tick has kept its assignments or written them.
LEMMA TurnHolds ==
  ASSUME TypeOK, Grows, TablesInv, NEW s \in Sessions,
         dirty'[s] \in {dirty[s], Clean}, tick'[s].work \subseteq tick[s].work, pc'[s] # "starting",
         \A r \in Sessions \ {s} : dirty'[r] = dirty[r] /\ tick'[r] = tick[r] /\ pc'[r] = pc[r]
  PROVE  \A r \in Sessions : SessionInv(r)'
<1>1. tick[s].work \subseteq Targets
  BY DEF TypeOK, TickStates
<1>2. SessionInv(s)
  BY DEF TablesInv
<1>3. JoinsHaveRows(s)'
  BY <1>2, CleanFields DEF SessionInv, JoinsHaveRows, Grows
<1>4. HandIsDue(s)'
  BY <1>1, <1>2, CleanFields DEF SessionInv, HandIsDue, Grows, TypeOK
<1>5. SessionInv(s)'
  BY <1>3, <1>4 DEF SessionInv, RestartIsStarted
<1>. QED
  BY <1>5, OneActs

LEMMA SessionsStep ==
  ASSUME TypeOK, TablesInv, [Next]_vars
  PROVE  \A r \in Sessions : SessionInv(r)'
<1>. USE DEF campaignVars, targetVars, accountVars, sessionVars, ghosts, bounds
<1>0. Grows
  BY NextGrows
<1>1. CASE UNCHANGED sessionVars
  BY <1>0, <1>1, OthersHold DEF TablesInv
<1>2. ASSUME NEW s \in Sessions, NEW c \in Campaigns, LoadForStart(s, c)
      PROVE  \A r \in Sessions : SessionInv(r)'
  <2>1. tick'[s] = [tick[s] EXCEPT !.campaign = c, !.first = ~started[c]]
    BY <1>2 DEF LoadForStart, TypeOK
  <2>2. tick'[s].campaign = c /\ tick'[s].first = ~started[c] /\ tick'[s].work = tick[s].work
    BY <2>1 DEF TypeOK, TickStates
  <2>3. /\ UNCHANGED <<campaignVars, targetVars, dirty, hour>>
        /\ \A r \in Sessions \ {s} : dirty'[r] = dirty[r] /\ tick'[r] = tick[r] /\ pc'[r] = pc[r]
    BY <1>2 DEF LoadForStart, TypeOK
  <2>4. JoinsHaveRows(s)' /\ HandIsDue(s)'
    BY <2>2, <2>3 DEF TablesInv, SessionInv, JoinsHaveRows, HandIsDue
  <2>5. RestartIsStarted(s)'
    BY <2>2, <2>3 DEF RestartIsStarted
  <2>. QED
    BY <1>0, <2>3, <2>4, <2>5, OneActs DEF SessionInv
<1>3. ASSUME NEW s \in Sessions, CommitStart(s)
      PROVE  \A r \in Sessions : SessionInv(r)'
  <2>1. CASE tick[s].first
    BY <1>0, <1>3, <2>1, TurnHolds DEF CommitStart, TypeOK
  <2>2. CASE ~tick[s].first
    BY <1>0, <1>3, <2>2, ReleaseHolds DEF CommitStart
  <2>. QED
    BY <2>1, <2>2
<1>4. ASSUME NEW s \in Sessions, Materialize(s) \/ CommitFails(s) \/ Crash(s)
      PROVE  \A r \in Sessions : SessionInv(r)'
  BY <1>0, <1>4, ReleaseHolds DEF Materialize, CommitFails, Crash
<1>5. ASSUME NEW s \in Sessions, NEW cs \in SUBSET Campaigns, Begin(s, cs)
      PROVE  \A r \in Sessions : SessionInv(r)'
  <2>1. tick'[s] = [tick[s] EXCEPT !.todo = cs, !.last = last]
    BY <1>5 DEF Begin, TypeOK
  <2>2. tick'[s].work = tick[s].work
    BY <2>1 DEF TypeOK, TickStates
  <2>. QED
    BY <1>0, <1>5, <2>2, TurnHolds DEF Begin, TypeOK
<1>6. ASSUME NEW s \in Sessions, NEW c \in Campaigns, PickAccounts(s, c)
      PROVE  \A r \in Sessions : SessionInv(r)'
  <2>1. CASE UsableAccounts = {}
    <3>1. EndTick(s, tick[s].todo \ {c}, tick[s].last)
      BY <1>6, <2>1 DEF PickAccounts
    <3>2. tick'[s].work = {}
      BY <3>1, EndTickFields
    <3>. QED
      BY <1>0, <1>6, <2>1, <3>2, TurnHolds DEF PickAccounts, EndTick, TypeOK
  <2>2. CASE UsableAccounts # {}
    <3>1. tick'[s].work = tick[s].work
      BY <1>6, <2>2 DEF PickAccounts, TypeOK, TickStates
    <3>. QED
      BY <1>0, <1>6, <2>2, <3>1, TurnHolds DEF PickAccounts, TypeOK
  <2>. QED
    BY <2>1, <2>2
<1>7. ASSUME NEW s \in Sessions, PickTargets(s)
      PROVE  \A r \in Sessions : SessionInv(r)'
  <2>. DEFINE due == Due(tick[s].campaign)
              refused == {t \in due : ContactOf[t] \notin willing}
  <2>1. /\ UNCHANGED <<targetVars, hour>> /\ pc'[s] = "act"
        /\ tick'[s] = [tick[s] EXCEPT !.work = due \ refused]
        /\ dirty'[s] = [dirty[s] EXCEPT !.result =
                           [t \in Targets |-> IF t \in refused THEN "skipped" ELSE "clean"]]
        /\ \A r \in Sessions \ {s} : dirty'[r] = dirty[r] /\ tick'[r] = tick[r] /\ pc'[r] = pc[r]
    BY <1>7 DEF PickTargets, TypeOK
  <2>2. tick'[s].work = due \ refused
    BY <2>1 DEF TypeOK, TickStates
  <2>3. \A t \in Targets : dirty'[s].result[t] = IF t \in refused THEN "skipped" ELSE "clean"
    BY <2>1 DEF TypeOK, DirtyStates
  <2>4. \A t \in due : t \in Targets /\ result[t] = "queued" /\ scheduled[t] <= hour
    BY DEF Due, Queued
  <2>. HIDE DEF due
  <2>5. JoinsHaveRows(s)' /\ HandIsDue(s)' /\ RestartIsStarted(s)'
    BY <2>1, <2>2, <2>3, <2>4 DEF JoinsHaveRows, HandIsDue, RestartIsStarted
  <2>. QED
    BY <1>0, <2>1, <2>5, OneActs DEF SessionInv
<1>8. ASSUME NEW s \in Sessions, NEW outcome \in Outcomes, Act(s, outcome)
      PROVE  \A r \in Sessions : SessionInv(r)'
  <2>1. PICK a \in Accounts, t \in Targets :
        /\ IsTurn(s, a, t)
        /\ \/ /\ pc'[s] = "commit"
              /\ dirty'[s] = Warned(dirty[s], a, t)
              /\ tick'[s] = tick[s]
           \/ /\ dirty'[s] = Settled(dirty[s], tick[s], a, t, "failed")
              /\ tick'[s] = UsedUp(tick[s], a, t)
              /\ pc'[s] = pc[s]
           \/ /\ dirty'[s] = Joined(dirty[s], tick[s], a, t)
              /\ tick'[s] = UsedUp(tick[s], a, t)
              /\ pc'[s] = pc[s]
           \/ /\ pc'[s] = "record"
              /\ tick'[s] = tick[s] /\ dirty'[s] = dirty[s]
    BY <1>8 DEF Act, TypeOK
  <2>2. UNCHANGED <<targetVars, hour>> /\ pc[s] = "act"
    BY <1>8 DEF Act
  <2>3. \A r \in Sessions \ {s} : dirty'[r] = dirty[r] /\ tick'[r] = tick[r] /\ pc'[r] = pc[r]
    BY <1>8 DEF Act, TypeOK
  <2>4. tick[s] \in TickStates /\ dirty[s] \in DirtyStates
        /\ dirty[s].result \in [Targets -> Outcome \cup {"clean"}]
    BY DEF TypeOK, DirtyStates
  <2>5. result[t] # "absent" /\ SessionInv(s)
    BY <2>1 DEF IsTurn, TablesInv, SessionInv, HandIsDue
  <2>6. tick'[s].work \subseteq tick[s].work
    BY <2>1, <2>4, UsedUpFields
  <2>7. \/ dirty'[s].result = dirty[s].result /\ dirty'[s].inserts = dirty[s].inserts
        \/ dirty'[s].result = [dirty[s].result EXCEPT ![t] = "failed"] /\ dirty'[s].inserts = dirty[s].inserts
        \/ /\ dirty'[s].result = [dirty[s].result EXCEPT ![t] = "joined"]
           /\ dirty'[s].inserts = IF ContactOf[t] \in member THEN dirty[s].inserts
                                  ELSE dirty[s].inserts \cup {t}
    <3>1. CASE dirty'[s] = Warned(dirty[s], a, t)
      BY <2>4, <3>1, WarnedFields
    <3>2. CASE dirty'[s] = Settled(dirty[s], tick[s], a, t, "failed")
      BY <2>4, <3>2, SettledFields
    <3>3. CASE dirty'[s] = Joined(dirty[s], tick[s], a, t)
      <4>1. /\ Joined(dirty[s], tick[s], a, t).result = [dirty[s].result EXCEPT ![t] = "joined"]
            /\ Joined(dirty[s], tick[s], a, t).inserts =
                  IF ContactOf[t] \in member THEN dirty[s].inserts ELSE dirty[s].inserts \cup {t}
        BY <2>4, JoinedFields
      <4>. QED
        BY <3>3, <4>1
    <3>. QED
      BY <2>1, <3>1, <3>2, <3>3
  <2>8. JoinsHaveRows(s)'
    BY <2>2, <2>4, <2>5, <2>7 DEF SessionInv, JoinsHaveRows
  <2>9. HandIsDue(s)'
    BY <2>2, <2>4, <2>5, <2>6, <2>7 DEF SessionInv, HandIsDue
  <2>10. RestartIsStarted(s)'
    BY <2>1, <2>2 DEF RestartIsStarted
  <2>. QED
    BY <1>0, <2>3, <2>8, <2>9, <2>10, OneActs DEF SessionInv
<1>9. ASSUME NEW s \in Sessions, Record(s)
      PROVE  \A r \in Sessions : SessionInv(r)'
  <2>1. PICK a \in Accounts, t \in Targets :
          /\ IsTurn(s, a, t)
          /\ tick'[s] = UsedUp(tick[s], a, t)
          /\ dirty'[s] = AfterSend(s, a, t)
    BY <1>9 DEF Record, TypeOK
  <2>2. pc'[s] = "act" /\ UNCHANGED <<scheduled, hour>>
        /\ \A r \in Sessions \ {s} : dirty'[r] = dirty[r] /\ tick'[r] = tick[r] /\ pc'[r] = pc[r]
    BY <1>9 DEF Record, TypeOK
  <2>3. dirty'[s].result = [Clean.result EXCEPT ![t] = "sent"]
    BY <2>1, AfterSendFields
  <2>4. Clean.result \in [Targets -> {"clean"}]
    BY DEF Clean
  <2>5. \A u \in Targets : dirty'[s].result[u] = IF u = t THEN "sent" ELSE "clean"
    BY <2>3, <2>4
  <2>6. tick'[s].work = tick[s].work \ {t} /\ tick[s].work \subseteq Targets
    <3>1. tick[s] \in TickStates
      BY DEF TypeOK
    <3>2. UsedUp(tick[s], a, t).work = tick[s].work \ {t}
      BY <3>1, UsedUpFields
    <3>. QED
      BY <2>1, <3>1, <3>2 DEF TickStates
  <2>7. t \in tick[s].work /\ HandIsDue(s)
    BY <2>1 DEF IsTurn, TablesInv, SessionInv
  <2>8. \A u \in tick[s].work : result'[u] # "absent" /\ scheduled'[u] <= hour'
    BY <1>0, <2>2, <2>6, <2>7 DEF HandIsDue, Grows
  <2>9. JoinsHaveRows(s)' /\ RestartIsStarted(s)'
    BY <2>2, <2>5 DEF JoinsHaveRows, RestartIsStarted
  <2>10. HandIsDue(s)'
    BY <2>5, <2>6, <2>7, <2>8 DEF HandIsDue
  <2>. QED
    BY <1>0, <2>2, <2>9, <2>10, OneActs DEF SessionInv
<1>10. ASSUME NEW s \in Sessions, Count(s)
       PROVE  \A r \in Sessions : SessionInv(r)'
  <2>1. PICK state : dirty'[s] = [dirty[s] EXCEPT !.campaign = state]
    BY <1>10 DEF Count, TypeOK
  <2>2. dirty'[s].result = dirty[s].result /\ dirty'[s].inserts = dirty[s].inserts
    BY <2>1 DEF TypeOK, DirtyStates
  <2>3. /\ UNCHANGED <<targetVars, tick, hour>> /\ pc'[s] = "commit"
        /\ \A r \in Sessions \ {s} : dirty'[r] = dirty[r] /\ tick'[r] = tick[r] /\ pc'[r] = pc[r]
    BY <1>10 DEF Count, TypeOK
  <2>4. JoinsHaveRows(s)' /\ HandIsDue(s)' /\ RestartIsStarted(s)'
    BY <2>2, <2>3 DEF TablesInv, SessionInv, JoinsHaveRows, HandIsDue, RestartIsStarted
  <2>. QED
    BY <1>0, <2>3, <2>4, OneActs DEF SessionInv
<1>11. ASSUME NEW s \in Sessions, Commit(s)
       PROVE  \A r \in Sessions : SessionInv(r)'
  <2>1. tick'[s].work = {}
    BY <1>11, EndTickFields DEF Commit
  <2>. QED
    BY <1>0, <1>11, <2>1, TurnHolds DEF Commit, EndTick, TypeOK
<1>12. CASE Surroundings
  BY <1>1, <1>12
     DEF Surroundings, OptOut, GiveConsent, SetWilling, StopCampaign, PauseCampaign, SetStatus,
         Rest, PassHour
<1>13. CASE UNCHANGED vars
  BY <1>1, <1>13 DEF vars
<1>14. ASSUME NEW s \in Sessions, BeginSweep(s) \/ \E c \in Campaigns : BeginManual(s, c)
       PROVE  \A r \in Sessions : SessionInv(r)'
  BY <1>5, <1>14 DEF BeginSweep, BeginManual
<1>. QED
  BY <1>2, <1>3, <1>4, <1>6, <1>7, <1>8, <1>9, <1>10, <1>11, <1>12, <1>13, <1>14
     DEF Next, StartStep, TickStep

LEMMA TargetsStep ==
  ASSUME TypeOK, TablesInv, [Next]_vars
  PROVE  TargetsInv'
<1>. USE DEF campaignVars, targetVars, accountVars, sessionVars, ghosts, bounds
<1>0. Grows
  BY NextGrows
<1>1. CASE UNCHANGED <<result, served>>
  BY <1>0, <1>1 DEF TablesInv, TargetsInv, Grows, TypeOK
<1>2. ASSUME NEW s \in Sessions, Materialize(s) PROVE TargetsInv'
  <2>1. UNCHANGED <<member, served, hour>>
    BY <1>2 DEF Materialize
  <2>2. \A t \in Targets : \/ result'[t] = result[t]
                           \/ result'[t] = "queued" /\ CampaignOf[t] \in materialized'
    BY <1>2 DEF Materialize
  <2>. QED
    BY <1>0, <2>1, <2>2 DEF TablesInv, TargetsInv, Grows
<1>3. ASSUME NEW s \in Sessions, Record(s) \/ Commit(s) PROVE TargetsInv'
  <2>1. Flush(s) /\ UNCHANGED <<scheduled, served, hour, materialized>>
    BY <1>3 DEF Record, Commit
  <2>2. SessionInv(s)
    BY DEF TablesInv
  <2>3. ASSUME NEW t \in Targets, dirty[s].result[t] = "clean" PROVE result'[t] = result[t]
    BY <2>1, <2>3 DEF Flush
  <2>4. ASSUME NEW t \in Targets, dirty[s].result[t] # "clean"
        PROVE  /\ result[t] # "absent"
               /\ result'[t] = "joined" => ContactOf[t] \in member'
    BY <2>1, <2>2, <2>4 DEF Flush, SessionInv, JoinsHaveRows, HandIsDue
  <2>. QED
    BY <1>0, <2>1, <2>3, <2>4 DEF TablesInv, TargetsInv, Grows
<1>4. ASSUME NEW s \in Sessions, NEW outcome \in Outcomes, Act(s, outcome) PROVE TargetsInv'
  <2>1. PICK t \in Targets :
          /\ t \in tick[s].work
          /\ served' = served \/ served' = [served EXCEPT ![t] = @ + 1]
    BY <1>4 DEF Act, IsTurn
  <2>2. UNCHANGED <<targetVars, hour, materialized>>
    BY <1>4 DEF Act
  <2>3. result[t] # "absent" /\ scheduled[t] <= hour
    BY <2>1 DEF TablesInv, SessionInv, HandIsDue
  <2>. QED
    BY <2>1, <2>2, <2>3 DEF TablesInv, TargetsInv, TypeOK
<1>5. CASE Surroundings
  BY <1>1, <1>5
     DEF Surroundings, OptOut, GiveConsent, SetWilling, StopCampaign, PauseCampaign, SetStatus,
         Rest, PassHour
<1>6. ASSUME NEW s \in Sessions, NEW c \in Campaigns,
             LoadForStart(s, c) \/ BeginManual(s, c) \/ PickAccounts(s, c)
      PROVE  TargetsInv'
  BY <1>1, <1>6 DEF LoadForStart, BeginManual, Begin, PickAccounts
<1>7. ASSUME NEW s \in Sessions,
             \/ CommitStart(s) \/ BeginSweep(s) \/ PickTargets(s) \/ Count(s)
             \/ CommitFails(s) \/ Crash(s)
      PROVE  TargetsInv'
  BY <1>1, <1>7 DEF CommitStart, BeginSweep, Begin, PickTargets, Count, CommitFails, Crash
<1>8. CASE UNCHANGED vars
  BY <1>1, <1>8 DEF vars
<1>. QED
  BY <1>2, <1>3, <1>4, <1>5, <1>6, <1>7, <1>8 DEF Next, StartStep, TickStep

\* The steps that leave every start where it is.
LEMMA OthersGoOn ==
  ASSUME TypeOK, Grows, StartsGoOn, started' = started, crashes' = crashes,
         \A r \in Sessions : pc[r] = "inserting" =>
             pc'[r] = "inserting" /\ tick'[r].campaign = tick[r].campaign
  PROVE  StartsGoOn'
  BY DEF StartsGoOn, Grows

LEMMA StartsStep ==
  ASSUME TypeOK, TablesInv, [Next]_vars
  PROVE  StartsGoOn'
<1>. USE DEF campaignVars, targetVars, accountVars, sessionVars, ghosts, bounds
<1>0. Grows /\ StartsGoOn
  BY NextGrows DEF TablesInv
<1>1. ASSUME NEW s \in Sessions, CommitStart(s) PROVE StartsGoOn'
  <2>. DEFINE c == tick[s].campaign
  <2>1. /\ pc[s] = "starting" /\ UNCHANGED <<materialized, crashes>> /\ c \in Campaigns
        /\ \A d \in Campaigns : started'[d] => started[d] \/ d = c
        /\ \A r \in Sessions \ {s} : tick'[r] = tick[r] /\ pc'[r] = pc[r]
    BY <1>1 DEF CommitStart, Release, TypeOK, TickStates
  <2>2. CASE tick[s].first
    <3>1. pc'[s] = "inserting" /\ tick' = tick
      BY <1>1, <2>2 DEF CommitStart, TypeOK
    <3>. QED
      BY <1>0, <2>1, <3>1 DEF StartsGoOn
  <2>3. CASE ~tick[s].first
    <3>1. started[c]
      BY <2>1, <2>3 DEF TablesInv, SessionInv, RestartIsStarted
    <3>. QED
      BY <1>0, <2>1, <3>1 DEF StartsGoOn
  <2>. QED
    BY <2>2, <2>3
<1>2. ASSUME NEW s \in Sessions, Materialize(s) PROVE StartsGoOn'
  <2>. DEFINE c == tick[s].campaign
  <2>1. /\ UNCHANGED <<started, crashes>> /\ c \in Campaigns
        /\ \A r \in Sessions \ {s} : tick'[r] = tick[r] /\ pc'[r] = pc[r]
    BY <1>2 DEF Materialize, Release, TypeOK, TickStates
  <2>2. c \in materialized'
    <3>1. \/ c \in materialized'
          \/ \E t \in Targets : CampaignOf[t] = c /\ result[t] # "absent" /\ materialized' = materialized
      BY <1>2 DEF Materialize
    <3>. QED
      BY <3>1 DEF TablesInv, TargetsInv
  <2>. QED
    BY <1>0, <2>1, <2>2 DEF StartsGoOn, Grows
<1>3. ASSUME NEW s \in Sessions, Crash(s) PROVE StartsGoOn'
  BY <1>3 DEF Crash, StartsGoOn, TypeOK
<1>4. ASSUME NEW s \in Sessions, pc[s] # "inserting", UNCHANGED <<started, crashes>>,
             \A r \in Sessions \ {s} : tick'[r] = tick[r] /\ pc'[r] = pc[r]
      PROVE  StartsGoOn'
  BY <1>0, <1>4, OthersGoOn
<1>5. ASSUME NEW s \in Sessions, NEW c \in Campaigns,
             LoadForStart(s, c) \/ BeginManual(s, c) \/ PickAccounts(s, c)
      PROVE  StartsGoOn'
  <2>1. UNCHANGED <<started, crashes>> /\ pc[s] # "inserting"
    BY <1>5 DEF LoadForStart, BeginManual, Begin, PickAccounts
  <2>2. \A r \in Sessions \ {s} : tick'[r] = tick[r] /\ pc'[r] = pc[r]
    BY <1>5 DEF LoadForStart, BeginManual, Begin, PickAccounts, EndTick, TypeOK
  <2>. QED
    BY <1>4, <2>1, <2>2
<1>6. ASSUME NEW s \in Sessions, BeginSweep(s) \/ PickTargets(s) \/ Count(s) \/ CommitFails(s)
      PROVE  StartsGoOn'
  <2>1. UNCHANGED <<started, crashes>> /\ pc[s] # "inserting"
    BY <1>6 DEF BeginSweep, Begin, PickTargets, Count, CommitFails
  <2>2. \A r \in Sessions \ {s} : tick'[r] = tick[r] /\ pc'[r] = pc[r]
    BY <1>6 DEF BeginSweep, Begin, PickTargets, Count, CommitFails, Release, TypeOK
  <2>. QED
    BY <1>4, <2>1, <2>2
<1>7. ASSUME NEW s \in Sessions, Record(s) \/ Commit(s) \/ \E outcome \in Outcomes : Act(s, outcome)
      PROVE  StartsGoOn'
  <2>1. UNCHANGED <<started, crashes>> /\ pc[s] # "inserting"
    BY <1>7 DEF Record, Commit, Act
  <2>2. CASE \E outcome \in Outcomes : Act(s, outcome)
    <3>1. \A r \in Sessions \ {s} : tick'[r] = tick[r] /\ pc'[r] = pc[r]
      BY <2>2 DEF Act, TypeOK
    <3>. QED
      BY <1>4, <2>1, <3>1
  <2>3. CASE Record(s) \/ Commit(s)
    <3>1. \A r \in Sessions \ {s} : tick'[r] = tick[r] /\ pc'[r] = pc[r]
      BY <2>3 DEF Record, Commit, EndTick, TypeOK
    <3>. QED
      BY <1>4, <2>1, <3>1
  <2>. QED
    BY <1>7, <2>2, <2>3
<1>8. CASE UNCHANGED <<started, sessionVars, crashes>>
  BY <1>0, <1>8, OthersGoOn
<1>9. CASE Surroundings
  BY <1>8, <1>9
     DEF Surroundings, OptOut, GiveConsent, SetWilling, StopCampaign, PauseCampaign, SetStatus,
         Rest, PassHour
<1>10. CASE UNCHANGED vars
  BY <1>8, <1>10 DEF vars
<1>. QED
  BY <1>1, <1>2, <1>3, <1>5, <1>6, <1>7, <1>9, <1>10 DEF Next, StartStep, TickStep

LEMMA TablesAlways == Spec => [](TypeOK /\ TablesInv)
<1>1. Init => TypeOK /\ TablesInv
  BY InitType, InitTables
<1>2. TypeOK /\ TablesInv /\ [Next]_vars => (TypeOK /\ TablesInv)'
  BY NextType, SessionsStep, TargetsStep, StartsStep DEF TablesInv
<1>. QED
  BY <1>1, <1>2, PTL DEF Spec

-----------------------------------------------------------------------------

\* A target reported as joined has its membership row, whichever sessions overlap,
\* die or lose the insert (campaigns.py:268-301).
THEOREM JoinedAreMembers == Spec => []JoinedIsMember
<1>1. TypeOK /\ TablesInv => JoinedIsMember
  BY DEF TablesInv, TargetsInv, JoinedIsMember
<1>. QED
  BY <1>1, TablesAlways, PTL

\* A started campaign has its targets, but for a start that is still inserting them
\* or a crash, however many requests start it at once (campaigns.py:181-204).
THEOREM StartedAreMaterialized == Spec => []StartedIsMaterialized
<1>1. TypeOK /\ TablesInv => StartedIsMaterialized
  BY DEF TablesInv, StartsGoOn, StartedIsMaterialized
<1>. QED
  BY <1>1, TablesAlways, PTL
-----------------------------------------------------------------------------
(* The order of a drip.  Steps are inserted together and loaded together, so a *)
(* session that holds a later step holds or has tried every earlier one.       *)

Earlier(t, u) ==
    CampaignOf[t] = CampaignOf[u] /\ ContactOf[t] = ContactOf[u] /\ Offset[t] < Offset[u]

\* What a session settles it has tried, its work lacks no earlier step but tried ones,
\* and the step it is recording is tried already.
SettlesTried(s) == \A t \in Targets : dirty[s].result[t] # "clean" => t \in tried

WorkInOrder(s) ==
    \A u \in tick[s].work, t \in Targets : Earlier(t, u) => t \in tried \cup tick[s].work

RecordsTried(s) ==
    pc[s] = "record" =>
        \A t \in tick[s].work : (\A u \in tick[s].work : Before(t, u)) => t \in tried

DripSession(s) == SettlesTried(s) /\ WorkInOrder(s) /\ RecordsTried(s)

StepsInv ==
    /\ \A t \in Targets : result[t] \notin {"absent", "queued"} => t \in tried
    /\ \A t, u \in Targets :
           Earlier(t, u) /\ result[u] # "absent" => result[t] # "absent" /\ scheduled[t] < scheduled[u]
    /\ DripInOrder

DripInv == StepsInv /\ \A s \in Sessions : DripSession(s)

LEMMA InitDrip == Init => DripInv
  BY CleanFields
     DEF Init, DripInv, StepsInv, DripInOrder, DripSession, SettlesTried, WorkInOrder, RecordsTried

LEMMA TriedGrows == [Next]_vars => tried \subseteq tried'
<1>. SUFFICES ASSUME [Next]_vars PROVE tried \subseteq tried'
  OBVIOUS
<1>. USE DEF ghosts
<1>1. CASE Surroundings
  BY <1>1
     DEF Surroundings, OptOut, GiveConsent, SetWilling, StopCampaign, PauseCampaign, SetStatus,
         Rest, PassHour
<1>2. ASSUME NEW s \in Sessions, NEW outcome \in Outcomes, Act(s, outcome)
      PROVE  tried \subseteq tried'
  BY <1>2 DEF Act
<1>3. ASSUME NEW s \in Sessions, PickTargets(s) PROVE tried \subseteq tried'
  BY <1>3 DEF PickTargets
<1>4. ASSUME NEW s \in Sessions, NEW c \in Campaigns,
             LoadForStart(s, c) \/ BeginManual(s, c) \/ PickAccounts(s, c)
      PROVE  tried \subseteq tried'
  BY <1>4 DEF LoadForStart, BeginManual, Begin, PickAccounts
<1>5. ASSUME NEW s \in Sessions,
             \/ StartStep(s) \/ BeginSweep(s) \/ Record(s) \/ Count(s) \/ Commit(s)
             \/ CommitFails(s) \/ Crash(s)
      PROVE  tried \subseteq tried'
  BY <1>5 DEF StartStep, CommitStart, Materialize, BeginSweep, Begin, Record, Count, Commit,
              CommitFails, Crash
<1>6. CASE UNCHANGED vars
  BY <1>6 DEF vars
<1>. QED
  BY <1>1, <1>2, <1>3, <1>4, <1>5, <1>6 DEF Next, TickStep

\* What a session holds stays in order while others act.
LEMMA DripOthers ==
  ASSUME TypeOK, Grows, tried \subseteq tried', NEW s \in Sessions, SessionInv(s), DripSession(s),
         dirty'[s] = dirty[s], tick'[s] = tick[s], pc'[s] = pc[s]
  PROVE  DripSession(s)'
<1>1. tick[s].work \subseteq Targets
  BY DEF TypeOK, TickStates
<1>2. \A t \in tick[s].work : scheduled'[t] = scheduled[t]
  BY <1>1 DEF SessionInv, HandIsDue, Grows
<1>3. SettlesTried(s)' /\ WorkInOrder(s)'
  BY DEF DripSession, SettlesTried, WorkInOrder, Earlier
<1>4. RecordsTried(s)'
  BY <1>2 DEF DripSession, RecordsTried, Before
<1>. QED
  BY <1>3, <1>4 DEF DripSession

LEMMA DripOne ==
  ASSUME TypeOK, Grows, tried \subseteq tried', TablesInv, DripInv,
         NEW s \in Sessions, DripSession(s)',
         \A r \in Sessions \ {s} : dirty'[r] = dirty[r] /\ tick'[r] = tick[r] /\ pc'[r] = pc[r]
  PROVE  \A r \in Sessions : DripSession(r)'
<1>1. ASSUME NEW r \in Sessions \ {s} PROVE DripSession(r)'
  BY <1>1, DripOthers DEF TablesInv, DripInv
<1>. QED
  BY <1>1

\* A session that drops its work or keeps it, and its assignments or not.
LEMMA DripTurn ==
  ASSUME TypeOK, Grows, tried \subseteq tried', TablesInv, DripInv, NEW s \in Sessions,
         dirty'[s].result \in {dirty[s].result, Clean.result}, tick'[s].work \in {tick[s].work, {}},
         pc'[s] # "record",
         \A r \in Sessions \ {s} : dirty'[r] = dirty[r] /\ tick'[r] = tick[r] /\ pc'[r] = pc[r]
  PROVE  \A r \in Sessions : DripSession(r)'
<1>1. DripSession(s)
  BY DEF DripInv
<1>2. SettlesTried(s)'
  BY <1>1, CleanFields DEF DripSession, SettlesTried
<1>3. WorkInOrder(s)'
  BY <1>1 DEF DripSession, WorkInOrder, Earlier
<1>. QED
  BY <1>2, <1>3, DripOne DEF DripSession, RecordsTried

LEMMA DripRelease ==
  ASSUME TypeOK, Grows, tried \subseteq tried', TablesInv, DripInv, NEW s \in Sessions, Release(s)
  PROVE  \A r \in Sessions : DripSession(r)'
<1>1. /\ dirty'[s] = Clean /\ tick'[s] = NoTick /\ pc'[s] = "idle"
      /\ \A r \in Sessions \ {s} : dirty'[r] = dirty[r] /\ tick'[r] = tick[r] /\ pc'[r] = pc[r]
  BY DEF Release, TypeOK
<1>. QED
  BY <1>1, CleanFields, DripTurn

\* The target whose turn it is is the only one.
LEMMA OneTurn ==
  ASSUME TypeOK, NEW s \in Sessions, NEW t \in tick[s].work, NEW u \in tick[s].work,
         Before(t, u), Before(u, t)
  PROVE  t = u
<1>1. t \in Targets /\ u \in Targets
  BY DEF TypeOK, TickStates
<1>2. scheduled[t] \in Nat /\ scheduled[u] \in Nat /\ t \in Nat /\ u \in Nat
  BY <1>1, CampaignsAssumption DEF TypeOK
<1>. QED
  BY <1>2 DEF Before

LEMMA DripSessionsStep ==
  ASSUME TypeOK, TablesInv, DripInv, [Next]_vars
  PROVE  \A r \in Sessions : DripSession(r)'
<1>. USE DEF campaignVars, targetVars, accountVars, sessionVars, ghosts, bounds
<1>0. Grows /\ tried \subseteq tried'
  BY NextGrows, TriedGrows
<1>1. CASE UNCHANGED sessionVars
  BY <1>0, <1>1, DripOthers DEF TablesInv, DripInv
<1>2. ASSUME NEW s \in Sessions, NEW c \in Campaigns, LoadForStart(s, c)
      PROVE  \A r \in Sessions : DripSession(r)'
  <2>1. tick'[s] = [tick[s] EXCEPT !.campaign = c, !.first = ~started[c]]
    BY <1>2 DEF LoadForStart, TypeOK
  <2>2. tick'[s].work = tick[s].work
    BY <2>1 DEF TypeOK, TickStates
  <2>. QED
    BY <1>0, <1>2, <2>2, DripTurn DEF LoadForStart, TypeOK
<1>3. ASSUME NEW s \in Sessions, CommitStart(s)
      PROVE  \A r \in Sessions : DripSession(r)'
  <2>1. CASE tick[s].first
    BY <1>0, <1>3, <2>1, DripTurn DEF CommitStart, TypeOK
  <2>2. CASE ~tick[s].first
    BY <1>0, <1>3, <2>2, DripRelease DEF CommitStart
  <2>. QED
    BY <2>1, <2>2
<1>4. ASSUME NEW s \in Sessions, Materialize(s) \/ CommitFails(s) \/ Crash(s)
      PROVE  \A r \in Sessions : DripSession(r)'
  BY <1>0, <1>4, DripRelease DEF Materialize, CommitFails, Crash
<1>5. ASSUME NEW s \in Sessions, NEW cs \in SUBSET Campaigns, Begin(s, cs)
      PROVE  \A r \in Sessions : DripSession(r)'
  <2>1. tick'[s] = [tick[s] EXCEPT !.todo = cs, !.last = last]
    BY <1>5 DEF Begin, TypeOK
  <2>2. tick'[s].work = tick[s].work
    BY <2>1 DEF TypeOK, TickStates
  <2>. QED
    BY <1>0, <1>5, <2>2, DripTurn DEF Begin, TypeOK
<1>6. ASSUME NEW s \in Sessions, NEW c \in Campaigns, PickAccounts(s, c)
      PROVE  \A r \in Sessions : DripSession(r)'
  <2>1. CASE UsableAccounts = {}
    <3>1. EndTick(s, tick[s].todo \ {c}, tick[s].last)
      BY <1>6, <2>1 DEF PickAccounts
    <3>2. tick'[s].work = {}
      BY <3>1, EndTickFields
    <3>. QED
      BY <1>0, <1>6, <2>1, <3>2, DripTurn DEF PickAccounts, EndTick, TypeOK
  <2>2. CASE UsableAccounts # {}
    <3>1. tick'[s].work = tick[s].work
      BY <1>6, <2>2 DEF PickAccounts, TypeOK, TickStates
    <3>. QED
      BY <1>0, <1>6, <2>2, <3>1, DripTurn DEF PickAccounts, TypeOK
  <2>. QED
    BY <2>1, <2>2
<1>7. ASSUME NEW s \in Sessions, PickTargets(s)
      PROVE  \A r \in Sessions : DripSession(r)'
  <2>. DEFINE due == Due(tick[s].campaign)
              refused == {t \in due : ContactOf[t] \notin willing}
  <2>1. /\ pc'[s] = "act" /\ tried' = tried \cup refused
        /\ tick'[s] = [tick[s] EXCEPT !.work = due \ refused]
        /\ dirty'[s] = [dirty[s] EXCEPT !.result =
                           [t \in Targets |-> IF t \in refused THEN "skipped" ELSE "clean"]]
        /\ \A r \in Sessions \ {s} : dirty'[r] = dirty[r] /\ tick'[r] = tick[r] /\ pc'[r] = pc[r]
    BY <1>7 DEF PickTargets, TypeOK
  <2>2. tick'[s].work = due \ refused
    BY <2>1 DEF TypeOK, TickStates
  <2>3. \A t \in Targets : dirty'[s].result[t] = IF t \in refused THEN "skipped" ELSE "clean"
    BY <2>1 DEF TypeOK, DirtyStates
  <2>4. ASSUME NEW u \in due \ refused, NEW t \in Targets, Earlier(t, u)
        PROVE  t \in tried \cup (due \ refused)
    <3>1. /\ u \in Targets /\ CampaignOf[u] = tick[s].campaign
          /\ result[u] = "queued" /\ scheduled[u] <= hour
      BY DEF Due, Queued
    <3>2. result[t] # "absent" /\ scheduled[t] < scheduled[u]
      BY <2>4, <3>1 DEF DripInv, StepsInv
    <3>3. CampaignOf[t] = tick[s].campaign /\ ContactOf[t] = ContactOf[u]
      BY <2>4, <3>1 DEF Earlier
    <3>4. scheduled[t] <= hour
      BY <3>1, <3>2 DEF TypeOK
    <3>5. CASE result[t] = "queued"
      BY <3>3, <3>4, <3>5 DEF Due, Queued
    <3>6. CASE result[t] # "queued"
      BY <3>2, <3>6 DEF DripInv, StepsInv
    <3>. QED
      BY <3>5, <3>6
  <2>5. SettlesTried(s)' /\ WorkInOrder(s)' /\ RecordsTried(s)'
    BY <2>1, <2>2, <2>3, <2>4 DEF SettlesTried, WorkInOrder, RecordsTried, Earlier
  <2>. QED
    BY <1>0, <2>1, <2>5, DripOne DEF DripSession
<1>8. ASSUME NEW s \in Sessions, NEW outcome \in Outcomes, Act(s, outcome)
      PROVE  \A r \in Sessions : DripSession(r)'
  <2>1. PICK a \in Accounts, t \in Targets :
        /\ IsTurn(s, a, t)
        /\ \/ /\ pc'[s] = "commit"
              /\ dirty'[s] = Warned(dirty[s], a, t)
              /\ tick'[s] = tick[s]
           \/ /\ dirty'[s] = Settled(dirty[s], tick[s], a, t, "failed")
              /\ tick'[s] = UsedUp(tick[s], a, t)
              /\ pc'[s] = pc[s] /\ t \in tried'
           \/ /\ dirty'[s] = Joined(dirty[s], tick[s], a, t)
              /\ tick'[s] = UsedUp(tick[s], a, t)
              /\ pc'[s] = pc[s] /\ t \in tried'
           \/ /\ pc'[s] = "record" /\ t \in tried'
              /\ tick'[s] = tick[s] /\ dirty'[s] = dirty[s]
    BY <1>8, CampaignsAssumption DEF Act, TypeOK
  <2>2. pc[s] = "act" /\ UNCHANGED targetVars
        /\ \A r \in Sessions \ {s} : dirty'[r] = dirty[r] /\ tick'[r] = tick[r] /\ pc'[r] = pc[r]
    BY <1>8 DEF Act, TypeOK
  <2>3. tick[s] \in TickStates /\ dirty[s] \in DirtyStates
        /\ dirty[s].result \in [Targets -> Outcome \cup {"clean"}] /\ DripSession(s)
    BY DEF TypeOK, DirtyStates, DripInv
  <2>4. CASE dirty'[s] = Warned(dirty[s], a, t) /\ tick'[s] = tick[s] /\ pc'[s] = "commit"
    BY <1>0, <2>2, <2>3, <2>4, WarnedFields, DripTurn
  <2>5. ASSUME NEW state, dirty'[s].result = [dirty[s].result EXCEPT ![t] = state],
               tick'[s] = UsedUp(tick[s], a, t), pc'[s] = pc[s], t \in tried'
        PROVE  \A r \in Sessions : DripSession(r)'
    <3>1. tick'[s].work = tick[s].work \ {t}
      BY <2>3, <2>5, UsedUpFields
    <3>2. SettlesTried(s)'
      BY <1>0, <2>3, <2>5 DEF DripSession, SettlesTried
    <3>3. WorkInOrder(s)' /\ RecordsTried(s)'
      BY <1>0, <2>2, <2>3, <2>5, <3>1 DEF DripSession, WorkInOrder, RecordsTried, Earlier
    <3>. QED
      BY <1>0, <2>2, <3>2, <3>3, DripOne DEF DripSession
  <2>6. CASE pc'[s] = "record" /\ t \in tried' /\ tick'[s] = tick[s] /\ dirty'[s] = dirty[s]
    <3>1. SettlesTried(s)' /\ WorkInOrder(s)'
      BY <1>0, <2>3, <2>6 DEF DripSession, SettlesTried, WorkInOrder, Earlier
    <3>2. t \in tick[s].work /\ \A u \in tick[s].work : Before(t, u)
      BY <2>1 DEF IsTurn
    <3>3. RecordsTried(s)'
      BY <2>2, <2>6, <3>2, OneTurn DEF RecordsTried, Before
    <3>. QED
      BY <1>0, <2>2, <3>1, <3>3, DripOne DEF DripSession
  <2>7. CASE dirty'[s] = Settled(dirty[s], tick[s], a, t, "failed")
             /\ tick'[s] = UsedUp(tick[s], a, t) /\ pc'[s] = pc[s] /\ t \in tried'
    <3>1. dirty'[s].result = [dirty[s].result EXCEPT ![t] = "failed"]
      BY <2>3, <2>7, SettledFields
    <3>. QED
      BY <2>5, <2>7, <3>1
  <2>8. CASE dirty'[s] = Joined(dirty[s], tick[s], a, t)
             /\ tick'[s] = UsedUp(tick[s], a, t) /\ pc'[s] = pc[s] /\ t \in tried'
    <3>1. dirty'[s].result = [dirty[s].result EXCEPT ![t] = "joined"]
      <4>1. Joined(dirty[s], tick[s], a, t).result = [dirty[s].result EXCEPT ![t] = "joined"]
        BY <2>3, JoinedResult
      <4>. QED
        BY <2>8, <4>1
    <3>. QED
      BY <2>5, <2>8, <3>1
  <2>. QED
    BY <2>1, <2>4, <2>6, <2>7, <2>8
<1>9. ASSUME NEW s \in Sessions, Record(s)
      PROVE  \A r \in Sessions : DripSession(r)'
  <2>1. PICK a \in Accounts, t \in Targets :
          /\ IsTurn(s, a, t)
          /\ tick'[s] = UsedUp(tick[s], a, t)
          /\ dirty'[s] = AfterSend(s, a, t)
    BY <1>9 DEF Record, TypeOK
  <2>2. pc[s] = "record" /\ pc'[s] = "act"
        /\ \A r \in Sessions \ {s} : dirty'[r] = dirty[r] /\ tick'[r] = tick[r] /\ pc'[r] = pc[r]
    BY <1>9 DEF Record, TypeOK
  <2>3. tick[s] \in TickStates /\ DripSession(s)
    BY DEF TypeOK, DripInv
  <2>4. t \in tried
    BY <2>1, <2>2, <2>3 DEF IsTurn, DripSession, RecordsTried
  <2>5. \A u \in Targets : dirty'[s].result[u] = IF u = t THEN "sent" ELSE "clean"
    <3>1. dirty'[s].result = [Clean.result EXCEPT ![t] = "sent"]
      BY <2>1, AfterSendFields
    <3>2. Clean.result \in [Targets -> {"clean"}]
      BY DEF Clean
    <3>. QED
      BY <3>1, <3>2
  <2>6. tick'[s].work = tick[s].work \ {t}
    BY <2>1, <2>3, UsedUpFields
  <2>7. SettlesTried(s)' /\ RecordsTried(s)'
    BY <1>0, <2>2, <2>4, <2>5 DEF SettlesTried, RecordsTried
  <2>8. WorkInOrder(s)'
    BY <1>0, <2>3, <2>4, <2>6 DEF DripSession, WorkInOrder, Earlier
  <2>. QED
    BY <1>0, <2>2, <2>7, <2>8, DripOne DEF DripSession
<1>10. ASSUME NEW s \in Sessions, Count(s)
       PROVE  \A r \in Sessions : DripSession(r)'
  <2>1. PICK state : dirty'[s] = [dirty[s] EXCEPT !.campaign = state]
    BY <1>10 DEF Count, TypeOK
  <2>2. dirty'[s].result = dirty[s].result
    BY <2>1 DEF TypeOK, DirtyStates
  <2>. QED
    BY <1>0, <1>10, <2>2, DripTurn DEF Count, TypeOK
<1>11. ASSUME NEW s \in Sessions, Commit(s)
       PROVE  \A r \in Sessions : DripSession(r)'
  <2>1. tick'[s].work = {}
    BY <1>11, EndTickFields DEF Commit
  <2>. QED
    BY <1>0, <1>11, <2>1, DripTurn DEF Commit, EndTick, TypeOK
<1>12. CASE Surroundings
  BY <1>1, <1>12
     DEF Surroundings, OptOut, GiveConsent, SetWilling, StopCampaign, PauseCampaign, SetStatus,
         Rest, PassHour
<1>13. CASE UNCHANGED vars
  BY <1>1, <1>13 DEF vars
<1>14. ASSUME NEW s \in Sessions, BeginSweep(s) \/ \E c \in Campaigns : BeginManual(s, c)
       PROVE  \A r \in Sessions : DripSession(r)'
  BY <1>5, <1>14 DEF BeginSweep, BeginManual
<1>. QED
  BY <1>2, <1>3, <1>4, <1>6, <1>7, <1>8, <1>9, <1>10, <1>11, <1>12, <1>13, <1>14
     DEF Next, StartStep, TickStep

LEMMA StepsStep ==
  ASSUME TypeOK, TablesInv, DripInv, [Next]_vars
  PROVE  StepsInv'
<1>. USE DEF campaignVars, targetVars, accountVars, sessionVars, ghosts, bounds
<1>0. StepsInv /\ tried \subseteq tried'
  BY TriedGrows DEF DripInv
<1>1. CASE UNCHANGED <<result, scheduled, served>>
  BY <1>0, <1>1 DEF StepsInv, DripInOrder, Earlier
<1>2. ASSUME NEW s \in Sessions, Materialize(s) PROVE StepsInv'
  <2>1. served' = served
    BY <1>2 DEF Materialize
  <2>2. PICK fresh \in SUBSET Targets :
          /\ \A t \in fresh : /\ result[t] = "absent" /\ result'[t] = "queued"
                              /\ scheduled'[t] = hour + Offset[t]
          /\ \A t \in Targets \ fresh : result'[t] = result[t] /\ scheduled'[t] = scheduled[t]
          /\ \A t, u \in Targets : Earlier(t, u) => (t \in fresh <=> u \in fresh)
    <3>. DEFINE new == {t \in Targets : /\ CampaignOf[t] = tick[s].campaign
                                        /\ ContactOf[t] \in Segment(tick[s].campaign)}
    <3>1. CASE \A t \in new : result[t] = "absent"
      <4>1. /\ result' = [t \in Targets |-> IF t \in new THEN "queued" ELSE result[t]]
            /\ scheduled' = [t \in Targets |-> IF t \in new THEN hour + Offset[t] ELSE scheduled[t]]
        BY <1>2, <3>1 DEF Materialize
      <4>2. \A t, u \in Targets : Earlier(t, u) => (t \in new <=> u \in new)
        BY DEF Earlier
      <4>. HIDE DEF new
      <4>3. new \in SUBSET Targets
        BY DEF new
      <4>. QED
        BY <3>1, <4>1, <4>2, <4>3
    <3>2. CASE ~ \A t \in new : result[t] = "absent"
      <4>1. UNCHANGED <<result, scheduled>>
        BY <1>2, <3>2 DEF Materialize
      <4>. WITNESS {} \in SUBSET Targets
      <4>. QED
        BY <4>1
    <3>. QED
      BY <3>1, <3>2
  <2>3. \A t \in Targets : Offset[t] \in Nat /\ hour \in Nat
    BY CampaignsAssumption DEF TypeOK
  <2>4. ASSUME NEW t \in Targets, NEW u \in Targets, Earlier(t, u), result'[u] # "absent"
        PROVE  result'[t] # "absent" /\ scheduled'[t] < scheduled'[u]
    <3>1. CASE u \in fresh
      <4>1. t \in fresh
        BY <2>2, <2>4, <3>1
      <4>2. scheduled'[t] = hour + Offset[t] /\ scheduled'[u] = hour + Offset[u] /\ result'[t] = "queued"
        BY <2>2, <3>1, <4>1
      <4>. QED
        BY <2>3, <2>4, <4>2 DEF Earlier
    <3>2. CASE u \notin fresh
      <4>1. t \notin fresh
        BY <2>2, <2>4, <3>2
      <4>. QED
        BY <1>0, <2>2, <2>4, <3>2, <4>1 DEF StepsInv
    <3>. QED
      BY <3>1, <3>2
  <2>5. \A t \in Targets : result'[t] \notin {"absent", "queued"} => t \in tried'
    BY <1>0, <2>2 DEF StepsInv
  <2>6. DripInOrder'
    BY <1>0, <2>1 DEF StepsInv, DripInOrder
  <2>. QED
    BY <2>4, <2>5, <2>6 DEF StepsInv, Earlier
<1>3. ASSUME NEW s \in Sessions, Record(s) \/ Commit(s) PROVE StepsInv'
  <2>1. Flush(s) /\ UNCHANGED <<scheduled, served, tried>>
    BY <1>3 DEF Record, Commit
  <2>2. \A t \in Targets : result'[t] = IF dirty[s].result[t] = "clean" THEN result[t]
                                        ELSE dirty[s].result[t]
    BY <2>1 DEF Flush
  <2>3. \A t \in Targets : dirty[s].result[t] # "clean" =>
            t \in tried /\ result[t] # "absent" /\ result'[t] # "absent"
    <3>1. \A t \in Targets : dirty[s].result[t] # "absent"
      BY DEF TypeOK, DirtyStates, Outcome
    <3>2. SettlesTried(s) /\ HandIsDue(s)
      BY DEF DripInv, DripSession, TablesInv, SessionInv
    <3>. QED
      BY <2>2, <3>1, <3>2 DEF SettlesTried, HandIsDue
  <2>4. \A t \in Targets : result'[t] # "absent" <=> result[t] # "absent"
    BY <2>2, <2>3
  <2>5. \A t \in Targets : result'[t] \notin {"absent", "queued"} => t \in tried'
    BY <1>0, <2>1, <2>2, <2>3 DEF StepsInv
  <2>. QED
    BY <1>0, <2>1, <2>4, <2>5 DEF StepsInv, DripInOrder, Earlier
<1>4. ASSUME NEW s \in Sessions, NEW outcome \in Outcomes, Act(s, outcome) PROVE StepsInv'
  <2>1. PICK v \in Targets :
          /\ v \in tick[s].work
          /\ \A w \in tick[s].work : Before(v, w)
          /\ served' = served \/ served' = [served EXCEPT ![v] = @ + 1]
    BY <1>4 DEF Act, IsTurn
  <2>2. UNCHANGED targetVars
    BY <1>4 DEF Act
  <2>3. ASSUME NEW t \in Targets, Earlier(t, v) PROVE t \in tried
    <3>1. result[v] # "absent"
      BY <2>1 DEF TablesInv, SessionInv, HandIsDue
    <3>2. scheduled[t] < scheduled[v]
      BY <1>0, <2>3, <3>1 DEF StepsInv
    <3>3. scheduled[t] \in Nat /\ scheduled[v] \in Nat
      BY DEF TypeOK
    <3>4. ~Before(v, t)
      BY <3>2, <3>3 DEF Before
    <3>. QED
      BY <2>1, <2>3, <3>4 DEF DripInv, DripSession, WorkInOrder
  <2>4. DripInOrder'
    BY <1>0, <2>1, <2>3 DEF StepsInv, DripInOrder, Earlier, TypeOK
  <2>. QED
    BY <1>0, <2>2, <2>4 DEF StepsInv, Earlier
<1>5. CASE Surroundings
  BY <1>1, <1>5
     DEF Surroundings, OptOut, GiveConsent, SetWilling, StopCampaign, PauseCampaign, SetStatus,
         Rest, PassHour
<1>6. ASSUME NEW s \in Sessions, NEW c \in Campaigns,
             LoadForStart(s, c) \/ BeginManual(s, c) \/ PickAccounts(s, c)
      PROVE  StepsInv'
  BY <1>1, <1>6 DEF LoadForStart, BeginManual, Begin, PickAccounts
<1>7. ASSUME NEW s \in Sessions,
             \/ CommitStart(s) \/ BeginSweep(s) \/ PickTargets(s) \/ Count(s)
             \/ CommitFails(s) \/ Crash(s)
      PROVE  StepsInv'
  BY <1>1, <1>7 DEF CommitStart, BeginSweep, Begin, PickTargets, Count, CommitFails, Crash
<1>8. CASE UNCHANGED vars
  BY <1>1, <1>8 DEF vars
<1>. QED
  BY <1>2, <1>3, <1>4, <1>5, <1>6, <1>7, <1>8 DEF Next, StartStep, TickStep

LEMMA DripAlways == Spec => [](TypeOK /\ TablesInv /\ DripInv)
<1>1. Init => TypeOK /\ TablesInv /\ DripInv
  BY InitType, InitTables, InitDrip
<1>2. TypeOK /\ TablesInv /\ DripInv /\ [Next]_vars => (TypeOK /\ TablesInv /\ DripInv)'
  BY NextType, SessionsStep, TargetsStep, StartsStep, DripSessionsStep, StepsStep
     DEF TablesInv, DripInv
<1>. QED
  BY <1>1, <1>2, PTL DEF Spec

\* The drip of a contact keeps its order and its times, whichever ticks overlap, die
\* or are warned (campaigns.py:328-362).
THEOREM DripHolds == Spec => []DripKept
<1>1. TypeOK /\ TablesInv /\ DripInv => DripKept
  BY DEF TablesInv, TargetsInv, DripInv, StepsInv, DripKept, OnSchedule
<1>. QED
  BY <1>1, DripAlways, PTL

-----------------------------------------------------------------------------
(* Duplicates.  What a session has in hand belongs to the campaign of its    *)
(* tick, and is not yet settled while it waits for its turn.                *)

HandHolds(s) ==
    /\ pc[s] \notin {"act", "record", "commit"} => dirty[s] = Clean
    /\ dirty[s].inserts # {} => tick[s].campaign \in Joining
    /\ \A t \in Targets : dirty[s].result[t] # "clean" => CampaignOf[t] = tick[s].campaign
    /\ pc[s] \in {"act", "record"} =>
           \A t \in tick[s].work : CampaignOf[t] = tick[s].campaign /\ dirty[s].result[t] = "clean"

HandInv == \A s \in Sessions : HandHolds(s)

LEMMA InitHand == Init => HandInv
  BY CleanFields DEF Init, HandInv, HandHolds

Alone(s) ==
    \A r \in Sessions \ {s} : pc'[r] = pc[r] /\ tick'[r] = tick[r] /\ dirty'[r] = dirty[r]

LEMMA HandOne ==
  ASSUME HandInv, NEW s \in Sessions, Alone(s), HandHolds(s)'
  PROVE  HandInv'
  BY DEF HandInv, HandHolds, Alone

\* A session that holds nothing.
LEMMA HandEmpty ==
  ASSUME HandInv, NEW s \in Sessions, Alone(s), dirty'[s] = Clean,
         pc'[s] \notin {"act", "record"}
  PROVE  HandInv'
<1>1. HandHolds(s)'
  BY CleanFields DEF HandHolds
<1>. QED
  BY <1>1, HandOne

LEMMA ReleaseEffect ==
  ASSUME TypeOK, NEW s \in Sessions, Release(s)
  PROVE  Alone(s) /\ dirty'[s] = Clean /\ pc'[s] = "idle"
  BY DEF Release, Alone, TypeOK

-----------------------------------------------------------------------------
(* What the steps of a tick do to what a session has in hand.               *)

LEMMA PickTargetsEffect ==
  ASSUME TypeOK, NEW s \in Sessions, PickTargets(s)
  PROVE  /\ Alone(s) /\ UNCHANGED <<result, scheduled, served, lateAnswers, crashes>>
         /\ pc[s] = "targets" /\ pc'[s] = "act"
         /\ tick'[s].campaign = tick[s].campaign
         /\ tick'[s].work \subseteq Queued(tick[s].campaign)
         /\ dirty'[s].inserts = dirty[s].inserts
         /\ \A t \in Targets : dirty'[s].result[t] # "clean" =>
                                  t \in Queued(tick[s].campaign) \ tick'[s].work
         /\ \A t \in tick'[s].work : dirty'[s].result[t] = "clean"
<1>. DEFINE due == Due(tick[s].campaign)
            refused == {t \in due : ContactOf[t] \notin willing}
<1>1. /\ pc[s] = "targets" /\ pc'[s] = "act"
      /\ UNCHANGED <<result, scheduled, served, lateAnswers, crashes>>
      /\ tick'[s] = [tick[s] EXCEPT !.work = due \ refused]
      /\ dirty'[s] = [dirty[s] EXCEPT !.result =
                         [t \in Targets |-> IF t \in refused THEN "skipped" ELSE "clean"]]
      /\ Alone(s)
  BY DEF PickTargets, TypeOK, Alone, targetVars, bounds
<1>2. tick'[s].work = due \ refused /\ tick'[s].campaign = tick[s].campaign
  BY <1>1 DEF TypeOK, TickStates
<1>3. /\ \A t \in Targets : dirty'[s].result[t] = IF t \in refused THEN "skipped" ELSE "clean"
      /\ dirty'[s].inserts = dirty[s].inserts
  BY <1>1 DEF TypeOK, DirtyStates
<1>4. due \subseteq Queued(tick[s].campaign) /\ due \subseteq Targets
  BY DEF Due, Queued
<1>. HIDE DEF due
<1>. QED
  BY <1>1, <1>2, <1>3, <1>4

LEMMA UsedUpCampaign ==
  ASSUME NEW k \in TickStates, NEW a \in Accounts, NEW t \in Targets
  PROVE  UsedUp(k, a, t).campaign = k.campaign
  BY DEF UsedUp, TickStates

\* The engine has been asked about target t: it is served, or settled as failed or joined,
\* or left as it was.
Asked(s, outcome, t) ==
    /\ t \in tick[s].work /\ \A u \in tick[s].work : Before(t, u)
    /\ Alone(s) /\ UNCHANGED <<result, scheduled, crashes>>
    /\ pc[s] = "act"
    /\ tick'[s].campaign = tick[s].campaign
    /\ lateAnswers' = IF outcome = "late" THEN [lateAnswers EXCEPT ![t] = @ + 1] ELSE lateAnswers
    /\ served' = served \/ (outcome \in {"done", "late"} /\ served' = [served EXCEPT ![t] = @ + 1])
    /\ \/ /\ outcome # "done"
          /\ pc'[s] = "commit" /\ tick'[s].work = tick[s].work
          /\ dirty'[s].result = dirty[s].result /\ dirty'[s].inserts = dirty[s].inserts
       \/ /\ outcome = "failed"
          /\ pc'[s] = "act" /\ tick'[s].work = tick[s].work \ {t}
          /\ dirty'[s].result = [dirty[s].result EXCEPT ![t] = "failed"]
          /\ dirty'[s].inserts = dirty[s].inserts
       \/ /\ tick[s].campaign \in Joining
          /\ pc'[s] = "act" /\ tick'[s].work = tick[s].work \ {t}
          /\ dirty'[s].result = [dirty[s].result EXCEPT ![t] = "joined"]
       \/ /\ outcome = "done"
          /\ pc'[s] = "record" /\ tick'[s].work = tick[s].work
          /\ dirty'[s] = dirty[s]

LEMMA ActEffect ==
  ASSUME TypeOK, NEW s \in Sessions, NEW outcome \in Outcomes, Act(s, outcome)
  PROVE  \E t \in Targets : Asked(s, outcome, t)
<1>1. PICK a \in Accounts, t \in Targets :
        /\ IsTurn(s, a, t)
        /\ served' = IF outcome \in {"done", "late"} /\ served[t] < MaxServed
                     THEN [served EXCEPT ![t] = @ + 1] ELSE served
        /\ lateAnswers' = IF outcome = "late" THEN [lateAnswers EXCEPT ![t] = @ + 1] ELSE lateAnswers
        /\ \/ /\ outcome # "done"
              /\ pc' = [pc EXCEPT ![s] = "commit"]
              /\ dirty' = [dirty EXCEPT ![s] = Warned(@, a, t)]
              /\ UNCHANGED tick
           \/ /\ outcome = "failed"
              /\ dirty' = [dirty EXCEPT ![s] = Settled(@, tick[s], a, t, "failed")]
              /\ tick' = [tick EXCEPT ![s] = UsedUp(@, a, t)]
              /\ UNCHANGED pc
           \/ /\ tick[s].campaign \in Joining
              /\ dirty' = [dirty EXCEPT ![s] = Joined(@, tick[s], a, t)]
              /\ tick' = [tick EXCEPT ![s] = UsedUp(@, a, t)]
              /\ UNCHANGED pc
           \/ /\ outcome = "done"
              /\ pc' = [pc EXCEPT ![s] = "record"]
              /\ UNCHANGED <<tick, dirty>>
  BY CampaignsAssumption DEF Act
<1>2. /\ t \in tick[s].work /\ \A u \in tick[s].work : Before(t, u)
      /\ UNCHANGED <<result, scheduled, crashes>> /\ pc[s] = "act"
  BY <1>1 DEF Act, IsTurn, targetVars, bounds
<1>3. Alone(s)
  BY <1>1 DEF Alone, TypeOK
<1>4. tick[s] \in TickStates /\ dirty[s] \in DirtyStates
  BY DEF TypeOK
<1>5. served' = served \/ (outcome \in {"done", "late"} /\ served' = [served EXCEPT ![t] = @ + 1])
  <2>1. CASE outcome \in {"done", "late"} /\ served[t] < MaxServed
    BY <1>1, <2>1
  <2>2. CASE ~(outcome \in {"done", "late"} /\ served[t] < MaxServed)
    BY <1>1, <2>2
  <2>. QED
    BY <2>1, <2>2
<1>6. CASE outcome # "done" /\ pc'[s] = "commit" /\ dirty'[s] = Warned(dirty[s], a, t) /\ tick'[s] = tick[s]
  <2>1. dirty'[s].result = dirty[s].result /\ dirty'[s].inserts = dirty[s].inserts
    BY <1>4, <1>6, WarnedFields
  <2>. QED
    BY <1>1, <1>2, <1>3, <1>5, <1>6, <2>1 DEF Asked
<1>7. CASE /\ outcome = "failed" /\ dirty'[s] = Settled(dirty[s], tick[s], a, t, "failed")
           /\ tick'[s] = UsedUp(tick[s], a, t) /\ pc'[s] = pc[s]
  <2>1. /\ dirty'[s].result = [dirty[s].result EXCEPT ![t] = "failed"]
        /\ dirty'[s].inserts = dirty[s].inserts
    BY <1>4, <1>7, SettledFields
  <2>2. tick'[s].work = tick[s].work \ {t} /\ tick'[s].campaign = tick[s].campaign
    BY <1>4, <1>7, UsedUpFields, UsedUpCampaign
  <2>. QED
    BY <1>1, <1>2, <1>3, <1>5, <1>7, <2>1, <2>2 DEF Asked
<1>8. CASE /\ tick[s].campaign \in Joining /\ dirty'[s] = Joined(dirty[s], tick[s], a, t)
           /\ tick'[s] = UsedUp(tick[s], a, t) /\ pc'[s] = pc[s]
  <2>1. dirty'[s].result = [dirty[s].result EXCEPT ![t] = "joined"]
    <3>1. /\ dirty[s] \in DirtyStates /\ tick[s] \in TickStates
          /\ dirty[s].result \in [Targets -> Outcome \cup {"clean"}]
      BY <1>4 DEF DirtyStates
    <3>2. Joined(dirty[s], tick[s], a, t).result = [dirty[s].result EXCEPT ![t] = "joined"]
      BY <3>1, JoinedResult
    <3>. QED
      BY <1>8, <3>2
  <2>2. tick'[s].work = tick[s].work \ {t} /\ tick'[s].campaign = tick[s].campaign
    BY <1>4, <1>8, UsedUpFields, UsedUpCampaign
  <2>. QED
    BY <1>1, <1>2, <1>3, <1>5, <1>8, <2>1, <2>2 DEF Asked
<1>9. CASE outcome = "done" /\ pc'[s] = "record" /\ tick'[s] = tick[s] /\ dirty'[s] = dirty[s]
  BY <1>1, <1>2, <1>3, <1>5, <1>9 DEF Asked
<1>. QED
  BY <1>1, <1>6, <1>7, <1>8, <1>9 DEF TypeOK

LEMMA RecordEffect ==
  ASSUME TypeOK, NEW s \in Sessions, Record(s)
  PROVE  \E t \in Targets :
         /\ t \in tick[s].work /\ \A u \in tick[s].work : Before(t, u)
         /\ Alone(s) /\ UNCHANGED <<scheduled, served, lateAnswers, crashes>>
         /\ pc[s] = "record" /\ pc'[s] = "act" /\ Flush(s)
         /\ tick'[s].campaign = tick[s].campaign
         /\ tick'[s].work = tick[s].work \ {t}
         /\ \A u \in Targets : dirty'[s].result[u] = IF u = t THEN "sent" ELSE "clean"
         /\ dirty'[s].inserts = {}
<1>1. PICK a \in Accounts, t \in Targets :
        /\ IsTurn(s, a, t)
        /\ tick'[s] = UsedUp(tick[s], a, t)
        /\ dirty'[s] = AfterSend(s, a, t)
  BY DEF Record, TypeOK
<1>2. /\ t \in tick[s].work /\ \A u \in tick[s].work : Before(t, u)
      /\ UNCHANGED <<scheduled, served, lateAnswers, crashes>>
      /\ pc[s] = "record" /\ pc'[s] = "act" /\ Flush(s)
  BY <1>1 DEF Record, IsTurn, ghosts, bounds, TypeOK
<1>3. Alone(s)
  BY DEF Record, Alone, TypeOK
<1>4. tick'[s].campaign = tick[s].campaign /\ tick'[s].work = tick[s].work \ {t}
  <2>1. tick[s] \in TickStates
    BY DEF TypeOK
  <2>. QED
    BY <1>1, <2>1, UsedUpFields, UsedUpCampaign
<1>5. dirty'[s].result = [Clean.result EXCEPT ![t] = "sent"] /\ dirty'[s].inserts = {}
  BY <1>1, AfterSendFields
<1>6. Clean.result \in [Targets -> {"clean"}]
  BY DEF Clean
<1>. QED
  BY <1>1, <1>2, <1>3, <1>4, <1>5, <1>6

LEMMA CountEffect ==
  ASSUME TypeOK, NEW s \in Sessions, Count(s)
  PROVE  /\ Alone(s) /\ UNCHANGED <<result, scheduled, served, lateAnswers, crashes, tick>>
         /\ pc[s] = "act" /\ pc'[s] = "commit"
         /\ dirty'[s].result = dirty[s].result /\ dirty'[s].inserts = dirty[s].inserts
<1>1. /\ Alone(s) /\ UNCHANGED <<result, scheduled, served, lateAnswers, crashes, tick>>
      /\ pc[s] = "act" /\ pc'[s] = "commit"
  BY DEF Count, Alone, TypeOK, targetVars, ghosts, bounds
<1>2. PICK state : dirty'[s] = [dirty[s] EXCEPT !.campaign = state]
  BY DEF Count, TypeOK
<1>3. dirty'[s].result = dirty[s].result /\ dirty'[s].inserts = dirty[s].inserts
  BY <1>2 DEF TypeOK, DirtyStates
<1>. QED
  BY <1>1, <1>3

\* A session that ends its tick, or its commit, by writing or by dropping what it assigned.
LEMMA CommitEffect ==
  ASSUME TypeOK, NEW s \in Sessions, Commit(s)
  PROVE  /\ Alone(s) /\ UNCHANGED <<scheduled, served, lateAnswers, crashes>>
         /\ pc[s] = "commit" /\ pc'[s] \in {"idle", "sweep"} /\ Flush(s)
         /\ dirty'[s] = Clean
  BY DEF Commit, EndTick, Alone, TypeOK, ghosts, bounds

LEMMA CommitFailsEffect ==
  ASSUME TypeOK, NEW s \in Sessions, CommitFails(s)
  PROVE  /\ Alone(s) /\ UNCHANGED <<result, scheduled, served, lateAnswers, crashes>>
         /\ pc[s] = "commit" /\ pc'[s] = "idle" /\ dirty'[s] = Clean
         /\ dirty[s].inserts # {}
  BY ReleaseEffect DEF CommitFails, Conflict, targetVars, ghosts, bounds

LEMMA CrashEffect ==
  ASSUME TypeOK, NEW s \in Sessions, Crash(s)
  PROVE  /\ Alone(s) /\ UNCHANGED <<result, scheduled, served, lateAnswers>>
         /\ crashes' = crashes + 1 /\ pc'[s] = "idle" /\ dirty'[s] = Clean
  BY ReleaseEffect DEF Crash, targetVars, ghosts

\* The steps of a session that has no target in hand, before or after.
Unhanded == {"idle", "starting", "inserting", "sweep", "targets"}

FreeStep(s) ==
    \/ \E c \in Campaigns : LoadForStart(s, c) \/ BeginManual(s, c) \/ PickAccounts(s, c)
    \/ BeginSweep(s) \/ CommitStart(s) \/ Materialize(s)

LEMMA FreeEffect ==
  ASSUME TypeOK, NEW s \in Sessions, FreeStep(s)
  PROVE  /\ Alone(s) /\ UNCHANGED <<served, lateAnswers, crashes>>
         /\ pc[s] \in Unhanded /\ pc'[s] \in Unhanded
         /\ dirty'[s] \in {dirty[s], Clean}
         /\ \A t \in Targets : result'[t] = result[t] \/ (result[t] = "absent" /\ result'[t] = "queued")
<1>. USE DEF campaignVars, targetVars, accountVars, sessionVars, ghosts, bounds, Unhanded
<1>1. ASSUME NEW c \in Campaigns, LoadForStart(s, c)
      PROVE  /\ Alone(s) /\ UNCHANGED <<result, served, lateAnswers, crashes, dirty>>
             /\ pc[s] \in Unhanded /\ pc'[s] \in Unhanded
  BY <1>1 DEF LoadForStart, Alone, TypeOK
<1>2. ASSUME NEW cs, Begin(s, cs)
      PROVE  /\ Alone(s) /\ UNCHANGED <<result, served, lateAnswers, crashes, dirty>>
             /\ pc[s] \in Unhanded /\ pc'[s] \in Unhanded
  BY <1>2 DEF Begin, Alone, TypeOK
<1>3. ASSUME NEW c \in Campaigns, PickAccounts(s, c)
      PROVE  /\ Alone(s) /\ UNCHANGED <<result, served, lateAnswers, crashes, dirty>>
             /\ pc[s] \in Unhanded /\ pc'[s] \in Unhanded
  BY <1>3 DEF PickAccounts, EndTick, Alone, TypeOK
<1>4. ASSUME CommitStart(s)
      PROVE  /\ Alone(s) /\ UNCHANGED <<result, served, lateAnswers, crashes>>
             /\ pc[s] \in Unhanded /\ pc'[s] \in Unhanded /\ dirty'[s] \in {dirty[s], Clean}
  <2>1. CASE tick[s].first
    BY <1>4, <2>1 DEF CommitStart, Alone, TypeOK
  <2>2. CASE ~tick[s].first
    BY <1>4, <2>2, ReleaseEffect DEF CommitStart
  <2>. QED
    BY <2>1, <2>2
<1>5. ASSUME Materialize(s)
      PROVE  /\ Alone(s) /\ UNCHANGED <<served, lateAnswers, crashes>>
             /\ pc[s] \in Unhanded /\ pc'[s] \in Unhanded /\ dirty'[s] = Clean
             /\ \A t \in Targets : \/ result'[t] = result[t]
                                   \/ result[t] = "absent" /\ result'[t] = "queued"
  <2>1. Release(s) /\ UNCHANGED <<served, lateAnswers, crashes>> /\ pc[s] = "inserting"
    BY <1>5 DEF Materialize
  <2>2. \A t \in Targets : \/ result'[t] = result[t]
                           \/ result[t] = "absent" /\ result'[t] = "queued"
    BY <1>5 DEF Materialize
  <2>. QED
    BY <2>1, <2>2, ReleaseEffect
<1>6. \/ \E c \in Campaigns : LoadForStart(s, c) \/ PickAccounts(s, c)
      \/ \E cs : Begin(s, cs)
      \/ CommitStart(s)
      \/ Materialize(s)
  BY DEF FreeStep, BeginManual, BeginSweep
<1>. QED
  BY <1>1, <1>2, <1>3, <1>4, <1>5, <1>6

LEMMA SurroundingsEffect ==
  ASSUME Surroundings \/ UNCHANGED vars
  PROVE  UNCHANGED <<sessionVars, result, scheduled, served, lateAnswers, crashes>>
<1>. USE DEF targetVars, sessionVars, ghosts, bounds
<1>1. CASE UNCHANGED vars
  BY <1>1 DEF vars
<1>2. CASE Surroundings
  BY <1>2
     DEF Surroundings, OptOut, GiveConsent, SetWilling, StopCampaign, PauseCampaign, SetStatus,
         Rest, PassHour
<1>. QED
  BY <1>1, <1>2

LEMMA HandStep == TypeOK /\ HandInv /\ [Next]_vars => HandInv'
<1>. SUFFICES ASSUME TypeOK, HandInv, [Next]_vars
              PROVE  HandInv'
  OBVIOUS
<1>1. ASSUME NEW s \in Sessions, FreeStep(s)
      PROVE  HandInv'
  <2>1. /\ Alone(s) /\ dirty'[s] = Clean /\ pc'[s] \notin {"act", "record"}
    BY <1>1, FreeEffect DEF HandInv, HandHolds, Unhanded
  <2>. QED
    BY <2>1, HandEmpty
<1>2. ASSUME NEW s \in Sessions, Commit(s) \/ CommitFails(s) \/ Crash(s)
      PROVE  HandInv'
  BY <1>2, CommitEffect, CommitFailsEffect, CrashEffect, HandEmpty
<1>3. ASSUME NEW s \in Sessions, PickTargets(s)
      PROVE  HandInv'
  <2>1. /\ Alone(s) /\ pc[s] = "targets" /\ pc'[s] = "act"
        /\ tick'[s].campaign = tick[s].campaign
        /\ tick'[s].work \subseteq Queued(tick[s].campaign)
        /\ dirty'[s].inserts = dirty[s].inserts
        /\ \A t \in Targets : dirty'[s].result[t] # "clean" =>
                                 t \in Queued(tick[s].campaign) \ tick'[s].work
        /\ \A t \in tick'[s].work : dirty'[s].result[t] = "clean"
    BY <1>3, PickTargetsEffect
  <2>2. \A t \in Queued(tick[s].campaign) : CampaignOf[t] = tick[s].campaign
    BY DEF Queued
  <2>3. HandHolds(s)'
    BY <2>1, <2>2 DEF HandInv, HandHolds
  <2>. QED
    BY <2>1, <2>3, HandOne DEF Asked
<1>4. ASSUME NEW s \in Sessions, NEW outcome \in Outcomes, Act(s, outcome)
      PROVE  HandInv'
  <2>1. PICK t \in Targets : Asked(s, outcome, t)
    BY <1>4, ActEffect
  <2>2. /\ dirty[s].result \in [Targets -> Outcome \cup {"clean"}] /\ tick[s].work \subseteq Targets
        /\ HandHolds(s)
    BY DEF TypeOK, DirtyStates, TickStates, HandInv
  <2>3. HandHolds(s)'
    <3>1. dirty'[s].inserts # {} => tick'[s].campaign \in Joining
      BY <2>1, <2>2 DEF HandHolds, Asked
    <3>2. \A u \in Targets : dirty'[s].result[u] # "clean" => CampaignOf[u] = tick'[s].campaign
      BY <2>1, <2>2 DEF HandHolds, Asked
    <3>3. pc'[s] \in {"act", "record"} =>
            \A u \in tick'[s].work : CampaignOf[u] = tick'[s].campaign /\ dirty'[s].result[u] = "clean"
      BY <2>1, <2>2 DEF HandHolds, Asked
    <3>. QED
      BY <2>1, <3>1, <3>2, <3>3 DEF HandHolds, Asked
  <2>. QED
    BY <2>1, <2>3, HandOne DEF Asked
<1>5. ASSUME NEW s \in Sessions, Record(s)
      PROVE  HandInv'
  <2>1. PICK t \in Targets :
         /\ t \in tick[s].work
         /\ Alone(s) /\ pc[s] = "record" /\ pc'[s] = "act"
         /\ tick'[s].campaign = tick[s].campaign
         /\ tick'[s].work = tick[s].work \ {t}
         /\ \A u \in Targets : dirty'[s].result[u] = IF u = t THEN "sent" ELSE "clean"
         /\ dirty'[s].inserts = {}
    BY <1>5, RecordEffect
  <2>2. tick[s].work \subseteq Targets /\ HandHolds(s)
    BY DEF TypeOK, TickStates, HandInv
  <2>3. HandHolds(s)'
    BY <2>1, <2>2 DEF HandHolds
  <2>. QED
    BY <2>1, <2>3, HandOne
<1>6. ASSUME NEW s \in Sessions, Count(s)
      PROVE  HandInv'
  <2>1. HandHolds(s)' /\ Alone(s)
    BY <1>6, CountEffect DEF HandInv, HandHolds
  <2>. QED
    BY <2>1, HandOne
<1>7. CASE Surroundings \/ UNCHANGED vars
  BY <1>7, SurroundingsEffect DEF HandInv, HandHolds, sessionVars
<1>. QED
  BY <1>1, <1>2, <1>3, <1>4, <1>5, <1>6, <1>7 DEF Next, StartStep, TickStep, FreeStep

-----------------------------------------------------------------------------
(* Counting.                                                                *)

LEMMA CountGrows ==
  ASSUME NEW S, NEW T, IsFiniteSet(T), S \subseteq T
  PROVE  Cardinality(S) \in Nat /\ Cardinality(T) \in Nat /\ Cardinality(S) <= Cardinality(T)
  BY FS_Subset, FS_CardinalityType

LEMMA CountGains ==
  ASSUME NEW S, NEW T, NEW x, IsFiniteSet(T), S \cup {x} \subseteq T, x \notin S
  PROVE  Cardinality(S) \in Nat /\ Cardinality(T) \in Nat /\ Cardinality(S) + 1 <= Cardinality(T)
<1>1. IsFiniteSet(S) /\ Cardinality(S) \in Nat
  BY FS_Subset, FS_CardinalityType
<1>2. Cardinality(S \cup {x}) = Cardinality(S) + 1
  BY <1>1, FS_AddElement
<1>. QED
  BY <1>1, <1>2, CountGrows

LEMMA CountLoses ==
  ASSUME NEW S, NEW T, NEW x, IsFiniteSet(S), IsFiniteSet(T), S \ {x} \subseteq T
  PROVE  Cardinality(S) \in Nat /\ Cardinality(T) \in Nat /\ Cardinality(S) <= Cardinality(T) + 1
<1>1. S \subseteq T \cup {x} /\ IsFiniteSet(T \cup {x})
  BY FS_AddElement
<1>2. Cardinality(T) \in Nat
  BY FS_CardinalityType
<1>3. Cardinality(T \cup {x}) = (IF x \in T THEN Cardinality(T) ELSE Cardinality(T) + 1)
  BY FS_AddElement
<1>4. Cardinality(T \cup {x}) <= Cardinality(T) + 1
  BY <1>2, <1>3
<1>. QED
  BY <1>1, <1>2, <1>4, CountGrows

-----------------------------------------------------------------------------
(* Deliveries of a message step.  While its target is queued, any session    *)
(* that has not yet dealt with it may load and serve it; once it is settled,  *)
(* only a session that has loaded it already may.  The others are spent:     *)
(* every delivery that the backend hears of spends a session, and only a      *)
(* crash lets a spent session start again.                                  *)

Leads(s, t) == t \in tick[s].work /\ \A u \in tick[s].work : Before(t, u)

Delivering(s, t) == pc[s] = "record" /\ Leads(s, t)

Dealt(s, t) == dirty[s].result[t] # "clean" \/ Delivering(s, t)

Carries(s, t) == pc[s] \in {"act", "record"} /\ t \in tick[s].work /\ ~Delivering(s, t)

MayServe(s, t) == IF result[t] \in Outcome THEN Carries(s, t) ELSE ~Dealt(s, t)

Spent(t) == {s \in Sessions : ~MayServe(s, t)}

MessageTargets == {t \in Targets : CampaignOf[t] \notin Joining}

DupInv ==
    \A t \in MessageTargets : served[t] <= Cardinality(Spent(t)) + crashes + lateAnswers[t]

LEMMA SpentFinite ==
  ASSUME NEW t
  PROVE  IsFiniteSet(Spent(t)) /\ IsFiniteSet(Spent(t)') /\ Cardinality(Spent(t)) \in Nat
<1>1. Spent(t) \subseteq Sessions /\ Spent(t)' \subseteq Sessions
  BY DEF Spent
<1>. QED
  BY <1>1, FinitelyMany, FS_Subset, FS_CardinalityType

LEMMA InitDup == Init => DupInv
<1>. SUFFICES ASSUME Init, NEW t \in MessageTargets
              PROVE  0 <= Cardinality(Spent(t)) + 0 + 0
  BY DEF Init, DupInv, MessageTargets
<1>. QED
  BY SpentFinite

\* What another session has in hand keeps its order: its targets keep their times.
LEMMA OrderKept ==
  ASSUME TypeOK, TablesInv, Grows, NEW s \in Sessions, tick'[s].work = tick[s].work, NEW t
  PROVE  Leads(s, t)' <=> Leads(s, t)
<1>1. \A u \in tick[s].work : scheduled'[u] = scheduled[u]
  BY DEF TablesInv, SessionInv, HandIsDue, Grows, TypeOK, TickStates
<1>. QED
  BY <1>1 DEF Leads, Before

\* Nobody becomes able to serve a target again.
NoneRestored(t) == \A r \in Sessions : MayServe(r, t)' => MayServe(r, t)

LEMMA DupQuiet ==
  ASSUME TypeOK, DupInv, UNCHANGED <<served, lateAnswers, crashes>>,
         \A t \in MessageTargets : NoneRestored(t)
  PROVE  DupInv'
<1>1. ASSUME NEW t \in MessageTargets
      PROVE  served'[t] <= Cardinality(Spent(t)') + crashes' + lateAnswers'[t]
  <2>1. Spent(t) \subseteq Spent(t)'
    BY <1>1 DEF NoneRestored, Spent
  <2>2. /\ Cardinality(Spent(t)) \in Nat /\ Cardinality(Spent(t)') \in Nat
        /\ Cardinality(Spent(t)) <= Cardinality(Spent(t)')
    BY <2>1, SpentFinite, CountGrows
  <2>3. served[t] \in Nat /\ lateAnswers[t] \in Nat /\ crashes \in Nat
    BY DEF TypeOK, MessageTargets
  <2>4. served[t] <= Cardinality(Spent(t)) + crashes + lateAnswers[t]
    BY DEF DupInv
  <2>. QED
    BY <2>2, <2>3, <2>4
<1>2. MessageTargets' = MessageTargets
  BY DEF MessageTargets
<1>. QED
  BY <1>1, <1>2 DEF DupInv

\* A step of session s restores nobody if it does not restore s and unsettles no target.
LEMMA OthersSpent ==
  ASSUME TypeOK, TablesInv, HandInv, Grows, NEW s \in Sessions, Alone(s), NEW t \in Targets,
         result[t] \in Outcome => result'[t] \in Outcome,
         MayServe(s, t)' => MayServe(s, t)
  PROVE  NoneRestored(t)
<1>1. ASSUME NEW r \in Sessions \ {s}, MayServe(r, t)'
      PROVE  MayServe(r, t)
  <2>1. pc'[r] = pc[r] /\ tick'[r] = tick[r] /\ dirty'[r] = dirty[r]
    BY DEF Alone
  <2>2. Delivering(r, t)' <=> Delivering(r, t)
    BY <2>1, OrderKept DEF Delivering
  <2>3. Carries(r, t) => ~Dealt(r, t)
    BY DEF HandInv, HandHolds, Carries, Dealt
  <2>4. /\ Carries(r, t)' <=> Carries(r, t)
        /\ Dealt(r, t)' <=> Dealt(r, t)
    BY <2>1, <2>2 DEF Carries, Dealt
  <2>. QED
    BY <1>1, <2>3, <2>4 DEF MayServe
<1>. QED
  BY <1>1 DEF NoneRestored

\* What a commit leaves of a target.
LEMMA FlushEffect ==
  ASSUME TypeOK, NEW s \in Sessions, Flush(s), NEW t \in Targets
  PROVE  /\ dirty[s].result[t] # "clean" => result'[t] \in Outcome
         /\ result[t] \in Outcome => result'[t] \in Outcome
<1>1. dirty[s].result[t] \in Outcome \cup {"clean"}
  BY DEF TypeOK, DirtyStates
<1>. QED
  BY <1>1 DEF Flush

LEMMA DupStep == TypeOK /\ TablesInv /\ HandInv /\ DupInv /\ [Next]_vars => DupInv'
<1>. SUFFICES ASSUME TypeOK, TablesInv, HandInv, DupInv, [Next]_vars
              PROVE  DupInv'
  OBVIOUS
<1>0. Grows /\ \A s \in Sessions : HandHolds(s)
  BY NextGrows DEF HandInv
<1>c. \A t \in Targets : Clean.result[t] = "clean"
  BY CleanFields
<1>m. MessageTargets \subseteq Targets
  BY DEF MessageTargets
<1>1. ASSUME NEW s \in Sessions, FreeStep(s)
      PROVE  DupInv'
  <2>1. /\ Alone(s) /\ UNCHANGED <<served, lateAnswers, crashes>>
        /\ pc[s] \in Unhanded /\ pc'[s] \in Unhanded
        /\ dirty'[s] \in {dirty[s], Clean}
        /\ \A t \in Targets : result'[t] = result[t] \/ (result[t] = "absent" /\ result'[t] = "queued")
    BY <1>1, FreeEffect
  <2>2. dirty[s] = Clean
    BY <1>0, <2>1 DEF HandHolds, Unhanded
  <2>3. ASSUME NEW t \in Targets
        PROVE  MayServe(s, t)' => MayServe(s, t)
    BY <1>c, <2>1, <2>2 DEF MayServe, Carries, Dealt, Delivering, Unhanded, Outcome
  <2>4. \A t \in Targets : result[t] \in Outcome => result'[t] \in Outcome
    BY <2>1 DEF Outcome
  <2>. QED
    BY <1>0, <1>m, <2>1, <2>3, <2>4, OthersSpent, DupQuiet
<1>2. ASSUME NEW s \in Sessions, PickTargets(s)
      PROVE  DupInv'
  <2>1. /\ Alone(s) /\ UNCHANGED <<result, served, lateAnswers, crashes>>
        /\ pc[s] = "targets" /\ pc'[s] = "act"
        /\ tick'[s].work \subseteq Queued(tick[s].campaign)
    BY <1>2, PickTargetsEffect
  <2>2. dirty[s] = Clean /\ \A t \in tick'[s].work : result[t] \notin Outcome
    BY <1>0, <2>1 DEF HandHolds, Queued, Outcome
  <2>3. ASSUME NEW t \in Targets
        PROVE  MayServe(s, t)' => MayServe(s, t)
    BY <1>c, <2>1, <2>2 DEF MayServe, Carries, Dealt, Delivering
  <2>. QED
    BY <1>0, <1>m, <2>1, <2>3, OthersSpent, DupQuiet
<1>3. ASSUME NEW s \in Sessions, NEW outcome \in Outcomes, Act(s, outcome)
      PROVE  DupInv'
  <2>1. PICK t \in Targets : Asked(s, outcome, t)
    BY <1>3, ActEffect
  <2>2. /\ t \in tick[s].work /\ pc[s] = "act" /\ dirty[s].result[t] = "clean"
        /\ CampaignOf[t] = tick[s].campaign
        /\ dirty[s].result \in [Targets -> Outcome \cup {"clean"}]
        /\ Alone(s) /\ UNCHANGED <<result, scheduled, crashes>>
    BY <1>0, <2>1 DEF Asked, HandHolds, TypeOK, DirtyStates
  <2>3. MayServe(s, t)
    BY <2>2 DEF MayServe, Carries, Dealt, Delivering
  <2>4. Leads(s, t) /\ \A u : Leads(s, u) => u = t
    BY <2>1, OneTurn DEF Asked, Leads
  <2>5. outcome = "done" /\ tick[s].campaign \notin Joining => ~MayServe(s, t)'
    <3>. SUFFICES ASSUME outcome = "done", tick[s].campaign \notin Joining
                  PROVE  ~MayServe(s, t)'
      OBVIOUS
    <3>1. pc'[s] = "record" /\ tick'[s].work = tick[s].work
      BY <2>1 DEF Asked
    <3>2. Leads(s, t)'
      BY <1>0, <2>4, <3>1, OrderKept
    <3>3. Delivering(s, t)'
      BY <3>1, <3>2 DEF Delivering
    <3>. QED
      BY <3>3 DEF MayServe, Carries, Dealt
  <2>6. ASSUME NEW u \in Targets
        PROVE  MayServe(s, u)' => MayServe(s, u)
    <3>1. CASE u = t
      BY <2>3, <3>1
    <3>2. CASE u # t
      <4>1. /\ dirty'[s].result[u] = dirty[s].result[u]
            /\ Carries(s, u)' => Carries(s, u)
        BY <2>1, <2>2, <3>2 DEF Asked, Carries, Delivering
      <4>2. ~Delivering(s, u)
        BY <2>2 DEF Delivering
      <4>. QED
        BY <2>2, <4>1, <4>2 DEF MayServe, Dealt
    <3>. QED
      BY <3>1, <3>2
  <2>7. \A u \in Targets : NoneRestored(u)
    BY <1>0, <2>2, <2>6, OthersSpent
  <2>8. ASSUME NEW u \in MessageTargets
        PROVE  served'[u] <= Cardinality(Spent(u)') + crashes' + lateAnswers'[u]
    <3>1. /\ served[u] \in Nat /\ lateAnswers[u] \in Nat /\ crashes \in Nat /\ crashes' = crashes
          /\ served[u] <= Cardinality(Spent(u)) + crashes + lateAnswers[u]
          /\ Cardinality(Spent(u)) \in Nat
      BY <1>m, <2>2, SpentFinite DEF TypeOK, DupInv
    <3>2. Spent(u) \subseteq Spent(u)'
      BY <1>m, <2>7 DEF NoneRestored, Spent
    <3>3. Cardinality(Spent(u)') \in Nat /\ Cardinality(Spent(u)) <= Cardinality(Spent(u)')
      BY <3>2, SpentFinite, CountGrows
    <3>4. /\ lateAnswers'[u] = IF outcome = "late" /\ u = t THEN lateAnswers[u] + 1 ELSE lateAnswers[u]
          /\ served'[u] = served[u] \/ (u = t /\ served'[u] = served[u] + 1)
      BY <1>m, <2>1 DEF Asked, TypeOK
    <3>5. CASE u # t \/ served'[u] = served[u] \/ outcome = "late"
      BY <3>1, <3>3, <3>4, <3>5
    <3>6. CASE u = t /\ outcome # "late" /\ served'[u] # served[u]
      <4>1. outcome = "done"
        BY <2>1, <3>6 DEF Asked
      <4>2. ~MayServe(s, t)'
        BY <2>2, <2>5, <3>6, <4>1 DEF MessageTargets
      <4>3. s \notin Spent(u) /\ Spent(u) \cup {s} \subseteq Spent(u)'
        BY <2>3, <3>2, <3>6, <4>2 DEF Spent
      <4>4. Cardinality(Spent(u)) + 1 <= Cardinality(Spent(u)')
        BY <4>3, SpentFinite, CountGains
      <4>. QED
        BY <3>1, <3>3, <3>4, <3>6, <4>4
    <3>. QED
      BY <3>5, <3>6
  <2>. QED
    BY <2>8 DEF DupInv, MessageTargets
<1>4. ASSUME NEW s \in Sessions, Record(s)
      PROVE  DupInv'
  <2>1. PICK t \in Targets :
         /\ t \in tick[s].work /\ \A u \in tick[s].work : Before(t, u)
         /\ Alone(s) /\ UNCHANGED <<scheduled, served, lateAnswers, crashes>>
         /\ pc[s] = "record" /\ pc'[s] = "act" /\ Flush(s)
         /\ tick'[s].work = tick[s].work \ {t}
         /\ \A u \in Targets : dirty'[s].result[u] = IF u = t THEN "sent" ELSE "clean"
    BY <1>4, RecordEffect
  <2>2. \A u \in Targets : Leads(s, u) <=> u = t
    BY <2>1, OneTurn DEF Leads
  <2>3. ASSUME NEW u \in Targets
        PROVE  MayServe(s, u)' => MayServe(s, u)
    <3>1. u \in tick[s].work => dirty[s].result[u] = "clean"
      BY <1>0, <2>1 DEF HandHolds
    <3>2. /\ dirty[s].result[u] # "clean" => result'[u] \in Outcome
          /\ result[u] \in Outcome => result'[u] \in Outcome
      BY <2>1, FlushEffect
    <3>. QED
      BY <2>1, <2>2, <3>1, <3>2 DEF MayServe, Carries, Dealt, Delivering
  <2>4. \A u \in Targets : result[u] \in Outcome => result'[u] \in Outcome
    BY <2>1, FlushEffect
  <2>. QED
    BY <1>0, <1>m, <2>1, <2>3, <2>4, OthersSpent, DupQuiet
<1>5. ASSUME NEW s \in Sessions, Count(s)
      PROVE  DupInv'
  <2>1. /\ Alone(s) /\ UNCHANGED <<result, served, lateAnswers, crashes, tick>>
        /\ pc[s] = "act" /\ pc'[s] = "commit" /\ dirty'[s].result = dirty[s].result
    BY <1>5, CountEffect
  <2>2. ASSUME NEW t \in Targets
        PROVE  MayServe(s, t)' => MayServe(s, t)
    BY <2>1 DEF MayServe, Carries, Dealt, Delivering
  <2>. QED
    BY <1>0, <1>m, <2>1, <2>2, OthersSpent, DupQuiet
<1>6. ASSUME NEW s \in Sessions, Commit(s)
      PROVE  DupInv'
  <2>1. /\ Alone(s) /\ UNCHANGED <<served, lateAnswers, crashes>>
        /\ pc[s] = "commit" /\ pc'[s] \in {"idle", "sweep"} /\ Flush(s) /\ dirty'[s] = Clean
    BY <1>6, CommitEffect
  <2>2. \A t \in Targets : /\ dirty[s].result[t] # "clean" => result'[t] \in Outcome
                           /\ result[t] \in Outcome => result'[t] \in Outcome
    BY <2>1, FlushEffect
  <2>3. ASSUME NEW t \in Targets
        PROVE  MayServe(s, t)' => MayServe(s, t)
    BY <1>c, <2>1, <2>2 DEF MayServe, Carries, Dealt, Delivering
  <2>. QED
    BY <1>0, <1>m, <2>1, <2>2, <2>3, OthersSpent, DupQuiet
<1>7. ASSUME NEW s \in Sessions, CommitFails(s)
      PROVE  DupInv'
  <2>1. /\ Alone(s) /\ UNCHANGED <<result, served, lateAnswers, crashes>>
        /\ pc[s] = "commit" /\ pc'[s] = "idle" /\ dirty'[s] = Clean /\ dirty[s].inserts # {}
    BY <1>7, CommitFailsEffect
  <2>2. \A t \in MessageTargets : dirty[s].result[t] = "clean"
    BY <1>0, <2>1 DEF HandHolds, MessageTargets
  <2>3. ASSUME NEW t \in MessageTargets
        PROVE  MayServe(s, t)' => MayServe(s, t)
    BY <1>c, <1>m, <2>1, <2>2 DEF MayServe, Carries, Dealt, Delivering
  <2>. QED
    BY <1>0, <1>m, <2>1, <2>3, OthersSpent, DupQuiet
<1>8. ASSUME NEW s \in Sessions, Crash(s)
      PROVE  DupInv'
  <2>1. /\ Alone(s) /\ UNCHANGED <<result, served, lateAnswers>> /\ crashes' = crashes + 1
    BY <1>8, CrashEffect
  <2>2. ASSUME NEW t \in MessageTargets
        PROVE  served'[t] <= Cardinality(Spent(t)') + crashes' + lateAnswers'[t]
    <3>1. ASSUME NEW r \in Sessions \ {s}
          PROVE  MayServe(r, t)' <=> MayServe(r, t)
      <4>1. pc'[r] = pc[r] /\ tick'[r] = tick[r] /\ dirty'[r] = dirty[r]
        BY <2>1 DEF Alone
      <4>2. Delivering(r, t)' <=> Delivering(r, t)
        BY <1>0, <4>1, OrderKept DEF Delivering
      <4>. QED
        BY <2>1, <4>1, <4>2 DEF MayServe, Carries, Dealt
    <3>2. Spent(t) \ {s} \subseteq Spent(t)'
      BY <3>1 DEF Spent
    <3>3. /\ Cardinality(Spent(t)) \in Nat /\ Cardinality(Spent(t)') \in Nat
          /\ Cardinality(Spent(t)) <= Cardinality(Spent(t)') + 1
      BY <3>2, SpentFinite, CountLoses
    <3>4. /\ served[t] \in Nat /\ lateAnswers[t] \in Nat /\ crashes \in Nat
          /\ served[t] <= Cardinality(Spent(t)) + crashes + lateAnswers[t]
      BY <1>m DEF TypeOK, DupInv
    <3>. QED
      BY <2>1, <3>3, <3>4
  <2>. QED
    BY <2>2 DEF DupInv, MessageTargets
<1>9. CASE Surroundings \/ UNCHANGED vars
  <2>1. UNCHANGED <<sessionVars, result, scheduled, served, lateAnswers, crashes>>
    BY <1>9, SurroundingsEffect
  <2>2. \A r \in Sessions, t \in Targets : Delivering(r, t)' <=> Delivering(r, t)
    BY <2>1 DEF Delivering, Leads, Before, sessionVars
  <2>3. \A t \in Targets : NoneRestored(t)
    BY <2>1, <2>2 DEF NoneRestored, MayServe, Carries, Dealt, sessionVars
  <2>. QED
    BY <1>m, <2>1, <2>3, DupQuiet
<1>. QED
  BY <1>1, <1>2, <1>3, <1>4, <1>5, <1>6, <1>7, <1>8, <1>9
     DEF Next, StartStep, TickStep, FreeStep

\* However many ticks of a campaign overlap, die, are warned or restarted, each session, each
\* crash and each answer that came too late accounts for at most one delivery of a message
\* step (campaigns.py:301-385).
THEOREM DuplicatesBounded == Spec => []DuplicatesAccounted
<1>1. Init => TypeOK /\ TablesInv /\ HandInv /\ DupInv
  BY InitType, InitTables, InitHand, InitDup
<1>2. TypeOK /\ TablesInv /\ HandInv /\ DupInv /\ [Next]_vars
         => (TypeOK /\ TablesInv /\ HandInv /\ DupInv)'
  BY NextType, SessionsStep, TargetsStep, StartsStep, HandStep, DupStep DEF TablesInv
<1>3. TypeOK /\ DupInv => DuplicatesAccounted
  <2>. SUFFICES ASSUME TypeOK, DupInv, NEW t \in MessageTargets
                PROVE  served[t] <= Cardinality(Sessions) + crashes + lateAnswers[t]
    BY DEF DuplicatesAccounted, MessageTargets
  <2>1. Spent(t) \subseteq Sessions
    BY DEF Spent
  <2>2. /\ Cardinality(Spent(t)) \in Nat /\ Cardinality(Sessions) \in Nat
        /\ Cardinality(Spent(t)) <= Cardinality(Sessions)
    BY <2>1, FinitelyMany, CountGrows
  <2>3. served[t] \in Nat /\ lateAnswers[t] \in Nat /\ crashes \in Nat
    BY DEF TypeOK, MessageTargets
  <2>. QED
    BY <2>2, <2>3 DEF DupInv
<1>. QED
  BY <1>1, <1>2, <1>3, PTL DEF Spec

-----------------------------------------------------------------------------
(* Done campaigns are drained, as long as one session does one thing at a  *)
(* time and nobody stops a campaign: a second session could count the      *)
(* queued targets before the first has inserted them.                      *)

OneAtATime == "stop" \notin Happenings /\ \A s, q \in Sessions : s = q

\* Who is about to complete a campaign has found nothing queued, and who is about to
\* insert targets has made their campaign running.
Draining(s) ==
    /\ dirty[s].campaign = "done" => pc[s] = "commit" /\ Queued(tick[s].campaign) = {}
    /\ pc[s] = "inserting" => status[tick[s].campaign] # "done"

DrainInv == DoneIsDrained /\ \A s \in Sessions : Draining(s)

LEMMA InitDrain == Init => DrainInv
  BY DEF Init, DrainInv, DoneIsDrained, Draining, Clean

\* Nothing is queued anew, and no campaign completed.
LEMMA DrainsOn ==
  ASSUME DoneIsDrained,
         \A t \in Targets : result'[t] = "queued" => result[t] = "queued",
         \A c \in Campaigns : status'[c] = "done" => status[c] = "done" \/ Queued(c) = {}
  PROVE  DoneIsDrained'
  BY DEF DoneIsDrained, Queued

\* What a session holds that has nothing to complete and nothing to insert.
LEMMA NothingToDrain ==
  ASSUME NEW s \in Sessions, dirty'[s].campaign # "done", pc'[s] # "inserting"
  PROVE  Draining(s)'
  BY DEF Draining

\* Once released a session holds nothing.
LEMMA ReleaseDrains ==
  ASSUME TypeOK, NEW s \in Sessions, Release(s)
  PROVE  Draining(s)'
<1>1. dirty'[s] = Clean /\ pc'[s] = "idle"
  BY DEF Release, TypeOK
<1>. QED
  BY <1>1, NothingToDrain DEF Clean

LEMMA EndTickDrains ==
  ASSUME TypeOK, NEW s \in Sessions, NEW todo, NEW seen, EndTick(s, todo, seen), dirty'[s].campaign # "done"
  PROVE  Draining(s)'
<1>1. pc'[s] \in {"idle", "sweep"}
  BY DEF EndTick, TypeOK
<1>. QED
  BY <1>1, NothingToDrain

\* A commit queues nothing; a campaign is completed by who has found it drained.
LEMMA FlushDrains ==
  ASSUME TypeOK, DrainInv, NEW s \in Sessions, Flush(s)
  PROVE  DoneIsDrained'
<1>1. \A t \in Targets : dirty[s].result[t] # "queued"
  BY DEF TypeOK, DirtyStates, Outcome
<1>2. \A t \in Targets : result'[t] = "queued" => result[t] = "queued"
  BY <1>1 DEF Flush
<1>3. ASSUME NEW c \in Campaigns, status'[c] = "done" PROVE status[c] = "done" \/ Queued(c) = {}
  <2>1. status'[c] = IF c = tick[s].campaign /\ dirty[s].campaign # "clean" THEN dirty[s].campaign
                     ELSE status[c]
    BY DEF Flush, TypeOK
  <2>. QED
    BY <1>3, <2>1 DEF DrainInv, Draining
<1>. QED
  BY <1>2, <1>3, DrainsOn DEF DrainInv

LEMMA DrainStep ==
  ASSUME OneAtATime
  PROVE  TypeOK /\ DrainInv /\ [Next]_vars => DrainInv'
<1>. SUFFICES ASSUME TypeOK, DrainInv, [Next]_vars PROVE DrainInv'
  OBVIOUS
<1>0. ASSUME NEW s \in Sessions, DoneIsDrained', Draining(s)' PROVE DrainInv'
  BY <1>0 DEF DrainInv, OneAtATime
<1>q. ASSUME UNCHANGED <<status, result>> PROVE DoneIsDrained'
  BY <1>q DEF DrainInv, DoneIsDrained, Queued
<1>1. CASE Surroundings \/ UNCHANGED vars
  <2>1. CASE UNCHANGED <<status, result, pc, tick, dirty>>
    BY <1>q, <2>1 DEF DrainInv, Draining, Queued
  <2>2. ASSUME NEW c \in Campaigns, PauseCampaign(c) PROVE DrainInv'
    <3>1. status' = [status EXCEPT ![c] = "paused"] /\ UNCHANGED <<result, pc, tick, dirty>>
      BY <2>2 DEF PauseCampaign, SetStatus, targetVars, sessionVars
    <3>2. \A k \in Campaigns : status'[k] = "done" => status[k] = "done"
      BY <3>1 DEF TypeOK
    <3>3. DoneIsDrained'
      BY <3>1, <3>2, DrainsOn DEF DrainInv
    <3>4. \A s \in Sessions : tick[s].campaign \in Campaigns
      BY DEF TypeOK, TickStates
    <3>. QED
      BY <3>1, <3>2, <3>3, <3>4 DEF DrainInv, Draining, Queued
  <2>. QED
    BY <1>1, <2>1, <2>2
       DEF Surroundings, OneAtATime, OptOut, GiveConsent, SetWilling, PassHour, Rest, vars,
           campaignVars, targetVars, sessionVars
<1>2. ASSUME NEW s \in Sessions, NEW c \in Campaigns, LoadForStart(s, c) PROVE DrainInv'
  <2>1. /\ pc[s] = "idle" /\ pc' = [pc EXCEPT ![s] = "starting"]
        /\ UNCHANGED <<status, result, dirty>>
    BY <1>2 DEF LoadForStart, campaignVars, targetVars
  <2>2. dirty[s].campaign # "done"
    BY <2>1 DEF DrainInv, Draining
  <2>3. Draining(s)'
    BY <2>1, <2>2, NothingToDrain DEF TypeOK
  <2>. QED
    BY <1>0, <1>q, <2>1, <2>3
<1>3. ASSUME NEW s \in Sessions, CommitStart(s) PROVE DrainInv'
  <2>. DEFINE c == tick[s].campaign
  <2>1. /\ pc[s] = "starting" /\ status' = [status EXCEPT ![c] = "running"] /\ UNCHANGED result
        /\ \/ pc' = [pc EXCEPT ![s] = "inserting"] /\ UNCHANGED <<tick, dirty>>
           \/ Release(s)
    BY <1>3 DEF CommitStart, targetVars
  <2>2. c \in Campaigns
    BY DEF TypeOK, TickStates
  <2>3. DoneIsDrained'
    BY <2>1, <2>2, DrainsOn DEF TypeOK, DrainInv
  <2>4. CASE pc' = [pc EXCEPT ![s] = "inserting"] /\ UNCHANGED <<tick, dirty>>
    <3>1. dirty'[s].campaign # "done" /\ status'[tick'[s].campaign] = "running"
      BY <2>1, <2>2, <2>4 DEF TypeOK, DrainInv, Draining
    <3>2. Draining(s)'
      BY <3>1 DEF Draining
    <3>. QED
      BY <1>0, <2>3, <3>2
  <2>5. CASE Release(s)
    BY <1>0, <2>3, <2>5, ReleaseDrains
  <2>. QED
    BY <2>1, <2>4, <2>5
<1>4. ASSUME NEW s \in Sessions, Materialize(s) PROVE DrainInv'
  <2>. DEFINE c == tick[s].campaign
  <2>1. /\ pc[s] = "inserting" /\ Release(s) /\ UNCHANGED status
        /\ \A t \in Targets : CampaignOf[t] # c => result'[t] = result[t]
    BY <1>4 DEF Materialize, campaignVars
  <2>2. status[c] # "done"
    BY <2>1 DEF DrainInv, Draining
  <2>3. DoneIsDrained'
    BY <2>1, <2>2 DEF DrainInv, DoneIsDrained, Queued
  <2>. QED
    BY <1>0, <2>1, <2>3, ReleaseDrains
<1>5. ASSUME NEW s \in Sessions, NEW cs, Begin(s, cs) PROVE DrainInv'
  <2>1. /\ pc[s] = "idle" /\ pc' = [pc EXCEPT ![s] = "sweep"]
        /\ UNCHANGED <<status, result, dirty>>
    BY <1>5 DEF Begin, campaignVars, targetVars
  <2>2. dirty[s].campaign # "done"
    BY <2>1 DEF DrainInv, Draining
  <2>3. Draining(s)'
    BY <2>1, <2>2, NothingToDrain DEF TypeOK
  <2>. QED
    BY <1>0, <1>q, <2>1, <2>3
<1>6. ASSUME NEW s \in Sessions, NEW c \in Campaigns, PickAccounts(s, c) PROVE DrainInv'
  <2>1. /\ pc[s] = "sweep" /\ UNCHANGED <<status, result, dirty>>
        /\ \/ EndTick(s, tick[s].todo \ {c}, tick[s].last)
           \/ pc' = [pc EXCEPT ![s] = "targets"]
    BY <1>6 DEF PickAccounts, campaignVars, targetVars
  <2>2. dirty'[s].campaign # "done"
    BY <2>1 DEF DrainInv, Draining
  <2>3. Draining(s)'
    BY <2>1, <2>2, EndTickDrains, NothingToDrain DEF TypeOK
  <2>. QED
    BY <1>0, <1>q, <2>1, <2>3
<1>7. ASSUME NEW s \in Sessions, PickTargets(s) PROVE DrainInv'
  <2>1. /\ pc[s] = "targets" /\ pc' = [pc EXCEPT ![s] = "act"] /\ UNCHANGED <<status, result>>
        /\ \E f : dirty' = [dirty EXCEPT ![s].result = f]
    BY <1>7 DEF PickTargets, campaignVars, targetVars
  <2>2. dirty[s].campaign # "done" /\ dirty[s] \in DirtyStates
    BY <2>1, DirtyType DEF DrainInv, Draining
  <2>3. dirty'[s].campaign = dirty[s].campaign
    BY <2>1, <2>2 DEF TypeOK, DirtyStates
  <2>4. Draining(s)'
    BY <2>1, <2>2, <2>3, NothingToDrain DEF TypeOK
  <2>. QED
    BY <1>0, <1>q, <2>1, <2>4
<1>8. ASSUME NEW s \in Sessions, NEW outcome \in Outcomes, Act(s, outcome) PROVE DrainInv'
  <2>1. /\ pc[s] = "act" /\ UNCHANGED <<status, result>> /\ pc'[s] \in {"act", "commit", "record"}
        /\ \E a \in Accounts, t \in Targets :
              \/ dirty' = [dirty EXCEPT ![s] = Warned(@, a, t)]
              \/ dirty' = [dirty EXCEPT ![s] = Settled(@, tick[s], a, t, "failed")]
              \/ dirty' = [dirty EXCEPT ![s] = Joined(@, tick[s], a, t)]
              \/ dirty' = dirty
    BY <1>8 DEF Act, TypeOK, campaignVars, targetVars
  <2>2. dirty[s].campaign # "done" /\ dirty[s] \in DirtyStates
    BY <2>1, DirtyType DEF DrainInv, Draining
  <2>3. \A a \in Accounts, t \in Targets :
           /\ Warned(dirty[s], a, t).campaign = "paused"
           /\ Settled(dirty[s], tick[s], a, t, "failed").campaign = dirty[s].campaign
           /\ Joined(dirty[s], tick[s], a, t).campaign = dirty[s].campaign
    BY <2>2 DEF Warned, Settled, Joined, DirtyStates
  <2>4. dirty'[s].campaign # "done"
    BY <2>1, <2>2, <2>3 DEF TypeOK
  <2>. QED
    BY <1>0, <1>q, <2>1, <2>4, NothingToDrain
<1>9. ASSUME NEW s \in Sessions, Record(s) PROVE DrainInv'
  <2>1. /\ Flush(s) /\ pc'[s] = "act"
        /\ \E a \in Accounts, t \in Targets : dirty'[s] = AfterSend(s, a, t)
    BY <1>9 DEF Record, TypeOK
  <2>2. \A a \in Accounts, t \in Targets : AfterSend(s, a, t).campaign = "clean"
    BY CleanType DEF AfterSend, Settled, Clean
  <2>3. DoneIsDrained'
    BY <2>1, FlushDrains
  <2>. QED
    BY <1>0, <2>1, <2>2, <2>3, NothingToDrain
<1>10. ASSUME NEW s \in Sessions, Count(s) PROVE DrainInv'
  <2>1. /\ pc' = [pc EXCEPT ![s] = "commit"] /\ UNCHANGED <<status, result, tick>>
        /\ dirty' = [dirty EXCEPT ![s].campaign =
              IF Queued(tick[s].campaign) = {} THEN "done" ELSE "clean"]
    BY <1>10 DEF Count, Remaining, campaignVars, targetVars
  <2>2. pc'[s] = "commit"
    BY <2>1 DEF TypeOK
  <2>3. dirty'[s].campaign = IF Queued(tick[s].campaign) = {} THEN "done" ELSE "clean"
    <3>1. dirty[s] \in DirtyStates
      BY DirtyType
    <3>. QED
      BY <2>1, <3>1 DEF TypeOK, DirtyStates
  <2>4. Draining(s)'
    BY <2>1, <2>2, <2>3 DEF Draining, Queued
  <2>. QED
    BY <1>0, <1>q, <2>1, <2>4
<1>11. ASSUME NEW s \in Sessions, Commit(s) PROVE DrainInv'
  <2>1. /\ Flush(s) /\ dirty' = [dirty EXCEPT ![s] = Clean]
        /\ EndTick(s, tick[s].todo \ {tick[s].campaign}, tick[s].last)
    BY <1>11 DEF Commit
  <2>2. dirty'[s].campaign # "done"
    BY <2>1 DEF TypeOK, Clean
  <2>3. Draining(s)'
    BY <2>1, <2>2, EndTickDrains
  <2>4. DoneIsDrained'
    BY <2>1, FlushDrains
  <2>. QED
    BY <1>0, <2>3, <2>4
<1>12. ASSUME NEW s \in Sessions, CommitFails(s) \/ Crash(s) PROVE DrainInv'
  <2>1. Release(s) /\ UNCHANGED <<status, result>>
    BY <1>12 DEF CommitFails, Crash, campaignVars, targetVars
  <2>. QED
    BY <1>0, <1>q, <2>1, ReleaseDrains
<1>. QED
  BY <1>1, <1>2, <1>3, <1>4, <1>5, <1>6, <1>7, <1>8, <1>9, <1>10, <1>11, <1>12
     DEF Next, StartStep, TickStep, BeginSweep, BeginManual

\* As long as one session does one thing at a time and nobody stops campaigns: a campaign is
\* done only when none of its targets is queued, whatever crashes and warnings there are and
\* however often it is paused and started again (campaigns.py:181-204, 376-385).
THEOREM DoneMeansDrained == ASSUME OneAtATime PROVE Spec => []DoneIsDrained
<1>1. Init => TypeOK /\ DrainInv
  BY InitType, InitDrain
<1>2. TypeOK /\ DrainInv /\ [Next]_vars => (TypeOK /\ DrainInv)'
  BY NextType, DrainStep
<1>3. DrainInv => DoneIsDrained
  BY DEF DrainInv
<1>. QED
  BY <1>1, <1>2, <1>3, PTL DEF Spec
=============================================================================
