---------------------------- MODULE SenderProofs ----------------------------
EXTENDS Sender, FiniteSetTheorems, TLAPS

LEMMA CleanType == Clean \in DirtyStates
  BY DEF Clean, DirtyStates, Settled

LEMMA NoTickType == NoTick \in TickStates
<1>1. (CHOOSE j \in Jobs : TRUE) \in Jobs
  BY SenderAssumption
<1>. QED
  BY <1>1 DEF NoTick, TickStates

LEMMA InitType == Init => TypeOK
  BY CleanType, NoTickType DEF Init, TypeOK, JobStates, ContactStates, Settled

\* What a commit leaves in the database has the types of the columns.
LEMMA FlushType ==
  ASSUME TypeOK, NEW s \in Sessions, Flush(s)
  PROVE  /\ jobStatus' \in [Jobs -> JobStates]
         /\ jobLast' \in [Jobs -> Accounts \cup {NoId}]
         /\ targetStatus' \in [Targets -> Settled \cup {"absent", "queued"}]
         /\ accountStatus' \in [Accounts -> {"active", "quarantined"}]
         /\ actionsToday' \in [Accounts -> Nat]
         /\ rested' \in [Accounts -> BOOLEAN]
<1>1. dirty[s] \in DirtyStates /\ tick[s] \in TickStates
  BY DEF TypeOK
<1>2. jobStatus' \in [Jobs -> JobStates]
  BY <1>1 DEF Flush, TypeOK, DirtyStates, TickStates, JobStates
<1>3. jobLast' \in [Jobs -> Accounts \cup {NoId}]
  BY <1>1 DEF Flush, TypeOK, DirtyStates, TickStates
<1>4. targetStatus' \in [Targets -> Settled \cup {"absent", "queued"}]
  BY <1>1 DEF Flush, TypeOK, DirtyStates
<1>5. accountStatus' \in [Accounts -> {"active", "quarantined"}]
  BY <1>1 DEF Flush, TypeOK, DirtyStates
<1>6. actionsToday' \in [Accounts -> Nat]
  BY <1>1 DEF Flush, TypeOK, DirtyStates, TickStates
<1>7. rested' \in [Accounts -> BOOLEAN]
  BY <1>1 DEF Flush, TypeOK, DirtyStates
<1>. QED
  BY <1>2, <1>3, <1>4, <1>5, <1>6, <1>7

LEMMA EndTickType ==
  ASSUME TypeOK, NEW s \in Sessions, NEW todo \in SUBSET Jobs,
         NEW last \in [Jobs -> Accounts \cup {NoId}], EndTick(s, todo, last)
  PROVE  /\ tick' \in [Sessions -> TickStates]
         /\ pc' \in [Sessions -> {"idle", "sweep", "targets", "send", "record", "commit"}]
<1>1. [NoTick EXCEPT !.todo = todo, !.last = last] \in TickStates
  BY NoTickType DEF TickStates
<1>. QED
  BY <1>1, NoTickType DEF EndTick, TypeOK

LEMMA DeliverType ==
  ASSUME TypeOK, NEW a \in Accounts, NEW t \in Targets, Deliver(a, t)
  PROVE  /\ delivered' \in [Targets -> Nat]
         /\ sentBy' \in [Accounts -> Nat]
         /\ lateSends' \in [Contacts -> Nat]
         /\ sendsOff' \in [Jobs -> Nat]
<1>1. JobOf[t] \in Jobs /\ ContactOf[t] \in Contacts
  BY SenderAssumption
<1>2. delivered' \in [Targets -> Nat] /\ sentBy' \in [Accounts -> Nat]
  BY DEF Deliver, TypeOK
<1>3. lateSends' \in [Contacts -> Nat]
  BY <1>1 DEF Deliver, TypeOK
<1>4. sendsOff' \in [Jobs -> Nat]
  BY <1>1 DEF Deliver, TypeOK
<1>. QED
  BY <1>2, <1>3, <1>4

LEMMA WithAccountsType ==
  ASSUME TypeOK, NEW k \in TickStates, NEW j \in Jobs, NEW usable \in SUBSET Accounts
  PROVE  WithAccounts(k, j, usable) \in TickStates
<1>1. [a \in Accounts |-> IF a \in usable THEN actionsToday[a] ELSE 0] \in [Accounts -> Nat]
  BY DEF TypeOK
<1>2. Pivot(usable, k.last[j]) \in Accounts \cup {NoId}
  BY DEF Pivot, TickStates
<1>. QED
  BY <1>1, <1>2 DEF WithAccounts, TickStates

LEMMA UsedUpType ==
  ASSUME NEW k \in TickStates, NEW a \in Accounts, NEW t \in Targets
  PROVE  /\ UsedUp(k, a, t) \in TickStates
         /\ Remembering(UsedUp(k, a, t), a) \in TickStates
<1>1. UsedUp(k, a, t) \in TickStates
  BY DEF UsedUp, TickStates
<1>2. ASSUME NEW m \in TickStates
      PROVE  Remembering(m, a) \in TickStates
  BY DEF Remembering, TickStates
<1>. QED
  BY <1>1, <1>2

LEMMA WithJobsType ==
  ASSUME TypeOK, NEW k \in TickStates, NEW js \in SUBSET Jobs
  PROVE  WithJobs(k, js) \in TickStates
  BY DEF WithJobs, TypeOK, TickStates

LEMMA WithTargetsType ==
  ASSUME NEW k \in TickStates, NEW allowed \in SUBSET Targets
  PROVE  WithTargets(k, allowed) \in TickStates
  BY DEF WithTargets, TickStates

LEMMA SkippingType ==
  ASSUME NEW refused
  PROVE  Skipping(refused) \in DirtyStates
  BY CleanType DEF Skipping, DirtyStates, Settled

LEMMA AfterFailureType ==
  ASSUME NEW d \in DirtyStates, NEW t \in Targets
  PROVE  AfterFailure(d, t) \in DirtyStates
  BY DEF AfterFailure, DirtyStates, Settled

LEMMA AfterCountType ==
  ASSUME NEW d \in DirtyStates, NEW empty
  PROVE  AfterCount(d, empty) \in DirtyStates
  BY DEF AfterCount, DirtyStates

LEMMA AfterWarningType ==
  ASSUME NEW d \in DirtyStates, NEW a \in Accounts, NEW t \in Targets
  PROVE  AfterWarning(d, a, t) \in DirtyStates
  BY DEF AfterWarning, DirtyStates, Settled

LEMMA AfterSendType ==
  ASSUME NEW s \in Sessions, NEW a \in Accounts, NEW t \in Targets
  PROVE  AfterSend(s, a, t) \in DirtyStates
  BY CleanType DEF AfterSend, DirtyStates, Settled

LEMMA NextType == TypeOK /\ [Next]_vars => TypeOK'
<1>. SUFFICES ASSUME TypeOK, [Next]_vars
              PROVE  TypeOK'
  OBVIOUS
<1>. USE DEF jobVars, accountVars, sessionVars, ghosts
<1>1. ASSUME NEW j \in Jobs, NEW chosen \in SUBSET Contacts, AddTargets(j, chosen)
      PROVE  TypeOK'
  BY <1>1 DEF AddTargets, TypeOK, TickStates, DirtyStates
<1>2. ASSUME NEW j \in Jobs, StartJob(j) \/ PauseJob(j) \/ StopJob(j)
      PROVE  TypeOK'
  BY <1>2 DEF StartJob, PauseJob, StopJob, SetJobStatus, TypeOK, JobStates
<1>3. ASSUME NEW c \in Contacts, OptOut(c) \/ GiveConsent(c) \/ WithdrawConsent(c)
      PROVE  TypeOK'
  BY <1>3 DEF OptOut, GiveConsent, WithdrawConsent, SetContact, TypeOK, ContactStates
<1>4. ASSUME NEW a \in Accounts, Quarantine(a) \/ Reactivate(a) \/ Rest(a)
      PROVE  TypeOK'
  BY <1>4 DEF Quarantine, Reactivate, Rest, SetAccount, TypeOK
<1>5. ASSUME NEW s \in Sessions, NEW js \in SUBSET Jobs, Begin(s, js)
      PROVE  TypeOK'
  <2>1. tick' \in [Sessions -> TickStates]
    BY <1>5, WithJobsType DEF Begin, TypeOK
  <2>2. pc' \in [Sessions -> {"idle", "sweep", "targets", "send", "record", "commit"}]
    BY <1>5 DEF Begin, TypeOK
  <2>. QED
    BY <1>5, <2>1, <2>2 DEF Begin, TypeOK
<1>6. ASSUME NEW s \in Sessions, NEW j \in Jobs, PickAccounts(s, j)
      PROVE  TypeOK'
  <2>1. tick[s] \in TickStates
    BY DEF TypeOK
  <2>2. PICK inWindow \in Windows :
          IF UsableAccounts(inWindow) = {}
          THEN EndTick(s, tick[s].todo \ {j}, tick[s].last)
          ELSE /\ pc' = [pc EXCEPT ![s] = "targets"]
               /\ tick' = [tick EXCEPT ![s] =
                              WithAccounts(@, j, UsableAccounts(inWindow))]
    BY <1>6 DEF PickAccounts
  <2>3. /\ tick' \in [Sessions -> TickStates]
        /\ pc' \in [Sessions -> {"idle", "sweep", "targets", "send", "record", "commit"}]
    <3>1. CASE UsableAccounts(inWindow) = {}
      <4>1. tick[s].todo \ {j} \in SUBSET Jobs /\ tick[s].last \in [Jobs -> Accounts \cup {NoId}]
        BY <2>1 DEF TickStates
      <4>. QED
        BY <2>2, <3>1, <4>1, EndTickType
    <3>2. CASE UsableAccounts(inWindow) # {}
      <4>1. UsableAccounts(inWindow) \subseteq Accounts
        BY DEF UsableAccounts
      <4>2. WithAccounts(tick[s], j, UsableAccounts(inWindow)) \in TickStates
        BY <2>1, <4>1, WithAccountsType
      <4>. QED
        BY <2>2, <3>2, <4>2 DEF TypeOK
    <3>. QED
      BY <3>1, <3>2
  <2>. QED
    BY <1>6, <2>3 DEF PickAccounts, TypeOK
<1>7. ASSUME NEW s \in Sessions, PickTargets(s)
      PROVE  TypeOK'
  <2>1. PICK allowed \in SUBSET Targets, refused \in SUBSET Targets :
          /\ tick' = [tick EXCEPT ![s] = WithTargets(@, allowed)]
          /\ dirty' = [dirty EXCEPT ![s] = Skipping(refused)]
    BY <1>7 DEF PickTargets, Queued
  <2>2. tick' \in [Sessions -> TickStates]
    BY <2>1, WithTargetsType DEF TypeOK
  <2>3. dirty' \in [Sessions -> DirtyStates]
    BY <2>1, SkippingType DEF TypeOK
  <2>. QED
    BY <1>7, <2>2, <2>3 DEF PickTargets, TypeOK
<1>8. ASSUME NEW s \in Sessions, FailTarget(s)
      PROVE  TypeOK'
  <2>1. PICK a \in Accounts, t \in Targets :
          /\ tick' = [tick EXCEPT ![s] = UsedUp(@, a, t)]
          /\ dirty' = [dirty EXCEPT ![s] = AfterFailure(@, t)]
    BY <1>8 DEF FailTarget
  <2>2. tick' \in [Sessions -> TickStates]
    BY <2>1, UsedUpType DEF TypeOK
  <2>3. dirty' \in [Sessions -> DirtyStates]
    BY <2>1, AfterFailureType DEF TypeOK
  <2>. QED
    BY <1>8, <2>2, <2>3 DEF FailTarget, TypeOK
<1>9. ASSUME NEW s \in Sessions, NEW outcome \in Outcomes, Send(s, outcome)
      PROVE  TypeOK'
  <2>1. PICK a \in Accounts, t \in Targets :
          /\ IF outcome \in {"sent", "late"} THEN Deliver(a, t) ELSE UNCHANGED ghosts
          /\ IF outcome = "sent"
             THEN pc' = [pc EXCEPT ![s] = "record"] /\ UNCHANGED dirty
             ELSE /\ pc' = [pc EXCEPT ![s] = "commit"]
                  /\ dirty' = [dirty EXCEPT ![s] = AfterWarning(@, a, t)]
    BY <1>9 DEF Send
  <2>2. /\ delivered' \in [Targets -> Nat]
        /\ sentBy' \in [Accounts -> Nat]
        /\ lateSends' \in [Contacts -> Nat]
        /\ sendsOff' \in [Jobs -> Nat]
    BY <2>1, DeliverType DEF TypeOK
  <2>3. dirty' \in [Sessions -> DirtyStates]
    <3>1. AfterWarning(dirty[s], a, t) \in DirtyStates
      BY AfterWarningType DEF TypeOK
    <3>2. dirty' = dirty \/ dirty' = [dirty EXCEPT ![s] = AfterWarning(dirty[s], a, t)]
      BY <2>1
    <3>. QED
      BY <3>1, <3>2 DEF TypeOK
  <2>4. pc' \in [Sessions -> {"idle", "sweep", "targets", "send", "record", "commit"}]
    BY <2>1 DEF TypeOK
  <2>. QED
    BY <1>9, <2>2, <2>3, <2>4 DEF Send, TypeOK
<1>10. ASSUME NEW s \in Sessions, Record(s)
       PROVE  TypeOK'
  <2>1. PICK a \in Accounts, t \in Targets :
          /\ tick' = [tick EXCEPT ![s] = Remembering(UsedUp(@, a, t), a)]
          /\ dirty' = [dirty EXCEPT ![s] = AfterSend(s, a, t)]
    BY <1>10 DEF Record
  <2>2. tick' \in [Sessions -> TickStates]
    BY <2>1, UsedUpType DEF TypeOK
  <2>3. dirty' \in [Sessions -> DirtyStates]
    BY <2>1, AfterSendType DEF TypeOK
  <2>. QED
    BY <1>10, <2>2, <2>3, FlushType DEF Record, TypeOK
<1>11. ASSUME NEW s \in Sessions, Count(s)
       PROVE  TypeOK'
  <2>1. dirty' \in [Sessions -> DirtyStates]
    BY <1>11, AfterCountType DEF Count, TypeOK
  <2>. QED
    BY <1>11, <2>1 DEF Count, TypeOK
<1>12. ASSUME NEW s \in Sessions, Commit(s)
       PROVE  TypeOK'
  <2>1. tick[s].todo \ {tick[s].job} \in SUBSET Jobs
        /\ tick[s].last \in [Jobs -> Accounts \cup {NoId}]
    BY DEF TypeOK, TickStates
  <2>2. dirty' \in [Sessions -> DirtyStates]
    BY <1>12, CleanType DEF Commit, TypeOK
  <2>3. /\ tick' \in [Sessions -> TickStates]
        /\ pc' \in [Sessions -> {"idle", "sweep", "targets", "send", "record", "commit"}]
    BY <1>12, <2>1, EndTickType DEF Commit
  <2>. QED
    BY <1>12, <2>2, <2>3, FlushType DEF Commit, TypeOK
<1>13. ASSUME NEW s \in Sessions, Crash(s)
       PROVE  TypeOK'
  BY <1>13, CleanType, NoTickType, SenderAssumption DEF Crash, TypeOK
<1>14. CASE UNCHANGED vars
  BY <1>14 DEF vars, TypeOK
<1>15. ASSUME NEW s \in Sessions, BeginSweep(s)
       PROVE  TypeOK'
  BY <1>15, <1>5 DEF BeginSweep
<1>16. ASSUME NEW s \in Sessions, NEW j \in Jobs, BeginManual(s, j)
       PROVE  TypeOK'
  BY <1>16, <1>5 DEF BeginManual
<1>. QED
  BY <1>1, <1>2, <1>3, <1>4, <1>6, <1>7, <1>8, <1>9, <1>10, <1>11, <1>12, <1>13, <1>14,
     <1>15, <1>16
     DEF Next, Manager, Surroundings, TickStep

-----------------------------------------------------------------------------
\* Every reachable state is well typed, for any number of jobs, targets, accounts
\* and overlapping sessions: in particular what the ticks write are values the
\* tables' CHECK constraints (db/models/sender.py) allow.
THEOREM TypeCorrect == Spec => []TypeOK
  BY InitType, NextType, PTL DEF Spec

\* A settled target stays settled: the requests only queue rows that do not exist
\* yet, and a commit writes nothing but outcomes.
THEOREM SettledIsFinal == Spec => SettledStays
<1>1. ASSUME TypeOK, [Next]_vars, NEW t \in Targets, targetStatus[t] \in Settled
      PROVE  targetStatus'[t] \in Settled
  <2>1. ASSUME NEW s \in Sessions, Flush(s)
        PROVE  targetStatus'[t] \in Settled
    BY <1>1, <2>1 DEF Flush, TypeOK, DirtyStates
  <2>2. ASSUME NEW j \in Jobs, NEW chosen \in SUBSET Contacts, AddTargets(j, chosen)
        PROVE  targetStatus'[t] \in Settled
    BY <1>1, <2>2 DEF AddTargets, IsNew, Settled
  <2>3. CASE UNCHANGED targetStatus
    BY <1>1, <2>3
  <2>. QED
    BY <1>1, <2>1, <2>2, <2>3
       DEF Next, Manager, Surroundings, TickStep, StartJob, PauseJob, StopJob, SetJobStatus,
           OptOut, GiveConsent, WithdrawConsent, SetContact, Quarantine, Reactivate, SetAccount,
           Rest, BeginSweep, BeginManual, Begin, PickAccounts, PickTargets, FailTarget, Send,
           Record, Count, Commit, Crash, vars
<1>2. TypeOK /\ [Next]_vars =>
         [\A t \in Targets : targetStatus[t] \in Settled => targetStatus'[t] \in Settled]_vars
  BY <1>1
<1>. QED
  BY <1>2, TypeCorrect, PTL DEF Spec, SettledStays

-----------------------------------------------------------------------------
(* What the operators a tick is made of do to the fields they touch.        *)

LEMMA CleanFields ==
  /\ \A t \in Targets : Clean.target[t] = "clean"
  /\ Clean.acted = {}
  BY DEF Clean

LEMMA SkippingFields ==
  ASSUME NEW refused, NEW t \in Targets
  PROVE  /\ Skipping(refused).target[t] = (IF t \in refused THEN "skipped" ELSE "clean")
         /\ Skipping(refused).acted = {}
  BY DEF Skipping, Clean

LEMMA AfterFailureFields ==
  ASSUME NEW d \in DirtyStates, NEW t \in Targets
  PROVE  /\ AfterFailure(d, t).target = [d.target EXCEPT ![t] = "failed"]
         /\ AfterFailure(d, t).acted = d.acted
  BY DEF AfterFailure, DirtyStates

LEMMA AfterWarningFields ==
  ASSUME NEW d \in DirtyStates, NEW a \in Accounts, NEW t \in Targets
  PROVE  /\ AfterWarning(d, a, t).target = [d.target EXCEPT ![t] = "failed"]
         /\ AfterWarning(d, a, t).acted = d.acted
  BY DEF AfterWarning, DirtyStates

LEMMA AfterSendFields ==
  ASSUME NEW s \in Sessions, NEW a \in Accounts, NEW t \in Targets
  PROVE  /\ AfterSend(s, a, t).target = [u \in Targets |-> IF u = t THEN "sent" ELSE "clean"]
         /\ AfterSend(s, a, t).acted = {a}
  BY DEF AfterSend, Clean

LEMMA AfterCountFields ==
  ASSUME NEW d \in DirtyStates, NEW empty
  PROVE  AfterCount(d, empty).target = d.target /\ AfterCount(d, empty).acted = d.acted
  BY DEF AfterCount, DirtyStates

LEMMA UsedUpFields ==
  ASSUME NEW k \in TickStates, NEW a \in Accounts, NEW t \in Targets
  PROVE  /\ UsedUp(k, a, t).left = k.left \ {a}
         /\ UsedUp(k, a, t).work = k.work \ {t}
         /\ UsedUp(k, a, t).seen = k.seen
         /\ UsedUp(k, a, t).pivot = k.pivot
         /\ Remembering(UsedUp(k, a, t), a).left = k.left \ {a}
         /\ Remembering(UsedUp(k, a, t), a).work = k.work \ {t}
         /\ Remembering(UsedUp(k, a, t), a).seen = k.seen
         /\ Remembering(UsedUp(k, a, t), a).pivot = k.pivot
  BY DEF UsedUp, Remembering, TickStates

LEMMA NoTickFields ==
  NoTick.left = {} /\ NoTick.work = {} /\ NoTick.seen = [a \in Accounts |-> 0]
  BY DEF NoTick

-----------------------------------------------------------------------------
(* Truthfulness.  SentIsTruthful alone is not inductive: a commit may write  *)
(* "sent" for any target, so the invariant must say that the assignments not *)
(* yet written, and the one that Record is about to make, are true as well.  *)

Least(t, work) == t \in work /\ \A u \in work : t <= u

DirtyIsTruthful ==
    \A s \in Sessions, t \in Targets : dirty[s].target[t] = "sent" => delivered[t] > 0

FlightIsTruthful ==
    \A s \in Sessions, t \in Targets :
        pc[s] = "record" /\ Least(t, tick[s].work) => delivered[t] > 0

TruthInv == SentIsTruthful /\ DirtyIsTruthful /\ FlightIsTruthful

LEMMA InitTruth == Init => TruthInv
  BY CleanFields
     DEF Init, TruthInv, SentIsTruthful, DirtyIsTruthful, FlightIsTruthful

\* A step that changes one session only and loses no delivery keeps what the
\* other sessions hold true.
LEMMA OthersTruthful ==
  ASSUME TypeOK, TruthInv, NEW s \in Sessions,
         \A r \in Sessions \ {s} : dirty'[r] = dirty[r] /\ tick'[r] = tick[r] /\ pc'[r] = pc[r],
         \A t \in Targets : delivered[t] > 0 => delivered'[t] > 0,
         \A t \in Targets : dirty'[s].target[t] = "sent" => delivered'[t] > 0,
         \A t \in Targets :
            pc'[s] = "record" /\ Least(t, tick'[s].work) => delivered'[t] > 0
  PROVE  DirtyIsTruthful' /\ FlightIsTruthful'
<1>1. ASSUME NEW r \in Sessions, NEW t \in Targets, dirty'[r].target[t] = "sent"
      PROVE  delivered'[t] > 0
  BY <1>1 DEF TruthInv, DirtyIsTruthful
<1>2. ASSUME NEW r \in Sessions, NEW t \in Targets, pc'[r] = "record", Least(t, tick'[r].work)
      PROVE  delivered'[t] > 0
  BY <1>2 DEF TruthInv, FlightIsTruthful
<1>. QED
  BY <1>1, <1>2 DEF DirtyIsTruthful, FlightIsTruthful, Least

\* A commit keeps the statuses true.
LEMMA FlushTruthful ==
  ASSUME TypeOK, TruthInv, NEW s \in Sessions, Flush(s), UNCHANGED delivered
  PROVE  SentIsTruthful'
  BY DEF Flush, TypeOK, TruthInv, SentIsTruthful, DirtyIsTruthful

LEMMA TruthStep == TypeOK /\ TruthInv /\ [Next]_vars => TruthInv'
<1>. SUFFICES ASSUME TypeOK, TruthInv, [Next]_vars
              PROVE  TruthInv'
  OBVIOUS
<1>. USE DEF jobVars, accountVars, sessionVars, ghosts
<1>1. CASE UNCHANGED <<sessionVars, delivered>> /\ UNCHANGED targetStatus
  BY <1>1 DEF TruthInv, SentIsTruthful, DirtyIsTruthful, FlightIsTruthful, Least
<1>2. ASSUME NEW j \in Jobs, NEW chosen \in SUBSET Contacts, AddTargets(j, chosen)
      PROVE  TruthInv'
  <2>1. \A t \in Targets : targetStatus'[t] = "sent" => targetStatus[t] = "sent"
    BY <1>2 DEF AddTargets
  <2>. QED
    BY <1>2, <2>1
       DEF AddTargets, TruthInv, SentIsTruthful, DirtyIsTruthful, FlightIsTruthful, Least
<1>3. ASSUME NEW s \in Sessions, NEW js \in SUBSET Jobs, Begin(s, js)
      PROVE  TruthInv'
  <2>1. DirtyIsTruthful' /\ FlightIsTruthful'
    <3>. SUFFICES /\ \A r \in Sessions \ {s} : tick'[r] = tick[r] /\ pc'[r] = pc[r]
                  /\ pc'[s] # "record"
      BY <1>3, OthersTruthful DEF Begin, TruthInv, DirtyIsTruthful
    <3>. QED
      BY <1>3 DEF Begin, TypeOK
  <2>. QED
    BY <1>3, <2>1 DEF Begin, TruthInv, SentIsTruthful
<1>4. ASSUME NEW s \in Sessions, NEW j \in Jobs, PickAccounts(s, j)
      PROVE  TruthInv'
  <2>1. DirtyIsTruthful' /\ FlightIsTruthful'
    <3>. SUFFICES /\ \A r \in Sessions \ {s} : tick'[r] = tick[r] /\ pc'[r] = pc[r]
                  /\ pc'[s] # "record"
      BY <1>4, OthersTruthful DEF PickAccounts, TruthInv, DirtyIsTruthful
    <3>. QED
      BY <1>4 DEF PickAccounts, EndTick, TypeOK
  <2>. QED
    BY <1>4, <2>1 DEF PickAccounts, TruthInv, SentIsTruthful
<1>5. ASSUME NEW s \in Sessions, PickTargets(s)
      PROVE  TruthInv'
  <2>1. PICK allowed, refused :
          /\ tick' = [tick EXCEPT ![s] = WithTargets(@, allowed)]
          /\ dirty' = [dirty EXCEPT ![s] = Skipping(refused)]
    BY <1>5 DEF PickTargets
  <2>2. \A t \in Targets : dirty'[s].target[t] # "sent"
    BY <2>1, SkippingFields DEF TypeOK
  <2>3. pc'[s] # "record" /\ \A r \in Sessions \ {s} : pc'[r] = pc[r]
    BY <1>5 DEF PickTargets, TypeOK
  <2>4. \A r \in Sessions \ {s} : dirty'[r] = dirty[r] /\ tick'[r] = tick[r]
    BY <2>1 DEF TypeOK
  <2>5. DirtyIsTruthful' /\ FlightIsTruthful'
    BY <1>5, <2>2, <2>3, <2>4, OthersTruthful DEF PickTargets
  <2>. QED
    BY <1>5, <2>5 DEF PickTargets, TruthInv, SentIsTruthful
<1>6. ASSUME NEW s \in Sessions, FailTarget(s)
      PROVE  TruthInv'
  <2>1. PICK a \in Accounts, t \in Targets :
          /\ tick' = [tick EXCEPT ![s] = UsedUp(@, a, t)]
          /\ dirty' = [dirty EXCEPT ![s] = AfterFailure(@, t)]
    BY <1>6 DEF FailTarget
  <2>2. dirty[s] \in DirtyStates /\ dirty'[s] = AfterFailure(dirty[s], t)
    BY <2>1 DEF TypeOK
  <2>3. dirty'[s].target = [dirty[s].target EXCEPT ![t] = "failed"]
    BY <2>2, AfterFailureFields
  <2>4. \A u \in Targets : dirty'[s].target[u] = "sent" => dirty[s].target[u] = "sent"
    BY <2>2, <2>3 DEF DirtyStates
  <2>5. pc' = pc /\ pc[s] = "send" /\ delivered' = delivered /\ targetStatus' = targetStatus
    BY <1>6 DEF FailTarget
  <2>6. \A r \in Sessions \ {s} : dirty'[r] = dirty[r] /\ tick'[r] = tick[r]
    BY <2>1 DEF TypeOK
  <2>7. DirtyIsTruthful' /\ FlightIsTruthful'
    BY <2>4, <2>5, <2>6, OthersTruthful DEF TruthInv, DirtyIsTruthful
  <2>. QED
    BY <2>5, <2>7 DEF TruthInv, SentIsTruthful
<1>7. ASSUME NEW s \in Sessions, NEW outcome \in Outcomes, Send(s, outcome)
      PROVE  TruthInv'
  <2>1. PICK a \in Accounts, t \in Targets :
          /\ IsTurn(s, a, t)
          /\ IF outcome \in {"sent", "late"} THEN Deliver(a, t) ELSE UNCHANGED ghosts
          /\ IF outcome = "sent"
             THEN pc' = [pc EXCEPT ![s] = "record"] /\ UNCHANGED dirty
             ELSE /\ pc' = [pc EXCEPT ![s] = "commit"]
                  /\ dirty' = [dirty EXCEPT ![s] = AfterWarning(@, a, t)]
    BY <1>7 DEF Send
  <2>2. tick' = tick /\ targetStatus' = targetStatus
    BY <1>7 DEF Send
  <2>3. \A u \in Targets : delivered[u] > 0 => delivered'[u] > 0
    BY <2>1 DEF Deliver, TypeOK
  <2>4. \A r \in Sessions \ {s} : dirty'[r] = dirty[r] /\ pc'[r] = pc[r]
    BY <2>1 DEF TypeOK
  <2>5. \A u \in Targets : dirty'[s].target[u] = "sent" => dirty[s].target[u] = "sent"
    <3>1. dirty[s] \in DirtyStates
      BY DEF TypeOK
    <3>2. CASE outcome = "sent"
      BY <2>1, <3>2
    <3>3. CASE outcome # "sent"
      <4>1. dirty'[s] = AfterWarning(dirty[s], a, t)
        BY <2>1, <3>3 DEF TypeOK
      <4>2. dirty'[s].target = [dirty[s].target EXCEPT ![t] = "failed"]
        BY <3>1, <4>1, AfterWarningFields
      <4>. QED
        BY <3>1, <4>2 DEF DirtyStates
    <3>. QED
      BY <3>2, <3>3
  <2>6. ASSUME NEW u \in Targets, pc'[s] = "record", Least(u, tick'[s].work)
        PROVE  delivered'[u] > 0
    <3>1. outcome = "sent"
      BY <2>1, <2>6 DEF TypeOK
    <3>2. delivered'[t] > 0
      BY <2>1, <3>1 DEF Deliver, TypeOK
    <3>3. u = t
      BY <2>1, <2>2, <2>6, SenderAssumption DEF IsTurn, Least
    <3>. QED
      BY <3>2, <3>3
  <2>7. DirtyIsTruthful' /\ FlightIsTruthful'
    BY <2>2, <2>3, <2>4, <2>5, <2>6, OthersTruthful DEF TruthInv, DirtyIsTruthful
  <2>. QED
    BY <2>2, <2>3, <2>7 DEF TruthInv, SentIsTruthful
<1>8. ASSUME NEW s \in Sessions, Record(s)
      PROVE  TruthInv'
  <2>1. PICK a \in Accounts, t \in Targets :
          /\ IsTurn(s, a, t)
          /\ tick' = [tick EXCEPT ![s] = Remembering(UsedUp(@, a, t), a)]
          /\ dirty' = [dirty EXCEPT ![s] = AfterSend(s, a, t)]
    BY <1>8 DEF Record
  <2>2. delivered[t] > 0
    BY <1>8, <2>1 DEF Record, IsTurn, Least, TruthInv, FlightIsTruthful
  <2>3. dirty'[s].target = [u \in Targets |-> IF u = t THEN "sent" ELSE "clean"]
    BY <2>1, AfterSendFields DEF TypeOK
  <2>4. pc'[s] # "record" /\ \A r \in Sessions \ {s} : pc'[r] = pc[r]
    BY <1>8 DEF Record, TypeOK
  <2>5. \A r \in Sessions \ {s} : dirty'[r] = dirty[r] /\ tick'[r] = tick[r]
    BY <2>1 DEF TypeOK
  <2>6. DirtyIsTruthful' /\ FlightIsTruthful'
    BY <1>8, <2>2, <2>3, <2>4, <2>5, OthersTruthful DEF Record
  <2>7. SentIsTruthful'
    BY <1>8, FlushTruthful DEF Record
  <2>. QED
    BY <2>6, <2>7 DEF TruthInv
<1>9. ASSUME NEW s \in Sessions, Count(s)
      PROVE  TruthInv'
  <2>1. dirty'[s].target = dirty[s].target
    BY <1>9, AfterCountFields DEF Count, TypeOK
  <2>2. pc'[s] # "record" /\ \A r \in Sessions \ {s} : pc'[r] = pc[r] /\ dirty'[r] = dirty[r]
    BY <1>9 DEF Count, TypeOK
  <2>3. delivered' = delivered /\ tick' = tick /\ targetStatus' = targetStatus
    BY <1>9 DEF Count
  <2>4. DirtyIsTruthful' /\ FlightIsTruthful'
    BY <2>1, <2>2, <2>3, OthersTruthful DEF TruthInv, DirtyIsTruthful
  <2>. QED
    BY <2>3, <2>4 DEF TruthInv, SentIsTruthful
<1>10. ASSUME NEW s \in Sessions, Commit(s) \/ Crash(s)
       PROVE  TruthInv'
  <2>1. dirty'[s] = Clean /\ \A r \in Sessions \ {s} : dirty'[r] = dirty[r]
    BY <1>10 DEF Commit, Crash, TypeOK
  <2>2. pc'[s] # "record" /\ \A r \in Sessions \ {s} : pc'[r] = pc[r] /\ tick'[r] = tick[r]
    BY <1>10 DEF Commit, Crash, EndTick, TypeOK
  <2>3. delivered' = delivered
    BY <1>10 DEF Commit, Crash
  <2>4. DirtyIsTruthful' /\ FlightIsTruthful'
    BY <2>1, <2>2, <2>3, CleanFields, OthersTruthful
  <2>5. SentIsTruthful'
    <3>1. CASE Commit(s)
      BY <2>3, <3>1, FlushTruthful DEF Commit
    <3>2. CASE Crash(s)
      BY <3>2 DEF Crash, TruthInv, SentIsTruthful
    <3>. QED
      BY <1>10, <3>1, <3>2
  <2>. QED
    BY <2>4, <2>5 DEF TruthInv
<1>11. ASSUME NEW s \in Sessions, BeginSweep(s)
       PROVE  TruthInv'
  BY <1>11, <1>3 DEF BeginSweep
<1>12. ASSUME NEW s \in Sessions, NEW j \in Jobs, BeginManual(s, j)
       PROVE  TruthInv'
  BY <1>12, <1>3 DEF BeginManual
<1>13. ASSUME NEW j \in Jobs, StartJob(j) \/ PauseJob(j) \/ StopJob(j)
       PROVE  TruthInv'
  BY <1>13, <1>1 DEF StartJob, PauseJob, StopJob, SetJobStatus
<1>14. CASE Surroundings
  BY <1>14, <1>1 DEF Surroundings, OptOut, GiveConsent, WithdrawConsent, SetContact,
     Quarantine, Reactivate, SetAccount, Rest
<1>15. CASE UNCHANGED vars
  BY <1>15, <1>1 DEF vars
<1>. QED
  BY <1>2, <1>4, <1>5, <1>6, <1>7, <1>8, <1>9, <1>10, <1>11, <1>12, <1>13, <1>14, <1>15
     DEF Next, Manager, TickStep

\* Whatever number of ticks overlap, die or lose an answer, a target recorded as
\* sent was delivered.
THEOREM Truthful == Spec => []SentIsTruthful
<1>1. Init => TypeOK /\ TruthInv
  BY InitType, InitTruth
<1>2. TypeOK /\ TruthInv /\ [Next]_vars => (TypeOK /\ TruthInv)'
  BY NextType, TruthStep
<1>3. TruthInv => SentIsTruthful
  BY DEF TruthInv
<1>. QED
  BY <1>1, <1>2, <1>3, PTL DEF Spec

-----------------------------------------------------------------------------
(* The daily counter.  A commit writes the value a session loaded plus one,  *)
(* not the column plus one, so the invariant speaks of the loaded values:    *)
(* those of the accounts still to be used or with an unwritten action are    *)
(* below the cap, and a loaded value plus the action it stands for never     *)
(* exceeds what the account has sent.                                        *)

SeenBelowCap ==
    \A s \in Sessions, a \in Accounts :
        a \in tick[s].left \cup dirty[s].acted => tick[s].seen[a] < Cap[a]

SeenIsHonest ==
    \A s \in Sessions, a \in Accounts :
        /\ tick[s].seen[a] <= sentBy[a]
        /\ a \in dirty[s].acted => tick[s].seen[a] < sentBy[a]
        /\ pc[s] = "record" /\ IsNext(a, tick[s].left, tick[s].pivot)
              => tick[s].seen[a] < sentBy[a]

\* Nothing is assigned before the targets are loaded.
NothingActedEarly ==
    \A s \in Sessions : pc[s] \in {"idle", "sweep", "targets"} => dirty[s].acted = {}

CountInv == CapHeld /\ CounterHonest /\ SeenBelowCap /\ SeenIsHonest /\ NothingActedEarly

LEMMA InitCount == Init => CountInv
  BY CleanFields, NoTickFields, SenderAssumption
     DEF Init, CountInv, CapHeld, CounterHonest, SeenBelowCap, SeenIsHonest, NothingActedEarly

\* The parts of the invariant that speak of one session.
SessionCounts(s) ==
    /\ \A a \in Accounts :
        /\ a \in tick[s].left \cup dirty[s].acted => tick[s].seen[a] < Cap[a]
        /\ tick[s].seen[a] <= sentBy[a]
        /\ a \in dirty[s].acted => tick[s].seen[a] < sentBy[a]
        /\ pc[s] = "record" /\ IsNext(a, tick[s].left, tick[s].pivot)
              => tick[s].seen[a] < sentBy[a]
    /\ pc[s] \in {"idle", "sweep", "targets"} => dirty[s].acted = {}

LEMMA CountInvBySession ==
  CountInv <=> CapHeld /\ CounterHonest /\ \A s \in Sessions : SessionCounts(s)
  BY DEF CountInv, SeenBelowCap, SeenIsHonest, NothingActedEarly, SessionCounts

LEMMA OthersCount ==
  ASSUME TypeOK, CountInv, NEW s \in Sessions, SessionCounts(s)',
         \A r \in Sessions \ {s} : dirty'[r] = dirty[r] /\ tick'[r] = tick[r] /\ pc'[r] = pc[r],
         \A a \in Accounts : sentBy[a] <= sentBy'[a],
         sentBy' \in [Accounts -> Nat]
  PROVE  \A r \in Sessions : SessionCounts(r)'
<1>1. ASSUME NEW r \in Sessions \ {s}
      PROVE  SessionCounts(r)'
  <2>1. SessionCounts(r)
    BY CountInvBySession
  <2>2. dirty'[r] = dirty[r] /\ tick'[r] = tick[r] /\ pc'[r] = pc[r]
    OBVIOUS
  <2>3. ASSUME NEW a \in Accounts
        PROVE  /\ tick[r].seen[a] <= sentBy'[a]
               /\ tick[r].seen[a] < sentBy[a] => tick[r].seen[a] < sentBy'[a]
    <3>1. tick[r].seen[a] \in Nat /\ sentBy[a] \in Nat /\ sentBy'[a] \in Nat
      BY DEF TypeOK, TickStates
    <3>2. tick[r].seen[a] <= sentBy[a] /\ sentBy[a] <= sentBy'[a]
      BY <2>1 DEF SessionCounts
    <3>. QED
      BY <3>1, <3>2
  <2>. QED
    BY <2>1, <2>2, <2>3 DEF SessionCounts
<1>. QED
  BY <1>1

LEMMA FlushCounts ==
  ASSUME TypeOK, CountInv, NEW s \in Sessions, Flush(s), UNCHANGED sentBy
  PROVE  CapHeld' /\ CounterHonest'
<1>1. tick[s] \in TickStates /\ dirty[s] \in DirtyStates
  BY DEF TypeOK
<1>2. ASSUME NEW a \in Accounts
      PROVE  actionsToday'[a] <= Cap[a] /\ actionsToday'[a] <= sentBy[a]
  <2>1. CASE a \in dirty[s].acted
    <3>1. actionsToday'[a] = tick[s].seen[a] + 1
      BY <2>1 DEF Flush
    <3>2. tick[s].seen[a] < Cap[a] /\ tick[s].seen[a] < sentBy[a]
      BY <2>1 DEF CountInv, SeenBelowCap, SeenIsHonest
    <3>. QED
      BY <1>1, <3>1, <3>2, SenderAssumption DEF TypeOK, TickStates
  <2>2. CASE a \notin dirty[s].acted
    BY <2>2 DEF Flush, CountInv, CapHeld, CounterHonest
  <2>. QED
    BY <2>1, <2>2
<1>. QED
  BY <1>2 DEF CapHeld, CounterHonest

\* A session that ends its tick counts nothing any more.
LEMMA EndTickCounts ==
  ASSUME TypeOK, NEW s \in Sessions, NEW todo \in SUBSET Jobs,
         NEW last \in [Jobs -> Accounts \cup {NoId}], EndTick(s, todo, last),
         dirty'[s].acted = {}, UNCHANGED sentBy
  PROVE  SessionCounts(s)'
<1>1. tick'[s] = NoTick \/ tick'[s] = [NoTick EXCEPT !.todo = todo, !.last = last]
  BY DEF EndTick, TypeOK
<1>2. tick'[s].left = {} /\ tick'[s].seen = [a \in Accounts |-> 0]
  BY <1>1, NoTickFields DEF NoTick
<1>3. pc'[s] # "record"
  BY DEF EndTick, TypeOK
<1>. QED
  BY <1>2, <1>3 DEF SessionCounts, TypeOK

LEMMA CountStep == TypeOK /\ CountInv /\ [Next]_vars => CountInv'
<1>. SUFFICES ASSUME TypeOK, CountInv, [Next]_vars
              PROVE  CountInv'
  OBVIOUS
<1>. USE DEF jobVars, accountVars, sessionVars, ghosts
<1>a. \A a \in Accounts : sentBy[a] <= sentBy[a]
  BY DEF TypeOK
<1>b. CapHeld /\ CounterHonest /\ \A s \in Sessions : SessionCounts(s)
  BY CountInvBySession
<1>c. ASSUME UNCHANGED <<actionsToday, sentBy>>, NEW s \in Sessions, SessionCounts(s)',
             \A r \in Sessions \ {s} :
                dirty'[r] = dirty[r] /\ tick'[r] = tick[r] /\ pc'[r] = pc[r]
      PROVE  CountInv'
  <2>1. \A r \in Sessions : SessionCounts(r)'
    BY <1>c, <1>a, OthersCount DEF TypeOK
  <2>2. CapHeld' /\ CounterHonest'
    BY <1>b, <1>c DEF CapHeld, CounterHonest
  <2>. QED
    BY <2>1, <2>2, CountInvBySession
       DEF CountInv, SeenBelowCap, SeenIsHonest, NothingActedEarly, SessionCounts
<1>1. CASE UNCHANGED <<sessionVars, actionsToday, sentBy>>
  BY <1>1, <1>b DEF CountInv, CapHeld, CounterHonest, SeenBelowCap, SeenIsHonest,
     NothingActedEarly, SessionCounts, IsNext
<1>2. ASSUME NEW s \in Sessions, NEW js \in SUBSET Jobs, Begin(s, js)
      PROVE  CountInv'
  <2>1. tick'[s] = WithJobs(tick[s], js) /\ tick[s] \in TickStates
    BY <1>2 DEF Begin, TypeOK
  <2>2. /\ tick'[s].left = tick[s].left /\ tick'[s].seen = tick[s].seen
        /\ pc[s] = "idle" /\ pc'[s] = "sweep" /\ dirty'[s] = dirty[s]
        /\ \A r \in Sessions \ {s} : tick'[r] = tick[r] /\ pc'[r] = pc[r]
    BY <1>2, <2>1 DEF Begin, TypeOK, WithJobs, TickStates
  <2>3. SessionCounts(s)'
    BY <1>2, <1>b, <2>2 DEF Begin, SessionCounts
  <2>. QED
    BY <1>2, <1>c, <2>2, <2>3 DEF Begin
<1>3. ASSUME NEW s \in Sessions, NEW j \in Jobs, PickAccounts(s, j)
      PROVE  CountInv'
  <2>0. PICK inWindow \in Windows :
          IF UsableAccounts(inWindow) = {}
          THEN EndTick(s, tick[s].todo \ {j}, tick[s].last)
          ELSE /\ pc' = [pc EXCEPT ![s] = "targets"]
               /\ tick' = [tick EXCEPT ![s] =
                              WithAccounts(@, j, UsableAccounts(inWindow))]
    BY <1>3 DEF PickAccounts
  <2>1. dirty' = dirty /\ dirty[s].acted = {} /\ sentBy' = sentBy
    BY <1>3, <1>b DEF PickAccounts, SessionCounts
  <2>2. tick[s] \in TickStates
    BY DEF TypeOK
  <2>3. SessionCounts(s)'
    <3>1. CASE UsableAccounts(inWindow) = {}
      <4>1. tick[s].todo \ {j} \in SUBSET Jobs /\ tick[s].last \in [Jobs -> Accounts \cup {NoId}]
        BY <2>2 DEF TickStates
      <4>. QED
        BY <2>0, <2>1, <3>1, <4>1, EndTickCounts
    <3>2. CASE UsableAccounts(inWindow) # {}
      <4>. DEFINE usable == UsableAccounts(inWindow)
      <4>1. tick'[s] = WithAccounts(tick[s], j, usable) /\ pc'[s] = "targets"
        BY <2>0, <3>2 DEF TypeOK
      <4>2. /\ tick'[s].left = usable
            /\ tick'[s].seen = [a \in Accounts |->
                                  IF a \in usable THEN actionsToday[a] ELSE 0]
        BY <2>2, <4>1 DEF WithAccounts, TickStates
      <4>3. \A a \in usable : actionsToday[a] < Cap[a]
        BY DEF UsableAccounts, UnderDailyCap
      <4>4. \A a \in Accounts : actionsToday[a] <= sentBy[a] /\ 0 <= sentBy[a]
        BY <1>b DEF CounterHonest, TypeOK
      <4>. HIDE DEF usable
      <4>. QED
        BY <2>1, <4>1, <4>2, <4>3, <4>4 DEF SessionCounts
    <3>. QED
      BY <3>1, <3>2
  <2>4. \A r \in Sessions \ {s} : tick'[r] = tick[r] /\ pc'[r] = pc[r]
    BY <2>0 DEF EndTick, TypeOK
  <2>. QED
    BY <1>3, <1>c, <2>1, <2>3, <2>4 DEF PickAccounts
<1>4. ASSUME NEW s \in Sessions, PickTargets(s)
      PROVE  CountInv'
  <2>1. PICK allowed, refused :
          /\ tick' = [tick EXCEPT ![s] = WithTargets(@, allowed)]
          /\ dirty' = [dirty EXCEPT ![s] = Skipping(refused)]
    BY <1>4 DEF PickTargets
  <2>2. dirty'[s].acted = {}
    BY <2>1 DEF TypeOK, Skipping, Clean
  <2>3. tick'[s] = WithTargets(tick[s], allowed) /\ tick[s] \in TickStates
    BY <2>1 DEF TypeOK
  <2>4. tick'[s].left = tick[s].left /\ tick'[s].seen = tick[s].seen
    BY <2>3 DEF WithTargets, TickStates
  <2>5. pc'[s] = "send" /\ \A r \in Sessions \ {s} :
            dirty'[r] = dirty[r] /\ tick'[r] = tick[r] /\ pc'[r] = pc[r]
    BY <1>4, <2>1 DEF PickTargets, TypeOK
  <2>6. SessionCounts(s)'
    BY <1>4, <1>b, <2>2, <2>4, <2>5 DEF PickTargets, SessionCounts
  <2>. QED
    BY <1>4, <1>c, <2>5, <2>6 DEF PickTargets
<1>5. ASSUME NEW s \in Sessions, FailTarget(s)
      PROVE  CountInv'
  <2>1. PICK a \in Accounts, t \in Targets :
          /\ tick' = [tick EXCEPT ![s] = UsedUp(@, a, t)]
          /\ dirty' = [dirty EXCEPT ![s] = AfterFailure(@, t)]
    BY <1>5 DEF FailTarget
  <2>2. tick[s] \in TickStates /\ dirty[s] \in DirtyStates
    BY DEF TypeOK
  <2>3. tick'[s] = UsedUp(tick[s], a, t) /\ dirty'[s] = AfterFailure(dirty[s], t)
    BY <2>1 DEF TypeOK
  <2>4. /\ tick'[s].left = tick[s].left \ {a}
        /\ tick'[s].seen = tick[s].seen
        /\ dirty'[s].acted = dirty[s].acted
    <3>1. /\ UsedUp(tick[s], a, t).left = tick[s].left \ {a}
          /\ UsedUp(tick[s], a, t).seen = tick[s].seen
      BY <2>2, UsedUpFields
    <3>2. AfterFailure(dirty[s], t).acted = dirty[s].acted
      BY <2>2, AfterFailureFields
    <3>. QED
      BY <2>3, <3>1, <3>2
  <2>5. pc' = pc /\ pc[s] = "send" /\ sentBy' = sentBy /\ actionsToday' = actionsToday
    BY <1>5 DEF FailTarget
  <2>6. SessionCounts(s)'
    BY <1>b, <2>4, <2>5 DEF SessionCounts
  <2>7. \A r \in Sessions \ {s} : dirty'[r] = dirty[r] /\ tick'[r] = tick[r]
    BY <2>1 DEF TypeOK
  <2>. QED
    BY <1>c, <2>5, <2>6, <2>7
<1>6. ASSUME NEW s \in Sessions, NEW outcome \in Outcomes, Send(s, outcome)
      PROVE  CountInv'
  <2>1. PICK a \in Accounts, t \in Targets :
          /\ IsTurn(s, a, t)
          /\ IF outcome \in {"sent", "late"} THEN Deliver(a, t) ELSE UNCHANGED ghosts
          /\ IF outcome = "sent"
             THEN pc' = [pc EXCEPT ![s] = "record"] /\ UNCHANGED dirty
             ELSE /\ pc' = [pc EXCEPT ![s] = "commit"]
                  /\ dirty' = [dirty EXCEPT ![s] = AfterWarning(@, a, t)]
    BY <1>6 DEF Send
  <2>2. tick' = tick /\ actionsToday' = actionsToday
    BY <1>6 DEF Send
  <2>3. \A b \in Accounts : sentBy[b] <= sentBy'[b]
    BY <2>1 DEF Deliver, TypeOK
  <2>4. sentBy' \in [Accounts -> Nat]
    BY NextType DEF TypeOK
  <2>5. \A r \in Sessions \ {s} : dirty'[r] = dirty[r] /\ pc'[r] = pc[r]
    BY <2>1 DEF TypeOK
  <2>6. dirty'[s].acted = dirty[s].acted
    <3>1. dirty'[s] = dirty[s] \/ dirty'[s] = AfterWarning(dirty[s], a, t)
      BY <2>1 DEF TypeOK
    <3>2. dirty[s] \in DirtyStates
      BY DEF TypeOK
    <3>3. AfterWarning(dirty[s], a, t).acted = dirty[s].acted
      BY <3>2, AfterWarningFields
    <3>. QED
      BY <3>1, <3>3
  <2>7. tick[s] \in TickStates
    BY DEF TypeOK
  <2>8. ASSUME NEW b \in Accounts, pc'[s] = "record", IsNext(b, tick[s].left, tick[s].pivot)
        PROVE  tick[s].seen[b] < sentBy'[b]
    <3>1. outcome = "sent"
      BY <2>1, <2>8 DEF TypeOK
    <3>2. b = a
      BY <2>1, <2>7, <2>8, SenderAssumption DEF IsTurn, IsNext, NoId, TickStates
    <3>3. sentBy'[a] = sentBy[a] + 1
      BY <2>1, <3>1 DEF Deliver, TypeOK
    <3>4. tick[s].seen[a] <= sentBy[a]
      BY <1>b DEF SessionCounts
    <3>. QED
      BY <2>7, <3>2, <3>3, <3>4 DEF TypeOK, TickStates
  <2>9. pc'[s] \in {"record", "commit"}
    BY <2>1 DEF TypeOK
  <2>10. SessionCounts(s)'
    <3>1. ASSUME NEW b \in Accounts
          PROVE  /\ b \in tick[s].left \cup dirty'[s].acted => tick[s].seen[b] < Cap[b]
                 /\ tick[s].seen[b] <= sentBy'[b]
                 /\ b \in dirty'[s].acted => tick[s].seen[b] < sentBy'[b]
      <4>1. /\ b \in tick[s].left \cup dirty[s].acted => tick[s].seen[b] < Cap[b]
            /\ tick[s].seen[b] <= sentBy[b]
            /\ b \in dirty[s].acted => tick[s].seen[b] < sentBy[b]
        BY <1>b DEF SessionCounts
      <4>2. tick[s].seen[b] \in Nat /\ sentBy[b] \in Nat /\ sentBy'[b] \in Nat
        BY <2>4, <2>7 DEF TypeOK, TickStates
      <4>. QED
        BY <2>3, <2>6, <4>1, <4>2
    <3>. QED
      BY <2>2, <2>8, <2>9, <3>1 DEF SessionCounts
  <2>11. \A r \in Sessions : SessionCounts(r)'
    BY <2>2, <2>3, <2>4, <2>5, <2>10, OthersCount
  <2>12. CapHeld' /\ CounterHonest'
    <3>1. CapHeld'
      BY <1>b, <2>2 DEF CapHeld
    <3>2. ASSUME NEW b \in Accounts
          PROVE  actionsToday[b] <= sentBy'[b]
      BY <1>b, <2>3, <2>4 DEF CounterHonest, TypeOK
    <3>. QED
      BY <2>2, <3>1, <3>2 DEF CounterHonest
  <2>. QED
    BY <2>11, <2>12
       DEF CountInv, SeenBelowCap, SeenIsHonest, NothingActedEarly, SessionCounts
<1>7. ASSUME NEW s \in Sessions, Record(s)
      PROVE  CountInv'
  <2>1. PICK a \in Accounts, t \in Targets :
          /\ IsTurn(s, a, t)
          /\ tick' = [tick EXCEPT ![s] = Remembering(UsedUp(@, a, t), a)]
          /\ dirty' = [dirty EXCEPT ![s] = AfterSend(s, a, t)]
    BY <1>7 DEF Record
  <2>2. tick[s] \in TickStates
    BY DEF TypeOK
  <2>3. tick'[s] = Remembering(UsedUp(tick[s], a, t), a) /\ dirty'[s] = AfterSend(s, a, t)
    BY <2>1 DEF TypeOK
  <2>4. /\ tick'[s].left = tick[s].left \ {a}
        /\ tick'[s].seen = tick[s].seen
        /\ dirty'[s].acted = {a}
    <3>1. /\ Remembering(UsedUp(tick[s], a, t), a).left = tick[s].left \ {a}
          /\ Remembering(UsedUp(tick[s], a, t), a).seen = tick[s].seen
      BY <2>2, UsedUpFields
    <3>2. AfterSend(s, a, t).acted = {a}
      BY AfterSendFields
    <3>. QED
      BY <2>3, <3>1, <3>2
  <2>5. tick[s].seen[a] < sentBy[a] /\ tick[s].seen[a] < Cap[a]
    BY <1>7, <1>b, <2>1 DEF Record, IsTurn, IsNext, SessionCounts
  <2>6. pc'[s] = "send" /\ sentBy' = sentBy /\ \A r \in Sessions \ {s} :
            dirty'[r] = dirty[r] /\ tick'[r] = tick[r] /\ pc'[r] = pc[r]
    BY <1>7, <2>1 DEF Record, TypeOK
  <2>7. SessionCounts(s)'
    BY <1>b, <2>4, <2>5, <2>6 DEF SessionCounts
  <2>8. \A r \in Sessions : SessionCounts(r)'
    BY <1>a, <2>6, <2>7, OthersCount DEF TypeOK
  <2>9. CapHeld' /\ CounterHonest'
    BY <1>7, <2>6, FlushCounts DEF Record
  <2>. QED
    BY <2>8, <2>9
       DEF CountInv, SeenBelowCap, SeenIsHonest, NothingActedEarly, SessionCounts
<1>8. ASSUME NEW s \in Sessions, Count(s)
      PROVE  CountInv'
  <2>1. dirty'[s].acted = dirty[s].acted
    BY <1>8, AfterCountFields DEF Count, TypeOK
  <2>2. /\ pc'[s] = "commit" /\ tick' = tick
        /\ \A r \in Sessions \ {s} : pc'[r] = pc[r] /\ dirty'[r] = dirty[r]
    BY <1>8 DEF Count, TypeOK
  <2>3. SessionCounts(s)'
    BY <1>8, <1>b, <2>1, <2>2 DEF Count, SessionCounts
  <2>. QED
    BY <1>8, <1>c, <2>2, <2>3 DEF Count
<1>9. ASSUME NEW s \in Sessions, Commit(s) \/ Crash(s)
      PROVE  CountInv'
  <2>1. dirty'[s].acted = {} /\ sentBy' = sentBy
    BY <1>9, CleanFields DEF Commit, Crash, TypeOK
  <2>2. SessionCounts(s)'
    <3>1. CASE Commit(s)
      <4>1. tick[s].todo \ {tick[s].job} \in SUBSET Jobs
            /\ tick[s].last \in [Jobs -> Accounts \cup {NoId}]
        BY DEF TypeOK, TickStates
      <4>. QED
        BY <2>1, <3>1, <4>1, EndTickCounts DEF Commit
    <3>2. CASE Crash(s)
      BY <2>1, <3>2, NoTickFields DEF Crash, TypeOK, SessionCounts
    <3>. QED
      BY <1>9, <3>1, <3>2
  <2>3. \A r \in Sessions \ {s} : dirty'[r] = dirty[r] /\ tick'[r] = tick[r] /\ pc'[r] = pc[r]
    BY <1>9 DEF Commit, Crash, EndTick, TypeOK
  <2>4. \A r \in Sessions : SessionCounts(r)'
    BY <1>a, <2>1, <2>2, <2>3, OthersCount DEF TypeOK
  <2>5. CapHeld' /\ CounterHonest'
    <3>1. CASE Commit(s)
      BY <2>1, <3>1, FlushCounts DEF Commit
    <3>2. CASE Crash(s)
      BY <1>b, <3>2 DEF Crash, CapHeld, CounterHonest
    <3>. QED
      BY <1>9, <3>1, <3>2
  <2>. QED
    BY <2>4, <2>5
       DEF CountInv, SeenBelowCap, SeenIsHonest, NothingActedEarly, SessionCounts
<1>10. ASSUME NEW s \in Sessions, BeginSweep(s)
       PROVE  CountInv'
  BY <1>10, <1>2 DEF BeginSweep
<1>11. ASSUME NEW s \in Sessions, NEW j \in Jobs, BeginManual(s, j)
       PROVE  CountInv'
  BY <1>11, <1>2 DEF BeginManual
<1>12. CASE Manager
  BY <1>12, <1>1 DEF Manager, AddTargets, StartJob, PauseJob, StopJob, SetJobStatus
<1>13. CASE Surroundings
  BY <1>13, <1>1 DEF Surroundings, OptOut, GiveConsent, WithdrawConsent, SetContact,
     Quarantine, Reactivate, SetAccount, Rest
<1>14. CASE UNCHANGED vars
  BY <1>14, <1>1 DEF vars
<1>. QED
  BY <1>3, <1>4, <1>5, <1>6, <1>7, <1>8, <1>9, <1>10, <1>11, <1>12, <1>13, <1>14
     DEF Next, TickStep

\* Whatever ticks overlap and overwrite each other's counter, actions_today stays
\* within the daily cap and never counts an action that did not happen.
THEOREM CounterSafe == Spec => []CounterKept
<1>1. Init => TypeOK /\ CountInv
  BY InitType, InitCount
<1>2. TypeOK /\ CountInv /\ [Next]_vars => (TypeOK /\ CountInv)'
  BY NextType, CountStep
<1>3. CountInv => CounterKept
  BY DEF CountInv, CounterKept
<1>. QED
  BY <1>1, <1>2, <1>3, PTL DEF Spec
=============================================================================
