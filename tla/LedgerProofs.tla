----------------------------- MODULE LedgerProofs -----------------------------
(***************************************************************************)
(* One worker that neither dies nor loses an answer keeps the ledger of     *)
(* SendLedger: every step of Sender is a step of the ledger or leaves it as  *)
(* it is.                                                                  *)
(***************************************************************************)
EXTENDS SenderProofs

\* What the promise depends on (KeepsLedger).  Without the first, a target is delivered by two
\* sessions; without the second, again by the sweep after the crash; without the third, one
\* that was delivered is recorded as failed.
OneWorker ==
    /\ \A r, s \in Sessions : r = s
    /\ MaxCrashes = 0
    /\ "late" \notin Outcomes

-----------------------------------------------------------------------------
(* The invariant.  What the ledger knows of a target does not say whether it  *)
(* may be delivered once more: that depends on what the session has in hand.  *)

\* The target whose delivery Record is about to record.
Delivering(s, t) == pc[s] = "record" /\ Least(t, tick[s].work)

\* An outcome in the database is true, and no target is delivered twice.
OutcomeIsTrue(t) ==
    /\ delivered[t] <= 1
    /\ targetStatus[t] \in {"absent", "failed", "skipped"} => delivered[t] = 0
    /\ targetStatus[t] = "sent" => delivered[t] = 1

\* Whoever has delivered a target that is still queued has it in hand.
DeliveryIsHeld(t) ==
    targetStatus[t] = "queued" /\ delivered[t] = 1 =>
        \E s \in Sessions : Delivering(s, t) \/ dirty[s].target[t] = "sent"

\* An outcome that is not yet written is true too, and the target is queued.
AssignedIsTrue(s, t) ==
    dirty[s].target[t] # "clean" =>
        /\ targetStatus[t] = "queued"
        /\ delivered[t] = (IF dirty[s].target[t] = "sent" THEN 1 ELSE 0)

\* A target that a session is going to send is queued and not delivered.
WorkIsOpen(s, t) ==
    pc[s] \in {"send", "record"} /\ t \in tick[s].work =>
        /\ targetStatus[t] = "queued"
        /\ dirty[s].target[t] = "clean"
        /\ delivered[t] = (IF Delivering(s, t) THEN 1 ELSE 0)

\* A tick begins with nothing assigned.
BeginsClean(s) == pc[s] \in {"idle", "sweep", "targets"} => dirty[s] = Clean

LedgerInv ==
    /\ \A t \in Targets : OutcomeIsTrue(t) /\ DeliveryIsHeld(t)
    /\ \A s \in Sessions, t \in Targets : AssignedIsTrue(s, t) /\ WorkIsOpen(s, t)
    /\ \A s \in Sessions : BeginsClean(s)

LEMMA InitLedger == Init => LedgerInv
  BY CleanFields
     DEF Init, LedgerInv, OutcomeIsTrue, DeliveryIsHeld, AssignedIsTrue, WorkIsOpen, BeginsClean

LEMMA TargetType ==
  ASSUME TypeOK, NEW s \in Sessions
  PROVE  dirty[s].target \in [Targets -> Settled \cup {"clean"}]
  BY DEF TypeOK, DirtyStates

\* A step of the only session: what is to be shown of it.
LEMMA OneSession ==
  ASSUME OneWorker, NEW s \in Sessions,
         \A t \in Targets : OutcomeIsTrue(t)' /\ AssignedIsTrue(s, t)' /\ WorkIsOpen(s, t)',
         BeginsClean(s)',
         \A t \in Targets : targetStatus'[t] = "queued" /\ delivered'[t] = 1 =>
             Delivering(s, t)' \/ dirty'[s].target[t] = "sent"
  PROVE  LedgerInv'
<1>1. \A r \in Sessions : r = s
  BY DEF OneWorker
<1>2. \A t \in Targets : DeliveryIsHeld(t)'
  BY DEF DeliveryIsHeld
<1>3. \A r \in Sessions, t \in Targets : AssignedIsTrue(r, t)' /\ WorkIsOpen(r, t)'
  BY <1>1
<1>4. \A r \in Sessions : BeginsClean(r)'
  BY <1>1
<1>. QED
  BY <1>2, <1>3, <1>4 DEF LedgerInv

\* What the invariant says when there is but one session.
LEMMA HeldByOne ==
  ASSUME OneWorker, LedgerInv, NEW s \in Sessions, NEW t \in Targets,
         targetStatus[t] = "queued", delivered[t] = 1
  PROVE  Delivering(s, t) \/ dirty[s].target[t] = "sent"
  BY DEF OneWorker, LedgerInv, DeliveryIsHeld

-----------------------------------------------------------------------------
(* A commit writes true outcomes.                                           *)

LEMMA FlushLedger ==
  ASSUME TypeOK, LedgerInv, NEW s \in Sessions, Flush(s), UNCHANGED delivered, NEW t \in Targets
  PROVE  /\ OutcomeIsTrue(t)'
         /\ targetStatus'[t] = (IF dirty[s].target[t] = "clean" THEN targetStatus[t]
                                ELSE dirty[s].target[t])
<1>1. targetStatus'[t] = (IF dirty[s].target[t] = "clean" THEN targetStatus[t]
                          ELSE dirty[s].target[t])
  BY DEF Flush
<1>2. OutcomeIsTrue(t) /\ AssignedIsTrue(s, t)
  BY DEF LedgerInv
<1>3. dirty[s].target[t] \in {"clean", "sent", "failed", "skipped"}
  BY DEF TypeOK, DirtyStates, Settled
<1>. QED
  BY <1>1, <1>2, <1>3 DEF OutcomeIsTrue, AssignedIsTrue
LEMMA LedgerStep == OneWorker /\ TypeOK /\ LedgerInv /\ [Next]_vars => LedgerInv'
<1>. SUFFICES ASSUME OneWorker, TypeOK, LedgerInv, [Next]_vars
              PROVE  LedgerInv'
  OBVIOUS
<1>. USE DEF jobVars, accountVars, sessionVars, ghosts
<1>1. CASE UNCHANGED <<sessionVars, delivered>> /\ UNCHANGED targetStatus
  BY <1>1
     DEF LedgerInv, OutcomeIsTrue, DeliveryIsHeld, AssignedIsTrue, WorkIsOpen, BeginsClean,
         Delivering, Least
<1>2. ASSUME NEW j \in Jobs, NEW chosen \in SUBSET Contacts, AddTargets(j, chosen)
      PROVE  LedgerInv'
  <2>1. /\ UNCHANGED <<sessionVars, delivered>>
        /\ \A t \in Targets : \/ targetStatus'[t] = targetStatus[t]
                              \/ targetStatus[t] = "absent" /\ targetStatus'[t] = "queued"
    <3>1. UNCHANGED <<sessionVars, delivered>>
      BY <1>2 DEF AddTargets
    <3>2. \A t \in Targets : \/ targetStatus'[t] = targetStatus[t]
                             \/ targetStatus[t] = "absent" /\ targetStatus'[t] = "queued"
      BY <1>2 DEF AddTargets, IsNew
    <3>. QED
      BY <3>1, <3>2
  <2>2. \A t \in Targets : OutcomeIsTrue(t)' /\ DeliveryIsHeld(t)'
    BY <2>1 DEF LedgerInv, OutcomeIsTrue, DeliveryIsHeld, Delivering, Least
  <2>3. \A s \in Sessions, t \in Targets : AssignedIsTrue(s, t)' /\ WorkIsOpen(s, t)'
    BY <2>1 DEF LedgerInv, AssignedIsTrue, WorkIsOpen, Delivering, Least
  <2>4. \A s \in Sessions : BeginsClean(s)'
    BY <2>1 DEF LedgerInv, BeginsClean
  <2>. QED
    BY <2>2, <2>3, <2>4 DEF LedgerInv
<1>3. ASSUME NEW s \in Sessions, UNCHANGED <<targetStatus, dirty, delivered>>,
             pc[s] \in {"idle", "sweep"}, pc'[s] \in {"idle", "sweep", "targets"}
      PROVE  LedgerInv'
  <2>1. dirty[s] = Clean /\ \A t \in Targets : dirty[s].target[t] = "clean" /\ ~Delivering(s, t)
    BY <1>3, CleanFields DEF LedgerInv, BeginsClean, Delivering
  <2>2. \A t \in Targets : ~(targetStatus[t] = "queued" /\ delivered[t] = 1)
    BY <2>1, HeldByOne
  <2>3. \A t \in Targets : OutcomeIsTrue(t)' /\ AssignedIsTrue(s, t)' /\ WorkIsOpen(s, t)'
    BY <1>3, <2>1 DEF LedgerInv, OutcomeIsTrue, AssignedIsTrue, WorkIsOpen
  <2>. QED
    BY <1>3, <2>1, <2>2, <2>3, OneSession DEF BeginsClean
<1>4. ASSUME NEW s \in Sessions, NEW js \in SUBSET Jobs, Begin(s, js)
      PROVE  LedgerInv'
  BY <1>3, <1>4 DEF Begin, TypeOK
<1>5. ASSUME NEW s \in Sessions, NEW j \in Jobs, PickAccounts(s, j)
      PROVE  LedgerInv'
  BY <1>3, <1>5 DEF PickAccounts, EndTick, TypeOK
<1>6. ASSUME NEW s \in Sessions, PickTargets(s)
      PROVE  LedgerInv'
  <2>. DEFINE queued == Queued(tick[s].job)
              allowed == {t \in queued : MayMessage(ContactOf[t])}
  <2>1. /\ pc[s] = "targets" /\ pc'[s] = "send"
        /\ tick'[s] = WithTargets(tick[s], allowed)
        /\ dirty'[s] = Skipping(queued \ allowed)
        /\ UNCHANGED <<targetStatus, delivered>>
    BY <1>6 DEF PickTargets, TypeOK
  <2>2. tick'[s].work = allowed
    BY <2>1 DEF WithTargets, TypeOK, TickStates
  <2>3. \A t \in Targets : dirty'[s].target[t] = (IF t \in queued \ allowed THEN "skipped" ELSE "clean")
    BY <2>1, SkippingFields
  <2>4. \A t \in Targets : dirty[s].target[t] = "clean" /\ ~Delivering(s, t)
    BY <2>1, CleanFields DEF LedgerInv, BeginsClean, Delivering
  <2>5. \A t \in Targets : targetStatus[t] = "queued" => delivered[t] = 0
    BY <2>4, HeldByOne DEF LedgerInv, OutcomeIsTrue, TypeOK
  <2>6. \A t \in queued : targetStatus[t] = "queued"
    BY DEF Queued
  <2>7. \A t \in Targets : OutcomeIsTrue(t)'
    BY <2>1 DEF LedgerInv, OutcomeIsTrue
  <2>8. \A t \in Targets : AssignedIsTrue(s, t)'
    BY <2>1, <2>3, <2>5, <2>6 DEF AssignedIsTrue
  <2>9. \A t \in Targets : WorkIsOpen(s, t)'
    BY <2>1, <2>2, <2>3, <2>5, <2>6 DEF WorkIsOpen, Delivering
  <2>. QED
    BY <2>1, <2>5, <2>7, <2>8, <2>9, OneSession DEF BeginsClean
<1>7. ASSUME NEW s \in Sessions, FailTarget(s)
      PROVE  LedgerInv'
  <2>1. PICK a \in Accounts, t \in Targets :
          /\ IsTurn(s, a, t)
          /\ tick'[s] = UsedUp(tick[s], a, t)
          /\ dirty'[s] = AfterFailure(dirty[s], t)
    BY <1>7 DEF FailTarget, TypeOK
  <2>2. pc' = pc /\ pc[s] = "send" /\ UNCHANGED <<targetStatus, delivered>>
    BY <1>7 DEF FailTarget
  <2>3. dirty[s] \in DirtyStates /\ tick[s] \in TickStates
    BY DEF TypeOK
  <2>4. \A u \in Targets :
          dirty'[s].target[u] = (IF u = t THEN "failed" ELSE dirty[s].target[u])
    <3>1. dirty'[s].target = [dirty[s].target EXCEPT ![t] = "failed"]
      BY <2>1, <2>3, AfterFailureFields
    <3>. QED
      BY <3>1, TargetType
  <2>5. tick'[s].work = tick[s].work \ {t}
    BY <2>1, <2>3, UsedUpFields
  <2>6. targetStatus[t] = "queued" /\ delivered[t] = 0 /\ \A u \in Targets : ~Delivering(s, u)
    BY <2>1, <2>2 DEF IsTurn, LedgerInv, WorkIsOpen, Delivering
  <2>7. \A u \in Targets : OutcomeIsTrue(u)' /\ AssignedIsTrue(s, u)'
    BY <2>2, <2>4, <2>6 DEF LedgerInv, OutcomeIsTrue, AssignedIsTrue
  <2>8. \A u \in Targets : WorkIsOpen(s, u)'
    BY <2>2, <2>4, <2>5, <2>6 DEF LedgerInv, WorkIsOpen, Delivering
  <2>9. \A u \in Targets : targetStatus'[u] = "queued" /\ delivered'[u] = 1 =>
             dirty'[s].target[u] = "sent"
    BY <2>2, <2>4, <2>6, HeldByOne
  <2>. QED
    BY <2>2, <2>7, <2>8, <2>9, OneSession DEF BeginsClean
<1>8. ASSUME NEW s \in Sessions, NEW outcome \in Outcomes, Send(s, outcome)
      PROVE  LedgerInv'
  <2>1. PICK a \in Accounts, t \in Targets :
          /\ IsTurn(s, a, t)
          /\ IF outcome = "sent" THEN Deliver(a, t) ELSE UNCHANGED delivered
          /\ IF outcome = "sent"
             THEN pc'[s] = "record" /\ UNCHANGED dirty
             ELSE pc'[s] = "commit" /\ dirty'[s] = AfterWarning(dirty[s], a, t)
    BY <1>8 DEF Send, OneWorker, TypeOK
  <2>2. tick' = tick /\ targetStatus' = targetStatus /\ pc[s] = "send"
    BY <1>8 DEF Send
  <2>3. /\ targetStatus[t] = "queued" /\ delivered[t] = 0 /\ dirty[s].target[t] = "clean"
        /\ \A u \in Targets : ~Delivering(s, u)
    BY <2>1, <2>2 DEF IsTurn, LedgerInv, WorkIsOpen, Delivering
  <2>4. CASE outcome = "sent"
    <3>1. \A u \in Targets : delivered'[u] = (IF u = t THEN 1 ELSE delivered[u])
      BY <2>1, <2>3, <2>4 DEF Deliver, TypeOK
    <3>2. \A u \in Targets : Delivering(s, u)' <=> u = t
      BY <2>1, <2>2, <2>4, SenderAssumption DEF IsTurn, Delivering, Least
    <3>3. \A u \in Targets : OutcomeIsTrue(u)'
      BY <2>2, <2>3, <3>1 DEF LedgerInv, OutcomeIsTrue
    <3>4. \A u \in Targets : AssignedIsTrue(s, u)'
      BY <2>1, <2>2, <2>3, <2>4, <3>1 DEF LedgerInv, AssignedIsTrue
    <3>5. \A u \in Targets : WorkIsOpen(s, u)'
      BY <2>1, <2>2, <2>3, <2>4, <3>1, <3>2 DEF LedgerInv, WorkIsOpen
    <3>6. \A u \in Targets : targetStatus'[u] = "queued" /\ delivered'[u] = 1 =>
             Delivering(s, u)' \/ dirty'[s].target[u] = "sent"
      BY <2>1, <2>2, <2>3, <2>4, <3>1, <3>2, HeldByOne
    <3>. QED
      BY <2>1, <2>4, <3>3, <3>4, <3>5, <3>6, OneSession DEF BeginsClean
  <2>5. CASE outcome # "sent"
    <3>1. \A u \in Targets : dirty'[s].target[u] = (IF u = t THEN "failed" ELSE dirty[s].target[u])
      <4>1. dirty[s] \in DirtyStates /\ dirty'[s] = AfterWarning(dirty[s], a, t)
        BY <2>1, <2>5 DEF TypeOK
      <4>2. dirty'[s].target = [dirty[s].target EXCEPT ![t] = "failed"]
        BY <4>1, AfterWarningFields
      <4>. QED
        BY <4>2, TargetType
    <3>2. pc'[s] = "commit" /\ delivered' = delivered
      BY <2>1, <2>5
    <3>3. \A u \in Targets : OutcomeIsTrue(u)' /\ AssignedIsTrue(s, u)' /\ WorkIsOpen(s, u)'
      BY <2>2, <2>3, <3>1, <3>2 DEF LedgerInv, OutcomeIsTrue, AssignedIsTrue, WorkIsOpen
    <3>4. \A u \in Targets : targetStatus'[u] = "queued" /\ delivered'[u] = 1 =>
             dirty'[s].target[u] = "sent"
      BY <2>2, <2>3, <3>1, <3>2, HeldByOne
    <3>. QED
      BY <3>2, <3>3, <3>4, OneSession DEF BeginsClean
  <2>. QED
    BY <2>4, <2>5
<1>9. ASSUME NEW s \in Sessions, Record(s)
      PROVE  LedgerInv'
  <2>1. PICK a \in Accounts, t \in Targets :
          /\ IsTurn(s, a, t)
          /\ tick'[s] = Remembering(UsedUp(tick[s], a, t), a)
          /\ dirty'[s] = AfterSend(s, a, t)
    BY <1>9 DEF Record, TypeOK
  <2>2. Flush(s) /\ UNCHANGED delivered /\ pc[s] = "record" /\ pc'[s] = "send"
    BY <1>9 DEF Record, TypeOK
  <2>3. \A u \in Targets : dirty'[s].target[u] = (IF u = t THEN "sent" ELSE "clean")
    <3>1. dirty'[s].target = [u \in Targets |-> IF u = t THEN "sent" ELSE "clean"]
      BY <2>1, AfterSendFields
    <3>. QED
      BY <3>1
  <2>4. tick'[s].work = tick[s].work \ {t}
    BY <2>1, UsedUpFields DEF TypeOK
  <2>5. \A u \in Targets : Delivering(s, u) <=> u = t
    BY <2>1, <2>2, SenderAssumption DEF IsTurn, Delivering, Least
  <2>6. \A u \in Targets :
          /\ OutcomeIsTrue(u)'
          /\ targetStatus'[u] = (IF dirty[s].target[u] = "clean" THEN targetStatus[u]
                                 ELSE dirty[s].target[u])
    BY <2>2, FlushLedger
  <2>7. targetStatus[t] = "queued" /\ delivered[t] = 1 /\ dirty[s].target[t] = "clean"
    BY <2>1, <2>2, <2>5 DEF IsTurn, LedgerInv, WorkIsOpen
  <2>8. \A u \in Targets : AssignedIsTrue(s, u)'
    BY <2>2, <2>3, <2>6, <2>7 DEF AssignedIsTrue
  <2>9. \A u \in Targets : WorkIsOpen(s, u)'
    BY <2>2, <2>3, <2>4, <2>5, <2>6 DEF LedgerInv, WorkIsOpen, Delivering
  <2>10. ASSUME NEW u \in Targets, targetStatus'[u] = "queued", delivered'[u] = 1
         PROVE  dirty'[s].target[u] = "sent"
    <3>1. dirty[s].target[u] = "clean" /\ targetStatus[u] = "queued"
      BY <2>6, <2>10, TargetType DEF TypeOK, Settled
    <3>2. Delivering(s, u)
      BY <2>2, <2>10, <3>1, HeldByOne
    <3>. QED
      BY <2>3, <2>5, <3>2
  <2>. QED
    BY <2>2, <2>6, <2>8, <2>9, <2>10, OneSession DEF BeginsClean
<1>10. ASSUME NEW s \in Sessions, Count(s)
       PROVE  LedgerInv'
  <2>1. dirty'[s].target = dirty[s].target
    BY <1>10, AfterCountFields DEF Count, TypeOK
  <2>2. pc[s] = "send" /\ pc'[s] = "commit" /\ UNCHANGED <<delivered, targetStatus>>
    BY <1>10 DEF Count, TypeOK
  <2>3. \A u \in Targets : OutcomeIsTrue(u)' /\ AssignedIsTrue(s, u)' /\ WorkIsOpen(s, u)'
    BY <2>1, <2>2 DEF LedgerInv, OutcomeIsTrue, AssignedIsTrue, WorkIsOpen
  <2>4. \A u \in Targets : targetStatus'[u] = "queued" /\ delivered'[u] = 1 =>
             dirty'[s].target[u] = "sent"
    BY <2>1, <2>2, HeldByOne DEF Delivering
  <2>. QED
    BY <2>2, <2>3, <2>4, OneSession DEF BeginsClean
<1>11. ASSUME NEW s \in Sessions, Commit(s)
       PROVE  LedgerInv'
  <2>1. /\ dirty'[s] = Clean /\ Flush(s) /\ UNCHANGED delivered
        /\ pc[s] = "commit" /\ pc'[s] \in {"idle", "sweep"}
    BY <1>11 DEF Commit, EndTick, TypeOK
  <2>2. \A u \in Targets :
          /\ OutcomeIsTrue(u)'
          /\ targetStatus'[u] = (IF dirty[s].target[u] = "clean" THEN targetStatus[u]
                                 ELSE dirty[s].target[u])
    BY <2>1, FlushLedger
  <2>3. \A u \in Targets : AssignedIsTrue(s, u)' /\ WorkIsOpen(s, u)'
    BY <2>1, CleanFields DEF AssignedIsTrue, WorkIsOpen
  <2>4. ASSUME NEW u \in Targets, targetStatus'[u] = "queued", delivered'[u] = 1
        PROVE  FALSE
    <3>1. dirty[s].target[u] = "clean" /\ targetStatus[u] = "queued"
      BY <2>2, <2>4, TargetType DEF TypeOK, Settled
    <3>. QED
      BY <2>1, <2>4, <3>1, HeldByOne DEF Delivering
  <2>. QED
    BY <2>1, <2>2, <2>3, <2>4, OneSession DEF BeginsClean
<1>12. ~\E s \in Sessions : Crash(s)
  BY DEF Crash, OneWorker, TypeOK
<1>13. ASSUME NEW j \in Jobs, StartJob(j) \/ PauseJob(j) \/ StopJob(j)
       PROVE  LedgerInv'
  BY <1>13, <1>1 DEF StartJob, PauseJob, StopJob, SetJobStatus
<1>14. CASE Surroundings
  BY <1>14, <1>1 DEF Surroundings, OptOut, GiveConsent, WithdrawConsent, SetContact,
     Quarantine, Reactivate, SetAccount, Rest
<1>15. CASE UNCHANGED vars
  BY <1>15, <1>1 DEF vars
<1>16. ASSUME NEW s \in Sessions, BeginSweep(s) \/ \E j \in Jobs : BeginManual(s, j)
       PROVE  LedgerInv'
  BY <1>16, <1>4 DEF BeginSweep, BeginManual
<1>. QED
  BY <1>2, <1>5, <1>6, <1>7, <1>8, <1>9, <1>10, <1>11, <1>12, <1>13, <1>14, <1>15, <1>16
     DEF Next, Manager, TickStep

-----------------------------------------------------------------------------
(* The simulation: additions enqueue, a send that is answered delivers, the   *)
(* commits settle, and all the rest leaves the ledger as it is.              *)

LEMMA InitSimulates == Init => Ledger!Init
  BY DEF Init, Ledger!Init

\* A commit settles the targets with an outcome assigned.
LEMMA FlushSettles ==
  ASSUME TypeOK, LedgerInv, NEW s \in Sessions, Flush(s), UNCHANGED delivered
  PROVE  Ledger!Next
<1>. DEFINE chosen == {t \in Targets : dirty[s].target[t] # "clean"}
            failure == [t \in Targets |-> IF dirty[s].target[t] = "skipped" THEN "skipped" ELSE "failed"]
<1>1. chosen \in SUBSET Targets /\ failure \in [Targets -> {"failed", "skipped"}]
  OBVIOUS
<1>2. chosen \subseteq Ledger!Having("queued")
  BY DEF LedgerInv, AssignedIsTrue, Ledger!Having
<1>3. targetStatus' = [t \in Targets |->
          IF t \notin chosen THEN targetStatus[t]
          ELSE IF delivered[t] > 0 THEN "sent" ELSE failure[t]]
  <2>1. \A t \in chosen : dirty[s].target[t] \in {"sent", "failed", "skipped"}
    BY DEF TypeOK, DirtyStates, Settled
  <2>2. \A t \in chosen : delivered[t] = (IF dirty[s].target[t] = "sent" THEN 1 ELSE 0)
    BY DEF LedgerInv, AssignedIsTrue
  <2>. QED
    BY <2>1, <2>2 DEF Flush
<1>4. Ledger!Settle(chosen, failure)
  BY <1>2, <1>3 DEF Ledger!Settle
<1>. QED
  BY <1>1, <1>4 DEF Ledger!Next

LEMMA StepSimulates ==
  OneWorker /\ TypeOK /\ LedgerInv /\ [Next]_vars => [Ledger!Next]_(Ledger!vars)
<1>. SUFFICES ASSUME OneWorker, TypeOK, LedgerInv, [Next]_vars
              PROVE  Ledger!Next \/ UNCHANGED <<targetStatus, delivered>>
  BY DEF Ledger!vars
<1>. USE DEF ghosts
<1>1. ASSUME NEW j \in Jobs, NEW chosen \in SUBSET Contacts, AddTargets(j, chosen)
      PROVE  Ledger!Next
  <2>. DEFINE new == {t \in Targets :
                        JobOf[t] = j /\ ContactOf[t] \in chosen /\ MayMessage(ContactOf[t]) /\ IsNew(t)}
  <2>1. Ledger!Enqueue(new)
    BY <1>1 DEF AddTargets, IsNew, Ledger!Enqueue, Ledger!Having
  <2>. QED
    BY <2>1 DEF Ledger!Next
<1>2. ASSUME NEW s \in Sessions, NEW outcome \in Outcomes, Send(s, outcome)
      PROVE  Ledger!Next \/ UNCHANGED <<targetStatus, delivered>>
  <2>1. PICK a \in Accounts, t \in Targets :
          /\ IsTurn(s, a, t)
          /\ IF outcome = "sent" THEN Deliver(a, t) ELSE UNCHANGED delivered
    BY <1>2 DEF Send, OneWorker
  <2>2. UNCHANGED targetStatus /\ pc[s] = "send"
    BY <1>2 DEF Send
  <2>3. CASE outcome = "sent"
    <3>1. targetStatus[t] = "queued" /\ delivered[t] = 0
      BY <2>1, <2>2 DEF IsTurn, LedgerInv, WorkIsOpen, Delivering
    <3>2. delivered' = [delivered EXCEPT ![t] = 1]
      BY <2>1, <2>3, <3>1 DEF Deliver
    <3>3. Ledger!Deliver(t)
      BY <2>2, <3>1, <3>2 DEF Ledger!Deliver
    <3>. QED
      BY <3>3 DEF Ledger!Next
  <2>4. CASE outcome # "sent"
    BY <2>1, <2>2, <2>4
  <2>. QED
    BY <2>3, <2>4
<1>3. ASSUME NEW s \in Sessions, Record(s) \/ Commit(s)
      PROVE  Ledger!Next
  BY <1>3, FlushSettles DEF Record, Commit
<1>. QED
  BY <1>1, <1>2, <1>3
     DEF Next, Manager, Surroundings, TickStep, StartJob, PauseJob, StopJob, SetJobStatus,
         OptOut, GiveConsent, WithdrawConsent, SetContact, Quarantine, Reactivate, SetAccount,
         Rest, BeginSweep, BeginManual, Begin, PickAccounts, PickTargets, FailTarget,
         Count, Crash, vars

\* One worker that neither dies nor loses an answer queues each target once, delivers it at
\* most once, and settles it once and truly: the sender implements its ledger.
THEOREM LedgerKept == ASSUME OneWorker PROVE Spec => KeepsLedger
<1>1. Init => TypeOK /\ LedgerInv
  BY InitType, InitLedger
<1>2. TypeOK /\ LedgerInv /\ [Next]_vars => (TypeOK /\ LedgerInv)'
  BY NextType, LedgerStep
<1>3. TypeOK /\ LedgerInv /\ [Next]_vars => [Ledger!Next]_(Ledger!vars)
  BY StepSimulates
<1>. QED
  BY <1>1, <1>2, <1>3, InitSimulates, PTL DEF Spec, KeepsLedger, Ledger!Spec
=============================================================================
