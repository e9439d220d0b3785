---------------------------- MODULE OverlapProofs ----------------------------
(***************************************************************************)
(* What overlapping and dying ticks do too often is bounded by their        *)
(* number.  Each of the three bounds counts the sessions (and accounts)      *)
(* that can no longer do the harm: who has done it once is among them, and   *)
(* only a crash, which is counted too, takes a session out again.           *)
(***************************************************************************)
EXTENDS SenderProofs

-----------------------------------------------------------------------------
(* Counting.                                                                *)

LEMMA CountGrows ==
  ASSUME NEW S, NEW T, IsFiniteSet(T), S \subseteq T
  PROVE  Cardinality(S) \in Nat /\ Cardinality(T) \in Nat /\ Cardinality(S) <= Cardinality(T)
  BY FS_Subset, FS_CardinalityType

LEMMA CountGains ==
  ASSUME NEW S, NEW T, NEW x, IsFiniteSet(T), S \cup {x} \subseteq T, x \notin S
  PROVE  Cardinality(S) \in Nat /\ Cardinality(T) \in Nat /\ Cardinality(S) + 1 <= Cardinality(T)
<1>1. IsFiniteSet(S) /\ Cardinality(S) \in Nat
  BY FS_Subset, FS_CardinalityType
<1>2. Cardinality(S \cup {x}) = Cardinality(S) + 1
  BY <1>1, FS_AddElement
<1>. QED
  BY <1>1, <1>2, CountGrows

LEMMA CountLoses ==
  ASSUME NEW S, NEW T, NEW x, IsFiniteSet(S), IsFiniteSet(T), S \ {x} \subseteq T
  PROVE  Cardinality(S) \in Nat /\ Cardinality(T) \in Nat /\ Cardinality(S) <= Cardinality(T) + 1
<1>1. S \subseteq T \cup {x} /\ IsFiniteSet(T \cup {x})
  BY FS_AddElement
<1>2. Cardinality(T) \in Nat
  BY FS_CardinalityType
<1>3. Cardinality(T \cup {x}) = (IF x \in T THEN Cardinality(T) ELSE Cardinality(T) + 1)
  BY FS_AddElement
<1>4. Cardinality(T \cup {x}) <= Cardinality(T) + 1
  BY <1>2, <1>3
<1>. QED
  BY <1>1, <1>2, <1>4, CountGrows

-----------------------------------------------------------------------------
(* The fields that the operators of a tick touch.                           *)

LEMMA JobFields ==
  ASSUME NEW k \in TickStates, NEW a \in Accounts, NEW t \in Targets
  PROVE  /\ UsedUp(k, a, t).todo = k.todo
         /\ UsedUp(k, a, t).job = k.job
         /\ Remembering(UsedUp(k, a, t), a).todo = k.todo
         /\ Remembering(UsedUp(k, a, t), a).job = k.job
  BY DEF UsedUp, Remembering, TickStates

LEMMA WarningFields ==
  ASSUME NEW d \in DirtyStates, NEW a \in Accounts, NEW t \in Targets
  PROVE  AfterWarning(d, a, t).flagged = {a} /\ AfterWarning(d, a, t).job = "paused"
  BY DEF AfterWarning, DirtyStates

LEMMA FailureFields ==
  ASSUME NEW d \in DirtyStates, NEW t \in Targets
  PROVE  AfterFailure(d, t).flagged = d.flagged
  BY DEF AfterFailure, DirtyStates

LEMMA CountFlags ==
  ASSUME NEW d \in DirtyStates, NEW empty
  PROVE  AfterCount(d, empty).flagged = d.flagged
  BY DEF AfterCount, DirtyStates

-----------------------------------------------------------------------------
(* What each step of a session does to what the bounds speak of.            *)

Alone(s) ==
    \A r \in Sessions \ {s} : pc'[r] = pc[r] /\ tick'[r] = tick[r] /\ dirty'[r] = dirty[r]

NoDelivery == UNCHANGED <<contact, ghosts>>

LEMMA BeginEffect ==
  ASSUME TypeOK, NEW s \in Sessions, NEW js \in SUBSET Jobs, Begin(s, js)
  PROVE  /\ Alone(s) /\ NoDelivery /\ UNCHANGED <<jobStatus, targetStatus, dirty, crashes>>
         /\ pc[s] = "idle" /\ pc'[s] = "sweep" /\ tick'[s].todo = js
<1>1. tick'[s] = WithJobs(tick[s], js) /\ tick[s] \in TickStates
  BY DEF Begin, TypeOK
<1>2. tick'[s].todo = js
  BY <1>1 DEF WithJobs, TickStates
<1>. QED
  BY <1>2 DEF Begin, Alone, NoDelivery, TypeOK, jobVars, ghosts

\* The rows of a job that are forgotten when its tick ends.
LEMMA EndTickEffect ==
  ASSUME TypeOK, NEW s \in Sessions, NEW todo \in SUBSET Jobs,
         NEW last \in [Jobs -> Accounts \cup {NoId}], EndTick(s, todo, last)
  PROVE  /\ tick'[s].todo = todo
         /\ pc'[s] \in {"idle", "sweep"}
         /\ pc'[s] = "idle" => todo = {}
         /\ \A r \in Sessions \ {s} : pc'[r] = pc[r] /\ tick'[r] = tick[r]
<1>1. CASE todo = {}
  BY <1>1 DEF EndTick, TypeOK, NoTick
<1>2. CASE todo # {}
  BY <1>2 DEF EndTick, TypeOK, NoTick
<1>. QED
  BY <1>1, <1>2

LEMMA PickAccountsEffect ==
  ASSUME TypeOK, NEW s \in Sessions, NEW j \in Jobs, PickAccounts(s, j)
  PROVE  /\ Alone(s) /\ NoDelivery /\ UNCHANGED <<jobStatus, targetStatus, dirty, crashes>>
         /\ pc[s] = "sweep" /\ pc'[s] \in {"idle", "sweep", "targets"}
         /\ tick'[s].todo \subseteq tick[s].todo
         /\ pc'[s] = "idle" => tick'[s].todo = {}
         /\ pc'[s] = "targets" => tick'[s].job \in tick'[s].todo
<1>1. PICK inWindow \in Windows :
        IF UsableAccounts(inWindow) = {}
        THEN EndTick(s, tick[s].todo \ {j}, tick[s].last)
        ELSE /\ pc' = [pc EXCEPT ![s] = "targets"]
             /\ tick' = [tick EXCEPT ![s] = WithAccounts(@, j, UsableAccounts(inWindow))]
  BY DEF PickAccounts
<1>2. /\ NoDelivery /\ UNCHANGED <<jobStatus, targetStatus, dirty, crashes>>
      /\ pc[s] = "sweep" /\ j \in tick[s].todo
  BY DEF PickAccounts, NoDelivery, jobVars, ghosts
<1>3. tick[s] \in TickStates
  BY DEF TypeOK
<1>4. CASE UsableAccounts(inWindow) = {}
  <2>1. tick[s].todo \ {j} \in SUBSET Jobs /\ tick[s].last \in [Jobs -> Accounts \cup {NoId}]
    BY <1>3 DEF TickStates
  <2>. QED
    BY <1>1, <1>2, <1>4, <2>1, EndTickEffect DEF Alone
<1>5. CASE UsableAccounts(inWindow) # {}
  <2>1. /\ tick'[s] = WithAccounts(tick[s], j, UsableAccounts(inWindow))
        /\ pc'[s] = "targets"
        /\ \A r \in Sessions \ {s} : pc'[r] = pc[r] /\ tick'[r] = tick[r]
    BY <1>1, <1>5 DEF TypeOK
  <2>2. tick'[s].todo = tick[s].todo /\ tick'[s].job = j
    BY <1>3, <2>1 DEF WithAccounts, TickStates
  <2>. QED
    BY <1>2, <2>1, <2>2 DEF Alone
<1>. QED
  BY <1>4, <1>5

LEMMA PickTargetsEffect ==
  ASSUME TypeOK, NEW s \in Sessions, PickTargets(s)
  PROVE  /\ Alone(s) /\ NoDelivery /\ UNCHANGED <<jobStatus, targetStatus, crashes>>
         /\ pc[s] = "targets" /\ pc'[s] = "send"
         /\ tick'[s].todo = tick[s].todo /\ tick'[s].job = tick[s].job
         /\ tick'[s].left = tick[s].left /\ tick'[s].pivot = tick[s].pivot
         /\ tick'[s].work = {t \in Queued(tick[s].job) : MayMessage(ContactOf[t])}
         /\ \A t \in tick'[s].work : dirty'[s].target[t] = "clean"
         /\ dirty'[s].flagged = {}
<1>. DEFINE queued == Queued(tick[s].job)
            allowed == {t \in queued : MayMessage(ContactOf[t])}
<1>1. /\ pc[s] = "targets" /\ pc'[s] = "send"
      /\ tick'[s] = WithTargets(tick[s], allowed)
      /\ dirty'[s] = Skipping(queued \ allowed)
      /\ Alone(s) /\ NoDelivery /\ UNCHANGED <<jobStatus, targetStatus, crashes>>
  BY DEF PickTargets, TypeOK, Alone, NoDelivery, jobVars, ghosts
<1>2. tick[s] \in TickStates
  BY DEF TypeOK
<1>3. /\ tick'[s].todo = tick[s].todo /\ tick'[s].job = tick[s].job
      /\ tick'[s].left = tick[s].left /\ tick'[s].pivot = tick[s].pivot
      /\ tick'[s].work = allowed
  BY <1>1, <1>2 DEF WithTargets, TickStates
<1>4. \A t \in allowed : dirty'[s].target[t] = "clean"
  BY <1>1, SkippingFields DEF Queued
<1>5. dirty'[s].flagged = {}
  BY <1>1 DEF Skipping, Clean
<1>. QED
  BY <1>1, <1>3, <1>4, <1>5

LEMMA FailTargetEffect ==
  ASSUME TypeOK, NEW s \in Sessions, FailTarget(s)
  PROVE  \E a \in Accounts, t \in Targets :
         /\ IsTurn(s, a, t)
         /\ Alone(s) /\ NoDelivery /\ UNCHANGED <<jobStatus, targetStatus, crashes, pc>>
         /\ pc[s] = "send"
         /\ tick'[s].todo = tick[s].todo /\ tick'[s].job = tick[s].job
         /\ tick'[s].left = tick[s].left \ {a} /\ tick'[s].pivot = tick[s].pivot
         /\ tick'[s].work = tick[s].work \ {t}
         /\ \A u \in Targets :
                dirty'[s].target[u] = (IF u = t THEN "failed" ELSE dirty[s].target[u])
         /\ dirty'[s].flagged = dirty[s].flagged
<1>1. PICK a \in Accounts, t \in Targets :
        /\ IsTurn(s, a, t)
        /\ tick' = [tick EXCEPT ![s] = UsedUp(@, a, t)]
        /\ dirty' = [dirty EXCEPT ![s] = AfterFailure(@, t)]
  BY DEF FailTarget
<1>2. /\ Alone(s) /\ NoDelivery /\ UNCHANGED <<jobStatus, targetStatus, crashes, pc>>
      /\ pc[s] = "send"
  BY <1>1 DEF FailTarget, Alone, NoDelivery, jobVars, ghosts, TypeOK
<1>3. /\ tick[s] \in TickStates /\ dirty[s] \in DirtyStates
      /\ tick'[s] = UsedUp(tick[s], a, t) /\ dirty'[s] = AfterFailure(dirty[s], t)
  BY <1>1 DEF TypeOK
<1>4. /\ tick'[s].todo = tick[s].todo /\ tick'[s].job = tick[s].job
      /\ tick'[s].left = tick[s].left \ {a} /\ tick'[s].pivot = tick[s].pivot
      /\ tick'[s].work = tick[s].work \ {t}
  BY <1>3, UsedUpFields, JobFields
<1>5. dirty'[s].target = [dirty[s].target EXCEPT ![t] = "failed"]
  BY <1>3, AfterFailureFields
<1>6. dirty[s].target \in [Targets -> Settled \cup {"clean"}]
  BY <1>3 DEF DirtyStates
<1>7. \A u \in Targets : dirty'[s].target[u] = (IF u = t THEN "failed" ELSE dirty[s].target[u])
  BY <1>5, <1>6
<1>8. dirty'[s].flagged = dirty[s].flagged
  BY <1>3, FailureFields
<1>. QED
  BY <1>1, <1>2, <1>4, <1>7, <1>8

LEMMA SendEffect ==
  ASSUME TypeOK, NEW s \in Sessions, NEW outcome \in Outcomes, Send(s, outcome)
  PROVE  \E a \in Accounts, t \in Targets :
         /\ IsTurn(s, a, t)
         /\ Alone(s) /\ UNCHANGED <<contact, jobStatus, targetStatus, crashes, tick>>
         /\ pc[s] = "send"
         /\ Deliver(a, t) \/ UNCHANGED ghosts
         /\ \/ pc'[s] = "record" /\ UNCHANGED dirty
            \/ /\ pc'[s] = "commit"
               /\ \A u \in Targets :
                     dirty'[s].target[u] = (IF u = t THEN "failed" ELSE dirty[s].target[u])
               /\ dirty'[s].job = "paused"
<1>1. PICK a \in Accounts, t \in Targets :
        /\ IsTurn(s, a, t)
        /\ IF outcome \in {"sent", "late"} THEN Deliver(a, t) ELSE UNCHANGED ghosts
        /\ IF outcome = "sent"
           THEN pc' = [pc EXCEPT ![s] = "record"] /\ UNCHANGED dirty
           ELSE /\ pc' = [pc EXCEPT ![s] = "commit"]
                /\ dirty' = [dirty EXCEPT ![s] = AfterWarning(@, a, t)]
  BY DEF Send
<1>2. UNCHANGED <<contact, jobStatus, targetStatus, crashes, tick>> /\ pc[s] = "send"
  BY DEF Send, jobVars
<1>3. Alone(s)
  BY <1>1, <1>2 DEF Alone, TypeOK
<1>4. dirty[s] \in DirtyStates /\ dirty[s].target \in [Targets -> Settled \cup {"clean"}]
  BY DEF TypeOK, DirtyStates
<1>5. \/ pc'[s] = "record" /\ UNCHANGED dirty
      \/ pc'[s] = "commit" /\ dirty'[s] = AfterWarning(dirty[s], a, t)
  BY <1>1 DEF TypeOK
<1>6. /\ \A u \in Targets : AfterWarning(dirty[s], a, t).target[u] =
                               (IF u = t THEN "failed" ELSE dirty[s].target[u])
      /\ AfterWarning(dirty[s], a, t).job = "paused"
  <2>1. AfterWarning(dirty[s], a, t).target = [dirty[s].target EXCEPT ![t] = "failed"]
    BY <1>4, AfterWarningFields
  <2>2. AfterWarning(dirty[s], a, t).job = "paused"
    BY <1>4, WarningFields
  <2>. QED
    BY <1>4, <2>1, <2>2
<1>7. Deliver(a, t) \/ UNCHANGED ghosts
  BY <1>1
<1>8. \/ pc'[s] = "record" /\ UNCHANGED dirty
      \/ /\ pc'[s] = "commit"
         /\ \A u \in Targets :
               dirty'[s].target[u] = (IF u = t THEN "failed" ELSE dirty[s].target[u])
         /\ dirty'[s].job = "paused"
  BY <1>5, <1>6
<1>. QED
  BY <1>1, <1>2, <1>3, <1>7, <1>8

\* What a commit leaves of a target and of a job.
LEMMA FlushEffect ==
  ASSUME TypeOK, NEW s \in Sessions, Flush(s)
  PROVE  /\ \A t \in Targets :
               targetStatus'[t] = (IF dirty[s].target[t] = "clean" THEN targetStatus[t]
                                   ELSE dirty[s].target[t])
         /\ \A t \in Targets : dirty[s].target[t] # "clean" => targetStatus'[t] \in Settled
         /\ \A t \in Targets : targetStatus[t] \in Settled => targetStatus'[t] \in Settled
         /\ \A j \in Jobs : jobStatus'[j] = "running" => jobStatus[j] = "running"
<1>1. \A t \in Targets : dirty[s].target[t] \in Settled \cup {"clean"}
  BY DEF TypeOK, DirtyStates
<1>2. dirty[s].job \in {"clean", "paused", "done"}
  BY DEF TypeOK, DirtyStates
<1>3. \A t \in Targets :
        targetStatus'[t] = (IF dirty[s].target[t] = "clean" THEN targetStatus[t]
                            ELSE dirty[s].target[t])
  BY DEF Flush
<1>4. \A j \in Jobs : jobStatus'[j] = "running" => jobStatus[j] = "running"
  BY <1>2 DEF Flush, TypeOK
<1>. QED
  BY <1>1, <1>3, <1>4

LEMMA RecordEffect ==
  ASSUME TypeOK, NEW s \in Sessions, Record(s)
  PROVE  \E a \in Accounts, t \in Targets :
         /\ IsTurn(s, a, t)
         /\ Alone(s) /\ NoDelivery /\ UNCHANGED crashes
         /\ pc[s] = "record" /\ pc'[s] = "send" /\ Flush(s)
         /\ tick'[s].todo = tick[s].todo /\ tick'[s].job = tick[s].job
         /\ tick'[s].left = tick[s].left \ {a} /\ tick'[s].pivot = tick[s].pivot
         /\ tick'[s].work = tick[s].work \ {t}
         /\ \A u \in Targets : dirty'[s].target[u] = (IF u = t THEN "sent" ELSE "clean")
         /\ dirty'[s].flagged = {}
<1>1. PICK a \in Accounts, t \in Targets :
        /\ IsTurn(s, a, t)
        /\ tick' = [tick EXCEPT ![s] = Remembering(UsedUp(@, a, t), a)]
        /\ dirty' = [dirty EXCEPT ![s] = AfterSend(s, a, t)]
  BY DEF Record
<1>2. /\ Alone(s) /\ NoDelivery /\ UNCHANGED crashes
      /\ pc[s] = "record" /\ pc'[s] = "send" /\ Flush(s)
  BY <1>1 DEF Record, Alone, NoDelivery, TypeOK
<1>3. /\ tick[s] \in TickStates
      /\ tick'[s] = Remembering(UsedUp(tick[s], a, t), a) /\ dirty'[s] = AfterSend(s, a, t)
  BY <1>1 DEF TypeOK
<1>4. /\ tick'[s].todo = tick[s].todo /\ tick'[s].job = tick[s].job
      /\ tick'[s].left = tick[s].left \ {a} /\ tick'[s].pivot = tick[s].pivot
      /\ tick'[s].work = tick[s].work \ {t}
  BY <1>3, UsedUpFields, JobFields
<1>5. dirty'[s].target = [u \in Targets |-> IF u = t THEN "sent" ELSE "clean"]
  BY <1>3, AfterSendFields
<1>6. dirty'[s].flagged = {}
  BY <1>3 DEF AfterSend, Clean
<1>. QED
  BY <1>1, <1>2, <1>4, <1>5, <1>6

LEMMA CountEffect ==
  ASSUME TypeOK, NEW s \in Sessions, Count(s)
  PROVE  /\ Alone(s) /\ NoDelivery /\ UNCHANGED <<jobStatus, targetStatus, crashes, tick>>
         /\ pc[s] = "send" /\ pc'[s] = "commit"
         /\ dirty'[s].target = dirty[s].target
         /\ dirty'[s].flagged = dirty[s].flagged
<1>1. /\ Alone(s) /\ NoDelivery /\ UNCHANGED <<jobStatus, targetStatus, crashes, tick>>
      /\ pc[s] = "send" /\ pc'[s] = "commit"
      /\ dirty'[s] = AfterCount(dirty[s], Queued(tick[s].job) = {})
  BY DEF Count, Alone, NoDelivery, jobVars, ghosts, TypeOK
<1>2. dirty[s] \in DirtyStates
  BY DEF TypeOK
<1>. QED
  BY <1>1, <1>2, AfterCountFields, CountFlags

LEMMA CommitEffect ==
  ASSUME TypeOK, NEW s \in Sessions, Commit(s)
  PROVE  /\ Alone(s) /\ NoDelivery /\ UNCHANGED crashes
         /\ pc[s] = "commit" /\ pc'[s] \in {"idle", "sweep"} /\ Flush(s)
         /\ tick'[s].todo = tick[s].todo \ {tick[s].job}
         /\ pc'[s] = "idle" => tick'[s].todo = {}
         /\ dirty'[s] = Clean
<1>1. tick[s].todo \ {tick[s].job} \in SUBSET Jobs /\ tick[s].last \in [Jobs -> Accounts \cup {NoId}]
  BY DEF TypeOK, TickStates
<1>2. /\ NoDelivery /\ UNCHANGED crashes
      /\ pc[s] = "commit" /\ Flush(s)
      /\ dirty'[s] = Clean /\ \A r \in Sessions \ {s} : dirty'[r] = dirty[r]
      /\ EndTick(s, tick[s].todo \ {tick[s].job}, tick[s].last)
  BY DEF Commit, NoDelivery, TypeOK
<1>3. /\ tick'[s].todo = tick[s].todo \ {tick[s].job}
      /\ pc'[s] \in {"idle", "sweep"}
      /\ pc'[s] = "idle" => tick[s].todo \ {tick[s].job} = {}
      /\ \A r \in Sessions \ {s} : pc'[r] = pc[r] /\ tick'[r] = tick[r]
  BY <1>1, <1>2, EndTickEffect
<1>. QED
  BY <1>2, <1>3 DEF Alone

LEMMA CrashEffect ==
  ASSUME TypeOK, NEW s \in Sessions, Crash(s)
  PROVE  /\ Alone(s) /\ NoDelivery /\ UNCHANGED <<jobStatus, targetStatus>>
         /\ crashes' = crashes + 1
         /\ pc'[s] = "idle" /\ tick'[s].todo = {} /\ dirty'[s] = Clean
<1>1. tick'[s] = NoTick
  BY DEF Crash, TypeOK
<1>. QED
  BY <1>1 DEF Crash, Alone, NoDelivery, jobVars, ghosts, TypeOK, NoTick

-----------------------------------------------------------------------------
(* What a tick holds in memory.                                             *)

\* The target whose delivery Record is about to record.
Delivering(s, t) == pc[s] = "record" /\ Least(t, tick[s].work)

\* Nothing is assigned before the targets are loaded, nor for a target not yet tried; the
\* targets are those of the job; an account is benched only by the commit that also pauses
\* the job.
SessionHolds(s) ==
    /\ pc[s] \in {"idle", "sweep", "targets"} => dirty[s] = Clean
    /\ pc[s] \in {"send", "record"} =>
          \A t \in tick[s].work : dirty[s].target[t] = "clean" /\ JobOf[t] = tick[s].job
    /\ dirty[s].flagged # {} => pc[s] = "commit" /\ dirty[s].job = "paused"
    /\ pc[s] = "idle" => tick[s].todo = {}
    /\ pc[s] \in {"targets", "send", "record", "commit"} => tick[s].job \in tick[s].todo

HeldInv == \A s \in Sessions : SessionHolds(s)

LEMMA InitHeld == Init => HeldInv
  BY CleanFields DEF Init, HeldInv, SessionHolds, NoTick, Clean

LEMMA OthersHold ==
  ASSUME HeldInv, NEW s \in Sessions, Alone(s), SessionHolds(s)'
  PROVE  HeldInv'
<1>1. ASSUME NEW r \in Sessions \ {s}
      PROVE  SessionHolds(r)'
  BY DEF HeldInv, SessionHolds, Alone
<1>. QED
  BY <1>1 DEF HeldInv

LEMMA HeldStep == TypeOK /\ HeldInv /\ [Next]_vars => HeldInv'
<1>. SUFFICES ASSUME TypeOK, HeldInv, [Next]_vars
              PROVE  HeldInv'
  OBVIOUS
<1>h. \A s \in Sessions : SessionHolds(s)
  BY DEF HeldInv
<1>1. CASE UNCHANGED sessionVars
  BY <1>1 DEF HeldInv, SessionHolds, sessionVars
<1>2. ASSUME NEW s \in Sessions, NEW js \in SUBSET Jobs, Begin(s, js)
      PROVE  HeldInv'
  <2>1. SessionHolds(s)'
    BY <1>2, <1>h, BeginEffect DEF SessionHolds
  <2>. QED
    BY <1>2, <2>1, BeginEffect, OthersHold
<1>3. ASSUME NEW s \in Sessions, NEW j \in Jobs, PickAccounts(s, j)
      PROVE  HeldInv'
  <2>1. SessionHolds(s)'
    BY <1>3, <1>h, PickAccountsEffect DEF SessionHolds
  <2>. QED
    BY <1>3, <2>1, PickAccountsEffect, OthersHold
<1>4. ASSUME NEW s \in Sessions, PickTargets(s)
      PROVE  HeldInv'
  <2>1. SessionHolds(s)'
    BY <1>4, <1>h, PickTargetsEffect DEF SessionHolds, Queued
  <2>. QED
    BY <1>4, <2>1, PickTargetsEffect, OthersHold
<1>5. ASSUME NEW s \in Sessions, FailTarget(s)
      PROVE  HeldInv'
  <2>1. PICK a \in Accounts, t \in Targets :
          /\ Alone(s) /\ UNCHANGED pc /\ pc[s] = "send"
          /\ tick'[s].todo = tick[s].todo /\ tick'[s].job = tick[s].job
          /\ tick'[s].work = tick[s].work \ {t}
          /\ \A u \in Targets :
                dirty'[s].target[u] = (IF u = t THEN "failed" ELSE dirty[s].target[u])
          /\ dirty'[s].flagged = dirty[s].flagged
    BY <1>5, FailTargetEffect
  <2>2. tick[s].work \subseteq Targets
    BY DEF TypeOK, TickStates
  <2>3. SessionHolds(s)'
    BY <1>h, <2>1, <2>2 DEF SessionHolds
  <2>. QED
    BY <2>1, <2>3, OthersHold
<1>6. ASSUME NEW s \in Sessions, NEW outcome \in Outcomes, Send(s, outcome)
      PROVE  HeldInv'
  <2>1. Alone(s) /\ SessionHolds(s)'
    BY <1>6, <1>h, SendEffect DEF SessionHolds
  <2>. QED
    BY <1>6, <2>1, OthersHold
<1>7. ASSUME NEW s \in Sessions, Record(s)
      PROVE  HeldInv'
  <2>1. Alone(s) /\ SessionHolds(s)'
    BY <1>7, <1>h, RecordEffect DEF SessionHolds, TypeOK, TickStates
  <2>. QED
    BY <1>7, <2>1, OthersHold
<1>8. ASSUME NEW s \in Sessions, Count(s)
      PROVE  HeldInv'
  <2>1. Alone(s) /\ SessionHolds(s)'
    BY <1>8, <1>h, CountEffect DEF SessionHolds
  <2>. QED
    BY <1>8, <2>1, OthersHold
<1>9. ASSUME NEW s \in Sessions, Commit(s) \/ Crash(s)
      PROVE  HeldInv'
  <2>1. /\ Alone(s) /\ dirty'[s] = Clean
        /\ pc'[s] \in {"idle", "sweep"}
        /\ pc'[s] = "idle" => tick'[s].todo = {}
    BY <1>9, CommitEffect, CrashEffect
  <2>2. SessionHolds(s)'
    <3>1. Clean.flagged = {}
      BY DEF Clean
    <3>. QED
      BY <2>1, <3>1 DEF SessionHolds
  <2>. QED
    BY <2>1, <2>2, OthersHold
<1>10. CASE Manager \/ Surroundings \/ UNCHANGED vars
  BY <1>1, <1>10
     DEF Manager, AddTargets, StartJob, PauseJob, StopJob, SetJobStatus, Surroundings, OptOut,
         GiveConsent, WithdrawConsent, SetContact, Quarantine, Reactivate, SetAccount, Rest, vars
<1>11. ASSUME NEW s \in Sessions, BeginSweep(s) \/ \E j \in Jobs : BeginManual(s, j)
       PROVE  HeldInv'
  BY <1>2, <1>11 DEF BeginSweep, BeginManual
<1>. QED
  BY <1>3, <1>4, <1>5, <1>6, <1>7, <1>8, <1>9, <1>10, <1>11 DEF Next, TickStep

\* What a session holds in memory, always.
LEMMA HeldAlways == Spec => [](TypeOK /\ HeldInv)
<1>1. Init => TypeOK /\ HeldInv
  BY InitType, InitHeld
<1>2. TypeOK /\ HeldInv /\ [Next]_vars => (TypeOK /\ HeldInv)'
  BY NextType, HeldStep
<1>. QED
  BY <1>1, <1>2, PTL DEF Spec

-----------------------------------------------------------------------------
(* Deliveries of a target.  While it is open, any session that has not yet   *)
(* dealt with it may load and deliver it; once it is settled, only a session *)
(* that has loaded it already may.  The others are spent: every delivery     *)
(* spends a session, and only its crash lets a spent session start again.    *)

Dealt(s, t) == dirty[s].target[t] # "clean" \/ Delivering(s, t)

Carries(s, t) == pc[s] \in {"send", "record"} /\ t \in tick[s].work /\ ~Delivering(s, t)

MayDeliver(s, t) == IF targetStatus[t] \in Settled THEN Carries(s, t) ELSE ~Dealt(s, t)

Spent(t) == {s \in Sessions : ~MayDeliver(s, t)}

DupInv == \A t \in Targets : delivered[t] <= Cardinality(Spent(t)) + crashes

LEMMA SpentFinite ==
  ASSUME NEW t
  PROVE  IsFiniteSet(Spent(t)) /\ IsFiniteSet(Spent(t)') /\ Cardinality(Spent(t)) \in Nat
<1>1. Spent(t) \subseteq Sessions /\ Spent(t)' \subseteq Sessions
  BY DEF Spent
<1>. QED
  BY <1>1, FinitelyMany, FS_Subset, FS_CardinalityType

LEMMA InitDup == Init => DupInv
<1>. SUFFICES ASSUME Init, NEW t \in Targets
              PROVE  0 <= Cardinality(Spent(t)) + 0
  BY DEF Init, DupInv
<1>. QED
  BY SpentFinite

\* Nobody becomes able to deliver a target again.
NoneRestored(t) == \A r \in Sessions : MayDeliver(r, t)' => MayDeliver(r, t)

LEMMA DupQuiet ==
  ASSUME TypeOK, DupInv, UNCHANGED <<delivered, crashes>>,
         \A t \in Targets : NoneRestored(t)
  PROVE  DupInv'
<1>1. ASSUME NEW t \in Targets
      PROVE  delivered'[t] <= Cardinality(Spent(t)') + crashes'
  <2>1. Spent(t) \subseteq Spent(t)'
    BY DEF NoneRestored, Spent
  <2>2. /\ Cardinality(Spent(t)) \in Nat /\ Cardinality(Spent(t)') \in Nat
        /\ Cardinality(Spent(t)) <= Cardinality(Spent(t)')
    BY <2>1, SpentFinite, CountGrows
  <2>. QED
    BY <2>2 DEF DupInv, TypeOK
<1>. QED
  BY <1>1 DEF DupInv

\* A session that may not deliver a target it has not settled itself may not after a step of
\* another session either.
LEMMA OthersSpent ==
  ASSUME TypeOK, HeldInv, NEW s \in Sessions, Alone(s), NEW t \in Targets,
         targetStatus[t] \in Settled => targetStatus'[t] \in Settled,
         MayDeliver(s, t)' => MayDeliver(s, t)
  PROVE  NoneRestored(t)
<1>1. ASSUME NEW r \in Sessions \ {s}, MayDeliver(r, t)'
      PROVE  MayDeliver(r, t)
  <2>1. /\ pc'[r] = pc[r] /\ tick'[r] = tick[r] /\ dirty'[r] = dirty[r]
        /\ Delivering(r, t)' <=> Delivering(r, t)
    BY DEF Alone, Delivering, Least
  <2>2. Carries(r, t) => ~Dealt(r, t)
    BY DEF HeldInv, SessionHolds, Carries, Dealt
  <2>3. /\ Carries(r, t)' <=> Carries(r, t)
        /\ Dealt(r, t)' <=> Dealt(r, t)
    BY <2>1 DEF Carries, Dealt
  <2>. QED
    BY <1>1, <2>2, <2>3 DEF MayDeliver
<1>. QED
  BY <1>1 DEF NoneRestored

LEMMA DupStep == TypeOK /\ HeldInv /\ DupInv /\ [Next]_vars => DupInv'
<1>. SUFFICES ASSUME TypeOK, HeldInv, DupInv, [Next]_vars
              PROVE  DupInv'
  OBVIOUS
<1>. USE DEF ghosts
<1>h. \A s \in Sessions : SessionHolds(s)
  BY DEF HeldInv
<1>0. \A t \in Targets : Clean.target[t] = "clean"
  BY CleanFields
<1>1. ASSUME UNCHANGED <<sessionVars, delivered, crashes>>,
             \A t \in Targets : targetStatus'[t] = targetStatus[t]
                                \/ {targetStatus[t], targetStatus'[t]} \cap Settled = {}
      PROVE  DupInv'
  <2>1. ASSUME NEW t \in Targets
        PROVE  NoneRestored(t)
    <3>1. targetStatus'[t] \in Settled <=> targetStatus[t] \in Settled
      BY <1>1
    <3>2. \A r \in Sessions : Delivering(r, t)' <=> Delivering(r, t)
      BY <1>1 DEF Delivering, Least, sessionVars
    <3>. QED
      BY <1>1, <3>1, <3>2 DEF NoneRestored, MayDeliver, Carries, Dealt, sessionVars
  <2>. QED
    BY <1>1, <2>1, DupQuiet
<1>2. ASSUME NEW s \in Sessions, Alone(s), UNCHANGED <<targetStatus, dirty, delivered, crashes>>,
             pc[s] \in {"idle", "sweep"}, pc'[s] \in {"idle", "sweep", "targets"}
      PROVE  DupInv'
  <2>1. ASSUME NEW t \in Targets
        PROVE  MayDeliver(s, t)' => MayDeliver(s, t)
    BY <1>2 DEF MayDeliver, Carries, Dealt, Delivering
  <2>. QED
    BY <1>2, <2>1, OthersSpent, DupQuiet
<1>3. ASSUME NEW s \in Sessions, NEW js \in SUBSET Jobs, Begin(s, js)
      PROVE  DupInv'
  BY <1>2, <1>3, BeginEffect DEF NoDelivery
<1>4. ASSUME NEW s \in Sessions, NEW j \in Jobs, PickAccounts(s, j)
      PROVE  DupInv'
  BY <1>2, <1>4, PickAccountsEffect DEF NoDelivery
<1>5. ASSUME NEW s \in Sessions, PickTargets(s)
      PROVE  DupInv'
  <2>1. /\ Alone(s) /\ UNCHANGED <<targetStatus, delivered, crashes>>
        /\ pc[s] = "targets" /\ pc'[s] = "send" /\ dirty[s] = Clean
        /\ \A t \in tick'[s].work : targetStatus[t] = "queued"
    BY <1>5, <1>h, PickTargetsEffect DEF NoDelivery, SessionHolds, Queued
  <2>2. ASSUME NEW t \in Targets
        PROVE  MayDeliver(s, t)' => MayDeliver(s, t)
    BY <1>0, <2>1 DEF MayDeliver, Carries, Dealt, Delivering, Settled
  <2>. QED
    BY <2>1, <2>2, OthersSpent, DupQuiet
<1>6. ASSUME NEW s \in Sessions, FailTarget(s)
      PROVE  DupInv'
  <2>1. PICK a \in Accounts, t \in Targets :
          /\ Alone(s) /\ UNCHANGED <<targetStatus, delivered, crashes, pc>> /\ pc[s] = "send"
          /\ tick'[s].work = tick[s].work \ {t}
          /\ \A u \in Targets :
                dirty'[s].target[u] = (IF u = t THEN "failed" ELSE dirty[s].target[u])
    BY <1>6, FailTargetEffect DEF NoDelivery
  <2>2. ASSUME NEW u \in Targets
        PROVE  MayDeliver(s, u)' => MayDeliver(s, u)
    BY <2>1 DEF MayDeliver, Carries, Dealt, Delivering
  <2>. QED
    BY <2>1, <2>2, OthersSpent, DupQuiet
<1>7. ASSUME NEW s \in Sessions, NEW outcome \in Outcomes, Send(s, outcome)
      PROVE  DupInv'
  <2>1. PICK a \in Accounts, t \in Targets :
          /\ IsTurn(s, a, t)
          /\ Alone(s) /\ UNCHANGED <<targetStatus, crashes, tick>> /\ pc[s] = "send"
          /\ Deliver(a, t) \/ UNCHANGED ghosts
          /\ \/ pc'[s] = "record" /\ UNCHANGED dirty
             \/ /\ pc'[s] = "commit"
                /\ \A u \in Targets :
                      dirty'[s].target[u] = (IF u = t THEN "failed" ELSE dirty[s].target[u])
    BY <1>7, SendEffect
  <2>2. Least(t, tick[s].work) /\ dirty[s].target[t] = "clean"
    BY <1>h, <2>1 DEF IsTurn, Least, SessionHolds
  <2>3. \A u \in Targets : Least(u, tick[s].work) => u = t
    BY <2>2, SenderAssumption DEF Least
  <2>4. MayDeliver(s, t) /\ ~MayDeliver(s, t)'
    <3>1. t \in tick[s].work /\ (pc'[s] = "record" => Delivering(s, t)')
      BY <2>1, <2>2 DEF Delivering, Least
    <3>2. MayDeliver(s, t)
      BY <2>1, <2>2, <3>1 DEF MayDeliver, Carries, Dealt, Delivering
    <3>3. Dealt(s, t)' /\ ~Carries(s, t)'
      BY <2>1, <3>1 DEF Carries, Dealt
    <3>. QED
      BY <3>2, <3>3 DEF MayDeliver
  <2>5. ASSUME NEW u \in Targets
        PROVE  MayDeliver(s, u)' => MayDeliver(s, u)
    BY <2>1, <2>3, <2>4 DEF MayDeliver, Carries, Dealt, Delivering
  <2>6. \A u \in Targets : NoneRestored(u)
    BY <2>1, <2>5, OthersSpent
  <2>7. CASE UNCHANGED ghosts
    BY <2>1, <2>6, <2>7, DupQuiet
  <2>8. CASE Deliver(a, t)
    <3>1. delivered[t] \in Nat /\ delivered'[t] = delivered[t] + 1 /\ crashes \in Nat
      BY <2>8 DEF Deliver, TypeOK
    <3>2. \A u \in Targets \ {t} : delivered'[u] = delivered[u] /\ delivered[u] \in Nat
      BY <2>8 DEF Deliver, TypeOK
    <3>3. ASSUME NEW u \in Targets \ {t}
          PROVE  delivered'[u] <= Cardinality(Spent(u)') + crashes'
      <4>1. Spent(u) \subseteq Spent(u)'
        BY <2>6 DEF NoneRestored, Spent
      <4>2. /\ Cardinality(Spent(u)) \in Nat /\ Cardinality(Spent(u)') \in Nat
            /\ Cardinality(Spent(u)) <= Cardinality(Spent(u)')
        BY <4>1, SpentFinite, CountGrows
      <4>. QED
        BY <2>1, <3>1, <3>2, <4>2 DEF DupInv
    <3>4. delivered'[t] <= Cardinality(Spent(t)') + crashes'
      <4>1. s \notin Spent(t) /\ Spent(t) \cup {s} \subseteq Spent(t)'
        BY <2>4, <2>6 DEF NoneRestored, Spent
      <4>2. /\ Cardinality(Spent(t)) \in Nat /\ Cardinality(Spent(t)') \in Nat
            /\ Cardinality(Spent(t)) + 1 <= Cardinality(Spent(t)')
        BY <4>1, SpentFinite, CountGains
      <4>3. delivered[t] <= Cardinality(Spent(t)) + crashes
        BY DEF DupInv
      <4>. QED
        BY <2>1, <3>1, <4>2, <4>3
    <3>. QED
      BY <3>3, <3>4 DEF DupInv
  <2>. QED
    BY <2>1, <2>7, <2>8
<1>8. ASSUME NEW s \in Sessions, Record(s)
      PROVE  DupInv'
  <2>1. PICK a \in Accounts, t \in Targets :
          /\ IsTurn(s, a, t)
          /\ Alone(s) /\ UNCHANGED <<delivered, crashes>>
          /\ pc[s] = "record" /\ pc'[s] = "send" /\ Flush(s)
          /\ tick'[s].work = tick[s].work \ {t}
          /\ \A u \in Targets : dirty'[s].target[u] = (IF u = t THEN "sent" ELSE "clean")
    BY <1>8, RecordEffect DEF NoDelivery
  <2>2. \A u \in Targets : Least(u, tick[s].work) <=> u = t
    BY <2>1, SenderAssumption DEF IsTurn, Least
  <2>3. \A u \in Targets : /\ dirty[s].target[u] # "clean" => targetStatus'[u] \in Settled
                           /\ targetStatus[u] \in Settled => targetStatus'[u] \in Settled
    BY <2>1, FlushEffect
  <2>4. ASSUME NEW u \in Targets
        PROVE  MayDeliver(s, u)' => MayDeliver(s, u)
    <3>1. u \in tick[s].work => dirty[s].target[u] = "clean"
      BY <1>h, <2>1 DEF SessionHolds
    <3>. QED
      BY <2>1, <2>2, <2>3, <3>1 DEF MayDeliver, Carries, Dealt, Delivering
  <2>. QED
    BY <2>1, <2>3, <2>4, OthersSpent, DupQuiet
<1>9. ASSUME NEW s \in Sessions, Count(s)
      PROVE  DupInv'
  <2>1. /\ Alone(s) /\ UNCHANGED <<targetStatus, delivered, crashes, tick>>
        /\ pc[s] = "send" /\ pc'[s] = "commit" /\ dirty'[s].target = dirty[s].target
    BY <1>9, CountEffect DEF NoDelivery
  <2>2. ASSUME NEW t \in Targets
        PROVE  MayDeliver(s, t)' => MayDeliver(s, t)
    BY <2>1 DEF MayDeliver, Carries, Dealt, Delivering
  <2>. QED
    BY <2>1, <2>2, OthersSpent, DupQuiet
<1>10. ASSUME NEW s \in Sessions, Commit(s)
       PROVE  DupInv'
  <2>1. /\ Alone(s) /\ UNCHANGED <<delivered, crashes>>
        /\ pc[s] = "commit" /\ pc'[s] \in {"idle", "sweep"} /\ Flush(s) /\ dirty'[s] = Clean
    BY <1>10, CommitEffect DEF NoDelivery
  <2>2. \A u \in Targets : /\ dirty[s].target[u] # "clean" => targetStatus'[u] \in Settled
                           /\ targetStatus[u] \in Settled => targetStatus'[u] \in Settled
    BY <2>1, FlushEffect
  <2>3. ASSUME NEW t \in Targets
        PROVE  MayDeliver(s, t)' => MayDeliver(s, t)
    BY <2>1, <2>2 DEF MayDeliver, Carries, Dealt, Delivering
  <2>. QED
    BY <2>1, <2>2, <2>3, OthersSpent, DupQuiet
<1>11. ASSUME NEW s \in Sessions, Crash(s)
       PROVE  DupInv'
  <2>1. /\ Alone(s) /\ UNCHANGED <<targetStatus, delivered>> /\ crashes' = crashes + 1
    BY <1>11, CrashEffect DEF NoDelivery
  <2>2. ASSUME NEW t \in Targets
        PROVE  delivered'[t] <= Cardinality(Spent(t)') + crashes'
    <3>1. \A r \in Sessions \ {s} : MayDeliver(r, t)' <=> MayDeliver(r, t)
      <4>1. \A r \in Sessions \ {s} : Delivering(r, t)' <=> Delivering(r, t)
        BY <2>1 DEF Alone, Delivering, Least
      <4>. QED
        BY <2>1, <4>1 DEF Alone, MayDeliver, Carries, Dealt
    <3>2. Spent(t) \ {s} \subseteq Spent(t)'
      BY <3>1 DEF Spent
    <3>3. /\ Cardinality(Spent(t)) \in Nat /\ Cardinality(Spent(t)') \in Nat
          /\ Cardinality(Spent(t)) <= Cardinality(Spent(t)') + 1
      BY <3>2, SpentFinite, CountLoses
    <3>. QED
      BY <2>1, <3>3 DEF DupInv, TypeOK
  <2>. QED
    BY <2>2 DEF DupInv
<1>12. ASSUME NEW j \in Jobs, NEW chosen \in SUBSET Contacts, AddTargets(j, chosen)
       PROVE  DupInv'
  <2>1. UNCHANGED <<sessionVars, delivered, crashes>>
    BY <1>12 DEF AddTargets
  <2>2. \A t \in Targets : \/ targetStatus'[t] = targetStatus[t]
                           \/ targetStatus[t] = "absent" /\ targetStatus'[t] = "queued"
    BY <1>12 DEF AddTargets, IsNew
  <2>. QED
    BY <1>1, <2>1, <2>2 DEF Settled
<1>13. CASE Surroundings \/ (\E j \in Jobs : StartJob(j) \/ PauseJob(j) \/ StopJob(j))
            \/ UNCHANGED vars
  <2>1. UNCHANGED <<sessionVars, delivered, crashes, targetStatus>>
    BY <1>13
       DEF StartJob, PauseJob, StopJob, SetJobStatus, Surroundings, OptOut, GiveConsent,
           WithdrawConsent, SetContact, Quarantine, Reactivate, SetAccount, Rest, vars
  <2>. QED
    BY <1>1, <2>1
<1>14. ASSUME NEW s \in Sessions, BeginSweep(s) \/ \E j \in Jobs : BeginManual(s, j)
       PROVE  DupInv'
  BY <1>3, <1>14 DEF BeginSweep, BeginManual
<1>. QED
  BY <1>4, <1>5, <1>6, <1>7, <1>8, <1>9, <1>10, <1>11, <1>12, <1>13, <1>14
     DEF Next, Manager, TickStep

-----------------------------------------------------------------------------
(* Sends of a job that no longer runs.  A pair of a session and an account   *)
(* is out when the session cannot send for the job from the account any      *)
(* more: it began after the job was stopped, has done with the job, or has    *)
(* used the account up.  A crash puts no pair back, since the next tick      *)
(* begins by reading which jobs run.                                        *)

Sending(s, a) == pc[s] = "record" /\ IsNext(a, tick[s].left, tick[s].pivot)

Able(s, a, j) ==
    /\ j \in tick[s].todo
    /\ pc[s] \in {"targets", "send", "record"} /\ tick[s].job = j =>
          a \in tick[s].left /\ ~Sending(s, a)
    /\ ~(pc[s] = "commit" /\ tick[s].job = j)

Out(j) == {p \in Sessions \X Accounts : ~Able(p[1], p[2], j)}

OffInv ==
    \A j \in Jobs :
        /\ jobStatus[j] = "running" => sendsOff[j] = 0
        /\ sendsOff[j] <= Cardinality(Out(j))

LEMMA PairsFinite ==
  IsFiniteSet(Sessions \X Accounts)
  /\ Cardinality(Sessions \X Accounts) = Cardinality(Sessions) * Cardinality(Accounts)
  BY FinitelyMany, FS_Product

LEMMA OutFinite ==
  ASSUME NEW j
  PROVE  IsFiniteSet(Out(j)) /\ IsFiniteSet(Out(j)') /\ Cardinality(Out(j)) \in Nat
         /\ Cardinality(Out(j)') \in Nat
<1>1. Out(j) \subseteq Sessions \X Accounts /\ Out(j)' \subseteq Sessions \X Accounts
  BY DEF Out
<1>. QED
  BY <1>1, PairsFinite, FS_Subset, FS_CardinalityType

LEMMA InitOff == Init => OffInv
<1>. SUFFICES ASSUME Init, NEW j \in Jobs
              PROVE  0 <= Cardinality(Out(j))
  BY DEF Init, OffInv
<1>. QED
  BY OutFinite

\* One account at a time is next.
LEMMA OneIsNext ==
  ASSUME TypeOK, NEW s \in Sessions, NEW a \in Accounts, NEW b \in Accounts,
         IsNext(a, tick[s].left, tick[s].pivot), IsNext(b, tick[s].left, tick[s].pivot)
  PROVE  a = b
  BY SenderAssumption DEF IsNext, NoId, TypeOK, TickStates

\* A step that sends nothing: no session becomes able to send for a job that does not run.
LEMMA OffQuiet ==
  ASSUME TypeOK, OffInv, NEW s \in Sessions, Alone(s), UNCHANGED sendsOff,
         \A j \in Jobs : jobStatus'[j] = "running" => jobStatus[j] = "running",
         \A j \in Jobs, a \in Accounts :
            jobStatus[j] # "running" /\ Able(s, a, j)' => Able(s, a, j)
  PROVE  OffInv'
<1>1. ASSUME NEW j \in Jobs
      PROVE  sendsOff'[j] <= Cardinality(Out(j)')
  <2>1. CASE jobStatus[j] = "running"
    BY <2>1, OutFinite DEF OffInv
  <2>2. CASE jobStatus[j] # "running"
    <3>1. ASSUME NEW r \in Sessions \ {s}, NEW a \in Accounts, Able(r, a, j)'
          PROVE  Able(r, a, j)
      BY <3>1 DEF Alone, Able, Sending, IsNext
    <3>2. ASSUME NEW r \in Sessions, NEW a \in Accounts, ~Able(r, a, j)
          PROVE  ~Able(r, a, j)'
      BY <2>2, <3>1, <3>2
    <3>3. Out(j) \subseteq Out(j)'
      BY <3>2 DEF Out
    <3>4. Cardinality(Out(j)) <= Cardinality(Out(j)')
      BY <3>3, OutFinite, CountGrows
    <3>. QED
      BY <3>4, OutFinite DEF OffInv, TypeOK
  <2>. QED
    BY <2>1, <2>2
<1>2. \A j \in Jobs : jobStatus'[j] = "running" => sendsOff'[j] = 0
  BY DEF OffInv
<1>. QED
  BY <1>1, <1>2 DEF OffInv

LEMMA OffStep == TypeOK /\ HeldInv /\ OffInv /\ [Next]_vars => OffInv'
<1>. SUFFICES ASSUME TypeOK, HeldInv, OffInv, [Next]_vars
              PROVE  OffInv'
  OBVIOUS
<1>. USE DEF ghosts
<1>h. \A s \in Sessions : SessionHolds(s)
  BY DEF HeldInv
<1>1. ASSUME UNCHANGED <<sessionVars, sendsOff>>,
             \A j \in Jobs : jobStatus'[j] = "running" => jobStatus[j] = "running"
      PROVE  OffInv'
  <2>1. ASSUME NEW j \in Jobs
        PROVE  Out(j)' = Out(j)
    BY <1>1 DEF Out, Able, Sending, IsNext, sessionVars
  <2>. QED
    BY <1>1, <2>1 DEF OffInv
<1>2. ASSUME NEW j \in Jobs, StartJob(j)
      PROVE  OffInv'
  <2>1. /\ UNCHANGED sessionVars
        /\ sendsOff' = [sendsOff EXCEPT ![j] = 0] /\ jobStatus' = [jobStatus EXCEPT ![j] = "running"]
    BY <1>2 DEF StartJob, SetJobStatus
  <2>2. ASSUME NEW i \in Jobs
        PROVE  Out(i)' = Out(i)
    BY <2>1 DEF Out, Able, Sending, IsNext, sessionVars
  <2>. QED
    BY <2>1, <2>2, OutFinite DEF OffInv, TypeOK
<1>3. ASSUME NEW j \in Jobs, PauseJob(j) \/ StopJob(j)
      PROVE  OffInv'
  <2>1. UNCHANGED <<sessionVars, sendsOff>>
    BY <1>3 DEF PauseJob, StopJob, SetJobStatus
  <2>2. \A i \in Jobs : jobStatus'[i] = "running" => jobStatus[i] = "running"
    BY <1>3 DEF PauseJob, StopJob, SetJobStatus, TypeOK
  <2>. QED
    BY <1>1, <2>1, <2>2
<1>4. ASSUME NEW s \in Sessions, NEW js \in SUBSET Jobs, Begin(s, js),
             \A j \in js : jobStatus[j] = "running"
      PROVE  OffInv'
  <2>1. Alone(s) /\ UNCHANGED <<sendsOff, jobStatus>> /\ tick'[s].todo = js
    BY <1>4, BeginEffect DEF NoDelivery
  <2>. QED
    BY <1>4, <2>1, OffQuiet DEF Able
<1>5. ASSUME NEW s \in Sessions, NEW j \in Jobs, PickAccounts(s, j)
      PROVE  OffInv'
  <2>1. /\ Alone(s) /\ UNCHANGED <<sendsOff, jobStatus>> /\ pc[s] = "sweep"
        /\ tick'[s].todo \subseteq tick[s].todo
    BY <1>5, PickAccountsEffect DEF NoDelivery
  <2>. QED
    BY <2>1, OffQuiet DEF Able
<1>6. ASSUME NEW s \in Sessions, PickTargets(s)
      PROVE  OffInv'
  <2>1. /\ Alone(s) /\ UNCHANGED <<sendsOff, jobStatus>> /\ pc[s] = "targets" /\ pc'[s] = "send"
        /\ tick'[s].todo = tick[s].todo /\ tick'[s].job = tick[s].job
        /\ tick'[s].left = tick[s].left
    BY <1>6, PickTargetsEffect DEF NoDelivery
  <2>. QED
    BY <2>1, OffQuiet DEF Able, Sending
<1>7. ASSUME NEW s \in Sessions, FailTarget(s)
      PROVE  OffInv'
  <2>1. PICK a \in Accounts :
          /\ Alone(s) /\ UNCHANGED <<sendsOff, jobStatus, pc>> /\ pc[s] = "send"
          /\ tick'[s].todo = tick[s].todo /\ tick'[s].job = tick[s].job
          /\ tick'[s].left = tick[s].left \ {a}
    BY <1>7, FailTargetEffect DEF NoDelivery
  <2>. QED
    BY <2>1, OffQuiet DEF Able, Sending
<1>8. ASSUME NEW s \in Sessions, NEW outcome \in Outcomes, Send(s, outcome)
      PROVE  OffInv'
  <2>1. PICK a \in Accounts, t \in Targets :
          /\ IsTurn(s, a, t)
          /\ Alone(s) /\ UNCHANGED <<jobStatus, tick>> /\ pc[s] = "send"
          /\ Deliver(a, t) \/ UNCHANGED ghosts
          /\ pc'[s] \in {"record", "commit"}
    BY <1>8, SendEffect
  <2>2. ASSUME NEW j \in Jobs, NEW b \in Accounts, Able(s, b, j)'
        PROVE  Able(s, b, j)
    BY <2>1, <2>2 DEF Able, Sending
  <2>3. CASE UNCHANGED ghosts
    BY <2>1, <2>2, <2>3, OffQuiet
  <2>4. CASE Deliver(a, t)
    <3>. DEFINE i == JobOf[t]
    <3>1. i = tick[s].job /\ i \in tick[s].todo /\ i \in Jobs
      BY <1>h, <2>1, SenderAssumption DEF IsTurn, SessionHolds
    <3>2. Able(s, a, i) /\ ~Able(s, a, i)'
      <4>1. IsNext(a, tick[s].left, tick[s].pivot) /\ a \in tick[s].left
        BY <2>1 DEF IsTurn, IsNext
      <4>2. pc'[s] = "record" => Sending(s, a)'
        BY <2>1, <4>1 DEF Sending, IsNext
      <4>3. Able(s, a, i)
        BY <2>1, <3>1, <4>1 DEF Able, Sending
      <4>4. ~Able(s, a, i)'
        BY <2>1, <3>1, <4>2 DEF Able
      <4>. QED
        BY <4>3, <4>4
    <3>. HIDE DEF i
    <3>3. \A j \in Jobs : Out(j) \subseteq Out(j)'
      <4>1. ASSUME NEW j \in Jobs, NEW r \in Sessions \ {s}, NEW b \in Accounts, Able(r, b, j)'
            PROVE  Able(r, b, j)
        BY <2>1, <4>1 DEF Alone, Able, Sending, IsNext
      <4>. QED
        BY <2>2, <4>1 DEF Out
    <3>4. sendsOff' = [sendsOff EXCEPT ![i] = IF jobStatus[i] = "running" THEN @ ELSE @ + 1]
      BY <2>4 DEF Deliver, i
    <3>5. ASSUME NEW j \in Jobs
          PROVE  sendsOff'[j] <= Cardinality(Out(j)')
      <4>1. /\ sendsOff[j] \in Nat /\ sendsOff[j] <= Cardinality(Out(j))
            /\ Cardinality(Out(j)) <= Cardinality(Out(j)')
            /\ Cardinality(Out(j)) \in Nat /\ Cardinality(Out(j)') \in Nat
        BY <3>3, OutFinite, CountGrows DEF OffInv, TypeOK
      <4>2. CASE j # i \/ jobStatus[i] = "running"
        <5>1. sendsOff'[j] = sendsOff[j]
          BY <3>4, <4>2 DEF TypeOK
        <5>. QED
          BY <4>1, <5>1
      <4>3. CASE j = i /\ jobStatus[i] # "running"
        <5>1. sendsOff'[j] = sendsOff[j] + 1
          BY <3>4, <4>3 DEF TypeOK
        <5>2. <<s, a>> \notin Out(j) /\ Out(j) \cup {<<s, a>>} \subseteq Out(j)'
          BY <3>2, <3>3, <4>3 DEF Out
        <5>3. Cardinality(Out(j)) + 1 <= Cardinality(Out(j)')
          BY <5>2, OutFinite, CountGains
        <5>. QED
          BY <4>1, <5>1, <5>3
      <4>. QED
        BY <4>2, <4>3
    <3>6. \A j \in Jobs : jobStatus'[j] = "running" => sendsOff'[j] = 0
      BY <2>1, <3>4 DEF OffInv, TypeOK
    <3>. QED
      BY <3>5, <3>6 DEF OffInv
  <2>. QED
    BY <2>1, <2>3, <2>4
<1>9. ASSUME NEW s \in Sessions, Record(s)
      PROVE  OffInv'
  <2>1. PICK a \in Accounts, t \in Targets :
          /\ IsTurn(s, a, t)
          /\ Alone(s) /\ UNCHANGED sendsOff /\ pc[s] = "record" /\ pc'[s] = "send" /\ Flush(s)
          /\ tick'[s].todo = tick[s].todo /\ tick'[s].job = tick[s].job
          /\ tick'[s].left = tick[s].left \ {a}
    BY <1>9, RecordEffect DEF NoDelivery
  <2>2. \A b \in Accounts : Sending(s, b) => b = a
    BY <2>1, OneIsNext DEF IsTurn, Sending
  <2>3. ASSUME NEW j \in Jobs, NEW b \in Accounts, Able(s, b, j)'
        PROVE  Able(s, b, j)
    BY <2>1, <2>2, <2>3 DEF Able
  <2>. QED
    BY <2>1, <2>3, FlushEffect, OffQuiet
<1>10. ASSUME NEW s \in Sessions, Count(s)
       PROVE  OffInv'
  <2>1. /\ Alone(s) /\ UNCHANGED <<sendsOff, jobStatus, tick>> /\ pc[s] = "send" /\ pc'[s] = "commit"
    BY <1>10, CountEffect DEF NoDelivery
  <2>2. ASSUME NEW j \in Jobs, NEW b \in Accounts, Able(s, b, j)'
        PROVE  Able(s, b, j)
    BY <2>1, <2>2 DEF Able
  <2>. QED
    BY <2>1, <2>2, OffQuiet
<1>11. ASSUME NEW s \in Sessions, Commit(s)
       PROVE  OffInv'
  <2>1. /\ Alone(s) /\ UNCHANGED sendsOff /\ Flush(s) /\ pc[s] = "commit"
        /\ pc'[s] \in {"idle", "sweep"}
        /\ tick'[s].todo = tick[s].todo \ {tick[s].job}
    BY <1>11, CommitEffect DEF NoDelivery
  <2>2. ASSUME NEW j \in Jobs, NEW b \in Accounts, Able(s, b, j)'
        PROVE  Able(s, b, j)
    BY <2>1, <2>2 DEF Able
  <2>. QED
    BY <2>1, <2>2, FlushEffect, OffQuiet
<1>12. ASSUME NEW s \in Sessions, Crash(s)
       PROVE  OffInv'
  <2>1. /\ Alone(s) /\ UNCHANGED <<sendsOff, jobStatus>> /\ tick'[s].todo = {}
    BY <1>12, CrashEffect DEF NoDelivery
  <2>. QED
    BY <2>1, OffQuiet DEF Able
<1>13. CASE Surroundings \/ UNCHANGED vars
            \/ \E j \in Jobs, chosen \in SUBSET Contacts : AddTargets(j, chosen)
  <2>1. UNCHANGED <<sessionVars, sendsOff, jobStatus>>
    BY <1>13
       DEF AddTargets, Surroundings, OptOut, GiveConsent, WithdrawConsent, SetContact,
           Quarantine, Reactivate, SetAccount, Rest, vars, jobVars
  <2>. QED
    BY <1>1, <2>1
<1>14. ASSUME NEW s \in Sessions, BeginSweep(s) \/ \E j \in Jobs : BeginManual(s, j)
       PROVE  OffInv'
  BY <1>4, <1>14 DEF BeginSweep, BeginManual, IsDue
<1>. QED
  BY <1>2, <1>3, <1>5, <1>6, <1>7, <1>8, <1>9, <1>10, <1>11, <1>12, <1>13, <1>14
     DEF Next, Manager, TickStep

-----------------------------------------------------------------------------
(* Messages after an opt-out.  Only a session that carries a target of the   *)
(* contact since before can still send one, and it carries at most one: a    *)
(* tick that loads its targets later skips the contact.                      *)

Pursues(s, c) == \E t \in tick[s].work : ContactOf[t] = c /\ Carries(s, t)

Off(c) == {s \in Sessions : ~Pursues(s, c)}

LateInv ==
    \A c \in Contacts :
        /\ contact[c] # "opted_out" => lateSends[c] = 0
        /\ lateSends[c] <= Cardinality(Off(c))

LEMMA OffFinite ==
  ASSUME NEW c
  PROVE  IsFiniteSet(Off(c)) /\ IsFiniteSet(Off(c)') /\ Cardinality(Off(c)) \in Nat
         /\ Cardinality(Off(c)') \in Nat
<1>1. Off(c) \subseteq Sessions /\ Off(c)' \subseteq Sessions
  BY DEF Off
<1>. QED
  BY <1>1, FinitelyMany, FS_Subset, FS_CardinalityType

LEMMA InitLate == Init => LateInv
<1>. SUFFICES ASSUME Init, NEW c \in Contacts
              PROVE  0 <= Cardinality(Off(c))
  BY DEF Init, LateInv
<1>. QED
  BY OffFinite

\* A step that sends nothing and after which no session pursues a contact that has opted out,
\* unless it did before.
LEMMA LateQuiet ==
  ASSUME TypeOK, LateInv, NEW s \in Sessions, Alone(s), UNCHANGED <<contact, lateSends>>,
         \A c \in Contacts : contact[c] = "opted_out" /\ Pursues(s, c)' => Pursues(s, c)
  PROVE  LateInv'
<1>1. ASSUME NEW c \in Contacts
      PROVE  lateSends'[c] <= Cardinality(Off(c)')
  <2>1. CASE contact[c] # "opted_out"
    BY <2>1, OffFinite DEF LateInv
  <2>2. CASE contact[c] = "opted_out"
    <3>1. ASSUME NEW r \in Sessions \ {s}, Pursues(r, c)'
          PROVE  Pursues(r, c)
      BY <3>1 DEF Alone, Pursues, Carries, Delivering, Least
    <3>2. Off(c) \subseteq Off(c)'
      BY <2>2, <3>1 DEF Off
    <3>3. Cardinality(Off(c)) <= Cardinality(Off(c)')
      BY <3>2, OffFinite, CountGrows
    <3>. QED
      BY <3>3, OffFinite DEF LateInv, TypeOK
  <2>. QED
    BY <2>1, <2>2
<1>. QED
  BY <1>1 DEF LateInv

LEMMA LateStep == TypeOK /\ HeldInv /\ LateInv /\ [Next]_vars => LateInv'
<1>. SUFFICES ASSUME TypeOK, HeldInv, LateInv, [Next]_vars
              PROVE  LateInv'
  OBVIOUS
<1>. USE DEF ghosts
<1>h. \A s \in Sessions : SessionHolds(s)
  BY DEF HeldInv
<1>1. ASSUME UNCHANGED sessionVars,
             \A c \in Contacts : /\ contact'[c] # "opted_out" => lateSends'[c] = 0
                                 /\ lateSends'[c] \in {lateSends[c], 0}
      PROVE  LateInv'
  <2>1. ASSUME NEW c \in Contacts
        PROVE  Off(c)' = Off(c)
    BY <1>1 DEF Off, Pursues, Carries, Delivering, Least, sessionVars
  <2>. QED
    BY <1>1, <2>1, OffFinite DEF LateInv
<1>2. ASSUME NEW s \in Sessions, Alone(s), UNCHANGED <<contact, lateSends>>,
             pc'[s] \notin {"send", "record"}
      PROVE  LateInv'
  BY <1>2, LateQuiet DEF Pursues, Carries
<1>3. ASSUME NEW s \in Sessions, NEW js \in SUBSET Jobs, Begin(s, js)
      PROVE  LateInv'
  BY <1>2, <1>3, BeginEffect DEF NoDelivery
<1>4. ASSUME NEW s \in Sessions, NEW j \in Jobs, PickAccounts(s, j)
      PROVE  LateInv'
  BY <1>2, <1>4, PickAccountsEffect DEF NoDelivery
<1>5. ASSUME NEW s \in Sessions, PickTargets(s)
      PROVE  LateInv'
  <2>1. /\ Alone(s) /\ UNCHANGED <<contact, lateSends>>
        /\ tick'[s].work = {t \in Queued(tick[s].job) : MayMessage(ContactOf[t])}
    BY <1>5, PickTargetsEffect DEF NoDelivery
  <2>2. ASSUME NEW c \in Contacts, contact[c] = "opted_out"
        PROVE  ~Pursues(s, c)'
    BY <2>1, <2>2 DEF Pursues, MayMessage
  <2>. QED
    BY <2>1, <2>2, LateQuiet
<1>6. ASSUME NEW s \in Sessions, FailTarget(s)
      PROVE  LateInv'
  <2>1. PICK t \in Targets :
          /\ Alone(s) /\ UNCHANGED <<contact, lateSends, pc>> /\ pc[s] = "send"
          /\ tick'[s].work = tick[s].work \ {t}
    BY <1>6, FailTargetEffect DEF NoDelivery
  <2>2. ASSUME NEW c \in Contacts, Pursues(s, c)'
        PROVE  Pursues(s, c)
    BY <2>1, <2>2 DEF Pursues, Carries, Delivering
  <2>. QED
    BY <2>1, <2>2, LateQuiet
<1>7. ASSUME NEW s \in Sessions, NEW outcome \in Outcomes, Send(s, outcome)
      PROVE  LateInv'
  <2>1. PICK a \in Accounts, t \in Targets :
          /\ IsTurn(s, a, t)
          /\ Alone(s) /\ UNCHANGED <<contact, tick>> /\ pc[s] = "send"
          /\ Deliver(a, t) \/ UNCHANGED ghosts
          /\ pc'[s] \in {"record", "commit"}
    BY <1>7, SendEffect
  <2>2. Least(t, tick[s].work) /\ t \in tick[s].work
    BY <2>1 DEF IsTurn, Least
  <2>3. ASSUME NEW c \in Contacts, Pursues(s, c)'
        PROVE  Pursues(s, c)
    BY <2>1, <2>3 DEF Pursues, Carries, Delivering
  <2>4. CASE UNCHANGED ghosts
    BY <2>1, <2>3, <2>4, LateQuiet
  <2>5. CASE Deliver(a, t)
    <3>. DEFINE d == ContactOf[t]
    <3>1. d \in Contacts /\ tick[s].work \subseteq Targets
      BY SenderAssumption DEF TypeOK, TickStates
    <3>2. Pursues(s, d)
      BY <2>1, <2>2 DEF Pursues, Carries, Delivering
    <3>3. ~Pursues(s, d)'
      <4>1. ASSUME NEW u \in tick[s].work, ContactOf[u] = d
            PROVE  u = t
        <5>1. JobOf[u] = JobOf[t]
          BY <1>h, <2>1, <2>2, <4>1 DEF SessionHolds
        <5>. QED
          BY <3>1, <4>1, <5>1, TargetsUnique
      <4>2. pc'[s] = "record" => Delivering(s, t)'
        BY <2>1, <2>2 DEF Delivering, Least
      <4>3. ~Carries(s, t)'
        BY <2>1, <4>2 DEF Carries
      <4>. QED
        BY <2>1, <4>1, <4>3 DEF Pursues
    <3>. HIDE DEF d
    <3>4. lateSends' = [lateSends EXCEPT ![d] = IF contact[d] = "opted_out" THEN @ + 1 ELSE @]
      BY <2>5 DEF Deliver, d
    <3>5. \A c \in Contacts : Off(c) \subseteq Off(c)'
      <4>1. ASSUME NEW c \in Contacts, NEW r \in Sessions \ {s}, Pursues(r, c)'
            PROVE  Pursues(r, c)
        BY <2>1, <4>1 DEF Alone, Pursues, Carries, Delivering, Least
      <4>. QED
        BY <2>3, <4>1 DEF Off
    <3>6. ASSUME NEW c \in Contacts
          PROVE  lateSends'[c] <= Cardinality(Off(c)')
      <4>1. /\ lateSends[c] \in Nat /\ lateSends[c] <= Cardinality(Off(c))
            /\ Cardinality(Off(c)) <= Cardinality(Off(c)')
            /\ Cardinality(Off(c)) \in Nat /\ Cardinality(Off(c)') \in Nat
        BY <3>5, OffFinite, CountGrows DEF LateInv, TypeOK
      <4>2. CASE c # d \/ contact[d] # "opted_out"
        <5>1. lateSends'[c] = lateSends[c]
          BY <3>4, <4>2 DEF TypeOK
        <5>. QED
          BY <4>1, <5>1
      <4>3. CASE c = d /\ contact[d] = "opted_out"
        <5>1. lateSends'[c] = lateSends[c] + 1
          BY <3>4, <4>3 DEF TypeOK
        <5>2. s \notin Off(c) /\ Off(c) \cup {s} \subseteq Off(c)'
          BY <3>2, <3>3, <3>5, <4>3 DEF Off
        <5>3. Cardinality(Off(c)) + 1 <= Cardinality(Off(c)')
          BY <5>2, OffFinite, CountGains
        <5>. QED
          BY <4>1, <5>1, <5>3
      <4>. QED
        BY <4>2, <4>3
    <3>7. \A c \in Contacts : contact'[c] # "opted_out" => lateSends'[c] = 0
      BY <2>1, <3>4 DEF LateInv, TypeOK
    <3>. QED
      BY <3>6, <3>7 DEF LateInv
  <2>. QED
    BY <2>1, <2>4, <2>5
<1>8. ASSUME NEW s \in Sessions, Record(s)
      PROVE  LateInv'
  <2>1. PICK a \in Accounts, t \in Targets :
          /\ IsTurn(s, a, t)
          /\ Alone(s) /\ UNCHANGED <<contact, lateSends>> /\ pc[s] = "record" /\ pc'[s] = "send"
          /\ tick'[s].work = tick[s].work \ {t}
    BY <1>8, RecordEffect DEF NoDelivery
  <2>2. \A u \in tick[s].work : Least(u, tick[s].work) => u = t
    BY <2>1, SenderAssumption DEF IsTurn, Least, TypeOK, TickStates
  <2>3. ASSUME NEW c \in Contacts, Pursues(s, c)'
        PROVE  Pursues(s, c)
    BY <2>1, <2>2, <2>3 DEF Pursues, Carries, Delivering
  <2>. QED
    BY <2>1, <2>3, LateQuiet
<1>9. ASSUME NEW s \in Sessions, Count(s) \/ Commit(s) \/ Crash(s)
      PROVE  LateInv'
  <2>1. /\ Alone(s) /\ UNCHANGED <<contact, lateSends>>
        /\ pc'[s] \notin {"send", "record"}
    BY <1>9, CountEffect, CommitEffect, CrashEffect DEF NoDelivery
  <2>. QED
    BY <1>2, <2>1
<1>10. ASSUME NEW c \in Contacts, OptOut(c) \/ GiveConsent(c) \/ WithdrawConsent(c)
       PROVE  LateInv'
  <2>1. /\ UNCHANGED sessionVars
        /\ \E state \in ContactStates : contact' = [contact EXCEPT ![c] = state]
        /\ contact'[c] = "eligible" => lateSends' = [lateSends EXCEPT ![c] = 0]
        /\ contact'[c] # "eligible" => UNCHANGED lateSends
        /\ contact'[c] = "withheld" => contact[c] = "eligible"
    BY <1>10 DEF OptOut, GiveConsent, WithdrawConsent, SetContact, TypeOK, ContactStates
  <2>2. contact' \in [Contacts -> ContactStates] /\ lateSends \in [Contacts -> Nat]
    BY <2>1 DEF TypeOK
  <2>3. ASSUME NEW d \in Contacts
        PROVE  /\ contact'[d] # "opted_out" => lateSends'[d] = 0
               /\ lateSends'[d] \in {lateSends[d], 0}
    <3>1. CASE d # c
      BY <2>1, <2>2, <3>1 DEF LateInv, TypeOK
    <3>2. CASE d = c
      BY <2>1, <2>2, <3>2 DEF LateInv, TypeOK, ContactStates
    <3>. QED
      BY <3>1, <3>2
  <2>. QED
    BY <1>1, <2>1, <2>3
<1>11. CASE Manager \/ UNCHANGED vars
            \/ \E a \in Accounts : Quarantine(a) \/ Reactivate(a) \/ Rest(a)
  <2>1. UNCHANGED <<sessionVars, contact, lateSends>>
    BY <1>11
       DEF Manager, AddTargets, StartJob, PauseJob, StopJob, SetJobStatus, Quarantine,
           Reactivate, SetAccount, Rest, vars
  <2>. QED
    BY <1>1, <2>1 DEF LateInv
<1>12. ASSUME NEW s \in Sessions, BeginSweep(s) \/ \E j \in Jobs : BeginManual(s, j)
       PROVE  LateInv'
  BY <1>3, <1>12 DEF BeginSweep, BeginManual
<1>. QED
  BY <1>4, <1>5, <1>6, <1>7, <1>8, <1>9, <1>10, <1>11, <1>12
     DEF Next, Surroundings, TickStep

-----------------------------------------------------------------------------
\* However many ticks overlap, die or time out, each session and each crash accounts for at
\* most one delivery of a target, and for a job that was paused each session sends at most
\* one more message per account.
THEOREM OverlapsBounded == Spec => []OverlapBounded
<1>1. Init => TypeOK /\ HeldInv /\ DupInv /\ OffInv
  BY InitType, InitHeld, InitDup, InitOff
<1>2. TypeOK /\ HeldInv /\ DupInv /\ OffInv /\ [Next]_vars
         => (TypeOK /\ HeldInv /\ DupInv /\ OffInv)'
  BY NextType, HeldStep, DupStep, OffStep
<1>3. TypeOK /\ DupInv => DuplicatesBounded
  <2>. SUFFICES ASSUME TypeOK, DupInv, NEW t \in Targets
                PROVE  delivered[t] <= Cardinality(Sessions) + crashes
    BY DEF DuplicatesBounded
  <2>1. Spent(t) \subseteq Sessions
    BY DEF Spent
  <2>2. /\ Cardinality(Spent(t)) \in Nat /\ Cardinality(Sessions) \in Nat
        /\ Cardinality(Spent(t)) <= Cardinality(Sessions)
    BY <2>1, FinitelyMany, CountGrows
  <2>. QED
    BY <2>2 DEF DupInv, TypeOK
<1>4. TypeOK /\ OffInv => PauseTakesEffect
  <2>. SUFFICES ASSUME TypeOK, OffInv, NEW j \in Jobs
                PROVE  sendsOff[j] <= Cardinality(Sessions) * Cardinality(Accounts)
    BY DEF PauseTakesEffect
  <2>1. Out(j) \subseteq Sessions \X Accounts
    BY DEF Out
  <2>2. /\ Cardinality(Out(j)) \in Nat
        /\ Cardinality(Sessions \X Accounts) \in Nat
        /\ Cardinality(Out(j)) <= Cardinality(Sessions \X Accounts)
    BY <2>1, PairsFinite, CountGrows
  <2>3. sendsOff[j] \in Nat /\ sendsOff[j] <= Cardinality(Out(j))
    BY DEF OffInv, TypeOK
  <2>4. sendsOff[j] <= Cardinality(Sessions \X Accounts)
    BY <2>2, <2>3
  <2>. QED
    BY <2>4, PairsFinite
<1>5. TypeOK /\ DupInv /\ OffInv => OverlapBounded
  BY <1>3, <1>4 DEF OverlapBounded
<1>. QED
  BY <1>1, <1>2, <1>5, PTL DEF Spec

\* A contact that has opted out gets at most one more message from each session, which then
\* had loaded the contact's target before.
THEOREM LateBounded == Spec => []LateSendsBounded
<1>1. Init => TypeOK /\ HeldInv /\ LateInv
  BY InitType, InitHeld, InitLate
<1>2. TypeOK /\ HeldInv /\ LateInv /\ [Next]_vars => (TypeOK /\ HeldInv /\ LateInv)'
  BY NextType, HeldStep, LateStep
<1>3. TypeOK /\ LateInv => LateSendsBounded
  <2>. SUFFICES ASSUME TypeOK, LateInv, NEW c \in Contacts
                PROVE  lateSends[c] <= Cardinality(Sessions)
    BY DEF LateSendsBounded
  <2>1. Off(c) \subseteq Sessions
    BY DEF Off
  <2>2. /\ Cardinality(Off(c)) \in Nat /\ Cardinality(Sessions) \in Nat
        /\ Cardinality(Off(c)) <= Cardinality(Sessions)
    BY <2>1, FinitelyMany, CountGrows
  <2>. QED
    BY <2>2 DEF LateInv, TypeOK
<1>. QED
  BY <1>1, <1>2, <1>3, PTL DEF Spec

\* The commit that benches an account after a warning pauses the job too: no step but a crash
\* drops the one assignment without the other.
THEOREM WarningsPause == Spec => WarningPauses
<1>1. ASSUME TypeOK, HeldInv, [Next]_vars, NEW s \in Sessions, NEW a \in Accounts,
             a \in dirty[s].flagged, a \notin dirty'[s].flagged, crashes' = crashes
      PROVE  accountStatus'[a] = "quarantined" /\ jobStatus'[tick[s].job] # "running"
  <2>1. /\ pc[s] = "commit" /\ dirty[s].job = "paused" /\ dirty'[s] # dirty[s]
        /\ tick[s].job \in Jobs
    BY <1>1 DEF HeldInv, SessionHolds, TypeOK, TickStates
  <2>2. ASSUME Commit(s)
        PROVE  accountStatus'[a] = "quarantined" /\ jobStatus'[tick[s].job] # "running"
    BY <1>1, <2>1, <2>2 DEF Commit, Flush, TypeOK
  <2>3. ASSUME NEW r \in Sessions,
               \/ BeginSweep(r)
               \/ \E j \in Jobs : BeginManual(r, j) \/ PickAccounts(r, j)
               \/ PickTargets(r) \/ FailTarget(r) \/ Record(r) \/ Count(r)
               \/ \E outcome \in Outcomes : Send(r, outcome)
               \/ Commit(r) /\ r # s
        PROVE  FALSE
    <3>1. CASE r = s
      BY <2>1, <2>3, <3>1
         DEF BeginSweep, BeginManual, Begin, PickAccounts, PickTargets, FailTarget, Record,
             Count, Send
    <3>2. CASE r # s
      <4>1. Begin(r, {j \in Jobs : IsDue(j)}) \/ (\E j \in Jobs : Begin(r, {j}))
              => UNCHANGED dirty
        BY DEF Begin
      <4>2. Alone(r) \/ UNCHANGED dirty
        BY <1>1, <2>3, <3>2, <4>1, PickAccountsEffect, PickTargetsEffect, FailTargetEffect,
           RecordEffect, CountEffect, SendEffect, CommitEffect DEF BeginSweep, BeginManual
      <4>. QED
        BY <2>1, <3>2, <4>2 DEF Alone
    <3>. QED
      BY <3>1, <3>2
  <2>4. ASSUME NEW r \in Sessions, Crash(r)
        PROVE  FALSE
    BY <1>1, <2>4 DEF Crash, TypeOK
  <2>5. CASE Manager \/ Surroundings \/ UNCHANGED vars
    <3>1. UNCHANGED dirty
      BY <2>5
         DEF Manager, AddTargets, StartJob, PauseJob, StopJob, SetJobStatus, Surroundings,
             OptOut, GiveConsent, WithdrawConsent, SetContact, Quarantine, Reactivate,
             SetAccount, Rest, vars, sessionVars
    <3>. QED
      BY <2>1, <3>1
  <2>. QED
    BY <1>1, <2>2, <2>3, <2>4, <2>5 DEF Next, TickStep
<1>2. TypeOK /\ HeldInv /\ [Next]_vars =>
         [\A s \in Sessions, a \in Accounts :
             a \in dirty[s].flagged /\ a \notin dirty'[s].flagged /\ crashes' = crashes
                => /\ accountStatus'[a] = "quarantined"
                   /\ jobStatus'[tick[s].job] # "running"]_vars
  BY <1>1
<1>. QED
  BY <1>2, HeldAlways, PTL DEF Spec, WarningPauses
=============================================================================
