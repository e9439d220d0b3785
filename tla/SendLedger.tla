----------------------------- MODULE SendLedger -----------------------------
(***************************************************************************)
(* What the sender promises about each target, whatever accounts, pacing   *)
(* and sessions are behind it: a target is queued at most once, its        *)
(* message is delivered at most once and only while it is queued, and its  *)
(* outcome is final and true: sent exactly if the message was delivered.   *)
(* One worker that does not die and an engine that answers keep this       *)
(* promise (Sender with one session); overlapping ticks do not.            *)
(***************************************************************************)
EXTENDS Naturals

CONSTANT Targets

VARIABLES
    status,     \* "absent", "queued" or the outcome of each target
    delivered   \* how often its message was delivered

vars == <<status, delivered>>

Init ==
    /\ status = [t \in Targets |-> "absent"]
    /\ delivered = [t \in Targets |-> 0]

Having(state) == {t \in Targets : status[t] = state}

Enqueue(chosen) ==
    /\ chosen \subseteq Having("absent")
    /\ status' = [t \in Targets |-> IF t \in chosen THEN "queued" ELSE status[t]]
    /\ UNCHANGED delivered

Deliver(t) ==
    /\ status[t] = "queued"
    /\ delivered[t] = 0
    /\ delivered' = [delivered EXCEPT ![t] = 1]
    /\ UNCHANGED status

\* A commit settles some queued targets at once.
Settle(chosen, failure) ==
    /\ chosen \subseteq Having("queued")
    /\ status' = [t \in Targets |->
          IF t \notin chosen THEN status[t]
          ELSE IF delivered[t] > 0 THEN "sent" ELSE failure[t]]
    /\ UNCHANGED delivered

Next ==
    \/ \E chosen \in SUBSET Targets : Enqueue(chosen)
    \/ \E t \in Targets : Deliver(t)
    \/ \E chosen \in SUBSET Targets, failure \in [Targets -> {"failed", "skipped"}] :
           Settle(chosen, failure)

Spec == Init /\ [][Next]_vars
=============================================================================
