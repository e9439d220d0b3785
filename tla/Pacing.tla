------------------------------- MODULE Pacing -------------------------------
(***************************************************************************)
(* The pure pacing rules every ticker of the system consults               *)
(* (backend/worker/antiban/pacing.py): the daily cap, the minimum delay    *)
(* between two actions of an account, the active-hours window and the      *)
(* round-robin order of the accounts.  Account ids are positive integers   *)
(* and 0 stands for None.  Times of day and instants are integers of any   *)
(* unit.                                                                    *)
(***************************************************************************)
EXTENDS Integers, SequencesExt

NoId == 0

\* Mutant: the comparison lets one action too many through.
UnderDailyCap_OffByOne(actionsToday, dailyCap) == actionsToday <= dailyCap

UnderDailyCap(actionsToday, dailyCap) == actionsToday < dailyCap

\* last_action_at is NoId before the first action of an account.
DelayOk(lastActionAt, now, minDelay) ==
    lastActionAt # NoId => now - lastActionAt >= minDelay

\* Mutant: the overnight case is forgotten.
InWindow_SameDayOnly(current, start, end) == start <= current /\ current <= end

\* A window whose end precedes its start runs over midnight.
InWindow(current, start, end) ==
    IF start <= end THEN start <= current /\ current <= end
                    ELSE current >= start \/ current <= end

\* The ids in increasing order, turned so that the last used one comes last.
Rotate(ids, last) ==
    LET ordered == SetToSortSeq(ids, <)
        n       == Len(ordered)
        i       == CHOOSE k \in 1..n : ordered[k] = last
    IN  IF last \in ids /\ n > 1
        THEN SubSeq(ordered, i + 1, n) \o SubSeq(ordered, 1, i)
        ELSE ordered

-----------------------------------------------------------------------------
(* The same order, consumed one account at a time: what a tick does with    *)
(* the list Rotate returns.  "left" is the set of ids not yet used and      *)
(* "pivot" the last used id if it was one of the ids, NoId otherwise.       *)

Pivot(ids, last) == IF last \in ids THEN last ELSE NoId

IsNext(a, left, pivot) ==
    /\ a \in left
    /\ IF \E b \in left : b > pivot
       THEN a > pivot /\ \A b \in left : b > pivot => a <= b
       ELSE \A b \in left : a <= b
=============================================================================
