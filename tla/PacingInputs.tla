----------------------------- MODULE PacingInputs -----------------------------
(***************************************************************************)
(* Pacing checked against reference definitions over all small inputs: a   *)
(* state is one input (a set of usable accounts, the last used one, an     *)
(* active window and the time of day), and the accounts are then taken one *)
(* by one the way a tick takes them.                                       *)
(***************************************************************************)
EXTENDS Pacing

CONSTANTS PaIds,       \* account ids
          PaDayLength  \* number of instants of a day

VARIABLES paIds, paLast, paStart, paEnd, paCurrent, paLeft, paTaken

paClock == <<paStart, paEnd, paCurrent>>
paVars == <<paIds, paLast, paClock, paLeft, paTaken>>

PaInit ==
    /\ paIds \in SUBSET PaIds
    /\ paLast \in PaIds \cup {NoId}
    /\ paLeft = paIds
    /\ paTaken = <<>>
    /\ paStart \in 0..(PaDayLength - 1)
    /\ paEnd \in 0..(PaDayLength - 1)
    /\ paCurrent \in 0..(PaDayLength - 1)

PaNext ==
    /\ \E a \in paLeft :
        /\ IsNext(a, paLeft, Pivot(paIds, paLast))
        /\ paLeft' = paLeft \ {a}
        /\ paTaken' = Append(paTaken, a)
    /\ UNCHANGED <<paIds, paLast, paClock>>

\* Taking "the next account" over and over yields exactly the list that
\* pacing.rotate returns (pacing.py:40-51): the set form used by the tickers'
\* models is the code's list.
TakenIsRotate == IsPrefix(paTaken, Rotate(paIds, paLast))

\* With at least two usable accounts the rotation never begins with the account
\* of the previous action, and it uses every account exactly once.
RotationIsFair ==
    LET order == Rotate(paIds, paLast)
    IN  /\ ToSet(order) = paIds
        /\ Len(order) = Cardinality(paIds)
        /\ Len(order) > 1 => order[1] # paLast

\* A window is the arc of the clock that starts at "start" and is walked
\* forward to "end", both ends included, whether or not it crosses midnight.
WindowIsArc ==
    InWindow(paCurrent, paStart, paEnd) <=>
        (paCurrent - paStart) % PaDayLength <= (paEnd - paStart) % PaDayLength

\* The pacing rules are what their comments say.
PacingHolds == TakenIsRotate /\ RotationIsFair /\ WindowIsArc
=============================================================================
