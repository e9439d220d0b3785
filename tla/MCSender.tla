------------------------------ MODULE MCSender ------------------------------
(***************************************************************************)
(* Small instances of Sender: the functions that a .cfg cannot write down. *)
(***************************************************************************)
EXTENDS Sender, TLC

CONSTANTS c1, c2

\* Both targets belong to one job, or each to a job of its own.
OneJob  == <<"j1", "j1">>
TwoJobs == <<"j1", "j2">>

\* Each target has its own contact, or both have the same.
OwnContact  == <<c1, c2>>
SameContact == <<c1, c1>>

CapOne == [a \in Accounts |-> 1]
CapTwo == [a \in Accounts |-> 2]
CapOwn == [a \in Accounts |-> a]

Symmetry == Permutations(Sessions)
=============================================================================
