---------------------------- MODULE MCCampaigns ----------------------------
(***************************************************************************)
(* Small instances of Campaigns: the functions a .cfg cannot write down.   *)
(***************************************************************************)
EXTENDS Campaigns, TLC

CONSTANTS k1, k2, c1, c2

\* Two steps for one contact, or one step for each of two contacts.
OneCampaign == [t \in Targets |-> k1]
TwoCampaigns == [t \in Targets |-> IF t = 1 THEN k1 ELSE k2]
SameContact == [t \in Targets |-> c1]
OwnContact  == [t \in Targets |-> IF t = 1 THEN c1 ELSE c2]

AtOnce  == [t \in Targets |-> 0]
Drip    == [t \in Targets |-> t - 1]
\* The second row is due first: ids do not follow the schedule.
Backward == [t \in Targets |-> 2 - t]

CapTwo == [a \in Accounts |-> 2]
CapThree == [a \in Accounts |-> 3]

Symmetry == Permutations(Workers)
=============================================================================
