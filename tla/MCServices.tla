------------------------------ MODULE MCServices ------------------------------
(***************************************************************************)
(* Small instances of the components that share no state with one another,    *)
(* in one run: the first state chooses the component that is at work, the      *)
(* others rest.  The reachable states are those of the components one by one.  *)
(***************************************************************************)
EXTENDS MCAccounts, Destinations, ContactBook, Staff, RateLimiter, Backups, PacingInputs

CONSTANTS phone, username, othername, email, otheremail, password, otherpassword, q1, q2

VARIABLE atWork

-----------------------------------------------------------------------------
(* Values of the constants.                                                 *)

Line(a, b) == [phone |-> a, username |-> b]
Files == {<<Line(phone, username)>>, <<Line(phone, CbNone), Line(phone, othername)>>}
Numbers == 1..3

\* Everything, and what a restore of the database cannot get past its own lock with.
Everything == {"database", "sessions", "settings"}
Scopes == {Everything, {"database", "sessions"}}

Symmetry == Permutations({q1, q2})

-----------------------------------------------------------------------------
Rest(component) == atWork # component

ServicesInit ==
    /\ atWork \in {"accounts", "destinations", "contacts", "staff", "limiter",
                   "restores", "schedule", "pacing"}
    /\ Init /\ DsInit /\ CbInit /\ StInit /\ RlInit /\ BkInit /\ PaInit
    /\ Rest("accounts") => doings = CHOOSE scenario \in Scenarios : TRUE
    /\ Rest("staff") => StIsUser(1)
    /\ Rest("limiter") => rlRedisOk = {}
    /\ bkRef <=> ~Rest("restores")
    /\ Rest("pacing") => paIds = {} /\ paLast = NoId /\ paStart = 0 /\ paEnd = 0 /\ paCurrent = 0

\* Backups are looked at twice: archives asked for and restored between logins and logouts,
\* for less than an interval; and the schedule of whole archives of an account left alone.
BackupsScene ==
    /\ IF atWork = "restores" THEN bkNow' < BkInterval ELSE bkLogins' = 0
    /\ \A j \in BkJobs : bkPc'[j] # "idle" =>
          IF atWork = "restores" THEN ~bkMem'[j].content.auto
          ELSE bkMem'[j].content.scope = Everything

ServicesNext ==
    \/ atWork = "accounts" /\ Next
       /\ UNCHANGED <<atWork, dsVars, cbVars, stVars, rlVars, bkVars, paVars>>
    \/ atWork = "destinations" /\ DsNext
       /\ UNCHANGED <<atWork, cbVars, stVars, rlVars, bkVars, paVars, vars>>
    \/ atWork = "contacts" /\ CbNext
       /\ UNCHANGED <<atWork, dsVars, stVars, rlVars, bkVars, paVars, vars>>
    \/ atWork = "staff" /\ StNext
       /\ UNCHANGED <<atWork, dsVars, cbVars, rlVars, bkVars, paVars, vars>>
    \/ atWork = "limiter" /\ RlNext
       /\ UNCHANGED <<atWork, dsVars, cbVars, stVars, bkVars, paVars, vars>>
    \/ atWork \in {"restores", "schedule"} /\ BkNext /\ BackupsScene
       /\ UNCHANGED <<atWork, dsVars, cbVars, stVars, rlVars, paVars, vars>>
    \/ atWork = "pacing" /\ PaNext
       /\ UNCHANGED <<atWork, dsVars, cbVars, stVars, rlVars, bkVars, vars>>

allVars == <<atWork, dsVars, cbVars, stVars, rlVars, bkVars, paVars, vars>>

ServicesSpec == ServicesInit /\ [][ServicesNext]_allVars

-----------------------------------------------------------------------------
(* Every variable of every component stays within its type.                  *)
ServicesTypeOK ==
    /\ atWork = "accounts" => AccountsTypeOK
    /\ atWork = "destinations" => DsTypeOK
    /\ atWork = "contacts" => CbTypeOK
    /\ atWork = "staff" => StTypeOK
    /\ atWork = "limiter" => RlTypeOK
    /\ atWork \in {"restores", "schedule"} => BkTypeOK
=============================================================================
