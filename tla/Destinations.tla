----------------------------- MODULE Destinations -----------------------------
(***************************************************************************)
(* Adding members to a group (backend/app/services/destinations.py,        *)
(* api/destinations.py): contacts are queued as pending memberships, and    *)
(* ticks that managers start add one of them with each account that may act. *)
(* A tick holds its rows through calls that take seconds, two ticks may      *)
(* overlap, and one commit at the end writes what all the calls have done.   *)
(*                                                                         *)
(* One destination, on one day.  Contacts are numbered in the order in       *)
(* which they are queued: a tick takes them in that order.                  *)
(***************************************************************************)
EXTENDS Naturals, FiniteSets, FiniteSetsExt

CONSTANTS
    DsAccounts,         \* 1..n, in the order of their ids
    DsContacts,         \* 1..n
    DsTicks,            \* requests that may overlap
    DsCap,              \* accounts.daily_cap
    DsMaxTicks,         \* bound on the ticks started
    DsMaxFaults         \* bound on crashes and rows deleted

ASSUME DestinationsAssumption ==
    /\ DsAccounts \subseteq Nat /\ IsFiniteSet(DsAccounts)
    /\ DsContacts \subseteq Nat /\ IsFiniteSet(DsContacts)
    /\ IsFiniteSet(DsTicks)
    /\ DsCap \in Nat \ {0}

VARIABLES
    dsDestination,      \* the destination, resolved if the engine has found its Telegram id
    dsContact,          \* contacts: may be queued (consented, not opted out), or gone
    dsMember,           \* group_memberships, one per contact at most (a unique constraint)
    dsAccount,          \* accounts: active, actions_today, and last_action_at long enough ago
    dsPc, dsMem,        \* the ticks
    dsReached, dsActed, \* an observer's: calls that reached a contact, and calls per account
    dsAgainst,          \* an observer's: contacts reached after they had opted out
    dsOverlaps, dsLost, \* an observer's: per contact and account, ticks that overlapped with
                        \* it in their hands, and calls whose tick was never committed
    dsLate,             \* an observer's: contacts whose answer came too late
    dsTicks, dsFaults

dsTables == <<dsDestination, dsContact, dsMember, dsAccount>>
dsSessions == <<dsPc, dsMem>>
dsObserved == <<dsReached, dsActed, dsAgainst, dsOverlaps, dsLost, dsLate>>
dsBounds == <<dsTicks, dsFaults>>
dsVars == <<dsTables, dsSessions, dsObserved, dsBounds>>

\* "reached" stands for added and invited, which nothing tells apart.
DsStates == {"none", "pending", "reached", "failed"}

\* What a tick has loaded, whom it has still to use and to add, and what it will write.
DsMemory ==
    [accounts : SUBSET DsAccounts, pending : SUBSET DsContacts,
     actions : [DsAccounts -> Nat], results : [DsContacts -> DsStates],
     acted : SUBSET DsAccounts, flooded : SUBSET DsAccounts]

DsForgotten ==
    [accounts |-> {}, pending |-> {}, actions |-> [a \in DsAccounts |-> 0],
     results |-> [c \in DsContacts |-> "none"], acted |-> {}, flooded |-> {}]

DsThings == (DsContacts \X {"contact"}) \cup (DsAccounts \X {"account"})

DsTypeOK ==
    /\ dsDestination \in {"none", "unresolved", "resolved", "deleted"}
    /\ dsContact \in [DsContacts -> {"may", "opted_out", "gone"}]
    /\ dsMember \in [DsContacts -> DsStates]
    /\ dsAccount \in [DsAccounts -> [active : BOOLEAN, actions : Nat, rested : BOOLEAN]]
    /\ dsPc \in [DsTicks -> {"idle", "acting", "commit"}]
    /\ dsMem \in [DsTicks -> DsMemory]
    /\ dsReached \in [DsContacts -> Nat] /\ dsActed \in [DsAccounts -> Nat]
    /\ dsAgainst \in SUBSET DsContacts
    /\ dsOverlaps \in [DsThings -> Nat] /\ dsLost \in [DsThings -> Nat]
    /\ dsLate \in SUBSET DsContacts

DsInit ==
    /\ dsDestination = "none"
    /\ dsContact = [c \in DsContacts |-> "may"]
    /\ dsMember = [c \in DsContacts |-> "none"]
    /\ dsAccount = [a \in DsAccounts |-> [active |-> TRUE, actions |-> 0, rested |-> TRUE]]
    /\ dsPc = [t \in DsTicks |-> "idle"]
    /\ dsMem = [t \in DsTicks |-> DsForgotten]
    /\ dsReached = [c \in DsContacts |-> 0]
    /\ dsActed = [a \in DsAccounts |-> 0]
    /\ dsAgainst = {}
    /\ dsOverlaps = [x \in DsThings |-> 0]
    /\ dsLost = [x \in DsThings |-> 0]
    /\ dsLate = {}
    /\ dsTicks = 0
    /\ dsFaults = 0

-----------------------------------------------------------------------------
(* Requests that are one transaction.                                       *)

\* register_destination: without an account, or an engine, it stays unresolved for good.
DsRegister(found) ==
    /\ dsDestination = "none"
    /\ dsDestination' = IF found THEN "resolved" ELSE "unresolved"
    /\ UNCHANGED <<dsContact, dsMember, dsAccount, dsSessions, dsObserved, dsBounds>>

\* add_members: from the list only those that may be messaged; a typed identifier finds its
\* contact whatever has become of it.
DsMayQueue(c, typed) == dsContact[c] = "may" \/ (typed /\ dsContact[c] = "opted_out")

\* A contact with a membership, in whatever state, is skipped.
DsQueue(c, typed) ==
    /\ dsDestination \in {"unresolved", "resolved"}
    /\ DsMayQueue(c, typed)
    /\ dsMember[c] = "none"
    /\ \A d \in DsContacts : d > c => dsMember[d] = "none"
    /\ dsMember' = [dsMember EXCEPT ![c] = "pending"]
    /\ UNCHANGED <<dsDestination, dsContact, dsAccount, dsSessions, dsObserved, dsBounds>>

DsOptOut(c) ==
    /\ dsContact[c] = "may"
    /\ dsContact' = [dsContact EXCEPT ![c] = "opted_out"]
    /\ UNCHANGED <<dsDestination, dsMember, dsAccount, dsSessions, dsObserved, dsBounds>>

DsFault == dsFaults < DsMaxFaults /\ dsFaults' = dsFaults + 1 /\ UNCHANGED dsTicks

\* The rows of a contact, or of the destination, go with it.
DsDeleteContact(c) ==
    /\ DsFault
    /\ dsContact[c] # "gone"
    /\ dsContact' = [dsContact EXCEPT ![c] = "gone"]
    /\ dsMember' = [dsMember EXCEPT ![c] = "none"]
    /\ UNCHANGED <<dsDestination, dsAccount, dsSessions, dsObserved>>

DsDelete ==
    /\ DsFault
    /\ dsDestination \in {"unresolved", "resolved"}
    /\ dsDestination' = "deleted"
    /\ dsMember' = [c \in DsContacts |-> "none"]
    /\ UNCHANGED <<dsContact, dsAccount, dsSessions, dsObserved>>

\* An account has rested for send_min_delay_seconds.
DsRest(a) ==
    /\ ~dsAccount[a].rested
    /\ dsAccount' = [dsAccount EXCEPT ![a].rested = TRUE]
    /\ UNCHANGED <<dsDestination, dsContact, dsMember, dsSessions, dsObserved, dsBounds>>

-----------------------------------------------------------------------------
(* A tick (run_add_tick).                                                   *)

DsTo(t, step, mem) ==
    /\ dsPc' = [dsPc EXCEPT ![t] = step]
    /\ dsMem' = [dsMem EXCEPT ![t] = mem]

DsUsable == {a \in DsAccounts : dsAccount[a].active /\ dsAccount[a].rested
                                /\ dsAccount[a].actions < DsCap}

DsPending == {c \in DsContacts : dsMember[c] = "pending"}

\* What a tick has in its hands: until it commits, others load the same.
DsHeld(t) ==
    IF dsPc[t] = "idle" THEN {}
    ELSE ((dsMem[t].pending \cup {c \in DsContacts : dsMem[t].results[c] # "none"}) \X {"contact"})
         \cup ((dsMem[t].accounts \cup dsMem[t].acted) \X {"account"})

DsBegin(t) ==
    LET taken == (DsPending \X {"contact"}) \cup (DsUsable \X {"account"}) IN
    /\ dsPc[t] = "idle"
    /\ dsDestination = "resolved"
    /\ dsTicks < DsMaxTicks
    /\ dsTicks' = dsTicks + 1
    /\ DsUsable # {}
    /\ DsTo(t, "acting", [DsForgotten EXCEPT !.accounts = DsUsable, !.pending = DsPending,
                              !.actions = [a \in DsAccounts |-> dsAccount[a].actions]])
    /\ dsOverlaps' = [x \in DsThings |-> dsOverlaps[x] +
          IF x \in taken THEN Cardinality({s \in DsTicks : x \in DsHeld(s)}) ELSE 0]
    /\ UNCHANGED <<dsTables, dsReached, dsActed, dsAgainst, dsLost, dsLate, dsFaults>>

DsTurn(t) == dsPc[t] = "acting" /\ dsMem[t].accounts # {} /\ dsMem[t].pending # {}
DsNextAccount(t) == Min(dsMem[t].accounts)
DsNextContact(t) == Min(dsMem[t].pending)

\* The account's turn is over, and the contact's.
DsTaken(t, state) ==
    [dsMem[t] EXCEPT !.accounts = @ \ {DsNextAccount(t)}, !.pending = @ \ {DsNextContact(t)},
                     !.results[DsNextContact(t)] = state]

\* The contact has been removed meanwhile.
DsMissing(t) ==
    /\ DsTurn(t)
    /\ dsContact[DsNextContact(t)] = "gone"
    /\ DsTo(t, "acting", DsTaken(t, "failed"))
    /\ UNCHANGED <<dsTables, dsObserved, dsBounds>>

\* Mutant: whatever is not late has worked.
DsStateOf_Hopeful(outcome) == IF outcome = "late" THEN "failed" ELSE "reached"

\* build_add_executor: a call that times out has failed.
DsStateOf(outcome) == IF outcome = "late" THEN "failed" ELSE outcome

\* The engine adds the contact, invites it, or fails; when its answer is late the contact is
\* reached, and taken for failed.
DsAct(t, outcome) ==
    LET c == DsNextContact(t)
        a == DsNextAccount(t)
        reached == outcome # "failed"
    IN  /\ DsTurn(t)
        /\ dsContact[c] # "gone"
        /\ DsTo(t, "acting",
              [DsTaken(t, DsStateOf(outcome)) EXCEPT !.acted = @ \cup {a}])
        /\ dsReached' = [dsReached EXCEPT ![c] = @ + IF reached THEN 1 ELSE 0]
        /\ dsActed' = [dsActed EXCEPT ![a] = @ + 1]
        /\ dsAgainst' = IF reached /\ dsContact[c] = "opted_out" THEN dsAgainst \cup {c} ELSE dsAgainst
        /\ dsLate' = IF outcome = "late" THEN dsLate \cup {c} ELSE dsLate
        /\ UNCHANGED <<dsTables, dsOverlaps, dsLost, dsBounds>>

\* A flood: the tick ends, and the membership stays pending.
DsFlood(t) ==
    /\ DsTurn(t)
    /\ dsContact[DsNextContact(t)] # "gone"
    /\ DsTo(t, "commit", [dsMem[t] EXCEPT !.flooded = {DsNextAccount(t)}])
    /\ UNCHANGED <<dsTables, dsObserved, dsBounds>>

DsThrough(t) ==
    /\ dsPc[t] = "acting"
    /\ dsMem[t].accounts = {} \/ dsMem[t].pending = {}
    /\ DsTo(t, "commit", dsMem[t])
    /\ UNCHANGED <<dsTables, dsObserved, dsBounds>>

DsWrites(t) == {c \in DsContacts : dsMem[t].results[c] # "none"}

\* A row that is gone cannot be updated.
DsCanCommit(t) == \A c \in DsWrites(t) : dsMember[c] # "none"

DsCounted(t, a) == dsMem[t].actions[a] + 1

DsCommit(t) ==
    /\ dsPc[t] = "commit"
    /\ DsCanCommit(t)
    /\ dsMember' = [c \in DsContacts |-> IF c \in DsWrites(t) THEN dsMem[t].results[c] ELSE dsMember[c]]
    /\ dsAccount' = [a \in DsAccounts |->
          [active |-> dsAccount[a].active /\ a \notin dsMem[t].flooded,
           actions |-> IF a \in dsMem[t].acted THEN DsCounted(t, a) ELSE dsAccount[a].actions,
           rested |-> dsAccount[a].rested /\ a \notin dsMem[t].acted]]
    /\ DsTo(t, "idle", DsForgotten)
    /\ UNCHANGED <<dsDestination, dsContact, dsObserved, dsBounds>>

\* All that the tick has done is lost.
DsLose(t) ==
    /\ dsLost' = [x \in DsThings |-> dsLost[x] +
          IF x \in (DsWrites(t) \X {"contact"}) \cup (dsMem[t].acted \X {"account"}) THEN 1 ELSE 0]
    /\ DsTo(t, "idle", DsForgotten)
    /\ UNCHANGED <<dsTables, dsReached, dsActed, dsAgainst, dsOverlaps, dsLate>>

DsCommitFails(t) ==
    /\ dsPc[t] = "commit"
    /\ ~DsCanCommit(t)
    /\ DsLose(t)
    /\ UNCHANGED dsBounds

DsCrash(t) ==
    /\ DsFault
    /\ dsPc[t] # "idle"
    /\ DsLose(t)

DsNext ==
    \/ \E c \in DsContacts, typed \in BOOLEAN : DsQueue(c, typed)
    \/ \E c \in DsContacts : DsOptOut(c) \/ DsDeleteContact(c)
    \/ \E found \in BOOLEAN : DsRegister(found)
    \/ DsDelete
    \/ \E a \in DsAccounts : DsRest(a)
    \/ \E t \in DsTicks :
          \/ DsBegin(t) \/ DsMissing(t) \/ DsFlood(t) \/ DsThrough(t)
          \/ DsCommit(t) \/ DsCommitFails(t) \/ DsCrash(t)
          \/ \E outcome \in {"reached", "failed", "late"} : DsAct(t, outcome)

DsSpec == DsInit /\ [][DsNext]_dsVars

-----------------------------------------------------------------------------
(* Properties.                                                              *)

\* Nobody is added or invited again, except by a tick that overlapped with another while
\* both had the membership in hand, or after one whose commit was lost.
ReachedAgainExplained ==
    \A c \in DsContacts :
        dsReached[c] <= 1 + dsOverlaps[<<c, "contact">>] + dsLost[<<c, "contact">>]

\* A membership tells the truth: in the group or invited when it says so, and not when it
\* does not, unless ticks overlapped, a commit was lost or an answer was late.
MembershipTells ==
    \A c \in DsContacts :
        /\ dsMember[c] = "reached" => dsReached[c] > 0
        /\ dsReached[c] > 0 /\ c \notin dsLate
              /\ dsOverlaps[<<c, "contact">>] + dsLost[<<c, "contact">>] = 0 =>
              \/ dsMember[c] = "reached"
              \/ dsContact[c] = "gone" \/ dsDestination = "deleted"
              \/ \E t \in DsTicks : dsMem[t].results[c] = "reached"

\* An account acts no more often in a day than its cap, up to the ticks that overlapped with
\* it in hand and the calls whose commit was lost.
MembersCapHeld ==
    \A a \in DsAccounts :
        dsActed[a] <= DsCap + dsOverlaps[<<a, "account">>] + dsLost[<<a, "account">>]

\* Adding members does what was asked, as often as was asked, and the table says so.
AdditionsHold == ReachedAgainExplained /\ MembershipTells /\ MembersCapHeld

\* Every outreach action targets a contact that has not opted out, as the structure document
\* says (line 30).  Not what the code does: what was queued is added whatever the contact has
\* said since, and a typed identifier is queued whatever the contact says.
AddedWithConsent == dsAgainst = {}
=============================================================================
