-------------------------- MODULE MCConversations --------------------------
(***************************************************************************)
(* Small instances of what becomes of messages: the contact and its opt-out  *)
(* (Inbox), the messages of one conversation (Threads), the events the        *)
(* browsers are told (Realtime) and a hosted bot (Bots).  They share no state  *)
(* here; the first state chooses which of them is at work, the others rest.   *)
(***************************************************************************)
EXTENDS MCInbox, Threads, Realtime, Bots

CONSTANTS w1, w2, s1, s2

VARIABLE talking

Symmetry == Permutations({w1, w2}) \cup Permutations({s1, s2})

ConversationsInit ==
    /\ talking \in {"inbox", "threads", "realtime", "bots"}
    /\ Init /\ ThInit /\ RtInit /\ BtInit
    /\ talking # "inbox" => contact = CHOOSE table \in Imports : TRUE
    /\ talking # "realtime" => ~rtRedisUp

ConversationsNext ==
    \/ talking = "inbox" /\ Next /\ UNCHANGED <<talking, thVars, rtVars, btVars>>
    \/ talking = "threads" /\ ThNext /\ UNCHANGED <<talking, vars, rtVars, btVars>>
    \/ talking = "realtime" /\ RtNext /\ UNCHANGED <<talking, vars, thVars, btVars>>
    \/ talking = "bots" /\ BtNext /\ UNCHANGED <<talking, vars, thVars, rtVars>>

ConversationsSpec ==
    ConversationsInit /\ [][ConversationsNext]_<<talking, vars, thVars, rtVars, btVars>>

-----------------------------------------------------------------------------
(* Every variable of every component stays within its type.                  *)
ConversationsTypeOK ==
    /\ talking = "inbox" => TypeOK
    /\ talking = "threads" => ThTypeOK
    /\ talking = "realtime" => RtTypeOK
    /\ talking = "bots" => BtTypeOK
=============================================================================
