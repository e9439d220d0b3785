------------------------------- MODULE Realtime -------------------------------
(***************************************************************************)
(* What happens in the inbox is told to the browsers (backend/app/           *)
(* realtime.py): a worker publishes an event through Redis, and every worker *)
(* that listens there passes it to the sockets it holds.                    *)
(*                                                                         *)
(* Sending to the sockets of a worker one after another is one step: a socket *)
(* that joins meanwhile is owed nothing.                                    *)
(***************************************************************************)
EXTENDS Naturals, Sequences

CONSTANTS
    RtWorkers, RtSockets,
    RtNowhere,          \* the worker of a socket that is not connected
    RtEvents,           \* 1..n, in the order of their publication
    RtMaxFaults         \* bound on failures of Redis and restarts of workers

ASSUME RealtimeAssumption ==
    RtNowhere \notin RtWorkers /\ RtEvents \subseteq Nat /\ RtMaxFaults \in Nat

VARIABLES
    rtHome,             \* _connections: the worker that holds a socket
    rtRedisOk,          \* workers that found Redis when they started (_redis_ok)
    rtListening,        \* workers whose _subscribe task runs
    rtInbox,            \* what Redis has sent to each worker and it has not read
    rtRedisUp,
    rtGot,              \* how often a socket was sent an event
    rtDue,              \* an observer's: events published since a socket connected
    rtPublished,        \* events published
    rtDoubtful,         \* an observer's: events Redis took although publish failed
    rtFaults

rtVars == <<rtHome, rtRedisOk, rtListening, rtInbox, rtRedisUp, rtGot, rtDue, rtPublished, rtDoubtful, rtFaults>>

RtTypeOK ==
    /\ rtHome \in [RtSockets -> RtWorkers \cup {RtNowhere}]
    /\ rtRedisOk \subseteq RtWorkers
    /\ rtListening \subseteq rtRedisOk
    /\ \A w \in RtWorkers : rtInbox[w] \in Seq(RtEvents)
    /\ rtRedisUp \in BOOLEAN
    /\ rtGot \in [RtSockets -> [RtEvents -> Nat]]
    /\ rtDue \in [RtSockets -> SUBSET RtEvents]
    /\ rtPublished \subseteq RtEvents
    /\ rtDoubtful \subseteq rtPublished
    /\ rtFaults \in 0..RtMaxFaults

RtInit ==
    /\ rtHome = [s \in RtSockets |-> RtNowhere]
    /\ rtRedisUp \in BOOLEAN
    /\ rtRedisOk = (IF rtRedisUp THEN RtWorkers ELSE {})
    /\ rtListening = rtRedisOk
    /\ rtInbox = [w \in RtWorkers |-> <<>>]
    /\ rtGot = [s \in RtSockets |-> [e \in RtEvents |-> 0]]
    /\ rtDue = [s \in RtSockets |-> {}]
    /\ rtPublished = {}
    /\ rtDoubtful = {}
    /\ rtFaults = 0

-----------------------------------------------------------------------------

\* connect, disconnect
RtConnect(s, w) ==
    /\ rtHome[s] = RtNowhere
    /\ rtHome' = [rtHome EXCEPT ![s] = w]
    /\ rtDue' = [rtDue EXCEPT ![s] = {}]
    /\ UNCHANGED <<rtRedisOk, rtListening, rtInbox, rtRedisUp, rtGot, rtPublished, rtDoubtful, rtFaults>>

RtDisconnect(s) ==
    /\ rtHome[s] # RtNowhere
    /\ rtHome' = [rtHome EXCEPT ![s] = RtNowhere]
    /\ rtDue' = [rtDue EXCEPT ![s] = {}]
    /\ UNCHANGED <<rtRedisOk, rtListening, rtInbox, rtRedisUp, rtGot, rtPublished, rtDoubtful, rtFaults>>

\* broadcast_local
RtBroadcast(w, e) ==
    rtGot' = [s \in RtSockets |-> IF rtHome[s] = w THEN [rtGot[s] EXCEPT ![e] = @ + 1] ELSE rtGot[s]]

\* Mutant: a worker is not told what it has published itself.
RtHearers_Others(w) == rtListening \ {w}

RtHearers(w) == rtListening

RtTaken(w, e) == rtInbox' = [v \in RtWorkers |-> IF v \in RtHearers(w) THEN Append(rtInbox[v], e) ELSE rtInbox[v]]

RtPublished(w, e) == RtTaken(w, e) /\ UNCHANGED rtGot

\* publish: through Redis, or to the worker's own sockets if that fails; a publish that
\* fails may have been done.
RtPublish(w, e) ==
    /\ rtPublished \cup {e} = {d \in RtEvents : d <= e} /\ e \notin rtPublished
    /\ rtPublished' = rtPublished \cup {e}
    /\ rtDue' = [s \in RtSockets |-> IF rtHome[s] # RtNowhere THEN rtDue[s] \cup {e} ELSE rtDue[s]]
    /\ \/ /\ w \in rtRedisOk /\ rtRedisUp
          /\ RtPublished(w, e)
          /\ UNCHANGED <<rtDoubtful, rtFaults>>
       \/ /\ w \in rtRedisOk /\ rtRedisUp
          /\ rtFaults < RtMaxFaults
          /\ rtFaults' = rtFaults + 1
          /\ \/ RtTaken(w, e) /\ rtDoubtful' = rtDoubtful \cup {e}
             \/ UNCHANGED <<rtInbox, rtDoubtful>>
          /\ RtBroadcast(w, e)
       \/ /\ ~(w \in rtRedisOk /\ rtRedisUp)
          /\ RtBroadcast(w, e)
          /\ UNCHANGED <<rtInbox, rtDoubtful, rtFaults>>
    /\ UNCHANGED <<rtHome, rtRedisOk, rtListening, rtRedisUp>>

\* _subscribe reads on, also what came before the connection broke.
RtDeliver(w) ==
    /\ rtInbox[w] # <<>>
    /\ RtBroadcast(w, Head(rtInbox[w]))
    /\ rtInbox' = [rtInbox EXCEPT ![w] = Tail(@)]
    /\ UNCHANGED <<rtHome, rtRedisOk, rtListening, rtRedisUp, rtDue, rtPublished, rtDoubtful, rtFaults>>

\* The connections to Redis break, and with them every _subscribe task ends for good.
RtRedisGoes ==
    /\ rtRedisUp
    /\ rtFaults < RtMaxFaults
    /\ rtFaults' = rtFaults + 1
    /\ rtRedisUp' = FALSE
    /\ rtListening' = {}
    /\ \E kept \in SUBSET RtWorkers :
          rtInbox' = [w \in RtWorkers |-> IF w \in kept THEN rtInbox[w] ELSE <<>>]
    /\ UNCHANGED <<rtHome, rtRedisOk, rtGot, rtDue, rtPublished, rtDoubtful>>

\* Publishing connects again by itself, listening does not.
RtRedisComes ==
    /\ ~rtRedisUp
    /\ rtRedisUp' = TRUE
    /\ UNCHANGED <<rtHome, rtRedisOk, rtListening, rtInbox, rtGot, rtDue, rtPublished, rtDoubtful, rtFaults>>

\* A worker is stopped, or crashes, and starts again (startup).
RtRestart(w) ==
    /\ rtFaults < RtMaxFaults
    /\ rtFaults' = rtFaults + 1
    /\ rtHome' = [s \in RtSockets |-> IF rtHome[s] = w THEN RtNowhere ELSE rtHome[s]]
    /\ rtDue' = [s \in RtSockets |-> IF rtHome[s] = w THEN {} ELSE rtDue[s]]
    /\ rtInbox' = [rtInbox EXCEPT ![w] = <<>>]
    /\ rtRedisOk' = IF rtRedisUp THEN rtRedisOk \cup {w} ELSE rtRedisOk \ {w}
    /\ rtListening' = IF rtRedisUp THEN rtListening \cup {w} ELSE rtListening \ {w}
    /\ UNCHANGED <<rtRedisUp, rtGot, rtPublished, rtDoubtful>>

RtNext ==
    \/ \E s \in RtSockets : RtDisconnect(s) \/ \E w \in RtWorkers : RtConnect(s, w)
    \/ \E w \in RtWorkers : RtDeliver(w) \/ RtRestart(w) \/ \E e \in RtEvents : RtPublish(w, e)
    \/ RtRedisGoes \/ RtRedisComes

RtSpec == RtInit /\ [][RtNext]_rtVars

-----------------------------------------------------------------------------
(* Properties.                                                              *)

\* A socket is told an event once, unless Redis had taken the event although publish failed
\* and the publisher told its own sockets too (realtime.py:98-102), or the socket has been
\* connected to two workers, of which the second had yet to read it.
ToldOnce ==
    \A s \in RtSockets, e \in RtEvents :
        rtGot[s][e] <= 1 \/ e \in rtDoubtful \/ e \notin rtDue[s]

\* "events are fanned out to all of them" (realtime.py:3): with Redis there from the start
\* and no failure since, a socket has been told whatever was published since it connected
\* as soon as its worker has read its inbox.
EveryoneTold ==
    rtFaults = 0 /\ rtRedisUp /\ rtRedisOk = RtWorkers =>
        \A s \in RtSockets :
            rtHome[s] # RtNowhere /\ rtInbox[rtHome[s]] = <<>> => \A e \in rtDue[s] : rtGot[s][e] >= 1

\* Nobody misses an event, and nobody is told twice.
BroadcastHolds == ToldOnce /\ EveryoneTold
=============================================================================
