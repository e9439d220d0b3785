----------------------------- MODULE RateLimiter -----------------------------
(***************************************************************************)
(* The limit on the requests of one client (backend/app/ratelimit.py,       *)
(* middleware.py): a counter for a fixed window, in Redis for all workers,   *)
(* in the memory of a worker that cannot reach Redis.                       *)
(*                                                                         *)
(* One key is modelled; its counters know nothing of other keys.  Redis runs  *)
(* each command at once, but a request needs two of them, and the window is   *)
(* set by the second.                                                      *)
(***************************************************************************)
EXTENDS Naturals, FiniteSets

CONSTANTS
    RlWorkers,          \* the API workers; each has one request at a time here
    RlLimit, RlWindow,
    RlMaxTime,          \* bound on the clock
    RlMaxHits,          \* bound on the requests
    RlMaxFaults         \* bound on the failures of Redis

ASSUME RateLimiterAssumption ==
    /\ "redis" \notin RlWorkers
    /\ RlLimit \in Nat \ {0} /\ RlWindow \in Nat \ {0}
    /\ RlMaxTime \in Nat /\ RlMaxHits \in Nat /\ RlMaxFaults \in Nat

RlForever == RlMaxTime + RlWindow + 1   \* the end of a key without an expiry

VARIABLES
    rlNow,
    rlKey,              \* the key in Redis: its count, 0 if there is no key, and its end
    rlMemory,           \* each worker's bucket: count and end
    rlRedisOk,          \* workers that use Redis
    rlCounted,          \* the answer of INCR a request holds; 0 if it has none
    rlPassed,           \* an observer's: when each counter counted requests that it lets pass
    rlHits, rlFaults

rlStores == <<rlKey, rlMemory, rlRedisOk>>
rlBounds == <<rlHits, rlFaults>>
rlVars == <<rlNow, rlStores, rlCounted, rlPassed, rlBounds>>

RlTimes == 0..RlMaxTime
RlBuckets == [count : 0..RlMaxHits, end : 0..RlForever]
RlNoBucket == [count |-> 0, end |-> 0]
RlCounters == RlWorkers \cup {"redis"}

RlTypeOK ==
    /\ rlNow \in RlTimes
    /\ rlKey \in RlBuckets
    /\ rlMemory \in [RlWorkers -> RlBuckets]
    /\ rlRedisOk \subseteq RlWorkers
    /\ rlCounted \in [RlWorkers -> 0..RlMaxHits]
    /\ rlPassed \in [RlCounters -> [RlTimes -> 0..RlMaxHits]]
    /\ rlHits \in 0..RlMaxHits
    /\ rlFaults \in 0..RlMaxFaults

\* Each worker has found Redis at its start, or not.
RlInit ==
    /\ rlNow = 0
    /\ rlKey = RlNoBucket
    /\ rlMemory = [w \in RlWorkers |-> RlNoBucket]
    /\ rlRedisOk \in SUBSET RlWorkers
    /\ rlCounted = [w \in RlWorkers |-> 0]
    /\ rlPassed = [c \in RlCounters |-> [t \in RlTimes |-> 0]]
    /\ rlHits = 0
    /\ rlFaults = 0

-----------------------------------------------------------------------------

\* Redis drops a key at its end.
RlTick ==
    /\ rlNow < RlMaxTime
    /\ rlNow' = rlNow + 1
    /\ rlKey' = IF rlKey.end <= rlNow' THEN RlNoBucket ELSE rlKey
    /\ UNCHANGED <<rlMemory, rlRedisOk, rlCounted, rlPassed, rlBounds>>

\* Mutant: one more than the limit.
RlAllowed_OneMore(count) == count <= RlLimit + 1

RlAllowed(count) == count <= RlLimit

RlPass(counter, count) ==
    rlPassed' = IF RlAllowed(count) THEN [rlPassed EXCEPT ![counter][rlNow] = @ + 1] ELSE rlPassed

\* The first command of a request: INCR.
RlIncr(w) ==
    /\ w \in rlRedisOk
    /\ rlCounted[w] = 0
    /\ rlHits < RlMaxHits
    /\ rlHits' = rlHits + 1
    /\ rlKey' = [count |-> rlKey.count + 1, end |-> IF rlKey.count = 0 THEN RlForever ELSE rlKey.end]
    /\ rlCounted' = [rlCounted EXCEPT ![w] = rlKey'.count]
    /\ RlPass("redis", rlKey'.count)
    /\ UNCHANGED <<rlNow, rlMemory, rlRedisOk, rlFaults>>

\* Mutant: only the first request of a window sets its end.
RlSetsEnd_First(count) == count = 1

\* Another one does if there is no end to be found: the first one has not come to it, or
\* never will.
RlSetsEnd(count) == count = 1 \/ rlKey.end = RlForever

\* The second command: EXPIRE, or TTL, followed by EXPIRE if the key has no end.
RlExpire(w) ==
    /\ rlCounted[w] # 0
    /\ rlKey' = IF rlKey.count # 0 /\ RlSetsEnd(rlCounted[w])
                THEN [rlKey EXCEPT !.end = rlNow + RlWindow] ELSE rlKey
    /\ rlCounted' = [rlCounted EXCEPT ![w] = 0]
    /\ UNCHANGED <<rlNow, rlMemory, rlRedisOk, rlPassed, rlBounds>>

\* _MemoryStore.hit
RlRemember(w) ==
    LET bucket == IF rlNow >= rlMemory[w].end THEN [count |-> 0, end |-> rlNow + RlWindow]
                  ELSE rlMemory[w]
    IN  /\ rlMemory' = [rlMemory EXCEPT ![w] = [bucket EXCEPT !.count = @ + 1]]
        /\ RlPass(w, bucket.count + 1)

RlHitMemory(w) ==
    /\ w \notin rlRedisOk
    /\ rlHits < RlMaxHits
    /\ rlHits' = rlHits + 1
    /\ RlRemember(w)
    /\ UNCHANGED <<rlNow, rlKey, rlRedisOk, rlCounted, rlFaults>>

\* A command fails, done or not: the request is counted in memory, and the worker does
\* without Redis from then on.
RlRedisFails(w) ==
    /\ w \in rlRedisOk
    /\ rlFaults < RlMaxFaults
    /\ rlFaults' = rlFaults + 1
    /\ rlHits < RlMaxHits
    /\ rlHits' = rlHits + 1
    /\ rlRedisOk' = rlRedisOk \ {w}
    /\ \/ /\ rlCounted[w] # 0           \* the second command
          /\ rlCounted' = [rlCounted EXCEPT ![w] = 0]
          /\ UNCHANGED rlKey
       \/ /\ rlCounted[w] = 0           \* the first one, which may have been done
          /\ rlKey' = [count |-> rlKey.count + 1, end |-> IF rlKey.count = 0 THEN RlForever ELSE rlKey.end]
          /\ UNCHANGED rlCounted
       \/ /\ rlCounted[w] = 0
          /\ UNCHANGED <<rlKey, rlCounted>>
    /\ RlRemember(w)
    /\ UNCHANGED rlNow

RlNext ==
    \/ RlTick
    \/ \E w \in RlWorkers : RlIncr(w) \/ RlExpire(w) \/ RlHitMemory(w) \/ RlRedisFails(w)

RlSpec == RlInit /\ [][RlNext]_rlVars

-----------------------------------------------------------------------------
(* Properties.                                                              *)

\* The requests that a counter lets pass in a period, by their time and their number at it.
RlPassedIn(passed, period) ==
    {hit \in (RlTimes \cap period) \X (1..RlMaxHits) : hit[2] <= passed[hit[1]]}

\* However its windows fall, a counter lets at most twice the limit pass in any time of the
\* length of a window: "a counter over a fixed time window" (ratelimit.py:4).
TwiceTheLimit ==
    \A c \in RlCounters, t \in RlTimes :
        Cardinality(RlPassedIn(rlPassed[c], t..(t + RlWindow - 1))) <= 2 * RlLimit

\* A client is never shut out for good: whenever a request has been answered by the counter
\* in Redis the window has an end, even if the worker that should have set it failed.
WindowEnds ==
    [][\A w \in RlWorkers :
          rlCounted[w] # 0 /\ rlCounted'[w] = 0 /\ w \in rlRedisOk' /\ rlKey'.count # 0
              => rlKey'.end < RlForever]_rlVars
=============================================================================
