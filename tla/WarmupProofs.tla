----------------------------- MODULE WarmupProofs -----------------------------
(***************************************************************************)
(* Theorems about Warmup, for any runs, accounts, stages and sessions.      *)
(***************************************************************************)
EXTENDS Warmup, SequenceTheorems, FiniteSetTheorems, WellFoundedInduction, TLAPS

-----------------------------------------------------------------------------
(* The stages.                                                              *)

LEMMA StageTypes ==
  /\ LastStage \in Nat \ {0}
  /\ \A n \in 1..LastStage : Period(n) \in Nat \ {0} /\ Stages[n].cap \in Nat
  /\ DayLength \in Nat \ {0} /\ MaxLag \in Nat /\ MinDelay \in Nat
<1>1. Stages \in Seq([days : Nat \ {0}, cap : Nat]) /\ Stages # <<>> /\ DayLength \in Nat \ {0}
      /\ MaxLag \in Nat /\ MinDelay \in Nat
  BY WarmupAssumption
<1>2. LastStage \in Nat \ {0}
  BY <1>1 DEF LastStage
<1>3. ASSUME NEW n \in 1..LastStage
      PROVE  Period(n) \in Nat \ {0} /\ Stages[n].cap \in Nat
  <2>1. Stages[n] \in [days : Nat \ {0}, cap : Nat]
    BY <1>1, EmptySeq, LenProperties DEF LastStage
  <2>2. \A i, j \in Nat \ {0} : i * j \in Nat \ {0}
    OBVIOUS
  <2>. QED
    BY <1>1, <2>1, <2>2 DEF Period
<1>. QED
  BY <1>1, <1>2, <1>3

\* A set of numbers that is finite has a greatest.
LEMMA MaxOfFinite ==
  ASSUME NEW S \in SUBSET Nat, IsFiniteSet(S), S # {}
  PROVE  \E x \in S : \A y \in S : y <= x
<1>. DEFINE Above(x) == {y \in S : y > x}
            T == {Above(x) : x \in S}
<1>1. T \subseteq FiniteSubsetsOf(S)
  BY FS_FiniteSubsetsOfFinite
<1>2. T # {}
  OBVIOUS
<1>3. PICK U \in T : \A V \in T : ~(<<V, U>> \in StrictSubsetOrdering(S))
  <2>. HIDE DEF T
  <2>. QED
    BY <1>1, <1>2, FS_StrictSubsetOrderingWellFounded, WFMin
<1>4. PICK x \in S : U = Above(x)
  BY <1>3
<1>5. ASSUME NEW y \in S, y > x
      PROVE  FALSE
  <2>1. x \in Nat /\ y \in Nat /\ S \subseteq Nat
    OBVIOUS
  <2>2. \A z \in S : z > y => z > x
    BY <1>5, <2>1
  <2>3. ~(y > y)
    BY <2>1
  <2>4. Above(y) \subseteq Above(x) /\ y \in Above(x) /\ y \notin Above(y)
    BY <1>5, <2>2, <2>3, Zenon
  <2>5. Above(y) \in T
    OBVIOUS
  <2>6. <<Above(y), U>> \in StrictSubsetOrdering(S)
    BY <1>4, <2>4 DEF StrictSubsetOrdering
  <2>. QED
    BY <1>3, <2>5, <2>6
<1>6. \A y \in S : y <= x
  BY <1>5
<1>. QED
  BY <1>6

LEMMA LongestIs ==
  /\ LongestPeriod \in Nat \ {0}
  /\ \A n \in 1..LastStage : Period(n) <= LongestPeriod
<1>. DEFINE S == {Period(n) : n \in 1..LastStage}
<1>1. S \in SUBSET Nat /\ Period(1) \in S
  BY StageTypes
<1>2. IsFiniteSet(S)
  <2>1. IsFiniteSet(1..LastStage)
    BY StageTypes, FS_Interval
  <2>. DEFINE f == [n \in 1..LastStage |-> Period(n)]
  <2>2. f \in Surjection(1..LastStage, S)
    BY DEF Surjection
  <2>. HIDE DEF f, S
  <2>. QED
    BY <2>1, <2>2, FS_Surjection
<1>. HIDE DEF S
<1>3. \E d \in S : \A e \in S : e <= d
  BY <1>1, <1>2, MaxOfFinite
<1>4. \E d \in S : \A n \in 1..LastStage : Period(n) <= d
  BY <1>3 DEF S
<1>5. LongestPeriod \in S /\ \A n \in 1..LastStage : Period(n) <= LongestPeriod
  BY <1>4 DEF LongestPeriod, S
<1>6. LongestPeriod \in Nat \ {0}
  BY <1>5, StageTypes DEF S
<1>. QED
  BY <1>5, <1>6

LEMMA AgeTypes ==
  /\ Eldest \in Nat /\ Eldest > MaxLag
  /\ Rested \in Nat /\ Rested >= MaxLag
  BY StageTypes, LongestIs DEF Eldest, Rested

\* The instants of the stages before one, and with it.
LEMMA InstantsFinite ==
  ASSUME NEW n \in 0..LastStage
  PROVE  IsFiniteSet(Instants(n))
<1>. DEFINE All == (1..LastStage) \X (1..LongestPeriod)
<1>1. Instants(n) \subseteq All
  <2>1. ASSUME NEW k \in 1..n, NEW x \in {k} \X (1..Period(k))
        PROVE  x \in All
    <3>1. k \in 1..LastStage /\ Period(k) \in Nat /\ Period(k) <= LongestPeriod /\ LongestPeriod \in Nat
      BY StageTypes, LongestIs
    <3>. QED
      BY <3>1
  <2>. QED
    BY <2>1 DEF Instants
<1>2. IsFiniteSet(1..LastStage) /\ IsFiniteSet(1..LongestPeriod)
  BY StageTypes, LongestIs, FS_Interval
<1>3. IsFiniteSet(All)
  BY <1>2, FS_Product
<1>. QED
  BY <1>1, <1>3, FS_Subset

LEMMA InstantsNone == Cardinality(Instants(0)) = 0
<1>1. Instants(0) = {}
  BY DEF Instants
<1>. QED
  BY <1>1, FS_EmptySet

LEMMA InstantsNext ==
  ASSUME NEW n \in 1..LastStage
  PROVE  /\ Cardinality(Instants(n - 1)) \in Nat
         /\ Cardinality(Instants(n)) = Cardinality(Instants(n - 1)) + Period(n)
<1>. DEFINE A == Instants(n - 1)
            B == {n} \X (1..Period(n))
<1>1. n \in Nat /\ n - 1 \in 0..LastStage /\ Period(n) \in Nat \ {0}
  BY StageTypes
<1>2. 1..n = (1..(n - 1)) \cup {n} /\ n \notin 1..(n - 1)
  BY <1>1
<1>3. Instants(n) = A \cup B
  BY <1>2, Zenon DEF Instants
<1>4. A \cap B = {}
  BY <1>2 DEF Instants
<1>5. IsFiniteSet(A) /\ Cardinality(A) \in Nat
  BY <1>1, InstantsFinite, FS_CardinalityType
<1>6. IsFiniteSet(B) /\ Cardinality(B) = Period(n)
  <2>1. IsFiniteSet({n}) /\ Cardinality({n}) = 1
    BY FS_Singleton
  <2>2. IsFiniteSet(1..Period(n)) /\ Cardinality(1..Period(n)) = Period(n)
    BY <1>1, FS_Interval
  <2>3. IsFiniteSet(B) /\ Cardinality(B) = 1 * Period(n)
    BY <2>1, <2>2, FS_Product
  <2>. QED
    BY <1>1, <2>3
<1>7. Cardinality(A \cap B) = 0
  BY <1>4, FS_EmptySet
<1>. HIDE DEF A, B
<1>8. Cardinality(A \cup B) = Cardinality(A) + Cardinality(B) - Cardinality(A \cap B)
  BY <1>5, <1>6, FS_Union
<1>9. Cardinality(A \cup B) = Cardinality(A) + Period(n)
  BY <1>1, <1>5, <1>6, <1>7, <1>8
<1>. QED
  BY <1>3, <1>5, <1>9 DEF A

LEMMA FullRampType == FullRamp \in Nat
  BY StageTypes, InstantsFinite, FS_CardinalityType DEF FullRamp

-----------------------------------------------------------------------------
(* What the operators return.                                               *)

LEMMA AgedIs ==
  ASSUME NEW p \in Participants, NEW midnight \in BOOLEAN
  PROVE  /\ Aged(p, midnight) \in Participants
         /\ Aged(p, midnight).status = p.status
         /\ Aged(p, midnight).stage = p.stage
         /\ Aged(p, midnight).since = IF p.since < Eldest THEN p.since + 1 ELSE p.since
<1>1. /\ p.since \in 0..Eldest /\ p.key \in 0..2 /\ p.rest \in 0..Rested
      /\ Eldest \in Nat /\ Rested \in Nat
  BY AgeTypes DEF Participants
<1>2. /\ Older(p.since, Eldest) \in 0..Eldest
      /\ (IF midnight THEN Older(p.key, 2) ELSE p.key) \in 0..2
      /\ Older(p.rest, Rested) \in 0..Rested
  BY <1>1 DEF Older
<1>3. Older(p.since, Eldest) = IF p.since < Eldest THEN p.since + 1 ELSE p.since
  BY DEF Older
<1>4. Aged(p, midnight) = [p EXCEPT !.since = Older(p.since, Eldest), !.rest = Older(p.rest, Rested),
                                   !.key = IF midnight THEN Older(p.key, 2) ELSE p.key]
  BY DEF Aged
<1>. HIDE DEF Older
<1>. QED
  BY <1>2, <1>3, <1>4 DEF Participants

LEMMA TodayIs ==
  ASSUME NEW m \in Memory, NEW p \in Participants
  PROVE  /\ Today(m, p) \in Participants
         /\ Today(m, p).status = p.status
         /\ Today(m, p).stage = p.stage
         /\ Today(m, p).since = p.since
<1>1. m.day \in 0..2
  BY DEF Memory
<1>. QED
  BY <1>1 DEF Today, Participants

\* A stage that is over is followed by the next one, which begins with the tick.
Moved(m, p, q) ==
    IF q.stage = p.stage THEN q.since = p.since
    ELSE /\ q.stage = p.stage + 1 /\ q.since = m.lag
         /\ p.since - m.lag >= Period(p.stage)

LEMMA AdvancedIs ==
  ASSUME NEW m \in Memory, NEW p \in Participants, ~Graduates(m, p)
  PROVE  /\ Advanced(m, p) \in Participants
         /\ Advanced(m, p).status = p.status
         /\ Moved(m, p, Advanced(m, p))
<1>1. /\ p.stage \in 1..LastStage /\ p.since \in 0..Eldest /\ m.lag \in 0..MaxLag
      /\ Eldest \in Nat /\ Eldest > MaxLag /\ LastStage \in Nat /\ MaxLag \in Nat
  BY AgeTypes, StageTypes DEF Participants, Memory
<1>2. CASE IsOver(m, p)
  <2>1. p.stage + 1 \in 1..LastStage /\ m.lag \in 0..Eldest /\ p.stage + 1 # p.stage
    BY <1>1, <1>2 DEF Graduates
  <2>2. Advanced(m, p) = [p EXCEPT !.stage = p.stage + 1, !.since = m.lag]
    BY <1>2 DEF Advanced
  <2>3. /\ Advanced(m, p) \in Participants
        /\ Advanced(m, p).status = p.status
        /\ Advanced(m, p).stage = p.stage + 1 /\ Advanced(m, p).since = m.lag
    BY <2>1, <2>2 DEF Participants
  <2>4. p.since - m.lag >= Period(p.stage)
    BY <1>2 DEF IsOver
  <2>. QED
    BY <2>1, <2>3, <2>4 DEF Moved
<1>3. CASE ~IsOver(m, p)
  BY <1>3 DEF Advanced, Moved
<1>. QED
  BY <1>2, <1>3

LEMMA ActedIs ==
  ASSUME NEW m \in Memory, NEW p \in Participants
  PROVE  /\ Acted(m, p) \in Participants
         /\ Acted(m, p).status = p.status
         /\ Acted(m, p).stage = p.stage
         /\ Acted(m, p).since = p.since
<1>. DEFINE joined == IF p.joined = Groups THEN p.joined
                      ELSE p.joined \cup {CHOOSE g \in Groups : g \notin p.joined}
<1>1. p.joined \in SUBSET Groups /\ p.actions + 1 \in Nat
  BY DEF Participants
<1>2. joined \in SUBSET Groups
  <2>1. CASE p.joined # Groups
    <3>1. \E g \in Groups : g \notin p.joined
      BY <1>1, <2>1
    <3>2. (CHOOSE g \in Groups : g \notin p.joined) \in Groups
      BY <3>1
    <3>. QED
      BY <1>1, <3>2
  <2>. QED
    BY <1>1, <2>1
<1>3. m.lag \in 0..Rested
  BY AgeTypes, StageTypes DEF Memory
<1>4. Acted(m, p) = [p EXCEPT !.actions = p.actions + 1, !.rest = m.lag, !.joined = joined]
  BY DEF Acted
<1>. HIDE DEF joined
<1>. QED
  BY <1>1, <1>2, <1>3, <1>4 DEF Participants

LEMMA NoParticipantIs ==
  /\ NoParticipant \in Participants /\ Nobody \in [Accounts -> Participants]
  /\ NoParticipant.status = "absent" /\ NoParticipant.stage = 1 /\ NoParticipant.since = 0
  /\ \A status \in {"absent", "pending", "active", "done"} :
        /\ [NoParticipant EXCEPT !.status = status] \in Participants
        /\ [NoParticipant EXCEPT !.status = status].status = status
        /\ [NoParticipant EXCEPT !.status = status].stage = 1
        /\ [NoParticipant EXCEPT !.status = status].since = 0
<1>1. 1 \in 1..LastStage /\ 0 \in 0..Eldest /\ Rested \in 0..Rested
  BY AgeTypes, StageTypes
<1>2. NoParticipant \in Participants
  BY <1>1 DEF NoParticipant, Participants
<1>. QED
  BY <1>1, <1>2 DEF NoParticipant, Participants, Nobody

LEMMA ForgottenIs ==
  /\ Forgotten \in Memory
  /\ Forgotten.run = NoRun /\ Forgotten.left = {} /\ Forgotten.lifted = {} /\ Forgotten.gone = {}
  /\ Forgotten.lag = 0 /\ Forgotten.loaded = Nobody /\ Forgotten.row = Nobody
  /\ \A a \in Accounts : Forgotten.known[a] = "unread"
<1>1. 0 \in 0..MaxLag
  BY StageTypes
<1>2. [a \in Accounts |-> "unread"] \in [Accounts -> AccountStates \cup {"unread"}]
  OBVIOUS
<1>. QED
  BY <1>1, <1>2, NoParticipantIs DEF Forgotten, Memory

\* What a commit leaves in the table.
LEMMA WrittenIs ==
  ASSUME NEW m \in Memory, NEW a \in Accounts, NEW stored \in Participants
  PROVE  /\ Written(stored, m, a) \in Participants
         /\ Written(stored, m, a).status = IF m.row[a].status = m.loaded[a].status
                                           THEN stored.status ELSE m.row[a].status
         /\ Written(stored, m, a).stage = IF m.row[a].stage = m.loaded[a].stage
                                          THEN stored.stage ELSE m.row[a].stage
         /\ Written(stored, m, a).since = IF m.row[a].since = m.loaded[a].since
                                          THEN stored.since ELSE m.row[a].since
<1>1. DOMAIN stored = {"status", "stage", "since", "actions", "key", "rest", "joined"}
  BY DEF Participants
<1>2. m.row[a] \in Participants /\ m.loaded[a] \in Participants
  BY DEF Memory
<1>. DEFINE w == Written(stored, m, a)
            Pick(f) == IF m.row[a][f] = m.loaded[a][f] THEN stored[f] ELSE m.row[a][f]
<1>3. w = [f \in {"status", "stage", "since", "actions", "key", "rest", "joined"} |-> Pick(f)]
  BY <1>1 DEF Written
<1>4. w = [status |-> Pick("status"), stage |-> Pick("stage"), since |-> Pick("since"),
           actions |-> Pick("actions"), key |-> Pick("key"), rest |-> Pick("rest"),
           joined |-> Pick("joined")]
  BY <1>3
<1>5. /\ Pick("status") \in {"absent", "pending", "active", "done"} /\ Pick("stage") \in 1..LastStage
      /\ Pick("since") \in 0..Eldest /\ Pick("actions") \in Nat /\ Pick("key") \in 0..2
      /\ Pick("rest") \in 0..Rested /\ Pick("joined") \in SUBSET Groups
  BY <1>2 DEF Participants
<1>6. w \in Participants
  <2>. HIDE DEF Pick, w
  <2>. QED
    BY <1>4, <1>5 DEF Participants
<1>. QED
  BY <1>3, <1>6

-----------------------------------------------------------------------------
(***************************************************************************)
(* The invariant.                                                          *)
(***************************************************************************)

\* The instants of the stages before the nth.
Before(n) == Cardinality(Instants(n - 1))

\* Somebody n instants after the start has not gone further than that: all stages before
\* this one, and what is known of this one.
Climbed(n, p) == n = FullRamp \/ n >= Before(p.stage) + p.since

\* A session has loaded a participant, which is still there.
Holds(s, r, a) == mem[s].run = r /\ mem[s].loaded[a].status = "active" /\ a \notin mem[s].gone

\* Only what was loaded active is changed, a stage together with its beginning, and the
\* beginning is then the tick's.
MemoryInv(m) ==
    /\ m.left # {} => m.run \in Runs
    /\ \A a \in Accounts :
          /\ m.loaded[a].status \in {"absent", "active"}
          /\ m.row[a].status \in {m.loaded[a].status, "done"}
          /\ a \in m.left => m.loaded[a].status = "active" /\ m.row[a] = m.loaded[a]
          /\ m.loaded[a].status = "absent" => m.row[a] = m.loaded[a]
          /\ IF m.row[a].stage = m.loaded[a].stage THEN m.row[a].since = m.loaded[a].since
             ELSE m.row[a].since = m.lag /\ m.loaded[a].since > m.lag

\* What a session may write of a participant is no further than the participation is old.
SessionClimb(s, r, a) ==
    Holds(s, r, a) =>
        /\ participant[r][a].status \in {"active", "done"}
        /\ participant[r][a].status = "active" =>
              /\ Climbed(ramp[r][a], mem[s].row[a])
              /\ mem[s].row[a].status = "done" => ramp[r][a] = FullRamp

RampInv(r, a) ==
    /\ participant[r][a].status = "pending" => participant[r][a].stage = 1
    /\ participant[r][a].status = "active" => Climbed(ramp[r][a], participant[r][a])
    /\ \A s \in Sessions : SessionClimb(s, r, a)

\* An account in quarantine ever since has not been read in any other status.
BenchInv(s) ==
    /\ pc[s] = "idle" => mem[s] = Forgotten
    /\ \A a \in benched[s] :
          /\ account[a] = "quarantined"
          /\ mem[s].known[a] \in {"unread", "quarantined"}
          /\ a \notin mem[s].lifted

WarmupInv ==
    /\ TypeOK
    /\ \A s \in Sessions : MemoryInv(mem[s]) /\ BenchInv(s)
    /\ \A r \in Runs, a \in Accounts : RampInv(r, a)

LEMMA BeforeIs ==
  /\ Before(1) = 0
  /\ \A n \in 1..LastStage : Before(n) \in Nat
  /\ \A n \in 1..LastStage : n + 1 \in 1..LastStage => Before(n + 1) = Before(n) + Period(n)
  /\ Before(LastStage) + Period(LastStage) = FullRamp
<1>1. Before(1) = 0
  <2>1. 1 - 1 = 0
    OBVIOUS
  <2>. QED
    BY <2>1, InstantsNone DEF Before
<1>2. \A n \in 1..LastStage : Before(n) \in Nat
  BY InstantsNext DEF Before
<1>3. ASSUME NEW n \in 1..LastStage
      PROVE  Cardinality(Instants(n)) = Before(n) + Period(n)
  BY InstantsNext DEF Before
<1>4. \A n \in 1..LastStage : (n + 1) - 1 = n
  OBVIOUS
<1>5. \A n \in 1..LastStage : Before(n + 1) = Before(n) + Period(n)
  BY <1>3, <1>4 DEF Before
<1>6. LastStage \in 1..LastStage
  BY StageTypes
<1>. QED
  BY <1>1, <1>2, <1>3, <1>5, <1>6 DEF FullRamp

LEMMA WarmupInitially == Init => WarmupInv
<1>. SUFFICES ASSUME Init PROVE WarmupInv
  OBVIOUS
<1>1. PICK members \in [Runs -> SUBSET Accounts] :
          /\ participant = [r \in Runs |-> [a \in Accounts |-> [NoParticipant EXCEPT
                !.status = IF a \notin members[r] THEN "absent"
                           ELSE IF run[r] = "running" THEN "active" ELSE "pending"]]]
          /\ account = [a \in Accounts |->
                IF \E r \in Runs : run[r] = "running" /\ a \in members[r]
                THEN "warming" ELSE "active"]
  BY DEF Init
<1>2. /\ run \in [Runs -> {"draft", "running"}]
      /\ pc = [s \in Sessions |-> "idle"]
      /\ mem = [s \in Sessions |-> Forgotten]
      /\ phase = 0 /\ did = Zero /\ excused = Zero /\ ramp = Zero /\ orphaned = {}
      /\ benched = [s \in Sessions |-> {}]
      /\ edits = 0 /\ losses = 0
  BY DEF Init
<1>3. ASSUME NEW r \in Runs, NEW a \in Accounts
      PROVE  /\ participant[r][a] \in Participants
             /\ participant[r][a].stage = 1 /\ participant[r][a].since = 0
  BY <1>1, NoParticipantIs
<1>4. participant \in [Runs -> [Accounts -> Participants]]
  <2>1. ASSUME NEW r \in Runs PROVE participant[r] \in [Accounts -> Participants]
    <3>1. participant[r] = [a \in Accounts |-> participant[r][a]]
      BY <1>1
    <3>. QED
      BY <1>3, <3>1
  <2>2. participant = [r \in Runs |-> participant[r]]
    BY <1>1
  <2>. QED
    BY <2>1, <2>2
<1>5. account \in [Accounts -> AccountStates]
  BY <1>1 DEF AccountStates
<1>6. did \in [Runs -> [Accounts -> Nat]] /\ excused \in [Runs -> [Accounts -> Nat]]
      /\ ramp \in [Runs -> [Accounts -> 0..FullRamp]]
  BY <1>2, FullRampType DEF Zero
<1>7. TypeOK
  <2>1. run \in [Runs -> {"draft", "running", "paused", "done", "deleted"}]
    BY <1>2
  <2>2. pc \in [Sessions -> {"idle", "pick", "tick"}] /\ mem \in [Sessions -> Memory]
    BY <1>2, ForgottenIs
  <2>3. phase \in 0..(DayLength - 1)
    BY <1>2, StageTypes
  <2>4. orphaned \in SUBSET Accounts /\ benched \in [Sessions -> SUBSET Accounts]
    BY <1>2
  <2>5. edits \in Nat /\ losses \in Nat
    BY <1>2
  <2>. QED
    BY <1>4, <1>5, <1>6, <2>1, <2>2, <2>3, <2>4, <2>5 DEF TypeOK
<1>8. MemoryInv(Forgotten)
  BY ForgottenIs, NoParticipantIs DEF MemoryInv, Nobody
<1>9. \A s \in Sessions : MemoryInv(mem[s]) /\ BenchInv(s)
  BY <1>2, <1>8 DEF BenchInv
<1>10. ASSUME NEW r \in Runs, NEW a \in Accounts
       PROVE  RampInv(r, a)
  <2>1. ramp[r][a] >= Before(participant[r][a].stage) + participant[r][a].since
    <3>1. ramp[r][a] = 0
      BY <1>2 DEF Zero
    <3>. QED
      BY <1>3, <3>1, BeforeIs
  <2>2. \A s \in Sessions : ~Holds(s, r, a)
    BY <1>2, ForgottenIs, NoParticipantIs DEF Holds, Nobody
  <2>. QED
    BY <1>3, <2>1, <2>2 DEF RampInv, Climbed, SessionClimb
<1>. QED
  BY <1>7, <1>9, <1>10 DEF WarmupInv

-----------------------------------------------------------------------------
(* Time.                                                                    *)

LEMMA ClimbAges ==
  ASSUME NEW n \in 0..FullRamp, NEW p \in Participants, Climbed(n, p), NEW midnight \in BOOLEAN
  PROVE  /\ Older(n, FullRamp) \in 0..FullRamp
         /\ Climbed(Older(n, FullRamp), Aged(p, midnight))
<1>1. Aged(p, midnight).stage = p.stage /\ Aged(p, midnight).since <= p.since + 1
      /\ Aged(p, midnight).since \in Nat /\ p.since \in Nat
  <2>1. p.since \in 0..Eldest /\ Eldest \in Nat
    BY AgeTypes DEF Participants
  <2>. QED
    BY <2>1, AgedIs
<1>2. FullRamp \in Nat /\ Before(p.stage) \in Nat
  BY FullRampType, BeforeIs DEF Participants
<1>3. CASE n = FullRamp
  BY <1>2, <1>3 DEF Older, Climbed
<1>4. CASE n # FullRamp
  <2>1. Older(n, FullRamp) = n + 1 /\ n >= Before(p.stage) + p.since
    BY <1>2, <1>4 DEF Older, Climbed
  <2>. QED
    BY <1>1, <1>2, <1>4, <2>1 DEF Climbed
<1>. QED
  BY <1>3, <1>4

\* A session's memory as an instant passes.
Later(m, midnight) ==
    [m EXCEPT !.lag = @ + 1, !.day = IF midnight THEN 1 ELSE @,
        !.loaded = [a \in Accounts |-> Aged(@[a], midnight)],
        !.row = [a \in Accounts |-> Aged(@[a], midnight)]]

LEMMA LaterIs ==
  ASSUME NEW m \in Memory, NEW midnight \in BOOLEAN, m.lag < MaxLag
  PROVE  /\ Later(m, midnight) \in Memory
         /\ Later(m, midnight).lag = m.lag + 1
         /\ \A a \in Accounts : /\ Later(m, midnight).loaded[a] = Aged(m.loaded[a], midnight)
                                /\ Later(m, midnight).row[a] = Aged(m.row[a], midnight)
         /\ Later(m, midnight).run = m.run /\ Later(m, midnight).left = m.left
         /\ Later(m, midnight).gone = m.gone /\ Later(m, midnight).known = m.known
         /\ Later(m, midnight).lifted = m.lifted
<1>1. m.lag + 1 \in 0..MaxLag /\ m.loaded \in [Accounts -> Participants]
      /\ m.row \in [Accounts -> Participants] /\ m.day \in {0, 1}
  BY StageTypes DEF Memory
<1>. DEFINE loaded == [a \in Accounts |-> Aged(m.loaded[a], midnight)]
            row == [a \in Accounts |-> Aged(m.row[a], midnight)]
            day == IF midnight THEN 1 ELSE m.day
<1>2. loaded \in [Accounts -> Participants] /\ row \in [Accounts -> Participants] /\ day \in {0, 1}
  BY <1>1, AgedIs
<1>3. \A a \in Accounts : loaded[a] = Aged(m.loaded[a], midnight) /\ row[a] = Aged(m.row[a], midnight)
  OBVIOUS
<1>4. Later(m, midnight) = [m EXCEPT !.lag = m.lag + 1, !.day = day, !.loaded = loaded, !.row = row]
  BY DEF Later
<1>. HIDE DEF loaded, row, day
<1>5. Later(m, midnight) \in Memory
  BY <1>1, <1>2, <1>4 DEF Memory
<1>. QED
  BY <1>3, <1>4, <1>5 DEF Memory

LEMMA LaterKeeps ==
  ASSUME NEW m \in Memory, NEW midnight \in BOOLEAN, m.lag < MaxLag, MemoryInv(m)
  PROVE  MemoryInv(Later(m, midnight))
<1>. DEFINE n == Later(m, midnight)
<1>1. n.left # {} => n.run \in Runs
  BY LaterIs DEF MemoryInv
<1>2. ASSUME NEW a \in Accounts
      PROVE  /\ n.loaded[a].status \in {"absent", "active"}
             /\ n.row[a].status \in {n.loaded[a].status, "done"}
             /\ a \in n.left => n.loaded[a].status = "active" /\ n.row[a] = n.loaded[a]
             /\ n.loaded[a].status = "absent" => n.row[a] = n.loaded[a]
             /\ IF n.row[a].stage = n.loaded[a].stage THEN n.row[a].since = n.loaded[a].since
                ELSE n.row[a].since = n.lag /\ n.loaded[a].since > n.lag
  <2>. DEFINE old == m.loaded[a]
              new == m.row[a]
  <2>1. /\ old \in Participants /\ new \in Participants
        /\ old.since \in 0..Eldest /\ new.since \in 0..Eldest /\ m.lag \in 0..MaxLag
        /\ Eldest \in Nat /\ Eldest > MaxLag /\ MaxLag \in Nat
    BY AgeTypes, StageTypes DEF Memory, Participants
  <2>2. /\ n.loaded[a] = Aged(old, midnight) /\ n.row[a] = Aged(new, midnight)
        /\ n.left = m.left /\ n.lag = m.lag + 1
    BY LaterIs
  <2>3. /\ old.status \in {"absent", "active"}
        /\ new.status \in {old.status, "done"}
        /\ a \in m.left => old.status = "active" /\ new = old
        /\ old.status = "absent" => new = old
        /\ IF new.stage = old.stage THEN new.since = old.since
           ELSE new.since = m.lag /\ old.since > m.lag
    BY DEF MemoryInv
  <2>. HIDE DEF old, new, n
  <2>4. /\ n.loaded[a].status = old.status /\ n.row[a].status = new.status
        /\ n.loaded[a].stage = old.stage /\ n.row[a].stage = new.stage
        /\ n.loaded[a].since = IF old.since < Eldest THEN old.since + 1 ELSE old.since
        /\ n.row[a].since = IF new.since < Eldest THEN new.since + 1 ELSE new.since
    BY <2>1, <2>2, AgedIs
  <2>5. IF n.row[a].stage = n.loaded[a].stage THEN n.row[a].since = n.loaded[a].since
        ELSE n.row[a].since = n.lag /\ n.loaded[a].since > n.lag
    <3>1. CASE new.stage = old.stage
      BY <2>3, <2>4, <3>1
    <3>2. CASE new.stage # old.stage
      <4>1. new.since = m.lag /\ old.since > m.lag
        BY <2>3, <3>2
      <4>2. n.row[a].since = n.lag
        BY <2>1, <2>2, <2>4, <4>1
      <4>3. n.loaded[a].since > n.lag
        BY LaterIs, <2>1, <2>2, <2>4, <4>1
      <4>. QED
        BY <2>4, <3>2, <4>2, <4>3
    <3>. QED
      BY <3>1, <3>2
  <2>. QED
    BY <2>2, <2>3, <2>4, <2>5
<1>. QED
  BY <1>1, <1>2 DEF MemoryInv

LEMMA PassTimeStep ==
  ASSUME WarmupInv, PassTime
  PROVE  WarmupInv'
<1>. USE DEF WarmupInv
<1>. DEFINE midnight == phase + 1 = DayLength
            Day(n) == IF midnight THEN 0 ELSE n
<1>1. /\ \A s \in Sessions : mem[s].run # NoRun => mem[s].lag < MaxLag
      /\ phase' = Day(phase + 1)
      /\ participant' = [r \in Runs |-> [a \in Accounts |->
            IF participant[r][a].status = "active" THEN Aged(participant[r][a], midnight)
            ELSE participant[r][a]]]
      /\ mem' = [s \in Sessions |-> IF mem[s].run = NoRun THEN mem[s] ELSE Later(mem[s], midnight)]
      /\ ramp' = [r \in Runs |-> [a \in Accounts |->
            IF participant[r][a].status = "active" THEN Older(ramp[r][a], FullRamp)
            ELSE ramp[r][a]]]
      /\ did' = [r \in Runs |-> [a \in Accounts |-> Day(did[r][a])]]
      /\ excused' = [r \in Runs |-> [a \in Accounts |-> Day(excused[r][a])]]
      /\ UNCHANGED <<run, account, pc, orphaned, benched, edits, losses>>
  BY DEF PassTime, Later, bounds
<1>2. midnight \in BOOLEAN
  OBVIOUS
<1>3. \A s \in Sessions : mem[s] \in Memory /\ MemoryInv(mem[s])
  BY DEF TypeOK
<1>4. phase' \in 0..(DayLength - 1)
  BY <1>1, StageTypes DEF TypeOK
<1>5. did' \in [Runs -> [Accounts -> Nat]] /\ excused' \in [Runs -> [Accounts -> Nat]]
  BY <1>1 DEF TypeOK
<1>. HIDE DEF midnight, Day
<1>6. ASSUME NEW r \in Runs, NEW a \in Accounts
      PROVE  /\ participant[r][a] \in Participants /\ participant'[r][a] \in Participants
             /\ participant'[r][a].status = participant[r][a].status
             /\ participant'[r][a].stage = participant[r][a].stage
             /\ ramp[r][a] \in 0..FullRamp /\ ramp'[r][a] \in 0..FullRamp
             /\ participant[r][a].status = "active" =>
                   /\ participant'[r][a] = Aged(participant[r][a], midnight)
                   /\ ramp'[r][a] = Older(ramp[r][a], FullRamp)
  <2>1. /\ participant[r][a] \in Participants /\ ramp[r][a] \in 0..FullRamp
        /\ participant'[r][a] = IF participant[r][a].status = "active"
                                THEN Aged(participant[r][a], midnight) ELSE participant[r][a]
        /\ ramp'[r][a] = IF participant[r][a].status = "active"
                         THEN Older(ramp[r][a], FullRamp) ELSE ramp[r][a]
    BY <1>1 DEF TypeOK
  <2>2. Older(ramp[r][a], FullRamp) \in 0..FullRamp
    BY <2>1, FullRampType DEF Older
  <2>. QED
    BY <1>2, <2>1, <2>2, AgedIs
<1>7. participant' \in [Runs -> [Accounts -> Participants]]
      /\ ramp' \in [Runs -> [Accounts -> 0..FullRamp]]
  <2>1. ASSUME NEW r \in Runs
        PROVE  participant'[r] \in [Accounts -> Participants] /\ ramp'[r] \in [Accounts -> 0..FullRamp]
    <3>1. DOMAIN participant'[r] = Accounts /\ participant'[r] = [a \in Accounts |-> participant'[r][a]]
          /\ DOMAIN ramp'[r] = Accounts /\ ramp'[r] = [a \in Accounts |-> ramp'[r][a]]
      BY <1>1
    <3>. QED
      BY <1>6, <3>1
  <2>2. participant' = [r \in Runs |-> participant'[r]] /\ ramp' = [r \in Runs |-> ramp'[r]]
    BY <1>1
  <2>. QED
    BY <2>1, <2>2
<1>8. ASSUME NEW s \in Sessions
      PROVE  /\ mem'[s] \in Memory /\ MemoryInv(mem'[s])
             /\ mem'[s].run = mem[s].run /\ mem'[s].gone = mem[s].gone
             /\ mem'[s].known = mem[s].known /\ mem'[s].lifted = mem[s].lifted
             /\ mem[s].run = NoRun => mem'[s] = mem[s]
             /\ mem[s].run # NoRun => \A a \in Accounts :
                   /\ mem'[s].loaded[a] = Aged(mem[s].loaded[a], midnight)
                   /\ mem'[s].row[a] = Aged(mem[s].row[a], midnight)
  <2>1. CASE mem[s].run = NoRun
    BY <1>1, <1>3, <2>1
  <2>2. CASE mem[s].run # NoRun
    <3>1. mem[s].lag < MaxLag /\ mem'[s] = Later(mem[s], midnight)
      BY <1>1, <2>2
    <3>. QED
      BY <1>2, <1>3, <2>2, <3>1, LaterIs, LaterKeeps
  <2>. QED
    BY <2>1, <2>2
<1>9. TypeOK'
  <2>1. mem' \in [Sessions -> Memory]
    BY <1>1, <1>8
  <2>. QED
    BY <1>1, <1>4, <1>5, <1>7, <2>1 DEF TypeOK
<1>10. ASSUME NEW s \in Sessions PROVE BenchInv(s)'
  <2>1. pc[s] = "idle" => mem'[s] = Forgotten
    BY <1>8, ForgottenIs DEF BenchInv
  <2>. QED
    BY <1>1, <1>8, <2>1 DEF BenchInv
<1>11. ASSUME NEW r \in Runs, NEW a \in Accounts PROVE RampInv(r, a)'
  <2>1. RampInv(r, a)
    OBVIOUS
  <2>2. participant'[r][a].status = "pending" => participant'[r][a].stage = 1
    BY <1>6, <2>1 DEF RampInv
  <2>3. participant'[r][a].status = "active" => Climbed(ramp'[r][a], participant'[r][a])
    BY <1>2, <1>6, <2>1, ClimbAges DEF RampInv
  <2>4. ASSUME NEW s \in Sessions PROVE SessionClimb(s, r, a)'
    <3>. SUFFICES ASSUME Holds(s, r, a)' PROVE SessionClimb(s, r, a)'
      BY DEF SessionClimb
    <3>1. /\ mem[s].run = r /\ mem[s].run # NoRun
          /\ mem[s].loaded[a] \in Participants /\ mem[s].row[a] \in Participants
      BY <1>3, <1>8, WarmupAssumption DEF Holds, Memory
    <3>2. /\ mem'[s].loaded[a] = Aged(mem[s].loaded[a], midnight)
          /\ mem'[s].row[a] = Aged(mem[s].row[a], midnight)
      BY <1>8, <3>1
    <3>3. Holds(s, r, a)
      BY <1>2, <1>8, <3>1, <3>2, AgedIs DEF Holds
    <3>4. /\ participant[r][a].status \in {"active", "done"}
          /\ participant[r][a].status = "active" =>
                /\ Climbed(ramp[r][a], mem[s].row[a])
                /\ mem[s].row[a].status = "done" => ramp[r][a] = FullRamp
      BY <2>1, <3>3 DEF RampInv, SessionClimb
    <3>5. mem'[s].row[a].status = mem[s].row[a].status
      BY <1>2, <3>1, <3>2, AgedIs
    <3>6. participant[r][a].status = "active" => Climbed(ramp'[r][a], mem'[s].row[a])
      BY <1>2, <1>6, <3>1, <3>2, <3>4, ClimbAges
    <3>7. participant[r][a].status = "active" /\ mem[s].row[a].status = "done" => ramp'[r][a] = FullRamp
      BY <1>6, <3>4, FullRampType DEF Older
    <3>. QED
      BY <1>6, <3>4, <3>5, <3>6, <3>7 DEF SessionClimb
  <2>. QED
    BY <2>2, <2>3, <2>4 DEF RampInv
<1>. QED
  BY <1>8, <1>9, <1>10, <1>11

-----------------------------------------------------------------------------
(* Managers and health checks.                                              *)

LEMMA RampSame ==
  ASSUME NEW r \in Runs, NEW a \in Accounts, RampInv(r, a),
         participant'[r][a] = participant[r][a], ramp'[r][a] = ramp[r][a],
         \A s \in Sessions : Holds(s, r, a)' => Holds(s, r, a) /\ mem'[s].row[a] = mem[s].row[a]
  PROVE  RampInv(r, a)'
<1>1. ASSUME NEW s \in Sessions PROVE SessionClimb(s, r, a)'
  BY DEF RampInv, SessionClimb
<1>. QED
  BY <1>1 DEF RampInv

\* A participation that ends, or has ended before, makes no claim.
LEMMA RampEnds ==
  ASSUME NEW r \in Runs, NEW a \in Accounts, RampInv(r, a),
         participant'[r][a].status = "done",
         \A s \in Sessions : Holds(s, r, a)' => Holds(s, r, a)
  PROVE  RampInv(r, a)'
  BY DEF RampInv, SessionClimb

\* One that begins is nobody's.
LEMMA RampBegins ==
  ASSUME NEW r \in Runs, NEW a \in Accounts, RampInv(r, a),
         participant[r][a].status \in {"absent", "pending"},
         participant'[r][a].status \in {"absent", "pending", "active"},
         participant'[r][a].stage = 1, participant'[r][a].since = 0, ramp'[r][a] \in Nat,
         \A s \in Sessions : Holds(s, r, a)' => Holds(s, r, a)
  PROVE  RampInv(r, a)'
<1>1. \A s \in Sessions : ~Holds(s, r, a)'
  BY DEF RampInv, SessionClimb
<1>2. Climbed(ramp'[r][a], participant'[r][a])
  BY BeforeIs DEF Climbed
<1>. QED
  BY <1>1, <1>2 DEF RampInv, SessionClimb

LEMMA BenchSame ==
  ASSUME NEW s \in Sessions, BenchInv(s), mem'[s] = mem[s], pc'[s] = pc[s],
         benched'[s] \subseteq benched[s],
         \A a \in benched'[s] : account'[a] = account[a]
  PROVE  BenchInv(s)'
  BY DEF BenchInv

LEMMA PauseStep ==
  ASSUME WarmupInv, NEW r \in Runs, PauseRun(r)
  PROVE  WarmupInv'
<1>. USE DEF WarmupInv
<1>1. /\ run' = [run EXCEPT ![r] = "paused"] /\ edits' = edits + 1
      /\ UNCHANGED <<participant, account, pc, mem, did, excused, ramp, orphaned, benched, phase, losses>>
  BY DEF PauseRun, Edit, sessions, ghosts
<1>2. TypeOK'
  BY <1>1 DEF TypeOK
<1>3. \A s \in Sessions : MemoryInv(mem'[s]) /\ BenchInv(s)'
  BY <1>1, BenchSame
<1>4. \A q \in Runs, a \in Accounts : RampInv(q, a)'
  BY <1>1, RampSame DEF Holds
<1>. QED
  BY <1>2, <1>3, <1>4

LEMMA SetAccountStep ==
  ASSUME WarmupInv, NEW b \in Accounts, NEW v \in AccountStates, SetAccount(b, v)
  PROVE  WarmupInv'
<1>. USE DEF WarmupInv
<1>1. /\ account' = [account EXCEPT ![b] = v] /\ edits' = edits + 1
      /\ orphaned' = IF v = "warming" THEN orphaned \cup {b} ELSE orphaned \ {b}
      /\ benched' = [s \in Sessions |-> benched[s] \ {b}]
      /\ UNCHANGED <<run, participant, pc, mem, did, excused, ramp, phase, losses>>
  BY DEF SetAccount, Edit, Unbench, sessions
<1>2. TypeOK'
  BY <1>1 DEF TypeOK
<1>3. ASSUME NEW s \in Sessions PROVE MemoryInv(mem'[s]) /\ BenchInv(s)'
  <2>1. benched'[s] \subseteq benched[s] /\ \A a \in benched'[s] : account'[a] = account[a]
    BY <1>1 DEF TypeOK
  <2>. QED
    BY <1>1, <2>1, BenchSame
<1>4. \A q \in Runs, a \in Accounts : RampInv(q, a)'
  BY <1>1, RampSame DEF Holds
<1>. QED
  BY <1>2, <1>3, <1>4

LEMMA StopRunStep ==
  ASSUME WarmupInv, NEW r \in Runs, StopRun(r)
  PROVE  WarmupInv'
<1>. USE DEF WarmupInv
<1>. DEFINE members == {a \in Accounts : participant[r][a].status # "absent"}
            rows == [a \in Accounts |-> IF a \in members THEN [participant[r][a] EXCEPT !.status = "done"]
                                        ELSE participant[r][a]]
<1>1. /\ run' = [run EXCEPT ![r] = "done"] /\ edits' = edits + 1
      /\ participant' = [participant EXCEPT ![r] = rows]
      /\ account' = [a \in Accounts |->
            IF a \in members /\ account[a] = "warming" THEN "active" ELSE account[a]]
      /\ UNCHANGED <<pc, mem, did, excused, ramp, orphaned, benched, phase, losses>>
  BY DEF StopRun, Edit, sessions, ghosts, TypeOK
<1>2. ASSUME NEW a \in Accounts
      PROVE  rows[a] \in Participants /\ (rows[a] = participant[r][a] \/ rows[a].status = "done")
  <2>1. participant[r][a] \in Participants
    BY DEF TypeOK
  <2>2. [participant[r][a] EXCEPT !.status = "done"] \in Participants
        /\ [participant[r][a] EXCEPT !.status = "done"].status = "done"
    BY <2>1 DEF Participants
  <2>3. rows[a] = IF a \in members THEN [participant[r][a] EXCEPT !.status = "done"]
                  ELSE participant[r][a]
    OBVIOUS
  <2>. QED
    BY <2>1, <2>2, <2>3
<1>3. rows \in [Accounts -> Participants]
  BY <1>2
<1>. HIDE DEF rows
<1>4. participant' \in [Runs -> [Accounts -> Participants]]
      /\ \A q \in Runs : participant'[q] = IF q = r THEN rows ELSE participant[q]
  BY <1>1, <1>3 DEF TypeOK
<1>5. account' \in [Accounts -> AccountStates]
      /\ \A a \in Accounts : account[a] = "quarantined" => account'[a] = account[a]
  BY <1>1 DEF TypeOK, AccountStates
<1>6. TypeOK'
  BY <1>1, <1>4, <1>5 DEF TypeOK
<1>7. ASSUME NEW s \in Sessions PROVE MemoryInv(mem'[s]) /\ BenchInv(s)'
  <2>1. \A a \in benched[s] : a \in Accounts /\ account[a] = "quarantined"
    BY DEF BenchInv, TypeOK
  <2>. QED
    BY <1>1, <1>5, <2>1, BenchSame
<1>8. ASSUME NEW q \in Runs, NEW a \in Accounts PROVE RampInv(q, a)'
  <2>1. \A s \in Sessions : Holds(s, q, a)' => Holds(s, q, a) /\ mem'[s].row[a] = mem[s].row[a]
    BY <1>1 DEF Holds
  <2>2. participant'[q][a] = participant[q][a] \/ participant'[q][a].status = "done"
    BY <1>2, <1>4
  <2>. QED
    BY <1>1, <2>1, <2>2, RampSame, RampEnds
<1>. QED
  BY <1>6, <1>7, <1>8

LEMMA StartRunStep ==
  ASSUME WarmupInv, NEW r \in Runs, StartRun(r)
  PROVE  WarmupInv'
<1>. USE DEF WarmupInv
<1>. DEFINE fresh == {a \in Accounts : participant[r][a].status = "pending"}
            rows == [a \in Accounts |-> IF a \in fresh
                        THEN [participant[r][a] EXCEPT !.status = "active", !.since = 0]
                        ELSE participant[r][a]]
            ages == [a \in Accounts |-> IF a \in fresh THEN 0 ELSE ramp[r][a]]
<1>1. /\ run' = [run EXCEPT ![r] = "running"] /\ edits' = edits + 1
      /\ participant' = [participant EXCEPT ![r] = rows]
      /\ account' = [a \in Accounts |-> IF a \in fresh THEN "warming" ELSE account[a]]
      /\ ramp' = [ramp EXCEPT ![r] = ages]
      /\ orphaned' = orphaned \ fresh
      /\ benched' = [s \in Sessions |-> benched[s] \ fresh]
      /\ UNCHANGED <<pc, mem, did, excused, phase, losses>>
  BY DEF StartRun, Edit, Unbench, sessions, TypeOK
<1>2. ASSUME NEW a \in Accounts
      PROVE  /\ rows[a] \in Participants /\ ages[a] \in 0..FullRamp
             /\ a \notin fresh => rows[a] = participant[r][a] /\ ages[a] = ramp[r][a]
             /\ a \in fresh => /\ rows[a].status = "active" /\ rows[a].since = 0 /\ ages[a] = 0
                               /\ rows[a].stage = participant[r][a].stage
  <2>1. 0 \in 0..Eldest /\ 0 \in 0..FullRamp
    BY AgeTypes, FullRampType
  <2>2. participant[r][a] \in Participants /\ ramp[r][a] \in 0..FullRamp
    BY DEF TypeOK
  <2>. QED
    BY <2>1, <2>2 DEF Participants
<1>3. rows \in [Accounts -> Participants] /\ ages \in [Accounts -> 0..FullRamp]
  BY <1>2
<1>. HIDE DEF rows, ages
<1>4. /\ participant' \in [Runs -> [Accounts -> Participants]]
      /\ ramp' \in [Runs -> [Accounts -> 0..FullRamp]]
      /\ \A q \in Runs : /\ participant'[q] = IF q = r THEN rows ELSE participant[q]
                         /\ ramp'[q] = IF q = r THEN ages ELSE ramp[q]
  BY <1>1, <1>3 DEF TypeOK
<1>5. account' \in [Accounts -> AccountStates]
  BY <1>1 DEF TypeOK, AccountStates
<1>6. TypeOK'
  BY <1>1, <1>4, <1>5 DEF TypeOK
<1>7. ASSUME NEW s \in Sessions PROVE MemoryInv(mem'[s]) /\ BenchInv(s)'
  <2>1. benched'[s] \subseteq benched[s] /\ \A a \in benched'[s] : account'[a] = account[a]
    BY <1>1 DEF TypeOK
  <2>. QED
    BY <1>1, <2>1, BenchSame
<1>8. ASSUME NEW q \in Runs, NEW a \in Accounts PROVE RampInv(q, a)'
  <2>1. \A s \in Sessions : Holds(s, q, a)' => Holds(s, q, a) /\ mem'[s].row[a] = mem[s].row[a]
    BY <1>1 DEF Holds
  <2>2. CASE q = r /\ a \in fresh
    <3>1. participant[q][a].status = "pending" /\ participant[q][a].stage = 1
      BY <2>2 DEF RampInv
    <3>2. /\ participant'[q][a].status = "active" /\ participant'[q][a].since = 0
          /\ participant'[q][a].stage = 1 /\ ramp'[q][a] \in Nat
      BY <1>2, <1>4, <2>2, <3>1
    <3>. QED
      BY <2>1, <3>1, <3>2, RampBegins
  <2>3. CASE ~(q = r /\ a \in fresh)
    <3>1. participant'[q][a] = participant[q][a] /\ ramp'[q][a] = ramp[q][a]
      BY <1>2, <1>4, <2>3
    <3>. QED
      BY <2>1, <3>1, RampSame
  <2>. QED
    BY <2>2, <2>3
<1>. QED
  BY <1>6, <1>7, <1>8

LEMMA AddStep ==
  ASSUME WarmupInv, NEW r \in Runs, NEW b \in Accounts, AddParticipant(r, b)
  PROVE  WarmupInv'
<1>. USE DEF WarmupInv
<1>. DEFINE status == IF run[r] = "running" THEN "active" ELSE "pending"
            new == [NoParticipant EXCEPT !.status = status]
<1>1. /\ participant[r][b].status = "absent" /\ edits' = edits + 1
      /\ participant' = [participant EXCEPT ![r][b] = new]
      /\ did' = [did EXCEPT ![r][b] = 0]
      /\ excused' = [excused EXCEPT ![r][b] = 0]
      /\ ramp' = [ramp EXCEPT ![r][b] = 0]
      /\ UNCHANGED <<run, account, pc, mem, orphaned, benched, phase, losses>>
  BY DEF AddParticipant, Edit, sessions
<1>2. new \in Participants /\ new.status \in {"active", "pending"} /\ new.stage = 1 /\ new.since = 0
  BY NoParticipantIs
<1>. HIDE DEF new
<1>3. 0 \in 0..FullRamp
  BY FullRampType
<1>4. /\ participant' \in [Runs -> [Accounts -> Participants]]
      /\ ramp' \in [Runs -> [Accounts -> 0..FullRamp]]
      /\ did' \in [Runs -> [Accounts -> Nat]] /\ excused' \in [Runs -> [Accounts -> Nat]]
  BY <1>1, <1>2, <1>3 DEF TypeOK
<1>5. \A q \in Runs, a \in Accounts :
          /\ participant'[q][a] = IF q = r /\ a = b THEN new ELSE participant[q][a]
          /\ ramp'[q][a] = IF q = r /\ a = b THEN 0 ELSE ramp[q][a]
  BY <1>1 DEF TypeOK
<1>6. TypeOK'
  BY <1>1, <1>4 DEF TypeOK
<1>7. \A s \in Sessions : MemoryInv(mem'[s]) /\ BenchInv(s)'
  BY <1>1, BenchSame
<1>8. ASSUME NEW q \in Runs, NEW a \in Accounts PROVE RampInv(q, a)'
  <2>1. \A s \in Sessions : Holds(s, q, a)' => Holds(s, q, a) /\ mem'[s].row[a] = mem[s].row[a]
    BY <1>1 DEF Holds
  <2>2. CASE q = r /\ a = b
    BY <1>1, <1>2, <1>5, <2>1, <2>2, RampBegins
  <2>3. CASE ~(q = r /\ a = b)
    BY <1>5, <2>1, <2>3, RampSame
  <2>. QED
    BY <2>2, <2>3
<1>. QED
  BY <1>6, <1>7, <1>8

LEMMA DeletedStep ==
  ASSUME WarmupInv, NEW r \in Runs, NEW as \in SUBSET Accounts, Deleted(r, as), Edit,
         run' \in [Runs -> {"draft", "running", "paused", "done", "deleted"}]
  PROVE  WarmupInv'
<1>. USE DEF WarmupInv
<1>. DEFINE rows == [a \in Accounts |-> IF a \in as THEN NoParticipant ELSE participant[r][a]]
<1>1. /\ participant' = [participant EXCEPT ![r] = rows]
      /\ mem' = [s \in Sessions |->
            IF mem[s].run = r THEN [mem[s] EXCEPT !.gone = @ \cup as] ELSE mem[s]]
      /\ orphaned' = orphaned \cup as /\ edits' = edits + 1
      /\ UNCHANGED <<account, pc, did, excused, ramp, benched, phase, losses>>
  BY DEF Deleted, Edit, TypeOK
<1>2. \A a \in Accounts : rows[a] = IF a \in as THEN NoParticipant ELSE participant[r][a]
  OBVIOUS
<1>3. rows \in [Accounts -> Participants]
  <2>1. \A a \in Accounts : participant[r][a] \in Participants
    BY DEF TypeOK
  <2>. QED
    BY <2>1, NoParticipantIs
<1>. HIDE DEF rows
<1>4. /\ participant' \in [Runs -> [Accounts -> Participants]]
      /\ \A q \in Runs : participant'[q] = IF q = r THEN rows ELSE participant[q]
  BY <1>1, <1>3 DEF TypeOK
<1>5. ASSUME NEW s \in Sessions
      PROVE  /\ mem'[s] \in Memory
             /\ mem'[s].gone = IF mem[s].run = r THEN mem[s].gone \cup as ELSE mem[s].gone
             /\ mem'[s].run = mem[s].run /\ mem'[s].left = mem[s].left /\ mem'[s].lag = mem[s].lag
             /\ mem'[s].loaded = mem[s].loaded /\ mem'[s].row = mem[s].row
             /\ mem'[s].known = mem[s].known /\ mem'[s].lifted = mem[s].lifted
             /\ mem[s].run # r => mem'[s] = mem[s]
  <2>1. mem[s] \in Memory /\ mem'[s] = IF mem[s].run = r THEN [mem[s] EXCEPT !.gone = @ \cup as] ELSE mem[s]
    BY <1>1 DEF TypeOK
  <2>2. CASE mem[s].run = r
    <3>1. mem[s].gone \cup as \in SUBSET Accounts
      BY <2>1 DEF Memory
    <3>2. mem'[s] = [mem[s] EXCEPT !.gone = mem[s].gone \cup as]
      BY <2>1, <2>2
    <3>. QED
      BY <2>1, <2>2, <3>1, <3>2 DEF Memory
  <2>3. CASE mem[s].run # r
    BY <2>1, <2>3
  <2>. QED
    BY <2>2, <2>3
<1>6. TypeOK'
  <2>1. mem' \in [Sessions -> Memory]
    BY <1>1, <1>5
  <2>2. orphaned' \in SUBSET Accounts /\ edits' \in Nat
    <3>1. orphaned \in SUBSET Accounts /\ edits \in Nat
      BY DEF TypeOK
    <3>2. orphaned' = orphaned \cup as /\ edits' = edits + 1
      BY <1>1
    <3>3. edits' \in Nat
      BY <3>1, <3>2
    <3>4. orphaned' \in SUBSET Accounts
      BY <3>1, <3>2
    <3>. QED
      BY <3>3, <3>4
  <2>. QED
    BY <1>1, <1>4, <2>1, <2>2 DEF TypeOK
<1>7. ASSUME NEW s \in Sessions PROVE MemoryInv(mem'[s]) /\ BenchInv(s)'
  <2>1. MemoryInv(mem'[s])
    <3>1. MemoryInv(mem[s])
      OBVIOUS
    <3>2. /\ mem'[s].run = mem[s].run /\ mem'[s].left = mem[s].left /\ mem'[s].lag = mem[s].lag
          /\ mem'[s].loaded = mem[s].loaded /\ mem'[s].row = mem[s].row
      BY <1>5
    <3>. QED
      BY <3>1, <3>2 DEF MemoryInv
  <2>2. pc[s] = "idle" => mem'[s] = Forgotten
    <3>. SUFFICES ASSUME pc[s] = "idle" PROVE mem'[s] = Forgotten
      OBVIOUS
    <3>1. mem[s] = Forgotten
      BY DEF BenchInv
    <3>2. mem[s].run # r
      BY <3>1, ForgottenIs, WarmupAssumption
    <3>. QED
      BY <1>5, <3>1, <3>2
  <2>. QED
    BY <1>1, <1>5, <2>1, <2>2 DEF BenchInv
<1>8. ASSUME NEW q \in Runs, NEW a \in Accounts PROVE RampInv(q, a)'
  <2>1. \A s \in Sessions : Holds(s, q, a)' => Holds(s, q, a) /\ mem'[s].row[a] = mem[s].row[a]
    BY <1>5 DEF Holds
  <2>2. CASE q = r /\ a \in as
    <3>1. \A s \in Sessions : ~Holds(s, q, a)'
      BY <1>5, <2>2 DEF Holds
    <3>2. participant'[q][a] = NoParticipant
      BY <1>2, <1>4, <2>2
    <3>. QED
      BY <3>1, <3>2, NoParticipantIs DEF RampInv, SessionClimb
  <2>3. CASE ~(q = r /\ a \in as)
    <3>1. participant'[q][a] = participant[q][a]
      BY <1>2, <1>4, <2>3
    <3>2. ramp'[q][a] = ramp[q][a] /\ RampInv(q, a)
      BY <1>1
    <3>. QED
      BY <2>1, <3>1, <3>2, RampSame
  <2>. QED
    BY <2>2, <2>3
<1>. QED
  BY <1>6, <1>7, <1>8

LEMMA ManagerStep ==
  ASSUME WarmupInv, Manager
  PROVE  WarmupInv'
<1>1. ASSUME NEW r \in Runs, NEW a \in Accounts, RemoveParticipant(r, a) PROVE WarmupInv'
  <2>1. Deleted(r, {a}) /\ Edit /\ run' = run /\ {a} \in SUBSET Accounts
    BY <1>1 DEF RemoveParticipant
  <2>2. run' \in [Runs -> {"draft", "running", "paused", "done", "deleted"}]
    BY <2>1 DEF WarmupInv, TypeOK
  <2>. QED
    BY <2>1, <2>2, DeletedStep
<1>2. ASSUME NEW r \in Runs, DeleteRun(r) PROVE WarmupInv'
  <2>1. Deleted(r, Accounts) /\ Edit /\ run' = [run EXCEPT ![r] = "deleted"]
    BY <1>2 DEF DeleteRun
  <2>2. run' \in [Runs -> {"draft", "running", "paused", "done", "deleted"}]
    BY <2>1 DEF WarmupInv, TypeOK
  <2>. QED
    BY <2>1, <2>2, DeletedStep
<1>. QED
  BY <1>1, <1>2, StartRunStep, PauseStep, StopRunStep, AddStep, SetAccountStep DEF Manager

-----------------------------------------------------------------------------
(* The steps of a tick.                                                     *)

\* A memory other than that of one session is as it was.
LEMMA OneMemory ==
  ASSUME TypeOK, NEW s \in Sessions, NEW m \in Memory, mem' = [mem EXCEPT ![s] = m]
  PROVE  /\ mem' \in [Sessions -> Memory] /\ mem'[s] = m
         /\ \A q \in Sessions : q # s => mem'[q] = mem[q]
  BY DEF TypeOK

LEMMA BeginStep ==
  ASSUME WarmupInv, NEW s \in Sessions, NEW todo \in SUBSET Runs, pc[s] = "idle",
         pc' = [pc EXCEPT ![s] = "pick"], mem' = [mem EXCEPT ![s].todo = todo], Watch(s),
         UNCHANGED <<database, phase, did, excused, ramp, orphaned, bounds>>
  PROVE  WarmupInv'
<1>. USE DEF WarmupInv
<1>. DEFINE m == [Forgotten EXCEPT !.todo = todo]
<1>1. UNCHANGED <<run, participant, account, phase, did, excused, ramp, orphaned, edits, losses>>
  BY DEF database, bounds
<1>2. mem[s] = Forgotten
  BY DEF BenchInv
<1>3. /\ m \in Memory /\ m.run = NoRun /\ m.left = {} /\ m.lifted = {} /\ m.lag = Forgotten.lag
      /\ m.loaded = Nobody /\ m.row = Nobody /\ \A a \in Accounts : m.known[a] = "unread"
  BY ForgottenIs DEF Memory
<1>4. mem' = [mem EXCEPT ![s] = m]
  BY <1>2
<1>. HIDE DEF m
<1>5. /\ mem' \in [Sessions -> Memory] /\ mem'[s] = m
      /\ \A q \in Sessions : q # s => mem'[q] = mem[q]
  BY <1>3, <1>4, OneMemory
<1>6. benched' = [benched EXCEPT ![s] = {a \in Accounts : account[a] = "quarantined"}]
  BY DEF Watch
<1>7. benched' \in [Sessions -> SUBSET Accounts] /\ pc' \in [Sessions -> {"idle", "pick", "tick"}]
      /\ pc'[s] = "pick" /\ benched'[s] = {a \in Accounts : account[a] = "quarantined"}
      /\ \A q \in Sessions : q # s => pc'[q] = pc[q] /\ benched'[q] = benched[q]
  BY <1>6 DEF TypeOK
<1>8. TypeOK'
  BY <1>1, <1>5, <1>7 DEF TypeOK
<1>9. MemoryInv(m)
  BY <1>3, NoParticipantIs DEF MemoryInv, Nobody
<1>10. BenchInv(s)'
  BY <1>1, <1>3, <1>5, <1>7 DEF BenchInv
<1>11. \A q \in Sessions : MemoryInv(mem'[q]) /\ BenchInv(q)'
  BY <1>1, <1>5, <1>7, <1>9, <1>10, BenchSame
<1>12. ASSUME NEW r \in Runs, NEW a \in Accounts PROVE RampInv(r, a)'
  <2>1. ~Holds(s, r, a)'
    <3>1. Nobody[a] = NoParticipant
      BY DEF Nobody
    <3>2. mem'[s].loaded[a] = NoParticipant
      BY <1>3, <1>5, <3>1
    <3>. QED
      BY <3>2, NoParticipantIs DEF Holds
  <2>2. \A q \in Sessions : Holds(q, r, a)' => Holds(q, r, a) /\ mem'[q].row[a] = mem[q].row[a]
    BY <1>5, <2>1 DEF Holds
  <2>. QED
    BY <1>1, <2>2, RampSame
<1>. QED
  BY <1>8, <1>11, <1>12

\* What is read is no further than the participation is old.
LEMMA LoadStep ==
  ASSUME WarmupInv, NEW s \in Sessions, NEW r \in Runs, Load(s, r)
  PROVE  WarmupInv'
<1>. USE DEF WarmupInv
<1>. DEFINE active == {a \in Accounts : participant[r][a].status = "active"}
            rows == [a \in Accounts |-> IF a \in active THEN participant[r][a] ELSE Nobody[a]]
            known == [a \in Accounts |-> IF a \in active /\ mem[s].known[a] = "unread"
                                         THEN account[a] ELSE mem[s].known[a]]
            m == [Forgotten EXCEPT !.run = r, !.todo = mem[s].todo \ {r}, !.left = active,
                     !.loaded = rows, !.row = rows, !.known = known]
<1>1. /\ pc[s] = "pick" /\ pc' = [pc EXCEPT ![s] = "tick"]
      /\ UNCHANGED <<run, participant, account, phase, did, excused, ramp, orphaned, benched, edits, losses>>
  BY DEF Load, database, ghosts, bounds
<1>2. mem' = [mem EXCEPT ![s] = m]
  <2>1. Forgotten.loaded = Nobody /\ Forgotten.row = Nobody
    BY ForgottenIs
  <2>2. mem' = [mem EXCEPT ![s] =
          [Forgotten EXCEPT !.run = r, !.todo = mem[s].todo \ {r}, !.left = active,
              !.loaded = [a \in Accounts |-> IF a \in active THEN participant[r][a] ELSE Forgotten.loaded[a]],
              !.row = [a \in Accounts |-> IF a \in active THEN participant[r][a] ELSE Forgotten.row[a]],
              !.known = known]]
    BY DEF Load, Forgotten
  <2>. QED
    BY <2>1, <2>2
<1>3. mem[s] \in Memory /\ mem[s].todo \in SUBSET Runs
      /\ mem[s].known \in [Accounts -> AccountStates \cup {"unread"}]
      /\ \A a \in Accounts : participant[r][a] \in Participants /\ account[a] \in AccountStates
  BY DEF TypeOK, Memory
<1>4. active \in SUBSET Accounts
      /\ \A a \in Accounts : /\ a \in active <=> participant[r][a].status = "active"
                             /\ rows[a] = IF a \in active THEN participant[r][a] ELSE NoParticipant
                             /\ known[a] \in {account[a], mem[s].known[a]}
  BY DEF Nobody
<1>5. rows \in [Accounts -> Participants] /\ known \in [Accounts -> AccountStates \cup {"unread"}]
  <2>1. \A a \in Accounts : Nobody[a] \in Participants
    BY NoParticipantIs
  <2>. QED
    BY <1>3, <2>1
<1>. HIDE DEF active, rows, known
<1>6. /\ m \in Memory /\ m.run = r /\ m.left = active /\ m.loaded = rows /\ m.row = rows
      /\ m.known = known /\ m.lifted = {}
  <2>1. mem[s].todo \ {r} \in SUBSET Runs /\ r \in Runs \cup {NoRun}
    BY <1>3
  <2>. QED
    BY <1>4, <1>5, <2>1, ForgottenIs DEF Memory
<1>. HIDE DEF m
<1>7. /\ mem' \in [Sessions -> Memory] /\ mem'[s] = m
      /\ \A q \in Sessions : q # s => mem'[q] = mem[q]
  BY <1>2, <1>6, OneMemory
<1>8. pc' \in [Sessions -> {"idle", "pick", "tick"}] /\ pc'[s] = "tick"
      /\ \A q \in Sessions : q # s => pc'[q] = pc[q]
  BY <1>1 DEF TypeOK
<1>9. TypeOK'
  BY <1>1, <1>7, <1>8 DEF TypeOK
<1>10. MemoryInv(m)
  BY <1>4, <1>6, NoParticipantIs DEF MemoryInv
<1>11. BenchInv(s)'
  <2>1. \A a \in benched[s] : /\ a \in Accounts /\ account[a] = "quarantined"
                              /\ mem[s].known[a] \in {"unread", "quarantined"}
    BY DEF BenchInv, TypeOK
  <2>2. \A a \in benched[s] : known[a] \in {"unread", "quarantined"}
    BY <1>4, <2>1
  <2>. QED
    BY <1>1, <1>6, <1>7, <1>8, <2>1, <2>2 DEF BenchInv
<1>12. \A q \in Sessions : MemoryInv(mem'[q]) /\ BenchInv(q)'
  BY <1>1, <1>7, <1>8, <1>10, <1>11, BenchSame
<1>13. ASSUME NEW q \in Runs, NEW a \in Accounts PROVE RampInv(q, a)'
  <2>1. RampInv(q, a)
    OBVIOUS
  <2>2. ASSUME NEW t \in Sessions, t # s PROVE SessionClimb(t, q, a)'
    BY <1>1, <1>7, <2>1, <2>2 DEF RampInv, SessionClimb, Holds
  <2>3. SessionClimb(s, q, a)'
    <3>. SUFFICES ASSUME Holds(s, q, a)' PROVE SessionClimb(s, q, a)'
      BY DEF SessionClimb
    <3>1. m.run = q /\ m.loaded[a].status = "active"
      BY <1>7 DEF Holds
    <3>2. q = r /\ a \in active /\ m.row[a] = participant[q][a] /\ participant[q][a].status = "active"
      BY <1>4, <1>6, <3>1, NoParticipantIs
    <3>3. Climbed(ramp[q][a], participant[q][a])
      BY <2>1, <3>2 DEF RampInv
    <3>. QED
      BY <1>1, <1>7, <3>2, <3>3 DEF SessionClimb
  <2>. QED
    BY <1>1, <2>1, <2>2, <2>3 DEF RampInv
<1>. QED
  BY <1>9, <1>12, <1>13

LEMMA GapIsPositive ==
  ASSUME NEW x \in Nat, NEW y \in Nat, NEW z \in Nat \ {0}, x - y >= z
  PROVE  x > y
  OBVIOUS

\* Who moves on to the next stage is no further than before, and who has been in the last
\* one for all its days has been through all of them.
LEMMA ClimbMoves ==
  ASSUME NEW m \in Memory, NEW o \in Participants, NEW p \in Participants,
         NEW n \in 0..FullRamp, Moved(m, o, p), Climbed(n, o)
  PROVE  Climbed(n, p)
<1>1. /\ o.stage \in 1..LastStage /\ p.stage \in 1..LastStage /\ o.since \in Nat /\ m.lag \in Nat
      /\ FullRamp \in Nat
  BY StageTypes, AgeTypes, FullRampType DEF Memory, Participants
<1>2. CASE p.stage = o.stage
  BY <1>2 DEF Climbed, Moved
<1>3. CASE p.stage # o.stage
  <2>1. p.stage = o.stage + 1 /\ p.since = m.lag /\ o.since - m.lag >= Period(o.stage)
    BY <1>3 DEF Moved
  <2>2. Before(p.stage) = Before(o.stage) + Period(o.stage)
    BY <1>1, <2>1, BeforeIs
  <2>3. Before(o.stage) \in Nat /\ Period(o.stage) \in Nat
    BY <1>1, BeforeIs, StageTypes
  <2>. QED
    BY <1>1, <2>1, <2>2, <2>3 DEF Climbed
<1>. QED
  BY <1>2, <1>3

LEMMA ClimbEnds ==
  ASSUME NEW p \in Participants, NEW n \in 0..FullRamp, NEW lag \in Nat, Climbed(n, p),
         p.stage = LastStage, p.since - lag >= Period(LastStage)
  PROVE  n = FullRamp
<1>1. /\ Before(LastStage) \in Nat /\ Period(LastStage) \in Nat /\ FullRamp \in Nat
      /\ Before(LastStage) + Period(LastStage) = FullRamp
  BY BeforeIs, StageTypes, FullRampType
<1>2. p.since \in Nat
  BY AgeTypes DEF Participants
<1>3. n = FullRamp \/ n >= Before(LastStage) + p.since
  BY DEF Climbed
<1>. QED
  BY <1>1, <1>2, <1>3

\* A participant is handled: it stays, moves on to the next stage or graduates.
LEMMA HandledStep ==
  ASSUME WarmupInv, NEW s \in Sessions, NEW b \in mem[s].left, NEW p \in Participants,
         NEW m \in Memory, mem' = [mem EXCEPT ![s] = m],
         m.run = mem[s].run, m.lag = mem[s].lag, m.loaded = mem[s].loaded, m.gone = mem[s].gone,
         m.left = mem[s].left \ {b}, m.row = [mem[s].row EXCEPT ![b] = p],
         \A a \in Accounts : m.known[a] # mem[s].known[a] \/ a \in m.lifted =>
                                a \in mem[s].lifted \/ mem[s].known[a] = "warming",
         UNCHANGED <<run, participant, account, pc, phase, ramp, orphaned, benched, edits>>,
         did' \in [Runs -> [Accounts -> Nat]], excused' \in [Runs -> [Accounts -> Nat]],
         losses' \in Nat,
         p.status \in {"active", "done"},
         Moved(mem[s], mem[s].row[b], p),
         p.status = "done" =>
             /\ p.stage = mem[s].row[b].stage /\ p.stage = LastStage
             /\ p.since - mem[s].lag >= Period(LastStage)
  PROVE  WarmupInv'
<1>. USE DEF WarmupInv
<1>1. /\ mem[s] \in Memory /\ MemoryInv(mem[s]) /\ b \in Accounts
      /\ mem[s].row \in [Accounts -> Participants] /\ mem[s].loaded \in [Accounts -> Participants]
  BY DEF TypeOK, Memory
<1>2. /\ mem' \in [Sessions -> Memory] /\ mem'[s] = m
      /\ \A q \in Sessions : q # s => mem'[q] = mem[q]
  BY OneMemory
<1>3. TypeOK'
  BY <1>2 DEF TypeOK
<1>4. \A a \in Accounts : m.row[a] = IF a = b THEN p ELSE mem[s].row[a]
  BY <1>1
<1>5. /\ mem[s].loaded[b].status = "active" /\ mem[s].row[b] = mem[s].loaded[b]
      /\ mem[s].run \in Runs
  BY <1>1 DEF MemoryInv
<1>. DEFINE o == mem[s].row[b]
            lag == mem[s].lag
<1>6. /\ o \in Participants /\ o.stage \in 1..LastStage /\ o.since \in Nat /\ lag \in Nat
      /\ p.stage \in 1..LastStage /\ p.since \in Nat /\ LastStage \in Nat
      /\ Period(o.stage) \in Nat \ {0} /\ Before(o.stage) \in Nat /\ Before(p.stage) \in Nat
  BY <1>1, StageTypes, AgeTypes, BeforeIs DEF Memory, Participants
<1>. HIDE DEF o, lag
<1>7. IF p.stage = o.stage THEN p.since = o.since
      ELSE p.stage = o.stage + 1 /\ p.since = lag /\ o.since - lag >= Period(o.stage)
  BY DEF Moved, o, lag
<1>8. MemoryInv(m)
  <2>1. m.left # {} => m.run \in Runs
    BY <1>5
  <2>2. ASSUME NEW a \in Accounts, a # b
        PROVE  /\ m.loaded[a].status \in {"absent", "active"}
               /\ m.row[a].status \in {m.loaded[a].status, "done"}
               /\ a \in m.left => m.loaded[a].status = "active" /\ m.row[a] = m.loaded[a]
               /\ m.loaded[a].status = "absent" => m.row[a] = m.loaded[a]
               /\ IF m.row[a].stage = m.loaded[a].stage THEN m.row[a].since = m.loaded[a].since
                  ELSE m.row[a].since = m.lag /\ m.loaded[a].since > m.lag
    <3>1. m.row[a] = mem[s].row[a] /\ m.loaded[a] = mem[s].loaded[a] /\ (a \in m.left <=> a \in mem[s].left)
      BY <1>4, <2>2
    <3>. QED
      BY <1>1, <3>1 DEF MemoryInv
  <2>3. /\ m.loaded[b].status = "active" /\ m.row[b].status \in {"active", "done"} /\ b \notin m.left
        /\ IF m.row[b].stage = m.loaded[b].stage THEN m.row[b].since = m.loaded[b].since
           ELSE m.row[b].since = m.lag /\ m.loaded[b].since > m.lag
    <3>1. m.row[b] = p /\ m.loaded[b] = o
      BY <1>1, <1>4, <1>5 DEF o
    <3>2. p.stage # o.stage => o.since > lag
      <4>. SUFFICES ASSUME p.stage # o.stage PROVE o.since > lag
        OBVIOUS
      <4>1. o.since - lag >= Period(o.stage)
        BY <1>7
      <4>2. o.since \in Nat /\ lag \in Nat /\ Period(o.stage) \in Nat \ {0}
        BY <1>6
      <4>. QED
        BY <4>1, <4>2, GapIsPositive
    <3>. QED
      BY <1>5, <1>7, <3>1, <3>2 DEF o, lag
  <2>. QED
    BY <2>1, <2>2, <2>3 DEF MemoryInv
<1>9. BenchInv(s)'
  <2>1. pc[s] # "idle"
    BY ForgottenIs DEF BenchInv
  <2>2. \A a \in benched[s] : /\ a \in Accounts /\ account[a] = "quarantined"
                              /\ mem[s].known[a] \in {"unread", "quarantined"}
                              /\ a \notin mem[s].lifted
    BY DEF BenchInv, TypeOK
  <2>3. \A a \in benched[s] : m.known[a] = mem[s].known[a] /\ a \notin m.lifted
    BY <2>2
  <2>. QED
    BY <1>2, <2>1, <2>2, <2>3 DEF BenchInv
<1>10. \A q \in Sessions : MemoryInv(mem'[q]) /\ BenchInv(q)'
  BY <1>2, <1>8, <1>9, BenchSame
<1>11. ASSUME NEW r \in Runs, NEW a \in Accounts PROVE RampInv(r, a)'
  <2>1. RampInv(r, a)
    OBVIOUS
  <2>2. ASSUME NEW q \in Sessions, q # s PROVE SessionClimb(q, r, a)'
    BY <1>2, <2>1, <2>2 DEF RampInv, SessionClimb, Holds
  <2>3. SessionClimb(s, r, a)'
    <3>. SUFFICES ASSUME Holds(s, r, a)' PROVE SessionClimb(s, r, a)'
      BY DEF SessionClimb
    <3>1. Holds(s, r, a)
      BY <1>2 DEF Holds
    <3>2. CASE a # b
      <4>1. mem'[s].row[a] = mem[s].row[a]
        BY <1>2, <1>4, <3>2
      <4>2. SessionClimb(s, r, a)
        BY <2>1 DEF RampInv
      <4>. QED
        BY <3>1, <4>1, <4>2 DEF SessionClimb
    <3>3. CASE a = b
      <4>1. /\ participant[r][a].status \in {"active", "done"}
            /\ participant[r][a].status = "active" => Climbed(ramp[r][a], o)
        BY <2>1, <3>1, <3>3 DEF RampInv, SessionClimb, o
      <4>2. ASSUME participant[r][a].status = "active"
            PROVE  Climbed(ramp[r][a], p) /\ (p.status = "done" => ramp[r][a] = FullRamp)
        <5>1. Climbed(ramp[r][a], o) /\ ramp[r][a] \in 0..FullRamp
          BY <4>1, <4>2 DEF TypeOK
        <5>2. Climbed(ramp[r][a], p)
          BY <1>1, <1>6, <5>1, ClimbMoves DEF o
        <5>. QED
          BY <1>6, <5>1, <5>2, ClimbEnds DEF lag
      <4>3. mem'[s].row[a] = p
        BY <1>2, <1>4, <3>3
      <4>. QED
        BY <4>1, <4>2, <4>3 DEF SessionClimb
    <3>. QED
      BY <3>2, <3>3
  <2>. QED
    BY <2>1, <2>2, <2>3 DEF RampInv
<1>. QED
  BY <1>3, <1>10, <1>11

LEMMA GraduateStep ==
  ASSUME WarmupInv, NEW s \in Sessions, NEW b \in Accounts, Graduate(s, b)
  PROVE  WarmupInv'
<1>. USE DEF WarmupInv
<1>. DEFINE m == mem[s]
            p == Today(m, m.row[b])
            q == [p EXCEPT !.status = "done"]
            known == [m.known EXCEPT ![b] = IF b \in Lifted(m, b) THEN "active" ELSE @]
            n == [Handled(m, b, q) EXCEPT !.lifted = Lifted(m, b), !.known = known]
<1>1. m \in Memory /\ MemoryInv(m) /\ m.row[b] \in Participants
  BY DEF TypeOK, Memory
<1>2. /\ b \in m.left /\ Graduates(m, p)
      /\ UNCHANGED <<run, participant, account, pc, phase, did, excused, ramp, orphaned, benched, edits, losses>>
  BY DEF Graduate, database, ghosts, bounds
<1>3. p \in Participants /\ p.stage = m.row[b].stage /\ p.since = m.row[b].since
  BY <1>1, TodayIs
<1>4. q \in Participants /\ q.status = "done" /\ q.stage = p.stage /\ q.since = p.since
  BY <1>3 DEF Participants
<1>5. p.stage = LastStage /\ p.since - m.lag >= Period(LastStage)
  BY <1>2 DEF Graduates, IsOver
<1>7. /\ Lifted(m, b) \in SUBSET Accounts
      /\ known \in [Accounts -> AccountStates \cup {"unread"}]
      /\ \A a \in Accounts : a \in Lifted(m, b) => a \in m.lifted \/ m.known[a] = "warming"
  BY <1>1 DEF Lifted, Memory, AccountStates
<1>8. mem' = [mem EXCEPT ![s] = n]
  BY <1>1 DEF Graduate, Handled, Memory
<1>9. m.left \ {b} \in SUBSET Accounts /\ [m.row EXCEPT ![b] = q] \in [Accounts -> Participants]
  BY <1>1, <1>4 DEF Memory
<1>10. n = [m EXCEPT !.left = m.left \ {b}, !.row = [m.row EXCEPT ![b] = q],
                     !.lifted = Lifted(m, b), !.known = known]
  BY <1>1 DEF Handled, Memory
<1>. HIDE DEF p, q, known, n
<1>11. /\ n \in Memory /\ n.run = m.run /\ n.lag = m.lag /\ n.loaded = m.loaded /\ n.gone = m.gone
       /\ n.left = m.left \ {b} /\ n.row = [m.row EXCEPT ![b] = q]
       /\ n.lifted = Lifted(m, b) /\ n.known = known
  BY <1>1, <1>7, <1>9, <1>10 DEF Memory
<1>12. mem' = [mem EXCEPT ![s] = n] /\ q.status \in {"active", "done"}
  BY <1>4, <1>8
<1>13. Moved(m, m.row[b], q)
  BY <1>3, <1>4 DEF Moved
<1>14. \A a \in Accounts : n.known[a] # m.known[a] \/ a \in n.lifted => a \in m.lifted \/ m.known[a] = "warming"
  <2>1. \A a \in Accounts : known[a] # m.known[a] => a = b /\ b \in Lifted(m, b)
    BY <1>1 DEF known, Memory
  <2>. QED
    BY <1>7, <1>11, <2>1
<1>15. did' \in [Runs -> [Accounts -> Nat]] /\ excused' \in [Runs -> [Accounts -> Nat]] /\ losses' \in Nat
  BY <1>2 DEF TypeOK
<1>. HIDE DEF m, WarmupInv
<1>16. b \in mem[s].left /\ q.status \in {"active", "done"}
  BY <1>2, <1>12 DEF m
<1>17. \A a \in Accounts : n.known[a] # mem[s].known[a] \/ a \in n.lifted =>
                             a \in mem[s].lifted \/ mem[s].known[a] = "warming"
  BY <1>14 DEF m
<1>18. /\ n.run = mem[s].run /\ n.lag = mem[s].lag /\ n.loaded = mem[s].loaded /\ n.gone = mem[s].gone
       /\ n.left = mem[s].left \ {b} /\ n.row = [mem[s].row EXCEPT ![b] = q]
       /\ Moved(mem[s], mem[s].row[b], q) /\ n \in Memory /\ q \in Participants
  BY <1>4, <1>11, <1>13 DEF m
<1>19. q.stage = mem[s].row[b].stage /\ q.stage = LastStage /\ q.since - mem[s].lag >= Period(LastStage)
  BY <1>3, <1>4, <1>5 DEF m
<1>. QED
  BY <1>2, <1>12, <1>15, <1>16, <1>17, <1>18, <1>19, HandledStep

LEMMA SkipStep ==
  ASSUME WarmupInv, NEW s \in Sessions, NEW b \in Accounts, Skip(s, b)
  PROVE  WarmupInv'
<1>. USE DEF WarmupInv
<1>. DEFINE m == mem[s]
            p == Today(m, m.row[b])
            q == Advanced(m, p)
            n == Handled(m, b, q)
<1>1. m \in Memory /\ MemoryInv(m) /\ m.row[b] \in Participants /\ m.loaded[b] \in Participants
  BY DEF TypeOK, Memory
<1>2. /\ b \in m.left /\ ~Graduates(m, p) /\ mem' = [mem EXCEPT ![s] = n]
      /\ UNCHANGED <<run, participant, account, pc, phase, did, excused, ramp, orphaned, benched, edits, losses>>
  BY DEF Skip, database, ghosts, bounds
<1>3. q \in Participants /\ q.status = m.row[b].status /\ Moved(m, m.row[b], q)
  <2>1. p \in Participants /\ p.status = m.row[b].status
        /\ p.stage = m.row[b].stage /\ p.since = m.row[b].since
    BY <1>1, TodayIs
  <2>2. q \in Participants /\ q.status = p.status /\ Moved(m, p, q)
    BY <1>1, <1>2, <2>1, AdvancedIs
  <2>. QED
    BY <2>1, <2>2 DEF Moved
<1>4. q.status = "active"
  BY <1>1, <1>2, <1>3 DEF MemoryInv
<1>5. m.left \ {b} \in SUBSET Accounts /\ [m.row EXCEPT ![b] = q] \in [Accounts -> Participants]
  BY <1>1, <1>3 DEF Memory
<1>6. n = [m EXCEPT !.left = m.left \ {b}, !.row = [m.row EXCEPT ![b] = q]]
  BY <1>1 DEF Handled, Memory
<1>. HIDE DEF p, q, n
<1>7. /\ n \in Memory /\ n.run = m.run /\ n.lag = m.lag /\ n.loaded = m.loaded /\ n.gone = m.gone
      /\ n.left = m.left \ {b} /\ n.row = [m.row EXCEPT ![b] = q]
      /\ n.lifted = m.lifted /\ n.known = m.known
  BY <1>1, <1>5, <1>6 DEF Memory
<1>8. did' \in [Runs -> [Accounts -> Nat]] /\ excused' \in [Runs -> [Accounts -> Nat]] /\ losses' \in Nat
  BY <1>2 DEF TypeOK
<1>. HIDE DEF m, WarmupInv
<1>9. b \in mem[s].left /\ q.status \in {"active", "done"} /\ q.status # "done"
  BY <1>2, <1>4 DEF m
<1>10. \A a \in Accounts : n.known[a] # mem[s].known[a] \/ a \in n.lifted =>
                             a \in mem[s].lifted \/ mem[s].known[a] = "warming"
  BY <1>7 DEF m
<1>11. /\ n.run = mem[s].run /\ n.lag = mem[s].lag /\ n.loaded = mem[s].loaded /\ n.gone = mem[s].gone
       /\ n.left = mem[s].left \ {b} /\ n.row = [mem[s].row EXCEPT ![b] = q]
       /\ Moved(mem[s], mem[s].row[b], q) /\ n \in Memory /\ q \in Participants
  BY <1>3, <1>7 DEF m
<1>. QED
  BY <1>2, <1>8, <1>9, <1>10, <1>11, HandledStep

LEMMA ActStep ==
  ASSUME WarmupInv, NEW s \in Sessions, NEW b \in Accounts, NEW outcome \in Outcomes, Act(s, b, outcome)
  PROVE  WarmupInv'
<1>. USE DEF WarmupInv
<1>. DEFINE m == mem[s]
            p == Today(m, m.row[b])
            o == Advanced(m, p)
            q == IF outcome = "done" THEN Acted(m, o) ELSE o
            n == [m EXCEPT !.left = m.left \ {b}, !.row = [m.row EXCEPT ![b] = q],
                           !.acted = IF outcome = "done" THEN @ \cup {b} ELSE @]
            counts == m.day = 0 /\ b \notin m.gone /\ outcome # "refused"
<1>1. m \in Memory /\ MemoryInv(m) /\ m.row[b] \in Participants /\ m.loaded[b] \in Participants
  BY DEF TypeOK, Memory
<1>2. /\ b \in m.left /\ ~Graduates(m, p)
      /\ losses' = IF outcome = "late" THEN losses + 1 ELSE losses
      /\ mem' = [mem EXCEPT ![s] =
            IF outcome = "done" THEN [Handled(m, b, Acted(m, o)) EXCEPT !.acted = @ \cup {b}]
            ELSE Handled(m, b, o)]
      /\ did' = [did EXCEPT ![m.run][b] = IF counts THEN @ + 1 ELSE @]
      /\ excused' = [excused EXCEPT ![m.run][b] = IF counts /\ outcome = "late" THEN @ + 1 ELSE @]
      /\ UNCHANGED <<run, participant, account, pc, phase, ramp, orphaned, benched, edits>>
  BY DEF Act, database
<1>3. o \in Participants /\ o.status = m.row[b].status /\ Moved(m, m.row[b], o)
  <2>1. p \in Participants /\ p.status = m.row[b].status
        /\ p.stage = m.row[b].stage /\ p.since = m.row[b].since
    BY <1>1, TodayIs
  <2>2. o \in Participants /\ o.status = p.status /\ Moved(m, p, o)
    BY <1>1, <1>2, <2>1, AdvancedIs
  <2>. QED
    BY <2>1, <2>2 DEF Moved
<1>4. o.status = "active" /\ m.run \in Runs
  BY <1>1, <1>2, <1>3 DEF MemoryInv
<1>. HIDE DEF o, p
<1>5. q \in Participants /\ q.status = "active" /\ Moved(m, m.row[b], q)
  <2>1. q.status = o.status /\ q.stage = o.stage /\ q.since = o.since /\ q \in Participants
    BY <1>1, <1>3, ActedIs
  <2>. QED
    BY <1>3, <1>4, <2>1 DEF Moved
<1>6. m.left \ {b} \in SUBSET Accounts /\ [m.row EXCEPT ![b] = q] \in [Accounts -> Participants]
      /\ m.acted \cup {b} \in SUBSET Accounts
  BY <1>1, <1>5 DEF Memory
<1>7. mem' = [mem EXCEPT ![s] = n]
  <2>1. CASE outcome = "done"
    BY <1>1, <1>2, <2>1 DEF Handled, Memory
  <2>2. CASE outcome # "done"
    BY <1>1, <1>2, <2>2 DEF Handled, Memory
  <2>. QED
    BY <2>1, <2>2
<1>. HIDE DEF q
<1>8. /\ n \in Memory /\ n.run = m.run /\ n.lag = m.lag /\ n.loaded = m.loaded /\ n.gone = m.gone
      /\ n.left = m.left \ {b} /\ n.row = [m.row EXCEPT ![b] = q]
      /\ n.lifted = m.lifted /\ n.known = m.known
  BY <1>1, <1>6 DEF Memory
<1>. HIDE DEF n
<1>9. did' \in [Runs -> [Accounts -> Nat]] /\ excused' \in [Runs -> [Accounts -> Nat]] /\ losses' \in Nat
  BY <1>2, <1>4 DEF TypeOK
<1>. HIDE DEF counts, m, WarmupInv
<1>10. b \in mem[s].left /\ q.status \in {"active", "done"} /\ q.status # "done"
  BY <1>2, <1>5 DEF m
<1>11. \A a \in Accounts : n.known[a] # mem[s].known[a] \/ a \in n.lifted =>
                             a \in mem[s].lifted \/ mem[s].known[a] = "warming"
  BY <1>8 DEF m
<1>12. /\ n.run = mem[s].run /\ n.lag = mem[s].lag /\ n.loaded = mem[s].loaded /\ n.gone = mem[s].gone
       /\ n.left = mem[s].left \ {b} /\ n.row = [mem[s].row EXCEPT ![b] = q]
       /\ Moved(mem[s], mem[s].row[b], q) /\ n \in Memory /\ q \in Participants
  BY <1>5, <1>8 DEF m
<1>13. UNCHANGED <<run, participant, account, pc, phase, ramp, orphaned, benched, edits>>
  BY <1>2
<1>. QED
  BY <1>7, <1>9, <1>10, <1>11, <1>12, <1>13, HandledStep

-----------------------------------------------------------------------------
(* The end of a tick.                                                       *)

LEMMA EndTurnIs ==
  ASSUME TypeOK, NEW s \in Sessions, EndTurn(s)
  PROVE  /\ pc' \in [Sessions -> {"idle", "pick", "tick"}] /\ pc'[s] # "tick"
         /\ mem' \in [Sessions -> Memory] /\ mem'[s].run = NoRun /\ MemoryInv(mem'[s])
         /\ pc'[s] = "idle" => mem'[s] = Forgotten /\ benched'[s] = {}
         /\ mem'[s].lifted = {}
         /\ \A a \in Accounts : mem'[s].known[a] \in {"unread", mem[s].known[a]}
         /\ benched' \in [Sessions -> SUBSET Accounts]
         /\ \A q \in Sessions : benched'[q] \subseteq benched[q] \ (IF q = s THEN {} ELSE mem[s].lifted)
         /\ benched'[s] \subseteq benched[s] \ mem[s].lifted
         /\ \A q \in Sessions : q # s => pc'[q] = pc[q] /\ mem'[q] = mem[q]
<1>. DEFINE m == IF mem[s].todo = {} THEN Forgotten
                 ELSE [Forgotten EXCEPT !.todo = mem[s].todo, !.known = mem[s].known]
<1>1. mem[s] \in Memory
  BY DEF TypeOK
<1>2. /\ pc' = [pc EXCEPT ![s] = IF mem[s].todo = {} THEN "idle" ELSE "pick"]
      /\ mem' = [mem EXCEPT ![s] = m]
      /\ benched' = [q \in Sessions |->
            IF q = s /\ mem[s].todo = {} THEN {} ELSE benched[q] \ mem[s].lifted]
  BY DEF EndTurn
<1>3. /\ m \in Memory /\ m.run = NoRun /\ m.left = {} /\ m.lifted = {}
      /\ m.loaded = Nobody /\ m.row = Nobody
      /\ \A a \in Accounts : m.known[a] \in {"unread", mem[s].known[a]}
      /\ mem[s].todo = {} => m = Forgotten
  <2>1. CASE mem[s].todo = {}
    BY <2>1, ForgottenIs
  <2>2. CASE mem[s].todo # {}
    BY <1>1, <2>2, ForgottenIs DEF Memory
  <2>. QED
    BY <2>1, <2>2
<1>. HIDE DEF m
<1>4. /\ mem' \in [Sessions -> Memory] /\ mem'[s] = m
      /\ \A q \in Sessions : q # s => mem'[q] = mem[q]
  BY <1>2, <1>3, OneMemory
<1>5. MemoryInv(m)
  BY <1>3, NoParticipantIs DEF MemoryInv, Nobody
<1>6. /\ pc' \in [Sessions -> {"idle", "pick", "tick"}]
      /\ pc'[s] = IF mem[s].todo = {} THEN "idle" ELSE "pick"
      /\ \A q \in Sessions : q # s => pc'[q] = pc[q]
  BY <1>2 DEF TypeOK
<1>7. /\ benched' \in [Sessions -> SUBSET Accounts]
      /\ \A q \in Sessions : benched'[q] \subseteq benched[q] \ mem[s].lifted
      /\ mem[s].todo = {} => benched'[s] = {}
  BY <1>2 DEF TypeOK
<1>. QED
  BY <1>3, <1>4, <1>5, <1>6, <1>7

\* What the commit of a tick does to a participant it has changed: it stays where it was,
\* goes where the session has taken it, or is done.
LEMMA CommitIs ==
  ASSUME WarmupInv, NEW s \in Sessions, Commit(s)
  PROVE  /\ mem[s].run \in Runs => participant' \in [Runs -> [Accounts -> Participants]]
         /\ \A r \in Runs, a \in Accounts :
               participant'[r][a] = participant[r][a] \/
               /\ Holds(s, r, a) /\ participant[r][a].status \in {"active", "done"}
               /\ participant'[r][a].status \in {participant[r][a].status, "done"}
               /\ participant[r][a].status = "active" =>
                     /\ Climbed(ramp[r][a], participant'[r][a])
                     /\ participant'[r][a].status = "done" => ramp[r][a] = FullRamp
<1>. USE DEF WarmupInv
<1>. DEFINE m == mem[s]
            rows == [a \in Accounts |-> IF a \in Changed(m) THEN Written(participant[m.run][a], m, a)
                                        ELSE participant[m.run][a]]
<1>1. m \in Memory /\ MemoryInv(m) /\ participant \in [Runs -> [Accounts -> Participants]]
  BY DEF TypeOK
<1>2. /\ Changed(m) \cap m.gone = {}
      /\ participant' = [participant EXCEPT ![m.run] = rows]
  BY DEF Commit
<1>3. ASSUME m.run \in Runs, NEW a \in Accounts
      PROVE  /\ participant[m.run][a] \in Participants
             /\ rows[a] = IF a \in Changed(m) THEN Written(participant[m.run][a], m, a)
                          ELSE participant[m.run][a]
             /\ rows[a] \in Participants
  BY <1>1, <1>3, WrittenIs
<1>4. m.run \in Runs => rows \in [Accounts -> Participants]
  BY <1>3
<1>. HIDE DEF rows
<1>5. m.run \in Runs => participant' \in [Runs -> [Accounts -> Participants]]
  BY <1>1, <1>2, <1>4
<1>6. ASSUME NEW r \in Runs, NEW a \in Accounts, participant'[r][a] # participant[r][a]
      PROVE  /\ Holds(s, r, a) /\ participant[r][a].status \in {"active", "done"}
             /\ participant'[r][a].status \in {participant[r][a].status, "done"}
             /\ participant[r][a].status = "active" =>
                   /\ Climbed(ramp[r][a], participant'[r][a])
                   /\ participant'[r][a].status = "done" => ramp[r][a] = FullRamp
  <2>1. r = m.run
    BY <1>1, <1>2, <1>6
  <2>. DEFINE stored == participant[r][a]
              new == m.row[a]
              old == m.loaded[a]
              w == Written(stored, m, a)
  <2>2. participant'[r][a] = rows[a]
    BY <1>1, <1>2, <2>1
  <2>3. a \in Changed(m) /\ participant'[r][a] = w
    BY <1>3, <1>6, <2>1, <2>2
  <2>4. new # old /\ a \notin m.gone
    BY <1>2, <2>3 DEF Changed
  <2>5. /\ old.status = "active" /\ new.status \in {"active", "done"}
        /\ IF new.stage = old.stage THEN new.since = old.since
           ELSE new.since = m.lag /\ old.since > m.lag
    BY <1>1, <2>4 DEF MemoryInv
  <2>6. Holds(s, r, a)
    BY <2>1, <2>4, <2>5 DEF Holds
  <2>7. /\ stored.status \in {"active", "done"}
        /\ stored.status = "active" =>
              /\ Climbed(ramp[r][a], new) /\ Climbed(ramp[r][a], stored)
              /\ new.status = "done" => ramp[r][a] = FullRamp
    BY <2>6 DEF RampInv, SessionClimb
  <2>8. /\ w.status = IF new.status = old.status THEN stored.status ELSE new.status
        /\ w.stage = IF new.stage = old.stage THEN stored.stage ELSE new.stage
        /\ w.since = IF new.since = old.since THEN stored.since ELSE new.since
    BY <1>1, WrittenIs
  <2>9. m.lag \in Nat
    BY <1>1, StageTypes DEF Memory
  <2>. HIDE DEF stored, new, old, w
  <2>10. (w.stage = stored.stage /\ w.since = stored.since) \/ (w.stage = new.stage /\ w.since = new.since)
    <3>1. CASE new.stage = old.stage
      BY <2>5, <2>8, <3>1
    <3>2. CASE new.stage # old.stage
      <4>1. new.since = m.lag /\ old.since > m.lag
        BY <2>5, <3>2
      <4>2. new.since # old.since
        BY <2>9, <4>1
      <4>. QED
        BY <2>8, <3>2, <4>2
    <3>. QED
      BY <3>1, <3>2
  <2>11. stored.status = "active" => Climbed(ramp[r][a], w)
    BY <2>7, <2>10 DEF Climbed
  <2>12. w.status \in {stored.status, "done"}
    BY <2>5, <2>8
  <2>13. stored.status = "active" /\ w.status = "done" => ramp[r][a] = FullRamp
    BY <2>5, <2>7, <2>8
  <2>. QED
    BY <2>3, <2>6, <2>7, <2>11, <2>12, <2>13 DEF stored
<1>. QED
  BY <1>5, <1>6

LEMMA OtherRun ==
  ASSUME NEW S, NEW f \in [Runs -> S], NEW r \in Runs \cup {NoRun}, NEW v,
         r \in Runs => v \in S
  PROVE  [f EXCEPT ![r] = v] \in [Runs -> S]
<1>1. CASE r \in Runs
  BY <1>1
<1>2. CASE r = NoRun
  <2>1. NoRun \notin Runs
    BY WarmupAssumption
  <2>. QED
    BY <1>2, <2>1
<1>. QED
  BY <1>1, <1>2

LEMMA ActedOnce ==
  ASSUME NEW S, NEW a
  PROVE  Cardinality(S \cap {a}) \in Nat
<1>1. IsFiniteSet({a}) /\ S \cap {a} \subseteq {a}
  BY FS_Singleton
<1>. QED
  BY <1>1, FS_Subset, FS_CardinalityType

LEMMA CommitStep ==
  ASSUME WarmupInv, NEW s \in Sessions, Commit(s)
  PROVE  WarmupInv'
<1>. USE DEF WarmupInv
<1>. DEFINE m == mem[s]
            excuses == [a \in Accounts |-> IF a \in Changed(m) /\ Overtaken(m, a)
                THEN excused[m.run][a] + participant[m.run][a].actions + Cardinality(m.acted \cap {a})
                ELSE excused[m.run][a]]
            rows == [a \in Accounts |-> IF a \in Changed(m) THEN Written(participant[m.run][a], m, a)
                                        ELSE participant[m.run][a]]
<1>1. /\ pc[s] = "tick" /\ EndTurn(s)
      /\ account' = [a \in Accounts |-> IF a \in m.lifted THEN "active" ELSE account[a]]
      /\ excused' = [excused EXCEPT ![m.run] = excuses]
      /\ participant' = [participant EXCEPT ![m.run] = rows]
      /\ UNCHANGED <<run, phase, did, ramp, orphaned, edits, losses>>
  BY DEF Commit, bounds
<1>2. m \in Memory /\ m.run \in Runs \cup {NoRun}
  BY DEF TypeOK, Memory
<1>3. excused' \in [Runs -> [Accounts -> Nat]]
  <2>1. ASSUME m.run \in Runs PROVE excuses \in [Accounts -> Nat]
    <3>1. ASSUME NEW a \in Accounts PROVE excuses[a] \in Nat
      <4>1. excused[m.run][a] \in Nat /\ participant[m.run][a].actions \in Nat
        BY <2>1 DEF TypeOK, Participants
      <4>2. Cardinality(m.acted \cap {a}) \in Nat
        BY ActedOnce
      <4>. QED
        BY <4>1, <4>2
    <3>. QED
      BY <3>1
  <2>. HIDE DEF excuses
  <2>2. excused \in [Runs -> [Accounts -> Nat]]
    BY DEF TypeOK
  <2>. QED
    BY <1>1, <1>2, <2>1, <2>2, OtherRun
<1>4. participant' \in [Runs -> [Accounts -> Participants]]
  <2>1. m.run \in Runs => participant' \in [Runs -> [Accounts -> Participants]]
    BY CommitIs
  <2>2. ASSUME m.run \notin Runs PROVE participant' = participant
    BY <1>1, <2>2 DEF TypeOK
  <2>. QED
    BY <2>1, <2>2 DEF TypeOK
<1>. HIDE DEF excuses, rows
<1>5. account' \in [Accounts -> AccountStates]
  BY <1>1 DEF TypeOK, AccountStates
<1>6. /\ pc' \in [Sessions -> {"idle", "pick", "tick"}] /\ pc'[s] # "tick"
      /\ mem' \in [Sessions -> Memory] /\ mem'[s].run = NoRun /\ MemoryInv(mem'[s])
      /\ pc'[s] = "idle" => mem'[s] = Forgotten /\ benched'[s] = {}
      /\ mem'[s].lifted = {}
      /\ \A a \in Accounts : mem'[s].known[a] \in {"unread", m.known[a]}
      /\ benched' \in [Sessions -> SUBSET Accounts]
      /\ \A q \in Sessions : benched'[q] \subseteq benched[q] \ (IF q = s THEN {} ELSE m.lifted)
      /\ benched'[s] \subseteq benched[s] \ m.lifted
      /\ \A q \in Sessions : q # s => pc'[q] = pc[q] /\ mem'[q] = mem[q]
  BY <1>1, EndTurnIs
<1>7. TypeOK'
  BY <1>1, <1>3, <1>4, <1>5, <1>6 DEF TypeOK
<1>8. \A q \in Sessions : /\ benched'[q] \subseteq benched[q]
                          /\ \A a \in benched'[q] : a \in Accounts /\ account'[a] = account[a]
  <2>1. \A q \in Sessions : benched'[q] \subseteq benched[q] /\ benched'[q] \cap m.lifted = {}
    BY <1>6
  <2>2. \A q \in Sessions : benched'[q] \subseteq Accounts
    BY <1>6
  <2>. QED
    BY <1>1, <2>1, <2>2
<1>9. BenchInv(s)'
  <2>1. \A a \in benched[s] : account[a] = "quarantined" /\ m.known[a] \in {"unread", "quarantined"}
    BY DEF BenchInv
  <2>2. \A a \in benched'[s] : /\ account'[a] = "quarantined"
                               /\ mem'[s].known[a] \in {"unread", "quarantined"}
    BY <1>6, <1>8, <2>1
  <2>. QED
    BY <1>6, <2>2 DEF BenchInv
<1>10. \A q \in Sessions : MemoryInv(mem'[q]) /\ BenchInv(q)'
  BY <1>6, <1>8, <1>9, BenchSame
<1>11. ASSUME NEW r \in Runs, NEW a \in Accounts PROVE RampInv(r, a)'
  <2>1. RampInv(r, a) /\ ramp'[r][a] = ramp[r][a]
    BY <1>1
  <2>2. ~Holds(s, r, a)'
    BY <1>6, WarmupAssumption DEF Holds
  <2>3. \A q \in Sessions : Holds(q, r, a)' => Holds(q, r, a) /\ mem'[q].row[a] = mem[q].row[a]
    BY <1>6, <2>2 DEF Holds
  <2>4. CASE participant'[r][a] = participant[r][a]
    BY <2>1, <2>3, <2>4, RampSame
  <2>5. CASE participant'[r][a] # participant[r][a]
    <3>1. /\ participant[r][a].status \in {"active", "done"}
          /\ participant'[r][a].status \in {participant[r][a].status, "done"}
          /\ participant[r][a].status = "active" => Climbed(ramp[r][a], participant'[r][a])
      BY <2>5, CommitIs
    <3>2. CASE participant'[r][a].status = "done"
      BY <2>1, <2>3, <3>2, RampEnds
    <3>3. CASE participant'[r][a].status # "done"
      <4>1. participant[r][a].status = "active" /\ participant'[r][a].status = "active"
        BY <3>1, <3>3
      <4>2. ASSUME NEW q \in Sessions PROVE SessionClimb(q, r, a)'
        BY <2>1, <2>3, <4>1 DEF RampInv, SessionClimb
      <4>. QED
        BY <2>1, <3>1, <4>1, <4>2 DEF RampInv
    <3>. QED
      BY <3>2, <3>3
  <2>. QED
    BY <2>4, <2>5
<1>. QED
  BY <1>7, <1>10, <1>11

\* Nothing is kept of a tick that was not committed.
LEMMA RollBackStep ==
  ASSUME WarmupInv, NEW s \in Sessions, RollBack(s), losses' \in Nat
  PROVE  WarmupInv'
<1>. USE DEF WarmupInv
<1>1. /\ pc' = [pc EXCEPT ![s] = "idle"] /\ mem' = [mem EXCEPT ![s] = Forgotten]
      /\ benched' = [benched EXCEPT ![s] = {}]
      /\ UNCHANGED <<run, participant, account, phase, did, ramp, orphaned, edits>>
  BY DEF RollBack, database
<1>2. excused' \in [Runs -> [Accounts -> Nat]]
  <2>1. excused' = [r \in Runs |-> [a \in Accounts |->
          IF r = mem[s].run /\ mem[s].day = 0 /\ a \in mem[s].acted \ mem[s].gone
          THEN excused[r][a] + 1 ELSE excused[r][a]]]
    BY DEF RollBack
  <2>2. \A r \in Runs, a \in Accounts : excused[r][a] \in Nat
    BY DEF TypeOK
  <2>. QED
    BY <2>1, <2>2
<1>3. /\ mem' \in [Sessions -> Memory] /\ mem'[s] = Forgotten
      /\ \A q \in Sessions : q # s => mem'[q] = mem[q]
  BY <1>1, ForgottenIs, OneMemory
<1>4. /\ pc' \in [Sessions -> {"idle", "pick", "tick"}]
      /\ benched' \in [Sessions -> SUBSET Accounts] /\ benched'[s] = {}
      /\ \A q \in Sessions : q # s => pc'[q] = pc[q] /\ benched'[q] = benched[q]
  BY <1>1 DEF TypeOK
<1>5. TypeOK'
  BY <1>1, <1>2, <1>3, <1>4 DEF TypeOK
<1>6. Forgotten.run = NoRun /\ Forgotten.left = {} /\ Forgotten.loaded = Nobody /\ Forgotten.row = Nobody
  BY ForgottenIs
<1>7. MemoryInv(Forgotten)
  BY <1>6, NoParticipantIs DEF MemoryInv, Nobody
<1>8. BenchInv(s)'
  BY <1>3, <1>4 DEF BenchInv
<1>9. \A q \in Sessions : MemoryInv(mem'[q]) /\ BenchInv(q)'
  BY <1>1, <1>3, <1>4, <1>7, <1>8, BenchSame
<1>10. ASSUME NEW r \in Runs, NEW a \in Accounts PROVE RampInv(r, a)'
  <2>1. ~Holds(s, r, a)'
    BY <1>3, <1>6, WarmupAssumption DEF Holds
  <2>2. \A q \in Sessions : Holds(q, r, a)' => Holds(q, r, a) /\ mem'[q].row[a] = mem[q].row[a]
    BY <1>3, <2>1 DEF Holds
  <2>. QED
    BY <1>1, <2>2, RampSame
<1>. QED
  BY <1>5, <1>9, <1>10

LEMMA WarmupNext == WarmupInv /\ [Next]_vars => WarmupInv'
<1>. SUFFICES ASSUME WarmupInv, [Next]_vars PROVE WarmupInv'
  OBVIOUS
<1>1. CASE PassTime
  BY <1>1, PassTimeStep
<1>2. CASE Manager
  BY <1>2, ManagerStep
<1>3. ASSUME NEW s \in Sessions, TickStep(s) \/ Crash(s) PROVE WarmupInv'
  <2>1. losses \in Nat
    BY DEF WarmupInv, TypeOK
  <2>2. CASE CommitFails(s)
    BY <2>1, <2>2, RollBackStep DEF CommitFails
  <2>3. CASE Crash(s)
    BY <2>1, <2>3, RollBackStep DEF Crash
  <2>. QED
    BY <1>3, <2>2, <2>3, LoadStep, GraduateStep, SkipStep, ActStep, CommitStep DEF TickStep
<1>4. ASSUME NEW s \in Workers, BeginSweep(s) PROVE WarmupInv'
  <2>1. s \in Sessions /\ {r \in Runs : run[r] = "running"} \in SUBSET Runs
    BY DEF Sessions
  <2>. QED
    BY <1>4, <2>1, BeginStep DEF BeginSweep
<1>5. ASSUME NEW s \in Requests, NEW r \in Runs, BeginManual(s, r) PROVE WarmupInv'
  <2>1. s \in Sessions /\ {r} \in SUBSET Runs
    BY DEF Sessions
  <2>. QED
    BY <1>5, <2>1, BeginStep DEF BeginManual
<1>6. CASE UNCHANGED vars
  <2>1. UNCHANGED <<run, participant, account, pc, mem, phase, did, excused, ramp, orphaned, benched,
                    edits, losses>>
    BY <1>6 DEF vars, database, sessions, ghosts, bounds
  <2>2. TypeOK'
    BY <2>1 DEF WarmupInv, TypeOK
  <2>3. \A s \in Sessions : MemoryInv(mem'[s]) /\ BenchInv(s)'
    BY <2>1, BenchSame DEF WarmupInv
  <2>4. \A r \in Runs, a \in Accounts : RampInv(r, a)'
    BY <2>1, RampSame DEF WarmupInv, Holds
  <2>. QED
    BY <2>2, <2>3, <2>4 DEF WarmupInv
<1>. QED
  BY <1>1, <1>2, <1>3, <1>4, <1>5, <1>6 DEF Next

-----------------------------------------------------------------------------
(* Graduation.                                                              *)

\* Only the commit of a tick, or the end of the run, lets a participant be done.
LEMMA ManagersEnd ==
  ASSUME WarmupInv, Manager, NEW r \in Runs, NEW a \in Accounts
  PROVE  RampIsFull(r, a)
<1>. SUFFICES ASSUME participant[r][a].status = "active", participant'[r][a].status = "done"
              PROVE  run'[r] = "done"
  BY DEF RampIsFull
<1>1. /\ run \in [Runs -> {"draft", "running", "paused", "done", "deleted"}]
      /\ participant \in [Runs -> [Accounts -> Participants]]
      /\ \A q \in Runs, b \in Accounts : participant[q][b] \in Participants
  BY DEF WarmupInv, TypeOK
<1>2. ASSUME NEW q \in Runs, StopRun(q) PROVE run'[r] = "done"
  BY <1>1, <1>2 DEF StopRun
<1>3. ASSUME NEW q \in Runs, StartRun(q) PROVE FALSE
  <2>. DEFINE fresh == {b \in Accounts : participant[q][b].status = "pending"}
              rows == [b \in Accounts |->
                 IF b \in fresh THEN [participant[q][b] EXCEPT !.status = "active", !.since = 0]
                 ELSE participant[q][b]]
  <2>1. participant' = [participant EXCEPT ![q] = rows]
    BY <1>1, <1>3 DEF StartRun
  <2>2. a \in fresh => participant[q][a].status # participant[r][a].status
    OBVIOUS
  <2>3. rows[a] = IF a \in fresh THEN [participant[q][a] EXCEPT !.status = "active", !.since = 0]
                  ELSE participant[q][a]
    OBVIOUS
  <2>. HIDE DEF rows, fresh
  <2>4. participant'[r][a] = IF r = q THEN rows[a] ELSE participant[r][a]
    BY <1>1, <2>1
  <2>. QED
    BY <2>2, <2>3, <2>4
<1>4. ASSUME NEW q \in Runs, NEW as \in SUBSET Accounts, Deleted(q, as) PROVE FALSE
  <2>1. participant'[r][a] \in {participant[r][a], NoParticipant}
    BY <1>1, <1>4 DEF Deleted
  <2>. QED
    BY <2>1, NoParticipantIs
<1>5. ASSUME NEW q \in Runs, NEW b \in Accounts, AddParticipant(q, b) PROVE FALSE
  <2>. DEFINE row == [NoParticipant EXCEPT !.status = IF run[q] = "running" THEN "active" ELSE "pending"]
  <2>1. participant' = [participant EXCEPT ![q][b] = row] /\ participant[q][b].status = "absent"
    BY <1>5 DEF AddParticipant
  <2>. HIDE DEF row
  <2>2. ~(r = q /\ a = b)
    BY <2>1
  <2>3. participant'[r][a] = participant[r][a]
    BY <1>1, <2>1, <2>2
  <2>. QED
    BY <2>3
<1>6. ASSUME NEW q \in Runs, NEW b \in Accounts, RemoveParticipant(q, b) PROVE FALSE
  BY <1>4, <1>6 DEF RemoveParticipant
<1>7. ASSUME NEW q \in Runs, DeleteRun(q) PROVE FALSE
  BY <1>4, <1>7 DEF DeleteRun
<1>8. ASSUME UNCHANGED participant PROVE FALSE
  BY <1>8
<1>. QED
  BY <1>2, <1>3, <1>5, <1>6, <1>7, <1>8 DEF Manager, PauseRun, SetAccount

LEMMA PassTimeEnds ==
  ASSUME WarmupInv, PassTime, NEW r \in Runs, NEW a \in Accounts
  PROVE  RampIsFull(r, a)
<1>1. ASSUME participant[r][a].status = "active"
      PROVE  participant'[r][a].status = "active"
  <2>1. participant'[r][a] = Aged(participant[r][a], phase + 1 = DayLength)
    BY <1>1 DEF PassTime
  <2>2. participant[r][a] \in Participants
    BY DEF WarmupInv, TypeOK
  <2>3. (phase + 1 = DayLength) \in BOOLEAN
    OBVIOUS
  <2>. QED
    BY <1>1, <2>1, <2>2, <2>3, AgedIs
<1>. QED
  BY <1>1 DEF RampIsFull

LEMMA GraduationStep ==
  ASSUME WarmupInv, [Next]_vars
  PROVE  /\ \A r \in Runs, a \in Accounts : RampIsFull(r, a)
         /\ \A s \in Sessions, a \in Accounts : QuarantineStands(s, a)
<1>1. CASE PassTime
  <2>1. UNCHANGED <<account, pc>>
    BY <1>1 DEF PassTime
  <2>. QED
    BY <1>1, <2>1, PassTimeEnds DEF QuarantineStands
<1>2. CASE Manager
  <2>1. UNCHANGED pc
    BY <1>2 DEF Manager, StartRun, PauseRun, StopRun, DeleteRun, AddParticipant, RemoveParticipant,
                SetAccount, Deleted, sessions
  <2>. QED
    BY <1>2, <2>1, ManagersEnd DEF QuarantineStands
<1>3. ASSUME NEW s \in Sessions, Commit(s)
      PROVE  /\ \A r \in Runs, a \in Accounts : RampIsFull(r, a)
             /\ \A q \in Sessions, a \in Accounts : QuarantineStands(q, a)
  <2>1. \A q \in Sessions, a \in Accounts : QuarantineStands(q, a)
    BY <1>3, EndTurnIs DEF Commit, WarmupInv, BenchInv, QuarantineStands
  <2>. QED
    BY <1>3, <2>1, CommitIs DEF RampIsFull
<1>4. ASSUME UNCHANGED <<participant, account>>
      PROVE  /\ \A r \in Runs, a \in Accounts : RampIsFull(r, a)
             /\ \A s \in Sessions, a \in Accounts : QuarantineStands(s, a)
  BY <1>4 DEF RampIsFull, QuarantineStands
<1>5. ASSUME NEW s \in Sessions, TickStep(s) \/ Crash(s), ~Commit(s)
      PROVE  UNCHANGED <<participant, account>>
  BY <1>5 DEF TickStep, Load, Graduate, Skip, Act, CommitFails, Crash, RollBack, database
<1>6. ASSUME NEW s \in Sessions, BeginSweep(s) \/ \E r \in Runs : BeginManual(s, r)
      PROVE  UNCHANGED <<participant, account>>
  BY <1>6 DEF BeginSweep, BeginManual, database
<1>7. CASE UNCHANGED vars
  BY <1>4, <1>7 DEF vars, database
<1>. QED
  BY <1>1, <1>2, <1>3, <1>4, <1>5, <1>6, <1>7 DEF Next, Sessions

-----------------------------------------------------------------------------
(***************************************************************************)
(* Nobody is stranded, as long as there is one run.  With two, a sweep      *)
(* acts on a status that it has read in the run before.                     *)
(***************************************************************************)

OneRun == \A r, q \in Runs : r = q

\* An account that a tick has loaded a participant of, and that is warming of its own, is
\* known to be; and what a tick takes for graduated it has found warming no more, or lifted.
Knows(s, a) ==
    mem[s].loaded[a].status = "active" =>
        /\ a \notin mem[s].gone /\ account[a] = "warming" /\ a \notin orphaned =>
              a \in mem[s].lifted \/ mem[s].known[a] = "warming"
        /\ mem[s].row[a].status # "active" => mem[s].known[a] # "warming"

\* One run is one tick: what a session has read it forgets at the end of it.
TicksOneRun(s) ==
    IF pc[s] = "tick" THEN mem[s].run \in Runs /\ mem[s].todo = {}
    ELSE /\ mem[s].run = NoRun /\ mem[s].loaded = Nobody /\ mem[s].row = Nobody
         /\ \A a \in Accounts : mem[s].known[a] = "unread"

StrandInv ==
    /\ \A s \in Sessions : TicksOneRun(s)
    /\ \A s \in Sessions, a \in Accounts : Knows(s, a)
    /\ NoneStranded

LEMMA KnowsSame ==
  ASSUME NEW s \in Sessions, NEW a \in Accounts, Knows(s, a),
         mem'[s].loaded[a].status = mem[s].loaded[a].status,
         mem'[s].row[a].status = mem[s].row[a].status,
         mem'[s].known[a] = mem[s].known[a], mem'[s].lifted = mem[s].lifted,
         mem[s].gone \subseteq mem'[s].gone,
         mem[s].loaded[a].status = "active" /\ a \notin mem[s].gone
            /\ account'[a] = "warming" /\ a \notin orphaned' => account[a] = "warming" /\ a \notin orphaned
  PROVE  Knows(s, a)'
  BY DEF Knows

LEMMA NobodyKnows ==
  ASSUME NEW s \in Sessions, NEW a \in Accounts, mem'[s].loaded = Nobody
  PROVE  Knows(s, a)'
<1>1. Nobody[a].status = "absent"
  BY NoParticipantIs DEF Nobody
<1>. QED
  BY <1>1 DEF Knows

LEMMA ForgottenStrands ==
  ASSUME NEW s \in Sessions, mem'[s] = Forgotten, pc'[s] # "tick"
  PROVE  TicksOneRun(s)' /\ \A a \in Accounts : Knows(s, a)'
<1>1. TicksOneRun(s)'
  BY ForgottenIs DEF TicksOneRun
<1>2. mem'[s].loaded = Nobody
  BY ForgottenIs
<1>. QED
  BY <1>1, <1>2, NobodyKnows

LEMMA StrandInitially == Init => StrandInv
<1>. SUFFICES ASSUME Init PROVE StrandInv
  OBVIOUS
<1>1. \A s \in Sessions : mem[s] = Forgotten /\ pc[s] = "idle"
  BY DEF Init
<1>2. \A s \in Sessions : TicksOneRun(s)
  BY <1>1, ForgottenIs DEF TicksOneRun
<1>3. \A a \in Accounts : Nobody[a].status = "absent"
  BY NoParticipantIs DEF Nobody
<1>4. \A s \in Sessions, a \in Accounts : Knows(s, a)
  BY <1>1, <1>3, ForgottenIs DEF Knows
<1>5. NoneStranded
  <2>1. PICK members \in [Runs -> SUBSET Accounts] :
          /\ participant = [r \in Runs |-> [a \in Accounts |-> [NoParticipant EXCEPT
                !.status = IF a \notin members[r] THEN "absent"
                           ELSE IF run[r] = "running" THEN "active" ELSE "pending"]]]
          /\ account = [a \in Accounts |->
                IF \E r \in Runs : run[r] = "running" /\ a \in members[r] THEN "warming" ELSE "active"]
    BY DEF Init
  <2>. SUFFICES ASSUME NEW a \in Accounts, account[a] = "warming"
                PROVE  \E r \in Runs : participant[r][a].status = "active"
    BY DEF NoneStranded
  <2>2. PICK r \in Runs : run[r] = "running" /\ a \in members[r]
    BY <2>1
  <2>3. participant[r][a] = [NoParticipant EXCEPT !.status = "active"]
    BY <2>1, <2>2
  <2>. QED
    BY <2>3, NoParticipantIs
<1>. QED
  BY <1>2, <1>4, <1>5 DEF StrandInv

\* The managers, and time.
LEMMA StrandPassTime ==
  ASSUME WarmupInv, StrandInv, PassTime
  PROVE  StrandInv'
<1>. DEFINE midnight == phase + 1 = DayLength
<1>1. /\ \A s \in Sessions : mem[s].run # NoRun => mem[s].lag < MaxLag
      /\ participant' = [r \in Runs |-> [a \in Accounts |->
            IF participant[r][a].status = "active" THEN Aged(participant[r][a], midnight)
            ELSE participant[r][a]]]
      /\ mem' = [s \in Sessions |-> IF mem[s].run = NoRun THEN mem[s] ELSE Later(mem[s], midnight)]
      /\ UNCHANGED <<account, pc, orphaned>>
  BY DEF PassTime, Later
<1>0. midnight \in BOOLEAN
  OBVIOUS
<1>. HIDE DEF midnight
<1>2. ASSUME NEW r \in Runs, NEW a \in Accounts
      PROVE  participant'[r][a].status = participant[r][a].status
  <2>1. /\ participant[r][a] \in Participants
        /\ participant'[r][a] = IF participant[r][a].status = "active"
                                THEN Aged(participant[r][a], midnight) ELSE participant[r][a]
    BY <1>1 DEF WarmupInv, TypeOK
  <2>. QED
    BY <1>0, <2>1, AgedIs
<1>3. NoneStranded'
  BY <1>1, <1>2 DEF StrandInv, NoneStranded
<1>4. ASSUME NEW s \in Sessions
      PROVE  TicksOneRun(s)' /\ \A a \in Accounts : Knows(s, a)'
  <2>1. TicksOneRun(s) /\ \A a \in Accounts : Knows(s, a)
    BY DEF StrandInv
  <2>2. CASE mem[s].run = NoRun
    <3>1. mem'[s] = mem[s] /\ pc'[s] = pc[s]
      BY <1>1, <2>2
    <3>. QED
      BY <1>1, <2>1, <3>1 DEF TicksOneRun, Knows
  <2>3. CASE mem[s].run # NoRun
    <3>1. mem'[s] = Later(mem[s], midnight) /\ mem[s].lag < MaxLag /\ pc'[s] = pc[s] /\ pc[s] = "tick"
      BY <1>1, <2>1, <2>3 DEF TicksOneRun
    <3>2. mem[s] \in Memory
      BY DEF WarmupInv, TypeOK
    <3>3. /\ mem'[s].run = mem[s].run /\ mem'[s].gone = mem[s].gone
          /\ mem'[s].known = mem[s].known /\ mem'[s].lifted = mem[s].lifted
          /\ \A a \in Accounts : /\ mem'[s].loaded[a] = Aged(mem[s].loaded[a], midnight)
                                 /\ mem'[s].row[a] = Aged(mem[s].row[a], midnight)
      BY <1>0, <3>1, <3>2, LaterIs
    <3>4. mem'[s].todo = mem[s].todo
      BY <3>1, <3>2 DEF Later, Memory
    <3>5. \A a \in Accounts : mem[s].loaded[a] \in Participants /\ mem[s].row[a] \in Participants
      BY <3>2 DEF Memory
    <3>6. \A a \in Accounts : /\ mem'[s].loaded[a].status = mem[s].loaded[a].status
                              /\ mem'[s].row[a].status = mem[s].row[a].status
      BY <1>0, <3>3, <3>5, AgedIs
    <3>7. TicksOneRun(s)'
      BY <2>1, <3>1, <3>3, <3>4 DEF TicksOneRun
    <3>8. \A a \in Accounts : Knows(s, a)'
      BY <1>1, <2>1, <3>3, <3>6, KnowsSame
    <3>. QED
      BY <3>7, <3>8
  <2>. QED
    BY <2>2, <2>3
<1>. QED
  BY <1>3, <1>4 DEF StrandInv

\* The sessions stay as they are.
LEMMA StrandQuiet ==
  ASSUME StrandInv, UNCHANGED <<pc, mem>>, NoneStranded',
         \A s \in Sessions, a \in Accounts :
            mem[s].loaded[a].status = "active" /\ a \notin mem[s].gone
               /\ account'[a] = "warming" /\ a \notin orphaned' =>
                  account[a] = "warming" /\ a \notin orphaned
  PROVE  StrandInv'
<1>1. \A s \in Sessions : TicksOneRun(s)'
  BY DEF StrandInv, TicksOneRun
<1>2. \A s \in Sessions, a \in Accounts : Knows(s, a)'
  BY DEF StrandInv, Knows
<1>. QED
  BY <1>1, <1>2 DEF StrandInv

LEMMA StrandManager ==
  ASSUME WarmupInv, StrandInv, OneRun, Manager
  PROVE  StrandInv'
<1>0. /\ \A r \in Runs, a \in Accounts : participant[r][a] \in Participants
      /\ participant \in [Runs -> [Accounts -> Participants]]
      /\ account \in [Accounts -> AccountStates]
  BY DEF WarmupInv, TypeOK
<1>1. ASSUME NEW r \in Runs, StartRun(r) PROVE StrandInv'
  <2>. DEFINE fresh == {a \in Accounts : participant[r][a].status = "pending"}
              rows == [a \in Accounts |-> IF a \in fresh
                         THEN [participant[r][a] EXCEPT !.status = "active", !.since = 0]
                         ELSE participant[r][a]]
  <2>1. /\ participant' = [participant EXCEPT ![r] = rows]
        /\ account' = [a \in Accounts |-> IF a \in fresh THEN "warming" ELSE account[a]]
        /\ orphaned' = orphaned \ fresh /\ UNCHANGED <<pc, mem>>
    BY <1>0, <1>1 DEF StartRun, sessions
  <2>2. \A a \in Accounts : /\ a \in fresh => rows[a].status = "active"
                            /\ a \notin fresh => rows[a] = participant[r][a]
    BY <1>0 DEF Participants
  <2>3. ASSUME NEW s \in Sessions, NEW a \in fresh,
               mem[s].loaded[a].status = "active", a \notin mem[s].gone
        PROVE  FALSE
    <3>1. mem[s].run \in Runs
      <4>1. pc[s] # "tick" => mem[s].loaded = Nobody
        BY DEF StrandInv, TicksOneRun
      <4>2. Nobody[a].status = "absent"
        BY NoParticipantIs DEF Nobody
      <4>. QED
        BY <2>3, <4>1, <4>2 DEF StrandInv, TicksOneRun
    <3>2. mem[s].run = r
      BY <3>1 DEF OneRun
    <3>3. SessionClimb(s, r, a)
      BY DEF WarmupInv, RampInv
    <3>. QED
      BY <2>3, <3>2, <3>3 DEF SessionClimb, Holds
  <2>. HIDE DEF rows, fresh
  <2>4. \A q \in Runs : participant'[q] = rows
    BY <1>0, <2>1 DEF OneRun
  <2>5. NoneStranded'
    <3>. SUFFICES ASSUME NEW a \in Accounts, account'[a] = "warming", a \notin orphaned'
                  PROVE  participant'[r][a].status = "active"
      BY DEF NoneStranded
    <3>1. CASE a \in fresh
      BY <2>2, <2>4, <3>1
    <3>2. CASE a \notin fresh
      <4>1. PICK q \in Runs : participant[q][a].status = "active"
        BY <2>1, <3>2 DEF StrandInv, NoneStranded
      <4>. QED
        BY <2>2, <2>4, <3>2, <4>1 DEF OneRun
    <3>. QED
      BY <3>1, <3>2
  <2>6. \A s \in Sessions, a \in Accounts :
            mem[s].loaded[a].status = "active" /\ a \notin mem[s].gone
               /\ account'[a] = "warming" /\ a \notin orphaned' =>
                  account[a] = "warming" /\ a \notin orphaned
    BY <2>1, <2>3
  <2>. QED
    BY <2>1, <2>5, <2>6, StrandQuiet
<1>2. ASSUME NEW r \in Runs, PauseRun(r) PROVE StrandInv'
  <2>1. UNCHANGED <<participant, account, pc, mem, orphaned>>
    BY <1>2 DEF PauseRun, sessions, ghosts
  <2>2. NoneStranded'
    BY <2>1 DEF StrandInv, NoneStranded
  <2>. QED
    BY <2>1, <2>2, StrandQuiet
<1>3. ASSUME NEW r \in Runs, StopRun(r) PROVE StrandInv'
  <2>. DEFINE members == {a \in Accounts : participant[r][a].status # "absent"}
  <2>1. /\ \A a \in Accounts : account'[a] = IF a \in members /\ account[a] = "warming"
                                             THEN "active" ELSE account[a]
        /\ UNCHANGED <<pc, mem, orphaned>>
    BY <1>3 DEF StopRun, sessions, ghosts
  <2>2. NoneStranded'
    <3>. SUFFICES ASSUME NEW a \in Accounts, account'[a] = "warming", a \notin orphaned' PROVE FALSE
      BY DEF NoneStranded
    <3>1. account[a] = "warming" /\ a \notin members /\ a \notin orphaned
      BY <2>1
    <3>2. PICK q \in Runs : participant[q][a].status = "active"
      BY <3>1 DEF StrandInv, NoneStranded
    <3>. QED
      BY <3>1, <3>2 DEF OneRun
  <2>3. \A a \in Accounts : account'[a] = "warming" => account[a] = "warming"
    BY <2>1
  <2>. QED
    BY <2>1, <2>2, <2>3, StrandQuiet
<1>4. ASSUME NEW r \in Runs, NEW b \in Accounts, AddParticipant(r, b) PROVE StrandInv'
  <2>. DEFINE row == [NoParticipant EXCEPT !.status = IF run[r] = "running" THEN "active" ELSE "pending"]
  <2>1. /\ participant' = [participant EXCEPT ![r][b] = row] /\ participant[r][b].status = "absent"
        /\ UNCHANGED <<account, pc, mem, orphaned>>
    BY <1>4 DEF AddParticipant, sessions
  <2>. HIDE DEF row
  <2>2. \A q \in Runs, a \in Accounts : participant[q][a].status = "active" => participant'[q][a] = participant[q][a]
    BY <1>0, <2>1
  <2>3. NoneStranded'
    BY <2>1, <2>2 DEF StrandInv, NoneStranded
  <2>. QED
    BY <2>1, <2>3, StrandQuiet
<1>5. ASSUME NEW r \in Runs, NEW as \in SUBSET Accounts, Deleted(r, as) PROVE StrandInv'
  <2>. DEFINE rows == [a \in Accounts |-> IF a \in as THEN NoParticipant ELSE participant[r][a]]
  <2>1. /\ participant' = [participant EXCEPT ![r] = rows]
        /\ mem' = [s \in Sessions |->
              IF mem[s].run = r THEN [mem[s] EXCEPT !.gone = @ \cup as] ELSE mem[s]]
        /\ orphaned' = orphaned \cup as
        /\ UNCHANGED <<account, pc>>
    BY <1>0, <1>5 DEF Deleted
  <2>2. \A a \in Accounts \ as : rows[a] = participant[r][a]
    OBVIOUS
  <2>. HIDE DEF rows
  <2>3. \A q \in Runs, a \in Accounts \ as : participant'[q][a] = participant[q][a]
    BY <1>0, <2>1, <2>2
  <2>4. NoneStranded'
    BY <2>1, <2>3 DEF StrandInv, NoneStranded
  <2>5. ASSUME NEW s \in Sessions
        PROVE  /\ mem'[s].run = mem[s].run /\ mem'[s].todo = mem[s].todo
               /\ mem'[s].loaded = mem[s].loaded /\ mem'[s].row = mem[s].row
               /\ mem'[s].known = mem[s].known /\ mem'[s].lifted = mem[s].lifted
               /\ mem[s].gone \subseteq mem'[s].gone
    <3>1. mem[s] \in Memory
      BY DEF WarmupInv, TypeOK
    <3>2. mem'[s] = mem[s] \/ mem'[s] = [mem[s] EXCEPT !.gone = mem[s].gone \cup as]
      BY <2>1
    <3>. QED
      BY <3>1, <3>2 DEF Memory
  <2>6. \A s \in Sessions : TicksOneRun(s)'
    BY <2>1, <2>5 DEF StrandInv, TicksOneRun
  <2>7. \A s \in Sessions, a \in Accounts : Knows(s, a)'
    BY <2>1, <2>5, KnowsSame DEF StrandInv
  <2>. QED
    BY <2>4, <2>6, <2>7 DEF StrandInv
<1>6. ASSUME NEW r \in Runs, NEW a \in Accounts, RemoveParticipant(r, a) PROVE StrandInv'
  <2>1. Deleted(r, {a}) /\ {a} \in SUBSET Accounts
    BY <1>6 DEF RemoveParticipant
  <2>. QED
    BY <2>1, <1>5
<1>7. ASSUME NEW r \in Runs, DeleteRun(r) PROVE StrandInv'
  BY <1>5, <1>7 DEF DeleteRun
<1>8. ASSUME NEW b \in Accounts, NEW v \in AccountStates, SetAccount(b, v) PROVE StrandInv'
  <2>1. /\ account' = [account EXCEPT ![b] = v]
        /\ orphaned' = IF v = "warming" THEN orphaned \cup {b} ELSE orphaned \ {b}
        /\ UNCHANGED <<participant, pc, mem>>
    BY <1>8 DEF SetAccount, sessions
  <2>2. \A a \in Accounts : account'[a] = "warming" /\ a \notin orphaned' =>
                               account[a] = "warming" /\ a \notin orphaned
    BY <1>0, <2>1
  <2>3. NoneStranded'
    BY <2>1, <2>2 DEF StrandInv, NoneStranded
  <2>. QED
    BY <2>1, <2>2, <2>3, StrandQuiet
<1>. QED
  BY <1>1, <1>2, <1>3, <1>4, <1>6, <1>7, <1>8 DEF Manager

\* A session moves on: the others, and the tables, stay as they are.
LEMMA StrandSession ==
  ASSUME WarmupInv, StrandInv, NEW s \in Sessions,
         UNCHANGED <<participant, account, orphaned>>,
         \A q \in Sessions \ {s} : mem'[q] = mem[q] /\ pc'[q] = pc[q],
         TicksOneRun(s)', \A a \in Accounts : Knows(s, a)'
  PROVE  StrandInv'
<1>1. \A q \in Sessions : TicksOneRun(q)'
  BY DEF StrandInv, TicksOneRun
<1>2. \A q \in Sessions, a \in Accounts : Knows(q, a)'
  BY DEF StrandInv, Knows
<1>3. NoneStranded'
  BY DEF StrandInv, NoneStranded
<1>. QED
  BY <1>1, <1>2, <1>3 DEF StrandInv

LEMMA StrandBegins ==
  ASSUME WarmupInv, StrandInv, NEW s \in Sessions,
         BeginSweep(s) \/ \E r \in Runs : BeginManual(s, r)
  PROVE  StrandInv'
<1>0. mem[s] \in Memory /\ pc \in [Sessions -> {"idle", "pick", "tick"}] /\ mem \in [Sessions -> Memory]
  BY DEF WarmupInv, TypeOK
<1>1. PICK todo : mem' = [mem EXCEPT ![s] = [mem[s] EXCEPT !.todo = todo]]
  BY <1>0 DEF BeginSweep, BeginManual
<1>2. /\ pc[s] = "idle" /\ pc' = [pc EXCEPT ![s] = "pick"]
      /\ UNCHANGED <<participant, account, orphaned>>
  BY DEF BeginSweep, BeginManual, database
<1>3. /\ mem'[s].run = mem[s].run /\ mem'[s].loaded = mem[s].loaded
      /\ mem'[s].row = mem[s].row /\ mem'[s].known = mem[s].known
  BY <1>0, <1>1 DEF Memory
<1>4. TicksOneRun(s)
  BY DEF StrandInv
<1>5. TicksOneRun(s)'
  BY <1>0, <1>2, <1>3, <1>4 DEF TicksOneRun
<1>6. mem'[s].loaded = Nobody
  BY <1>2, <1>3, <1>4 DEF TicksOneRun
<1>7. \A a \in Accounts : Knows(s, a)'
  BY <1>6, NobodyKnows
<1>8. \A q \in Sessions \ {s} : mem'[q] = mem[q] /\ pc'[q] = pc[q]
  BY <1>0, <1>1, <1>2
<1>. QED
  BY <1>2, <1>5, <1>7, <1>8, StrandSession

LEMMA StrandLoads ==
  ASSUME WarmupInv, StrandInv, OneRun, NEW s \in Sessions, NEW r \in Runs, Load(s, r)
  PROVE  StrandInv'
<1>. DEFINE active == {a \in Accounts : participant[r][a].status = "active"}
            rows == [a \in Accounts |-> IF a \in active THEN participant[r][a] ELSE Nobody[a]]
            known == [a \in Accounts |-> IF a \in active /\ mem[s].known[a] = "unread"
                                         THEN account[a] ELSE mem[s].known[a]]
<1>0. mem[s] \in Memory /\ pc \in [Sessions -> {"idle", "pick", "tick"}] /\ mem \in [Sessions -> Memory]
  BY DEF WarmupInv, TypeOK
<1>1. /\ mem' = [mem EXCEPT ![s] = [Forgotten EXCEPT !.run = r, !.todo = mem[s].todo \ {r}, !.left = active,
                     !.loaded = rows, !.row = rows, !.known = known]]
      /\ pc[s] = "pick" /\ pc' = [pc EXCEPT ![s] = "tick"]
      /\ UNCHANGED <<participant, account, orphaned>>
  BY DEF Load, database, ghosts, Forgotten, Nobody
<1>2. TicksOneRun(s) /\ mem[s].todo \subseteq Runs
  BY <1>0 DEF StrandInv, Memory
<1>3. mem'[s] = [Forgotten EXCEPT !.run = r, !.todo = mem[s].todo \ {r}, !.left = active,
                     !.loaded = rows, !.row = rows, !.known = known]
  BY <1>0, <1>1
<1>. HIDE DEF rows, known, active
<1>4. /\ mem'[s].run = r /\ mem'[s].todo = mem[s].todo \ {r}
      /\ mem'[s].loaded = rows /\ mem'[s].row = rows /\ mem'[s].known = known
  BY <1>3 DEF Forgotten
<1>5. mem'[s].todo = {}
  BY <1>2, <1>4 DEF OneRun
<1>6. TicksOneRun(s)'
  BY <1>0, <1>1, <1>4, <1>5 DEF TicksOneRun
<1>7. ASSUME NEW a \in Accounts PROVE Knows(s, a)'
  <2>1. rows[a].status = "active" => a \in active
    BY NoParticipantIs DEF rows, Nobody
  <2>2. a \in active => known[a] = account[a]
    BY <1>1, <1>2 DEF TicksOneRun, known
  <2>. QED
    BY <1>1, <1>4, <2>1, <2>2 DEF Knows
<1>8. \A q \in Sessions \ {s} : mem'[q] = mem[q] /\ pc'[q] = pc[q]
  BY <1>0, <1>1
<1>. QED
  BY <1>1, <1>6, <1>7, <1>8, StrandSession

\* A participant is handled: it keeps its status.
LEMMA StrandHandled ==
  ASSUME WarmupInv, StrandInv, NEW s \in Sessions, NEW b \in mem[s].left, NEW p \in Participants,
         p.status = mem[s].row[b].status,
         mem' = [mem EXCEPT ![s] = Handled(mem[s], b, p)]
         \/ \E acted : mem' = [mem EXCEPT ![s] = [Handled(mem[s], b, p) EXCEPT !.acted = acted]],
         UNCHANGED <<participant, account, orphaned, pc>>
  PROVE  StrandInv'
<1>0. mem[s] \in Memory /\ mem \in [Sessions -> Memory]
  BY DEF WarmupInv, TypeOK
<1>1. /\ mem'[s].run = mem[s].run /\ mem'[s].todo = mem[s].todo
      /\ mem'[s].loaded = mem[s].loaded /\ mem'[s].known = mem[s].known
      /\ mem'[s].lifted = mem[s].lifted /\ mem'[s].gone = mem[s].gone
      /\ mem'[s].row = [mem[s].row EXCEPT ![b] = p]
  <2>. DEFINE n == [mem[s] EXCEPT !.left = mem[s].left \ {b}, !.row = [mem[s].row EXCEPT ![b] = p]]
  <2>1. Handled(mem[s], b, p) = n
    BY <1>0 DEF Handled, Memory
  <2>2. /\ n.run = mem[s].run /\ n.todo = mem[s].todo /\ n.loaded = mem[s].loaded
        /\ n.known = mem[s].known /\ n.lifted = mem[s].lifted /\ n.gone = mem[s].gone
        /\ n.row = [mem[s].row EXCEPT ![b] = p]
    BY <1>0 DEF Memory
  <2>3. \A acted : LET k == [n EXCEPT !.acted = acted] IN
          /\ k.run = n.run /\ k.todo = n.todo /\ k.loaded = n.loaded
          /\ k.known = n.known /\ k.lifted = n.lifted /\ k.gone = n.gone /\ k.row = n.row
    BY <1>0 DEF Memory
  <2>. HIDE DEF n
  <2>4. CASE mem' = [mem EXCEPT ![s] = Handled(mem[s], b, p)]
    <3>1. mem'[s] = n
      BY <1>0, <2>1, <2>4
    <3>. QED
      BY <2>2, <3>1
  <2>5. CASE \E acted : mem' = [mem EXCEPT ![s] = [Handled(mem[s], b, p) EXCEPT !.acted = acted]]
    <3>1. PICK acted : mem' = [mem EXCEPT ![s] = [n EXCEPT !.acted = acted]]
      BY <2>1, <2>5
    <3>2. mem'[s] = [n EXCEPT !.acted = acted]
      BY <1>0, <3>1
    <3>. QED
      BY <2>2, <2>3, <3>2
  <2>. QED
    BY <2>4, <2>5
<1>2. mem[s].left \subseteq Accounts /\ mem[s].row \in [Accounts -> Participants]
  BY <1>0 DEF Memory
<1>3. \A a \in Accounts : mem'[s].row[a].status = mem[s].row[a].status
  BY <1>1, <1>2
<1>4. TicksOneRun(s) /\ \A a \in Accounts : Knows(s, a)
  BY DEF StrandInv
<1>5. mem[s].run \in Runs
  BY DEF WarmupInv, MemoryInv
<1>6. pc[s] = "tick"
  BY <1>4, <1>5, WarmupAssumption DEF TicksOneRun
<1>7. TicksOneRun(s)'
  BY <1>1, <1>4, <1>6 DEF TicksOneRun
<1>8. \A a \in Accounts : Knows(s, a)'
  BY <1>1, <1>3, <1>4, KnowsSame
<1>9. \A q \in Sessions \ {s} : mem'[q] = mem[q] /\ pc'[q] = pc[q]
  BY <1>0
<1>. QED
  BY <1>7, <1>8, <1>9, StrandSession

\* Whoever graduates has been found warming and is lifted, or has been found something else.
LEMMA StrandGraduates ==
  ASSUME WarmupInv, StrandInv, NEW s \in Sessions, NEW b \in Accounts, Graduate(s, b)
  PROVE  StrandInv'
<1>. DEFINE m == mem[s]
            q == [Today(m, m.row[b]) EXCEPT !.status = "done"]
            known == [m.known EXCEPT ![b] = IF b \in Lifted(m, b) THEN "active" ELSE m.known[b]]
            n == [m EXCEPT !.left = m.left \ {b}, !.row = [m.row EXCEPT ![b] = q],
                           !.lifted = Lifted(m, b), !.known = known]
<1>0. m \in Memory /\ mem \in [Sessions -> Memory]
  BY DEF WarmupInv, TypeOK
<1>1. b \in m.left /\ UNCHANGED <<participant, account, orphaned, pc>>
  BY DEF Graduate, database, ghosts
<1>2. mem' = [mem EXCEPT ![s] = n]
  BY <1>0 DEF Graduate, Handled, Memory
<1>3. mem'[s] = n
  BY <1>0, <1>2
<1>. HIDE DEF q, known
<1>4. /\ mem'[s].run = m.run /\ mem'[s].todo = m.todo /\ mem'[s].loaded = m.loaded
      /\ mem'[s].lifted = Lifted(m, b) /\ mem'[s].gone = m.gone /\ mem'[s].known = known
      /\ mem'[s].row = [m.row EXCEPT ![b] = q]
  BY <1>0, <1>3 DEF Memory
<1>5. TicksOneRun(s) /\ \A a \in Accounts : Knows(s, a)
  BY DEF StrandInv
<1>6. m.run \in Runs
  BY <1>1 DEF WarmupInv, MemoryInv
<1>7. pc[s] = "tick"
  BY <1>5, <1>6, WarmupAssumption DEF TicksOneRun
<1>8. TicksOneRun(s)'
  BY <1>1, <1>4, <1>5, <1>7 DEF TicksOneRun
<1>9. ASSUME NEW a \in Accounts PROVE Knows(s, a)'
  <2>1. m.known \in [Accounts -> AccountStates \cup {"unread"}] /\ m.row \in [Accounts -> Participants]
    BY <1>0 DEF Memory
  <2>2. /\ m.lifted \subseteq Lifted(m, b)
        /\ m.known[b] = "warming" => b \in Lifted(m, b)
    BY DEF Lifted
  <2>3. CASE a = b
    <3>1. known[b] = IF b \in Lifted(m, b) THEN "active" ELSE m.known[b]
      BY <2>1 DEF known
    <3>2. known[b] # "warming"
      BY <2>2, <3>1
    <3>. QED
      BY <1>1, <1>4, <1>5, <2>2, <2>3, <3>2 DEF Knows
  <2>4. CASE a # b
    <3>1. known[a] = m.known[a] /\ mem'[s].row[a] = m.row[a]
      BY <1>4, <2>1, <2>4 DEF known
    <3>. QED
      BY <1>1, <1>4, <1>5, <2>2, <3>1 DEF Knows
  <2>. QED
    BY <2>3, <2>4
<1>10. \A r \in Sessions \ {s} : mem'[r] = mem[r] /\ pc'[r] = pc[r]
  BY <1>0, <1>1, <1>2
<1>. QED
  BY <1>1, <1>8, <1>9, <1>10, StrandSession

LEMMA StrandSkips ==
  ASSUME WarmupInv, StrandInv, NEW s \in Sessions, NEW b \in Accounts, Skip(s, b)
  PROVE  StrandInv'
<1>. DEFINE p == Today(mem[s], mem[s].row[b])
<1>1. mem[s] \in Memory /\ mem[s].row[b] \in Participants
  BY DEF WarmupInv, TypeOK, Memory
<1>2. p \in Participants /\ p.status = mem[s].row[b].status
  BY <1>1, TodayIs
<1>3. /\ b \in mem[s].left /\ ~Graduates(mem[s], p)
      /\ mem' = [mem EXCEPT ![s] = Handled(mem[s], b, Advanced(mem[s], p))]
      /\ UNCHANGED <<participant, account, orphaned, pc>>
  BY DEF Skip, database, ghosts
<1>. HIDE DEF p
<1>4. Advanced(mem[s], p) \in Participants /\ Advanced(mem[s], p).status = mem[s].row[b].status
  BY <1>1, <1>2, <1>3, AdvancedIs
<1>. QED
  BY <1>3, <1>4, StrandHandled

LEMMA StrandActs ==
  ASSUME WarmupInv, StrandInv, NEW s \in Sessions, NEW b \in Accounts, NEW outcome \in Outcomes,
         Act(s, b, outcome)
  PROVE  StrandInv'
<1>. DEFINE t == Today(mem[s], mem[s].row[b])
            p == Advanced(mem[s], t)
<1>1. mem[s] \in Memory /\ mem[s].row[b] \in Participants
  BY DEF WarmupInv, TypeOK, Memory
<1>2. t \in Participants /\ t.status = mem[s].row[b].status
  BY <1>1, TodayIs
<1>3. /\ b \in mem[s].left /\ ~Graduates(mem[s], t)
      /\ mem' = [mem EXCEPT ![s] =
              IF outcome = "done"
              THEN [Handled(mem[s], b, Acted(mem[s], p)) EXCEPT !.acted = @ \cup {b}]
              ELSE Handled(mem[s], b, p)]
      /\ UNCHANGED <<participant, account, orphaned, pc>>
  BY DEF Act, database
<1>. HIDE DEF t
<1>4. p \in Participants /\ p.status = mem[s].row[b].status
  BY <1>1, <1>2, <1>3, AdvancedIs
<1>. HIDE DEF p
<1>5. Acted(mem[s], p) \in Participants /\ Acted(mem[s], p).status = mem[s].row[b].status
  BY <1>1, <1>4, ActedIs
<1>6. CASE outcome = "done"
  <2>1. \E acted : mem' = [mem EXCEPT ![s] = [Handled(mem[s], b, Acted(mem[s], p)) EXCEPT !.acted = acted]]
    BY <1>3, <1>6
  <2>. QED
    BY <1>3, <1>5, <2>1, StrandHandled
<1>7. CASE outcome # "done"
  <2>1. mem' = [mem EXCEPT ![s] = Handled(mem[s], b, p)]
    BY <1>3, <1>7
  <2>. QED
    BY <1>3, <1>4, <2>1, StrandHandled
<1>. QED
  BY <1>6, <1>7

\* What a commit says of the participants it says of their accounts.
LEMMA StrandCommits ==
  ASSUME WarmupInv, StrandInv, OneRun, NEW s \in Sessions, Commit(s)
  PROVE  StrandInv'
<1>. DEFINE m == mem[s]
            rows == [a \in Accounts |-> IF a \in Changed(m) THEN Written(participant[m.run][a], m, a)
                                        ELSE participant[m.run][a]]
<1>0. /\ m \in Memory /\ mem \in [Sessions -> Memory] /\ pc \in [Sessions -> {"idle", "pick", "tick"}]
      /\ participant \in [Runs -> [Accounts -> Participants]]
  BY DEF WarmupInv, TypeOK
<1>1. /\ pc[s] = "tick" /\ EndTurn(s) /\ Changed(m) \cap m.gone = {}
      /\ account' = [a \in Accounts |-> IF a \in m.lifted THEN "active" ELSE account[a]]
      /\ participant' = [participant EXCEPT ![m.run] = rows]
      /\ UNCHANGED orphaned
  BY DEF Commit
<1>2. TicksOneRun(s) /\ \A a \in Accounts : Knows(s, a)
  BY DEF StrandInv
<1>3. m.run \in Runs /\ m.todo = {}
  BY <1>1, <1>2 DEF TicksOneRun
<1>4. /\ mem' = [mem EXCEPT ![s] = Forgotten] /\ pc' = [pc EXCEPT ![s] = "idle"]
  BY <1>0, <1>1, <1>3 DEF EndTurn
<1>5. ASSUME NEW a \in Accounts
      PROVE  rows[a].status = "active"
             \/ participant[m.run][a].status # "active"
             \/ account'[a] # "warming" \/ a \in orphaned
  <2>. SUFFICES ASSUME rows[a].status # "active", participant[m.run][a].status = "active",
                       account'[a] = "warming", a \notin orphaned
                PROVE  FALSE
    OBVIOUS
  <2>1. a \in Changed(m) /\ rows[a] = Written(participant[m.run][a], m, a) /\ a \notin m.gone
    BY <1>1
  <2>2. participant[m.run][a] \in Participants
    BY <1>0, <1>3
  <2>3. m.row[a].status # m.loaded[a].status /\ m.row[a].status # "active"
    BY <1>0, <2>1, <2>2, WrittenIs
  <2>4. MemoryInv(m)
    BY DEF WarmupInv
  <2>5. m.loaded[a].status = "active"
    BY <2>3, <2>4 DEF MemoryInv
  <2>6. account[a] = "warming" /\ a \notin m.lifted
    BY <1>1, <1>0
  <2>. QED
    BY <1>2, <2>1, <2>3, <2>5, <2>6 DEF Knows
<1>. HIDE DEF rows
<1>6. participant' = [participant EXCEPT ![m.run] = rows] /\ participant'[m.run] = rows
  BY <1>0, <1>1, <1>3
<1>7. NoneStranded'
  <2>. SUFFICES ASSUME NEW a \in Accounts, account'[a] = "warming", a \notin orphaned
                PROVE  rows[a].status = "active"
    BY <1>1, <1>3, <1>6 DEF NoneStranded
  <2>1. account[a] = "warming"
    BY <1>1
  <2>2. PICK r \in Runs : participant[r][a].status = "active"
    BY <2>1 DEF StrandInv, NoneStranded
  <2>3. r = m.run
    BY <1>3 DEF OneRun
  <2>. QED
    BY <1>5, <2>2, <2>3
<1>8. TicksOneRun(s)' /\ \A a \in Accounts : Knows(s, a)'
  <2>1. mem'[s] = Forgotten /\ pc'[s] # "tick"
    BY <1>0, <1>4
  <2>. QED
    BY <2>1, ForgottenStrands
<1>9. ASSUME NEW q \in Sessions, q # s PROVE TicksOneRun(q)' /\ \A a \in Accounts : Knows(q, a)'
  <2>1. mem'[q] = mem[q] /\ pc'[q] = pc[q] /\ orphaned' = orphaned
    BY <1>0, <1>1, <1>4, <1>9
  <2>2. TicksOneRun(q) /\ \A a \in Accounts : Knows(q, a)
    BY DEF StrandInv
  <2>3. \A a \in Accounts : account'[a] = "warming" => account[a] = "warming"
    BY <1>1
  <2>. QED
    BY <2>1, <2>2, <2>3 DEF TicksOneRun, Knows
<1>. QED
  BY <1>7, <1>8, <1>9 DEF StrandInv

LEMMA StrandRollsBack ==
  ASSUME WarmupInv, StrandInv, NEW s \in Sessions, RollBack(s)
  PROVE  StrandInv'
<1>0. mem \in [Sessions -> Memory] /\ pc \in [Sessions -> {"idle", "pick", "tick"}]
  BY DEF WarmupInv, TypeOK
<1>1. /\ mem' = [mem EXCEPT ![s] = Forgotten] /\ pc' = [pc EXCEPT ![s] = "idle"]
      /\ UNCHANGED <<participant, account, orphaned>>
  BY DEF RollBack, database
<1>2. mem'[s] = Forgotten /\ pc'[s] # "tick" /\ \A q \in Sessions \ {s} : mem'[q] = mem[q] /\ pc'[q] = pc[q]
  BY <1>0, <1>1
<1>3. TicksOneRun(s)' /\ \A a \in Accounts : Knows(s, a)'
  BY <1>2, ForgottenStrands
<1>. QED
  BY <1>1, <1>2, <1>3, StrandSession

LEMMA StrandNext ==
  ASSUME OneRun
  PROVE  WarmupInv /\ StrandInv /\ [Next]_vars => StrandInv'
<1>. SUFFICES ASSUME WarmupInv, StrandInv, [Next]_vars PROVE StrandInv'
  OBVIOUS
<1>1. CASE PassTime
  BY <1>1, StrandPassTime
<1>2. CASE Manager
  BY <1>2, StrandManager
<1>3. ASSUME NEW s \in Sessions, TickStep(s) \/ Crash(s) PROVE StrandInv'
  <2>1. CASE \E r \in Runs : Load(s, r)
    BY <2>1, StrandLoads
  <2>2. CASE \E a \in Accounts : Graduate(s, a)
    BY <2>2, StrandGraduates
  <2>3. CASE \E a \in Accounts : Skip(s, a)
    BY <2>3, StrandSkips
  <2>4. CASE \E a \in Accounts, outcome \in Outcomes : Act(s, a, outcome)
    BY <2>4, StrandActs
  <2>5. CASE Commit(s)
    BY <2>5, StrandCommits
  <2>6. CASE CommitFails(s) \/ Crash(s)
    BY <2>6, StrandRollsBack DEF CommitFails, Crash
  <2>. QED
    BY <1>3, <2>1, <2>2, <2>3, <2>4, <2>5, <2>6 DEF TickStep
<1>4. ASSUME NEW s \in Workers, BeginSweep(s) PROVE StrandInv'
  BY <1>4, StrandBegins DEF Sessions
<1>5. ASSUME NEW s \in Requests, NEW r \in Runs, BeginManual(s, r) PROVE StrandInv'
  BY <1>5, StrandBegins DEF Sessions
<1>6. CASE UNCHANGED vars
  <2>1. UNCHANGED <<participant, account, pc, mem, orphaned>>
    BY <1>6 DEF vars, database, sessions, ghosts
  <2>2. NoneStranded'
    BY <2>1 DEF StrandInv, NoneStranded
  <2>. QED
    BY <2>1, <2>2, StrandQuiet
<1>. QED
  BY <1>1, <1>2, <1>3, <1>4, <1>5, <1>6 DEF Next

-----------------------------------------------------------------------------
(***************************************************************************)
(* The theorems.                                                           *)
(***************************************************************************)

LEMMA WarmupInvariant == Spec => []WarmupInv
  BY WarmupInitially, WarmupNext, PTL DEF Spec

\* The rows, what the sessions keep of them and the observer's counters stay in their
\* types: no stage is passed after the last one, and no age outgrows its bound
\* (services/warmup.py:236-300).
THEOREM WarmupTypes == Spec => []TypeOK
<1>1. WarmupInv => TypeOK
  BY DEF WarmupInv
<1>. QED
  BY <1>1, WarmupInvariant, PTL

\* However ticks, crashes, managers and health checks overlap, a tick lets a participant
\* graduate only after the days of all its stages, and takes no account out of a
\* quarantine it was in when the session began (services/warmup.py:249-266).
THEOREM GraduationIsEarned == Spec => GraduationHolds
<1>1. WarmupInv /\ [Next]_vars => [/\ \A r \in Runs, a \in Accounts : RampIsFull(r, a)
                                   /\ \A s \in Sessions, a \in Accounts : QuarantineStands(s, a)]_vars
  BY GraduationStep
<1>. QED
  BY <1>1, WarmupInvariant, PTL DEF Spec, GraduationHolds

\* As long as there is one run, nobody is left warming who takes no part in it: what a
\* tick reads of an account, when it reads it, and what it commits agree, however ticks,
\* crashes, managers and health checks overlap (services/warmup.py:160-164, 181-185, 249-266).
THEOREM NobodyIsStranded == ASSUME OneRun PROVE Spec => []NoneStranded
<1>1. Init => StrandInv
  BY StrandInitially
<1>2. WarmupInv /\ StrandInv /\ [Next]_vars => StrandInv'
  BY StrandNext
<1>3. StrandInv => NoneStranded
  BY DEF StrandInv
<1>. QED
  BY <1>1, <1>2, <1>3, WarmupInvariant, PTL DEF Spec
=============================================================================
