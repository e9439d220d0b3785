------------------------------- MODULE ServicesProofs -------------------------------
(***************************************************************************)
(* Theorems about the components that share no state with one another:      *)
(* Staff, RateLimiter, Backups, Destinations, Realtime, Bots, Threads and     *)
(* ContactBook, each for all values of its constants.                        *)
(***************************************************************************)
EXTENDS Staff, RateLimiter, Backups, Destinations, Realtime, Bots, Threads, ContactBook,
        SequenceTheorems, FiniteSetTheorems, TLAPS

-----------------------------------------------------------------------------
(***************************************************************************)
(* Staff: any users, emails, passwords and requests.                        *)
(***************************************************************************)

\* The requests between their checks and their commit: whom they know, and what they may do.
RequestsHonest ==
    \A r \in StRequests :
        /\ stPc[r] # "idle" => stMem[r] \in StMemory /\ StIsUser(stMem[r].target)
        /\ stPc[r] \in {"me", "password"} =>
              stMem[r].new.role = stMem[r].old.role /\ stMem[r].new.active = stMem[r].old.active
        /\ stPc[r] = "update" /\ stMem[r].by = stMem[r].target =>
              stMem[r].new.active /\ (stMem[r].new.role = "admin" \/ stDemoted)

\* There is an administrator; and who is editing staff is one, and edits alone.
OneEditsStaff ==
    /\ \E u \in StUsers : StIsAdmin(u)
    /\ \A r \in StRequests : stPc[r] = "update" =>
          /\ StIsAdmin(stMem[r].by)
          /\ \A q \in StRequests : stPc[q] = "update" => stMem[q].by = stMem[r].by

StInv ==
    /\ StTypeOK
    /\ RequestsHonest
    /\ stDemoted \/ stRaced \/ OneEditsStaff

-----------------------------------------------------------------------------
(* What the operators return.                                               *)

LEMMA WrittenType ==
  ASSUME NEW old \in StRows, NEW new \in StRows, NEW row \in StRows
  PROVE  /\ StWritten(old, new, row) \in StRows
         /\ StWritten(old, new, row).role = IF new.role = old.role THEN row.role ELSE new.role
         /\ StWritten(old, new, row).active = IF new.active = old.active THEN row.active ELSE new.active
<1>1. DOMAIN row = {"email", "role", "active", "password"}
  BY DEF StRows
<1>. QED
  BY <1>1 DEF StWritten, StRows

LEMMA RowOfUser ==
  ASSUME StTypeOK, NEW u \in StUsers, StIsUser(u)
  PROVE  stUser[u] \in StRows
  BY DEF StTypeOK, StIsUser

\* A user row in the place of nobody leaves every user as it is.
LEMMA UserAdded ==
  ASSUME StTypeOK, NEW u \in StUsers, ~StIsUser(u), NEW row \in StRows,
         stUser' = [stUser EXCEPT ![u] = row]
  PROVE  /\ stUser' \in [StUsers -> StRows \cup {StNobody}]
         /\ \A v \in StUsers : StIsUser(v) => StIsUser(v)' /\ stUser'[v] = stUser[v]
         /\ \A v \in StUsers : StIsAdmin(v) => StIsAdmin(v)'
<1>1. \A v \in StUsers : StIsUser(v) => v # u
  OBVIOUS
<1>2. \A v \in StUsers : StIsUser(v) => stUser'[v] = stUser[v]
  BY <1>1 DEF StTypeOK
<1>. QED
  BY <1>2 DEF StTypeOK, StIsUser, StIsAdmin, StIsActive

-----------------------------------------------------------------------------

LEMMA Initially == StInit => StInv
<1>. SUFFICES ASSUME StInit PROVE StInv
  OBVIOUS
<1>1. StBootstrap \in StRows
  BY StaffAssumption DEF StBootstrap, StRows
<1>2. PICK u \in StUsers : stUser = [v \in StUsers |-> IF v = u THEN StBootstrap ELSE StNobody]
  BY DEF StInit
<1>3. StTypeOK
  BY <1>1, <1>2 DEF StInit, StTypeOK
<1>4. StIsAdmin(u)
  <2>1. stUser[u] = StBootstrap
    BY <1>2
  <2>2. StBootstrap # StNobody
    BY <1>1, StNobodyIsNoRow
  <2>. QED
    BY <2>1, <2>2 DEF StIsAdmin, StIsActive, StIsUser, StBootstrap
<1>5. RequestsHonest /\ OneEditsStaff
  BY <1>4 DEF StInit, RequestsHonest, OneEditsStaff
<1>. QED
  BY <1>3, <1>5 DEF StInv

\* A request that has passed its checks.
LEMMA StartKeeps ==
  ASSUME StInv, NEW r \in StRequests, NEW step \in {"create", "update", "me", "password"},
         NEW mem \in StMemory, StStart(r, step, mem),
         StIsUser(mem.target), stDemoted => stDemoted', stDemoted' \in BOOLEAN,
         step \in {"me", "password"} =>
             mem.new.role = mem.old.role /\ mem.new.active = mem.old.active,
         step = "update" /\ mem.by = mem.target =>
             mem.new.active /\ (mem.new.role = "admin" \/ stDemoted')
  PROVE  StInv'
<1>. USE DEF StInv
<1>1. StTypeOK'
  BY DEF StStart, StTypeOK, stTable
<1>2. stPc' = [stPc EXCEPT ![r] = step] /\ stMem' = [stMem EXCEPT ![r] = mem] /\ stUser' = stUser
  BY DEF StStart, stTable
<1>3. RequestsHonest'
  <2>. SUFFICES ASSUME NEW q \in StRequests
                PROVE  /\ stPc'[q] # "idle" => stMem'[q] \in StMemory /\ StIsUser(stMem[q].target)'
                       /\ stPc'[q] \in {"me", "password"} =>
                             /\ stMem'[q].new.role = stMem'[q].old.role
                             /\ stMem'[q].new.active = stMem'[q].old.active
                       /\ stPc'[q] = "update" /\ stMem'[q].by = stMem'[q].target =>
                             stMem'[q].new.active /\ (stMem'[q].new.role = "admin" \/ stDemoted')
    BY DEF RequestsHonest
  <2>1. CASE q = r
    <3>1. stPc'[q] = step /\ stMem'[q] = mem
      BY <1>2, <2>1 DEF StTypeOK
    <3>. QED
      BY <1>2, <3>1 DEF StIsUser
  <2>2. CASE q # r
    <3>1. stPc'[q] = stPc[q] /\ stMem'[q] = stMem[q]
      BY <1>2, <2>2 DEF StTypeOK
    <3>. QED
      BY <1>2, <3>1 DEF RequestsHonest, StIsUser
  <2>. QED
    BY <2>1, <2>2
<1>4. stDemoted' \/ stRaced' \/ OneEditsStaff'
  <2>. SUFFICES ASSUME ~stDemoted', ~stRaced' PROVE OneEditsStaff'
    OBVIOUS
  <2>1. ~stRaced /\ \A q \in StRequests \ {r} :
            ~(stPc[q] # "idle" /\ step = "update" /\ stPc[q] = "update" /\ stMem[q].by # mem.by)
    BY DEF StStart
  <2>2. OneEditsStaff
    BY <2>1
  <2>3. step = "update" => StIsAdmin(mem.by)
    BY DEF StStart
  <2>4. \A u \in StUsers : StIsAdmin(u)' <=> StIsAdmin(u)
    BY <1>2 DEF StIsAdmin, StIsActive, StIsUser
  <2>5. \A q \in StRequests : q # r => stPc'[q] = stPc[q] /\ stMem'[q] = stMem[q]
    BY <1>2 DEF StTypeOK
  <2>6. stPc'[r] = step /\ stMem'[r] = mem
    BY <1>2 DEF StTypeOK
  <2>7. ASSUME NEW q \in StRequests, stPc'[q] = "update" PROVE StIsAdmin(stMem'[q].by)
    <3>1. CASE q = r
      BY <2>3, <2>6, <2>7, <3>1
    <3>2. CASE q # r
      BY <2>2, <2>5, <2>7, <3>2 DEF OneEditsStaff
    <3>. QED
      BY <3>1, <3>2
  <2>8. ASSUME NEW q \in StRequests, NEW p \in StRequests, stPc'[q] = "update", stPc'[p] = "update"
        PROVE  stMem'[p].by = stMem'[q].by
    <3>1. CASE q # r /\ p # r
      BY <2>2, <2>5, <2>8, <3>1 DEF OneEditsStaff
    <3>2. CASE q = r /\ p # r
      BY <2>1, <2>5, <2>6, <2>8, <3>2
    <3>3. CASE q # r /\ p = r
      BY <2>1, <2>5, <2>6, <2>8, <3>3
    <3>. QED
      BY <3>1, <3>2, <3>3
  <2>9. (\E u \in StUsers : StIsAdmin(u))'
    BY <2>2, <2>4 DEF OneEditsStaff
  <2>10. \A q \in StRequests : stPc'[q] = "update" => StIsAdmin(stMem[q].by)'
    BY <1>2, <2>7 DEF StIsAdmin, StIsActive, StIsUser
  <2>. QED
    BY <2>8, <2>9, <2>10 DEF OneEditsStaff
<1>. QED
  BY <1>1, <1>3, <1>4

\* A request that is over, whatever it has written.
LEMMA CloseKeeps ==
  ASSUME StInv, NEW r \in StRequests, StClose(r),
         stUser' \in [StUsers -> StRows \cup {StNobody}],
         \A v \in StUsers : StIsUser(v) => StIsUser(v)',
         ~stDemoted /\ ~stRaced =>
             /\ \E v \in StUsers : StIsAdmin(v)'
             /\ \A q \in StRequests \ {r}, v \in StUsers :
                    stPc[q] = "update" /\ v = stMem[q].by => StIsAdmin(v)'
  PROVE  StInv'
<1>. USE DEF StInv
<1>1. /\ stPc' = [stPc EXCEPT ![r] = "idle"] /\ stMem' = [stMem EXCEPT ![r] = StNobody]
      /\ stDemoted' = stDemoted /\ stRaced' = stRaced
  BY DEF StClose, stObserved
<1>2. stPc'[r] = "idle" /\ \A q \in StRequests \ {r} : stPc'[q] = stPc[q] /\ stMem'[q] = stMem[q]
  BY <1>1 DEF StTypeOK
<1>3. StTypeOK'
  BY DEF StClose, StTypeOK, stObserved
<1>4. RequestsHonest'
  <2>. SUFFICES ASSUME NEW q \in StRequests, q # r
                PROVE  /\ stPc'[q] # "idle" => stMem'[q] \in StMemory /\ StIsUser(stMem[q].target)'
                       /\ stPc'[q] \in {"me", "password"} =>
                             /\ stMem'[q].new.role = stMem'[q].old.role
                             /\ stMem'[q].new.active = stMem'[q].old.active
                       /\ stPc'[q] = "update" /\ stMem'[q].by = stMem'[q].target =>
                             stMem'[q].new.active /\ (stMem'[q].new.role = "admin" \/ stDemoted')
    BY <1>2 DEF RequestsHonest
  <2>1. stPc[q] # "idle" => stMem[q].target \in StUsers /\ StIsUser(stMem[q].target)
    BY DEF RequestsHonest, StMemory
  <2>2. stPc[q] # "idle" => stUser'[stMem[q].target] # StNobody
    BY <2>1 DEF StIsUser
  <2>. QED
    BY <1>1, <1>2, <2>2 DEF RequestsHonest, StIsUser
<1>5. stDemoted' \/ stRaced' \/ OneEditsStaff'
  <2>. SUFFICES ASSUME ~stDemoted, ~stRaced PROVE OneEditsStaff'
    BY <1>1
  <2>1. \A q \in StRequests : stPc[q] = "update" => stMem[q].by \in StUsers
    BY DEF RequestsHonest, StMemory
  <2>2. \A q \in StRequests, p \in StRequests :
            stPc'[q] = "update" /\ stPc'[p] = "update" => stMem'[p].by = stMem'[q].by
    BY <1>2 DEF OneEditsStaff
  <2>3. ASSUME NEW q \in StRequests, stPc'[q] = "update" PROVE StIsAdmin(stMem[q].by)'
    <3>1. q # r /\ stPc[q] = "update" /\ stMem'[q] = stMem[q]
      BY <1>2, <2>3
    <3>2. PICK v \in StUsers : v = stMem[q].by
      BY <2>1, <3>1
    <3>3. StIsAdmin(v)'
      BY <3>1, <3>2
    <3>. QED
      BY <3>1, <3>2, <3>3 DEF StIsAdmin, StIsActive, StIsUser
  <2>. QED
    BY <2>2, <2>3 DEF OneEditsStaff
<1>. QED
  BY <1>3, <1>4, <1>5

LEMMA CreateKeeps ==
  ASSUME StInv, NEW r \in StRequests, StCreate(r)
  PROVE  StInv'
<1>. USE DEF StInv
<1>1. stMem[r] \in StMemory /\ stMem[r].new \in StRows
  BY DEF StCreate, RequestsHonest, StMemory
<1>2. /\ stUser' \in [StUsers -> StRows \cup {StNobody}]
      /\ \A v \in StUsers : StIsUser(v) => StIsUser(v)'
      /\ \A v \in StUsers : StIsAdmin(v) => StIsAdmin(v)'
  <2>1. CASE stUser' = stUser
    BY <2>1 DEF StTypeOK, StIsAdmin, StIsActive, StIsUser
  <2>2. CASE \E u \in StUsers : ~StIsUser(u) /\ stUser' = [stUser EXCEPT ![u] = stMem[r].new]
    BY <1>1, <2>2, UserAdded
  <2>. QED
    BY <2>1, <2>2 DEF StCreate
<1>3. \A q \in StRequests : stPc[q] = "update" => stMem[q].by \in StUsers
  BY DEF RequestsHonest, StMemory
<1>4. ~stDemoted /\ ~stRaced =>
          /\ \E v \in StUsers : StIsAdmin(v)'
          /\ \A q \in StRequests \ {r}, v \in StUsers :
                 stPc[q] = "update" /\ v = stMem[q].by => StIsAdmin(v)'
  BY <1>2, <1>3 DEF OneEditsStaff
<1>5. StClose(r)
  BY DEF StCreate
<1>. QED
  BY <1>2, <1>4, <1>5, CloseKeeps

LEMMA UpdateKeeps ==
  ASSUME StInv, NEW r \in StRequests, StUpdate(r)
  PROVE  StInv'
<1>. USE DEF StInv
<1>. DEFINE m == stMem[r]
            row == StWritten(m.old, m.new, stUser[m.target])
<1>1. m \in StMemory /\ StIsUser(m.target)
  BY DEF StUpdate, RequestsHonest
<1>2. m.by \in StUsers /\ m.target \in StUsers /\ m.old \in StRows /\ m.new \in StRows
  BY <1>1 DEF StMemory
<1>3. stUser[m.target] \in StRows
  BY <1>1, <1>2, RowOfUser
<1>4. /\ row \in StRows
      /\ row.role = IF m.new.role = m.old.role THEN stUser[m.target].role ELSE m.new.role
      /\ row.active = IF m.new.active = m.old.active THEN stUser[m.target].active ELSE m.new.active
  BY <1>2, <1>3, WrittenType
<1>5. stUser' = stUser \/ stUser' = [stUser EXCEPT ![m.target] = row]
  BY DEF StUpdate
<1>. HIDE DEF m, row
<1>6. /\ stUser' \in [StUsers -> StRows \cup {StNobody}]
      /\ \A v \in StUsers : stUser'[v] = IF v = m.target THEN stUser'[m.target] ELSE stUser[v]
      /\ stUser'[m.target] \in {stUser[m.target], row}
  BY <1>2, <1>4, <1>5 DEF StTypeOK
<1>7. \A v \in StUsers : StIsUser(v) => StIsUser(v)'
  BY <1>3, <1>4, <1>6, StNobodyIsNoRow DEF StIsUser
<1>8. ASSUME ~stDemoted, ~stRaced
      PROVE  \A v \in StUsers : StIsAdmin(v) /\ (v = m.target => stPc[r] # "update" \/ v = m.by) => StIsAdmin(v)'
  <2>. SUFFICES ASSUME NEW v \in StUsers, StIsAdmin(v),
                       v = m.target => stPc[r] # "update" \/ v = m.by
                PROVE  StIsAdmin(v)'
    OBVIOUS
  <2>1. CASE stUser'[v] = stUser[v]
    BY <2>1 DEF StIsAdmin, StIsActive, StIsUser
  <2>2. CASE v = m.target /\ stUser'[v] = row
    <3>1. row.role = "admin" /\ row.active
      <4>1. CASE stPc[r] = "update"
        BY <1>4, <1>8, <2>2, <4>1 DEF RequestsHonest, StIsAdmin, StIsActive, m
      <4>2. CASE stPc[r] # "update"
        BY <1>4, <2>2, <4>2 DEF RequestsHonest, StUpdate, StIsAdmin, StIsActive, m
      <4>. QED
        BY <4>1, <4>2
    <3>. QED
      BY <1>4, <2>2, <3>1, StNobodyIsNoRow DEF StIsAdmin, StIsActive, StIsUser
  <2>. QED
    BY <1>6, <2>1, <2>2
<1>9. ASSUME ~stDemoted, ~stRaced
      PROVE  \A q \in StRequests \ {r}, v \in StUsers :
                 stPc[q] = "update" /\ v = stMem[q].by => StIsAdmin(v)'
  <2>1. OneEditsStaff
    BY <1>9
  <2>2. \A q \in StRequests, v \in StUsers : stPc[q] = "update" /\ v = stMem[q].by =>
            StIsAdmin(v) /\ (stPc[r] = "update" => v = m.by)
    BY <2>1 DEF OneEditsStaff, m
  <2>. QED
    BY <1>8, <1>9, <2>2
<1>10. ASSUME ~stDemoted, ~stRaced PROVE \E v \in StUsers : StIsAdmin(v)'
  <2>1. OneEditsStaff
    BY <1>10
  <2>2. CASE stPc[r] = "update"
    <3>1. StIsAdmin(m.by)
      BY <2>1, <2>2 DEF OneEditsStaff, m
    <3>2. PICK v \in StUsers : v = m.by
      BY <1>2
    <3>. QED
      BY <1>8, <1>10, <3>1, <3>2
  <2>3. CASE stPc[r] # "update"
    BY <1>8, <1>10, <2>1, <2>3 DEF OneEditsStaff
  <2>. QED
    BY <2>2, <2>3
<1>11. StClose(r)
  BY DEF StUpdate
<1>. QED
  BY <1>6, <1>7, <1>9, <1>10, <1>11, CloseKeeps

LEMMA AskingType ==
  ASSUME StTypeOK, NEW by \in StUsers, NEW u \in StUsers, StIsUser(u), NEW new \in StRows
  PROVE  StAsking(by, u, new) \in StMemory
  BY RowOfUser DEF StAsking, StMemory

LEMMA BeginCreateKeeps ==
  ASSUME StInv, NEW r \in StRequests, NEW by \in StUsers, NEW new \in StRows,
         StBeginCreate(r, by, new)
  PROVE  StInv'
<1>1. StIsUser(by)
  BY DEF StBeginCreate, StStart, StAsking, StIsAdmin, StIsActive
<1>2. PICK mem \in StMemory : mem = StAsking(by, by, new)
  BY <1>1, AskingType DEF StInv
<1>3. StStart(r, "create", mem) /\ stDemoted' = stDemoted
  BY <1>2 DEF StBeginCreate
<1>4. StIsUser(mem.target) /\ stDemoted' \in BOOLEAN
  BY <1>1, <1>2, <1>3 DEF StAsking, StInv, StTypeOK
<1>. QED
  BY <1>3, <1>4, StartKeeps

LEMMA BeginUpdateKeeps ==
  ASSUME StInv, NEW r \in StRequests, NEW by \in StUsers, NEW u \in StUsers, NEW new \in StRows,
         StBeginUpdate(r, by, u, new)
  PROVE  StInv'
<1>1. PICK mem \in StMemory : mem = StAsking(by, u, new)
  BY AskingType DEF StBeginUpdate, StInv
<1>2. StStart(r, "update", mem) /\ stDemoted' = (stDemoted \/ (by = u /\ new.role # "admin"))
  BY <1>1 DEF StBeginUpdate
<1>3. mem.by = by /\ mem.target = u /\ mem.new = new
  BY <1>1 DEF StAsking
<1>4. StIsUser(mem.target) /\ (mem.by = mem.target => mem.new.active)
  BY <1>3 DEF StBeginUpdate, StMayUpdate
<1>5. mem.by = mem.target => mem.new.role = "admin" \/ stDemoted'
  BY <1>2, <1>3
<1>6. stDemoted' \in BOOLEAN /\ (stDemoted => stDemoted')
  BY <1>2 DEF StInv, StTypeOK
<1>. QED
  BY <1>2, <1>4, <1>5, <1>6, StartKeeps

LEMMA BeginMeKeeps ==
  ASSUME StInv, NEW r \in StRequests, NEW u \in StUsers, NEW new \in StRows, StBeginMe(r, u, new)
  PROVE  StInv'
<1>1. PICK mem \in StMemory : mem = StAsking(u, u, new)
  BY AskingType DEF StBeginMe, StInv
<1>2. StStart(r, "me", mem) /\ stDemoted' = stDemoted
  BY <1>1 DEF StBeginMe
<1>3. /\ StIsUser(mem.target) /\ stDemoted' \in BOOLEAN
      /\ mem.new.role = mem.old.role /\ mem.new.active = mem.old.active
  BY <1>1, <1>2 DEF StBeginMe, StAsking, StInv, StTypeOK
<1>. QED
  BY <1>2, <1>3, StartKeeps

LEMMA PasswordAsked ==
  ASSUME StTypeOK, NEW r \in StRequests, NEW u \in StUsers, NEW current \in StPasswords,
         NEW password \in StPasswords, StBeginPassword(r, u, current, password)
  PROVE  \E mem \in StMemory :
             /\ StStart(r, "password", mem)
             /\ mem.target = u /\ mem.current = current
             /\ mem.new.role = mem.old.role /\ mem.new.active = mem.old.active
<1>1. stUser[u] \in StRows
  BY RowOfUser DEF StBeginPassword
<1>. DEFINE changed == [stUser[u] EXCEPT !.password = password]
            asked == [StAsking(u, u, changed) EXCEPT !.current = current]
<1>2. /\ changed \in StRows
      /\ changed.role = stUser[u].role /\ changed.active = stUser[u].active
  BY <1>1 DEF StRows
<1>3. StStart(r, "password", asked)
  BY DEF StBeginPassword
<1>. HIDE DEF changed
<1>4. StAsking(u, u, changed) \in StMemory
  BY <1>2, AskingType DEF StBeginPassword
<1>5. asked \in StMemory
  BY <1>4 DEF StMemory
<1>6. asked.target = u /\ asked.current = current /\ asked.new = changed /\ asked.old = stUser[u]
  BY DEF StAsking
<1>. QED
  BY <1>2, <1>3, <1>5, <1>6

LEMMA BeginPasswordKeeps ==
  ASSUME StInv, NEW r \in StRequests, NEW u \in StUsers, NEW current \in StPasswords,
         NEW password \in StPasswords, StBeginPassword(r, u, current, password)
  PROVE  StInv'
<1>1. PICK mem \in StMemory :
          /\ StStart(r, "password", mem)
          /\ mem.target = u /\ mem.current = current
          /\ mem.new.role = mem.old.role /\ mem.new.active = mem.old.active
  BY PasswordAsked DEF StInv
<1>2. StIsUser(mem.target) /\ stDemoted' = stDemoted /\ stDemoted' \in BOOLEAN
  BY <1>1 DEF StBeginPassword, StInv, StTypeOK
<1>. QED
  BY <1>1, <1>2, StartKeeps

LEMMA RestartKeeps ==
  ASSUME StInv, StRestart
  PROVE  StInv'
<1>. USE DEF StInv
<1>1. StBootstrap \in StRows
  BY StaffAssumption DEF StBootstrap, StRows
<1>2. /\ stUser' \in [StUsers -> StRows \cup {StNobody}]
      /\ \A v \in StUsers : StIsAdmin(v) => StIsAdmin(v)'
  <2>1. CASE stUser' = stUser
    BY <2>1 DEF StTypeOK, StIsAdmin, StIsActive, StIsUser
  <2>2. CASE \E u \in StUsers : ~StIsUser(u) /\ stUser' = [stUser EXCEPT ![u] = StBootstrap]
    BY <1>1, <2>2, UserAdded
  <2>. QED
    BY <2>1, <2>2 DEF StRestart
<1>3. StTypeOK'
  BY <1>2 DEF StRestart, StTypeOK, stObserved
<1>4. RequestsHonest'
  BY DEF StRestart, RequestsHonest
<1>5. stDemoted' \/ stRaced' \/ OneEditsStaff'
  BY <1>2 DEF StRestart, OneEditsStaff, stObserved
<1>. QED
  BY <1>3, <1>4, <1>5

LEMMA Inductive == StInv /\ [StNext]_stVars => StInv'
<1>. SUFFICES ASSUME StInv, [StNext]_stVars PROVE StInv'
  OBVIOUS
<1>1. CASE \E u \in StUsers, password \in StPasswords : StLogin(u, password)
  BY <1>1 DEF StLogin, StInv, StTypeOK, RequestsHonest, OneEditsStaff, StIsAdmin, StIsActive,
              StIsUser, stObserved
<1>2. CASE \E r \in StRequests, by \in StUsers, new \in StRows : StBeginCreate(r, by, new)
  BY <1>2, BeginCreateKeeps
<1>3. CASE \E r \in StRequests, by \in StUsers, u \in StUsers, new \in StRows :
               StBeginUpdate(r, by, u, new)
  BY <1>3, BeginUpdateKeeps
<1>4. CASE \E r \in StRequests, u \in StUsers, new \in StRows : StBeginMe(r, u, new)
  BY <1>4, BeginMeKeeps
<1>5. CASE \E r \in StRequests, u \in StUsers, current \in StPasswords, password \in StPasswords :
               StBeginPassword(r, u, current, password)
  BY <1>5, BeginPasswordKeeps
<1>6. CASE \E r \in StRequests : StCreate(r)
  BY <1>6, CreateKeeps
<1>7. CASE \E r \in StRequests : StUpdate(r)
  BY <1>7, UpdateKeeps
<1>8. CASE StRestart
  BY <1>8, RestartKeeps
<1>9. CASE UNCHANGED stVars
  BY <1>9 DEF stVars, stTable, stObserved, StInv, StTypeOK, RequestsHonest, OneEditsStaff,
              StIsAdmin, StIsActive, StIsUser
<1>. QED
  BY <1>1, <1>2, <1>3, <1>4, <1>5, <1>6, <1>7, <1>8, <1>9 DEF StNext

-----------------------------------------------------------------------------

\* Every variable of Staff stays within its type (part of what a run of all the services
\* checks).
THEOREM StaffTypes == StSpec => []StTypeOK
<1>1. StInv => StTypeOK
  BY DEF StInv
<1>. QED
  BY Initially, Inductive, <1>1, PTL DEF StSpec

\* Whatever edits of staff, of profiles and of passwords overlap, and however often the
\* backend starts again, somebody can administer the system: unless an administrator gives up
\* the own role or two of them edit staff at once.
THEOREM AdminStays == StSpec => []AdminRemains
<1>1. StInv => AdminRemains
  BY DEF StInv, OneEditsStaff, AdminRemains
<1>. QED
  BY Initially, Inductive, <1>1, PTL DEF StSpec

-----------------------------------------------------------------------------
(* The password that is replaced.                                           *)

\* A request that changes a password has the user in hand alone, or the user is shared; the
\* password it was given is still the one there.
PasswordsKnown ==
    \A r \in StRequests :
        stPc[r] = "password" /\ stMem[r].target \notin stShared =>
            /\ stUser[stMem[r].target].password = stMem[r].current
            /\ \A q \in StRequests \ {r} : stPc[q] # "idle" => stMem[q].target # stMem[r].target

\* A request that begins leaves it so, if it has the password when it is to change one.
LEMMA StartKnows ==
  ASSUME StInv, PasswordsKnown, NEW r \in StRequests,
         NEW step \in {"create", "update", "me", "password"},
         NEW mem \in StMemory, StStart(r, step, mem),
         step = "password" => stUser[mem.target].password = mem.current
  PROVE  PasswordsKnown'
<1>1. stPc' = [stPc EXCEPT ![r] = step] /\ stMem' = [stMem EXCEPT ![r] = mem] /\ stUser' = stUser
  BY DEF StStart, stTable
<1>2. /\ stPc'[r] = step /\ stMem'[r] = mem
      /\ \A q \in StRequests \ {r} : stPc'[q] = stPc[q] /\ stMem'[q] = stMem[q]
  BY <1>1 DEF StInv, StTypeOK
<1>3. mem.target \in StUsers
  BY DEF StMemory
<1>4. /\ stShared \subseteq stShared'
      /\ \A q \in StRequests \ {r} :
             stPc[q] # "idle" /\ stMem[q].target = mem.target => mem.target \in stShared'
  BY <1>3 DEF StStart
<1>5. ASSUME NEW q \in StRequests, stPc'[q] = "password", stMem'[q].target \notin stShared'
      PROVE  stUser[stMem'[q].target].password = stMem'[q].current
  <2>1. CASE q = r
    BY <1>2, <1>5, <2>1
  <2>2. CASE q # r
    BY <1>2, <1>4, <1>5, <2>2 DEF PasswordsKnown
  <2>. QED
    BY <2>1, <2>2
<1>6. ASSUME NEW q \in StRequests, stPc'[q] = "password", stMem'[q].target \notin stShared',
             NEW p \in StRequests \ {q}, stPc'[p] # "idle"
      PROVE  stMem'[p].target # stMem'[q].target
  <2>1. CASE q = r
    BY <1>2, <1>4, <1>6, <2>1
  <2>2. CASE q # r /\ p = r
    BY <1>2, <1>4, <1>6, <2>2
  <2>3. CASE q # r /\ p # r
    BY <1>2, <1>4, <1>6, <2>3 DEF PasswordsKnown
  <2>. QED
    BY <2>1, <2>2, <2>3
<1>. QED
  BY <1>1, <1>5, <1>6 DEF PasswordsKnown

\* A request that ends leaves it so, if it has written to no user that another has in hand.
LEMMA CloseKnows ==
  ASSUME StInv, PasswordsKnown, NEW r \in StRequests, StClose(r),
         \A q \in StRequests \ {r} :
             stPc[q] = "password" /\ stMem[q].target \notin stShared =>
                 stUser'[stMem[q].target] = stUser[stMem[q].target]
  PROVE  PasswordsKnown'
<1>1. /\ stPc'[r] = "idle" /\ stShared' = stShared
      /\ \A q \in StRequests \ {r} : stPc'[q] = stPc[q] /\ stMem'[q] = stMem[q]
  BY DEF StInv, StTypeOK, StClose, stObserved
<1>. QED
  BY <1>1 DEF PasswordsKnown

LEMMA KnownInductive == StInv /\ PasswordsKnown /\ [StNext]_stVars => PasswordsKnown'
<1>. SUFFICES ASSUME StInv, PasswordsKnown, [StNext]_stVars PROVE PasswordsKnown'
  OBVIOUS
<1>1. CASE \E u \in StUsers, password \in StPasswords : StLogin(u, password)
  BY <1>1 DEF StLogin, PasswordsKnown, stObserved
<1>2. ASSUME NEW r \in StRequests, NEW by \in StUsers, NEW new \in StRows, StBeginCreate(r, by, new)
      PROVE  PasswordsKnown'
  <2>1. StIsUser(by)
    BY <1>2 DEF StBeginCreate, StStart, StAsking, StIsAdmin, StIsActive
  <2>2. PICK mem \in StMemory : mem = StAsking(by, by, new)
    BY <2>1, AskingType DEF StInv
  <2>. QED
    BY <1>2, <2>2, StartKnows DEF StBeginCreate
<1>3. ASSUME NEW r \in StRequests, NEW by \in StUsers, NEW u \in StUsers, NEW new \in StRows,
             StBeginUpdate(r, by, u, new)
      PROVE  PasswordsKnown'
  <2>1. PICK mem \in StMemory : mem = StAsking(by, u, new)
    BY <1>3, AskingType DEF StBeginUpdate, StInv
  <2>. QED
    BY <1>3, <2>1, StartKnows DEF StBeginUpdate
<1>4. ASSUME NEW r \in StRequests, NEW u \in StUsers, NEW new \in StRows, StBeginMe(r, u, new)
      PROVE  PasswordsKnown'
  <2>1. PICK mem \in StMemory : mem = StAsking(u, u, new)
    BY <1>4, AskingType DEF StBeginMe, StInv
  <2>. QED
    BY <1>4, <2>1, StartKnows DEF StBeginMe
<1>5. ASSUME NEW r \in StRequests, NEW u \in StUsers, NEW current \in StPasswords,
             NEW password \in StPasswords, StBeginPassword(r, u, current, password)
      PROVE  PasswordsKnown'
  <2>1. PICK mem \in StMemory : /\ StStart(r, "password", mem)
                                /\ mem.target = u /\ mem.current = current
    BY <1>5, PasswordAsked DEF StInv
  <2>. QED
    BY <1>5, <2>1, StartKnows DEF StBeginPassword, StProven
<1>6. ASSUME NEW r \in StRequests, StCreate(r) PROVE PasswordsKnown'
  <2>1. \A u \in StUsers : StIsUser(u) => stUser'[u] = stUser[u]
    BY <1>6 DEF StCreate, StInv, StTypeOK
  <2>2. \A q \in StRequests : stPc[q] = "password" =>
            stMem[q].target \in StUsers /\ StIsUser(stMem[q].target)
    BY DEF StInv, RequestsHonest, StMemory
  <2>. QED
    BY <1>6, <2>1, <2>2, CloseKnows DEF StCreate
<1>7. ASSUME NEW r \in StRequests, StUpdate(r) PROVE PasswordsKnown'
  <2>1. \A u \in StUsers : u # stMem[r].target => stUser'[u] = stUser[u]
    BY <1>7 DEF StUpdate, StInv, StTypeOK
  <2>2. \A q \in StRequests : stPc[q] = "password" => stMem[q].target \in StUsers
    BY DEF StInv, RequestsHonest, StMemory
  <2>3. \A q \in StRequests \ {r} : stPc[q] = "password" /\ stMem[q].target \notin stShared =>
            stMem[r].target # stMem[q].target
    BY <1>7 DEF StUpdate, PasswordsKnown
  <2>4. StClose(r)
    BY <1>7 DEF StUpdate
  <2>. QED
    BY <2>1, <2>2, <2>3, <2>4, CloseKnows
<1>8. CASE StRestart
  BY <1>8 DEF StRestart, PasswordsKnown
<1>9. CASE UNCHANGED stVars
  BY <1>9 DEF stVars, stTable, stObserved, PasswordsKnown
<1>. QED
  BY <1>1, <1>2, <1>3, <1>4, <1>5, <1>6, <1>7, <1>8, <1>9 DEF StNext

\* Only an update changes the row of a user.
LEMMA OnlyUpdatesWrite ==
  ASSUME StInv, StNext, NEW u \in StUsers, StIsUser(u), stUser'[u] # stUser[u]
  PROVE  \E r \in StRequests : StUpdate(r) /\ stMem[r].target = u
<1>1. ASSUME stUser' = stUser PROVE FALSE
  BY <1>1
<1>2. ASSUME NEW v \in StUsers, ~StIsUser(v), NEW row, stUser' = [stUser EXCEPT ![v] = row]
      PROVE  FALSE
  BY <1>2 DEF StInv, StTypeOK
<1>3. ASSUME NEW r \in StRequests, StUpdate(r) PROVE stMem[r].target = u
  BY <1>3 DEF StUpdate, StInv, StTypeOK
<1>4. ~\E v \in StUsers, password \in StPasswords : StLogin(v, password)
  BY <1>1 DEF StLogin
<1>5. ASSUME NEW r \in StRequests, NEW step, NEW mem PROVE ~StStart(r, step, mem)
  BY <1>1 DEF StStart, stTable
<1>6. ~\E r \in StRequests : StCreate(r)
  BY <1>1, <1>2 DEF StCreate
<1>7. ~StRestart
  BY <1>1, <1>2 DEF StRestart
<1>. QED
  BY <1>3, <1>4, <1>5, <1>6, <1>7
     DEF StNext, StBeginCreate, StBeginUpdate, StBeginMe, StBeginPassword

LEMMA NobodyComesBack ==
  ASSUME StInv, StNext, NEW u \in StUsers
  PROVE  ComesBackKnowingly(u)
<1>. SUFFICES ASSUME StIsUser(u), ~StIsActive(u), StIsActive(u)'
              PROVE  \E r \in StRequests :
                         stPc[r] = "update" /\ stMem[r].target = u /\ ~stMem[r].old.active
  BY DEF ComesBackKnowingly
<1>1. PICK r \in StRequests : StUpdate(r) /\ stMem[r].target = u
  BY OnlyUpdatesWrite DEF StIsActive, StIsUser
<1>. DEFINE m == stMem[r]
            row == StWritten(m.old, m.new, stUser[u])
<1>2. m.old \in StRows /\ m.new \in StRows /\ stUser[u] \in StRows
  BY <1>1, RowOfUser DEF StUpdate, StInv, RequestsHonest, StMemory
<1>3. row.active = IF m.new.active = m.old.active THEN stUser[u].active ELSE m.new.active
  BY <1>2, WrittenType
<1>4. stUser'[u] \in {stUser[u], row}
  BY <1>1 DEF StUpdate, StInv, StTypeOK
<1>5. ~stUser[u].active /\ stUser'[u].active
  BY DEF StIsActive, StIsUser
<1>. HIDE DEF row
<1>6. m.new.active # m.old.active /\ m.new.active
  BY <1>3, <1>4, <1>5
<1>7. ~m.old.active
  BY <1>2, <1>6 DEF StRows
<1>8. stPc[r] = "update"
  BY <1>1, <1>6 DEF StUpdate, StInv, RequestsHonest
<1>. QED
  BY <1>1, <1>7, <1>8

LEMMA NobodyTakesOver ==
  ASSUME StInv, PasswordsKnown, NEW u \in StUsers
  PROVE  PasswordProven(u)
  BY DEF PasswordProven, PasswordsKnown

\* No edit that was begun before a deactivation, or before a change of the password, takes it
\* back: an account comes back only by a request that saw it inactive, and a password is
\* replaced only by who gave it, if no other request had the user in hand.
THEOREM EditsAlwaysStand == StSpec => EditsStand
<1>1. StInit => PasswordsKnown
  BY DEF StInit, PasswordsKnown
<1>2. StInv /\ PasswordsKnown /\ [StNext]_stVars =>
          [\A u \in StUsers : ComesBackKnowingly(u) /\ PasswordProven(u)]_stVars
  BY NobodyComesBack, NobodyTakesOver
<1>. QED
  BY Initially, Inductive, KnownInductive, <1>1, <1>2, PTL DEF StSpec, EditsStand

-----------------------------------------------------------------------------
(***************************************************************************)
(* RateLimiter: any workers, limit, window and failures.                    *)
(***************************************************************************)

\* No counter has counted more than the requests there were.  It makes the types inductive.
CountsAreHits ==
    /\ rlKey.count <= rlHits
    /\ \A w \in RlWorkers : rlCounted[w] <= rlHits /\ rlMemory[w].count <= rlHits
    /\ \A c \in RlCounters, t \in RlTimes : rlPassed[c][t] <= rlHits

RlInv == RlTypeOK /\ CountsAreHits

LEMMA InitInv == RlInit => RlInv
  BY RateLimiterAssumption
     DEF RlInit, RlInv, RlTypeOK, CountsAreHits, RlTimes, RlBuckets, RlNoBucket, RlForever

\* A request that a counter lets pass is noted as one more at this time.
LEMMA PassInv ==
  ASSUME RlInv, NEW c \in RlCounters, NEW count \in Nat, RlPass(c, count), rlHits < RlMaxHits
  PROVE  /\ rlPassed' \in [RlCounters -> [RlTimes -> 0..RlMaxHits]]
         /\ \A d \in RlCounters, t \in RlTimes : rlPassed'[d][t] <= rlHits + 1
<1>. USE RateLimiterAssumption
<1>1. rlNow \in RlTimes /\ rlHits \in Nat /\ RlMaxHits \in Nat
  BY DEF RlInv, RlTypeOK
<1>2. \A d \in RlCounters, t \in RlTimes : rlPassed[d][t] \in 0..RlMaxHits /\ rlPassed[d][t] <= rlHits
  BY DEF RlInv, RlTypeOK, CountsAreHits
<1>3. CASE rlPassed' = rlPassed
  BY <1>1, <1>2, <1>3 DEF RlInv, RlTypeOK
<1>4. CASE rlPassed' = [rlPassed EXCEPT ![c][rlNow] = @ + 1]
  <2>1. \A d \in RlCounters, t \in RlTimes :
           rlPassed'[d][t] = IF d = c /\ t = rlNow THEN rlPassed[d][t] + 1 ELSE rlPassed[d][t]
    BY <1>4 DEF RlInv, RlTypeOK
  <2>2. \A d \in RlCounters, t \in RlTimes :
           rlPassed'[d][t] \in 0..RlMaxHits /\ rlPassed'[d][t] <= rlHits + 1
    BY <1>1, <1>2, <2>1
  <2>3. rlPassed' \in [RlCounters -> [RlTimes -> Nat]]
    BY <1>1, <1>2, <1>4 DEF RlInv, RlTypeOK
  <2>. QED
    BY <2>2, <2>3
<1>. QED
  BY <1>3, <1>4 DEF RlPass
\* The bucket that _MemoryStore.hit leaves.
LEMMA RememberInv ==
  ASSUME RlInv, NEW w \in RlWorkers, RlRemember(w), rlHits < RlMaxHits
  PROVE  /\ rlMemory' \in [RlWorkers -> RlBuckets]
         /\ \A v \in RlWorkers : rlMemory'[v].count <= rlHits + 1
         /\ rlPassed' \in [RlCounters -> [RlTimes -> 0..RlMaxHits]]
         /\ \A c \in RlCounters, t \in RlTimes : rlPassed'[c][t] <= rlHits + 1
<1>. USE RateLimiterAssumption
<1>. DEFINE bucket == IF rlNow >= rlMemory[w].end THEN [count |-> 0, end |-> rlNow + RlWindow]
                      ELSE rlMemory[w]
<1>1. bucket \in RlBuckets /\ bucket.count <= rlHits
  BY DEF RlInv, RlTypeOK, CountsAreHits, RlBuckets, RlTimes, RlForever
<1>2. rlMemory' = [rlMemory EXCEPT ![w] = [bucket EXCEPT !.count = @ + 1]]
      /\ RlPass(w, bucket.count + 1)
  BY DEF RlRemember
<1>. HIDE DEF bucket
<1>3. rlHits \in Nat /\ RlMaxHits \in Nat /\ bucket.count \in Nat
  BY <1>1 DEF RlInv, RlTypeOK, RlBuckets
<1>4. [bucket EXCEPT !.count = @ + 1] \in RlBuckets
      /\ [bucket EXCEPT !.count = @ + 1].count <= rlHits + 1
  BY <1>1, <1>3 DEF RlBuckets
<1>5. /\ rlMemory' \in [RlWorkers -> RlBuckets]
      /\ \A v \in RlWorkers : rlMemory'[v].count <= rlHits + 1
  BY <1>2, <1>3, <1>4 DEF RlInv, RlTypeOK, CountsAreHits, RlBuckets
<1>. QED
  <2>1. w \in RlCounters /\ bucket.count + 1 \in Nat
    BY <1>3 DEF RlCounters
  <2>2. /\ rlPassed' \in [RlCounters -> [RlTimes -> 0..RlMaxHits]]
        /\ \A c \in RlCounters, t \in RlTimes : rlPassed'[c][t] <= rlHits + 1
    BY <1>2, <2>1, PassInv
  <2>. QED
    BY <1>5, <2>2

LEMMA NextInv == RlInv /\ [RlNext]_rlVars => RlInv'
<1>. SUFFICES ASSUME RlInv, [RlNext]_rlVars PROVE RlInv'
  OBVIOUS
<1>. USE RateLimiterAssumption DEF RlInv, rlBounds
<1>1. CASE RlTick
  <2>1. rlNow' \in RlTimes
    BY <1>1 DEF RlTick, RlTypeOK, RlTimes
  <2>2. rlKey' \in RlBuckets /\ rlKey'.count <= rlHits
    BY <1>1 DEF RlTick, RlTypeOK, CountsAreHits, RlBuckets, RlNoBucket, RlForever
  <2>. QED
    BY <1>1, <2>1, <2>2 DEF RlTick, RlTypeOK, CountsAreHits
<1>2. ASSUME NEW w \in RlWorkers, RlIncr(w)
      PROVE  RlInv'
  <2>1. /\ rlKey' \in RlBuckets /\ rlKey'.count <= rlHits + 1 /\ rlKey'.count \in Nat
        /\ rlHits' = rlHits + 1 /\ rlHits' \in 0..RlMaxHits
    BY <1>2 DEF RlIncr, RlTypeOK, CountsAreHits, RlBuckets, RlForever
  <2>2. /\ rlPassed' \in [RlCounters -> [RlTimes -> 0..RlMaxHits]]
        /\ \A c \in RlCounters, t \in RlTimes : rlPassed'[c][t] <= rlHits + 1
    BY <1>2, <2>1, PassInv DEF RlIncr, RlCounters
  <2>3. /\ rlCounted' \in [RlWorkers -> 0..RlMaxHits]
        /\ \A v \in RlWorkers : rlCounted'[v] <= rlHits + 1
    BY <1>2, <2>1 DEF RlIncr, RlTypeOK, CountsAreHits
  <2>4. RlTypeOK'
    BY <1>2, <2>1, <2>2, <2>3 DEF RlIncr, RlTypeOK
  <2>5. CountsAreHits'
    BY <1>2, <2>1, <2>2, <2>3 DEF RlIncr, RlTypeOK, CountsAreHits, RlBuckets
  <2>. QED
    BY <2>4, <2>5
<1>3. ASSUME NEW w \in RlWorkers, RlExpire(w)
      PROVE  RlInv'
  <2>1. rlKey' \in RlBuckets /\ rlKey'.count = rlKey.count
    <3>1. rlKey \in RlBuckets /\ rlNow + RlWindow \in 0..RlForever
      BY DEF RlTypeOK, RlTimes, RlForever
    <3>2. rlKey' = rlKey \/ rlKey' = [rlKey EXCEPT !.end = rlNow + RlWindow]
      BY <1>3 DEF RlExpire
    <3>. QED
      BY <3>1, <3>2 DEF RlBuckets
  <2>2. /\ rlCounted' \in [RlWorkers -> 0..RlMaxHits]
        /\ \A v \in RlWorkers : rlCounted'[v] <= rlHits
    BY <1>3 DEF RlExpire, RlTypeOK, CountsAreHits
  <2>. QED
    BY <1>3, <2>1, <2>2 DEF RlExpire, RlTypeOK, CountsAreHits
<1>4. ASSUME NEW w \in RlWorkers, RlHitMemory(w)
      PROVE  RlInv'
  <2>1. /\ rlMemory' \in [RlWorkers -> RlBuckets]
        /\ \A v \in RlWorkers : rlMemory'[v].count <= rlHits + 1
        /\ rlPassed' \in [RlCounters -> [RlTimes -> 0..RlMaxHits]]
        /\ \A c \in RlCounters, t \in RlTimes : rlPassed'[c][t] <= rlHits + 1
    BY <1>4, RememberInv DEF RlHitMemory
  <2>2. rlHits' = rlHits + 1 /\ rlHits' \in 0..RlMaxHits
    BY <1>4 DEF RlHitMemory, RlTypeOK
  <2>3. RlTypeOK'
    BY <1>4, <2>1, <2>2 DEF RlHitMemory, RlTypeOK
  <2>4. CountsAreHits'
    BY <1>4, <2>1, <2>2 DEF RlHitMemory, RlTypeOK, CountsAreHits, RlBuckets
  <2>. QED
    BY <2>3, <2>4
<1>5. ASSUME NEW w \in RlWorkers, RlRedisFails(w)
      PROVE  RlInv'
  <2>1. /\ rlMemory' \in [RlWorkers -> RlBuckets]
        /\ \A v \in RlWorkers : rlMemory'[v].count <= rlHits + 1
        /\ rlPassed' \in [RlCounters -> [RlTimes -> 0..RlMaxHits]]
        /\ \A c \in RlCounters, t \in RlTimes : rlPassed'[c][t] <= rlHits + 1
    BY <1>5, RememberInv DEF RlRedisFails
  <2>2. /\ rlHits' = rlHits + 1 /\ rlHits' \in 0..RlMaxHits /\ rlFaults' \in 0..RlMaxFaults
        /\ rlRedisOk' \subseteq RlWorkers /\ rlNow' = rlNow
    BY <1>5 DEF RlRedisFails, RlTypeOK
  <2>3. rlKey' \in RlBuckets /\ rlKey'.count <= rlHits + 1
    BY <1>5, <2>2 DEF RlRedisFails, RlTypeOK, CountsAreHits, RlBuckets, RlForever
  <2>4. /\ rlCounted' \in [RlWorkers -> 0..RlMaxHits]
        /\ \A v \in RlWorkers : rlCounted'[v] <= rlHits + 1
    BY <1>5, <2>2 DEF RlRedisFails, RlTypeOK, CountsAreHits
  <2>5. RlTypeOK'
    BY <2>1, <2>2, <2>3, <2>4 DEF RlTypeOK
  <2>6. CountsAreHits'
    BY <2>1, <2>2, <2>3, <2>4 DEF CountsAreHits
  <2>. QED
    BY <2>5, <2>6
<1>6. CASE UNCHANGED rlVars
  BY <1>6 DEF rlVars, rlStores, RlTypeOK, CountsAreHits
<1>. QED
  BY <1>1, <1>2, <1>3, <1>4, <1>5, <1>6 DEF RlNext

\* Every variable of RateLimiter stays within its type.
THEOREM LimiterTypes == RlSpec => []RlTypeOK
<1>1. RlInv => RlTypeOK
  BY DEF RlInv
<1>. QED
  BY <1>1, InitInv, NextInv, PTL DEF RlSpec

-----------------------------------------------------------------------------

\* A worker that keeps to Redis forgets the answer of INCR by its second command only.
LEMMA AnswerIsUsed ==
  ASSUME RlInv, RlNext, NEW w \in RlWorkers,
         rlCounted[w] # 0, rlCounted'[w] = 0, w \in rlRedisOk'
  PROVE  RlExpire(w)
<1>1. ~RlTick
  BY DEF RlTick
<1>2. ASSUME NEW v \in RlWorkers, RlIncr(v) PROVE FALSE
  <2>1. v # w
    BY <1>2 DEF RlIncr
  <2>. QED
    BY <1>2, <2>1 DEF RlIncr, RlInv, RlTypeOK
<1>3. ASSUME NEW v \in RlWorkers, RlExpire(v) PROVE v = w
  BY <1>3 DEF RlExpire, RlInv, RlTypeOK
<1>4. ASSUME NEW v \in RlWorkers, RlHitMemory(v) PROVE FALSE
  BY <1>4 DEF RlHitMemory
<1>5. ASSUME NEW v \in RlWorkers, RlRedisFails(v) PROVE FALSE
  BY <1>5 DEF RlRedisFails, RlInv, RlTypeOK
<1>. QED
  BY <1>1, <1>2, <1>3, <1>4, <1>5 DEF RlNext

\* Whichever worker fails between the two commands, and however the requests interleave, the
\* window of the key has an end as soon as a request has been answered by Redis.
THEOREM WindowAlwaysEnds == RlSpec => WindowEnds
<1>. DEFINE Ends == \A w \in RlWorkers :
                      rlCounted[w] # 0 /\ rlCounted'[w] = 0 /\ w \in rlRedisOk' /\ rlKey'.count # 0
                          => rlKey'.end < RlForever
<1>1. ASSUME RlInv, RlNext, NEW w \in RlWorkers,
             rlCounted[w] # 0, rlCounted'[w] = 0, w \in rlRedisOk', rlKey'.count # 0
      PROVE  rlKey'.end < RlForever
  <2>1. rlKey' = IF rlKey.count # 0 /\ RlSetsEnd(rlCounted[w])
                 THEN [rlKey EXCEPT !.end = rlNow + RlWindow] ELSE rlKey
    BY <1>1, AnswerIsUsed DEF RlExpire
  <2>2. CASE rlKey.count # 0 /\ RlSetsEnd(rlCounted[w])
    BY <2>1, <2>2, RateLimiterAssumption, <1>1
       DEF RlInv, RlTypeOK, RlBuckets, RlTimes, RlForever
  <2>3. CASE ~RlSetsEnd(rlCounted[w])
    <3>1. rlKey.end \in 0..RlForever /\ RlForever \in Nat
      BY <1>1, RateLimiterAssumption DEF RlInv, RlTypeOK, RlBuckets, RlForever
    <3>2. rlKey' = rlKey /\ rlKey.end # RlForever
      BY <2>1, <2>3 DEF RlSetsEnd
    <3>. QED
      BY <3>1, <3>2
  <2>. QED
    BY <1>1, <2>1, <2>2, <2>3
<1>2. RlInv /\ [RlNext]_rlVars => [Ends]_rlVars
  BY <1>1
<1>. QED
  BY <1>2, InitInv, NextInv, PTL DEF RlSpec, WindowEnds

-----------------------------------------------------------------------------
(* Twice the limit.                                                         *)

LEMMA RlHitsAre ==
  ASSUME NEW p, NEW period
  PROVE  /\ IsFiniteSet(RlPassedIn(p, period))
         /\ Cardinality(RlPassedIn(p, period)) \in Nat
<1>1. IsFiniteSet(RlTimes) /\ IsFiniteSet(1..RlMaxHits)
  BY FS_Interval, RateLimiterAssumption DEF RlTimes
<1>2. IsFiniteSet(RlTimes \X (1..RlMaxHits))
  BY <1>1, FS_Product
<1>3. RlPassedIn(p, period) \in SUBSET (RlTimes \X (1..RlMaxHits))
  BY DEF RlPassedIn
<1>4. IsFiniteSet(RlPassedIn(p, period))
  BY <1>2, <1>3, FS_Subset
<1>. QED
  BY <1>4, FS_CardinalityType

\* What passes in a period passes in one of two that cover it.
LEMMA RlHitsSplit ==
  ASSUME NEW p, NEW a, NEW b, NEW c, a \subseteq b \cup c
  PROVE  Cardinality(RlPassedIn(p, a)) <=
            Cardinality(RlPassedIn(p, b)) + Cardinality(RlPassedIn(p, c))
<1>. DEFINE B == RlPassedIn(p, b)  C == RlPassedIn(p, c)
<1>1. RlPassedIn(p, a) \in SUBSET (B \cup C)
  BY DEF RlPassedIn
<1>2. IsFiniteSet(B) /\ IsFiniteSet(C) /\ Cardinality(B) \in Nat /\ Cardinality(C) \in Nat
      /\ Cardinality(RlPassedIn(p, a)) \in Nat
  BY RlHitsAre
<1>. HIDE DEF B, C
<1>3. Cardinality(B \cup C) = Cardinality(B) + Cardinality(C) - Cardinality(B \cap C)
      /\ IsFiniteSet(B \cup C)
  BY <1>2, FS_Union
<1>4. Cardinality(B \cap C) \in Nat
  BY <1>2, FS_Intersection, FS_CardinalityType
<1>5. Cardinality(RlPassedIn(p, a)) <= Cardinality(B \cup C)
  BY <1>1, <1>3, FS_Subset
<1>6. Cardinality(RlPassedIn(p, a)) <= Cardinality(B) + Cardinality(C)
  BY <1>2, <1>3, <1>4, <1>5
<1>. QED
  BY <1>6 DEF B, C

\* A period knows the times that fall in it only.
LEMMA RlHitsSame ==
  ASSUME NEW p, NEW q, NEW period, \A s \in RlTimes \cap period : q[s] = p[s]
  PROVE  RlPassedIn(q, period) = RlPassedIn(p, period)
  BY DEF RlPassedIn

LEMMA RlHitsWithin ==
  ASSUME NEW p, NEW a, NEW b, RlTimes \cap a \subseteq b
  PROVE  Cardinality(RlPassedIn(p, a)) <= Cardinality(RlPassedIn(p, b))
<1>1. RlPassedIn(p, a) \in SUBSET RlPassedIn(p, b)
  BY DEF RlPassedIn
<1>. QED
  BY <1>1, RlHitsAre, FS_Subset

LEMMA RlHitsNone ==
  ASSUME NEW p \in [RlTimes -> Nat], NEW period, \A s \in RlTimes \cap period : p[s] = 0
  PROVE  Cardinality(RlPassedIn(p, period)) = 0
<1>1. RlPassedIn(p, period) = {}
  BY DEF RlPassedIn
<1>. QED
  BY <1>1, FS_EmptySet

\* A request more is one hit more.
LEMMA RlHitsMore ==
  ASSUME NEW p \in [RlTimes -> Nat], NEW q \in [RlTimes -> Nat], NEW now \in RlTimes, NEW period,
         \A s \in RlTimes : q[s] = IF s = now THEN p[s] + 1 ELSE p[s]
  PROVE  Cardinality(RlPassedIn(q, period)) <= Cardinality(RlPassedIn(p, period)) + 1
<1>. DEFINE P == RlPassedIn(p, period)  x == <<now, p[now] + 1>>
<1>1. RlPassedIn(q, period) \subseteq P \cup {x}
  <2>. SUFFICES ASSUME NEW s \in RlTimes \cap period, NEW k \in 1..RlMaxHits, k <= q[s]
                PROVE  <<s, k>> \in P \cup {x}
    BY DEF RlPassedIn
  <2>1. CASE k <= p[s]
    BY <2>1 DEF RlPassedIn
  <2>2. CASE ~(k <= p[s])
    <3>1. p[s] \in Nat /\ q[s] \in Nat /\ k \in Int
      OBVIOUS
    <3>2. s = now /\ k = p[now] + 1
      BY <2>2, <3>1
    <3>. QED
      BY <3>2
  <2>. QED
    BY <2>1, <2>2
<1>2. IsFiniteSet(P) /\ Cardinality(P) \in Nat /\ Cardinality(RlPassedIn(q, period)) \in Nat
  BY RlHitsAre
<1>. HIDE DEF P, x
<1>3. IsFiniteSet(P \cup {x}) /\ Cardinality(P \cup {x}) <= Cardinality(P) + 1
  <2>1. IsFiniteSet(P \cup {x})
        /\ Cardinality(P \cup {x}) = IF x \in P THEN Cardinality(P) ELSE Cardinality(P) + 1
    BY <1>2, FS_AddElement, Zenon
  <2>. QED
    BY <1>2, <2>1
<1>4. Cardinality(RlPassedIn(q, period)) <= Cardinality(P \cup {x})
      /\ Cardinality(P \cup {x}) \in Nat
  BY <1>1, <1>3, FS_Subset, FS_CardinalityType
<1>5. Cardinality(RlPassedIn(q, period)) <= Cardinality(P) + 1
  BY <1>2, <1>3, <1>4
<1>. QED
  BY <1>5 DEF P

\* What one bucket has counted since some time was let pass by the limit, and so was what
\* another let pass in any period before that may share a window with it.
RlSince(p, count, end, b) ==
    /\ \A z \in Int : Cardinality(RlPassedIn(p, b..z)) <= count
                      /\ Cardinality(RlPassedIn(p, b..z)) <= RlLimit
    /\ \A t, z \in Int : t + RlWindow > b /\ z < b => Cardinality(RlPassedIn(p, t..z)) <= RlLimit
    /\ count # 0 => end >= b + RlWindow

RlTwice(p) ==
    \A t \in RlTimes : Cardinality(RlPassedIn(p, t..(t + RlWindow - 1))) <= 2 * RlLimit

RlCounterOK(p, count, end, now) ==
    /\ p \in [RlTimes -> Nat]
    /\ \A s \in RlTimes : p[s] # 0 => s <= now /\ (count # 0 => s < end)
    /\ \E b \in 0..now : RlSince(p, count, end, b)
    /\ RlTwice(p)

LEMMA RlLimits == RlLimit \in Nat /\ RlWindow \in Nat /\ RlWindow > 0 /\ RlTimes \subseteq Nat
                  /\ RlMaxTime \in Nat
  BY RateLimiterAssumption DEF RlTimes

\* A request that is counted, and let pass if its number is within the limit.
LEMMA RlCounts ==
  ASSUME NEW now \in RlTimes, NEW p, NEW q, NEW count \in Nat, NEW end \in Int, NEW to \in Int,
         RlCounterOK(p, count, end, now), q \in [RlTimes -> Nat],
         \/ q = p
         \/ count + 1 <= RlLimit /\ \A s \in RlTimes : q[s] = IF s = now THEN p[s] + 1 ELSE p[s],
         to > now, IF count = 0 THEN to >= now + RlWindow ELSE to >= end
  PROVE  RlCounterOK(q, count + 1, to, now)
<1>0. PICK b \in 0..now : RlSince(p, count, end, b)
  BY DEF RlCounterOK
<1>1. now \in Nat /\ b \in Nat /\ b <= now
  BY RlLimits
<1>2. p \in [RlTimes -> Nat]
  BY DEF RlCounterOK
<1>3. \A s \in RlTimes : s # now => q[s] = p[s]
  OBVIOUS
<1>4. \A s \in RlTimes : q[s] # 0 => s <= now /\ s < to
  BY <1>1, <1>3, RlLimits DEF RlCounterOK
<1>5. ASSUME NEW z \in Int
      PROVE  Cardinality(RlPassedIn(q, b..z)) <= count + 1
             /\ Cardinality(RlPassedIn(q, b..z)) <= RlLimit
  <2>1. Cardinality(RlPassedIn(p, b..z)) <= count /\ Cardinality(RlPassedIn(p, b..z)) <= RlLimit
    BY <1>0 DEF RlSince
  <2>2. Cardinality(RlPassedIn(p, b..z)) \in Nat /\ Cardinality(RlPassedIn(q, b..z)) \in Nat
    BY RlHitsAre
  <2>3. CASE q = p
    BY <2>1, <2>2, <2>3
  <2>4. CASE count + 1 <= RlLimit /\ \A s \in RlTimes : q[s] = IF s = now THEN p[s] + 1 ELSE p[s]
    <3>1. Cardinality(RlPassedIn(q, b..z)) <= Cardinality(RlPassedIn(p, b..z)) + 1
      BY <2>4, <1>2, RlHitsMore
    <3>. QED
      BY <2>1, <2>2, <2>4, <3>1, RlLimits
  <2>. QED
    BY <2>3, <2>4
<1>6. ASSUME NEW t \in Int, NEW z \in Int, t + RlWindow > b, z < b
      PROVE  Cardinality(RlPassedIn(q, t..z)) <= RlLimit
  <2>1. \A s \in RlTimes \cap t..z : q[s] = p[s]
    BY <1>1, <1>3, <1>6
  <2>2. RlPassedIn(q, t..z) = RlPassedIn(p, t..z)
    BY <2>1, RlHitsSame
  <2>. QED
    BY <1>0, <1>6, <2>2 DEF RlSince
<1>7. to >= b + RlWindow
  <2>1. CASE count = 0
    BY <2>1, <1>1, RlLimits
  <2>2. CASE count # 0
    BY <2>2, <1>0, <1>1, RlLimits DEF RlSince
  <2>. QED
    BY <2>1, <2>2
<1>8. RlSince(q, count + 1, to, b)
  BY <1>5, <1>6, <1>7 DEF RlSince
<1>9. RlTwice(q)
  <2>. SUFFICES ASSUME NEW t \in RlTimes
                PROVE  Cardinality(RlPassedIn(q, t..(t + RlWindow - 1))) <= 2 * RlLimit
    BY DEF RlTwice
  <2>0. t \in Nat /\ t + RlWindow - 1 \in Int /\ b - 1 \in Int
    BY RlLimits, <1>1
  <2>1. CASE now < t \/ now > t + RlWindow - 1
    <3>1. \A s \in RlTimes \cap t..(t + RlWindow - 1) : q[s] = p[s]
      BY <2>0, <2>1, <1>1, <1>3, RlLimits
    <3>2. RlPassedIn(q, t..(t + RlWindow - 1)) = RlPassedIn(p, t..(t + RlWindow - 1))
      BY <3>1, RlHitsSame
    <3>. QED
      BY <3>2 DEF RlCounterOK, RlTwice
  <2>2. CASE ~(now < t \/ now > t + RlWindow - 1)
    <3>1. t + RlWindow > b /\ b - 1 < b
      BY <2>0, <2>2, <1>1, RlLimits
    <3>2. t..(t + RlWindow - 1) \subseteq t..(b - 1) \cup b..(t + RlWindow - 1)
      BY <2>0, <1>1, RlLimits
    <3>3. Cardinality(RlPassedIn(q, t..(t + RlWindow - 1))) <=
             Cardinality(RlPassedIn(q, t..(b - 1))) + Cardinality(RlPassedIn(q, b..(t + RlWindow - 1)))
      BY <3>2, RlHitsSplit
    <3>4. Cardinality(RlPassedIn(q, t..(b - 1))) <= RlLimit
      BY <2>0, <3>1, <1>6
    <3>5. Cardinality(RlPassedIn(q, b..(t + RlWindow - 1))) <= RlLimit
      BY <2>0, <1>5
    <3>6. /\ Cardinality(RlPassedIn(q, t..(t + RlWindow - 1))) \in Nat
          /\ Cardinality(RlPassedIn(q, t..(b - 1))) \in Nat
          /\ Cardinality(RlPassedIn(q, b..(t + RlWindow - 1))) \in Nat
      BY RlHitsAre
    <3>. QED
      BY <3>3, <3>4, <3>5, <3>6, RlLimits
  <2>. QED
    BY <2>1, <2>2
<1>. QED
  BY <1>1, <1>4, <1>8, <1>9 DEF RlCounterOK

\* A bucket at its end is given up for an empty one.
LEMMA RlRenews ==
  ASSUME NEW now \in RlTimes, NEW p, NEW count \in Nat, NEW end \in Int, NEW to \in Int,
         RlCounterOK(p, count, end, now), end <= now
  PROVE  RlCounterOK(p, 0, to, now)
<1>0. PICK b \in 0..now : RlSince(p, count, end, b)
  BY DEF RlCounterOK
<1>1. now \in Nat /\ b \in Nat /\ b <= now
  BY RlLimits
<1>2. p \in [RlTimes -> Nat]
  BY DEF RlCounterOK
<1>3. CASE count = 0
  BY <1>0, <1>3 DEF RlCounterOK, RlSince
<1>4. CASE count # 0
  <2>1. \A s \in RlTimes : p[s] # 0 => s < now
    BY <1>1, <1>4, RlLimits DEF RlCounterOK
  <2>2. ASSUME NEW z \in Int
        PROVE  Cardinality(RlPassedIn(p, now..z)) <= 0 /\ Cardinality(RlPassedIn(p, now..z)) <= RlLimit
    <3>1. \A s \in RlTimes \cap now..z : p[s] = 0
      BY <2>1, <1>1, RlLimits
    <3>2. Cardinality(RlPassedIn(p, now..z)) = 0
      BY <3>1, <1>2, RlHitsNone
    <3>. QED
      BY <3>2, RlLimits
  <2>3. ASSUME NEW t \in Int, NEW z \in Int, t + RlWindow > now, z < now
        PROVE  Cardinality(RlPassedIn(p, t..z)) <= RlLimit
    <3>1. end >= b + RlWindow
      BY <1>0, <1>4 DEF RlSince
    <3>2. t > b
      BY <3>1, <2>3, <1>1, RlLimits
    <3>3. RlTimes \cap t..z \subseteq b..z
      BY <3>2, <1>1
    <3>4. Cardinality(RlPassedIn(p, t..z)) <= Cardinality(RlPassedIn(p, b..z))
      BY <3>3, RlHitsWithin
    <3>5. Cardinality(RlPassedIn(p, b..z)) <= RlLimit
      BY <1>0 DEF RlSince
    <3>6. Cardinality(RlPassedIn(p, t..z)) \in Nat /\ Cardinality(RlPassedIn(p, b..z)) \in Nat
      BY RlHitsAre
    <3>. QED
      BY <3>4, <3>5, <3>6, RlLimits
  <2>4. RlSince(p, 0, to, now)
    BY <2>2, <2>3 DEF RlSince
  <2>5. now \in 0..now
    BY <1>1
  <2>. QED
    BY <2>4, <2>5 DEF RlCounterOK
<1>. QED
  BY <1>3, <1>4

\* Time passes, and an end may be put off.
LEMMA RlWaits ==
  ASSUME NEW now \in Nat, NEW later \in Nat, now <= later, NEW p, NEW count \in Nat,
         NEW end \in Int, NEW to \in Int, RlCounterOK(p, count, end, now),
         to >= end \/ to >= now + RlWindow
  PROVE  RlCounterOK(p, count, to, later)
<1>0. PICK b \in 0..now : RlSince(p, count, end, b)
  BY DEF RlCounterOK
<1>1. b \in 0..later
  OBVIOUS
<1>2. RlSince(p, count, to, b)
  <2>1. count # 0 => to >= b + RlWindow
    BY <1>0, RlLimits DEF RlSince
  <2>. QED
    BY <1>0, <2>1 DEF RlSince
<1>3. \A s \in RlTimes : p[s] # 0 => s <= later /\ (count # 0 => s < to)
  BY RlLimits DEF RlCounterOK
<1>. QED
  BY <1>1, <1>2, <1>3 DEF RlCounterOK

\* Every counter is as its bucket says, and a key that Redis holds has not come to its end.
RlCountersOK ==
    /\ RlCounterOK(rlPassed["redis"], rlKey.count, rlKey.end, rlNow)
    /\ \A w \in RlWorkers : RlCounterOK(rlPassed[w], rlMemory[w].count, rlMemory[w].end, rlNow)
    /\ \A w \in RlWorkers : rlMemory[w].count = 0 => rlMemory[w].end = 0
    /\ rlKey.count # 0 => rlKey.end > rlNow

LEMMA RlTyped ==
  ASSUME RlInv
  PROVE  /\ rlNow \in RlTimes /\ rlNow \in Nat /\ rlNow <= RlMaxTime
         /\ rlKey \in [count : Nat, end : Nat]
         /\ \A w \in RlWorkers : rlMemory[w] \in [count : Nat, end : Nat]
         /\ rlPassed \in [RlCounters -> [RlTimes -> Nat]]
         /\ RlForever \in Nat /\ RlForever = RlMaxTime + RlWindow + 1
<1>1. RlForever \in Nat /\ RlForever = RlMaxTime + RlWindow + 1 /\ RlMaxHits \in Nat
  BY RateLimiterAssumption DEF RlForever
<1>. QED
  BY <1>1, RlLimits DEF RlInv, RlTypeOK, RlBuckets, RlTimes

\* One counter is concerned by a request, and may let it pass.
LEMMA RlPassIs ==
  ASSUME RlInv, NEW c \in RlCounters, NEW count \in Nat, RlPass(c, count)
  PROVE  /\ rlPassed' \in [RlCounters -> [RlTimes -> Nat]]
         /\ \A d \in RlCounters : d # c => rlPassed'[d] = rlPassed[d]
         /\ \/ rlPassed'[c] = rlPassed[c]
            \/ /\ count <= RlLimit
               /\ \A s \in RlTimes : rlPassed'[c][s] = IF s = rlNow THEN rlPassed[c][s] + 1
                                                       ELSE rlPassed[c][s]
<1>1. rlPassed \in [RlCounters -> [RlTimes -> Nat]] /\ rlNow \in RlTimes
  BY RlTyped
<1>2. CASE RlAllowed(count)
  <2>1. rlPassed' = [rlPassed EXCEPT ![c][rlNow] = @ + 1] /\ count <= RlLimit
    BY <1>2 DEF RlPass, RlAllowed
  <2>. QED
    BY <1>1, <2>1
<1>3. CASE ~RlAllowed(count)
  BY <1>1, <1>3 DEF RlPass
<1>. QED
  BY <1>2, <1>3

\* A bucket counts one more, at a worker or in Redis.
LEMMA RlOneMore ==
  ASSUME RlInv, NEW c \in RlCounters, NEW count \in Nat, NEW end \in Int, NEW to \in Int,
         RlCounterOK(rlPassed[c], count, end, rlNow), RlPass(c, count + 1),
         to > rlNow, IF count = 0 THEN to >= rlNow + RlWindow ELSE to >= end
  PROVE  RlCounterOK(rlPassed'[c], count + 1, to, rlNow)
<1>1. PICK now : now = rlNow
  OBVIOUS
<1>2. PICK p : p = rlPassed[c]
  OBVIOUS
<1>3. PICK q : q = rlPassed'[c]
  OBVIOUS
<1>4. count + 1 \in Nat
  OBVIOUS
<1>5. q \in [RlTimes -> Nat] /\ now \in RlTimes
  BY <1>1, <1>3, <1>4, RlPassIs, RlTyped
<1>6. \/ q = p
      \/ count + 1 <= RlLimit /\ \A s \in RlTimes : q[s] = IF s = now THEN p[s] + 1 ELSE p[s]
  BY <1>1, <1>2, <1>3, <1>4, RlPassIs
<1>7. RlCounterOK(p, count, end, now) /\ to > now
      /\ IF count = 0 THEN to >= now + RlWindow ELSE to >= end
  BY <1>1, <1>2
<1>8. RlCounterOK(q, count + 1, to, now)
  BY <1>5, <1>6, <1>7, RlCounts
<1>. QED
  BY <1>1, <1>3, <1>8

LEMMA RlSameCounter ==
  ASSUME NEW w \in RlWorkers, RlCountersOK, rlPassed'[w] = rlPassed[w], rlMemory'[w] = rlMemory[w],
         rlNow' = rlNow
  PROVE  RlCounterOK(rlPassed'[w], rlMemory'[w].count, rlMemory'[w].end, rlNow')
<1>1. RlCounterOK(rlPassed[w], rlMemory[w].count, rlMemory[w].end, rlNow)
  BY DEF RlCountersOK
<1>. QED
  BY <1>1

LEMMA RlRenewed ==
  ASSUME RlInv, RlCountersOK, NEW w \in RlWorkers, NEW bucket,
         bucket = IF rlNow >= rlMemory[w].end THEN [count |-> 0, end |-> rlNow + RlWindow]
                  ELSE rlMemory[w]
  PROVE  /\ bucket \in [count : Nat, end : Nat]
         /\ bucket.end > rlNow
         /\ bucket.count = 0 => bucket.end >= rlNow + RlWindow
         /\ RlCounterOK(rlPassed[w], bucket.count, bucket.end, rlNow)
<1>1. rlNow \in RlTimes /\ rlNow \in Nat /\ rlMemory[w] \in [count : Nat, end : Nat]
  BY RlTyped
<1>2. RlCounterOK(rlPassed[w], rlMemory[w].count, rlMemory[w].end, rlNow)
      /\ (rlMemory[w].count = 0 => rlMemory[w].end = 0)
  BY DEF RlCountersOK
<1>3. CASE rlNow >= rlMemory[w].end
  <2>1. bucket = [count |-> 0, end |-> rlNow + RlWindow]
    BY <1>3
  <2>2. RlCounterOK(rlPassed[w], 0, rlNow + RlWindow, rlNow)
    <3>1. PICK p, now, count, end : p = rlPassed[w] /\ now = rlNow /\ count = rlMemory[w].count
                                    /\ end = rlMemory[w].end
      OBVIOUS
    <3>2. now \in RlTimes /\ count \in Nat /\ end \in Int /\ now + RlWindow \in Int
          /\ RlCounterOK(p, count, end, now) /\ end <= now
      BY <3>1, <1>1, <1>2, <1>3, RlLimits
    <3>3. RlCounterOK(p, 0, now + RlWindow, now)
      BY <3>2, RlRenews
    <3>. QED
      BY <3>1, <3>3
  <2>3. rlNow + RlWindow \in Nat /\ rlNow + RlWindow > rlNow
    BY <1>1, RlLimits
  <2>. QED
    BY <2>1, <2>2, <2>3
<1>4. CASE ~(rlNow >= rlMemory[w].end)
  <2>1. bucket = rlMemory[w]
    BY <1>4
  <2>. QED
    BY <2>1, <1>1, <1>2, <1>4
<1>. QED
  BY <1>3, <1>4

LEMMA RlRemembers ==
  ASSUME RlInv, RlCountersOK, NEW w \in RlWorkers, RlRemember(w), rlNow' = rlNow
  PROVE  /\ \A v \in RlWorkers :
              /\ RlCounterOK(rlPassed'[v], rlMemory'[v].count, rlMemory'[v].end, rlNow')
              /\ rlMemory'[v].count = 0 => rlMemory'[v].end = 0
         /\ rlPassed'["redis"] = rlPassed["redis"]
<1>0. w \in RlCounters /\ "redis" \in RlCounters /\ w # "redis" /\ RlWorkers \subseteq RlCounters
  BY RateLimiterAssumption DEF RlCounters
<1>1. PICK bucket : bucket = IF rlNow >= rlMemory[w].end
                             THEN [count |-> 0, end |-> rlNow + RlWindow] ELSE rlMemory[w]
  OBVIOUS
<1>2. /\ rlMemory' = [rlMemory EXCEPT ![w] = [bucket EXCEPT !.count = @ + 1]]
      /\ RlPass(w, bucket.count + 1)
  BY <1>1 DEF RlRemember
<1>3. /\ bucket \in [count : Nat, end : Nat]
      /\ bucket.end > rlNow
      /\ bucket.count = 0 => bucket.end >= rlNow + RlWindow
      /\ RlCounterOK(rlPassed[w], bucket.count, bucket.end, rlNow)
  BY <1>1, RlRenewed
<1>4. PICK count, end : count = bucket.count /\ end = bucket.end
  OBVIOUS
<1>5. count \in Nat /\ end \in Int /\ end > rlNow /\ RlPass(w, count + 1)
      /\ (IF count = 0 THEN end >= rlNow + RlWindow ELSE end >= end)
      /\ RlCounterOK(rlPassed[w], count, end, rlNow)
  BY <1>2, <1>3, <1>4
<1>6. RlCounterOK(rlPassed'[w], count + 1, end, rlNow)
  BY <1>0, <1>5, RlOneMore
<1>7. rlMemory \in [RlWorkers -> RlBuckets]
  BY DEF RlInv, RlTypeOK
<1>8. rlMemory'[w].count = count + 1 /\ rlMemory'[w].end = end
      /\ \A v \in RlWorkers : v # w => rlMemory'[v] = rlMemory[v]
  BY <1>2, <1>3, <1>4, <1>7
<1>9. \A d \in RlCounters : d # w => rlPassed'[d] = rlPassed[d]
  <2>1. bucket.count + 1 \in Nat
    BY <1>3
  <2>. QED
    BY <1>0, <1>2, <2>1, RlPassIs
<1>10. ASSUME NEW v \in RlWorkers
       PROVE  /\ RlCounterOK(rlPassed'[v], rlMemory'[v].count, rlMemory'[v].end, rlNow')
              /\ rlMemory'[v].count = 0 => rlMemory'[v].end = 0
  <2>1. CASE v = w
    <3>1. RlCounterOK(rlPassed'[w], rlMemory'[w].count, rlMemory'[w].end, rlNow')
      BY <1>6, <1>8
    <3>2. rlMemory'[w].count # 0
      BY <1>5, <1>8
    <3>. QED
      BY <2>1, <3>1, <3>2
  <2>2. CASE v # w
    <3>1. rlPassed'[v] = rlPassed[v] /\ rlMemory'[v] = rlMemory[v]
      BY <1>0, <1>8, <1>9, <2>2
    <3>2. RlCounterOK(rlPassed'[v], rlMemory'[v].count, rlMemory'[v].end, rlNow')
      BY <3>1, RlSameCounter
    <3>. QED
      BY <3>1, <3>2 DEF RlCountersOK
  <2>. QED
    BY <2>1, <2>2
<1>. QED
  BY <1>0, <1>9, <1>10

\* INCR, whose answer may be lost.
LEMMA RlKeyCounts ==
  ASSUME RlInv, RlCountersOK,
         rlKey' = [count |-> rlKey.count + 1,
                   end |-> IF rlKey.count = 0 THEN RlForever ELSE rlKey.end],
         RlPass("redis", rlKey.count + 1) \/ rlPassed'["redis"] = rlPassed["redis"]
  PROVE  /\ RlCounterOK(rlPassed'["redis"], rlKey'.count, rlKey'.end, rlNow)
         /\ rlKey'.end > rlNow
<1>0. "redis" \in RlCounters
  BY DEF RlCounters
<1>1. PICK count, end, to : count = rlKey.count /\ end = rlKey.end
                            /\ to = IF count = 0 THEN RlForever ELSE end
  OBVIOUS
<1>2. rlKey'.count = count + 1 /\ rlKey'.end = to
  BY <1>1
<1>3. count \in Nat /\ end \in Int /\ to \in Int /\ to > rlNow
      /\ (IF count = 0 THEN to >= rlNow + RlWindow ELSE to >= end)
      /\ RlCounterOK(rlPassed["redis"], count, end, rlNow)
  BY <1>1, RlTyped, RlLimits DEF RlCountersOK
<1>4. RlCounterOK(rlPassed'["redis"], count + 1, to, rlNow)
  <2>1. CASE RlPass("redis", rlKey.count + 1)
    <3>1. RlPass("redis", count + 1)
      BY <2>1, <1>1
    <3>. QED
      BY <3>1, <1>0, <1>3, RlOneMore
  <2>2. CASE rlPassed'["redis"] = rlPassed["redis"]
    <3>1. PICK p, now : p = rlPassed["redis"] /\ now = rlNow
      OBVIOUS
    <3>2. now \in RlTimes /\ p \in [RlTimes -> Nat] /\ RlCounterOK(p, count, end, now)
          /\ to > now /\ (IF count = 0 THEN to >= now + RlWindow ELSE to >= end)
      BY <3>1, <1>0, <1>3, RlTyped
    <3>3. RlCounterOK(p, count + 1, to, now)
      BY <3>2, <1>3, RlCounts
    <3>. QED
      BY <2>2, <3>1, <3>3
  <2>. QED
    BY <2>1, <2>2
<1>. QED
  BY <1>2, <1>3, <1>4

LEMMA RlCountersStart == RlInit => RlCountersOK
<1>. SUFFICES ASSUME RlInit PROVE RlCountersOK
  OBVIOUS
<1>1. PICK p : p = [t \in RlTimes |-> 0]
  OBVIOUS
<1>2. p \in [RlTimes -> Nat] /\ \A s \in RlTimes : p[s] = 0
  BY <1>1
<1>3. \A period : Cardinality(RlPassedIn(p, period)) = 0
  BY <1>2, RlHitsNone
<1>4. RlSince(p, 0, 0, 0) /\ RlTwice(p)
  BY <1>3, RlLimits DEF RlSince, RlTwice
<1>5. RlCounterOK(p, 0, 0, 0)
  <2>1. 0 \in 0..0
    OBVIOUS
  <2>. QED
    BY <1>2, <1>4, <2>1 DEF RlCounterOK
<1>6. rlNow = 0 /\ rlKey.count = 0 /\ rlKey.end = 0 /\ rlPassed["redis"] = p
      /\ \A w \in RlWorkers : rlPassed[w] = p /\ rlMemory[w].count = 0 /\ rlMemory[w].end = 0
  BY <1>1 DEF RlInit, RlNoBucket, RlCounters
<1>. QED
  BY <1>5, <1>6 DEF RlCountersOK

\* Time goes on, or the key's end is put off: no counter counts.
LEMMA RlTickKeeps == ASSUME RlInv, RlCountersOK, RlTick PROVE RlCountersOK'
<1>1. PICK now, later : now = rlNow /\ later = rlNow'
  OBVIOUS
<1>2. now \in Nat /\ later \in Nat /\ later = now + 1 /\ later \in RlTimes /\ now <= later
      /\ rlPassed' = rlPassed /\ rlMemory' = rlMemory
  BY <1>1, RlTyped, RlLimits DEF RlTick, RlTimes
<1>3. ASSUME NEW w \in RlWorkers
      PROVE  RlCounterOK(rlPassed[w], rlMemory[w].count, rlMemory[w].end, later)
  <2>1. PICK p, count, end : p = rlPassed[w] /\ count = rlMemory[w].count /\ end = rlMemory[w].end
    OBVIOUS
  <2>2. count \in Nat /\ end \in Int /\ end >= end /\ RlCounterOK(p, count, end, now)
    BY <2>1, <1>1, RlTyped DEF RlCountersOK
  <2>3. RlCounterOK(p, count, end, later)
    BY <2>2, <1>2, RlWaits
  <2>. QED
    BY <2>1, <2>3
<1>4. PICK p, count, end : p = rlPassed["redis"] /\ count = rlKey.count /\ end = rlKey.end
  OBVIOUS
<1>5. count \in Nat /\ end \in Int /\ end >= end /\ RlCounterOK(p, count, end, now)
  BY <1>4, <1>1, RlTyped DEF RlCountersOK
<1>6. RlCounterOK(p, count, end, later)
  BY <1>5, <1>2, RlWaits
<1>7. RlCounterOK(rlPassed'["redis"], rlKey'.count, rlKey'.end, later)
      /\ (rlKey'.count # 0 => rlKey'.end > later)
  <2>1. CASE end <= later
    <3>1. rlKey'.count = 0 /\ rlKey'.end = 0
      BY <2>1, <1>1, <1>4 DEF RlTick, RlNoBucket
    <3>2. RlCounterOK(p, 0, 0, later)
      BY <2>1, <1>2, <1>5, <1>6, RlRenews
    <3>. QED
      BY <3>1, <3>2, <1>2, <1>4
  <2>2. CASE ~(end <= later)
    <3>1. rlKey' = rlKey
      BY <2>2, <1>1, <1>4 DEF RlTick
    <3>. QED
      BY <3>1, <2>2, <1>2, <1>4, <1>5, <1>6
  <2>. QED
    BY <2>1, <2>2
<1>8. ASSUME NEW w \in RlWorkers
      PROVE  /\ RlCounterOK(rlPassed'[w], rlMemory'[w].count, rlMemory'[w].end, rlNow')
             /\ rlMemory'[w].count = 0 => rlMemory'[w].end = 0
  BY <1>1, <1>2, <1>3 DEF RlCountersOK
<1>9. RlCounterOK(rlPassed'["redis"], rlKey'.count, rlKey'.end, rlNow')
      /\ (rlKey'.count # 0 => rlKey'.end > rlNow')
  BY <1>1, <1>7
<1>. QED
  BY <1>8, <1>9 DEF RlCountersOK

LEMMA RlIncrKeeps ==
  ASSUME RlInv, RlCountersOK, NEW w \in RlWorkers, RlIncr(w)
  PROVE  RlCountersOK'
<1>1. /\ rlKey' = [count |-> rlKey.count + 1,
                   end |-> IF rlKey.count = 0 THEN RlForever ELSE rlKey.end]
      /\ RlPass("redis", rlKey'.count)
      /\ rlNow' = rlNow /\ rlMemory' = rlMemory
  BY DEF RlIncr
<1>2. RlPass("redis", rlKey.count + 1)
  BY <1>1
<1>3. RlCounterOK(rlPassed'["redis"], rlKey'.count, rlKey'.end, rlNow) /\ rlKey'.end > rlNow
  BY <1>1, <1>2, RlKeyCounts
<1>4. rlKey.count + 1 \in Nat /\ "redis" \in RlCounters
      /\ \A v \in RlWorkers : v \in RlCounters /\ v # "redis"
  BY RlTyped, RateLimiterAssumption DEF RlCounters
<1>5. \A v \in RlWorkers : rlPassed'[v] = rlPassed[v]
  BY <1>2, <1>4, RlPassIs
<1>6. ASSUME NEW v \in RlWorkers
      PROVE  /\ RlCounterOK(rlPassed'[v], rlMemory'[v].count, rlMemory'[v].end, rlNow')
             /\ rlMemory'[v].count = 0 => rlMemory'[v].end = 0
  <2>1. rlMemory'[v] = rlMemory[v] /\ rlPassed'[v] = rlPassed[v] /\ rlNow' = rlNow
    BY <1>1, <1>5
  <2>2. RlCounterOK(rlPassed'[v], rlMemory'[v].count, rlMemory'[v].end, rlNow')
    BY <2>1, RlSameCounter
  <2>. QED
    BY <2>1, <2>2 DEF RlCountersOK
<1>. QED
  BY <1>1, <1>3, <1>6 DEF RlCountersOK

LEMMA RlExpireKeeps ==
  ASSUME RlInv, RlCountersOK, NEW w \in RlWorkers, RlExpire(w)
  PROVE  RlCountersOK'
<1>1. /\ rlNow' = rlNow /\ rlMemory' = rlMemory /\ rlPassed' = rlPassed
      /\ rlKey' = rlKey \/ rlKey' = [rlKey EXCEPT !.end = rlNow + RlWindow]
  BY DEF RlExpire
<1>2. PICK p, count, end, now, to : /\ p = rlPassed["redis"] /\ count = rlKey.count
                                    /\ end = rlKey.end /\ now = rlNow /\ to = rlKey'.end
  OBVIOUS
<1>3. rlKey'.count = count /\ (to = end \/ to = now + RlWindow)
  BY <1>1, <1>2, RlTyped
<1>4. count \in Nat /\ end \in Int /\ now \in Nat /\ to \in Int /\ now <= now
      /\ RlCounterOK(p, count, end, now) /\ (to >= end \/ to >= now + RlWindow)
      /\ (count # 0 => to > now)
  BY <1>2, <1>3, RlTyped, RlLimits DEF RlCountersOK
<1>5. RlCounterOK(p, count, to, now)
  BY <1>4, RlWaits
<1>6. RlCounterOK(rlPassed'["redis"], rlKey'.count, rlKey'.end, rlNow')
      /\ (rlKey'.count # 0 => rlKey'.end > rlNow')
  BY <1>1, <1>2, <1>3, <1>4, <1>5
<1>7. ASSUME NEW v \in RlWorkers
      PROVE  /\ RlCounterOK(rlPassed'[v], rlMemory'[v].count, rlMemory'[v].end, rlNow')
             /\ rlMemory'[v].count = 0 => rlMemory'[v].end = 0
  BY <1>1 DEF RlCountersOK
<1>. QED
  BY <1>6, <1>7 DEF RlCountersOK

LEMMA RlHitMemoryKeeps ==
  ASSUME RlInv, RlCountersOK, NEW w \in RlWorkers, RlHitMemory(w)
  PROVE  RlCountersOK'
<1>1. RlRemember(w) /\ rlNow' = rlNow /\ rlKey' = rlKey
  BY DEF RlHitMemory
<1>2. /\ \A v \in RlWorkers :
            /\ RlCounterOK(rlPassed'[v], rlMemory'[v].count, rlMemory'[v].end, rlNow')
            /\ rlMemory'[v].count = 0 => rlMemory'[v].end = 0
      /\ rlPassed'["redis"] = rlPassed["redis"]
  BY <1>1, RlRemembers
<1>3. RlCounterOK(rlPassed'["redis"], rlKey'.count, rlKey'.end, rlNow')
      /\ (rlKey'.count # 0 => rlKey'.end > rlNow')
  BY <1>1, <1>2 DEF RlCountersOK
<1>. QED
  BY <1>2, <1>3 DEF RlCountersOK

LEMMA RlRedisFailsKeeps ==
  ASSUME RlInv, RlCountersOK, NEW w \in RlWorkers, RlRedisFails(w)
  PROVE  RlCountersOK'
<1>1. /\ RlRemember(w) /\ rlNow' = rlNow
      /\ \/ rlKey' = rlKey
         \/ rlKey' = [count |-> rlKey.count + 1,
                      end |-> IF rlKey.count = 0 THEN RlForever ELSE rlKey.end]
  BY DEF RlRedisFails
<1>2. /\ \A v \in RlWorkers :
            /\ RlCounterOK(rlPassed'[v], rlMemory'[v].count, rlMemory'[v].end, rlNow')
            /\ rlMemory'[v].count = 0 => rlMemory'[v].end = 0
      /\ rlPassed'["redis"] = rlPassed["redis"]
  BY <1>1, RlRemembers
<1>3. RlCounterOK(rlPassed'["redis"], rlKey'.count, rlKey'.end, rlNow')
      /\ (rlKey'.count # 0 => rlKey'.end > rlNow')
  <2>1. CASE rlKey' = rlKey
    BY <2>1, <1>1, <1>2 DEF RlCountersOK
  <2>2. CASE rlKey' = [count |-> rlKey.count + 1,
                       end |-> IF rlKey.count = 0 THEN RlForever ELSE rlKey.end]
    <3>1. RlCounterOK(rlPassed'["redis"], rlKey'.count, rlKey'.end, rlNow) /\ rlKey'.end > rlNow
      BY <2>2, <1>2, RlKeyCounts
    <3>. QED
      BY <3>1, <1>1
  <2>. QED
    BY <1>1, <2>1, <2>2
<1>. QED
  BY <1>2, <1>3 DEF RlCountersOK

LEMMA RlCountersStep == RlInv /\ RlCountersOK /\ [RlNext]_rlVars => RlCountersOK'
<1>. SUFFICES ASSUME RlInv, RlCountersOK, [RlNext]_rlVars PROVE RlCountersOK'
  OBVIOUS
<1>1. CASE UNCHANGED rlVars
  <2>1. UNCHANGED <<rlNow, rlKey, rlMemory, rlPassed>>
    BY <1>1 DEF rlVars, rlStores
  <2>. QED
    BY <2>1 DEF RlCountersOK
<1>2. CASE RlNext
  <2>. HIDE DEF RlCountersOK, RlInv
  <2>. QED
    BY <1>2, RlTickKeeps, RlIncrKeeps, RlExpireKeeps, RlHitMemoryKeeps, RlRedisFailsKeeps DEF RlNext
<1>. QED
  BY <1>1, <1>2

\* Wherever the windows of a counter fall, whichever workers share it and whenever Redis fails
\* them, it lets at most twice the limit pass in any time of the length of a window: a window
\* that the next request opens begins a full window after the first request of the last one.
THEOREM LimiterLetsTwicePass == RlSpec => []TwiceTheLimit
<1>1. RlCountersOK => TwiceTheLimit
  <2>. SUFFICES ASSUME RlCountersOK, NEW c \in RlCounters, NEW t \in RlTimes
                PROVE  Cardinality(RlPassedIn(rlPassed[c], t..(t + RlWindow - 1))) <= 2 * RlLimit
    BY DEF TwiceTheLimit
  <2>1. RlTwice(rlPassed[c])
    BY DEF RlCountersOK, RlCounterOK, RlCounters
  <2>. QED
    BY <2>1 DEF RlTwice
<1>. QED
  BY <1>1, InitInv, NextInv, RlCountersStart, RlCountersStep, PTL DEF RlSpec

-----------------------------------------------------------------------------
(***************************************************************************)
(* Backups: any jobs, archives and crashes.                                 *)
(***************************************************************************)

\* An archive whose parts agree has the file of the account it says is logged in.
BkSound(content) == content.agrees /\ content.ref => content.file

\* What a job has in hand.  One that makes an archive has read the database before the
\* session files; one that restores an archive has put its session files there before the
\* database; between the two the file can only go with a logout, which is noted.
BkJobSound(j) ==
    /\ bkPc[j] # "idle" => bkMem[j] \in BkMemory
    /\ bkPc[j] # "idle" /\ bkDoing = "logout" => j \in bkLoggedOut
    /\ bkPc[j] \in {"copy", "close"} => ~bkMem[j].content.agrees /\ ~bkMem[j].content.whole
    /\ bkPc[j] = "copy" /\ bkMem[j].content.ref => bkFile \/ j \in bkLoggedOut \/ bkBlamed
    /\ bkPc[j] = "close" /\ bkMem[j].content.ref =>
          bkMem[j].content.file \/ j \in bkLoggedOut \/ bkBlamed
    /\ bkPc[j] \in {"sessions", "database"} => bkBlamed \/ BkSound(bkMem[j].content)
    /\ bkPc[j] = "database" /\ "sessions" \in bkMem[j].content.scope /\ bkMem[j].content.file =>
          bkFile \/ j \in bkLoggedOut

BkInv ==
    /\ BkTypeOK
    /\ LoggedInHasFile
    /\ bkDoing = "login" => bkFile
    /\ \A n \in BkListed : bkBlamed \/ BkSound(bkArchive[n])
    /\ \A j \in BkJobs : BkJobSound(j)

\* An automatic archive is being made.
BkMakesAuto(j) == bkPc[j] \in {"copy", "close"} /\ bkMem[j].content.auto

\* Of the automatic archives one is made at a time, and it began when all the others were
\* old enough.
BkSpacedInv ==
    bkTickRaced \/
        /\ \A i, j \in BkJobs : BkMakesAuto(i) /\ BkMakesAuto(j) => i = j
        /\ \A j \in BkJobs, n \in BkListed :
              BkMakesAuto(j) /\ bkArchive[n].auto /\ bkArchive[n].whole =>
                  bkArchive[n].created + BkInterval <= bkMem[j].content.created
        /\ AutoSpaced

-----------------------------------------------------------------------------
(* What the operators do.                                                   *)

LEMMA NoFileIsNoContent == BkNoFile \notin BkContents
<1>. SUFFICES ASSUME BkNoFile \in BkContents PROVE FALSE
  OBVIOUS
<1>1. BkNoFile.made \in 1..BkMaxJobs
  BY DEF BkContents
<1>2. BkNoFile.made = 0
  BY DEF BkNoFile
<1>. QED
  BY <1>1, <1>2, BackupsAssumption

LEMMA ListedType ==
  ASSUME BkTypeOK, NEW n \in BkListed
  PROVE  n \in BkNames /\ bkArchive[n] \in BkContents
  BY DEF BkListed, BkTypeOK

\* A job that an action does not touch.
LEMMA OtherJob ==
  ASSUME NEW i \in BkJobs, BkJobSound(i),
         bkPc'[i] = bkPc[i], bkMem'[i] = bkMem[i],
         i \in bkLoggedOut => i \in bkLoggedOut',
         bkBlamed => bkBlamed',
         bkFile => bkFile' \/ bkPc[i] = "idle" \/ i \in bkLoggedOut',
         bkDoing' = "logout" => bkDoing = "logout" \/ bkPc[i] = "idle" \/ i \in bkLoggedOut'
  PROVE  BkJobSound(i)'
  BY DEF BkJobSound

LEMMA IdleJob ==
  ASSUME NEW i \in BkJobs, bkPc'[i] = "idle"
  PROVE  BkJobSound(i)'
  BY DEF BkJobSound

LEMMA ToEffect ==
  ASSUME BkTypeOK, NEW j \in BkJobs,
         NEW step \in {"idle", "copy", "close", "sessions", "database"}, BkTo(j, step)
  PROVE  /\ bkPc' \in [BkJobs -> {"idle", "copy", "close", "sessions", "database"}]
         /\ bkMem' \in [BkJobs -> BkMemory \cup {BkNoMemory}]
         /\ bkLoggedOut' \subseteq BkJobs
         /\ bkPc'[j] = step
         /\ step # "idle" => bkMem' = bkMem /\ bkLoggedOut' = bkLoggedOut
         /\ \A i \in BkJobs \ {j} : /\ bkPc'[i] = bkPc[i] /\ bkMem'[i] = bkMem[i]
                                    /\ i \in bkLoggedOut' <=> i \in bkLoggedOut
<1>1. CASE step = "idle"
  BY <1>1 DEF BkTo, BkTypeOK
<1>2. CASE step # "idle"
  BY <1>2 DEF BkTo, BkTypeOK
<1>. QED
  BY <1>1, <1>2

LEMMA OpenEffect ==
  ASSUME BkTypeOK, NEW j \in BkJobs,
         NEW step \in {"copy", "sessions"}, NEW mem \in BkMemory, BkOpen(j, step, mem)
  PROVE  /\ bkPc' \in [BkJobs -> {"idle", "copy", "close", "sessions", "database"}]
         /\ bkMem' \in [BkJobs -> BkMemory \cup {BkNoMemory}]
         /\ bkLoggedOut' \subseteq BkJobs
         /\ bkJobs' \in 0..BkMaxJobs
         /\ bkPc'[j] = step /\ bkMem'[j] = mem
         /\ bkDoing = "logout" => j \in bkLoggedOut'
         /\ \A i \in BkJobs \ {j} : /\ bkPc'[i] = bkPc[i] /\ bkMem'[i] = bkMem[i]
                                    /\ i \in bkLoggedOut => i \in bkLoggedOut'
  BY BackupsAssumption DEF BkOpen, BkTypeOK

-----------------------------------------------------------------------------
(* Whoever is logged in has the session file.                               *)

LEMMA BkInitially == BkInit => BkInv
<1>. SUFFICES ASSUME BkInit PROVE BkInv
  OBVIOUS
<1>1. BkTypeOK
  <2>1. /\ bkNow \in BkTimes /\ bkJobs \in 0..BkMaxJobs /\ bkLogins \in 0..BkMaxLogins
        /\ bkFaults \in 0..BkMaxFaults
    BY BackupsAssumption DEF BkInit, BkTimes
  <2>2. /\ bkRef \in BOOLEAN /\ bkFile \in BOOLEAN /\ bkBlamed \in BOOLEAN /\ bkTickRaced \in BOOLEAN
        /\ bkDoing \in {"nothing", "login", "logout"} /\ bkLoggedOut \subseteq BkJobs
    BY DEF BkInit
  <2>3. /\ bkArchive \in [BkNames -> BkContents \cup {BkNoFile}]
        /\ bkPc \in [BkJobs -> {"idle", "copy", "close", "sessions", "database"}]
        /\ bkMem \in [BkJobs -> BkMemory \cup {BkNoMemory}]
    BY DEF BkInit
  <2>. QED
    BY <2>1, <2>2, <2>3 DEF BkTypeOK
<1>2. LoggedInHasFile /\ (bkDoing = "login" => bkFile)
  BY DEF BkInit, LoggedInHasFile
<1>3. BkListed = {}
  BY DEF BkInit, BkListed
<1>4. \A j \in BkJobs : BkJobSound(j)
  BY DEF BkInit, BkJobSound
<1>. QED
  BY <1>1, <1>2, <1>3, <1>4 DEF BkInv

\* The steps of time and of the account.
LEMMA AccountSteps ==
  ASSUME BkInv, BkTick \/ BkLogin \/ BkLogout \/ BkKnown
  PROVE  BkInv'
<1>. USE DEF BkInv, bkLive, bkSessions, bkObserved, bkVerdicts
<1>1. /\ bkArchive' = bkArchive /\ bkPc' = bkPc /\ bkMem' = bkMem /\ bkBlamed' = bkBlamed
      /\ \A i \in BkJobs : i \in bkLoggedOut => i \in bkLoggedOut'
      /\ bkJobs' = bkJobs /\ bkFaults' = bkFaults /\ bkTickRaced' = bkTickRaced
  BY DEF BkTick, BkLogin, BkLogout, BkKnown, BkTypeOK
<1>2. BkTypeOK'
  <2>1. bkNow' \in BkTimes
    BY BackupsAssumption DEF BkTypeOK, BkTick, BkLogin, BkLogout, BkKnown, BkTimes
  <2>2. /\ bkLogins' \in 0..BkMaxLogins /\ bkRef' \in BOOLEAN /\ bkFile' \in BOOLEAN
        /\ bkDoing' \in {"nothing", "login", "logout"}
    <3>1. bkLogins \in Nat /\ bkLogins <= BkMaxLogins /\ BkMaxLogins \in Nat
      BY BackupsAssumption DEF BkTypeOK
    <3>2. bkLogins' = bkLogins \/ (bkLogins < BkMaxLogins /\ bkLogins' = bkLogins + 1)
      BY DEF BkTick, BkLogin, BkLogout, BkKnown
    <3>3. bkLogins' \in 0..BkMaxLogins
      BY <3>1, <3>2
    <3>4. bkRef' \in BOOLEAN
      BY Zenon DEF BkTypeOK, BkTick, BkLogin, BkLogout, BkKnown
    <3>5. bkFile' \in BOOLEAN
      BY DEF BkTypeOK, BkTick, BkLogin, BkLogout, BkKnown
    <3>6. bkDoing' \in {"nothing", "login", "logout"}
      BY DEF BkTypeOK, BkTick, BkLogin, BkLogout, BkKnown
    <3>. QED
      BY <3>3, <3>4, <3>5, <3>6
  <2>3. bkLoggedOut' \subseteq BkJobs
    BY DEF BkTypeOK, BkTick, BkLogin, BkLogout, BkKnown
  <2>. QED
    BY <1>1, <2>1, <2>2, <2>3 DEF BkTypeOK
<1>3. LoggedInHasFile' /\ (bkDoing' = "login" => bkFile')
  BY DEF LoggedInHasFile, BkTypeOK, BkTick, BkLogin, BkLogout, BkKnown
<1>4. \A n \in BkListed' : bkBlamed' \/ BkSound(bkArchive'[n])
  BY <1>1 DEF BkListed
<1>5. ASSUME NEW i \in BkJobs PROVE BkJobSound(i)'
  <2>1. bkFile => bkFile' \/ bkPc[i] = "idle" \/ i \in bkLoggedOut'
    BY DEF BkTick, BkLogin, BkLogout, BkKnown
  <2>2. bkDoing' = "logout" => bkDoing = "logout" \/ bkPc[i] = "idle" \/ i \in bkLoggedOut'
    BY DEF BkTick, BkLogin, BkLogout, BkKnown
  <2>. QED
    BY <1>1, <2>1, <2>2, OtherJob
<1>. QED
  BY <1>2, <1>3, <1>4, <1>5

\* A job is begun: an archive, or the restore of one.
LEMMA OpenKeeps ==
  ASSUME BkInv, NEW j \in BkJobs,
         NEW step \in {"copy", "sessions"}, NEW mem \in BkMemory, BkOpen(j, step, mem),
         UNCHANGED <<bkNow, bkLive, bkArchive, bkBlamed, bkFaults>>, bkTickRaced' \in BOOLEAN,
         step = "copy" => /\ ~mem.content.agrees /\ ~mem.content.whole
                          /\ mem.content.ref = bkRef,
         step = "sessions" => bkBlamed \/ BkSound(mem.content)
  PROVE  BkInv'
<1>. USE DEF BkInv, bkLive
<1>1. /\ bkPc' \in [BkJobs -> {"idle", "copy", "close", "sessions", "database"}]
      /\ bkMem' \in [BkJobs -> BkMemory \cup {BkNoMemory}]
      /\ bkLoggedOut' \subseteq BkJobs
      /\ bkJobs' \in 0..BkMaxJobs
      /\ bkPc'[j] = step /\ bkMem'[j] = mem
      /\ bkDoing = "logout" => j \in bkLoggedOut'
      /\ \A i \in BkJobs \ {j} : /\ bkPc'[i] = bkPc[i] /\ bkMem'[i] = bkMem[i]
                                 /\ i \in bkLoggedOut => i \in bkLoggedOut'
  BY OpenEffect
<1>2. BkTypeOK'
  BY <1>1 DEF BkTypeOK
<1>3. LoggedInHasFile' /\ (bkDoing' = "login" => bkFile')
  BY DEF LoggedInHasFile
<1>4. \A n \in BkListed' : bkBlamed' \/ BkSound(bkArchive'[n])
  BY DEF BkListed
<1>5. ASSUME NEW i \in BkJobs PROVE BkJobSound(i)'
  <2>1. CASE i # j
    BY <1>1, <2>1, OtherJob
  <2>2. CASE i = j
    BY <1>1, <2>2 DEF BkJobSound, LoggedInHasFile
  <2>. QED
    BY <2>1, <2>2
<1>. QED
  BY <1>2, <1>3, <1>4, <1>5

LEMMA BeginSteps ==
  ASSUME BkInv, NEW j \in BkJobs, NEW scope \in BkScopes, NEW auto \in BOOLEAN,
         BkBegin(j, scope, auto)
  PROVE  BkInv'
<1>. DEFINE content == BkPut([scope |-> scope, ref |-> FALSE, file |-> FALSE, agrees |-> FALSE,
                              created |-> bkNow, auto |-> auto, whole |-> FALSE,
                              made |-> bkJobs + 1], "database")
            mem == [name |-> <<bkNow, 0>>, content |-> content]
<1>1. content = [scope |-> scope, ref |-> bkRef, file |-> FALSE, agrees |-> FALSE,
                 created |-> bkNow, auto |-> auto, whole |-> FALSE, made |-> bkJobs + 1]
  BY DEF BkPut
<1>2. bkJobs + 1 \in 1..BkMaxJobs
  BY BackupsAssumption DEF BkBegin, BkOpen, BkInv, BkTypeOK
<1>3. content \in BkContents
  <2>1. bkRef \in BOOLEAN /\ bkNow \in BkTimes
    BY DEF BkInv, BkTypeOK
  <2>. HIDE DEF content
  <2>. QED
    BY <1>1, <1>2, <2>1 DEF BkContents
<1>4. mem \in BkMemory
  BY <1>3, BackupsAssumption DEF BkMemory, BkNames, BkInv, BkTypeOK
<1>5. /\ BkOpen(j, "copy", mem) /\ bkTickRaced' \in BOOLEAN
      /\ UNCHANGED <<bkNow, bkLive, bkArchive, bkBlamed, bkFaults>>
  BY DEF BkBegin, BkInv, BkTypeOK
<1>6. ~mem.content.agrees /\ ~mem.content.whole /\ mem.content.ref = bkRef
  BY <1>1
<1>. HIDE DEF mem, content
<1>. QED
  BY <1>4, <1>5, <1>6, OpenKeeps

LEMMA BeginRestoreSteps ==
  ASSUME BkInv, NEW j \in BkJobs, NEW n \in BkNames, BkBeginRestore(j, n)
  PROVE  BkInv'
<1>. DEFINE mem == [name |-> n, content |-> bkArchive[n]]
<1>1. bkArchive[n] \in BkContents /\ n \in BkListed
  BY ListedType DEF BkBeginRestore, BkInv
<1>2. mem \in BkMemory /\ mem.content = bkArchive[n]
  BY <1>1 DEF BkMemory
<1>3. /\ BkOpen(j, "sessions", mem) /\ bkTickRaced' \in BOOLEAN
      /\ UNCHANGED <<bkNow, bkLive, bkArchive, bkBlamed, bkFaults>>
  BY DEF BkBeginRestore, BkInv, BkTypeOK, BkOrder
<1>4. bkBlamed \/ BkSound(bkArchive[n])
  BY <1>1 DEF BkInv
<1>. HIDE DEF mem
<1>. QED
  BY <1>2, <1>3, <1>4, OpenKeeps

LEMMA CopySteps ==
  ASSUME BkInv, NEW j \in BkJobs, BkCopy(j)
  PROVE  BkInv'
<1>. USE DEF BkInv, bkLive, bkObserved, bkVerdicts
<1>. DEFINE old == bkMem[j].content
            content == BkPut(old, "sessions")
            n == bkMem[j].name
<1>1. /\ bkPc[j] = "copy"
      /\ bkArchive' = [bkArchive EXCEPT ![n] = [content EXCEPT !.created = bkNow]]
      /\ bkMem' = [bkMem EXCEPT ![j].content = content]
      /\ bkPc' = [bkPc EXCEPT ![j] = "close"]
      /\ UNCHANGED <<bkNow, bkLive, bkObserved, bkJobs, bkFaults>>
  BY DEF BkCopy
<1>2. bkMem[j] \in BkMemory /\ old \in BkContents /\ n \in BkNames
  BY <1>1 DEF BkJobSound, BkMemory
<1>3. content = [old EXCEPT !.file = bkFile]
  BY DEF BkPut
<1>4. /\ content \in BkContents /\ content.ref = old.ref /\ content.file = bkFile
      /\ content.agrees = old.agrees /\ content.whole = old.whole
  BY <1>2, <1>3 DEF BkContents, BkTypeOK
<1>5. ~old.agrees /\ ~old.whole /\ (old.ref => bkFile \/ j \in bkLoggedOut \/ bkBlamed)
  BY <1>1 DEF BkJobSound
<1>6. bkMem[j] = [name |-> n, content |-> old]
  BY <1>2 DEF BkMemory
<1>. HIDE DEF content, old, n
<1>7. /\ [content EXCEPT !.created = bkNow] \in BkContents
      /\ ~[content EXCEPT !.created = bkNow].agrees
  BY <1>4, <1>5 DEF BkContents, BkTypeOK
<1>8. bkMem' = [bkMem EXCEPT ![j] = [name |-> n, content |-> content]]
  <2>1. bkMem' = [bkMem EXCEPT ![j] = [bkMem[j] EXCEPT !.content = content]]
    BY <1>1
  <2>2. [bkMem[j] EXCEPT !.content = content] = [name |-> n, content |-> content]
    BY <1>6
  <2>. QED
    BY <2>1, <2>2
<1>9. [name |-> n, content |-> content] \in BkMemory
  BY <1>2, <1>4 DEF BkMemory
<1>10. BkTypeOK'
  BY <1>1, <1>2, <1>7, <1>8, <1>9 DEF BkTypeOK
<1>11. LoggedInHasFile' /\ (bkDoing' = "login" => bkFile')
  BY <1>1 DEF LoggedInHasFile
<1>12. ASSUME NEW m \in BkListed' PROVE bkBlamed' \/ BkSound(bkArchive'[m])
  BY <1>1, <1>2, <1>7, <1>12 DEF BkListed, BkTypeOK, BkSound
<1>13. ASSUME NEW i \in BkJobs PROVE BkJobSound(i)'
  <2>1. CASE i # j
    <3>1. bkPc'[i] = bkPc[i] /\ bkMem'[i] = bkMem[i]
      BY <1>1, <1>8, <2>1 DEF BkTypeOK
    <3>. QED
      BY <1>1, <3>1, OtherJob
  <2>2. CASE i = j
    <3>1. bkPc'[i] = "close" /\ bkMem'[i] = [name |-> n, content |-> content]
      BY <1>1, <1>8, <2>2 DEF BkTypeOK
    <3>2. bkMem'[i].content = content
      BY <3>1
    <3>3. bkDoing' = "logout" => i \in bkLoggedOut'
      BY <1>1, <2>2 DEF BkJobSound
    <3>. QED
      BY <1>1, <1>4, <1>5, <1>9, <2>2, <3>1, <3>2, <3>3 DEF BkJobSound
  <2>. QED
    BY <2>1, <2>2
<1>. QED
  BY <1>10, <1>11, <1>12, <1>13

\* An archive is completed and others are pruned: what a name has then.
LEMMA CloseEffect ==
  ASSUME BkInv, NEW j \in BkJobs, BkClose(j)
  PROVE  \E content \in BkContents :
            /\ content.ref = bkMem[j].content.ref /\ content.file = bkMem[j].content.file
            /\ content.auto = bkMem[j].content.auto /\ content.created = bkMem[j].content.created
            /\ content.agrees = (j \notin bkLoggedOut)
            /\ bkArchive' \in [BkNames -> BkContents \cup {BkNoFile}]
            /\ \A m \in BkNames :
                  \/ bkArchive'[m] = BkNoFile
                  \/ bkArchive'[m] = bkArchive[m]
                  \/ m = bkMem[j].name /\ bkArchive'[m] = content
<1>. DEFINE n == bkMem[j].name
            old == bkMem[j].content
            mixed == \E i \in BkJobs \ {j} : bkPc[i] = "close" /\ bkMem[i].name = n
            whole == ~mixed /\ bkArchive[n].made = old.made
            content == [old EXCEPT !.whole = whole, !.agrees = j \notin bkLoggedOut]
            archive == IF bkArchive[n] = BkNoFile THEN bkArchive ELSE [bkArchive EXCEPT ![n] = content]
<1>1. bkPc[j] = "close" /\ \E lost : bkArchive' = BkPruned(archive, lost)
  BY DEF BkClose
<1>2. old \in BkContents /\ n \in BkNames
  BY <1>1 DEF BkInv, BkJobSound, BkMemory
<1>3. whole \in BOOLEAN /\ (j \notin bkLoggedOut) \in BOOLEAN
  OBVIOUS
<1>. HIDE DEF old, whole
<1>4. content \in BkContents
  BY <1>2, <1>3 DEF BkContents
<1>5. /\ content.ref = old.ref /\ content.file = old.file /\ content.auto = old.auto
      /\ content.created = old.created /\ content.agrees = (j \notin bkLoggedOut)
  BY <1>2 DEF BkContents
<1>. HIDE DEF content
<1>6. bkArchive \in [BkNames -> BkContents \cup {BkNoFile}]
  BY DEF BkInv, BkTypeOK
<1>7. /\ archive \in [BkNames -> BkContents \cup {BkNoFile}]
      /\ \A m \in BkNames : archive[m] = bkArchive[m] \/ (m = n /\ archive[m] = content)
  BY <1>2, <1>4, <1>6
<1>. HIDE DEF archive
<1>8. PICK lost : bkArchive' = BkPruned(archive, lost)
  BY <1>1
<1>9. \A m \in BkNames : bkArchive'[m] = IF m \in lost THEN BkNoFile ELSE archive[m]
  BY <1>8 DEF BkPruned
<1>10. bkArchive' \in [BkNames -> BkContents \cup {BkNoFile}]
  BY <1>7, <1>8 DEF BkPruned
<1>. QED
  BY <1>4, <1>5, <1>7, <1>9, <1>10 DEF old

LEMMA UploadEffect ==
  ASSUME BkInv, NEW n \in BkNames, BkUpload(n)
  PROVE  \E content \in BkContents :
            /\ content.ref = bkArchive[n].ref /\ content.file = bkArchive[n].file
            /\ content.agrees = bkArchive[n].agrees /\ content.auto = FALSE
            /\ bkArchive' \in [BkNames -> BkContents \cup {BkNoFile}]
            /\ \A m \in BkNames : bkArchive'[m] = bkArchive[m] \/ bkArchive'[m] = content
<1>. DEFINE old == bkArchive[n]
            content == [old EXCEPT !.created = bkNow, !.auto = FALSE, !.made = bkJobs + 1]
            name == BkUploadName
<1>1. n \in BkListed /\ bkArchive' = [bkArchive EXCEPT ![name] = content] /\ bkJobs < BkMaxJobs
  BY DEF BkUpload
<1>2. old \in BkContents
  BY <1>1, ListedType DEF BkInv
<1>3. bkJobs + 1 \in 1..BkMaxJobs /\ bkNow \in BkTimes
  BY <1>1, BackupsAssumption DEF BkInv, BkTypeOK
<1>. HIDE DEF old, name
<1>4. content \in BkContents
  BY <1>2, <1>3 DEF BkContents
<1>5. /\ content.ref = old.ref /\ content.file = old.file
      /\ content.agrees = old.agrees /\ content.auto = FALSE
  BY <1>2 DEF BkContents
<1>. HIDE DEF content
<1>6. bkArchive \in [BkNames -> BkContents \cup {BkNoFile}]
  BY DEF BkInv, BkTypeOK
<1>7. /\ bkArchive' \in [BkNames -> BkContents \cup {BkNoFile}]
      /\ \A m \in BkNames : bkArchive'[m] = bkArchive[m] \/ bkArchive'[m] = content
  BY <1>1, <1>4, <1>6
<1>. QED
  BY <1>4, <1>5, <1>7 DEF old

\* The archives change and nothing else that the account depends on.
LEMMA ArchivesKeep ==
  ASSUME BkInv, bkArchive' \in [BkNames -> BkContents \cup {BkNoFile}],
         bkJobs' \in 0..BkMaxJobs,
         UNCHANGED <<bkNow, bkLive, bkSessions, bkObserved, bkFaults>>,
         \A m \in BkListed' : bkArchive'[m] = bkArchive[m] \/ bkBlamed \/ BkSound(bkArchive'[m])
  PROVE  BkInv'
<1>. USE DEF BkInv, bkLive, bkSessions, bkObserved, bkVerdicts
<1>1. BkTypeOK'
  BY DEF BkTypeOK
<1>2. LoggedInHasFile' /\ (bkDoing' = "login" => bkFile')
  BY DEF LoggedInHasFile
<1>3. \A m \in BkListed' : bkBlamed' \/ BkSound(bkArchive'[m])
  BY DEF BkListed
<1>4. ASSUME NEW i \in BkJobs PROVE BkJobSound(i)'
  BY OtherJob
<1>. QED
  BY <1>1, <1>2, <1>3, <1>4

LEMMA UploadSteps ==
  ASSUME BkInv, NEW n \in BkNames, BkUpload(n)
  PROVE  BkInv'
<1>1. PICK content \in BkContents :
         /\ content.ref = bkArchive[n].ref /\ content.file = bkArchive[n].file
         /\ content.agrees = bkArchive[n].agrees
         /\ bkArchive' \in [BkNames -> BkContents \cup {BkNoFile}]
         /\ \A m \in BkNames : bkArchive'[m] = bkArchive[m] \/ bkArchive'[m] = content
  BY UploadEffect
<1>2. bkBlamed \/ BkSound(content)
  BY <1>1 DEF BkInv, BkUpload, BkSound
<1>3. bkJobs' \in 0..BkMaxJobs
  BY BackupsAssumption DEF BkUpload, BkInv, BkTypeOK
<1>4. UNCHANGED <<bkNow, bkLive, bkSessions, bkObserved, bkFaults>>
  BY DEF BkUpload
<1>5. \A m \in BkListed' : bkArchive'[m] = bkArchive[m] \/ bkBlamed \/ BkSound(bkArchive'[m])
  BY <1>1, <1>2 DEF BkListed
<1>. QED
  BY <1>1, <1>3, <1>4, <1>5, ArchivesKeep

LEMMA DeleteSteps ==
  ASSUME BkInv, NEW n \in BkNames, BkDelete(n)
  PROVE  BkInv'
<1>1. bkArchive \in [BkNames -> BkContents \cup {BkNoFile}]
  BY DEF BkInv, BkTypeOK
<1>2. /\ bkArchive' \in [BkNames -> BkContents \cup {BkNoFile}]
      /\ \A m \in BkNames : bkArchive'[m] = bkArchive[m] \/ bkArchive'[m] = BkNoFile
  BY <1>1 DEF BkDelete
<1>3. bkJobs' \in 0..BkMaxJobs
  BY BackupsAssumption DEF BkDelete, BkInv, BkTypeOK
<1>4. UNCHANGED <<bkNow, bkLive, bkSessions, bkObserved, bkFaults>>
  BY DEF BkDelete
<1>5. \A m \in BkListed' : bkArchive'[m] = bkArchive[m] \/ bkBlamed \/ BkSound(bkArchive'[m])
  BY <1>2 DEF BkListed
<1>. QED
  BY <1>2, <1>3, <1>4, <1>5, ArchivesKeep

LEMMA CloseSteps ==
  ASSUME BkInv, NEW j \in BkJobs, BkClose(j)
  PROVE  BkInv'
<1>. USE DEF BkInv, bkLive, bkVerdicts
<1>1. PICK content \in BkContents :
         /\ content.ref = bkMem[j].content.ref /\ content.file = bkMem[j].content.file
         /\ content.agrees = (j \notin bkLoggedOut)
         /\ bkArchive' \in [BkNames -> BkContents \cup {BkNoFile}]
         /\ \A m \in BkNames :
               \/ bkArchive'[m] = BkNoFile
               \/ bkArchive'[m] = bkArchive[m]
               \/ m = bkMem[j].name /\ bkArchive'[m] = content
  BY CloseEffect
<1>2. bkPc[j] = "close" /\ BkTo(j, "idle") /\ UNCHANGED <<bkNow, bkLive, bkVerdicts, bkJobs, bkFaults>>
  BY DEF BkClose
<1>3. /\ bkPc' \in [BkJobs -> {"idle", "copy", "close", "sessions", "database"}]
      /\ bkMem' \in [BkJobs -> BkMemory \cup {BkNoMemory}]
      /\ bkLoggedOut' \subseteq BkJobs
      /\ bkPc'[j] = "idle"
      /\ \A i \in BkJobs \ {j} : /\ bkPc'[i] = bkPc[i] /\ bkMem'[i] = bkMem[i]
                                 /\ i \in bkLoggedOut' <=> i \in bkLoggedOut
  BY <1>2, ToEffect
<1>4. BkTypeOK'
  BY <1>1, <1>2, <1>3 DEF BkTypeOK
<1>5. LoggedInHasFile' /\ (bkDoing' = "login" => bkFile')
  BY <1>2 DEF LoggedInHasFile
<1>6. bkBlamed \/ BkSound(content)
  BY <1>1, <1>2 DEF BkJobSound, BkSound
<1>7. \A m \in BkListed' : bkBlamed' \/ BkSound(bkArchive'[m])
  BY <1>1, <1>2, <1>6 DEF BkListed
<1>8. ASSUME NEW i \in BkJobs PROVE BkJobSound(i)'
  <2>1. CASE i # j
    BY <1>2, <1>3, <2>1, OtherJob
  <2>2. CASE i = j
    BY <1>3, <2>2, IdleJob
  <2>. QED
    BY <2>1, <2>2
<1>. QED
  BY <1>4, <1>5, <1>7, <1>8

LEMMA RestoreSessionsSteps ==
  ASSUME BkInv, NEW j \in BkJobs, BkRestoreSessions(j)
  PROVE  BkInv'
<1>. USE DEF BkInv, bkVerdicts
<1>1. /\ bkPc[j] = "sessions" /\ BkTo(j, "database")
      /\ bkFile' = (bkFile \/ ("sessions" \in bkMem[j].content.scope /\ bkMem[j].content.file))
      /\ UNCHANGED <<bkNow, bkRef, bkDoing, bkLogins, bkArchive, bkVerdicts, bkJobs, bkFaults>>
  BY DEF BkRestoreSessions, BkAfter, BkOrder
<1>2. /\ bkPc' \in [BkJobs -> {"idle", "copy", "close", "sessions", "database"}]
      /\ bkMem' = bkMem /\ bkLoggedOut' = bkLoggedOut
      /\ bkPc'[j] = "database"
      /\ \A i \in BkJobs \ {j} : bkPc'[i] = bkPc[i]
  BY <1>1, ToEffect
<1>3. bkMem[j] \in BkMemory /\ bkMem[j].content \in BkContents
  BY <1>1 DEF BkJobSound, BkMemory
<1>4. BkTypeOK'
  <2>1. bkMem[j].content.file \in BOOLEAN
    BY <1>3 DEF BkContents
  <2>2. bkFile' \in BOOLEAN
    BY <1>1
  <2>. QED
    BY <1>1, <1>2, <2>2 DEF BkTypeOK
<1>5. LoggedInHasFile' /\ (bkDoing' = "login" => bkFile')
  BY <1>1 DEF LoggedInHasFile
<1>6. \A m \in BkListed' : bkBlamed' \/ BkSound(bkArchive'[m])
  BY <1>1 DEF BkListed
<1>7. ASSUME NEW i \in BkJobs PROVE BkJobSound(i)'
  <2>1. CASE i # j
    BY <1>1, <1>2, <2>1, OtherJob
  <2>2. CASE i = j
    BY <1>1, <1>2, <2>2 DEF BkJobSound
  <2>. QED
    BY <2>1, <2>2
<1>. QED
  BY <1>4, <1>5, <1>6, <1>7

LEMMA RestoreDatabaseSteps ==
  ASSUME BkInv, NEW j \in BkJobs, BkRestoreDatabase(j)
  PROVE  BkInv'
<1>. USE DEF BkInv
<1>. DEFINE c == bkMem[j].content
            written == "database" \in c.scope /\ ~BkLocksItself(c)
<1>1. /\ bkPc[j] = "database" /\ BkTo(j, "idle")
      /\ IF written
         THEN /\ bkRef' = c.ref
              /\ bkBlamed' = (bkBlamed \/ "sessions" \notin c.scope \/ ~c.agrees \/ j \in bkLoggedOut)
         ELSE UNCHANGED <<bkRef, bkBlamed>>
      /\ UNCHANGED <<bkNow, bkFile, bkDoing, bkLogins, bkArchive, bkTickRaced, bkJobs, bkFaults>>
  <2>1. BkAfter("database") = "idle"
    BY DEF BkAfter, BkOrder
  <2>. QED
    BY <2>1 DEF BkRestoreDatabase
<1>2. /\ bkPc' \in [BkJobs -> {"idle", "copy", "close", "sessions", "database"}]
      /\ bkMem' \in [BkJobs -> BkMemory \cup {BkNoMemory}]
      /\ bkLoggedOut' \subseteq BkJobs
      /\ bkPc'[j] = "idle"
      /\ \A i \in BkJobs \ {j} : /\ bkPc'[i] = bkPc[i] /\ bkMem'[i] = bkMem[i]
                                 /\ i \in bkLoggedOut' <=> i \in bkLoggedOut
  BY <1>1, ToEffect
<1>3. bkMem[j] \in BkMemory /\ c \in BkContents
  BY <1>1 DEF BkJobSound, BkMemory
<1>4. c.ref \in BOOLEAN /\ c.agrees \in BOOLEAN
  BY <1>3 DEF BkContents
<1>5. /\ bkBlamed \/ (c.agrees /\ c.ref => c.file)
      /\ "sessions" \in c.scope /\ c.file => bkFile \/ j \in bkLoggedOut
  BY <1>1 DEF BkJobSound, BkSound
<1>. HIDE DEF c, written
<1>6. bkRef' \in BOOLEAN /\ bkBlamed' \in BOOLEAN /\ (bkBlamed => bkBlamed')
  BY <1>1, <1>4 DEF BkTypeOK
<1>7. BkTypeOK'
  BY <1>1, <1>2, <1>6 DEF BkTypeOK
<1>8. LoggedInHasFile' /\ (bkDoing' = "login" => bkFile')
  BY <1>1, <1>5 DEF LoggedInHasFile
<1>9. \A m \in BkListed' : bkBlamed' \/ BkSound(bkArchive'[m])
  BY <1>1, <1>6 DEF BkListed
<1>10. ASSUME NEW i \in BkJobs PROVE BkJobSound(i)'
  <2>1. CASE i # j
    BY <1>1, <1>2, <1>6, <2>1, OtherJob
  <2>2. CASE i = j
    BY <1>2, <2>2, IdleJob
  <2>. QED
    BY <2>1, <2>2
<1>. QED
  BY <1>7, <1>8, <1>9, <1>10

LEMMA FaultSteps ==
  ASSUME BkInv, NEW j \in BkJobs, BkFault(j)
  PROVE  BkInv'
<1>. USE DEF BkInv, bkLive
<1>1. BkTo(j, "idle") /\ UNCHANGED <<bkNow, bkLive, bkArchive, bkBlamed, bkTickRaced, bkJobs>>
  BY DEF BkFault
<1>2. /\ bkPc' \in [BkJobs -> {"idle", "copy", "close", "sessions", "database"}]
      /\ bkMem' \in [BkJobs -> BkMemory \cup {BkNoMemory}]
      /\ bkLoggedOut' \subseteq BkJobs
      /\ bkPc'[j] = "idle"
      /\ \A i \in BkJobs \ {j} : /\ bkPc'[i] = bkPc[i] /\ bkMem'[i] = bkMem[i]
                                 /\ i \in bkLoggedOut' <=> i \in bkLoggedOut
  BY <1>1, ToEffect
<1>3. BkTypeOK'
  <2>1. bkFaults' \in 0..BkMaxFaults
    BY BackupsAssumption DEF BkFault, BkTypeOK
  <2>. QED
    BY <1>1, <1>2, <2>1 DEF BkTypeOK
<1>4. LoggedInHasFile' /\ (bkDoing' = "login" => bkFile')
  BY <1>1 DEF LoggedInHasFile
<1>5. \A m \in BkListed' : bkBlamed' \/ BkSound(bkArchive'[m])
  BY <1>1 DEF BkListed
<1>6. ASSUME NEW i \in BkJobs PROVE BkJobSound(i)'
  <2>1. CASE i # j
    BY <1>1, <1>2, <2>1, OtherJob
  <2>2. CASE i = j
    BY <1>2, <2>2, IdleJob
  <2>. QED
    BY <2>1, <2>2
<1>. QED
  BY <1>3, <1>4, <1>5, <1>6

LEMMA BkStep == BkInv /\ [BkNext]_bkVars => BkInv'
<1>. SUFFICES ASSUME BkInv, [BkNext]_bkVars PROVE BkInv'
  OBVIOUS
<1>1. CASE UNCHANGED bkVars
  <2>1. \A i \in BkJobs : BkJobSound(i)'
    BY <1>1 DEF bkVars, bkLive, bkSessions, bkObserved, bkVerdicts, BkInv, BkJobSound
  <2>2. BkTypeOK'
    BY <1>1 DEF bkVars, bkLive, bkSessions, bkObserved, bkVerdicts, BkInv, BkTypeOK
  <2>3. \A m \in BkListed' : bkBlamed' \/ BkSound(bkArchive'[m])
    BY <1>1 DEF bkVars, bkLive, bkSessions, bkObserved, bkVerdicts, BkInv, BkListed
  <2>. QED
    BY <1>1, <2>1, <2>2, <2>3
       DEF bkVars, bkLive, bkSessions, bkObserved, bkVerdicts, BkInv, LoggedInHasFile
<1>. QED
  BY <1>1, AccountSteps, BeginSteps, CopySteps, CloseSteps, BeginRestoreSteps, RestoreSessionsSteps,
     RestoreDatabaseSteps, FaultSteps, UploadSteps, DeleteSteps DEF BkNext

-----------------------------------------------------------------------------
(* Automatic archives keep their distance.                                  *)

LEMMA SpacedSame ==
  ASSUME BkSpacedInv, bkTickRaced => bkTickRaced',
         \A j \in BkJobs : BkMakesAuto(j)' =>
             BkMakesAuto(j) /\ bkMem'[j].content.created = bkMem[j].content.created,
         \A m \in BkListed' : bkArchive'[m].auto /\ bkArchive'[m].whole =>
             m \in BkListed /\ bkArchive'[m] = bkArchive[m]
  PROVE  BkSpacedInv'
<1>. SUFFICES ASSUME ~bkTickRaced' PROVE BkSpacedInv'
  BY DEF BkSpacedInv
<1>1. /\ \A i, j \in BkJobs : BkMakesAuto(i) /\ BkMakesAuto(j) => i = j
      /\ \A j \in BkJobs, n \in BkListed :
            BkMakesAuto(j) /\ bkArchive[n].auto /\ bkArchive[n].whole =>
                bkArchive[n].created + BkInterval <= bkMem[j].content.created
      /\ AutoSpaced
  BY DEF BkSpacedInv
<1>2. \A i, j \in BkJobs : BkMakesAuto(i)' /\ BkMakesAuto(j)' => i = j
  BY <1>1
<1>3. \A j \in BkJobs, n \in BkListed' :
         BkMakesAuto(j)' /\ bkArchive'[n].auto /\ bkArchive'[n].whole =>
             bkArchive'[n].created + BkInterval <= bkMem'[j].content.created
  BY <1>1
<1>4. AutoSpaced'
  BY <1>1 DEF AutoSpaced
<1>. QED
  BY <1>2, <1>3, <1>4 DEF BkSpacedInv

\* Steps that neither make an archive nor complete one.
LEMMA SpacedElsewhere ==
  ASSUME BkInv, BkSpacedInv,
         \/ BkTick \/ BkLogin \/ BkLogout \/ BkKnown
         \/ \E j \in BkJobs : BkRestoreSessions(j) \/ BkRestoreDatabase(j) \/ BkFault(j)
         \/ \E n \in BkNames : BkDelete(n)
  PROVE  BkSpacedInv'
<1>. USE DEF BkInv, bkLive, bkSessions, bkObserved, bkVerdicts
<1>1. CASE \/ BkTick \/ BkLogin \/ BkLogout \/ BkKnown
  <2>1. UNCHANGED <<bkArchive, bkPc, bkMem, bkTickRaced>>
    BY <1>1 DEF BkTick, BkLogin, BkLogout, BkKnown
  <2>. QED
    BY <2>1, SpacedSame DEF BkMakesAuto, BkListed
<1>2. ASSUME NEW j \in BkJobs, BkRestoreSessions(j) \/ BkRestoreDatabase(j) \/ BkFault(j)
      PROVE  BkSpacedInv'
  <2>1. UNCHANGED <<bkArchive, bkTickRaced>>
    BY <1>2 DEF BkRestoreSessions, BkRestoreDatabase, BkFault
  <2>2. BkTo(j, "idle") \/ BkTo(j, "database")
    <3>1. BkAfter("sessions") = "database" /\ BkAfter("database") = "idle"
      BY DEF BkAfter, BkOrder
    <3>. QED
      BY <1>2, <3>1 DEF BkRestoreSessions, BkRestoreDatabase, BkFault
  <2>3. /\ bkPc'[j] \in {"idle", "database"}
        /\ \A i \in BkJobs \ {j} : bkPc'[i] = bkPc[i] /\ bkMem'[i] = bkMem[i]
    BY <2>2, ToEffect
  <2>4. \A i \in BkJobs : BkMakesAuto(i)' =>
            BkMakesAuto(i) /\ bkMem'[i].content.created = bkMem[i].content.created
    BY <2>3 DEF BkMakesAuto
  <2>. QED
    BY <2>1, <2>4, SpacedSame DEF BkListed
<1>3. ASSUME NEW n \in BkNames, BkDelete(n)
      PROVE  BkSpacedInv'
  <2>1. UNCHANGED <<bkPc, bkMem, bkTickRaced>> /\ bkArchive' = [bkArchive EXCEPT ![n] = BkNoFile]
    BY <1>3 DEF BkDelete
  <2>2. \A m \in BkListed' : m \in BkListed /\ bkArchive'[m] = bkArchive[m]
    BY <2>1 DEF BkListed, BkTypeOK
  <2>. QED
    BY <2>1, <2>2, SpacedSame DEF BkMakesAuto
<1>. QED
  BY <1>1, <1>2, <1>3

LEMMA SpacedUpload ==
  ASSUME BkInv, BkSpacedInv, NEW n \in BkNames, BkUpload(n)
  PROVE  BkSpacedInv'
<1>1. PICK content \in BkContents :
         /\ content.auto = FALSE
         /\ \A m \in BkNames : bkArchive'[m] = bkArchive[m] \/ bkArchive'[m] = content
  BY UploadEffect
<1>2. UNCHANGED <<bkPc, bkMem, bkTickRaced>>
  BY DEF BkUpload, bkSessions, bkObserved, bkVerdicts
<1>3. \A m \in BkListed' : bkArchive'[m].auto /\ bkArchive'[m].whole =>
         m \in BkListed /\ bkArchive'[m] = bkArchive[m]
  BY <1>1 DEF BkListed
<1>. QED
  BY <1>2, <1>3, SpacedSame DEF BkMakesAuto

\* What is being written is not complete.
LEMMA SpacedCopy ==
  ASSUME BkInv, BkSpacedInv, NEW j \in BkJobs, BkCopy(j)
  PROVE  BkSpacedInv'
<1>. USE DEF BkInv, bkObserved, bkVerdicts
<1>. DEFINE old == bkMem[j].content
            content == BkPut(old, "sessions")
            n == bkMem[j].name
            put == [content EXCEPT !.created = bkNow]
<1>1. /\ bkPc[j] = "copy"
      /\ bkArchive' = [bkArchive EXCEPT ![n] = put]
      /\ bkMem' = [bkMem EXCEPT ![j].content = content]
      /\ bkPc' = [bkPc EXCEPT ![j] = "close"]
      /\ UNCHANGED bkTickRaced
  BY DEF BkCopy
<1>2. bkMem[j] \in BkMemory /\ old \in BkContents /\ n \in BkNames /\ ~old.whole
  BY <1>1 DEF BkJobSound, BkMemory
<1>3. content = [old EXCEPT !.file = bkFile]
  BY DEF BkPut
<1>. HIDE DEF content
<1>4. /\ content.created = old.created /\ content.auto = old.auto
      /\ put.whole = old.whole
  BY <1>2, <1>3 DEF BkContents
<1>5. bkMem'[j].content = content /\ \A i \in BkJobs \ {j} : bkMem'[i] = bkMem[i]
  <2>1. bkMem \in [BkJobs -> BkMemory \cup {BkNoMemory}]
    BY DEF BkTypeOK
  <2>2. bkMem' = [bkMem EXCEPT ![j] = [bkMem[j] EXCEPT !.content = content]]
    BY <1>1
  <2>3. [bkMem[j] EXCEPT !.content = content].content = content
    BY <1>2 DEF BkMemory
  <2>. QED
    BY <2>1, <2>2, <2>3
<1>. HIDE DEF put
<1>6. \A i \in BkJobs : BkMakesAuto(i)' =>
          BkMakesAuto(i) /\ bkMem'[i].content.created = bkMem[i].content.created
  BY <1>1, <1>4, <1>5 DEF BkMakesAuto, BkTypeOK
<1>7. ASSUME NEW m \in BkListed', bkArchive'[m].whole
      PROVE  m \in BkListed /\ bkArchive'[m] = bkArchive[m]
  <2>1. m \in BkNames /\ bkArchive \in [BkNames -> BkContents \cup {BkNoFile}]
    BY DEF BkListed, BkTypeOK
  <2>2. m # n
    BY <1>1, <1>2, <1>4, <1>7, <2>1
  <2>3. bkArchive'[m] = bkArchive[m]
    BY <1>1, <2>1, <2>2
  <2>. QED
    BY <2>3 DEF BkListed
<1>. QED
  BY <1>1, <1>6, <1>7, SpacedSame

LEMMA SpacedBegin ==
  ASSUME BkInv, BkSpacedInv, NEW j \in BkJobs, NEW scope \in BkScopes, NEW auto \in BOOLEAN,
         BkBegin(j, scope, auto)
  PROVE  BkSpacedInv'
<1>. USE DEF BkInv
<1>. DEFINE content == BkPut([scope |-> scope, ref |-> FALSE, file |-> FALSE, agrees |-> FALSE,
                              created |-> bkNow, auto |-> auto, whole |-> FALSE,
                              made |-> bkJobs + 1], "database")
<1>1. content.auto = auto /\ content.created = bkNow
  BY DEF BkPut
<1>2. /\ auto => BkDue
      /\ bkPc[j] = "idle"
      /\ bkPc' = [bkPc EXCEPT ![j] = "copy"]
      /\ bkMem' = [bkMem EXCEPT ![j] = [name |-> <<bkNow, 0>>, content |-> content]]
      /\ bkTickRaced' = (bkTickRaced \/ (auto /\ \E i \in BkJobs \ {j} : BkMakesAuto(i)))
      /\ bkArchive' = bkArchive
  BY DEF BkBegin, BkOpen, BkMakesAuto
<1>. HIDE DEF content
<1>3. /\ bkPc'[j] = "copy" /\ bkMem'[j].content = content
      /\ \A i \in BkJobs \ {j} : bkPc'[i] = bkPc[i] /\ bkMem'[i] = bkMem[i]
  BY <1>2 DEF BkTypeOK
<1>4. BkListed' = BkListed
  BY <1>2 DEF BkListed
<1>5. CASE ~auto
  <2>1. \A i \in BkJobs : BkMakesAuto(i)' =>
            BkMakesAuto(i) /\ bkMem'[i].content.created = bkMem[i].content.created
    BY <1>1, <1>3, <1>5 DEF BkMakesAuto
  <2>. QED
    BY <1>2, <1>4, <2>1, SpacedSame
<1>6. CASE auto /\ ~bkTickRaced'
  <2>1. ~bkTickRaced /\ \A i \in BkJobs \ {j} : ~BkMakesAuto(i)
    BY <1>2, <1>6
  <2>2. \A i \in BkJobs \ {j} : ~BkMakesAuto(i)'
    BY <1>3, <2>1 DEF BkMakesAuto
  <2>3. \A n \in BkListed : bkArchive[n].created + BkInterval <= bkMem'[j].content.created
    BY <1>1, <1>2, <1>3, <1>6 DEF BkDue, BkCreatedAt
  <2>4. AutoSpaced'
    BY <1>2, <1>4, <2>1 DEF BkSpacedInv, AutoSpaced
  <2>. QED
    BY <1>2, <1>4, <2>2, <2>3, <2>4 DEF BkSpacedInv
<1>. QED
  BY <1>5, <1>6 DEF BkSpacedInv

LEMMA SpacedBeginRestore ==
  ASSUME BkInv, BkSpacedInv, NEW j \in BkJobs, NEW n \in BkNames, BkBeginRestore(j, n)
  PROVE  BkSpacedInv'
<1>1. /\ bkPc' = [bkPc EXCEPT ![j] = "sessions"]
      /\ bkMem' = [bkMem EXCEPT ![j] = [name |-> n, content |-> bkArchive[n]]]
      /\ UNCHANGED <<bkArchive, bkTickRaced>>
  BY DEF BkBeginRestore, BkOpen, BkOrder
<1>2. /\ bkPc'[j] = "sessions"
      /\ \A i \in BkJobs \ {j} : bkPc'[i] = bkPc[i] /\ bkMem'[i] = bkMem[i]
  BY <1>1 DEF BkInv, BkTypeOK
<1>3. \A i \in BkJobs : BkMakesAuto(i)' =>
          BkMakesAuto(i) /\ bkMem'[i].content.created = bkMem[i].content.created
  BY <1>2 DEF BkMakesAuto
<1>. QED
  BY <1>1, <1>3, SpacedSame DEF BkListed

LEMMA SpacedClose ==
  ASSUME BkInv, BkSpacedInv, NEW j \in BkJobs, BkClose(j)
  PROVE  BkSpacedInv'
<1>. USE DEF BkInv, bkVerdicts
<1>. DEFINE n == bkMem[j].name
            began == bkMem[j].content.created
<1>1. PICK content \in BkContents :
         /\ content.auto = bkMem[j].content.auto /\ content.created = began
         /\ \A m \in BkNames :
               \/ bkArchive'[m] = BkNoFile
               \/ bkArchive'[m] = bkArchive[m]
               \/ m = n /\ bkArchive'[m] = content
  BY CloseEffect
<1>2. bkPc[j] = "close" /\ BkTo(j, "idle") /\ bkTickRaced' = bkTickRaced
  BY DEF BkClose
<1>3. /\ bkPc'[j] = "idle"
      /\ \A i \in BkJobs \ {j} : bkPc'[i] = bkPc[i] /\ bkMem'[i] = bkMem[i]
  BY <1>2, ToEffect
<1>4. \A i \in BkJobs : BkMakesAuto(i)' =>
          BkMakesAuto(i) /\ bkMem'[i].content.created = bkMem[i].content.created
  BY <1>3 DEF BkMakesAuto
<1>5. CASE ~content.auto
  <2>1. \A m \in BkListed' : bkArchive'[m].auto /\ bkArchive'[m].whole =>
            m \in BkListed /\ bkArchive'[m] = bkArchive[m]
    BY <1>1, <1>5 DEF BkListed
  <2>. QED
    BY <1>2, <1>4, <2>1, SpacedSame
<1>6. CASE content.auto /\ ~bkTickRaced
  <2>. DEFINE Counts(m) == m \in BkListed /\ bkArchive[m].auto /\ bkArchive[m].whole
  <2>1. BkMakesAuto(j)
    BY <1>1, <1>2, <1>6 DEF BkMakesAuto
  <2>2. /\ \A i \in BkJobs : BkMakesAuto(i) => i = j
        /\ \A m \in BkNames : Counts(m) => bkArchive[m].created + BkInterval <= began
        /\ AutoSpaced
    BY <1>6, <2>1 DEF BkSpacedInv
  <2>3. \A i \in BkJobs : ~BkMakesAuto(i)'
    BY <1>3, <1>4, <2>2 DEF BkMakesAuto
  <2>4. \A m \in BkListed' :
           /\ m \in BkNames
           /\ bkArchive'[m].auto /\ bkArchive'[m].whole =>
                 (m = n /\ bkArchive'[m].created = began) \/ (Counts(m) /\ bkArchive'[m] = bkArchive[m])
    BY <1>1 DEF BkListed
  <2>5. AutoSpaced'
    <3>. SUFFICES ASSUME NEW k \in BkListed', NEW m \in BkListed', m # k,
                         bkArchive'[m].auto, bkArchive'[k].auto, bkArchive'[m].whole, bkArchive'[k].whole
                  PROVE  \/ bkArchive'[m].created + BkInterval <= bkArchive'[k].created
                         \/ bkArchive'[k].created + BkInterval <= bkArchive'[m].created
      BY DEF AutoSpaced
    <3>1. CASE m = n /\ bkArchive'[m].created = began
      BY <2>2, <2>4, <3>1
    <3>2. CASE k = n /\ bkArchive'[k].created = began
      BY <2>2, <2>4, <3>2
    <3>3. CASE /\ Counts(m) /\ bkArchive'[m] = bkArchive[m]
               /\ Counts(k) /\ bkArchive'[k] = bkArchive[k]
      BY <1>6, <2>2, <3>3 DEF AutoSpaced
    <3>. QED
      BY <2>4, <3>1, <3>2, <3>3
  <2>. QED
    BY <2>3, <2>5 DEF BkSpacedInv
<1>. QED
  BY <1>2, <1>5, <1>6 DEF BkSpacedInv

LEMMA BkSpacedStep == BkInv /\ BkSpacedInv /\ [BkNext]_bkVars => BkSpacedInv'
<1>. SUFFICES ASSUME BkInv, BkSpacedInv, [BkNext]_bkVars PROVE BkSpacedInv'
  OBVIOUS
<1>1. CASE UNCHANGED bkVars
  <2>1. UNCHANGED <<bkArchive, bkPc, bkMem, bkTickRaced>>
    BY <1>1 DEF bkVars, bkSessions, bkObserved, bkVerdicts
  <2>. QED
    BY <2>1, SpacedSame DEF BkMakesAuto, BkListed
<1>. QED
  BY <1>1, SpacedElsewhere, SpacedUpload, SpacedCopy, SpacedBegin, SpacedBeginRestore, SpacedClose
     DEF BkNext

-----------------------------------------------------------------------------

LEMMA BkAlways == BkSpec => [](BkInv /\ BkSpacedInv)
<1>1. BkInit => BkInv /\ BkSpacedInv
  <2>. SUFFICES ASSUME BkInit PROVE BkSpacedInv
    BY BkInitially
  <2>1. BkListed = {} /\ \A j \in BkJobs : ~BkMakesAuto(j)
    BY DEF BkInit, BkListed, BkMakesAuto
  <2>. QED
    BY <2>1 DEF BkSpacedInv, AutoSpaced
<1>2. BkInv /\ BkSpacedInv /\ [BkNext]_bkVars => (BkInv /\ BkSpacedInv)'
  BY BkStep, BkSpacedStep
<1>. QED
  BY <1>1, <1>2, PTL DEF BkSpec

\* An account that the database says is logged in has its session file, however archives,
\* restores, logins and failures interleave, except while it logs out and after a restore that
\* promised nothing (create_backup, restore_backup): for any number of jobs and archives.
THEOREM BackupsSafe == BkSpec => []LoggedInHasFile
<1>1. BkInv => LoggedInHasFile
  BY DEF BkInv
<1>. QED
  BY <1>1, BkAlways, PTL

\* Whole automatic archives are made no closer to one another than the interval, unless two
\* ticks were making one at once (auto_tick, is_due): for any interval and any number of
\* archives that are kept.
THEOREM BackupsAreSpaced == BkSpec => []AutoSpaced
<1>1. BkSpacedInv => AutoSpaced
  BY DEF BkSpacedInv, AutoSpaced
<1>. QED
  BY <1>1, BkAlways, PTL

-----------------------------------------------------------------------------
(***************************************************************************)
(* Destinations: any accounts, contacts and overlapping ticks.              *)
(***************************************************************************)

\* A tick has a contact, or an account, in hand until it commits or is lost.
HasContact(t, c) == dsPc[t] # "idle" /\ (c \in dsMem[t].pending \/ dsMem[t].results[c] # "none")
HasAccount(t, a) == dsPc[t] # "idle" /\ a \in dsMem[t].accounts \cup dsMem[t].acted

\* The ticks that may still reach a contact, that have an account in hand, and that have
\* acted with it and not committed.
ToReach(c) == {t \in DsTicks : c \in dsMem[t].pending}
Using(a) == {t \in DsTicks : HasAccount(t, a)}
Uncounted(a) == {t \in DsTicks : a \in dsMem[t].acted}

\* What explains that something is done once more than it should be.
ContactExcess(c) == dsOverlaps[<<c, "contact">>] + dsLost[<<c, "contact">>]
AccountExcess(a) == dsOverlaps[<<a, "account">>] + dsLost[<<a, "account">>]

\* A tick that begins may take the contact, now or when it is queued, and none has it.
Available(c) ==
    /\ \A t \in DsTicks : ~HasContact(t, c)
    /\ \/ dsMember[c] = "pending"
       \/ dsMember[c] = "none" /\ dsContact[c] # "gone" /\ dsDestination # "deleted"

MemoryInv(t) ==
    /\ dsPc[t] = "idle" => dsMem[t] = DsForgotten
    /\ \A c \in DsContacts : c \in dsMem[t].pending => dsMem[t].results[c] = "none"
    /\ \A c \in DsContacts : dsMem[t].results[c] # "pending"
    /\ \A a \in DsAccounts : a \in dsMem[t].accounts => a \notin dsMem[t].acted
    /\ \A a \in DsAccounts : HasAccount(t, a) => dsMem[t].actions[a] < DsCap

\* A contact is reached once, and once more for each that explains it; what a tick is about
\* to do to it counts as done.
ReachInv(c) ==
    dsReached[c] + Cardinality(ToReach(c)) + (IF Available(c) THEN 1 ELSE 0) <= 1 + ContactExcess(c)

TellsInv(c) ==
    /\ dsMember[c] = "reached" => dsReached[c] > 0
    /\ \A t \in DsTicks : dsMem[t].results[c] = "reached" => dsReached[c] > 0
    /\ \A t \in DsTicks : dsMem[t].results[c] = "failed" =>
          dsReached[c] = 0 \/ c \in dsLate \/ ContactExcess(c) > 0 \/ dsContact[c] = "gone"
    /\ dsOverlaps[<<c, "contact">>] = 0 =>
          /\ \A s, t \in DsTicks : HasContact(s, c) /\ HasContact(t, c) => s = t
          /\ \A t \in DsTicks : HasContact(t, c) =>
                dsMember[c] = "pending" \/ dsContact[c] = "gone" \/ dsDestination = "deleted"
    /\ dsReached[c] > 0 /\ c \notin dsLate /\ ContactExcess(c) = 0 =>
          \/ dsMember[c] = "reached"
          \/ dsContact[c] = "gone" \/ dsDestination = "deleted"
          \/ \E t \in DsTicks : dsMem[t].results[c] = "reached"

\* What is counted of an account, and what a tick that has it in hand will count: each tick
\* beside it has been noted as an overlap, so that it may overwrite what that one has counted.
AccountInv(a) ==
    /\ dsAccount[a].actions <= DsCap
    /\ dsActed[a] <= dsAccount[a].actions + Cardinality(Uncounted(a)) + AccountExcess(a)
    /\ \A t \in DsTicks : HasAccount(t, a) =>
          dsActed[a] + Cardinality(Using(a))
              <= 1 + dsMem[t].actions[a] + Cardinality(Uncounted(a)) + AccountExcess(a)

DsInv ==
    /\ DsTypeOK
    /\ \A t \in DsTicks : MemoryInv(t)
    /\ \A c \in DsContacts : ReachInv(c) /\ TellsInv(c)
    /\ \A a \in DsAccounts : AccountInv(a)

-----------------------------------------------------------------------------
(* The least of a set of numbers, and how many there are.                   *)

LEMMA MinOfFinite ==
  ASSUME NEW S \in SUBSET Nat, IsFiniteSet(S), S # {}
  PROVE  \E x \in S : \A y \in S : x <= y
<1>. DEFINE Below(x) == {y \in S : y < x}
            T == {Below(x) : x \in S}
<1>1. T \subseteq FiniteSubsetsOf(S)
  BY FS_FiniteSubsetsOfFinite
<1>2. T # {}
  OBVIOUS
<1>3. PICK U \in T : \A V \in T : ~(<<V, U>> \in StrictSubsetOrdering(S))
  <2>. HIDE DEF T
  <2>. QED
    BY <1>1, <1>2, FS_StrictSubsetOrderingWellFounded, WFMin
<1>4. PICK x \in S : U = Below(x)
  BY <1>3
<1>5. ASSUME NEW y \in S, y < x
      PROVE  FALSE
  <2>1. x \in Nat /\ y \in Nat /\ S \subseteq Nat
    OBVIOUS
  <2>4. \A z \in S : z < y => z < x
    BY <1>5, <2>1
  <2>5. ~(y < y)
    BY <2>1
  <2>6. Below(y) \subseteq Below(x) /\ y \in Below(x) /\ y \notin Below(y)
    BY <1>5, <2>4, <2>5, Zenon
  <2>2. Below(y) \in T
    OBVIOUS
  <2>3. <<Below(y), U>> \in StrictSubsetOrdering(S)
    BY <1>4, <2>6 DEF StrictSubsetOrdering
  <2>. QED
    BY <1>3, <2>2, <2>3
<1>6. \A y \in S : x <= y
  BY <1>5
<1>. QED
  BY <1>6

LEMMA MinIs ==
  ASSUME NEW S \in SUBSET Nat, S # {}
  PROVE  Min(S) \in S /\ \A x \in S : Min(S) <= x
<1>1. PICK n \in S : TRUE
  OBVIOUS
<1>. DEFINE F == {y \in S : y <= n}
<1>2. IsFiniteSet(F) /\ F # {} /\ F \in SUBSET Nat
  <2>1. F \in SUBSET Nat /\ n \in Nat /\ \A s \in F : s <= n
    OBVIOUS
  <2>2. n <= n
    BY <2>1
  <2>3. n \in F
    BY <2>2
  <2>4. IsFiniteSet(F)
    BY <2>1, FS_BoundedSetOfNaturals, Zenon
  <2>. QED
    BY <2>1, <2>3, <2>4, Zenon
<1>3. PICK m \in F : \A y \in F : m <= y
  BY <1>2, MinOfFinite
<1>4. \A y \in S : m <= y
  BY <1>3
<1>. QED
  BY <1>4 DEF Min

LEMMA CountApart ==
  ASSUME NEW S, NEW t, IsFiniteSet(S)
  PROVE  /\ Cardinality(S) \in Nat /\ Cardinality(S \ {t}) \in Nat
         /\ Cardinality(S) = Cardinality(S \ {t}) + (IF t \in S THEN 1 ELSE 0)
<1>1. Cardinality(S) \in Nat /\ IsFiniteSet(S \ {t}) /\ Cardinality(S \ {t}) \in Nat
  BY FS_CardinalityType, FS_RemoveElement
<1>2. CASE t \in S
  BY <1>1, <1>2, FS_RemoveElement
<1>3. CASE t \notin S
  <2>1. S \ {t} = S
    BY <1>3
  <2>. QED
    BY <1>1, <1>3, <2>1
<1>. QED
  BY <1>2, <1>3

LEMMA SomeCount ==
  ASSUME NEW S, IsFiniteSet(S)
  PROVE  Cardinality(S) \in Nat /\ (Cardinality(S) = 0 <=> S = {})
  BY FS_CardinalityType, FS_EmptySet

-----------------------------------------------------------------------------
(* What the steps of one tick leave alone.                                  *)

OnlyTick(t) == \A s \in DsTicks \ {t} : dsPc'[s] = dsPc[s] /\ dsMem'[s] = dsMem[s]

LEMMA TickSetsFinite ==
  ASSUME NEW x
  PROVE  /\ IsFiniteSet(ToReach(x)) /\ IsFiniteSet(ToReach(x)')
         /\ IsFiniteSet(Using(x)) /\ IsFiniteSet(Using(x)')
         /\ IsFiniteSet(Uncounted(x)) /\ IsFiniteSet(Uncounted(x)')
<1>1. /\ ToReach(x) \subseteq DsTicks /\ ToReach(x)' \subseteq DsTicks
      /\ Using(x) \subseteq DsTicks /\ Using(x)' \subseteq DsTicks
      /\ Uncounted(x) \subseteq DsTicks /\ Uncounted(x)' \subseteq DsTicks
  BY DEF ToReach, Using, Uncounted
<1>. QED
  BY <1>1, FS_Subset, DestinationsAssumption

LEMMA ContactCounts ==
  ASSUME NEW t \in DsTicks, OnlyTick(t), NEW c
  PROVE  \E n \in Nat :
            /\ Cardinality(ToReach(c)) = n + (IF c \in dsMem[t].pending THEN 1 ELSE 0)
            /\ Cardinality(ToReach(c)') = n + (IF c \in dsMem'[t].pending THEN 1 ELSE 0)
<1>1. ToReach(c)' \ {t} = ToReach(c) \ {t}
  BY DEF OnlyTick, ToReach
<1>2. (t \in ToReach(c) <=> c \in dsMem[t].pending) /\ (t \in ToReach(c)' <=> c \in dsMem'[t].pending)
  BY DEF ToReach
<1>3. /\ Cardinality(ToReach(c) \ {t}) \in Nat
      /\ Cardinality(ToReach(c)) = Cardinality(ToReach(c) \ {t}) + (IF t \in ToReach(c) THEN 1 ELSE 0)
  BY CountApart, TickSetsFinite
<1>4. Cardinality(ToReach(c)') = Cardinality(ToReach(c)' \ {t}) + (IF t \in ToReach(c)' THEN 1 ELSE 0)
  BY CountApart, TickSetsFinite
<1>. QED
  BY <1>1, <1>2, <1>3, <1>4

LEMMA AccountCounts ==
  ASSUME NEW t \in DsTicks, OnlyTick(t), NEW a
  PROVE  \E n, m \in Nat :
            /\ Cardinality(Using(a)) = n + (IF HasAccount(t, a) THEN 1 ELSE 0)
            /\ Cardinality(Using(a)') = n + (IF HasAccount(t, a)' THEN 1 ELSE 0)
            /\ Cardinality(Uncounted(a)) = m + (IF a \in dsMem[t].acted THEN 1 ELSE 0)
            /\ Cardinality(Uncounted(a)') = m + (IF a \in dsMem'[t].acted THEN 1 ELSE 0)
<1>1. Using(a)' \ {t} = Using(a) \ {t} /\ Uncounted(a)' \ {t} = Uncounted(a) \ {t}
  BY DEF OnlyTick, Using, Uncounted, HasAccount
<1>2. /\ t \in Using(a) <=> HasAccount(t, a)
      /\ t \in Using(a)' <=> HasAccount(t, a)'
      /\ t \in Uncounted(a) <=> a \in dsMem[t].acted
      /\ t \in Uncounted(a)' <=> a \in dsMem'[t].acted
  BY DEF Using, Uncounted
<1>3. /\ Cardinality(Using(a) \ {t}) \in Nat
      /\ Cardinality(Using(a)) = Cardinality(Using(a) \ {t}) + (IF t \in Using(a) THEN 1 ELSE 0)
  BY CountApart, TickSetsFinite
<1>4. Cardinality(Using(a)') = Cardinality(Using(a)' \ {t}) + (IF t \in Using(a)' THEN 1 ELSE 0)
  BY CountApart, TickSetsFinite
<1>5. /\ Cardinality(Uncounted(a) \ {t}) \in Nat
      /\ Cardinality(Uncounted(a)) = Cardinality(Uncounted(a) \ {t}) + (IF t \in Uncounted(a) THEN 1 ELSE 0)
  BY CountApart, TickSetsFinite
<1>6. Cardinality(Uncounted(a)') = Cardinality(Uncounted(a)' \ {t}) + (IF t \in Uncounted(a)' THEN 1 ELSE 0)
  BY CountApart, TickSetsFinite
<1>. QED
  BY <1>1, <1>2, <1>3, <1>4, <1>5, <1>6

LEMMA DsToEffect ==
  ASSUME DsTypeOK, NEW t \in DsTicks, NEW step \in {"idle", "acting", "commit"},
         NEW mem \in DsMemory, DsTo(t, step, mem)
  PROVE  /\ dsPc' \in [DsTicks -> {"idle", "acting", "commit"}]
         /\ dsMem' \in [DsTicks -> DsMemory]
         /\ dsPc'[t] = step /\ dsMem'[t] = mem
         /\ OnlyTick(t)
  BY DEF DsTypeOK, DsTo, OnlyTick

LEMMA ForgottenType == DsForgotten \in DsMemory
  BY DEF DsForgotten, DsMemory, DsStates

LEMMA ForgottenIs ==
  /\ DsForgotten.accounts = {} /\ DsForgotten.pending = {} /\ DsForgotten.acted = {}
  /\ \A c \in DsContacts : DsForgotten.results[c] = "none"
  BY DEF DsForgotten

LEMMA TurnIs ==
  ASSUME DsTypeOK, NEW t \in DsTicks, DsTurn(t)
  PROVE  /\ DsNextAccount(t) \in dsMem[t].accounts /\ DsNextContact(t) \in dsMem[t].pending
         /\ DsNextAccount(t) \in DsAccounts /\ DsNextContact(t) \in DsContacts
<1>1. dsMem[t] \in DsMemory
  BY DEF DsTypeOK
<1>2. /\ dsMem[t].accounts \in SUBSET Nat /\ dsMem[t].accounts # {}
      /\ dsMem[t].pending \in SUBSET Nat /\ dsMem[t].pending # {}
      /\ dsMem[t].accounts \subseteq DsAccounts /\ dsMem[t].pending \subseteq DsContacts
  BY <1>1, DestinationsAssumption DEF DsTurn, DsMemory
<1>. QED
  BY <1>2, MinIs DEF DsNextAccount, DsNextContact

LEMMA TakenIs ==
  ASSUME DsTypeOK, NEW t \in DsTicks, DsTurn(t), NEW state \in {"reached", "failed"}
  PROVE  /\ DsTaken(t, state) \in DsMemory
         /\ DsTaken(t, state).accounts = dsMem[t].accounts \ {DsNextAccount(t)}
         /\ DsTaken(t, state).pending = dsMem[t].pending \ {DsNextContact(t)}
         /\ DsTaken(t, state).results = [dsMem[t].results EXCEPT ![DsNextContact(t)] = state]
         /\ DsTaken(t, state).actions = dsMem[t].actions
         /\ DsTaken(t, state).acted = dsMem[t].acted
<1>1. dsMem[t] \in DsMemory
  BY DEF DsTypeOK
<1>. DEFINE c == DsNextContact(t)
            a == DsNextAccount(t)
            mem == dsMem[t]
<1>2. c \in DsContacts
  BY TurnIs
<1>3. DsTaken(t, state) = [mem EXCEPT !.accounts = mem.accounts \ {a}, !.pending = mem.pending \ {c},
                                      !.results = [mem.results EXCEPT ![c] = state]]
  BY DEF DsTaken
<1>. HIDE DEF c, a, mem
<1>4. mem \in DsMemory
  BY <1>1 DEF mem
<1>5. /\ mem.accounts \ {a} \in SUBSET DsAccounts /\ mem.pending \ {c} \in SUBSET DsContacts
      /\ [mem.results EXCEPT ![c] = state] \in [DsContacts -> DsStates]
  BY <1>4 DEF DsMemory, DsStates
<1>. QED
  BY <1>3, <1>4, <1>5 DEF DsMemory, c, a, mem

-----------------------------------------------------------------------------
(* A contact, step by step.                                                 *)

\* What a step leaves alone that the sessions know of a contact, or of an account.
SameContact(t, c) ==
    /\ HasContact(t, c)' <=> HasContact(t, c)
    /\ c \in dsMem'[t].pending <=> c \in dsMem[t].pending
    /\ dsMem'[t].results[c] = dsMem[t].results[c]

SameAccount(t, a) ==
    /\ HasAccount(t, a)' <=> HasAccount(t, a)
    /\ a \in dsMem'[t].acted <=> a \in dsMem[t].acted
    /\ HasAccount(t, a) => dsMem'[t].actions = dsMem[t].actions

\* The counters of a contact, and of an account.
ContactCounters(c) == <<dsReached[c], dsOverlaps[<<c, "contact">>], dsLost[<<c, "contact">>]>>
AccountCounters(a) ==
    <<dsAccount[a].actions, dsActed[a], dsOverlaps[<<a, "account">>], dsLost[<<a, "account">>]>>

LEMMA CountersAre ==
  ASSUME DsTypeOK
  PROVE  /\ \A c \in DsContacts :
               /\ dsReached[c] \in Nat
               /\ dsOverlaps[<<c, "contact">>] \in Nat /\ dsLost[<<c, "contact">>] \in Nat
               /\ ContactExcess(c) \in Nat
               /\ ContactExcess(c) = 0 => dsOverlaps[<<c, "contact">>] = 0
         /\ \A a \in DsAccounts :
               /\ dsActed[a] \in Nat /\ dsAccount[a].actions \in Nat
               /\ dsOverlaps[<<a, "account">>] \in Nat /\ dsLost[<<a, "account">>] \in Nat
               /\ AccountExcess(a) \in Nat
<1>1. ASSUME NEW c \in DsContacts
      PROVE  /\ dsReached[c] \in Nat
             /\ dsOverlaps[<<c, "contact">>] \in Nat /\ dsLost[<<c, "contact">>] \in Nat
  <2>1. <<c, "contact">> \in DsThings
    BY DEF DsThings
  <2>. QED
    BY <2>1 DEF DsTypeOK
<1>2. ASSUME NEW a \in DsAccounts
      PROVE  /\ dsActed[a] \in Nat /\ dsAccount[a].actions \in Nat
             /\ dsOverlaps[<<a, "account">>] \in Nat /\ dsLost[<<a, "account">>] \in Nat
  <2>1. <<a, "account">> \in DsThings
    BY DEF DsThings
  <2>. QED
    BY <2>1 DEF DsTypeOK
<1>. QED
  BY <1>1, <1>2 DEF ContactExcess, AccountExcess

LEMMA SameReach ==
  ASSUME NEW c, \A t \in DsTicks : SameContact(t, c)
  PROVE  ToReach(c)' = ToReach(c)
  BY DEF SameContact, ToReach

LEMMA ContactSame ==
  ASSUME DsTypeOK, NEW c \in DsContacts, ReachInv(c), TellsInv(c),
         \A t \in DsTicks : SameContact(t, c),
         ContactCounters(c)' = ContactCounters(c), c \in dsLate' <=> c \in dsLate,
         Available(c)' => Available(c),
         dsMember'[c] = "reached" => dsMember[c] = "reached",
         dsContact[c] = "gone" => dsContact'[c] = "gone",
         dsDestination = "deleted" => dsDestination' = "deleted",
         dsMember[c] \in {"pending", "reached"} =>
             dsMember'[c] = dsMember[c] \/ dsContact'[c] = "gone" \/ dsDestination' = "deleted"
  PROVE  ReachInv(c)' /\ TellsInv(c)'
<1>1. /\ dsReached'[c] = dsReached[c]
      /\ dsOverlaps'[<<c, "contact">>] = dsOverlaps[<<c, "contact">>]
      /\ ContactExcess(c)' = ContactExcess(c)
  BY DEF ContactCounters, ContactExcess
<1>2. Cardinality(ToReach(c))' = Cardinality(ToReach(c)) /\ Cardinality(ToReach(c)) \in Nat
  BY SameReach, SomeCount, TickSetsFinite
<1>3. ReachInv(c)'
  BY <1>1, <1>2, CountersAre DEF ReachInv
<1>4. \A t \in DsTicks : /\ HasContact(t, c)' <=> HasContact(t, c)
                         /\ dsMem'[t].results[c] = dsMem[t].results[c]
  BY DEF SameContact
<1>5. TellsInv(c)'
  BY <1>1, <1>4 DEF TellsInv
<1>. QED
  BY <1>3, <1>5

\* What only the tick that takes the step has in hand differently.
LEMMA OthersSame ==
  ASSUME NEW t \in DsTicks, OnlyTick(t), NEW s \in DsTicks \ {t}
  PROVE  /\ \A c \in DsContacts : SameContact(s, c)
         /\ \A a \in DsAccounts : SameAccount(s, a)
  BY DEF OnlyTick, SameContact, SameAccount, HasContact, HasAccount

\* A tick that begins takes a contact that is pending.
LEMMA ContactTaken ==
  ASSUME DsTypeOK, NEW t \in DsTicks, OnlyTick(t), NEW c \in DsContacts, ReachInv(c), TellsInv(c),
         ~HasContact(t, c), c \notin dsMem[t].pending, dsMem[t].results[c] = "none",
         HasContact(t, c)', c \in dsMem'[t].pending, dsMem'[t].results[c] = "none",
         dsMember[c] = "pending", UNCHANGED <<dsMember, dsContact, dsDestination, dsLate>>,
         dsReached'[c] = dsReached[c], dsLost'[<<c, "contact">>] = dsLost[<<c, "contact">>],
         NEW k \in Nat, dsOverlaps'[<<c, "contact">>] = dsOverlaps[<<c, "contact">>] + k,
         k = 0 => \A s \in DsTicks : ~HasContact(s, c)
  PROVE  ReachInv(c)' /\ TellsInv(c)'
<1>1. PICK n \in Nat : Cardinality(ToReach(c)) = n /\ Cardinality(ToReach(c)') = n + 1
  <2>1. PICK n \in Nat :
            /\ Cardinality(ToReach(c)) = n + (IF c \in dsMem[t].pending THEN 1 ELSE 0)
            /\ Cardinality(ToReach(c)') = n + (IF c \in dsMem'[t].pending THEN 1 ELSE 0)
    BY ContactCounts
  <2>. QED
    BY <2>1
<1>2. /\ dsReached[c] \in Nat
      /\ dsOverlaps[<<c, "contact">>] \in Nat /\ dsLost[<<c, "contact">>] \in Nat
      /\ ContactExcess(c) \in Nat
      /\ ContactExcess(c) = 0 => dsOverlaps[<<c, "contact">>] = 0
  BY CountersAre
<1>3. ContactExcess(c)' = ContactExcess(c) + k
  BY <1>2 DEF ContactExcess
<1>4. ~Available(c)'
  BY DEF Available
<1>5. k = 0 => Available(c)
  BY DEF Available
<1>6. ReachInv(c)'
  BY <1>1, <1>2, <1>3, <1>4, <1>5 DEF ReachInv
<1>7. \A s \in DsTicks \ {t} :
          (HasContact(s, c)' <=> HasContact(s, c)) /\ dsMem'[s].results[c] = dsMem[s].results[c]
  BY OthersSame DEF SameContact
<1>8. TellsInv(c)'
  <2>1. ContactExcess(c)' = 0 => ContactExcess(c) = 0 /\ dsOverlaps[<<c, "contact">>] = 0
    BY <1>2, <1>3
  <2>2. ContactExcess(c) > 0 => ContactExcess(c)' > 0
    BY <1>2, <1>3
  <2>3. dsOverlaps'[<<c, "contact">>] = 0 => k = 0 /\ dsOverlaps[<<c, "contact">>] = 0
    BY <1>2
  <2>4. \A s \in DsTicks : dsMem'[s].results[c] = "reached" => dsReached'[c] > 0
    BY <1>7 DEF TellsInv
  <2>5. \A s \in DsTicks : dsMem'[s].results[c] = "failed" =>
            dsReached'[c] = 0 \/ c \in dsLate' \/ ContactExcess(c)' > 0 \/ dsContact'[c] = "gone"
    BY <1>7, <2>2 DEF TellsInv
  <2>6. dsOverlaps'[<<c, "contact">>] = 0 =>
            /\ \A s, r \in DsTicks : HasContact(s, c)' /\ HasContact(r, c)' => s = r
            /\ \A s \in DsTicks : HasContact(s, c)' =>
                  dsMember'[c] = "pending" \/ dsContact'[c] = "gone" \/ dsDestination' = "deleted"
    BY <1>7, <2>3
  <2>7. dsReached'[c] > 0 /\ c \notin dsLate' /\ ContactExcess(c)' = 0 =>
            \/ dsMember'[c] = "reached"
            \/ dsContact'[c] = "gone" \/ dsDestination' = "deleted"
            \/ \E s \in DsTicks : dsMem'[s].results[c] = "reached"
    BY <1>7, <2>1 DEF TellsInv
  <2>. QED
    BY <2>4, <2>5, <2>6, <2>7 DEF TellsInv
<1>. QED
  BY <1>6, <1>8

\* Its turn comes: it is reached, or fails, or is found to be gone.
LEMMA ContactTurn ==
  ASSUME DsTypeOK, NEW t \in DsTicks, OnlyTick(t), NEW c \in DsContacts, ReachInv(c), TellsInv(c),
         \A s \in DsTicks : MemoryInv(s),
         HasContact(t, c), HasContact(t, c)', c \in dsMem[t].pending, c \notin dsMem'[t].pending,
         dsMem[t].results[c] = "none",
         NEW k \in {0, 1}, dsReached'[c] = dsReached[c] + k,
         \/ dsMem'[t].results[c] = "reached" /\ k = 1
         \/ dsMem'[t].results[c] = "failed" /\ (k = 1 => c \in dsLate'),
         UNCHANGED <<dsMember, dsContact, dsDestination, dsOverlaps, dsLost>>,
         c \in dsLate => c \in dsLate'
  PROVE  ReachInv(c)' /\ TellsInv(c)'
<1>1. PICK n \in Nat : Cardinality(ToReach(c)) = n + 1 /\ Cardinality(ToReach(c)') = n
  <2>1. PICK n \in Nat :
            /\ Cardinality(ToReach(c)) = n + (IF c \in dsMem[t].pending THEN 1 ELSE 0)
            /\ Cardinality(ToReach(c)') = n + (IF c \in dsMem'[t].pending THEN 1 ELSE 0)
    BY ContactCounts
  <2>. QED
    BY <2>1
<1>2. /\ dsReached[c] \in Nat /\ ContactExcess(c) \in Nat
      /\ ContactExcess(c) = 0 => dsOverlaps[<<c, "contact">>] = 0
  BY CountersAre
<1>3. ContactExcess(c)' = ContactExcess(c)
  BY DEF ContactExcess
<1>4. ~Available(c) /\ ~Available(c)'
  BY DEF Available
<1>5. ReachInv(c)'
  BY <1>1, <1>2, <1>3, <1>4 DEF ReachInv
<1>6. ContactExcess(c) = 0 => dsReached[c] = 0
  BY <1>1, <1>2, <1>4 DEF ReachInv
<1>7. \A s \in DsTicks \ {t} :
          (HasContact(s, c)' <=> HasContact(s, c)) /\ dsMem'[s].results[c] = dsMem[s].results[c]
  BY OthersSame DEF SameContact
<1>8. ASSUME NEW s \in DsTicks, s # t, dsMem[s].results[c] # "none"
      PROVE  ContactExcess(c) > 0
  <2>1. HasContact(s, c)
    BY <1>8 DEF MemoryInv, HasContact, DsForgotten
  <2>. QED
    BY <1>2, <1>8, <2>1 DEF TellsInv
<1>9. TellsInv(c)'
  <2>1. dsMember'[c] = "reached" => dsReached'[c] > 0
    BY <1>2 DEF TellsInv
  <2>2. \A s \in DsTicks : dsMem'[s].results[c] = "reached" => dsReached'[c] > 0
    BY <1>2, <1>7 DEF TellsInv
  <2>3. \A s \in DsTicks : dsMem'[s].results[c] = "failed" =>
            dsReached'[c] = 0 \/ c \in dsLate' \/ ContactExcess(c)' > 0 \/ dsContact'[c] = "gone"
    BY <1>2, <1>3, <1>6, <1>7, <1>8
  <2>4. dsOverlaps'[<<c, "contact">>] = 0 =>
            /\ \A s, r \in DsTicks : HasContact(s, c)' /\ HasContact(r, c)' => s = r
            /\ \A s \in DsTicks : HasContact(s, c)' =>
                  dsMember'[c] = "pending" \/ dsContact'[c] = "gone" \/ dsDestination' = "deleted"
    BY <1>7 DEF TellsInv
  <2>5. dsReached'[c] > 0 /\ c \notin dsLate' /\ ContactExcess(c)' = 0 =>
            \E s \in DsTicks : dsMem'[s].results[c] = "reached"
    BY <1>2, <1>3, <1>6
  <2>. QED
    BY <2>1, <2>2, <2>3, <2>4, <2>5 DEF TellsInv
<1>. QED
  BY <1>5, <1>9

\* A tick commits what has become of it.
LEMMA ContactWritten ==
  ASSUME DsTypeOK, NEW t \in DsTicks, OnlyTick(t), NEW c \in DsContacts, ReachInv(c), TellsInv(c),
         HasContact(t, c), ~HasContact(t, c)', c \notin dsMem[t].pending, c \notin dsMem'[t].pending,
         dsMem[t].results[c] \in {"reached", "failed"}, dsMem'[t].results[c] = "none",
         dsMember'[c] = dsMem[t].results[c],
         dsLost'[<<c, "contact">>] = dsLost[<<c, "contact">>],
         UNCHANGED <<dsReached, dsLate, dsContact, dsDestination, dsOverlaps>>
  PROVE  ReachInv(c)' /\ TellsInv(c)'
<1>1. PICK n \in Nat : Cardinality(ToReach(c)) = n /\ Cardinality(ToReach(c)') = n
  <2>1. PICK n \in Nat :
            /\ Cardinality(ToReach(c)) = n + (IF c \in dsMem[t].pending THEN 1 ELSE 0)
            /\ Cardinality(ToReach(c)') = n + (IF c \in dsMem'[t].pending THEN 1 ELSE 0)
    BY ContactCounts
  <2>. QED
    BY <2>1
<1>2. /\ dsReached[c] \in Nat /\ ContactExcess(c) \in Nat
      /\ ContactExcess(c) = 0 => dsOverlaps[<<c, "contact">>] = 0
  BY CountersAre
<1>3. ContactExcess(c)' = ContactExcess(c)
  BY DEF ContactExcess
<1>4. ~Available(c) /\ ~Available(c)'
  BY DEF Available
<1>5. ReachInv(c)'
  BY <1>1, <1>2, <1>3, <1>4 DEF ReachInv
<1>6. \A s \in DsTicks \ {t} :
          (HasContact(s, c)' <=> HasContact(s, c)) /\ dsMem'[s].results[c] = dsMem[s].results[c]
  BY OthersSame DEF SameContact
<1>7. TellsInv(c)'
  <2>1. dsMember'[c] = "reached" => dsReached'[c] > 0
    BY DEF TellsInv
  <2>2. \A s \in DsTicks : dsMem'[s].results[c] = "reached" => dsReached'[c] > 0
    BY <1>6 DEF TellsInv
  <2>3. \A s \in DsTicks : dsMem'[s].results[c] = "failed" =>
            dsReached'[c] = 0 \/ c \in dsLate' \/ ContactExcess(c)' > 0 \/ dsContact'[c] = "gone"
    BY <1>3, <1>6 DEF TellsInv
  <2>4. dsOverlaps'[<<c, "contact">>] = 0 => \A s \in DsTicks : ~HasContact(s, c)'
    BY <1>6 DEF TellsInv
  <2>5. dsReached'[c] > 0 /\ c \notin dsLate' /\ ContactExcess(c)' = 0 =>
            dsMember'[c] = "reached" \/ dsContact'[c] = "gone"
    BY <1>2, <1>3 DEF TellsInv
  <2>. QED
    BY <2>1, <2>2, <2>3, <2>4, <2>5 DEF TellsInv
<1>. QED
  BY <1>5, <1>7

\* A tick lets go of it, with its turn still to come, or without committing what has become
\* of it.
LEMMA ContactLeft ==
  ASSUME DsTypeOK, NEW t \in DsTicks, OnlyTick(t), NEW c \in DsContacts, ReachInv(c), TellsInv(c),
         HasContact(t, c), ~HasContact(t, c)', c \notin dsMem'[t].pending,
         dsMem'[t].results[c] = "none",
         NEW k \in {0, 1}, dsLost'[<<c, "contact">>] = dsLost[<<c, "contact">>] + k,
         k = 0 => c \in dsMem[t].pending /\ dsMem[t].results[c] = "none",
         dsMember'[c] = dsMember[c],
         UNCHANGED <<dsReached, dsLate, dsContact, dsDestination, dsOverlaps>>
  PROVE  ReachInv(c)' /\ TellsInv(c)'
<1>1. PICK n \in Nat :
         /\ Cardinality(ToReach(c)) = n + (IF c \in dsMem[t].pending THEN 1 ELSE 0)
         /\ Cardinality(ToReach(c)') = n + (IF c \in dsMem'[t].pending THEN 1 ELSE 0)
  BY ContactCounts
<1>2. /\ dsReached[c] \in Nat /\ ContactExcess(c) \in Nat
      /\ dsOverlaps[<<c, "contact">>] \in Nat /\ dsLost[<<c, "contact">>] \in Nat
      /\ ContactExcess(c) = 0 => dsOverlaps[<<c, "contact">>] = 0
  BY CountersAre
<1>3. ContactExcess(c)' = ContactExcess(c) + k
  BY <1>2 DEF ContactExcess
<1>4. ~Available(c)
  BY DEF Available
<1>5. ReachInv(c)'
  BY <1>1, <1>2, <1>3, <1>4 DEF ReachInv
<1>6. \A s \in DsTicks \ {t} :
          (HasContact(s, c)' <=> HasContact(s, c)) /\ dsMem'[s].results[c] = dsMem[s].results[c]
  BY OthersSame DEF SameContact
<1>7. TellsInv(c)'
  <2>1. dsMember'[c] = "reached" => dsReached'[c] > 0
    BY DEF TellsInv
  <2>2. \A s \in DsTicks : dsMem'[s].results[c] = "reached" => dsReached'[c] > 0
    BY <1>6 DEF TellsInv
  <2>3. \A s \in DsTicks : dsMem'[s].results[c] = "failed" =>
            dsReached'[c] = 0 \/ c \in dsLate' \/ ContactExcess(c)' > 0 \/ dsContact'[c] = "gone"
    BY <1>2, <1>3, <1>6 DEF TellsInv
  <2>4. dsOverlaps'[<<c, "contact">>] = 0 =>
            /\ \A s, r \in DsTicks : HasContact(s, c)' /\ HasContact(r, c)' => s = r
            /\ \A s \in DsTicks : HasContact(s, c)' =>
                  dsMember'[c] = "pending" \/ dsContact'[c] = "gone" \/ dsDestination' = "deleted"
    BY <1>6 DEF TellsInv
  <2>5. dsReached'[c] > 0 /\ c \notin dsLate' /\ ContactExcess(c)' = 0 =>
            \/ dsMember'[c] = "reached"
            \/ dsContact'[c] = "gone" \/ dsDestination' = "deleted"
            \/ \E s \in DsTicks : dsMem'[s].results[c] = "reached"
    <3>. SUFFICES ASSUME ContactExcess(c)' = 0, dsReached'[c] > 0, c \notin dsLate',
                         ~(dsMember'[c] = "reached"), ~(dsContact'[c] = "gone"),
                         ~(dsDestination' = "deleted")
                  PROVE  \E s \in DsTicks : dsMem'[s].results[c] = "reached"
      OBVIOUS
    <3>1. k = 0 /\ ContactExcess(c) = 0
      BY <1>2, <1>3
    <3>2. PICK s \in DsTicks : dsMem[s].results[c] = "reached"
      BY <3>1 DEF TellsInv
    <3>3. s # t
      BY <3>1, <3>2
    <3>. QED
      BY <1>6, <3>2, <3>3
  <2>. QED
    BY <2>1, <2>2, <2>3, <2>4, <2>5 DEF TellsInv
<1>. QED
  BY <1>5, <1>7

-----------------------------------------------------------------------------
(* An account, step by step.                                                *)

LEMMA AccountSame ==
  ASSUME DsTypeOK, NEW a \in DsAccounts, AccountInv(a),
         \A t \in DsTicks : SameAccount(t, a),
         AccountCounters(a)' = AccountCounters(a)
  PROVE  AccountInv(a)'
<1>1. Using(a)' = Using(a) /\ Uncounted(a)' = Uncounted(a)
  BY DEF SameAccount, Using, Uncounted
<1>2. /\ dsActed'[a] = dsActed[a] /\ dsAccount'[a].actions = dsAccount[a].actions
      /\ AccountExcess(a)' = AccountExcess(a)
  BY DEF AccountCounters, AccountExcess
<1>3. \A t \in DsTicks :
         /\ HasAccount(t, a)' <=> HasAccount(t, a)
         /\ HasAccount(t, a) => dsMem'[t].actions = dsMem[t].actions
  BY DEF SameAccount
<1>. QED
  BY <1>1, <1>2, <1>3 DEF AccountInv

\* A tick that begins takes an account that may act.
LEMMA AccountTaken ==
  ASSUME DsTypeOK, NEW t \in DsTicks, OnlyTick(t), NEW a \in DsAccounts, AccountInv(a),
         ~HasAccount(t, a), HasAccount(t, a)', a \notin dsMem[t].acted, a \notin dsMem'[t].acted,
         dsMem'[t].actions[a] = dsAccount[a].actions,
         UNCHANGED <<dsAccount, dsActed, dsLost>>,
         dsOverlaps'[<<a, "account">>] = dsOverlaps[<<a, "account">>] + Cardinality(Using(a))
  PROVE  AccountInv(a)'
<1>1. PICK n, m \in Nat :
         /\ Cardinality(Using(a)) = n /\ Cardinality(Using(a)') = n + 1
         /\ Cardinality(Uncounted(a)) = m /\ Cardinality(Uncounted(a)') = m
  <2>1. PICK n, m \in Nat :
            /\ Cardinality(Using(a)) = n + (IF HasAccount(t, a) THEN 1 ELSE 0)
            /\ Cardinality(Using(a)') = n + (IF HasAccount(t, a)' THEN 1 ELSE 0)
            /\ Cardinality(Uncounted(a)) = m + (IF a \in dsMem[t].acted THEN 1 ELSE 0)
            /\ Cardinality(Uncounted(a)') = m + (IF a \in dsMem'[t].acted THEN 1 ELSE 0)
    BY AccountCounts
  <2>. QED
    BY <2>1
<1>2. /\ dsActed[a] \in Nat /\ dsAccount[a].actions \in Nat /\ AccountExcess(a) \in Nat
      /\ dsOverlaps[<<a, "account">>] \in Nat /\ dsLost[<<a, "account">>] \in Nat
  BY CountersAre
<1>3. AccountExcess(a)' = AccountExcess(a) + n
  BY <1>1, <1>2 DEF AccountExcess
<1>4. /\ dsAccount'[a].actions <= DsCap
      /\ dsActed'[a] <= dsAccount'[a].actions + Cardinality(Uncounted(a)') + AccountExcess(a)'
  BY <1>1, <1>2, <1>3 DEF AccountInv
<1>5. ASSUME NEW s \in DsTicks, HasAccount(s, a)'
      PROVE  dsActed'[a] + Cardinality(Using(a)')
                 <= 1 + dsMem'[s].actions[a] + Cardinality(Uncounted(a)') + AccountExcess(a)'
  <2>1. CASE s = t
    BY <1>1, <1>2, <1>3, <2>1 DEF AccountInv
  <2>2. CASE s # t
    <3>1. HasAccount(s, a) /\ dsMem'[s].actions = dsMem[s].actions
      BY <1>5, <2>2, OthersSame DEF SameAccount
    <3>2. n >= 1
      <4>1. s \in Using(a)
        BY <3>1 DEF Using
      <4>2. Cardinality(Using(a)) # 0
        BY <4>1, SomeCount, TickSetsFinite
      <4>. QED
        BY <1>1, <4>2
    <3>3. dsMem[s].actions[a] \in Nat
      BY DEF DsTypeOK, DsMemory
    <3>. QED
      BY <1>1, <1>2, <1>3, <3>1, <3>2, <3>3 DEF AccountInv
  <2>. QED
    BY <2>1, <2>2
<1>. QED
  BY <1>4, <1>5 DEF AccountInv

\* Its turn comes: it acts, or its contact is found to be gone.
LEMMA AccountTurn ==
  ASSUME DsTypeOK, NEW t \in DsTicks, OnlyTick(t), NEW a \in DsAccounts, AccountInv(a),
         HasAccount(t, a), a \notin dsMem[t].acted, dsMem'[t].actions = dsMem[t].actions,
         NEW k \in {0, 1}, dsActed'[a] = dsActed[a] + k,
         k = 1 => HasAccount(t, a)' /\ a \in dsMem'[t].acted,
         k = 0 => ~HasAccount(t, a)' /\ a \notin dsMem'[t].acted,
         UNCHANGED <<dsAccount, dsOverlaps, dsLost>>
  PROVE  AccountInv(a)'
<1>1. PICK n, m \in Nat :
         /\ Cardinality(Using(a)) = n + 1 /\ Cardinality(Using(a)') = n + k
         /\ Cardinality(Uncounted(a)) = m /\ Cardinality(Uncounted(a)') = m + k
  <2>1. PICK n, m \in Nat :
            /\ Cardinality(Using(a)) = n + (IF HasAccount(t, a) THEN 1 ELSE 0)
            /\ Cardinality(Using(a)') = n + (IF HasAccount(t, a)' THEN 1 ELSE 0)
            /\ Cardinality(Uncounted(a)) = m + (IF a \in dsMem[t].acted THEN 1 ELSE 0)
            /\ Cardinality(Uncounted(a)') = m + (IF a \in dsMem'[t].acted THEN 1 ELSE 0)
    BY AccountCounts
  <2>. QED
    BY <2>1
<1>2. dsActed[a] \in Nat /\ dsAccount[a].actions \in Nat /\ AccountExcess(a) \in Nat
  BY CountersAre
<1>3. AccountExcess(a)' = AccountExcess(a)
  BY DEF AccountExcess
<1>4. /\ dsAccount'[a].actions <= DsCap
      /\ dsActed'[a] <= dsAccount'[a].actions + Cardinality(Uncounted(a)') + AccountExcess(a)'
  BY <1>1, <1>2, <1>3 DEF AccountInv
<1>5. ASSUME NEW s \in DsTicks, HasAccount(s, a)'
      PROVE  dsActed'[a] + Cardinality(Using(a)')
                 <= 1 + dsMem'[s].actions[a] + Cardinality(Uncounted(a)') + AccountExcess(a)'
  <2>1. HasAccount(s, a) /\ dsMem'[s].actions = dsMem[s].actions
    BY <1>5, OthersSame DEF SameAccount
  <2>2. dsMem[s].actions[a] \in Nat
    BY DEF DsTypeOK, DsMemory
  <2>. QED
    BY <1>1, <1>2, <1>3, <2>1, <2>2 DEF AccountInv
<1>. QED
  BY <1>4, <1>5 DEF AccountInv

\* A tick lets go of it: what it has counted is committed, or lost, or it has not acted.
LEMMA AccountLeft ==
  ASSUME DsTypeOK, NEW t \in DsTicks, OnlyTick(t), NEW a \in DsAccounts, AccountInv(a),
         HasAccount(t, a), ~HasAccount(t, a)', a \notin dsMem'[t].acted,
         dsMem[t].actions[a] < DsCap,
         \/ a \notin dsMem[t].acted /\ dsAccount'[a].actions = dsAccount[a].actions
            /\ dsLost'[<<a, "account">>] = dsLost[<<a, "account">>]
         \/ a \in dsMem[t].acted /\ dsAccount'[a].actions = dsMem[t].actions[a] + 1
            /\ dsLost'[<<a, "account">>] = dsLost[<<a, "account">>]
         \/ a \in dsMem[t].acted /\ dsAccount'[a].actions = dsAccount[a].actions
            /\ dsLost'[<<a, "account">>] = dsLost[<<a, "account">>] + 1,
         UNCHANGED <<dsActed, dsOverlaps>>
  PROVE  AccountInv(a)'
<1>. DEFINE gone == IF a \in dsMem[t].acted THEN 1 ELSE 0
<1>1. PICK n, m \in Nat :
         /\ Cardinality(Using(a)) = n + 1 /\ Cardinality(Using(a)') = n
         /\ Cardinality(Uncounted(a)) = m + gone /\ Cardinality(Uncounted(a)') = m
  <2>1. PICK n, m \in Nat :
            /\ Cardinality(Using(a)) = n + (IF HasAccount(t, a) THEN 1 ELSE 0)
            /\ Cardinality(Using(a)') = n + (IF HasAccount(t, a)' THEN 1 ELSE 0)
            /\ Cardinality(Uncounted(a)) = m + (IF a \in dsMem[t].acted THEN 1 ELSE 0)
            /\ Cardinality(Uncounted(a)') = m + (IF a \in dsMem'[t].acted THEN 1 ELSE 0)
    BY AccountCounts
  <2>. QED
    BY <2>1
<1>2. /\ dsActed[a] \in Nat /\ dsAccount[a].actions \in Nat /\ AccountExcess(a) \in Nat
      /\ dsOverlaps[<<a, "account">>] \in Nat /\ dsLost[<<a, "account">>] \in Nat
  BY CountersAre
<1>3. DsCap \in Nat /\ \A s \in DsTicks : dsMem[s].actions[a] \in Nat
  BY DestinationsAssumption DEF DsTypeOK, DsMemory
<1>4. /\ dsAccount[a].actions <= DsCap
      /\ dsActed[a] <= dsAccount[a].actions + Cardinality(Uncounted(a)) + AccountExcess(a)
      /\ dsActed[a] + Cardinality(Using(a))
              <= 1 + dsMem[t].actions[a] + Cardinality(Uncounted(a)) + AccountExcess(a)
  BY DEF AccountInv
<1>5. /\ AccountExcess(a)' \in {AccountExcess(a), AccountExcess(a) + 1}
      /\ a \in dsMem[t].acted =>
            \/ AccountExcess(a)' = AccountExcess(a) /\ dsAccount'[a].actions = dsMem[t].actions[a] + 1
            \/ AccountExcess(a)' = AccountExcess(a) + 1 /\ dsAccount'[a].actions = dsAccount[a].actions
      /\ a \notin dsMem[t].acted =>
            AccountExcess(a)' = AccountExcess(a) /\ dsAccount'[a].actions = dsAccount[a].actions
  BY <1>2 DEF AccountExcess
<1>6. /\ dsAccount'[a].actions <= DsCap
      /\ dsActed'[a] <= dsAccount'[a].actions + Cardinality(Uncounted(a)') + AccountExcess(a)'
  BY <1>1, <1>2, <1>3, <1>4, <1>5
<1>7. ASSUME NEW s \in DsTicks, HasAccount(s, a)'
      PROVE  dsActed'[a] + Cardinality(Using(a)')
                 <= 1 + dsMem'[s].actions[a] + Cardinality(Uncounted(a)') + AccountExcess(a)'
  <2>1. HasAccount(s, a) /\ dsMem'[s].actions = dsMem[s].actions
    BY <1>7, OthersSame DEF SameAccount
  <2>2. dsActed[a] + Cardinality(Using(a))
              <= 1 + dsMem[s].actions[a] + Cardinality(Uncounted(a)) + AccountExcess(a)
    BY <2>1 DEF AccountInv
  <2>. QED
    BY <1>1, <1>2, <1>3, <1>5, <2>1, <2>2
<1>. QED
  BY <1>6, <1>7 DEF AccountInv

-----------------------------------------------------------------------------
(* The steps.                                                               *)

LEMMA DsInitially == DsInit => DsInv
<1>. SUFFICES ASSUME DsInit PROVE DsInv
  OBVIOUS
<1>1. DsTypeOK
  <2>1. [a \in DsAccounts |-> [active |-> TRUE, actions |-> 0, rested |-> TRUE]]
           \in [DsAccounts -> [active : BOOLEAN, actions : Nat, rested : BOOLEAN]]
    OBVIOUS
  <2>. QED
    BY <2>1, ForgottenType DEF DsInit, DsTypeOK, DsStates
<1>2. \A t \in DsTicks : dsMem[t] = DsForgotten /\ dsPc[t] = "idle"
  BY DEF DsInit
<1>3. \A t \in DsTicks : /\ MemoryInv(t)
                         /\ \A c \in DsContacts : ~HasContact(t, c) /\ c \notin dsMem[t].pending
                                                  /\ dsMem[t].results[c] = "none"
                         /\ \A a \in DsAccounts : ~HasAccount(t, a)
  BY <1>2, ForgottenIs DEF MemoryInv, HasContact, HasAccount
<1>4. ASSUME NEW c \in DsContacts PROVE ReachInv(c) /\ TellsInv(c)
  <2>1. ToReach(c) = {}
    BY <1>3 DEF ToReach
  <2>2. Cardinality(ToReach(c)) = 0
    BY <2>1, FS_EmptySet
  <2>3. <<c, "contact">> \in DsThings
    BY DEF DsThings
  <2>4. ContactExcess(c) = 0 /\ dsReached[c] = 0 /\ dsMember[c] = "none"
    BY <2>3 DEF DsInit, ContactExcess
  <2>. QED
    BY <1>3, <2>2, <2>4 DEF ReachInv, TellsInv
<1>5. ASSUME NEW a \in DsAccounts PROVE AccountInv(a)
  <2>1. Uncounted(a) = {}
    BY <1>2 DEF Uncounted, DsForgotten
  <2>2. Cardinality(Uncounted(a)) = 0
    BY <2>1, FS_EmptySet
  <2>3. <<a, "account">> \in DsThings
    BY DEF DsThings
  <2>4. AccountExcess(a) = 0 /\ dsActed[a] = 0 /\ dsAccount[a].actions = 0
    BY <2>3 DEF DsInit, AccountExcess
  <2>. QED
    BY <1>3, <2>2, <2>4, DestinationsAssumption DEF AccountInv
<1>. QED
  BY <1>1, <1>3, <1>4, <1>5 DEF DsInv

LEMMA SessionsKeep ==
  ASSUME DsInv, UNCHANGED dsSessions
  PROVE  /\ \A t \in DsTicks : MemoryInv(t)'
         /\ \A t \in DsTicks, c \in DsContacts : SameContact(t, c)
         /\ \A t \in DsTicks, a \in DsAccounts : SameAccount(t, a)
  BY DEF DsInv, dsSessions, MemoryInv, SameContact, SameAccount, HasContact, HasAccount

\* The requests that are one transaction, and time.
LEMMA RequestSteps ==
  ASSUME DsInv,
         \/ \E c \in DsContacts, typed \in BOOLEAN : DsQueue(c, typed)
         \/ \E c \in DsContacts : DsOptOut(c) \/ DsDeleteContact(c)
         \/ \E found \in BOOLEAN : DsRegister(found)
         \/ DsDelete
         \/ \E a \in DsAccounts : DsRest(a)
  PROVE  DsInv'
<1>. USE DEF dsObserved
<1>1. /\ UNCHANGED dsSessions
      /\ UNCHANGED <<dsReached, dsActed, dsAgainst, dsOverlaps, dsLost, dsLate>>
  BY DEF DsQueue, DsOptOut, DsDeleteContact, DsRegister, DsDelete, DsRest
<1>2. DsTypeOK /\ \A c \in DsContacts : ReachInv(c) /\ TellsInv(c)
  BY DEF DsInv
<1>3. DsTypeOK'
  <2>1. dsDestination' \in {"none", "unresolved", "resolved", "deleted"}
    BY <1>2 DEF DsTypeOK, DsQueue, DsOptOut, DsDeleteContact, DsRegister, DsDelete, DsRest
  <2>2. dsContact' \in [DsContacts -> {"may", "opted_out", "gone"}]
    BY <1>2 DEF DsTypeOK, DsQueue, DsOptOut, DsDeleteContact, DsRegister, DsDelete, DsRest
  <2>3. dsMember' \in [DsContacts -> DsStates]
    BY <1>2 DEF DsTypeOK, DsStates, DsQueue, DsOptOut, DsDeleteContact, DsRegister, DsDelete, DsRest
  <2>4. dsAccount' \in [DsAccounts -> [active : BOOLEAN, actions : Nat, rested : BOOLEAN]]
    <3>1. CASE dsAccount' = dsAccount
      BY <1>2, <3>1 DEF DsTypeOK
    <3>2. ASSUME NEW a \in DsAccounts, dsAccount' = [dsAccount EXCEPT ![a].rested = TRUE]
          PROVE  dsAccount' \in [DsAccounts -> [active : BOOLEAN, actions : Nat, rested : BOOLEAN]]
      BY <1>2, <3>2 DEF DsTypeOK
    <3>. QED
      BY <3>1, <3>2 DEF DsQueue, DsOptOut, DsDeleteContact, DsRegister, DsDelete, DsRest
  <2>. QED
    BY <1>1, <1>2, <2>1, <2>2, <2>3, <2>4 DEF DsTypeOK, dsSessions
<1>4. /\ \A t \in DsTicks : MemoryInv(t)'
      /\ \A t \in DsTicks, c \in DsContacts : SameContact(t, c)
      /\ \A t \in DsTicks, a \in DsAccounts : SameAccount(t, a)
  BY <1>1, SessionsKeep
<1>5. ASSUME NEW c \in DsContacts
      PROVE  ReachInv(c)' /\ TellsInv(c)'
  <2>1. /\ dsContact[c] = "gone" => dsContact'[c] = "gone"
        /\ dsDestination = "deleted" => dsDestination' = "deleted"
    BY <1>2 DEF DsTypeOK, DsQueue, DsOptOut, DsDeleteContact, DsRegister, DsDelete, DsRest
  <2>2. \/ dsMember'[c] = dsMember[c]
        \/ dsMember'[c] = "none" /\ (dsContact'[c] = "gone" \/ dsDestination' = "deleted")
        \/ /\ dsMember[c] = "none" /\ dsMember'[c] = "pending"
           /\ dsContact[c] # "gone" /\ dsDestination # "deleted"
    <3>1. ASSUME NEW d \in DsContacts, NEW typed \in BOOLEAN, DsQueue(d, typed)
          PROVE  \/ dsMember'[c] = dsMember[c]
                 \/ /\ dsMember[c] = "none" /\ dsMember'[c] = "pending"
                    /\ dsContact[c] # "gone" /\ dsDestination # "deleted"
      BY <1>2, <3>1 DEF DsTypeOK, DsQueue, DsMayQueue
    <3>2. CASE DsDelete \/ \E d \in DsContacts : DsDeleteContact(d)
      BY <1>2, <3>2 DEF DsTypeOK, DsDelete, DsDeleteContact
    <3>3. CASE \/ \E d \in DsContacts : DsOptOut(d)
               \/ \E found \in BOOLEAN : DsRegister(found)
               \/ \E a \in DsAccounts : DsRest(a)
      BY <3>3 DEF DsOptOut, DsRegister, DsRest
    <3>. QED
      BY <3>1, <3>2, <3>3
  <2>3. \A t \in DsTicks : HasContact(t, c)' <=> HasContact(t, c)
    BY <1>4 DEF SameContact
  <2>4. Available(c)' => Available(c)
    BY <2>1, <2>2, <2>3 DEF Available
  <2>5. ContactCounters(c)' = ContactCounters(c) /\ (c \in dsLate' <=> c \in dsLate)
    BY <1>1 DEF ContactCounters
  <2>. QED
    BY <1>2, <1>4, <2>1, <2>2, <2>4, <2>5, ContactSame
<1>6. ASSUME NEW a \in DsAccounts
      PROVE  AccountInv(a)'
  <2>1. dsAccount'[a].actions = dsAccount[a].actions
    <3>1. ASSUME NEW b \in DsAccounts, dsAccount' = [dsAccount EXCEPT ![b].rested = TRUE]
          PROVE  dsAccount'[a].actions = dsAccount[a].actions
      BY <1>2, <3>1 DEF DsTypeOK
    <3>. QED
      BY <3>1 DEF DsQueue, DsOptOut, DsDeleteContact, DsRegister, DsDelete, DsRest
  <2>2. AccountCounters(a)' = AccountCounters(a)
    BY <1>1, <2>1 DEF AccountCounters
  <2>. QED
    BY <1>2, <1>4, <2>2, AccountSame DEF DsInv
<1>. QED
  BY <1>3, <1>4, <1>5, <1>6 DEF DsInv

\* A tick waits, or ends.
LEMMA WaitSteps ==
  ASSUME DsInv, NEW t \in DsTicks, DsFlood(t) \/ DsThrough(t)
  PROVE  DsInv'
<1>. DEFINE mem == dsMem'[t]
<1>1. dsMem[t] \in DsMemory /\ DsTypeOK
  BY DEF DsInv, DsTypeOK
<1>2. PICK m \in DsMemory :
         /\ DsTo(t, "commit", m) /\ dsPc[t] = "acting"
         /\ m.accounts = dsMem[t].accounts /\ m.pending = dsMem[t].pending
         /\ m.results = dsMem[t].results /\ m.acted = dsMem[t].acted
         /\ m.actions = dsMem[t].actions
  <2>1. CASE DsFlood(t)
    <3>. DEFINE m == [dsMem[t] EXCEPT !.flooded = {DsNextAccount(t)}]
    <3>1. DsNextAccount(t) \in DsAccounts /\ DsTurn(t)
      BY <1>1, <2>1, TurnIs DEF DsFlood
    <3>2. m \in DsMemory
      BY <1>1, <3>1 DEF DsMemory
    <3>3. /\ m.accounts = dsMem[t].accounts /\ m.pending = dsMem[t].pending
          /\ m.results = dsMem[t].results /\ m.acted = dsMem[t].acted
          /\ m.actions = dsMem[t].actions
      BY <1>1 DEF DsMemory
    <3>4. DsTo(t, "commit", m) /\ dsPc[t] = "acting"
      BY <2>1, <3>1 DEF DsFlood, DsTurn
    <3>. HIDE DEF m
    <3>. QED
      BY <3>2, <3>3, <3>4
  <2>2. CASE DsThrough(t)
    BY <1>1, <2>2 DEF DsThrough
  <2>. QED
    BY <2>1, <2>2
<1>3. UNCHANGED <<dsTables, dsObserved, dsBounds>>
  BY DEF DsFlood, DsThrough
<1>4. /\ dsPc' \in [DsTicks -> {"idle", "acting", "commit"}]
      /\ dsMem' \in [DsTicks -> DsMemory]
      /\ dsPc'[t] = "commit" /\ dsMem'[t] = m
      /\ OnlyTick(t)
  BY <1>1, <1>2, DsToEffect
<1>5. DsTypeOK'
  BY <1>1, <1>3, <1>4 DEF DsTypeOK, dsTables, dsObserved
<1>6. /\ \A c \in DsContacts : SameContact(t, c)
      /\ \A a \in DsAccounts : SameAccount(t, a)
  BY <1>2, <1>4 DEF SameContact, SameAccount, HasContact, HasAccount
<1>7. ASSUME NEW s \in DsTicks
      PROVE  /\ \A c \in DsContacts : SameContact(s, c)
             /\ \A a \in DsAccounts : SameAccount(s, a)
             /\ MemoryInv(s)'
  <2>1. CASE s = t
    <3>1. MemoryInv(t)'
      BY <1>2, <1>4 DEF DsInv, MemoryInv, HasAccount
    <3>. QED
      BY <1>6, <2>1, <3>1
  <2>2. CASE s # t
    <3>1. MemoryInv(s)'
      BY <1>4, <2>2 DEF DsInv, MemoryInv, HasAccount, OnlyTick
    <3>. QED
      BY <1>4, <2>2, <3>1, OthersSame
  <2>. QED
    BY <2>1, <2>2
<1>8. ASSUME NEW c \in DsContacts
      PROVE  ReachInv(c)' /\ TellsInv(c)'
  <2>1. \A s \in DsTicks : HasContact(s, c)' <=> HasContact(s, c)
    BY <1>7 DEF SameContact
  <2>2. Available(c)' => Available(c)
    BY <1>3, <2>1 DEF Available, dsTables
  <2>3. ContactCounters(c)' = ContactCounters(c)
    BY <1>3 DEF ContactCounters, dsObserved
  <2>4. ReachInv(c) /\ TellsInv(c)
    BY DEF DsInv
  <2>. QED
    BY <1>1, <1>3, <1>7, <2>2, <2>3, <2>4, ContactSame DEF dsTables, dsObserved
<1>9. ASSUME NEW a \in DsAccounts
      PROVE  AccountInv(a)'
  <2>1. AccountCounters(a)' = AccountCounters(a)
    BY <1>3 DEF AccountCounters, dsTables, dsObserved
  <2>. QED
    BY <1>1, <1>7, <2>1, AccountSame DEF DsInv
<1>. QED
  BY <1>5, <1>7, <1>8, <1>9 DEF DsInv

LEMMA MemoryElsewhere ==
  ASSUME DsInv, NEW t \in DsTicks, OnlyTick(t), MemoryInv(t)'
  PROVE  \A s \in DsTicks : MemoryInv(s)'
<1>. SUFFICES ASSUME NEW s \in DsTicks, s # t PROVE MemoryInv(s)'
  OBVIOUS
<1>. QED
  BY DEF DsInv, MemoryInv, HasAccount, OnlyTick

LEMMA BeginTick ==
  ASSUME DsInv, NEW t \in DsTicks, DsBegin(t)
  PROVE  DsInv'
<1>. DEFINE mem == [DsForgotten EXCEPT !.accounts = DsUsable, !.pending = DsPending,
                        !.actions = [a \in DsAccounts |-> dsAccount[a].actions]]
            taken == (DsPending \X {"contact"}) \cup (DsUsable \X {"account"})
            more(x) == IF x \in taken THEN Cardinality({s \in DsTicks : x \in DsHeld(s)}) ELSE 0
<1>1. /\ dsPc[t] = "idle" /\ DsTo(t, "acting", mem)
      /\ dsOverlaps' = [x \in DsThings |-> dsOverlaps[x] + more(x)]
      /\ UNCHANGED <<dsTables, dsReached, dsActed, dsAgainst, dsLost, dsLate, dsFaults>>
  BY DEF DsBegin
<1>2. DsTypeOK
  BY DEF DsInv
<1>3. /\ mem \in DsMemory
      /\ mem.accounts = DsUsable /\ mem.pending = DsPending /\ mem.acted = {}
      /\ \A c \in DsContacts : mem.results[c] = "none"
      /\ \A a \in DsAccounts : mem.actions[a] = dsAccount[a].actions
  <2>1. DsUsable \in SUBSET DsAccounts /\ DsPending \in SUBSET DsContacts
    BY DEF DsUsable, DsPending
  <2>2. [a \in DsAccounts |-> dsAccount[a].actions] \in [DsAccounts -> Nat]
    BY <1>2 DEF DsTypeOK
  <2>. DEFINE counts == [a \in DsAccounts |-> dsAccount[a].actions]
  <2>3. \A a \in DsAccounts : counts[a] = dsAccount[a].actions
    OBVIOUS
  <2>4. mem = [DsForgotten EXCEPT !.accounts = DsUsable, !.pending = DsPending, !.actions = counts]
    OBVIOUS
  <2>5. counts \in [DsAccounts -> Nat]
    BY <2>2
  <2>. HIDE DEF counts, mem
  <2>6. /\ mem \in DsMemory
        /\ mem.accounts = DsUsable /\ mem.pending = DsPending /\ mem.acted = {}
        /\ mem.actions = counts
        /\ \A c \in DsContacts : mem.results[c] = "none"
    BY <2>1, <2>4, <2>5, ForgottenType, ForgottenIs DEF DsMemory
  <2>. QED
    BY <2>3, <2>6
<1>. HIDE DEF mem
<1>4. /\ dsPc' \in [DsTicks -> {"idle", "acting", "commit"}]
      /\ dsMem' \in [DsTicks -> DsMemory]
      /\ dsPc'[t] = "acting" /\ dsMem'[t] = mem
      /\ OnlyTick(t)
  BY <1>1, <1>2, <1>3, DsToEffect
<1>5. dsMem[t] = DsForgotten
  BY <1>1 DEF DsInv, MemoryInv
<1>6. ASSUME NEW c \in DsContacts
      PROVE  /\ dsOverlaps'[<<c, "contact">>] = dsOverlaps[<<c, "contact">>] + more(<<c, "contact">>)
             /\ more(<<c, "contact">>) \in Nat
             /\ dsMember[c] # "pending" => more(<<c, "contact">>) = 0
             /\ dsMember[c] = "pending" /\ more(<<c, "contact">>) = 0 =>
                    \A s \in DsTicks : ~HasContact(s, c)
  <2>1. <<c, "contact">> \in DsThings
    BY DEF DsThings
  <2>2. <<c, "contact">> \in taken <=> dsMember[c] = "pending"
    BY DEF DsPending
  <2>3. \A s \in DsTicks : <<c, "contact">> \in DsHeld(s) <=> HasContact(s, c)
    BY DEF DsHeld, HasContact
  <2>. DEFINE holders == {s \in DsTicks : <<c, "contact">> \in DsHeld(s)}
  <2>4. IsFiniteSet(holders)
    BY FS_Subset, DestinationsAssumption
  <2>5. Cardinality(holders) \in Nat /\ (Cardinality(holders) = 0 <=> holders = {})
    BY <2>4, SomeCount
  <2>6. more(<<c, "contact">>) = IF dsMember[c] = "pending" THEN Cardinality(holders) ELSE 0
    BY <2>2
  <2>. HIDE DEF more
  <2>. QED
    BY <1>1, <2>1, <2>3, <2>5, <2>6
<1>7. ASSUME NEW a \in DsAccounts
      PROVE  /\ dsOverlaps'[<<a, "account">>] = dsOverlaps[<<a, "account">>] + more(<<a, "account">>)
             /\ more(<<a, "account">>) \in Nat
             /\ more(<<a, "account">>) = IF a \in DsUsable THEN Cardinality(Using(a)) ELSE 0
  <2>1. <<a, "account">> \in DsThings
    BY DEF DsThings
  <2>2. <<a, "account">> \in taken <=> a \in DsUsable
    OBVIOUS
  <2>3. \A s \in DsTicks : <<a, "account">> \in DsHeld(s) <=> HasAccount(s, a)
    BY DEF DsHeld, HasAccount
  <2>4. {s \in DsTicks : <<a, "account">> \in DsHeld(s)} = Using(a)
    BY <2>3 DEF Using
  <2>5. Cardinality(Using(a)) \in Nat
    BY SomeCount, TickSetsFinite
  <2>6. more(<<a, "account">>) = IF a \in DsUsable THEN Cardinality(Using(a)) ELSE 0
    BY <2>2, <2>4
  <2>. HIDE DEF more
  <2>. QED
    BY <1>1, <2>1, <2>5, <2>6
<1>. HIDE DEF more
<1>8. DsTypeOK'
  <2>1. dsOverlaps' \in [DsThings -> Nat]
    <3>1. \A x \in DsThings : more(x) \in Nat
      BY <1>6, <1>7 DEF DsThings
    <3>. QED
      BY <1>1, <1>2, <3>1 DEF DsTypeOK
  <2>. QED
    BY <1>1, <1>2, <1>4, <2>1 DEF DsTypeOK, dsTables
<1>9. MemoryInv(t)'
  <2>1. \A a \in DsUsable : dsAccount[a].actions < DsCap
    BY DEF DsUsable
  <2>. QED
    BY <1>3, <1>4, <2>1 DEF MemoryInv, HasAccount
<1>10. \A s \in DsTicks : MemoryInv(s)'
  BY <1>4, <1>9, MemoryElsewhere
<1>11. ASSUME NEW c \in DsContacts
       PROVE  ReachInv(c)' /\ TellsInv(c)'
  <2>1. ReachInv(c) /\ TellsInv(c)
    BY DEF DsInv
  <2>2. ~HasContact(t, c) /\ c \notin dsMem[t].pending /\ dsMem[t].results[c] = "none"
    BY <1>1, <1>5, ForgottenIs DEF HasContact
  <2>3. /\ HasContact(t, c)' <=> dsMember[c] = "pending"
        /\ c \in dsMem'[t].pending <=> dsMember[c] = "pending"
        /\ dsMem'[t].results[c] = "none"
    BY <1>3, <1>4 DEF HasContact, DsPending
  <2>4. CASE dsMember[c] = "pending"
    BY <1>1, <1>2, <1>4, <1>6, <2>1, <2>2, <2>3, <2>4, ContactTaken DEF dsTables
  <2>5. CASE dsMember[c] # "pending"
    <3>1. \A s \in DsTicks : SameContact(s, c)
      BY <1>4, <2>2, <2>3, <2>5, OthersSame DEF SameContact
    <3>2. ContactCounters(c)' = ContactCounters(c)
      <4>1. dsOverlaps[<<c, "contact">>] \in Nat
        BY <1>2, CountersAre
      <4>. QED
        BY <1>1, <1>6, <2>5, <4>1 DEF ContactCounters
    <3>3. Available(c)' => Available(c)
      BY <1>1, <3>1 DEF Available, SameContact, dsTables
    <3>. QED
      BY <1>1, <1>2, <2>1, <3>1, <3>2, <3>3, ContactSame DEF dsTables
  <2>. QED
    BY <2>4, <2>5
<1>12. ASSUME NEW a \in DsAccounts
       PROVE  AccountInv(a)'
  <2>1. AccountInv(a)
    BY DEF DsInv
  <2>2. /\ ~HasAccount(t, a) /\ a \notin dsMem[t].acted
        /\ HasAccount(t, a)' <=> a \in DsUsable
        /\ a \notin dsMem'[t].acted /\ dsMem'[t].actions[a] = dsAccount[a].actions
    BY <1>1, <1>3, <1>4, <1>5, ForgottenIs DEF HasAccount
  <2>3. CASE a \in DsUsable
    BY <1>1, <1>2, <1>4, <1>7, <2>1, <2>2, <2>3, AccountTaken DEF dsTables
  <2>4. CASE a \notin DsUsable
    <3>1. \A s \in DsTicks : SameAccount(s, a)
      BY <1>4, <2>2, <2>4, OthersSame DEF SameAccount
    <3>2. AccountCounters(a)' = AccountCounters(a)
      <4>1. dsOverlaps[<<a, "account">>] \in Nat
        BY <1>2, CountersAre
      <4>. QED
        BY <1>1, <1>7, <2>4, <4>1 DEF AccountCounters, dsTables
    <3>. QED
      BY <1>2, <2>1, <3>1, <3>2, AccountSame
  <2>. QED
    BY <2>3, <2>4
<1>. QED
  BY <1>8, <1>10, <1>11, <1>12 DEF DsInv

\* The turn of a contact and of an account, whatever comes of it.
LEMMA TurnTick ==
  ASSUME DsInv, NEW t \in DsTicks, DsTurn(t),
         NEW k \in {0, 1}, NEW q \in {0, 1}, NEW state \in {"reached", "failed"}, NEW m \in DsMemory,
         NEW c, c = DsNextContact(t), NEW a, a = DsNextAccount(t),
         DsTo(t, "acting", m),
         m.accounts = dsMem[t].accounts \ {a}, m.pending = dsMem[t].pending \ {c},
         m.results = [dsMem[t].results EXCEPT ![c] = state],
         m.actions = dsMem[t].actions,
         m.acted = IF q = 1 THEN dsMem[t].acted \cup {a} ELSE dsMem[t].acted,
         dsReached' = [dsReached EXCEPT ![c] = @ + k],
         dsActed' = [dsActed EXCEPT ![a] = @ + q],
         (state = "reached" /\ k = 1) \/ (state = "failed" /\ (k = 1 => c \in dsLate')),
         dsLate' = dsLate \/ dsLate' = dsLate \cup {c},
         dsAgainst' = dsAgainst \/ dsAgainst' = dsAgainst \cup {c},
         UNCHANGED <<dsTables, dsOverlaps, dsLost>>
  PROVE  DsInv'
<1>1. DsTypeOK /\ dsMem[t] \in DsMemory
  BY DEF DsInv, DsTypeOK
<1>2. c \in DsContacts /\ a \in DsAccounts /\ c \in dsMem[t].pending /\ a \in dsMem[t].accounts
  BY <1>1, TurnIs
<1>3. dsReached' \in [DsContacts -> Nat] /\ dsActed' \in [DsAccounts -> Nat]
  <2>1. \A n \in Nat : n + k \in Nat /\ n + q \in Nat
    OBVIOUS
  <2>2. dsReached \in [DsContacts -> Nat] /\ dsActed \in [DsAccounts -> Nat]
    BY <1>1 DEF DsTypeOK
  <2>3. dsReached[c] + k \in Nat /\ dsActed[a] + q \in Nat
    BY <1>2, <2>1, <2>2
  <2>. QED
    BY <2>2, <2>3
<1>4. /\ dsPc' \in [DsTicks -> {"idle", "acting", "commit"}]
      /\ dsMem' \in [DsTicks -> DsMemory]
      /\ dsPc'[t] = "acting" /\ dsMem'[t] = m
      /\ OnlyTick(t)
  BY <1>1, <1>3, DsToEffect
<1>5. dsPc[t] = "acting"
  BY <1>1 DEF DsTurn
<1>6. DsTypeOK'
  BY <1>1, <1>2, <1>3, <1>4 DEF DsTypeOK, dsTables
<1>7. MemoryInv(t)
  BY DEF DsInv
<1>8. /\ \A d \in DsContacts : m.results[d] = IF d = c THEN state ELSE dsMem[t].results[d]
      /\ dsMem[t].results[c] = "none"
  BY <1>1, <1>2, <1>3, <1>7 DEF DsMemory, MemoryInv
<1>9. MemoryInv(t)'
  <2>1. /\ \A d \in DsContacts : d \in m.pending => m.results[d] = "none"
        /\ \A d \in DsContacts : m.results[d] # "pending"
    BY <1>2, <1>7, <1>8 DEF MemoryInv
  <2>2. \A b \in DsAccounts : b \in m.accounts => b \notin m.acted
    BY <1>7 DEF MemoryInv
  <2>3. \A b \in DsAccounts : HasAccount(t, b)' => HasAccount(t, b)
    BY <1>2, <1>4, <1>5 DEF HasAccount
  <2>4. \A b \in DsAccounts : HasAccount(t, b)' => m.actions[b] < DsCap
    BY <1>7, <2>3 DEF MemoryInv
  <2>5. dsPc'[t] # "idle"
    BY <1>4
  <2>6. /\ \A d \in DsContacts : d \in dsMem'[t].pending => dsMem'[t].results[d] = "none"
        /\ \A d \in DsContacts : dsMem'[t].results[d] # "pending"
    BY <1>4, <2>1
  <2>7. \A b \in DsAccounts : b \in dsMem'[t].accounts => b \notin dsMem'[t].acted
    BY <1>4, <2>2
  <2>8. \A b \in DsAccounts : HasAccount(t, b)' => dsMem'[t].actions[b] < DsCap
    BY <1>4, <2>4
  <2>. QED
    BY <2>5, <2>6, <2>7, <2>8 DEF MemoryInv
<1>10. \A s \in DsTicks : MemoryInv(s)'
  BY <1>4, <1>9, MemoryElsewhere
<1>11. ASSUME NEW d \in DsContacts
       PROVE  ReachInv(d)' /\ TellsInv(d)'
  <2>1. ReachInv(d) /\ TellsInv(d) /\ \A s \in DsTicks : MemoryInv(s)
    BY DEF DsInv
  <2>2. CASE d = c
    <3>1. /\ HasContact(t, d) /\ HasContact(t, d)' /\ d \in dsMem[t].pending /\ d \notin dsMem'[t].pending
          /\ dsMem[t].results[d] = "none" /\ dsMem'[t].results[d] = state
      BY <1>2, <1>3, <1>4, <1>5, <1>8, <2>2 DEF HasContact
    <3>2. dsReached'[d] = dsReached[d] + k
      BY <1>1, <1>2, <1>3, <2>2 DEF DsTypeOK
    <3>3. UNCHANGED <<dsMember, dsContact, dsDestination, dsOverlaps, dsLost>>
      BY <1>3 DEF dsTables
    <3>4. \/ dsMem'[t].results[d] = "reached" /\ k = 1
          \/ dsMem'[t].results[d] = "failed" /\ (k = 1 => d \in dsLate')
      BY <1>3, <2>2, <3>1
    <3>5. d \in dsLate => d \in dsLate'
      BY <1>3
    <3>. QED
      BY <1>1, <1>4, <2>1, <3>1, <3>2, <3>3, <3>4, <3>5, ContactTurn
  <2>3. CASE d # c
    <3>1. \A s \in DsTicks : SameContact(s, d)
      <4>1. SameContact(t, d)
        BY <1>3, <1>4, <1>5, <1>8, <2>3 DEF SameContact, HasContact
      <4>. QED
        BY <1>4, <4>1, OthersSame
    <3>2. ContactCounters(d)' = ContactCounters(d) /\ (d \in dsLate' <=> d \in dsLate)
      BY <1>1, <1>2, <1>3, <2>3 DEF ContactCounters, DsTypeOK
    <3>3. Available(d)' => Available(d)
      BY <1>3, <3>1 DEF Available, SameContact, dsTables
    <3>. QED
      BY <1>1, <1>3, <2>1, <3>1, <3>2, <3>3, ContactSame DEF dsTables
  <2>. QED
    BY <2>2, <2>3
<1>12. ASSUME NEW b \in DsAccounts
       PROVE  AccountInv(b)'
  <2>1. AccountInv(b)
    BY DEF DsInv
  <2>2. CASE b = a
    <3>1. /\ HasAccount(t, b) /\ b \notin dsMem[t].acted /\ dsMem'[t].actions = dsMem[t].actions
          /\ dsActed'[b] = dsActed[b] + q
          /\ q = 1 => HasAccount(t, b)' /\ b \in dsMem'[t].acted
          /\ q = 0 => ~HasAccount(t, b)' /\ b \notin dsMem'[t].acted
      BY <1>1, <1>2, <1>3, <1>4, <1>5, <1>7, <2>2 DEF HasAccount, MemoryInv, DsTypeOK
    <3>. QED
      BY <1>1, <1>3, <1>4, <2>1, <3>1, AccountTurn DEF dsTables
  <2>3. CASE b # a
    <3>1. \A s \in DsTicks : SameAccount(s, b)
      <4>1. SameAccount(t, b)
        BY <1>3, <1>4, <1>5, <2>3 DEF SameAccount, HasAccount
      <4>. QED
        BY <1>4, <4>1, OthersSame
    <3>2. AccountCounters(b)' = AccountCounters(b)
      BY <1>1, <1>2, <1>3, <2>3 DEF AccountCounters, DsTypeOK, dsTables
    <3>. QED
      BY <1>1, <2>1, <3>1, <3>2, AccountSame
  <2>. QED
    BY <2>2, <2>3
<1>. QED
  BY <1>6, <1>10, <1>11, <1>12 DEF DsInv

LEMMA MissingTick ==
  ASSUME DsInv, NEW t \in DsTicks, DsMissing(t)
  PROVE  DsInv'
<1>. DEFINE c == DsNextContact(t)
            a == DsNextAccount(t)
            m == DsTaken(t, "failed")
<1>1. DsTypeOK /\ DsTurn(t) /\ DsTo(t, "acting", m) /\ UNCHANGED <<dsTables, dsObserved>>
  BY DEF DsInv, DsMissing
<1>2. /\ m \in DsMemory
      /\ m.accounts = dsMem[t].accounts \ {a} /\ m.pending = dsMem[t].pending \ {c}
      /\ m.results = [dsMem[t].results EXCEPT ![c] = "failed"]
      /\ m.actions = dsMem[t].actions /\ m.acted = dsMem[t].acted
  BY <1>1, TakenIs
<1>3. c \in DsContacts /\ a \in DsAccounts /\ c = DsNextContact(t) /\ a = DsNextAccount(t)
  BY <1>1, TurnIs
<1>. HIDE DEF m, c, a
<1>4. dsReached' = [dsReached EXCEPT ![c] = @ + 0] /\ dsActed' = [dsActed EXCEPT ![a] = @ + 0]
  <2>1. dsReached[c] + 0 = dsReached[c] /\ dsActed[a] + 0 = dsActed[a]
    BY <1>1, <1>3 DEF DsTypeOK
  <2>2. dsReached' = dsReached /\ dsActed' = dsActed
    BY <1>1 DEF dsObserved
  <2>. QED
    BY <1>1, <2>1, <2>2 DEF DsTypeOK
<1>5. /\ UNCHANGED <<dsTables, dsOverlaps, dsLost>>
      /\ dsLate' = dsLate /\ dsAgainst' = dsAgainst
  BY <1>1 DEF dsObserved
<1>6. /\ m.acted = IF 0 = 1 THEN dsMem[t].acted \cup {a} ELSE dsMem[t].acted
      /\ 0 \in {0, 1} /\ "failed" \in {"reached", "failed"}
      /\ (0 = 1 => c \in dsLate')
  BY <1>2
<1>. QED
  BY <1>1, <1>2, <1>3, <1>4, <1>5, <1>6, TurnTick

LEMMA ActTick ==
  ASSUME DsInv, NEW t \in DsTicks, NEW outcome \in {"reached", "failed", "late"}, DsAct(t, outcome)
  PROVE  DsInv'
<1>. DEFINE c == DsNextContact(t)
            a == DsNextAccount(t)
            state == DsStateOf(outcome)
            k == IF outcome = "failed" THEN 0 ELSE 1
            taken == DsTaken(t, state)
            m == [taken EXCEPT !.acted = taken.acted \cup {a}]
<1>1. /\ DsTurn(t) /\ DsTo(t, "acting", m)
      /\ dsReached' = [dsReached EXCEPT ![c] = @ + k]
      /\ dsActed' = [dsActed EXCEPT ![a] = @ + 1]
      /\ dsAgainst' = dsAgainst \/ dsAgainst' = dsAgainst \cup {c}
      /\ dsLate' = IF outcome = "late" THEN dsLate \cup {c} ELSE dsLate
      /\ UNCHANGED <<dsTables, dsOverlaps, dsLost>>
  BY DEF DsAct
<1>2. /\ state \in {"reached", "failed"} /\ k \in {0, 1}
      /\ (state = "reached" /\ k = 1) \/ (state = "failed" /\ (k = 1 => outcome = "late"))
  BY DEF DsStateOf
<1>3. DsTypeOK
  BY DEF DsInv
<1>4. /\ taken \in DsMemory
      /\ taken.accounts = dsMem[t].accounts \ {a} /\ taken.pending = dsMem[t].pending \ {c}
      /\ taken.results = [dsMem[t].results EXCEPT ![c] = state]
      /\ taken.actions = dsMem[t].actions /\ taken.acted = dsMem[t].acted
      /\ a \in DsAccounts /\ c = DsNextContact(t) /\ a = DsNextAccount(t)
  BY <1>1, <1>2, <1>3, TakenIs, TurnIs
<1>. HIDE DEF taken
<1>5. /\ m \in DsMemory
      /\ m.accounts = taken.accounts /\ m.pending = taken.pending
      /\ m.results = taken.results
      /\ m.actions = taken.actions /\ m.acted = taken.acted \cup {a}
  BY <1>4 DEF DsMemory
<1>6. /\ (state = "reached" /\ k = 1) \/ (state = "failed" /\ (k = 1 => c \in dsLate'))
      /\ dsLate' = dsLate \/ dsLate' = dsLate \cup {c}
  BY <1>1, <1>2
<1>7. m.acted = IF 1 = 1 THEN dsMem[t].acted \cup {a} ELSE dsMem[t].acted
  BY <1>4, <1>5
<1>. HIDE DEF m, state, k, c, a
<1>8. /\ m.accounts = dsMem[t].accounts \ {a} /\ m.pending = dsMem[t].pending \ {c}
      /\ m.results = [dsMem[t].results EXCEPT ![c] = state]
      /\ m.actions = dsMem[t].actions /\ 1 \in {0, 1}
  BY <1>4, <1>5
<1>. QED
  BY <1>1, <1>2, <1>4, <1>5, <1>6, <1>7, <1>8, TurnTick

\* A tick ends: of what it has in hand, what it has done is written, or lost.
LEMMA EndTick ==
  ASSUME DsInv, NEW t \in DsTicks, dsPc[t] # "idle", DsTo(t, "idle", DsForgotten),
         UNCHANGED <<dsDestination, dsContact, dsReached, dsActed, dsAgainst, dsOverlaps, dsLate>>,
         NEW lost \in BOOLEAN,
         dsMember' = IF lost THEN dsMember
                     ELSE [c \in DsContacts |-> IF c \in DsWrites(t) THEN dsMem[t].results[c] ELSE dsMember[c]],
         \A c \in DsWrites(t) : ~lost => dsMember[c] # "none",
         dsAccount' \in [DsAccounts -> [active : BOOLEAN, actions : Nat, rested : BOOLEAN]],
         \A a \in DsAccounts : dsAccount'[a].actions =
             IF ~lost /\ a \in dsMem[t].acted THEN DsCounted(t, a) ELSE dsAccount[a].actions,
         dsLost' \in [DsThings -> Nat],
         \A c \in DsContacts : dsLost'[<<c, "contact">>] =
             dsLost[<<c, "contact">>] + IF lost /\ c \in DsWrites(t) THEN 1 ELSE 0,
         \A a \in DsAccounts : dsLost'[<<a, "account">>] =
             dsLost[<<a, "account">>] + IF lost /\ a \in dsMem[t].acted THEN 1 ELSE 0
  PROVE  DsInv'
<1>1. DsTypeOK /\ dsMem[t] \in DsMemory /\ MemoryInv(t)
  BY DEF DsInv, DsTypeOK
<1>2. /\ dsPc' \in [DsTicks -> {"idle", "acting", "commit"}]
      /\ dsMem' \in [DsTicks -> DsMemory]
      /\ dsPc'[t] = "idle" /\ dsMem'[t] = DsForgotten
      /\ OnlyTick(t)
  BY <1>1, ForgottenType, DsToEffect
<1>3. \A c \in DsContacts : c \in DsWrites(t) => dsMem[t].results[c] \in {"reached", "failed"}
  BY <1>1 DEF DsWrites, DsMemory, DsStates, MemoryInv
<1>4. dsMember' \in [DsContacts -> DsStates]
  BY <1>1, <1>3 DEF DsTypeOK, DsStates
<1>5. DsTypeOK'
  BY <1>1, <1>2, <1>4 DEF DsTypeOK
<1>6. MemoryInv(t)'
  BY <1>2, ForgottenIs DEF MemoryInv, HasAccount
<1>7. \A s \in DsTicks : MemoryInv(s)'
  BY <1>2, <1>6, MemoryElsewhere
<1>8. ASSUME NEW c \in DsContacts
      PROVE  ReachInv(c)' /\ TellsInv(c)'
  <2>1. ReachInv(c) /\ TellsInv(c)
    BY DEF DsInv
  <2>2. /\ ~HasContact(t, c)' /\ c \notin dsMem'[t].pending /\ dsMem'[t].results[c] = "none"
        /\ HasContact(t, c) <=> c \in dsMem[t].pending \/ c \in DsWrites(t)
    BY <1>2, ForgottenIs DEF HasContact, DsWrites
  <2>3. dsMember'[c] = IF ~lost /\ c \in DsWrites(t) THEN dsMem[t].results[c] ELSE dsMember[c]
    OBVIOUS
  <2>4. CASE ~lost /\ c \in DsWrites(t)
    <3>1. c \notin dsMem[t].pending
      BY <1>1, <2>4 DEF DsWrites, MemoryInv
    <3>2. dsLost'[<<c, "contact">>] = dsLost[<<c, "contact">>]
      BY <1>1, <2>4, CountersAre
    <3>. QED
      BY <1>1, <1>2, <1>3, <2>1, <2>2, <2>3, <2>4, <3>1, <3>2, ContactWritten
  <2>5. CASE lost /\ c \in DsWrites(t)
    <3>1. dsLost'[<<c, "contact">>] = dsLost[<<c, "contact">>] + 1 /\ dsMember'[c] = dsMember[c]
          /\ 1 \in {0, 1}
      BY <2>3, <2>5
    <3>2. HasContact(t, c)
      BY <2>2, <2>5
    <3>. QED
      BY <1>1, <1>2, <2>1, <2>2, <3>1, <3>2, ContactLeft
  <2>6. CASE c \notin DsWrites(t) /\ c \in dsMem[t].pending
    <3>1. dsLost'[<<c, "contact">>] = dsLost[<<c, "contact">>] + 0 /\ dsMem[t].results[c] = "none"
      BY <2>6 DEF DsWrites
    <3>. QED
      BY <1>1, <1>2, <2>1, <2>2, <2>3, <2>6, <3>1, ContactLeft
  <2>7. CASE c \notin DsWrites(t) /\ c \notin dsMem[t].pending
    <3>1. \A s \in DsTicks : SameContact(s, c)
      <4>1. SameContact(t, c)
        BY <2>2, <2>7 DEF SameContact, DsWrites
      <4>. QED
        BY <1>2, <4>1, OthersSame
    <3>2. ContactCounters(c)' = ContactCounters(c)
      BY <1>1, <2>7, CountersAre DEF ContactCounters
    <3>3. Available(c)' => Available(c)
      BY <2>3, <2>7, <3>1 DEF Available, SameContact
    <3>. QED
      BY <1>1, <2>1, <2>3, <2>7, <3>1, <3>2, <3>3, ContactSame
  <2>. QED
    BY <2>4, <2>5, <2>6, <2>7
<1>9. ASSUME NEW a \in DsAccounts
      PROVE  AccountInv(a)'
  <2>1. AccountInv(a) /\ dsLost[<<a, "account">>] \in Nat
    BY <1>1, CountersAre DEF DsInv
  <2>2. /\ ~HasAccount(t, a)' /\ a \notin dsMem'[t].acted
        /\ HasAccount(t, a) <=> a \in dsMem[t].accounts \/ a \in dsMem[t].acted
    BY <1>2, ForgottenIs DEF HasAccount
  <2>3. CASE HasAccount(t, a)
    <3>1. dsMem[t].actions[a] < DsCap
      BY <1>1, <2>3 DEF MemoryInv
    <3>2. \/ a \notin dsMem[t].acted /\ dsAccount'[a].actions = dsAccount[a].actions
             /\ dsLost'[<<a, "account">>] = dsLost[<<a, "account">>]
          \/ a \in dsMem[t].acted /\ dsAccount'[a].actions = dsMem[t].actions[a] + 1
             /\ dsLost'[<<a, "account">>] = dsLost[<<a, "account">>]
          \/ a \in dsMem[t].acted /\ dsAccount'[a].actions = dsAccount[a].actions
             /\ dsLost'[<<a, "account">>] = dsLost[<<a, "account">>] + 1
      BY <2>1 DEF DsCounted
    <3>. QED
      BY <1>1, <1>2, <2>1, <2>2, <2>3, <3>1, <3>2, AccountLeft
  <2>4. CASE ~HasAccount(t, a)
    <3>1. \A s \in DsTicks : SameAccount(s, a)
      <4>1. SameAccount(t, a)
        BY <2>2, <2>4 DEF SameAccount
      <4>. QED
        BY <1>2, <4>1, OthersSame
    <3>2. AccountCounters(a)' = AccountCounters(a)
      BY <2>1, <2>2, <2>4 DEF AccountCounters
    <3>. QED
      BY <1>1, <2>1, <3>1, <3>2, AccountSame
  <2>. QED
    BY <2>3, <2>4
<1>. QED
  BY <1>5, <1>7, <1>8, <1>9 DEF DsInv

LEMMA CommitTick ==
  ASSUME DsInv, NEW t \in DsTicks, DsCommit(t)
  PROVE  DsInv'
<1>1. DsTypeOK /\ dsMem[t] \in DsMemory
  BY DEF DsInv, DsTypeOK
<1>2. /\ dsPc[t] # "idle" /\ DsTo(t, "idle", DsForgotten)
      /\ UNCHANGED <<dsDestination, dsContact, dsReached, dsActed, dsAgainst, dsOverlaps, dsLate>>
      /\ dsMember' = [c \in DsContacts |-> IF c \in DsWrites(t) THEN dsMem[t].results[c] ELSE dsMember[c]]
      /\ \A c \in DsWrites(t) : dsMember[c] # "none"
      /\ dsLost' = dsLost
  BY DEF DsCommit, DsCanCommit, dsObserved
<1>3. dsAccount' = [a \in DsAccounts |->
          [active |-> dsAccount[a].active /\ a \notin dsMem[t].flooded,
           actions |-> IF a \in dsMem[t].acted THEN DsCounted(t, a) ELSE dsAccount[a].actions,
           rested |-> dsAccount[a].rested /\ a \notin dsMem[t].acted]]
  BY DEF DsCommit
<1>4. \A a \in DsAccounts : dsAccount'[a].actions =
          IF a \in dsMem[t].acted THEN DsCounted(t, a) ELSE dsAccount[a].actions
  BY <1>3
<1>5. dsAccount' \in [DsAccounts -> [active : BOOLEAN, actions : Nat, rested : BOOLEAN]]
  <2>1. ASSUME NEW a \in DsAccounts
        PROVE  /\ (dsAccount[a].active /\ a \notin dsMem[t].flooded) \in BOOLEAN
               /\ (dsAccount[a].rested /\ a \notin dsMem[t].acted) \in BOOLEAN
               /\ (IF a \in dsMem[t].acted THEN DsCounted(t, a) ELSE dsAccount[a].actions) \in Nat
    BY <1>1 DEF DsTypeOK, DsMemory, DsCounted
  <2>. QED
    BY <1>3, <2>1
<1>6. ASSUME NEW c \in DsContacts
      PROVE  dsLost'[<<c, "contact">>] =
                 dsLost[<<c, "contact">>] + IF FALSE /\ c \in DsWrites(t) THEN 1 ELSE 0
  <2>1. dsLost[<<c, "contact">>] \in Nat
    BY <1>1, CountersAre
  <2>. QED
    BY <1>2, <2>1
<1>7. ASSUME NEW a \in DsAccounts
      PROVE  dsLost'[<<a, "account">>] =
                 dsLost[<<a, "account">>] + IF FALSE /\ a \in dsMem[t].acted THEN 1 ELSE 0
  <2>1. dsLost[<<a, "account">>] \in Nat
    BY <1>1, CountersAre
  <2>. QED
    BY <1>2, <2>1
<1>8. dsLost' \in [DsThings -> Nat]
  BY <1>1, <1>2 DEF DsTypeOK
<1>. QED
  BY <1>2, <1>4, <1>5, <1>6, <1>7, <1>8, EndTick

LEMMA LoseTick ==
  ASSUME DsInv, NEW t \in DsTicks, DsCommitFails(t) \/ DsCrash(t)
  PROVE  DsInv'
<1>1. DsTypeOK /\ dsMem[t] \in DsMemory
  BY DEF DsInv, DsTypeOK
<1>. DEFINE things == (DsWrites(t) \X {"contact"}) \cup (dsMem[t].acted \X {"account"})
<1>2. /\ dsPc[t] # "idle" /\ DsTo(t, "idle", DsForgotten)
      /\ UNCHANGED <<dsDestination, dsContact, dsReached, dsActed, dsAgainst, dsOverlaps, dsLate>>
      /\ dsMember' = dsMember /\ dsAccount' = dsAccount
      /\ dsLost' = [x \in DsThings |-> dsLost[x] + IF x \in things THEN 1 ELSE 0]
  BY DEF DsCommitFails, DsCrash, DsLose, dsTables
<1>3. dsLost \in [DsThings -> Nat] /\ dsAccount \in [DsAccounts -> [active : BOOLEAN, actions : Nat, rested : BOOLEAN]]
  BY <1>1 DEF DsTypeOK
<1>4. dsLost' \in [DsThings -> Nat]
  BY <1>2, <1>3
<1>5. \A c \in DsContacts : dsLost'[<<c, "contact">>] =
          dsLost[<<c, "contact">>] + IF c \in DsWrites(t) THEN 1 ELSE 0
  <2>. SUFFICES ASSUME NEW c \in DsContacts
                PROVE  dsLost'[<<c, "contact">>] =
                           dsLost[<<c, "contact">>] + IF c \in DsWrites(t) THEN 1 ELSE 0
    OBVIOUS
  <2>1. <<c, "contact">> \in DsThings
    BY DEF DsThings
  <2>2. <<c, "contact">> \in things <=> c \in DsWrites(t)
    OBVIOUS
  <2>. HIDE DEF things
  <2>. QED
    BY <1>2, <2>1, <2>2
<1>6. \A a \in DsAccounts : dsLost'[<<a, "account">>] =
          dsLost[<<a, "account">>] + IF a \in dsMem[t].acted THEN 1 ELSE 0
  <2>. SUFFICES ASSUME NEW a \in DsAccounts
                PROVE  dsLost'[<<a, "account">>] =
                           dsLost[<<a, "account">>] + IF a \in dsMem[t].acted THEN 1 ELSE 0
    OBVIOUS
  <2>1. <<a, "account">> \in DsThings
    BY DEF DsThings
  <2>2. <<a, "account">> \in things <=> a \in dsMem[t].acted
    OBVIOUS
  <2>. HIDE DEF things
  <2>. QED
    BY <1>2, <2>1, <2>2
<1>. HIDE DEF things
<1>. QED
  BY <1>2, <1>3, <1>4, <1>5, <1>6, EndTick

-----------------------------------------------------------------------------
(* The invariant, and the theorem.                                          *)

LEMMA DsStutter ==
  ASSUME DsInv, UNCHANGED dsVars
  PROVE  DsInv'
<1>1. UNCHANGED <<dsDestination, dsContact, dsMember, dsAccount, dsPc, dsMem, dsReached, dsActed,
                  dsAgainst, dsOverlaps, dsLost, dsLate>>
  BY DEF dsVars, dsTables, dsSessions, dsObserved
<1>2. DsTypeOK'
  BY <1>1 DEF DsInv, DsTypeOK
<1>3. \A t \in DsTicks : MemoryInv(t)'
  BY <1>1 DEF DsInv, MemoryInv, HasAccount
<1>4. ASSUME NEW c \in DsContacts
      PROVE  ReachInv(c)' /\ TellsInv(c)'
  <2>1. ReachInv(c) /\ TellsInv(c)
    BY DEF DsInv
  <2>2. ReachInv(c)'
    BY <1>1, <2>1 DEF ReachInv, ToReach, Available, HasContact, ContactExcess
  <2>3. TellsInv(c)'
    BY <1>1, <2>1 DEF TellsInv, HasContact, ContactExcess
  <2>. QED
    BY <2>2, <2>3
<1>5. \A a \in DsAccounts : AccountInv(a)'
  BY <1>1 DEF DsInv, AccountInv, HasAccount, Using, Uncounted, AccountExcess
<1>. QED
  BY <1>2, <1>3, <1>4, <1>5 DEF DsInv

LEMMA DsStep == DsInv /\ [DsNext]_dsVars => DsInv'
<1>. SUFFICES ASSUME DsInv, [DsNext]_dsVars PROVE DsInv'
  OBVIOUS
<1>1. CASE UNCHANGED dsVars
  BY <1>1, DsStutter
<1>2. CASE DsNext
  <2>1. CASE \/ \E c \in DsContacts, typed \in BOOLEAN : DsQueue(c, typed)
             \/ \E c \in DsContacts : DsOptOut(c) \/ DsDeleteContact(c)
             \/ \E found \in BOOLEAN : DsRegister(found)
             \/ DsDelete
             \/ \E a \in DsAccounts : DsRest(a)
    BY <2>1, RequestSteps
  <2>2. ASSUME NEW t \in DsTicks, DsFlood(t) \/ DsThrough(t)
        PROVE  DsInv'
    BY <2>2, WaitSteps
  <2>3. ASSUME NEW t \in DsTicks,
               DsBegin(t) \/ DsMissing(t) \/ DsCommit(t) \/ DsCommitFails(t) \/ DsCrash(t)
        PROVE  DsInv'
    BY <2>3, BeginTick, MissingTick, CommitTick, LoseTick
  <2>4. ASSUME NEW t \in DsTicks, NEW outcome \in {"reached", "failed", "late"}, DsAct(t, outcome)
        PROVE  DsInv'
    BY <2>4, ActTick
  <2>. QED
    BY <1>2, <2>1, <2>2, <2>3, <2>4 DEF DsNext
<1>. QED
  BY <1>1, <1>2

LEMMA AdditionsInv == DsInv => AdditionsHold
<1>. SUFFICES ASSUME DsInv PROVE AdditionsHold
  OBVIOUS
<1>1. DsTypeOK
  BY DEF DsInv
<1>2. ASSUME NEW c \in DsContacts
      PROVE  dsReached[c] <= 1 + dsOverlaps[<<c, "contact">>] + dsLost[<<c, "contact">>]
  <2>1. ReachInv(c)
    BY DEF DsInv
  <2>2. Cardinality(ToReach(c)) \in Nat
    BY SomeCount, TickSetsFinite
  <2>3. dsReached[c] \in Nat /\ dsOverlaps[<<c, "contact">>] \in Nat /\ dsLost[<<c, "contact">>] \in Nat
    BY <1>1, CountersAre
  <2>. QED
    BY <2>1, <2>2, <2>3 DEF ReachInv, ContactExcess
<1>3. MembershipTells
  BY DEF DsInv, TellsInv, MembershipTells, ContactExcess
<1>4. ASSUME NEW a \in DsAccounts
      PROVE  dsActed[a] <= DsCap + dsOverlaps[<<a, "account">>] + dsLost[<<a, "account">>]
  <2>1. AccountInv(a) /\ \A t \in DsTicks : MemoryInv(t)
    BY DEF DsInv
  <2>2. /\ dsActed[a] \in Nat /\ dsAccount[a].actions \in Nat
        /\ dsOverlaps[<<a, "account">>] \in Nat /\ dsLost[<<a, "account">>] \in Nat
    BY <1>1, CountersAre
  <2>3. IsFiniteSet(Uncounted(a)) /\ IsFiniteSet(Using(a))
    BY TickSetsFinite
  <2>4. Cardinality(Uncounted(a)) \in Nat /\ Cardinality(Using(a)) \in Nat
    BY <2>3, SomeCount
  <2>5. CASE \A t \in DsTicks : ~HasAccount(t, a)
    <3>1. Uncounted(a) = {}
      BY <2>1, <2>5, ForgottenIs DEF Uncounted, HasAccount, MemoryInv
    <3>2. Cardinality(Uncounted(a)) = 0
      BY <3>1, FS_EmptySet
    <3>. QED
      BY <2>1, <2>2, <3>2, DestinationsAssumption DEF AccountInv, AccountExcess
  <2>6. ASSUME NEW t \in DsTicks, HasAccount(t, a)
        PROVE  dsActed[a] <= DsCap + dsOverlaps[<<a, "account">>] + dsLost[<<a, "account">>]
    <3>1. Uncounted(a) \subseteq Using(a)
      BY <2>1, ForgottenIs DEF Uncounted, Using, HasAccount, MemoryInv
    <3>2. Cardinality(Uncounted(a)) <= Cardinality(Using(a))
      BY <2>3, <3>1, FS_Subset
    <3>3. dsMem[t].actions[a] < DsCap /\ dsMem[t].actions[a] \in Nat
      BY <1>1, <2>1, <2>6 DEF MemoryInv, DsTypeOK, DsMemory
    <3>4. dsActed[a] + Cardinality(Using(a))
              <= 1 + dsMem[t].actions[a] + Cardinality(Uncounted(a)) + AccountExcess(a)
      BY <2>1, <2>6 DEF AccountInv
    <3>. QED
      BY <2>2, <2>4, <3>2, <3>3, <3>4, DestinationsAssumption DEF AccountExcess
  <2>. QED
    BY <2>5, <2>6
<1>. QED
  BY <1>2, <1>3, <1>4 DEF AdditionsHold, ReachedAgainExplained, MembersCapHeld, DsInv

\* Adding members, for any number of accounts, contacts and overlapping ticks (run_add_tick):
\* a contact is reached again, an account acts above its cap and a membership is untrue only
\* as far as overlapping ticks, lost commits and late answers explain.
THEOREM AdditionsSafe == DsSpec => []AdditionsHold
<1>1. DsInit => DsInv
  BY DsInitially
<1>2. DsInv /\ [DsNext]_dsVars => DsInv'
  BY DsStep
<1>3. DsInv => AdditionsHold
  BY AdditionsInv
<1>. QED
  BY <1>1, <1>2, <1>3, PTL DEF DsSpec

-----------------------------------------------------------------------------
(***************************************************************************)
(* Realtime: any workers, sockets, events and failures.                  *)
(***************************************************************************)

\* An event is in a sequence, and each is once.
Waits(seq, e) == \E i \in 1..Len(seq) : seq[i] = e
Distinct(seq) == \A i, j \in 1..Len(seq) : seq[i] = seq[j] => i = j

RtTypes ==
    /\ rtHome \in [RtSockets -> RtWorkers \cup {RtNowhere}]
    /\ rtRedisOk \subseteq RtWorkers
    /\ rtInbox \in [RtWorkers -> Seq(RtEvents)]
    /\ rtGot \in [RtSockets -> [RtEvents -> Nat]]
    /\ rtDue \in [RtSockets -> SUBSET RtEvents]
    /\ rtPublished \subseteq RtEvents
    /\ rtFaults \in Nat

\* Redis sends what was published, and to a worker once.
InboxInv(w) ==
    /\ Distinct(rtInbox[w])
    /\ \A e \in RtEvents : Waits(rtInbox[w], e) => e \in rtPublished

\* An event that a socket is owed was told it once, or waits for its worker, or neither; that
\* it does one or the other is sure as long as nothing has failed.
SocketInv(s, e) ==
    /\ e \in rtDue[s] \/ rtGot[s][e] > 0 => e \in rtPublished
    /\ e \in rtDue[s] => rtHome[s] \in RtWorkers
    /\ e \in rtDue[s] /\ e \notin rtDoubtful =>
          rtGot[s][e] = 0 \/ (rtGot[s][e] = 1 /\ ~Waits(rtInbox[rtHome[s]], e))
    /\ e \in rtDue[s] /\ rtFaults = 0 /\ rtRedisOk = RtWorkers =>
          rtGot[s][e] > 0 \/ Waits(rtInbox[rtHome[s]], e)

ListenInv ==
    rtFaults = 0 =>
        rtListening = rtRedisOk /\ (rtRedisOk = RtWorkers => rtRedisUp \/ RtWorkers = {})

RtInv ==
    /\ RtTypes
    /\ ListenInv
    /\ \A w \in RtWorkers : InboxInv(w)
    /\ \A s \in RtSockets, e \in RtEvents : SocketInv(s, e)

LEMMA AppendWaits ==
  ASSUME NEW S, NEW seq \in Seq(S), NEW e \in S
  PROVE  /\ Append(seq, e) \in Seq(S)
         /\ \A d : Waits(Append(seq, e), d) <=> Waits(seq, d) \/ d = e
         /\ Distinct(seq) /\ ~Waits(seq, e) => Distinct(Append(seq, e))
<1>. DEFINE new == Append(seq, e)
<1>1. /\ new \in Seq(S) /\ Len(new) = Len(seq) + 1 /\ Len(seq) \in Nat
      /\ \A i \in 1..Len(seq) : new[i] = seq[i]
      /\ new[Len(seq) + 1] = e
  BY AppendProperties
<1>. HIDE DEF new
<1>2. 1..Len(new) = 1..Len(seq) \cup {Len(seq) + 1}
  BY <1>1
<1>3. ASSUME NEW d PROVE Waits(new, d) <=> Waits(seq, d) \/ d = e
  BY <1>1, <1>2 DEF Waits
<1>4. ASSUME Distinct(seq), ~Waits(seq, e) PROVE Distinct(new)
  <2>. SUFFICES ASSUME NEW i \in 1..Len(new), NEW j \in 1..Len(new), new[i] = new[j] PROVE i = j
    BY DEF Distinct
  <2>1. CASE i \in 1..Len(seq) /\ j \in 1..Len(seq)
    BY <1>1, <1>4, <2>1 DEF Distinct
  <2>2. CASE i = Len(seq) + 1 /\ j \in 1..Len(seq)
    BY <1>1, <1>4, <2>2 DEF Waits
  <2>3. CASE i \in 1..Len(seq) /\ j = Len(seq) + 1
    BY <1>1, <1>4, <2>3 DEF Waits
  <2>. QED
    BY <1>2, <2>1, <2>2, <2>3
<1>. QED
  BY <1>1, <1>3, <1>4 DEF new

LEMMA TailWaits ==
  ASSUME NEW S, NEW seq \in Seq(S), seq # <<>>
  PROVE  /\ Head(seq) \in S /\ Tail(seq) \in Seq(S)
         /\ Waits(seq, Head(seq))
         /\ \A d : Waits(seq, d) <=> Waits(Tail(seq), d) \/ d = Head(seq)
         /\ Distinct(seq) => Distinct(Tail(seq)) /\ ~Waits(Tail(seq), Head(seq))
<1>. DEFINE rest == Tail(seq)
            first == Head(seq)
<1>1. /\ first \in S /\ rest \in Seq(S) /\ Len(rest) = Len(seq) - 1
      /\ \A i \in 1..Len(rest) : rest[i] = seq[i + 1]
  BY HeadTailProperties
<1>2. first = seq[1] /\ Len(seq) \in Nat /\ Len(seq) > 0
  <2>1. Len(seq) \in Nat \ {0}
    BY EmptySeq
  <2>2. Head(seq) = seq[1]
    OBVIOUS
  <2>. QED
    BY <2>1, <2>2
<1>. HIDE DEF rest, first
<1>3. /\ \A i \in 1..Len(rest) : i + 1 \in 1..Len(seq) /\ i + 1 # 1
      /\ \A i \in 1..Len(seq) : i # 1 => i - 1 \in 1..Len(rest) /\ rest[i - 1] = seq[i]
      /\ 1 \in 1..Len(seq)
  BY <1>1, <1>2
<1>4. Waits(seq, first)
  BY <1>2, <1>3 DEF Waits
<1>5. ASSUME NEW d PROVE Waits(seq, d) <=> Waits(rest, d) \/ d = first
  <2>1. Waits(seq, d) => Waits(rest, d) \/ d = first
    BY <1>2, <1>3 DEF Waits
  <2>2. Waits(rest, d) => Waits(seq, d)
    BY <1>1, <1>3 DEF Waits
  <2>. QED
    BY <1>4, <2>1, <2>2
<1>6. ASSUME Distinct(seq) PROVE Distinct(rest)
  <2>. SUFFICES ASSUME NEW i \in 1..Len(rest), NEW j \in 1..Len(rest), rest[i] = rest[j] PROVE i = j
    BY DEF Distinct
  <2>1. i + 1 = j + 1
    BY <1>1, <1>3, <1>6 DEF Distinct
  <2>. QED
    BY <2>1
<1>7. ASSUME Distinct(seq), NEW i \in 1..Len(rest), rest[i] = first PROVE FALSE
  <2>1. seq[i + 1] = seq[1] /\ i + 1 \in 1..Len(seq) /\ i + 1 # 1
    BY <1>1, <1>2, <1>3, <1>7
  <2>. QED
    BY <1>3, <1>7, <2>1 DEF Distinct
<1>. QED
  BY <1>1, <1>4, <1>5, <1>6, <1>7 DEF rest, first, Waits

LEMMA EmptyWaits == Distinct(<<>>) /\ \A d : ~Waits(<<>>, d)
  BY DEF Distinct, Waits

LEMMA BroadcastEffect ==
  ASSUME RtTypes, NEW w, NEW e \in RtEvents, RtBroadcast(w, e)
  PROVE  /\ rtGot' \in [RtSockets -> [RtEvents -> Nat]]
         /\ \A s \in RtSockets, d \in RtEvents :
               rtGot'[s][d] = IF rtHome[s] = w /\ d = e THEN rtGot[s][d] + 1 ELSE rtGot[s][d]
<1>1. ASSUME NEW s \in RtSockets
      PROVE  /\ rtGot'[s] \in [RtEvents -> Nat]
             /\ \A d \in RtEvents :
                   rtGot'[s][d] = IF rtHome[s] = w /\ d = e THEN rtGot[s][d] + 1 ELSE rtGot[s][d]
  <2>1. rtGot[s] \in [RtEvents -> Nat]
    BY DEF RtTypes
  <2>2. rtGot'[s] = IF rtHome[s] = w THEN [rtGot[s] EXCEPT ![e] = @ + 1] ELSE rtGot[s]
    BY DEF RtBroadcast
  <2>. QED
    BY <2>1, <2>2
<1>2. DOMAIN rtGot' = RtSockets /\ rtGot' = [s \in RtSockets |-> rtGot'[s]]
  BY DEF RtBroadcast
<1>. QED
  BY <1>1, <1>2

LEMMA RtInitially == RtInit => RtInv
<1>. SUFFICES ASSUME RtInit PROVE RtInv
  OBVIOUS
<1>1. RtTypes
  <2>1. <<>> \in Seq(RtEvents)
    BY EmptySeq
  <2>. QED
    BY <2>1 DEF RtInit, RtTypes
<1>2. ListenInv
  BY DEF RtInit, ListenInv
<1>3. \A w \in RtWorkers : InboxInv(w)
  BY EmptyWaits DEF RtInit, InboxInv
<1>4. \A s \in RtSockets, e \in RtEvents : SocketInv(s, e)
  BY DEF RtInit, SocketInv
<1>. QED
  BY <1>1, <1>2, <1>3, <1>4 DEF RtInv

\* A socket comes or goes, or a worker starts again and lets go of its sockets.
LEMMA RtSocketsChange ==
  ASSUME RtInv, RtTypes', ListenInv',
         \A s \in RtSockets : rtDue'[s] = {} \/ (rtDue'[s] = rtDue[s] /\ rtHome'[s] = rtHome[s]),
         \A w \in RtWorkers : rtInbox'[w] = rtInbox[w]
               \/ (rtInbox'[w] = <<>> /\ rtFaults' # 0),
         rtFaults' = 0 => rtFaults = 0 /\ rtRedisOk' = rtRedisOk,
         UNCHANGED <<rtGot, rtPublished, rtDoubtful>>
  PROVE  RtInv'
<1>1. \A w \in RtWorkers : InboxInv(w)'
  BY EmptyWaits DEF RtInv, InboxInv
<1>2. ASSUME NEW s \in RtSockets, NEW e \in RtEvents PROVE SocketInv(s, e)'
  <2>1. SocketInv(s, e)
    BY DEF RtInv
  <2>2. CASE e \notin rtDue'[s]
    BY <2>1, <2>2 DEF SocketInv
  <2>3. CASE e \in rtDue'[s]
    <3>1. rtDue'[s] = rtDue[s] /\ rtHome'[s] = rtHome[s] /\ rtHome[s] \in RtWorkers
      BY <2>1, <2>3 DEF SocketInv
    <3>2. \/ rtInbox'[rtHome[s]] = rtInbox[rtHome[s]]
          \/ rtInbox'[rtHome[s]] = <<>> /\ rtFaults' # 0
      BY <3>1
    <3>. QED
      BY <2>1, <2>3, <3>1, <3>2, EmptyWaits DEF SocketInv
  <2>. QED
    BY <2>2, <2>3
<1>. QED
  BY <1>1, <1>2 DEF RtInv

LEMMA RtSocketSteps ==
  ASSUME RtInv, NEW s \in RtSockets, RtDisconnect(s) \/ \E w \in RtWorkers : RtConnect(s, w)
  PROVE  RtInv'
<1>. USE DEF RtInv
<1>1. PICK v \in RtWorkers \cup {RtNowhere} :
          rtHome' = [rtHome EXCEPT ![s] = v] /\ rtDue' = [rtDue EXCEPT ![s] = {}]
  BY DEF RtDisconnect, RtConnect
<1>2. UNCHANGED <<rtRedisOk, rtListening, rtInbox, rtRedisUp, rtGot, rtPublished, rtDoubtful, rtFaults>>
  BY DEF RtDisconnect, RtConnect
<1>3. RtTypes' /\ ListenInv'
  BY <1>1, <1>2 DEF RtTypes, ListenInv
<1>4. \A q \in RtSockets : rtDue'[q] = {} \/ (rtDue'[q] = rtDue[q] /\ rtHome'[q] = rtHome[q])
  BY <1>1 DEF RtTypes
<1>. QED
  BY <1>2, <1>3, <1>4, RtSocketsChange

LEMMA RtRestartStep ==
  ASSUME RtInv, NEW w \in RtWorkers, RtRestart(w)
  PROVE  RtInv'
<1>. USE DEF RtInv
<1>1. rtFaults' # 0 /\ rtFaults' \in Nat
  BY DEF RtRestart, RtTypes
<1>2. RtTypes'
  <2>1. <<>> \in Seq(RtEvents)
    BY EmptySeq
  <2>. QED
    BY <1>1, <2>1 DEF RtRestart, RtTypes
<1>3. ListenInv'
  BY <1>1 DEF ListenInv
<1>4. \A q \in RtSockets : rtDue'[q] = {} \/ (rtDue'[q] = rtDue[q] /\ rtHome'[q] = rtHome[q])
  BY DEF RtRestart
<1>5. \A v \in RtWorkers : rtInbox'[v] = rtInbox[v] \/ rtInbox'[v] = <<>>
  BY DEF RtRestart, RtTypes
<1>6. UNCHANGED <<rtGot, rtPublished, rtDoubtful>>
  BY DEF RtRestart
<1>. QED
  BY <1>1, <1>2, <1>3, <1>4, <1>5, <1>6, RtSocketsChange

LEMMA RtRedisSteps ==
  ASSUME RtInv, RtRedisGoes \/ RtRedisComes
  PROVE  RtInv'
<1>. USE DEF RtInv
<1>1. CASE RtRedisGoes
  <2>1. rtFaults' # 0 /\ rtFaults' \in Nat
    BY <1>1 DEF RtRedisGoes, RtTypes
  <2>2. <<>> \in Seq(RtEvents)
    BY EmptySeq
  <2>3. PICK kept \in SUBSET RtWorkers :
            rtInbox' = [w \in RtWorkers |-> IF w \in kept THEN rtInbox[w] ELSE <<>>]
    BY <1>1 DEF RtRedisGoes
  <2>4. UNCHANGED <<rtHome, rtRedisOk, rtGot, rtDue, rtPublished, rtDoubtful>>
    BY <1>1 DEF RtRedisGoes
  <2>5. RtTypes' /\ ListenInv'
    BY <2>1, <2>2, <2>3, <2>4 DEF RtTypes, ListenInv
  <2>. QED
    BY <2>1, <2>3, <2>4, <2>5, RtSocketsChange
<1>2. CASE RtRedisComes
  <2>1. UNCHANGED <<rtHome, rtRedisOk, rtListening, rtInbox, rtGot, rtDue, rtPublished, rtDoubtful, rtFaults>>
        /\ rtRedisUp'
    BY <1>2 DEF RtRedisComes
  <2>2. RtTypes' /\ ListenInv'
    BY <2>1 DEF RtTypes, ListenInv
  <2>. QED
    BY <2>1, <2>2, RtSocketsChange
<1>. QED
  BY <1>1, <1>2

LEMMA RtDeliverStep ==
  ASSUME RtInv, NEW w \in RtWorkers, RtDeliver(w)
  PROVE  RtInv'
<1>. USE DEF RtInv
<1>. DEFINE e == Head(rtInbox[w])
<1>1. /\ rtInbox[w] \in Seq(RtEvents) /\ rtInbox[w] # <<>>
      /\ RtBroadcast(w, e)
      /\ rtInbox' = [rtInbox EXCEPT ![w] = Tail(rtInbox[w])]
      /\ UNCHANGED <<rtHome, rtRedisOk, rtListening, rtRedisUp, rtDue, rtPublished, rtDoubtful, rtFaults>>
  BY DEF RtDeliver, RtTypes
<1>2. /\ e \in RtEvents /\ Tail(rtInbox[w]) \in Seq(RtEvents)
      /\ Waits(rtInbox[w], e)
      /\ \A d : Waits(rtInbox[w], d) <=> Waits(Tail(rtInbox[w]), d) \/ d = e
      /\ Distinct(rtInbox[w]) => Distinct(Tail(rtInbox[w])) /\ ~Waits(Tail(rtInbox[w]), e)
  BY <1>1, TailWaits
<1>. HIDE DEF e
<1>3. /\ rtInbox' \in [RtWorkers -> Seq(RtEvents)]
      /\ rtInbox'[w] = Tail(rtInbox[w])
      /\ \A v \in RtWorkers : v # w => rtInbox'[v] = rtInbox[v]
  BY <1>1, <1>2 DEF RtTypes
<1>4. /\ rtGot' \in [RtSockets -> [RtEvents -> Nat]]
      /\ \A s \in RtSockets, d \in RtEvents :
            rtGot'[s][d] = IF rtHome[s] = w /\ d = e THEN rtGot[s][d] + 1 ELSE rtGot[s][d]
  BY <1>1, <1>2, BroadcastEffect
<1>5. RtTypes' /\ ListenInv'
  BY <1>1, <1>3, <1>4 DEF RtTypes, ListenInv
<1>6. ASSUME NEW v \in RtWorkers PROVE InboxInv(v)'
  <2>1. InboxInv(v)
    OBVIOUS
  <2>2. CASE v = w
    BY <1>1, <1>2, <1>3, <2>1, <2>2 DEF InboxInv
  <2>3. CASE v # w
    BY <1>1, <1>3, <2>1, <2>3 DEF InboxInv
  <2>. QED
    BY <2>2, <2>3
<1>7. ASSUME NEW s \in RtSockets, NEW d \in RtEvents PROVE SocketInv(s, d)'
  <2>1. SocketInv(s, d) /\ InboxInv(w) /\ rtGot[s][d] \in Nat
    BY DEF RtTypes
  <2>2. CASE rtHome[s] = w /\ d = e
    <3>1. /\ rtGot'[s][d] = rtGot[s][d] + 1 /\ ~Waits(rtInbox'[rtHome[s]], d)
          /\ Waits(rtInbox[rtHome[s]], d) /\ d \in rtPublished
      BY <1>2, <1>3, <1>4, <2>1, <2>2 DEF InboxInv
    <3>. QED
      BY <1>1, <2>1, <2>2, <3>1 DEF SocketInv
  <2>3. CASE ~(rtHome[s] = w /\ d = e)
    <3>1. rtGot'[s][d] = rtGot[s][d]
      BY <1>4, <2>3
    <3>2. rtHome[s] \in RtWorkers => (Waits(rtInbox'[rtHome[s]], d) <=> Waits(rtInbox[rtHome[s]], d))
      BY <1>2, <1>3, <2>3
    <3>. QED
      BY <1>1, <2>1, <3>1, <3>2 DEF SocketInv
  <2>. QED
    BY <2>2, <2>3
<1>. QED
  BY <1>5, <1>6, <1>7

\* What a publish does to the inboxes.
LEMMA RtTakenEffect ==
  ASSUME RtTypes, NEW w, NEW e \in RtEvents, RtTaken(w, e)
  PROVE  /\ rtInbox' \in [RtWorkers -> Seq(RtEvents)]
         /\ \A v \in RtWorkers : \/ rtInbox'[v] = Append(rtInbox[v], e)
                                 \/ rtInbox'[v] = rtInbox[v] /\ v \notin rtListening
<1>1. \A v \in RtWorkers : rtInbox[v] \in Seq(RtEvents) /\ Append(rtInbox[v], e) \in Seq(RtEvents)
  BY AppendProperties DEF RtTypes
<1>. QED
  BY <1>1 DEF RtTaken, RtHearers

LEMMA RtPublishStep ==
  ASSUME RtInv, NEW w \in RtWorkers, NEW e \in RtEvents, RtPublish(w, e)
  PROVE  RtInv'
<1>. USE DEF RtInv
<1>1. /\ e \notin rtPublished /\ rtPublished' = rtPublished \cup {e}
      /\ rtDue' = [s \in RtSockets |-> IF rtHome[s] # RtNowhere THEN rtDue[s] \cup {e} ELSE rtDue[s]]
      /\ UNCHANGED <<rtHome, rtRedisOk, rtListening, rtRedisUp>>
  BY DEF RtPublish
<1>2. /\ RtTaken(w, e) \/ rtInbox' = rtInbox
      /\ rtGot' = rtGot \/ RtBroadcast(w, e)
      /\ rtInbox' # rtInbox /\ rtGot' # rtGot => e \in rtDoubtful'
      /\ rtDoubtful' = rtDoubtful \/ rtDoubtful' = rtDoubtful \cup {e}
      /\ rtFaults' \in Nat /\ (rtFaults' = 0 => rtFaults = 0)
      /\ rtFaults' = 0 /\ rtRedisOk = RtWorkers => RtTaken(w, e) /\ rtRedisUp
  <2>1. rtFaults \in Nat /\ rtFaults + 1 \in Nat /\ rtFaults + 1 # 0
    BY DEF RtTypes
  <2>2. \/ /\ w \in rtRedisOk /\ rtRedisUp
           /\ RtTaken(w, e) /\ rtGot' = rtGot /\ rtDoubtful' = rtDoubtful /\ rtFaults' = rtFaults
        \/ /\ rtFaults' = rtFaults + 1
           /\ \/ RtTaken(w, e) /\ rtDoubtful' = rtDoubtful \cup {e}
              \/ rtInbox' = rtInbox /\ rtDoubtful' = rtDoubtful
           /\ RtBroadcast(w, e)
        \/ /\ ~(w \in rtRedisOk /\ rtRedisUp)
           /\ RtBroadcast(w, e) /\ rtInbox' = rtInbox /\ rtDoubtful' = rtDoubtful /\ rtFaults' = rtFaults
    BY DEF RtPublish, RtPublished
  <2>3. rtFaults = 0 /\ rtRedisOk = RtWorkers => w \in rtRedisOk /\ rtRedisUp
    BY DEF ListenInv
  <2>4. CASE /\ w \in rtRedisOk /\ rtRedisUp
             /\ RtTaken(w, e) /\ rtGot' = rtGot /\ rtDoubtful' = rtDoubtful /\ rtFaults' = rtFaults
    BY <2>1, <2>4
  <2>5. CASE /\ rtFaults' = rtFaults + 1
             /\ \/ RtTaken(w, e) /\ rtDoubtful' = rtDoubtful \cup {e}
                \/ rtInbox' = rtInbox /\ rtDoubtful' = rtDoubtful
             /\ RtBroadcast(w, e)
    <3>1. rtFaults' \in Nat /\ rtFaults' # 0
      BY <2>1, <2>5
    <3>2. \/ RtTaken(w, e) /\ rtDoubtful' = rtDoubtful \cup {e}
          \/ rtInbox' = rtInbox /\ rtDoubtful' = rtDoubtful
      BY <2>5
    <3>. QED
      BY <2>5, <3>1, <3>2
  <2>6. CASE /\ ~(w \in rtRedisOk /\ rtRedisUp)
             /\ RtBroadcast(w, e) /\ rtInbox' = rtInbox /\ rtDoubtful' = rtDoubtful /\ rtFaults' = rtFaults
    BY <2>1, <2>3, <2>6
  <2>. QED
    BY <2>2, <2>4, <2>5, <2>6
<1>3. /\ rtInbox' \in [RtWorkers -> Seq(RtEvents)]
      /\ \A v \in RtWorkers : \/ rtInbox'[v] = Append(rtInbox[v], e)
                              \/ rtInbox'[v] = rtInbox[v]
      /\ RtTaken(w, e) => \A v \in RtWorkers : rtInbox'[v] = Append(rtInbox[v], e) \/ v \notin rtListening
      /\ rtInbox' = rtInbox \/ RtTaken(w, e)
  BY <1>2, RtTakenEffect DEF RtTypes
<1>4. /\ rtGot' \in [RtSockets -> [RtEvents -> Nat]]
      /\ \A s \in RtSockets, d \in RtEvents :
            rtGot'[s][d] = rtGot[s][d] \/ (d = e /\ rtGot'[s][d] = rtGot[s][d] + 1)
  BY <1>2, BroadcastEffect DEF RtTypes
<1>5. \A v \in RtWorkers : /\ rtInbox[v] \in Seq(RtEvents) /\ ~Waits(rtInbox[v], e)
                           /\ Distinct(rtInbox[v])
  BY <1>1 DEF RtTypes, InboxInv
<1>6. \A v \in RtWorkers :
          /\ Distinct(rtInbox'[v])
          /\ \A d \in RtEvents : d # e => (Waits(rtInbox'[v], d) <=> Waits(rtInbox[v], d))
          /\ rtInbox'[v] = Append(rtInbox[v], e) => Waits(rtInbox'[v], e)
  <2>. SUFFICES ASSUME NEW v \in RtWorkers
                PROVE  /\ Distinct(rtInbox'[v])
                       /\ \A d \in RtEvents : d # e => (Waits(rtInbox'[v], d) <=> Waits(rtInbox[v], d))
                       /\ rtInbox'[v] = Append(rtInbox[v], e) => Waits(rtInbox'[v], e)
    OBVIOUS
  <2>1. CASE rtInbox'[v] = Append(rtInbox[v], e)
    <3>1. /\ \A d : Waits(Append(rtInbox[v], e), d) <=> Waits(rtInbox[v], d) \/ d = e
          /\ Distinct(Append(rtInbox[v], e))
      BY <1>5, AppendWaits
    <3>. QED
      BY <2>1, <3>1
  <2>2. CASE rtInbox'[v] = rtInbox[v]
    <3>1. rtInbox[v] # Append(rtInbox[v], e)
      BY <1>5, AppendWaits
    <3>. QED
      BY <1>5, <2>2, <3>1
  <2>. QED
    BY <1>3, <2>1, <2>2
<1>7. RtTypes'
  <2>1. rtDue' \in [RtSockets -> SUBSET RtEvents]
    BY <1>1 DEF RtTypes
  <2>. QED
    BY <1>1, <1>2, <1>3, <1>4, <2>1 DEF RtTypes
<1>8. ListenInv'
  BY <1>1, <1>2 DEF ListenInv
<1>9. ASSUME NEW v \in RtWorkers PROVE InboxInv(v)'
  BY <1>1, <1>6 DEF InboxInv
<1>10. ASSUME NEW s \in RtSockets, NEW d \in RtEvents PROVE SocketInv(s, d)'
  <2>1. SocketInv(s, d) /\ rtGot[s][d] \in Nat /\ rtHome[s] \in RtWorkers \cup {RtNowhere}
    BY DEF RtTypes
  <2>2. rtDue'[s] = IF rtHome[s] # RtNowhere THEN rtDue[s] \cup {e} ELSE rtDue[s]
    BY <1>1
  <2>3. CASE d # e
    <3>1. rtGot'[s][d] = rtGot[s][d] /\ (d \in rtDue'[s] <=> d \in rtDue[s])
          /\ (d \in rtDoubtful' <=> d \in rtDoubtful) /\ (d \in rtPublished' <=> d \in rtPublished)
      BY <1>1, <1>2, <1>4, <2>2, <2>3
    <3>2. rtHome[s] \in RtWorkers => (Waits(rtInbox'[rtHome[s]], d) <=> Waits(rtInbox[rtHome[s]], d))
      BY <1>6, <2>3
    <3>. QED
      BY <1>1, <1>2, <2>1, <3>1, <3>2 DEF SocketInv
  <2>4. CASE d = e
    <3>1. rtGot[s][d] = 0 /\ d \notin rtDue[s]
      BY <1>1, <2>1, <2>4 DEF SocketInv
    <3>2. d \in rtDue'[s] => rtHome'[s] \in RtWorkers
      BY <1>1, <2>1, <2>2, <3>1
    <3>3. d \in rtDue'[s] /\ d \notin rtDoubtful' =>
              rtGot'[s][d] = 0 \/ (rtGot'[s][d] = 1 /\ ~Waits(rtInbox'[rtHome'[s]], d))
      <4>1. rtGot'[s][d] = 0 \/ rtGot'[s][d] = 1
        BY <1>4, <2>4, <3>1
      <4>2. rtGot'[s][d] = 1 => rtGot' # rtGot
        BY <3>1
      <4>3. rtGot'[s][d] = 1 /\ d \notin rtDoubtful' => rtInbox' = rtInbox
        BY <1>2, <2>4, <4>2
      <4>. QED
        BY <1>1, <1>5, <2>4, <3>2, <4>1, <4>3
    <3>4. d \in rtDue'[s] /\ rtFaults' = 0 /\ rtRedisOk' = RtWorkers => Waits(rtInbox'[rtHome'[s]], d)
      BY <1>1, <1>2, <1>3, <1>6, <2>4, <3>2 DEF ListenInv
    <3>. QED
      BY <1>1, <2>4, <3>2, <3>3, <3>4 DEF SocketInv
  <2>. QED
    BY <2>3, <2>4
<1>. QED
  BY <1>7, <1>8, <1>9, <1>10

LEMMA RtStep == RtInv /\ [RtNext]_rtVars => RtInv'
<1>. SUFFICES ASSUME RtInv, [RtNext]_rtVars PROVE RtInv'
  OBVIOUS
<1>1. CASE UNCHANGED rtVars
  BY <1>1 DEF rtVars, RtInv, RtTypes, ListenInv, InboxInv, SocketInv
<1>2. CASE RtNext
  BY <1>2, RtSocketSteps, RtDeliverStep, RtRestartStep, RtPublishStep, RtRedisSteps DEF RtNext
<1>. QED
  BY <1>1, <1>2

\* A socket is told an event once, and misses none while nothing fails, for any number of
\* workers, sockets and events (realtime.py), up to what ToldOnce excepts.
THEOREM BroadcastSafe == RtSpec => []BroadcastHolds
<1>1. RtInv => BroadcastHolds
  <2>. SUFFICES ASSUME RtInv PROVE BroadcastHolds
    OBVIOUS
  <2>1. \A s \in RtSockets, e \in RtEvents : SocketInv(s, e) /\ rtGot[s][e] \in Nat
    BY DEF RtInv, RtTypes
  <2>2. \A s \in RtSockets, e \in RtEvents : e \in rtDue[s] => e \in RtEvents
    OBVIOUS
  <2>3. ToldOnce
    BY <2>1 DEF ToldOnce, SocketInv
  <2>4. EveryoneTold
    <3>. SUFFICES ASSUME rtFaults = 0, rtRedisOk = RtWorkers, NEW s \in RtSockets,
                         rtInbox[rtHome[s]] = <<>>, NEW e \in rtDue[s]
                  PROVE  rtGot[s][e] >= 1
      BY DEF EveryoneTold
    <3>1. e \in RtEvents
      BY DEF RtInv, RtTypes
    <3>2. rtGot[s][e] > 0
      BY <2>1, <3>1, EmptyWaits DEF SocketInv
    <3>. QED
      BY <2>1, <3>1, <3>2
  <2>. QED
    BY <2>3, <2>4 DEF BroadcastHolds
<1>. QED
  BY <1>1, RtInitially, RtStep, PTL DEF RtSpec

-----------------------------------------------------------------------------
(***************************************************************************)
(* Bots: any requests, workers and events.                                  *)
(***************************************************************************)

\* The event a worker is to handle next, or the next of Telegram: those before it are behind it.
BtNow(w) == btNextEvent - Len(btQueue[w])

BtTypes ==
    /\ btPc \in [BtRequests -> BtSteps]
    /\ btMem \in [BtRequests -> BtStatuses]
    /\ btStatus \in BtStatuses
    /\ btNextEvent \in Nat \ {0}
    /\ btQueue \in [BtWorkers -> Seq(Nat)]
    /\ btLoaded \in [BtWorkers -> [subscriber : BOOLEAN, conversation : BOOLEAN, busy : BOOLEAN]]
    /\ btSubscriber \in BOOLEAN /\ btConversation \in BOOLEAN
    /\ btCopies \in [BtEvents -> Nat]
    /\ btRaced \in BOOLEAN
    /\ btFaults \in Nat

\* As long as no start has overlapped with another one the manager knows the task that polls,
\* and a start that is about to poll finds none.
BtPollInv ==
    btStarts = {} =>
        /\ btPollers \subseteq {btHeld}
        /\ \A r \in BtRequests : btPc[r] = "poll" => btPollers = {}

\* What a request finds that is alone, from one step to the next.
BtAloneInv ==
    ~btRaced =>
        /\ btStarts = {}
        /\ \A r, q \in BtRequests : btPc[r] # "idle" /\ btPc[q] # "idle" => r = q

BtStatusInv ==
    ~btRaced /\ btFaults = 0 =>
        /\ \A r \in BtRequests : btPc[r] # "idle" => btStatus # "none" /\ btMem[r] = btStatus
        /\ (\A r \in BtRequests : btPc[r] \in {"idle", "halt", "stop", "remove"}) =>
              (btStatus = "running" <=> btPollers # {})
        /\ \A r \in BtRequests :
              /\ btPc[r] = "started" => btPollers # {}
              /\ btPc[r] \in {"stopped", "removed"} => btPollers = {}

\* A worker handles the events one after another.
BtQueueInv(w) ==
    /\ Len(btQueue[w]) < btNextEvent
    /\ \A i \in 1..Len(btQueue[w]) : btQueue[w][i] = BtNow(w) + i - 1
    /\ btLoaded[w].busy => btQueue[w] # <<>>

BtFirst(e) == e \in BtTexts /\ \A d \in BtTexts : e <= d

\* The first event made the subscriber, the first text the conversation, and each of them is
\* there as soon as one worker is past it.
BtKeptInv ==
    btStatus # "none" =>
        /\ btConversation => btSubscriber
        /\ \A e \in BtTexts : e = 1 /\ btSubscriber => btConversation /\ btCopies[e] > 0
        /\ \A e \in BtTexts : BtFirst(e) /\ btConversation => btCopies[e] > 0
        /\ \A w \in BtWorkers :
              /\ BtNow(w) > 1 => btSubscriber
              /\ \A e \in BtTexts : e < BtNow(w) => btConversation /\ btCopies[e] > 0
              /\ btLoaded[w].busy /\ ~btLoaded[w].subscriber => BtNow(w) = 1
              /\ btLoaded[w].busy /\ ~btLoaded[w].conversation =>
                    \A e \in BtTexts : BtNow(w) <= e

BtInv ==
    /\ BtTypes
    /\ BtPollInv
    /\ BtAloneInv
    /\ BtStatusInv
    /\ \A w \in BtWorkers : BtQueueInv(w)
    /\ BtKeptInv

LEMMA BtEventsAre == BtEvents \subseteq Nat \ {0} /\ BtTexts \subseteq BtEvents
<1>1. Cardinality(BtEvents) \in Nat
  BY BotsAssumption, FS_CardinalityType
<1>. QED
  BY <1>1, BotsAssumption

LEMMA BtInitially == BtInit => BtInv
<1>. SUFFICES ASSUME BtInit PROVE BtInv
  OBVIOUS
<1>1. BtTypes
  <2>1. <<>> \in Seq(Nat) /\ BtNotLoaded \in [subscriber : BOOLEAN, conversation : BOOLEAN, busy : BOOLEAN]
    BY EmptySeq DEF BtNotLoaded
  <2>2. btQueue \in [BtWorkers -> Seq(Nat)]
    <3>1. btQueue = [w \in BtWorkers |-> <<>>]
      BY DEF BtInit
    <3>. QED
      BY <2>1, <3>1
  <2>3. btLoaded \in [BtWorkers -> [subscriber : BOOLEAN, conversation : BOOLEAN, busy : BOOLEAN]]
    BY <2>1 DEF BtInit
  <2>4. btPc \in [BtRequests -> BtSteps] /\ btMem \in [BtRequests -> BtStatuses] /\ btStatus \in BtStatuses
    BY DEF BtInit, BtSteps, BtStatuses
  <2>5. /\ btNextEvent \in Nat \ {0} /\ btSubscriber \in BOOLEAN /\ btConversation \in BOOLEAN
        /\ btCopies \in [BtEvents -> Nat] /\ btRaced \in BOOLEAN /\ btFaults \in Nat
    <3>1. btCopies \in [BtEvents -> Nat]
      BY DEF BtInit
    <3>2. btNextEvent \in Nat \ {0} /\ btFaults \in Nat
      BY DEF BtInit
    <3>3. btSubscriber \in BOOLEAN /\ btConversation \in BOOLEAN /\ btRaced \in BOOLEAN
      BY DEF BtInit
    <3>. QED
      BY <3>1, <3>2, <3>3
  <2>. QED
    BY <2>2, <2>3, <2>4, <2>5 DEF BtTypes
<1>2. BtPollInv /\ BtAloneInv /\ BtStatusInv
  BY DEF BtInit, BtPollInv, BtAloneInv, BtStatusInv
<1>3. \A w \in BtWorkers : /\ btQueue[w] = <<>> /\ Len(btQueue[w]) = 0 /\ ~btLoaded[w].busy
                           /\ BtNow(w) = 1
  BY EmptySeq DEF BtInit, BtNow, BtNotLoaded
<1>4. \A w \in BtWorkers : BtQueueInv(w)
  BY <1>3 DEF BtQueueInv, BtInit
<1>5. BtKeptInv
  BY <1>3, BtEventsAre DEF BtKeptInv, BtInit
<1>. QED
  BY <1>1, <1>2, <1>4, <1>5 DEF BtInv

-----------------------------------------------------------------------------
(* Requests.                                                                *)

\* The messages are as they were, or the bot and all of them are gone.
LEMMA BtInboxSame ==
  ASSUME BtTypes, \A w \in BtWorkers : BtQueueInv(w), BtKeptInv,
         UNCHANGED <<btNextEvent, btQueue, btLoaded>>,
         btStatus' # "none" => btStatus # "none" /\ UNCHANGED <<btSubscriber, btConversation, btCopies>>
  PROVE  (\A w \in BtWorkers : BtQueueInv(w)') /\ BtKeptInv'
<1>1. \A w \in BtWorkers : BtNow(w)' = BtNow(w)
  BY DEF BtNow
<1>2. \A w \in BtWorkers : BtQueueInv(w)'
  BY <1>1 DEF BtQueueInv
<1>3. BtKeptInv'
  BY <1>1 DEF BtKeptInv
<1>. QED
  BY <1>2, <1>3

LEMMA BtBeginStep ==
  ASSUME BtInv, NEW r \in BtRequests, NEW step \in {"halt", "stop", "remove"}, BtBegin(r, step)
  PROVE  BtInv'
<1>. USE DEF BtInv
<1>1. /\ btPc[r] = "idle" /\ btStatus # "none"
      /\ btPc' = [btPc EXCEPT ![r] = step] /\ btMem' = [btMem EXCEPT ![r] = btStatus]
      /\ btRaced' = (btRaced \/ \E q \in BtRequests \ {r} : btPc[q] # "idle")
      /\ UNCHANGED <<btStatus, btHeld, btPollers, btStarts, btNextEvent, btQueue, btLoaded,
                     btSubscriber, btConversation, btCopies, btFaults>>
  BY DEF BtBegin, btRow, btEngine, btEvents, btInbox
<1>2. BtTypes'
  BY <1>1 DEF BtTypes, BtSteps
<1>3. \A q \in BtRequests :
          /\ btPc'[q] = IF q = r THEN step ELSE btPc[q]
          /\ btMem'[q] = IF q = r THEN btStatus ELSE btMem[q]
  BY <1>1 DEF BtTypes
<1>4. BtPollInv'
  BY <1>1, <1>3 DEF BtPollInv
<1>5. BtAloneInv'
  BY <1>1, <1>3 DEF BtAloneInv
<1>6. BtStatusInv'
  <2>. SUFFICES ASSUME ~btRaced', btFaults' = 0
                PROVE  /\ \A q \in BtRequests : btPc'[q] # "idle" =>
                              btStatus' # "none" /\ btMem'[q] = btStatus'
                       /\ btStatus' = "running" <=> btPollers' # {}
                       /\ \A q \in BtRequests :
                              /\ btPc'[q] = "started" => btPollers' # {}
                              /\ btPc'[q] \in {"stopped", "removed"} => btPollers' = {}
    BY DEF BtStatusInv
  <2>1. ~btRaced /\ btFaults = 0 /\ \A q \in BtRequests : btPc[q] = "idle"
    BY <1>1
  <2>2. btStatus = "running" <=> btPollers # {}
    BY <2>1 DEF BtStatusInv
  <2>. QED
    BY <1>1, <1>3, <2>1, <2>2
<1>. QED
  BY <1>1, <1>2, <1>4, <1>5, <1>6, BtInboxSame

\* A step of a request other than its beginning and its end.
LEMMA BtRequestStep ==
  ASSUME BtInv, NEW r \in BtRequests, btPc[r] # "idle", NEW step \in BtSteps \ {"idle"},
         BtAt(r, step),
         UNCHANGED <<btStatus, btNextEvent, btQueue, btLoaded, btSubscriber, btConversation,
                     btCopies, btRaced, btFaults>>,
         BtPollInv', ~btRaced => btStarts' = {},
         ~btRaced /\ btFaults = 0 =>
             /\ step # "poll"  => (step = "started" <=> btPollers' # {})
             /\ step \in {"poll", "started", "stopped", "removed"}
  PROVE  BtInv'
<1>. USE DEF BtInv
<1>1. btMem' = btMem /\ btPc' \in [BtRequests -> BtSteps]
      /\ \A q \in BtRequests : btPc'[q] = IF q = r THEN step ELSE btPc[q]
  BY DEF BtAt, BtTypes
<1>2. BtTypes'
  BY <1>1 DEF BtTypes
<1>3. BtAloneInv'
  BY <1>1 DEF BtAloneInv
<1>4. BtStatusInv'
  <2>. SUFFICES ASSUME ~btRaced, btFaults = 0
                PROVE  BtStatusInv'
    BY DEF BtStatusInv
  <2>1. \A q \in BtRequests : q # r => btPc[q] = "idle"
    BY DEF BtAloneInv
  <2>2. btStatus # "none" /\ btMem[r] = btStatus
    BY DEF BtStatusInv
  <2>3. btPc'[r] = step /\ step \notin {"idle", "halt", "stop", "remove"}
    BY <1>1
  <2>. QED
    BY <1>1, <2>1, <2>2, <2>3 DEF BtStatusInv
<1>. QED
  BY <1>2, <1>3, <1>4, BtInboxSame

LEMMA BtHaltStep ==
  ASSUME BtInv, NEW r \in BtRequests, BtHalt(r) \/ BtStop(r)
  PROVE  BtInv'
<1>. USE DEF BtInv
<1>. DEFINE step == IF btPc[r] = "halt" THEN "poll" ELSE IF btPc[r] = "stop" THEN "stopped" ELSE "removed"
<1>1. /\ btPc[r] \in {"halt", "stop", "remove"} /\ BtAt(r, step)
      /\ btPollers' = btPollers \ {btHeld} /\ btHeld' = 0 /\ btStarts' = btStarts
      /\ UNCHANGED <<btStatus, btNextEvent, btQueue, btLoaded, btSubscriber, btConversation,
                     btCopies, btRaced, btFaults>>
  BY DEF BtHalt, BtStop, BtHalted, btRow, btEvents, btInbox
<1>2. step \in {"poll", "stopped", "removed"} /\ step \in BtSteps \ {"idle"}
  BY DEF BtSteps
<1>. HIDE DEF step
<1>3. \A q \in BtRequests : btPc'[q] = IF q = r THEN step ELSE btPc[q]
  BY <1>1 DEF BtAt, BtTypes
<1>4. btStarts = {} => btPollers' = {}
  BY <1>1 DEF BtPollInv
<1>5. BtPollInv'
  BY <1>1, <1>4 DEF BtPollInv
<1>6. ~btRaced => btStarts' = {} /\ btPollers' = {}
  BY <1>1, <1>4 DEF BtAloneInv
<1>. QED
  BY <1>1, <1>2, <1>5, <1>6, BtRequestStep

LEMMA BtPollStep ==
  ASSUME BtInv, NEW r \in BtRequests, BtPoll(r)
  PROVE  BtInv'
<1>. USE DEF BtInv
<1>1. PICK new : btHeld' = new /\ btPollers' = btPollers \cup {new}
  BY DEF BtPoll
<1>2. /\ btPc[r] = "poll" /\ BtAt(r, "started")
      /\ UNCHANGED <<btStatus, btNextEvent, btQueue, btLoaded, btSubscriber, btConversation,
                     btCopies, btRaced, btFaults>>
      /\ "started" \in BtSteps \ {"idle"}
  BY DEF BtPoll, btRow, btEvents, btInbox, BtSteps
<1>3. btStarts' = {} => btStarts = {} /\ \A q \in BtRequests \ {r} : btPc[q] # "poll"
  BY DEF BtPoll
<1>4. (\A q \in BtRequests \ {r} : btPc[q] = "idle") => btStarts' = btStarts
  BY DEF BtPoll
<1>5. \A q \in BtRequests : btPc'[q] = IF q = r THEN "started" ELSE btPc[q]
  BY <1>2 DEF BtAt, BtTypes
<1>6. BtPollInv'
  BY <1>1, <1>2, <1>3, <1>5 DEF BtPollInv
<1>7. ~btRaced => btStarts' = {} /\ btPollers' # {}
  BY <1>1, <1>2, <1>4 DEF BtAloneInv
<1>. QED
  BY <1>2, <1>6, <1>7, BtRequestStep

\* A call fails, or the engine starts again.
LEMMA BtFailStep ==
  ASSUME BtInv, BtEngineRestart \/ \E r \in BtRequests : BtFail(r)
  PROVE  BtInv'
<1>. USE DEF BtInv
<1>1. /\ btFaults' \in Nat /\ btFaults' # 0
      /\ btPollers' = {} \/ (btPollers' = btPollers /\ btHeld' = btHeld)
      /\ UNCHANGED <<btStatus, btStarts, btMem, btNextEvent, btQueue, btLoaded, btSubscriber,
                     btConversation, btCopies, btRaced>>
  BY DEF BtEngineRestart, BtFail, BtAt, btRow, btEngine, btEvents, btInbox, BtTypes
<1>2. \A r \in BtRequests : btPc'[r] = btPc[r] \/ (btPc[r] # "idle" /\ btPc'[r] = BtAfterFailure(btPc[r]))
  BY DEF BtEngineRestart, BtFail, BtAt, BtTypes, BtAfterFailure
<1>3. \A step \in BtSteps : /\ BtAfterFailure(step) \in BtSteps
                            /\ BtAfterFailure(step) # "poll"
                            /\ step = "idle" => BtAfterFailure(step) = "idle"
  BY DEF BtAfterFailure, BtSteps
<1>4. btPc' \in [BtRequests -> BtSteps]
  <2>1. DOMAIN btPc' = BtRequests /\ btPc' = [r \in BtRequests |-> btPc'[r]]
    BY DEF BtEngineRestart, BtFail, BtAt, BtTypes
  <2>. QED
    BY <1>2, <1>3, <2>1 DEF BtTypes
<1>5. BtTypes'
  BY <1>1, <1>4 DEF BtTypes
<1>6. BtPollInv'
  BY <1>1, <1>2, <1>3 DEF BtPollInv, BtTypes
<1>7. BtAloneInv'
  BY <1>1, <1>2, <1>3 DEF BtAloneInv, BtTypes
<1>8. BtStatusInv'
  BY <1>1 DEF BtStatusInv
<1>. QED
  BY <1>1, <1>5, <1>6, <1>7, <1>8, BtInboxSame

LEMMA BtCommitStep ==
  ASSUME BtInv, NEW r \in BtRequests, BtCommit(r)
  PROVE  BtInv'
<1>. USE DEF BtInv
<1>1. /\ btPc[r] \in {"started", "stopped", "removed"} /\ BtAt(r, "idle")
      /\ btStatus' = IF btStatus = "none" \/ BtOutcome(btPc[r]) = btMem[r] THEN btStatus
                     ELSE BtOutcome(btPc[r])
      /\ UNCHANGED <<btHeld, btPollers, btStarts, btNextEvent, btQueue, btLoaded, btRaced, btFaults>>
  BY DEF BtCommit, btEngine, btEvents
<1>2. /\ btStatus' # "none" => UNCHANGED <<btSubscriber, btConversation, btCopies>>
      /\ btSubscriber' \in BOOLEAN /\ btConversation' \in BOOLEAN /\ btCopies' \in [BtEvents -> Nat]
  <2>1. CASE btStatus' = "none"
    <3>1. btSubscriber' = FALSE /\ btConversation' = FALSE /\ btCopies' = [e \in BtEvents |-> 0]
      BY <2>1 DEF BtCommit
    <3>2. btCopies' \in [BtEvents -> Nat]
      BY <3>1
    <3>3. btSubscriber' \in BOOLEAN /\ btConversation' \in BOOLEAN
      BY <3>1
    <3>. QED
      BY <2>1, <3>2, <3>3
  <2>2. CASE btStatus' # "none"
    BY <2>2 DEF BtCommit, btInbox, BtTypes
  <2>. QED
    BY <2>1, <2>2
<1>3. /\ btMem' = btMem /\ btPc' \in [BtRequests -> BtSteps]
      /\ \A q \in BtRequests : btPc'[q] = IF q = r THEN "idle" ELSE btPc[q]
  BY <1>1 DEF BtAt, BtTypes, BtSteps
<1>4. BtOutcome(btPc[r]) \in BtStatuses /\ btStatus' \in BtStatuses
  BY <1>1 DEF BtOutcome, BtStatuses, BtTypes
<1>5. BtTypes'
  BY <1>1, <1>2, <1>3, <1>4 DEF BtTypes
<1>6. BtPollInv' /\ BtAloneInv'
  BY <1>1, <1>3 DEF BtPollInv, BtAloneInv
<1>7. BtStatusInv'
  <2>. SUFFICES ASSUME ~btRaced, btFaults = 0
                PROVE  BtStatusInv'
    BY <1>1 DEF BtStatusInv
  <2>1. \A q \in BtRequests : btPc'[q] = "idle"
    BY <1>1, <1>3 DEF BtAloneInv
  <2>2. btStatus # "none" /\ btMem[r] = btStatus
    BY <1>1 DEF BtStatusInv
  <2>3. btStatus' = BtOutcome(btPc[r])
    BY <1>1, <2>2
  <2>4. btStatus' = "running" <=> btPollers # {}
    BY <1>1, <2>3 DEF BtOutcome, BtStatusInv
  <2>. QED
    BY <1>1, <2>1, <2>4 DEF BtStatusInv
<1>8. btStatus' # "none" => btStatus # "none"
  BY <1>1
<1>. QED
  BY <1>1, <1>2, <1>5, <1>6, <1>7, <1>8, BtInboxSame

-----------------------------------------------------------------------------
(* Messages.                                                                *)

LEMMA BtUpdateStep ==
  ASSUME BtInv, BtUpdate
  PROVE  BtInv'
<1>. USE DEF BtInv
<1>1. /\ btNextEvent \in BtEvents /\ btNextEvent' = btNextEvent + 1
      /\ btQueue' = [w \in BtWorkers |-> Append(btQueue[w], btNextEvent)]
      /\ UNCHANGED <<btStatus, btHeld, btPollers, btStarts, btPc, btMem, btLoaded, btSubscriber,
                     btConversation, btCopies, btRaced, btFaults>>
  BY DEF BtUpdate, btRow, btEngine, btSessions, btInbox
<1>2. btNextEvent \in Nat \ {0}
  BY DEF BtTypes
<1>3. ASSUME NEW w \in BtWorkers
      PROVE  /\ btQueue'[w] \in Seq(Nat) /\ BtNow(w)' = BtNow(w) /\ BtQueueInv(w)'
  <2>1. btQueue[w] \in Seq(Nat) /\ btQueue'[w] = Append(btQueue[w], btNextEvent)
    BY <1>1 DEF BtTypes
  <2>2. /\ btQueue'[w] \in Seq(Nat) /\ btQueue'[w] # <<>>
        /\ Len(btQueue'[w]) = Len(btQueue[w]) + 1 /\ Len(btQueue[w]) \in Nat
        /\ \A i \in 1..Len(btQueue[w]) : btQueue'[w][i] = btQueue[w][i]
        /\ btQueue'[w][Len(btQueue[w]) + 1] = btNextEvent
    <3>1. btNextEvent \in Nat
      BY <1>2
    <3>2. /\ Append(btQueue[w], btNextEvent) \in Seq(Nat)
          /\ Append(btQueue[w], btNextEvent) # <<>>
          /\ Len(Append(btQueue[w], btNextEvent)) = Len(btQueue[w]) + 1
          /\ \A i \in 1..Len(btQueue[w]) : Append(btQueue[w], btNextEvent)[i] = btQueue[w][i]
          /\ Append(btQueue[w], btNextEvent)[Len(btQueue[w]) + 1] = btNextEvent
      BY <2>1, <3>1, AppendProperties
    <3>3. Len(btQueue[w]) \in Nat
      BY <2>1, LenProperties
    <3>. QED
      BY <2>1, <3>2, <3>3
  <2>3. BtNow(w)' = BtNow(w)
    <3>1. BtNow(w)' = btNextEvent' - Len(btQueue'[w]) /\ BtNow(w) = btNextEvent - Len(btQueue[w])
      BY DEF BtNow
    <3>2. btNextEvent' = btNextEvent + 1 /\ Len(btQueue'[w]) = Len(btQueue[w]) + 1
      BY <1>1, <2>2
    <3>3. btNextEvent \in Nat /\ Len(btQueue[w]) \in Nat
      BY <1>2, <2>2
    <3>. QED
      BY <3>1, <3>2, <3>3
  <2>4. BtQueueInv(w)
    OBVIOUS
  <2>5. ASSUME NEW i \in 1..Len(btQueue'[w]) PROVE btQueue'[w][i] = BtNow(w) + i - 1
    <3>1. CASE i \in 1..Len(btQueue[w])
      BY <2>2, <2>4, <3>1 DEF BtQueueInv
    <3>2. CASE i = Len(btQueue[w]) + 1
      BY <1>2, <2>2, <3>2 DEF BtNow
    <3>. QED
      BY <2>2, <3>1, <3>2
  <2>6. Len(btQueue'[w]) < btNextEvent'
    BY <1>1, <1>2, <2>2, <2>4 DEF BtQueueInv
  <2>. QED
    BY <2>2, <2>3, <2>5, <2>6 DEF BtQueueInv
<1>4. BtTypes'
  <2>1. btQueue' \in [BtWorkers -> Seq(Nat)]
    BY <1>1, <1>3
  <2>. QED
    BY <1>1, <1>2, <2>1 DEF BtTypes
<1>5. BtKeptInv'
  BY <1>1, <1>3 DEF BtKeptInv
<1>6. BtPollInv' /\ BtAloneInv' /\ BtStatusInv'
  BY <1>1 DEF BtPollInv, BtAloneInv, BtStatusInv
<1>. QED
  BY <1>3, <1>4, <1>5, <1>6

LEMMA BtLoadStep ==
  ASSUME BtInv, NEW w \in BtWorkers, BtLoad(w)
  PROVE  BtInv'
<1>. USE DEF BtInv
<1>. DEFINE loaded == [subscriber |-> btSubscriber, conversation |-> btConversation, busy |-> TRUE]
<1>1. /\ btQueue[w] # <<>> /\ btLoaded' = [btLoaded EXCEPT ![w] = loaded]
      /\ UNCHANGED <<btStatus, btHeld, btPollers, btStarts, btPc, btMem, btNextEvent, btQueue,
                     btSubscriber, btConversation, btCopies, btRaced, btFaults>>
  BY DEF BtLoad, btRow, btEngine, btSessions, btInbox
<1>2. loaded \in [subscriber : BOOLEAN, conversation : BOOLEAN, busy : BOOLEAN]
  BY DEF BtTypes
<1>3. loaded.subscriber = btSubscriber /\ loaded.conversation = btConversation /\ loaded.busy
  OBVIOUS
<1>. HIDE DEF loaded
<1>4. \A v \in BtWorkers : btLoaded'[v] = IF v = w THEN loaded ELSE btLoaded[v]
  BY <1>1 DEF BtTypes
<1>5. BtTypes'
  BY <1>1, <1>2 DEF BtTypes
<1>6. \A v \in BtWorkers : BtNow(v)' = BtNow(v)
  BY <1>1 DEF BtNow
<1>7. \A v \in BtWorkers : BtQueueInv(v)'
  BY <1>1, <1>4, <1>6 DEF BtQueueInv
<1>8. BtKeptInv'
  <2>. SUFFICES ASSUME btStatus # "none" PROVE BtKeptInv'
    BY <1>1 DEF BtKeptInv
  <2>1. BtNow(w) \in Int /\ \A e \in BtTexts : e \in Int
    BY BtEventsAre, LenProperties DEF BtNow, BtTypes
  <2>2. /\ BtNow(w) > 1 => btSubscriber
        /\ \A e \in BtTexts : e < BtNow(w) => btConversation
    BY DEF BtKeptInv
  <2>3. ~btSubscriber => BtNow(w) = 1
    <3>1. BtNow(w) >= 1
      BY LenProperties DEF BtQueueInv, BtNow, BtTypes
    <3>. QED
      BY <2>1, <2>2, <3>1
  <2>4. ~btConversation => \A e \in BtTexts : BtNow(w) <= e
    BY <2>1, <2>2
  <2>. QED
    BY <1>1, <1>3, <1>4, <1>6, <2>3, <2>4 DEF BtKeptInv
<1>9. BtPollInv' /\ BtAloneInv' /\ BtStatusInv'
  BY <1>1 DEF BtPollInv, BtAloneInv, BtStatusInv
<1>. QED
  BY <1>5, <1>7, <1>8, <1>9

\* The event at the head of a queue, and what is left of the queue without it.
LEMMA BtHeadIsNow ==
  ASSUME BtTypes, NEW w \in BtWorkers, BtQueueInv(w), btQueue[w] # <<>>
  PROVE  /\ Head(btQueue[w]) = BtNow(w)
         /\ BtNow(w) \in Nat /\ BtNow(w) >= 1
         /\ Tail(btQueue[w]) \in Seq(Nat)
         /\ Len(Tail(btQueue[w])) = Len(btQueue[w]) - 1 /\ Len(btQueue[w]) \in Nat \ {0}
         /\ \A i \in 1..Len(Tail(btQueue[w])) : Tail(btQueue[w])[i] = BtNow(w) + i
<1>1. btQueue[w] \in Seq(Nat) /\ btNextEvent \in Nat
  BY DEF BtTypes
<1>. DEFINE rest == Tail(btQueue[w])
<1>2. /\ Len(btQueue[w]) \in Nat \ {0}
      /\ rest \in Seq(Nat) /\ Len(rest) = Len(btQueue[w]) - 1
      /\ \A i \in 1..Len(rest) : rest[i] = btQueue[w][i + 1]
  BY <1>1, EmptySeq, HeadTailProperties
<1>3. Head(btQueue[w]) = btQueue[w][1]
  BY <1>1, <1>2
<1>. HIDE DEF rest
<1>4. BtNow(w) \in Nat /\ BtNow(w) >= 1
  BY <1>1, <1>2 DEF BtNow, BtQueueInv
<1>5. 1 \in 1..Len(btQueue[w]) /\ BtNow(w) + 1 - 1 = BtNow(w)
  BY <1>2, <1>4
<1>6. Head(btQueue[w]) = BtNow(w)
  BY <1>3, <1>5 DEF BtQueueInv
<1>7. \A i \in 1..Len(rest) : i + 1 \in 1..Len(btQueue[w]) /\ BtNow(w) + (i + 1) - 1 = BtNow(w) + i
  BY <1>2, <1>4
<1>8. \A i \in 1..Len(rest) : rest[i] = BtNow(w) + i
  BY <1>2, <1>7 DEF BtQueueInv
<1>. QED
  BY <1>2, <1>4, <1>6, <1>8 DEF rest

\* What a worker writes down for the event it is at, or finds written down by another one.
LEMMA BtSaveKeeps ==
  ASSUME BtTypes, BtKeptInv, NEW w \in BtWorkers, btLoaded[w].busy, btStatus # "none",
         NEW e \in Nat, e >= 1, BtNow(w) = e,
         IF BtClash(e, btLoaded[w]) THEN UNCHANGED <<btSubscriber, btConversation, btCopies>>
         ELSE /\ btSubscriber' = TRUE
              /\ btConversation' = (btConversation \/ e \in BtTexts)
              /\ btCopies' = IF e \in BtTexts THEN [btCopies EXCEPT ![e] = @ + 1] ELSE btCopies
  PROVE  /\ btCopies' \in [BtEvents -> Nat]
         /\ \A d \in BtTexts : btCopies[d] > 0 => btCopies'[d] > 0
         /\ btSubscriber' /\ (btConversation => btConversation')
         /\ e \in BtTexts => btConversation' /\ btCopies'[e] > 0
         /\ \A d \in BtTexts : d = 1 => btConversation' /\ btCopies'[d] > 0
         /\ \A d \in BtTexts : BtFirst(d) /\ btConversation' => btCopies'[d] > 0
<1>1. btCopies \in [BtEvents -> Nat] /\ BtEvents \subseteq Nat \ {0} /\ BtTexts \subseteq BtEvents
      /\ btLoaded[w].subscriber \in BOOLEAN /\ btLoaded[w].conversation \in BOOLEAN
  BY BtEventsAre DEF BtTypes
<1>2. /\ btConversation => btSubscriber
      /\ \A d \in BtTexts : d = 1 /\ btSubscriber => btConversation /\ btCopies[d] > 0
      /\ \A d \in BtTexts : BtFirst(d) /\ btConversation => btCopies[d] > 0
      /\ e > 1 => btSubscriber
      /\ \A d \in BtTexts : d < e => btConversation /\ btCopies[d] > 0
      /\ ~btLoaded[w].subscriber => e = 1
      /\ ~btLoaded[w].conversation => \A d \in BtTexts : e <= d
  BY DEF BtKeptInv
<1>3. CASE BtClash(e, btLoaded[w])
  <2>1. UNCHANGED <<btSubscriber, btConversation, btCopies>>
    BY <1>3
  <2>2. btSubscriber
    BY <1>2, <1>3 DEF BtClash
  <2>3. e \in BtTexts => btConversation /\ btCopies[e] > 0
    <3>1. CASE ~btLoaded[w].subscriber
      BY <1>2, <2>2, <3>1
    <3>2. CASE btLoaded[w].subscriber
      BY <1>2, <1>3, <3>2 DEF BtClash, BtFirst
    <3>. QED
      BY <3>1, <3>2
  <2>. QED
    BY <1>1, <1>2, <2>1, <2>2, <2>3
<1>4. CASE ~BtClash(e, btLoaded[w])
  <2>1. /\ btSubscriber' = TRUE /\ btConversation' = (btConversation \/ e \in BtTexts)
        /\ btCopies' = IF e \in BtTexts THEN [btCopies EXCEPT ![e] = @ + 1] ELSE btCopies
    BY <1>4
  <2>2. /\ btCopies' \in [BtEvents -> Nat]
        /\ \A d \in BtTexts : btCopies[d] > 0 => btCopies'[d] > 0
        /\ e \in BtTexts => btCopies'[e] > 0
    <3>1. CASE e \in BtTexts
      <4>1. e \in BtEvents /\ btCopies[e] + 1 \in Nat /\ btCopies[e] + 1 > 0
        BY <1>1, <3>1
      <4>2. btCopies' = [btCopies EXCEPT ![e] = btCopies[e] + 1]
        BY <2>1, <3>1
      <4>. QED
        BY <1>1, <4>1, <4>2
    <3>2. CASE e \notin BtTexts
      BY <1>1, <2>1, <3>2
    <3>. QED
      BY <3>1, <3>2
  <2>3. ASSUME NEW d \in BtTexts, d = 1 PROVE btConversation' /\ btCopies'[d] > 0
    <3>1. CASE e = 1
      BY <2>1, <2>2, <2>3, <3>1
    <3>2. CASE e # 1
      <4>1. d < e
        BY <2>3, <3>2
      <4>. QED
        BY <1>2, <2>1, <2>2, <4>1
    <3>. QED
      BY <3>1, <3>2
  <2>4. ASSUME NEW d \in BtTexts, BtFirst(d), btConversation' PROVE btCopies'[d] > 0
    <3>1. CASE btConversation
      BY <1>2, <2>2, <2>4, <3>1
    <3>2. CASE ~btConversation
      <4>1. e \in BtTexts /\ d <= e
        BY <2>1, <2>4, <3>2 DEF BtFirst
      <4>2. ~(d < e)
        BY <1>2, <3>2
      <4>3. d = e
        BY <1>1, <4>1, <4>2
      <4>. QED
        BY <2>2, <4>1, <4>3
    <3>. QED
      BY <3>1, <3>2
  <2>. QED
    BY <2>1, <2>2, <2>3, <2>4
<1>. QED
  BY <1>3, <1>4

LEMMA BtSaveStep ==
  ASSUME BtInv, NEW w \in BtWorkers, BtSave(w)
  PROVE  BtInv'
<1>. USE DEF BtInv
<1>. DEFINE e == Head(btQueue[w])
            rest == Tail(btQueue[w])
<1>1. /\ btLoaded[w].busy
      /\ IF btStatus = "none" \/ BtClash(e, btLoaded[w])
         THEN UNCHANGED <<btSubscriber, btConversation, btCopies>>
         ELSE /\ btSubscriber' = TRUE
              /\ btConversation' = (btConversation \/ e \in BtTexts)
              /\ btCopies' = IF e \in BtTexts THEN [btCopies EXCEPT ![e] = @ + 1] ELSE btCopies
      /\ btQueue' = [btQueue EXCEPT ![w] = rest]
      /\ btLoaded' = [btLoaded EXCEPT ![w] = BtNotLoaded]
      /\ UNCHANGED <<btStatus, btHeld, btPollers, btStarts, btPc, btMem, btNextEvent, btRaced, btFaults>>
  BY DEF BtSave, btRow, btEngine, btSessions, btInbox
<1>2. btQueue[w] # <<>>
  BY <1>1 DEF BtQueueInv
<1>3. /\ e = BtNow(w) /\ e \in Nat /\ e >= 1
      /\ rest \in Seq(Nat) /\ Len(rest) = Len(btQueue[w]) - 1 /\ Len(btQueue[w]) \in Nat \ {0}
      /\ \A i \in 1..Len(rest) : rest[i] = e + i
      /\ btNextEvent \in Nat
  BY <1>2, BtHeadIsNow DEF BtTypes
<1>4. ~BtNotLoaded.busy /\ BtNotLoaded \in [subscriber : BOOLEAN, conversation : BOOLEAN, busy : BOOLEAN]
  BY DEF BtNotLoaded
<1>. HIDE DEF e, rest
<1>5. \A v \in BtWorkers : /\ btQueue'[v] = IF v = w THEN rest ELSE btQueue[v]
                           /\ btLoaded'[v] = IF v = w THEN BtNotLoaded ELSE btLoaded[v]
  BY <1>1 DEF BtTypes
<1>6. BtNow(w)' = e + 1 /\ \A v \in BtWorkers : v # w => BtNow(v)' = BtNow(v)
  <2>1. btQueue'[w] = rest /\ btNextEvent' = btNextEvent
    BY <1>1, <1>5
  <2>2. BtNow(w)' = btNextEvent - Len(rest)
    BY <2>1 DEF BtNow
  <2>3. e = btNextEvent - Len(btQueue[w])
    BY <1>3 DEF BtNow
  <2>4. BtNow(w)' = e + 1
    BY <1>3, <2>2, <2>3
  <2>5. ASSUME NEW v \in BtWorkers, v # w PROVE BtNow(v)' = BtNow(v)
    BY <1>5, <2>1, <2>5 DEF BtNow
  <2>. QED
    BY <2>4, <2>5
<1>7. \A v \in BtWorkers : BtQueueInv(v)'
  <2>1. BtQueueInv(w)'
    <3>1. Len(rest) < btNextEvent
      BY <1>3 DEF BtQueueInv
    <3>2. \A i \in 1..Len(rest) : rest[i] = (e + 1) + i - 1
      BY <1>3
    <3>3. btQueue'[w] = rest /\ btLoaded'[w] = BtNotLoaded
      BY <1>5
    <3>. QED
      BY <1>1, <1>4, <1>6, <3>1, <3>2, <3>3 DEF BtQueueInv
  <2>2. ASSUME NEW v \in BtWorkers, v # w PROVE BtQueueInv(v)'
    <3>1. BtQueueInv(v) /\ btQueue'[v] = btQueue[v] /\ btLoaded'[v] = btLoaded[v] /\ BtNow(v)' = BtNow(v)
      BY <1>5, <1>6, <2>2
    <3>. QED
      BY <1>1, <3>1 DEF BtQueueInv
  <2>. QED
    BY <2>1, <2>2
<1>8. btStatus # "none" =>
         /\ btCopies' \in [BtEvents -> Nat]
         /\ \A d \in BtTexts : btCopies[d] > 0 => btCopies'[d] > 0
         /\ btSubscriber' /\ (btConversation => btConversation')
         /\ e \in BtTexts => btConversation' /\ btCopies'[e] > 0
         /\ \A d \in BtTexts : d = 1 => btConversation' /\ btCopies'[d] > 0
         /\ \A d \in BtTexts : BtFirst(d) /\ btConversation' => btCopies'[d] > 0
  <2>. SUFFICES ASSUME btStatus # "none"
                PROVE  /\ btCopies' \in [BtEvents -> Nat]
                       /\ \A d \in BtTexts : btCopies[d] > 0 => btCopies'[d] > 0
                       /\ btSubscriber' /\ (btConversation => btConversation')
                       /\ e \in BtTexts => btConversation' /\ btCopies'[e] > 0
                       /\ \A d \in BtTexts : d = 1 => btConversation' /\ btCopies'[d] > 0
                       /\ \A d \in BtTexts : BtFirst(d) /\ btConversation' => btCopies'[d] > 0
    OBVIOUS
  <2>1. IF BtClash(e, btLoaded[w]) THEN UNCHANGED <<btSubscriber, btConversation, btCopies>>
        ELSE /\ btSubscriber' = TRUE
             /\ btConversation' = (btConversation \/ e \in BtTexts)
             /\ btCopies' = IF e \in BtTexts THEN [btCopies EXCEPT ![e] = @ + 1] ELSE btCopies
    BY <1>1
  <2>. QED
    BY <1>1, <1>3, <2>1, BtSaveKeeps
<1>9. BtTypes'
  <2>1. btQueue' \in [BtWorkers -> Seq(Nat)]
    BY <1>1, <1>3 DEF BtTypes
  <2>2. btLoaded' \in [BtWorkers -> [subscriber : BOOLEAN, conversation : BOOLEAN, busy : BOOLEAN]]
    BY <1>1, <1>4 DEF BtTypes
  <2>3. btSubscriber' \in BOOLEAN /\ btConversation' \in BOOLEAN /\ btCopies' \in [BtEvents -> Nat]
    <3>1. CASE btStatus = "none"
      BY <1>1, <3>1 DEF BtTypes
    <3>2. CASE btStatus # "none"
      BY <1>1, <1>8, <3>2 DEF BtTypes
    <3>. QED
      BY <3>1, <3>2
  <2>. QED
    BY <1>1, <2>1, <2>2, <2>3 DEF BtTypes
<1>10. BtKeptInv'
  <2>. SUFFICES ASSUME btStatus # "none" PROVE BtKeptInv'
    BY <1>1 DEF BtKeptInv
  <2>1. ASSUME NEW v \in BtWorkers
        PROVE  /\ \A d \in BtTexts : d < BtNow(v)' => btConversation' /\ btCopies'[d] > 0
               /\ btLoaded'[v].busy /\ ~btLoaded'[v].subscriber => BtNow(v)' = 1
               /\ btLoaded'[v].busy /\ ~btLoaded'[v].conversation => \A d \in BtTexts : BtNow(v)' <= d
    <3>1. CASE v = w
      <4>1. ~btLoaded'[v].busy
        BY <1>4, <1>5, <3>1
      <4>2. ASSUME NEW d \in BtTexts, d < e + 1 PROVE btConversation' /\ btCopies'[d] > 0
        <5>1. d < e \/ d = e
          BY <1>3, <4>2, BtEventsAre
        <5>2. d < e => btConversation /\ btCopies[d] > 0
          BY <1>3 DEF BtKeptInv
        <5>. QED
          BY <1>8, <5>1, <5>2
      <4>. QED
        BY <1>6, <3>1, <4>1, <4>2
    <3>2. CASE v # w
      <4>1. BtNow(v)' = BtNow(v) /\ btLoaded'[v] = btLoaded[v]
        BY <1>5, <1>6, <3>2
      <4>. QED
        BY <1>8, <4>1 DEF BtKeptInv
    <3>. QED
      BY <3>1, <3>2
  <2>. QED
    BY <1>8, <2>1 DEF BtKeptInv
<1>11. BtPollInv' /\ BtAloneInv' /\ BtStatusInv'
  BY <1>1 DEF BtPollInv, BtAloneInv, BtStatusInv
<1>. QED
  BY <1>7, <1>9, <1>10, <1>11

LEMMA BtStep == BtInv /\ [BtNext]_btVars => BtInv'
<1>. SUFFICES ASSUME BtInv, [BtNext]_btVars PROVE BtInv'
  OBVIOUS
<1>1. CASE UNCHANGED btVars
  <2>1. UNCHANGED <<btStatus, btHeld, btPollers, btStarts, btPc, btMem, btNextEvent, btQueue, btLoaded,
                    btSubscriber, btConversation, btCopies, btRaced, btFaults>>
    BY <1>1 DEF btVars, btRow, btEngine, btSessions, btEvents, btInbox
  <2>2. BtTypes' /\ BtPollInv' /\ BtAloneInv' /\ BtStatusInv'
    BY <2>1 DEF BtInv, BtTypes, BtPollInv, BtAloneInv, BtStatusInv
  <2>. QED
    BY <2>1, <2>2, BtInboxSame DEF BtInv
<1>2. CASE BtNext
  BY <1>2, BtBeginStep, BtHaltStep, BtPollStep, BtFailStep, BtCommitStep, BtUpdateStep, BtLoadStep, BtSaveStep DEF BtNext
<1>. QED
  BY <1>1, <1>2

\* A bot is polled for when and only when the panel says so, up to overlapping requests and
\* failures, and what it gets is kept whatever workers race for it: for any number of
\* requests, workers and events (bots_manager.py:29-95, bots.py:43-154, bot_consumer.py:24-67).
THEOREM BotsSafe == BtSpec => []BotsHold
<1>1. BtInv => BotsHold
  <2>. SUFFICES ASSUME BtInv PROVE BotsHold
    OBVIOUS
  <2>. USE DEF BtInv
  <2>1. PollersAccounted
    BY DEF PollersAccounted, BtPollInv
  <2>2. StatusIsTrue
    BY DEF StatusIsTrue, BtStatusInv
  <2>3. HandledIsSaved
    <3>. SUFFICES ASSUME btStatus # "none", NEW e \in BtTexts, e < btNextEvent,
                         \A w \in BtWorkers : btQueue[w] = <<>> \/ Head(btQueue[w]) > e
                  PROVE  btCopies[e] >= 1
      BY DEF HandledIsSaved
    <3>1. PICK w \in BtWorkers : TRUE
      BY BotsAssumption
    <3>2. CASE btQueue[w] = <<>>
      <4>1. BtNow(w) = btNextEvent
        BY <3>2, EmptySeq DEF BtNow, BtTypes
      <4>. QED
        <5>1. e < BtNow(w)
          BY <4>1
        <5>2. btCopies[e] > 0
          BY <5>1 DEF BtKeptInv
        <5>3. btCopies[e] \in Nat
          BY BtEventsAre DEF BtTypes
        <5>. QED
          BY <5>2, <5>3
    <3>3. CASE btQueue[w] # <<>> /\ Head(btQueue[w]) > e
      <4>1. BtNow(w) > e /\ BtNow(w) \in Nat
        BY <3>3, BtHeadIsNow
      <4>2. e < BtNow(w)
        BY <4>1, BtEventsAre
      <4>. QED
        BY <4>2, BtEventsAre DEF BtKeptInv, BtTypes
    <3>. QED
      BY <3>2, <3>3
  <2>. QED
    BY <2>1, <2>2, <2>3 DEF BotsHold
<1>. QED
  BY <1>1, BtInitially, BtStep, PTL DEF BtSpec

-----------------------------------------------------------------------------
(***************************************************************************)
(* Threads: any workers, requests, messages, replies and page size.        *)
(***************************************************************************)

ThBeginsFor(s) ==
    \/ ThBeginRead(s) \/ ThBeginDelete(s)
    \/ \E p \in ThReplies : ThBeginReply(s, p)

\* What a session is at, and what it has in mind at each step.
ThSteps ==
    /\ \A s \in ThSessions : thPc[s] = "idle" => thMem[s] = ThForgotten
    /\ \A w \in ThWorkers :
          /\ thPc[w] \in {"idle", "store", "flushed"}
          /\ thPc[w] # "idle" => thMem[w].of = thAt[w] /\ thAt[w] # 0
    /\ \A s \in ThRequests :
          /\ thPc[s] # "store"
          /\ thPc[s] # "idle" => thMem[s].thread # 0
          /\ thPc[s] \in {"ask", "record", "flushed"} => thMem[s].of \in ThReplies
          /\ thPc[s] \in {"read", "delete"} => thMem[s].of = NoContent

\* Numbers are given out once.
ThNumbers ==
    /\ thread.id <= thIds.threads /\ thread.unread <= thIds.rows
    /\ thPage.thread <= thIds.threads
    /\ \A s \in ThSessions :
          /\ thMem[s].thread <= thIds.threads /\ thMem[s].unread <= thIds.rows
          /\ thPc[s] = "flushed" => thMem[s].unread < thMem[s].id /\ thMem[s].id <= thIds.rows
    /\ \A s, t \in ThSessions :
          thPc[s] = "flushed" /\ thPc[t] = "flushed" /\ s # t => thMem[s].id # thMem[t].id
    /\ \A row \in thRows :
          /\ row.id <= thIds.rows
          /\ \A s \in ThSessions : thPc[s] = "flushed" => thMem[s].id # row.id
    /\ thread.id = 0 => thRows = {} /\ thread.unread = 0
    /\ IsFiniteSet(thRows)

ThShape == ThTypeOK /\ ThSteps /\ ThNumbers

LEMMA ThMaxRowsNat == ThMaxRows \in Nat
BY FS_CardinalityType, ThreadsAssumption DEF ThMaxRows

LEMMA ThReadSession ==
    ASSUME ThTypeOK, NEW s \in ThSessions
    PROVE  /\ thMem[s] \in ThMemory
           /\ thMem[s].thread \in 0..ThMaxThreads /\ thMem[s].unread \in 0..ThMaxRows
           /\ thMem[s].of \in ThMessages \cup ThReplies \cup {NoContent}
           /\ thMem[s].id \in 0..ThMaxRows
BY DEF ThTypeOK, ThMemory

\* A session that goes on is the only one to do so.
LEMMA ThMoves ==
    ASSUME ThTypeOK, NEW s \in ThSessions, NEW step, NEW mem, ThTo(s, step, mem)
    PROVE  /\ thPc'[s] = step /\ thMem'[s] = mem
           /\ \A t \in ThSessions : t # s => thPc'[t] = thPc[t] /\ thMem'[t] = thMem[t]
BY DEF ThTypeOK, ThTo

LEMMA ThMovesTyped ==
    ASSUME ThTypeOK, NEW s \in ThSessions, NEW mem \in ThMemory,
           NEW step \in {"idle", "store", "flushed", "read", "delete", "ask", "record"},
           ThTo(s, step, mem)
    PROVE  /\ thPc' \in [ThSessions -> {"idle", "store", "flushed", "read", "delete", "ask",
                                        "record"}]
           /\ thMem' \in [ThSessions -> ThMemory]
BY DEF ThTypeOK, ThTo

LEMMA ThForgottenFields ==
    /\ ThForgotten \in ThMemory
    /\ ThForgotten.thread = 0 /\ ThForgotten.unread = 0 /\ ThForgotten.id = 0
    /\ ThForgotten.of = NoContent
BY ThMaxRowsNat, ThreadsAssumption DEF ThForgotten, ThMemory

LEMMA ThLoadedFields ==
    ASSUME ThTypeOK, NEW of \in ThMessages \cup ThReplies \cup {NoContent}
    PROVE  /\ ThLoaded(of) \in ThMemory
           /\ ThLoaded(of).thread = thread.id /\ ThLoaded(of).unread = thread.unread
           /\ ThLoaded(of).id = 0 /\ ThLoaded(of).of = of
<1>1. ThLoaded(of) = [thread |-> thread.id, unread |-> thread.unread, of |-> of, id |-> 0]
  BY DEF ThForgotten, ThLoaded
<1>2. thread.id \in 0..ThMaxThreads /\ thread.unread \in 0..ThMaxRows BY DEF ThTypeOK
<1>3. 0 \in 0..ThMaxRows BY ThMaxRowsNat
<1> QED BY <1>1, <1>2, <1>3 DEF ThMemory

LEMMA ThMessageNumbers == \A m \in ThMessages : m \in Nat /\ m > 0
<1>1. Cardinality(ThMessages) \in Nat BY FS_CardinalityType, ThreadsAssumption
<1>2. \A m \in 1..Cardinality(ThMessages) : m \in Nat /\ m > 0 BY <1>1
<1> QED BY <1>2, ThreadsAssumption

\* A session that loads the conversation, and is at no insert yet.
LEMMA ThLoads ==
    ASSUME ThShape, NEW s \in ThSessions, NEW of \in ThMessages \cup ThReplies \cup {NoContent},
           NEW step \in {"store", "read", "delete", "ask"}, ThTo(s, step, ThLoaded(of)),
           thPc[s] = "idle",
           IF s \in ThWorkers
           THEN step = "store" /\ of \in ThMessages /\ thAt' = [thAt EXCEPT ![s] = of]
           ELSE /\ step # "store" /\ thAt' = thAt /\ thread.id # 0
                /\ step = "ask" => of \in ThReplies
                /\ step \in {"read", "delete"} => of = NoContent,
           UNCHANGED <<thread, thRows, thIds, thPage, thObserved>>
    PROVE  ThShape'
<1>0. thMem'[s] = ThLoaded(of) /\ thPc'[s] = step
      /\ \A t \in ThSessions : t # s => thPc'[t] = thPc[t] /\ thMem'[t] = thMem[t]
  BY ThMoves DEF ThShape
<1>l. /\ ThLoaded(of) \in ThMemory
      /\ ThLoaded(of).thread = thread.id /\ ThLoaded(of).unread = thread.unread
      /\ ThLoaded(of).id = 0 /\ ThLoaded(of).of = of
  BY ThLoadedFields DEF ThShape
<1>1. ThTypeOK'
  <2>1. thAt' \in [ThWorkers -> {0} \cup ThMessages]
    BY DEF ThShape, ThTypeOK
  <2> QED BY <2>1, <1>l, ThMovesTyped DEF ThShape, ThTypeOK, thObserved
<1>2. ThSteps'
  <2>1. ASSUME NEW t \in ThSessions, thPc'[t] = "idle" PROVE thMem'[t] = ThForgotten
    BY <1>0, <2>1 DEF ThShape, ThSteps
  <2>2. ASSUME NEW w \in ThWorkers
        PROVE  /\ thPc'[w] \in {"idle", "store", "flushed"}
               /\ thPc'[w] # "idle" => thMem'[w].of = thAt'[w] /\ thAt'[w] # 0
    <3>1. CASE w = s
      <4>1. thAt'[s] = of BY <3>1 DEF ThShape, ThTypeOK
      <4> QED BY <3>1, <4>1, <1>0, <1>l, ThMessageNumbers
    <3>2. CASE w # s BY <3>2, <1>0 DEF ThShape, ThTypeOK, ThSteps, ThSessions
    <3> QED BY <3>1, <3>2
  <2>3. ASSUME NEW q \in ThRequests
        PROVE  /\ thPc'[q] # "store"
               /\ thPc'[q] # "idle" => thMem'[q].thread # 0
               /\ thPc'[q] \in {"ask", "record", "flushed"} => thMem'[q].of \in ThReplies
               /\ thPc'[q] \in {"read", "delete"} => thMem'[q].of = NoContent
    BY <1>0, <1>l, ThreadsAssumption DEF ThShape, ThSteps, ThSessions
  <2> QED BY <2>1, <2>2, <2>3 DEF ThSteps
<1>3. ThNumbers'
  BY <1>0, <1>l DEF ThShape, ThNumbers
<1> QED BY <1>1, <1>2, <1>3 DEF ThShape

\* A session that is done and forgets, whatever it has done to the rest.
LEMMA ThCloses ==
    ASSUME ThShape, NEW s \in ThSessions, ThClose(s), UNCHANGED <<thAt, thPage>>,
           ThTypeOK', ThNumbers'
    PROVE  ThShape'
<1>0. thMem'[s] = ThForgotten /\ thPc'[s] = "idle"
      /\ \A t \in ThSessions : t # s => thPc'[t] = thPc[t] /\ thMem'[t] = thMem[t]
  BY ThMoves DEF ThShape, ThClose
<1>2. ThSteps'
  <2>1. ASSUME NEW t \in ThSessions, thPc'[t] = "idle" PROVE thMem'[t] = ThForgotten
    BY <1>0, <2>1 DEF ThShape, ThSteps
  <2>2. ASSUME NEW w \in ThWorkers
        PROVE  /\ thPc'[w] \in {"idle", "store", "flushed"}
               /\ thPc'[w] # "idle" => thMem'[w].of = thAt'[w] /\ thAt'[w] # 0
    BY <1>0 DEF ThShape, ThSteps, ThSessions
  <2>3. ASSUME NEW q \in ThRequests
        PROVE  /\ thPc'[q] # "store"
               /\ thPc'[q] # "idle" => thMem'[q].thread # 0
               /\ thPc'[q] \in {"ask", "record", "flushed"} => thMem'[q].of \in ThReplies
               /\ thPc'[q] \in {"read", "delete"} => thMem'[q].of = NoContent
    BY <1>0 DEF ThShape, ThSteps, ThSessions
  <2> QED BY <2>1, <2>2, <2>3 DEF ThSteps
<1> QED BY <1>2 DEF ThShape

\* It forgets what it had in mind, and numbers and rows stand.
LEMMA ThClosesNumbers ==
    ASSUME ThShape, NEW s \in ThSessions, ThClose(s), UNCHANGED <<thAt, thPage>>,
           thread' = thread, thRows' = thRows, thIds' = thIds
    PROVE  ThNumbers' /\ thPc' \in [ThSessions -> {"idle", "store", "flushed", "read", "delete",
                                                   "ask", "record"}]
           /\ thMem' \in [ThSessions -> ThMemory]
<1>0. thMem'[s] = ThForgotten /\ thPc'[s] = "idle"
      /\ \A t \in ThSessions : t # s => thPc'[t] = thPc[t] /\ thMem'[t] = thMem[t]
  BY ThMoves DEF ThShape, ThClose
<1>1. ThNumbers'
  BY <1>0, ThForgottenFields DEF ThShape, ThTypeOK, ThNumbers
<1> QED BY <1>1, ThMovesTyped, ThForgottenFields DEF ThShape, ThClose

LEMMA ThFlushShape == ASSUME ThShape, NEW s \in ThSessions, ThFlush(s) PROVE ThShape'
<1> DEFINE mem == [thMem[s] EXCEPT !.id = thIds.rows + 1]
<1>m. mem = [thread |-> thMem[s].thread, unread |-> thMem[s].unread, of |-> thMem[s].of,
             id |-> thIds.rows + 1]
  BY ThReadSession DEF ThShape, ThMemory
<1>n. thIds.rows \in 0..ThMaxRows /\ thIds.rows + 1 \in 0..ThMaxRows /\ thIds.rows + 1 > thIds.rows
      /\ thIds.rows \in Nat
  BY ThMaxRowsNat DEF ThFlush, ThShape, ThTypeOK
<1>mm. mem \in ThMemory BY <1>m, <1>n, ThReadSession DEF ThShape, ThMemory
<1>mf. mem.id = thIds.rows + 1 /\ mem.thread = thMem[s].thread /\ mem.unread = thMem[s].unread
       /\ mem.of = thMem[s].of
  BY <1>m
<1>t. ThTo(s, "flushed", mem) BY DEF ThFlush
<1> HIDE DEF mem
<1>0. thMem'[s] = mem /\ thPc'[s] = "flushed"
      /\ \A t \in ThSessions : t # s => thPc'[t] = thPc[t] /\ thMem'[t] = thMem[t]
  BY <1>t, ThMoves DEF ThShape
<1>i. thIds' \in [threads : 0..ThMaxThreads, rows : 0..ThMaxRows]
      /\ thIds'.threads = thIds.threads /\ thIds'.rows = thIds.rows + 1
  BY <1>n DEF ThFlush, ThShape, ThTypeOK
<1>1. ThTypeOK'
  BY <1>i, <1>t, <1>mm, ThMovesTyped DEF ThFlush, ThShape, ThTypeOK, thObserved
<1>2. ThSteps'
  <2>1. ASSUME NEW t \in ThSessions, thPc'[t] = "idle" PROVE thMem'[t] = ThForgotten
    BY <1>0, <2>1 DEF ThShape, ThSteps
  <2>2. ASSUME NEW w \in ThWorkers
        PROVE  /\ thPc'[w] \in {"idle", "store", "flushed"}
               /\ thPc'[w] # "idle" => thMem'[w].of = thAt'[w] /\ thAt'[w] # 0
    BY <1>0, <1>mf DEF ThShape, ThSteps, ThSessions, ThFlush
  <2>3. ASSUME NEW q \in ThRequests
        PROVE  /\ thPc'[q] # "store"
               /\ thPc'[q] # "idle" => thMem'[q].thread # 0
               /\ thPc'[q] \in {"ask", "record", "flushed"} => thMem'[q].of \in ThReplies
               /\ thPc'[q] \in {"read", "delete"} => thMem'[q].of = NoContent
    BY <1>0, <1>mf DEF ThShape, ThSteps, ThSessions, ThFlush
  <2> QED BY <2>1, <2>2, <2>3 DEF ThSteps
<1>3. ThNumbers'
  <2>1. thread.id <= thIds.threads /\ thread.unread <= thIds.rows + 1
        /\ thPage.thread <= thIds.threads
    BY <1>n DEF ThShape, ThNumbers, ThTypeOK
  <2>2. ASSUME NEW t \in ThSessions
        PROVE  /\ thMem'[t].thread <= thIds.threads /\ thMem'[t].unread <= thIds.rows + 1
               /\ thPc'[t] = "flushed" => thMem'[t].unread < thMem'[t].id
                                          /\ thMem'[t].id <= thIds.rows + 1
    <3>1. thMem[t].unread \in Nat /\ thMem[t].id \in Nat
      BY ThReadSession, ThMaxRowsNat DEF ThShape
    <3>2. thMem[t].thread <= thIds.threads /\ thMem[t].unread <= thIds.rows
          /\ (thPc[t] = "flushed" => thMem[t].unread < thMem[t].id /\ thMem[t].id <= thIds.rows)
      BY DEF ThShape, ThNumbers
    <3> QED BY <3>1, <3>2, <1>0, <1>mf, <1>n
  <2>3. ASSUME NEW t \in ThSessions, NEW u \in ThSessions, thPc'[t] = "flushed",
               thPc'[u] = "flushed", t # u
        PROVE  thMem'[t].id # thMem'[u].id
    <3>1. \A v \in ThSessions : thPc[v] = "flushed" => thMem[v].id <= thIds.rows
                                                     /\ thMem[v].id \in Nat
      BY ThReadSession, ThMaxRowsNat DEF ThShape, ThNumbers
    <3> QED BY <3>1, <2>3, <1>0, <1>mf, <1>n DEF ThShape, ThNumbers
  <2>4. ASSUME NEW row \in thRows
        PROVE  /\ row.id <= thIds.rows + 1
               /\ \A t \in ThSessions : thPc'[t] = "flushed" => thMem'[t].id # row.id
    <3>1. row.id \in Nat /\ row.id <= thIds.rows
      BY ThMaxRowsNat DEF ThShape, ThTypeOK, ThRowRecords, ThNumbers
    <3> QED BY <3>1, <1>0, <1>mf, <1>n DEF ThShape, ThNumbers
  <2> QED BY <2>1, <2>2, <2>3, <2>4, <1>i DEF ThNumbers, ThFlush, ThShape
<1> QED BY <1>1, <1>2, <1>3 DEF ThShape

\* What a session that is at its insert has in mind, for one row more.
LEMMA ThAtInsert ==
    ASSUME ThShape, NEW s \in ThSessions, thPc[s] = "flushed"
    PROVE  /\ thMem[s].of \in ThMessages \cup ThReplies
           /\ thMem[s].id \in 1..ThMaxRows /\ thMem[s].id <= thIds.rows
           /\ thMem[s].unread \in Nat /\ thMem[s].unread + 1 <= thIds.rows
           /\ thMem[s].unread + 1 \in 0..ThMaxRows
           /\ \A row \in thRows : row.id # thMem[s].id
<1>1. thMem[s].unread \in Nat /\ thMem[s].id \in 0..ThMaxRows /\ thIds.rows \in 0..ThMaxRows
      /\ ThMaxRows \in Nat
  BY ThReadSession, ThMaxRowsNat DEF ThShape, ThTypeOK
<1>2. thMem[s].unread < thMem[s].id /\ thMem[s].id <= thIds.rows BY DEF ThShape, ThNumbers
<1>3. thMem[s].of \in ThMessages \cup ThReplies
  <2>1. CASE s \in ThRequests BY <2>1 DEF ThShape, ThSteps
  <2>2. CASE s \in ThWorkers BY <2>2 DEF ThShape, ThSteps, ThTypeOK
  <2> QED BY <2>1, <2>2 DEF ThSessions
<1>4. \A row \in thRows : row.id # thMem[s].id BY DEF ThShape, ThNumbers
<1>5. thMem[s].id \in 1..ThMaxRows /\ thMem[s].unread + 1 <= thIds.rows
      /\ thMem[s].unread + 1 \in 0..ThMaxRows
  BY <1>1, <1>2
<1> QED BY <1>1, <1>2, <1>3, <1>4, <1>5

\* An insert is committed: its row is the only one of its number.
LEMMA ThInsertNumbers ==
    ASSUME ThShape, NEW s \in ThSessions, thPc[s] = "flushed", ThClose(s),
           UNCHANGED <<thAt, thPage>>, NEW n \in 1..ThMaxThreads,
           thRows' = thRows \cup {[id |-> thMem[s].id, thread |-> n, of |-> thMem[s].of,
                                   seen |-> FALSE]},
           thread' \in [id : 0..ThMaxThreads, unread : 0..ThMaxRows],
           thread'.id = n, thread'.unread <= thIds.rows,
           thIds' \in [threads : 0..ThMaxThreads, rows : 0..ThMaxRows],
           n <= thIds'.threads, thIds.threads <= thIds'.threads, thIds'.rows = thIds.rows
    PROVE  /\ ThNumbers'
           /\ thPc' \in [ThSessions -> {"idle", "store", "flushed", "read", "delete",
                                        "ask", "record"}]
           /\ thMem' \in [ThSessions -> ThMemory]
           /\ thRows' \subseteq ThRowRecords
<1> DEFINE new == [id |-> thMem[s].id, thread |-> n, of |-> thMem[s].of, seen |-> FALSE]
<1>0. thMem'[s] = ThForgotten /\ thPc'[s] = "idle"
      /\ \A t \in ThSessions : t # s => thPc'[t] = thPc[t] /\ thMem'[t] = thMem[t]
  BY ThMoves DEF ThShape, ThClose
<1>1. new \in ThRowRecords /\ new.id = thMem[s].id BY ThAtInsert DEF ThRowRecords
<1>2. thRows' = thRows \cup {new} OBVIOUS
<1> HIDE DEF new
<1>3. thRows' \subseteq ThRowRecords BY <1>1, <1>2 DEF ThShape, ThTypeOK
<1>4. IsFiniteSet(thRows') BY <1>2, FS_AddElement DEF ThShape, ThNumbers
<1>5. ThNumbers'
  <2>1. thread'.id <= thIds'.threads /\ thread'.unread <= thIds'.rows
    OBVIOUS
  <2>2. thPage'.thread <= thIds'.threads
    BY ThreadsAssumption DEF ThShape, ThNumbers, ThTypeOK, ThPages
  <2>3. ASSUME NEW t \in ThSessions
        PROVE  /\ thMem'[t].thread <= thIds'.threads /\ thMem'[t].unread <= thIds'.rows
               /\ thPc'[t] = "flushed" => thMem'[t].unread < thMem'[t].id
                                          /\ thMem'[t].id <= thIds'.rows
    <3>1. thIds.threads \in Nat /\ thIds'.threads \in Nat /\ thIds.rows \in Nat
      BY ThMaxRowsNat, ThreadsAssumption DEF ThShape, ThTypeOK
    <3>2. CASE t = s BY <3>1, <3>2, <1>0, ThForgottenFields
    <3>3. CASE t # s
      <4>1. thMem[t].thread \in Nat BY ThReadSession DEF ThShape
      <4> QED BY <4>1, <3>1, <3>3, <1>0 DEF ThShape, ThNumbers
    <3> QED BY <3>2, <3>3
  <2>4. ASSUME NEW t \in ThSessions, NEW u \in ThSessions, thPc'[t] = "flushed",
               thPc'[u] = "flushed", t # u
        PROVE  thMem'[t].id # thMem'[u].id
    BY <1>0, <2>4 DEF ThShape, ThNumbers
  <2>5. ASSUME NEW row \in thRows'
        PROVE  /\ row.id <= thIds'.rows
               /\ \A t \in ThSessions : thPc'[t] = "flushed" => thMem'[t].id # row.id
    <3>1. CASE row \in thRows BY <3>1, <1>0 DEF ThShape, ThNumbers
    <3>2. CASE row = new BY <3>2, <1>0, <1>1, ThAtInsert DEF ThShape, ThNumbers
    <3> QED BY <3>1, <3>2, <1>2
  <2>6. thread'.id # 0 BY ThreadsAssumption
  <2> QED BY <2>1, <2>2, <2>3, <2>4, <2>5, <2>6, <1>4 DEF ThNumbers
<1>6. thPc' \in [ThSessions -> {"idle", "store", "flushed", "read", "delete", "ask", "record"}]
      /\ thMem' \in [ThSessions -> ThMemory]
  BY ThMovesTyped, ThForgottenFields DEF ThShape, ThClose
<1> QED BY <1>3, <1>5, <1>6

LEMMA ThCommits ==
    ASSUME ThShape, NEW s \in ThSessions, ThClose(s), ThNumbers',
           UNCHANGED <<thAt, thPage>>,
           thread' \in [id : 0..ThMaxThreads, unread : 0..ThMaxRows],
           thIds' \in [threads : 0..ThMaxThreads, rows : 0..ThMaxRows],
           thRows' \subseteq ThRowRecords, thSkewed' \in BOOLEAN,
           thCopies' \in [ThReplies -> Nat], thDoubts' \in [ThReplies -> Nat],
           thExcused' \subseteq ThMessages, thStored' \subseteq ThMessages \cup ThReplies
    PROVE  ThShape'
<1>1. thPc' \in [ThSessions -> {"idle", "store", "flushed", "read", "delete", "ask", "record"}]
      /\ thMem' \in [ThSessions -> ThMemory]
  BY ThMovesTyped, ThForgottenFields DEF ThShape, ThClose
<1>2. ThTypeOK' BY <1>1 DEF ThShape, ThTypeOK
<1> QED BY <1>2, ThCloses

LEMMA ThUnsettledTyped == Unsettled \subseteq ThMessages
BY DEF Unsettled

LEMMA ThInHandTyped == ASSUME ThShape PROVE InHand \subseteq ThMessages
<1> SUFFICES ASSUME NEW w \in ThWorkers, thPc[w] # "idle" PROVE thMem[w].of \in ThMessages
  BY DEF InHand
<1>1. thMem[w].of = thAt[w] /\ thAt[w] # 0 BY DEF ThShape, ThSteps
<1> QED BY <1>1 DEF ThShape, ThTypeOK

LEMMA ThReplySent ==
    ASSUME ThShape, NEW f \in [ThReplies -> Nat], NEW p \in ThReplies
    PROVE  [f EXCEPT ![p] = @ + 1] \in [ThReplies -> Nat]
OBVIOUS

LEMMA ThShapeInit == ThInit => ThShape
<1> SUFFICES ASSUME ThInit PROVE ThShape OBVIOUS
<1>0. 0 \in 0..ThMaxRows /\ 0 \in 0..ThMaxThreads /\ 0 \in Nat
  BY ThMaxRowsNat, ThreadsAssumption
<1>1. ThTypeOK
  <2>1. thMem \in [ThSessions -> ThMemory] /\ thPc \in [ThSessions -> {"idle", "store",
            "flushed", "read", "delete", "ask", "record"}]
    BY ThForgottenFields DEF ThInit
  <2>2. thPage \in ThPages BY <1>0 DEF ThInit, ThPages
  <2> QED BY <2>1, <2>2, <1>0 DEF ThInit, ThTypeOK, NoThread
<1>2. ThSteps BY DEF ThInit, ThSteps, ThSessions
<1>3. ThNumbers
  <2>1. IsFiniteSet(thRows) BY FS_EmptySet DEF ThInit
  <2> QED BY <2>1, ThForgottenFields DEF ThInit, ThNumbers, NoThread
<1> QED BY <1>1, <1>2, <1>3 DEF ThShape

LEMMA ThStoreShape == ASSUME ThShape, NEW w \in ThWorkers, ThStore(w) PROVE ThShape'
<1>s. w \in ThSessions /\ thPc[w] = "flushed" BY DEF ThStore, ThSessions
<1>0. thread.id \in 1..ThMaxThreads /\ thIds.threads \in Nat /\ thread.id <= thIds.threads
  BY ThReadSession, <1>s, ThreadsAssumption DEF ThStore, ThShape, ThTypeOK, ThNumbers
<1>1. thread' \in [id : 0..ThMaxThreads, unread : 0..ThMaxRows] /\ thread'.id = thread.id
      /\ thread'.unread <= thIds.rows
  BY <1>s, ThAtInsert DEF ThStore, ThWriteUnread, ThCounted, ThShape, ThTypeOK
<1>2. thRows' = thRows \cup {[id |-> thMem[w].id, thread |-> thread.id, of |-> thMem[w].of,
                              seen |-> FALSE]}
  BY DEF ThStore, ThInsert
<1>3. ThNumbers' /\ thRows' \subseteq ThRowRecords
  BY <1>s, <1>0, <1>1, <1>2, ThInsertNumbers DEF ThStore, ThShape, ThTypeOK
<1>4. thSkewed' \in BOOLEAN BY DEF ThStore, ThWriteUnread, ThShape, ThTypeOK
<1>5. thStored' \subseteq ThMessages \cup ThReplies
  BY <1>s, ThAtInsert DEF ThStore, ThShape, ThTypeOK
<1> QED BY <1>s, <1>1, <1>3, <1>4, <1>5, ThCommits DEF ThStore, ThShape, ThTypeOK

LEMMA ThStoreFirstShape == ASSUME ThShape, NEW w \in ThWorkers, ThStoreFirst(w) PROVE ThShape'
<1>s. w \in ThSessions /\ thPc[w] = "flushed" BY DEF ThStoreFirst, ThSessions
<1> DEFINE n == thIds.threads + 1
<1>0. thIds.threads \in Nat /\ n \in 1..ThMaxThreads /\ thIds.threads <= n
  BY ThreadsAssumption DEF ThStoreFirst, ThShape, ThTypeOK
<1>i. thIds' \in [threads : 0..ThMaxThreads, rows : 0..ThMaxRows] /\ thIds'.threads = n
      /\ thIds'.rows = thIds.rows
  BY <1>0 DEF ThStoreFirst, ThShape, ThTypeOK
<1>u. 1 \in 0..ThMaxRows /\ 1 <= thIds.rows BY <1>s, ThAtInsert, ThMaxRowsNat
      DEF ThShape, ThTypeOK
<1>1. thread' \in [id : 0..ThMaxThreads, unread : 0..ThMaxRows] /\ thread'.id = n
      /\ thread'.unread <= thIds.rows
  BY <1>u, <1>0 DEF ThStoreFirst, ThCounted
<1>2. thRows' = thRows \cup {[id |-> thMem[w].id, thread |-> n, of |-> thMem[w].of,
                              seen |-> FALSE]}
  BY DEF ThStoreFirst
<1>c. ThClose(w) /\ UNCHANGED <<thAt, thPage>> BY DEF ThStoreFirst
<1>3. ThNumbers' /\ thRows' \subseteq ThRowRecords
  <2> HIDE DEF n
  <2> QED BY <1>s, <1>0, <1>i, <1>1, <1>2, <1>c, ThInsertNumbers
<1>5. thStored' \subseteq ThMessages \cup ThReplies
  BY <1>s, ThAtInsert DEF ThStoreFirst, ThShape, ThTypeOK
<1> QED BY <1>s, <1>1, <1>3, <1>5, <1>i, <1>c, ThCommits DEF ThStoreFirst, ThShape, ThTypeOK

\* As many members at most as there are arguments.
LEMMA ImageIsFinite ==
    ASSUME NEW S, IsFiniteSet(S), NEW f, f = [x \in S |-> f[x]]
    PROVE  IsFiniteSet({f[x] : x \in S}) /\ Cardinality({f[x] : x \in S}) <= Cardinality(S)
<1> DEFINE T == {f[x] : x \in S}
<1>1. f \in Surjection(S, T) BY DEF Surjection
<1> HIDE DEF T
<1> QED BY <1>1, FS_Surjection DEF T

LEMMA ThMarkReadShape == ASSUME ThShape, NEW s \in ThRequests, ThMarkRead(s) PROVE ThShape'
<1>s. s \in ThSessions BY DEF ThSessions
<1>c. ThClose(s) /\ UNCHANGED <<thAt, thPage>> /\ thIds' = thIds BY DEF ThMarkRead
<1> DEFINE Seen(row) == [row EXCEPT !.seen = TRUE]
<1>1. CASE thread.id = thMem[s].thread /\ thMem[s].unread # 0
  <2>1. thread' \in [id : 0..ThMaxThreads, unread : 0..ThMaxRows] /\ thread'.id = thread.id
        /\ thread'.unread = 0 /\ thSkewed' \in BOOLEAN
    BY <1>1, ThMaxRowsNat DEF ThMarkRead, ThWriteUnread, ThShape, ThTypeOK
  <2>2. thRows' = {Seen(row) : row \in thRows} BY <1>1 DEF ThMarkRead
  <2>3. \A row \in thRows : Seen(row) \in ThRowRecords /\ Seen(row).id = row.id
    BY DEF ThShape, ThTypeOK, ThRowRecords
  <2>6. IsFiniteSet({Seen(row) : row \in thRows})
    <3> DEFINE f == [row \in thRows |-> Seen(row)]
    <3>1. {Seen(row) : row \in thRows} = {f[row] : row \in thRows}
          /\ f = [row \in thRows |-> f[row]] OBVIOUS
    <3>2. IsFiniteSet(thRows) BY DEF ThShape, ThNumbers
    <3> HIDE DEF f, Seen
    <3> QED BY <3>1, <3>2, ImageIsFinite
  <2> HIDE DEF Seen
  <2>4. thRows' \subseteq ThRowRecords BY <2>2, <2>3
  <2>5. IsFiniteSet(thRows') BY <2>2, <2>6
  <2>7. ThNumbers'
    <3>0. thMem'[s] = ThForgotten /\ thPc'[s] = "idle"
          /\ \A t \in ThSessions : t # s => thPc'[t] = thPc[t] /\ thMem'[t] = thMem[t]
      BY <1>c, <1>s, ThMoves DEF ThShape, ThClose
    <3>1. ASSUME NEW row \in thRows'
          PROVE  /\ row.id <= thIds'.rows
                 /\ \A t \in ThSessions : thPc'[t] = "flushed" => thMem'[t].id # row.id
      <4>1. PICK old \in thRows : row.id = old.id BY <2>2, <2>3
      <4> QED BY <4>1, <3>0, <1>c DEF ThShape, ThNumbers
    <3>2. thread'.unread <= thIds'.rows /\ (thread.id = 0 => thRows' = {})
      BY <2>1, <2>2, <1>c DEF ThShape, ThNumbers, ThTypeOK
    <3>3. \A t \in ThSessions :
              /\ thMem'[t].thread <= thIds.threads /\ thMem'[t].unread <= thIds.rows
              /\ thPc'[t] = "flushed" => thMem'[t].unread < thMem'[t].id
                                         /\ thMem'[t].id <= thIds.rows
      BY <3>0, ThForgottenFields DEF ThShape, ThNumbers, ThTypeOK
    <3>4. \A t, u \in ThSessions :
              thPc'[t] = "flushed" /\ thPc'[u] = "flushed" /\ t # u => thMem'[t].id # thMem'[u].id
      BY <3>0 DEF ThShape, ThNumbers
    <3> QED BY <3>1, <3>2, <3>3, <3>4, <2>1, <2>5, <1>c DEF ThShape, ThNumbers
  <2> QED BY <2>1, <2>4, <2>7, <1>c, <1>s, ThCommits DEF ThMarkRead, ThShape, ThTypeOK
<1>2. CASE ~(thread.id = thMem[s].thread /\ thMem[s].unread # 0)
  <2>1. UNCHANGED <<thread, thSkewed, thRows>> BY <1>2 DEF ThMarkRead
  <2>2. ThNumbers' BY <2>1, <1>c, <1>s, ThClosesNumbers
  <2> QED BY <2>1, <2>2, <1>c, <1>s, ThCommits DEF ThMarkRead, ThShape, ThTypeOK
<1> QED BY <1>1, <1>2

LEMMA ThDeleteShape == ASSUME ThShape, NEW s \in ThRequests, ThDelete(s) PROVE ThShape'
<1>s. s \in ThSessions BY DEF ThSessions
<1>c. ThClose(s) /\ UNCHANGED <<thAt, thPage>> /\ thIds' = thIds BY DEF ThDelete
<1>1. CASE thread.id = thMem[s].thread
  <2>1. thread' = NoThread /\ thRows' = {} /\ thSkewed' = FALSE
        /\ thExcused' = thExcused \cup Unsettled
    BY <1>1 DEF ThDelete
  <2>2. ThNumbers'
    <3>0. thMem'[s] = ThForgotten /\ thPc'[s] = "idle"
          /\ \A t \in ThSessions : t # s => thPc'[t] = thPc[t] /\ thMem'[t] = thMem[t]
      BY <1>c, <1>s, ThMoves DEF ThShape, ThClose
    <3>1. IsFiniteSet(thRows') BY <2>1, FS_EmptySet
    <3> QED BY <3>0, <3>1, <2>1, <1>c, ThForgottenFields
        DEF ThShape, ThNumbers, ThTypeOK, NoThread
  <2>3. thread' \in [id : 0..ThMaxThreads, unread : 0..ThMaxRows]
    BY <2>1, ThMaxRowsNat, ThreadsAssumption DEF NoThread
  <2> QED BY <2>1, <2>2, <2>3, <1>c, <1>s, ThCommits, ThUnsettledTyped
      DEF ThDelete, ThShape, ThTypeOK
<1>2. CASE thread.id # thMem[s].thread
  <2>1. UNCHANGED <<thread, thRows, thSkewed, thExcused>> BY <1>2 DEF ThDelete
  <2>2. ThNumbers' BY <2>1, <1>c, <1>s, ThClosesNumbers
  <2> QED BY <2>1, <2>2, <1>c, <1>s, ThCommits DEF ThDelete, ThShape, ThTypeOK
<1> QED BY <1>1, <1>2

LEMMA ThSendShape ==
    ASSUME ThShape, NEW s \in ThRequests, NEW sent \in BOOLEAN, ThSend(s, sent)
    PROVE  ThShape'
<1>s. s \in ThSessions /\ thMem[s].of \in ThReplies /\ thPc[s] = "ask"
  BY DEF ThSessions, ThSend, ThShape, ThSteps
<1>1. CASE sent
  <2>1. thCopies' \in [ThReplies -> Nat] /\ ThTo(s, "record", thMem[s])
    BY <1>1, <1>s, ThReplySent DEF ThSend, ThShape, ThTypeOK
  <2>2. thPc'[s] = "record" /\ thMem' [s] = thMem[s]
        /\ \A t \in ThSessions : t # s => thPc'[t] = thPc[t] /\ thMem'[t] = thMem[t]
    BY <2>1, <1>s, ThMoves DEF ThShape
  <2>3. ThTypeOK'
    BY <2>1, <1>s, ThMovesTyped, ThReadSession DEF ThSend, ThShape, ThTypeOK, thBounds
  <2>4. ThSteps'
    BY <2>2, <1>s, ThreadsAssumption DEF ThSend, ThShape, ThSteps, ThSessions
  <2>5. ThNumbers' BY <2>2 DEF ThSend, ThShape, ThNumbers
  <2> QED BY <2>3, <2>4, <2>5 DEF ThShape
<1>2. CASE ~sent
  <2>1. ThClose(s) /\ thCopies' = thCopies BY <1>2 DEF ThSend, ThAfterRefusal
  <2>2. ThNumbers' BY <2>1, <1>s, ThClosesNumbers DEF ThSend
  <2> QED BY <2>1, <2>2, <1>s, ThCommits DEF ThSend, ThShape, ThTypeOK
<1> QED BY <1>1, <1>2

LEMMA ThSendLateShape == ASSUME ThShape, NEW s \in ThRequests, ThSendLate(s) PROVE ThShape'
<1>s. s \in ThSessions /\ thMem[s].of \in ThReplies /\ thPc[s] = "ask"
  BY DEF ThSessions, ThSendLate, ThShape, ThSteps
<1>1. thCopies' \in [ThReplies -> Nat] /\ thDoubts' \in [ThReplies -> Nat]
  BY <1>s, ThReplySent DEF ThSendLate, ThShape, ThTypeOK
<1>2. ThNumbers' BY <1>s, ThClosesNumbers DEF ThSendLate
<1> QED BY <1>s, <1>1, <1>2, ThCommits DEF ThSendLate, ThShape, ThTypeOK

LEMMA ThRecordShape == ASSUME ThShape, NEW s \in ThRequests, ThRecord(s) PROVE ThShape'
<1>s. s \in ThSessions /\ thMem[s].of \in ThReplies /\ thPc[s] = "flushed"
  BY DEF ThSessions, ThRecord, ThShape, ThSteps
<1>1. CASE thread.id = thMem[s].thread
  <2>0. thread.id \in 1..ThMaxThreads /\ thIds.threads \in Nat /\ thread.id <= thIds.threads
        /\ thread.unread <= thIds.rows
    BY <1>s, <1>1, ThreadsAssumption DEF ThShape, ThTypeOK, ThNumbers, ThSteps
  <2>1. thRows' = thRows \cup {[id |-> thMem[s].id, thread |-> thread.id, of |-> thMem[s].of,
                                seen |-> FALSE]}
    BY <1>1 DEF ThRecord, ThInsert
  <2>2. ThNumbers' /\ thRows' \subseteq ThRowRecords
    BY <1>s, <2>0, <2>1, ThInsertNumbers DEF ThRecord, ThShape, ThTypeOK
  <2> QED BY <1>s, <1>1, <2>2, ThCommits DEF ThRecord, ThShape, ThTypeOK
<1>2. CASE thread.id # thMem[s].thread
  <2>1. thDoubts' \in [ThReplies -> Nat]
    BY <1>s, <1>2, ThReplySent DEF ThRecord, ThShape, ThTypeOK
  <2>2. ThNumbers' BY <1>s, <1>2, ThClosesNumbers DEF ThRecord
  <2> QED BY <1>s, <1>2, <2>1, <2>2, ThCommits DEF ThRecord, ThShape, ThTypeOK
<1> QED BY <1>1, <1>2

LEMMA ThCrashShape == ASSUME ThShape, NEW s \in ThSessions, ThCrash(s) PROVE ThShape'
<1>1. thExcused' \subseteq ThMessages /\ thDoubts' \in [ThReplies -> Nat]
  <2>1. CASE s \in ThWorkers
    BY <2>1 DEF ThCrash, ThShape, ThTypeOK, ThSteps
  <2>2. CASE s \notin ThWorkers /\ thMem[s].of \in ThReplies
    BY <2>2, ThReplySent DEF ThCrash, ThShape, ThTypeOK
  <2>3. CASE s \notin ThWorkers /\ thMem[s].of \notin ThReplies
    BY <2>3 DEF ThCrash, ThShape, ThTypeOK
  <2> QED BY <2>1, <2>2, <2>3
<1>2. ThNumbers' BY ThClosesNumbers DEF ThCrash
<1> QED BY <1>1, <1>2, ThCommits DEF ThCrash, ThShape, ThTypeOK

LEMMA ThTickShape == ASSUME ThShape, ThTick PROVE ThShape'
<1> DEFINE n == thIds.threads + 1
<1>0. thIds.threads \in Nat /\ n \in 1..ThMaxThreads /\ thIds.threads <= n /\ thIds.rows \in Nat
  BY ThMaxRowsNat, ThreadsAssumption DEF ThTick, ThShape, ThTypeOK
<1>i. thIds' \in [threads : 0..ThMaxThreads, rows : 0..ThMaxRows] /\ thIds'.threads = n
      /\ thIds'.rows = thIds.rows
  BY <1>0 DEF ThTick, ThShape, ThTypeOK
<1>1. thread' \in [id : 0..ThMaxThreads, unread : 0..ThMaxRows] /\ thread'.id = n
      /\ thread'.unread = 0
  BY <1>0, ThMaxRowsNat DEF ThTick
<1>2. ThTypeOK' BY <1>i, <1>1, ThInHandTyped DEF ThTick, ThShape, ThTypeOK, thSessions
<1>3. ThSteps' BY DEF ThTick, ThShape, ThSteps, thSessions
<1>4. \A s \in ThSessions : thMem[s].thread \in Nat BY ThReadSession, ThreadsAssumption DEF ThShape
<1>5. thPage.thread \in Nat BY ThreadsAssumption DEF ThShape, ThTypeOK, ThPages
<1>6. ThNumbers'
  <2> HIDE DEF n
  <2>1. thread'.id <= thIds'.threads /\ thread'.unread <= thIds'.rows
        /\ thPage'.thread <= thIds'.threads
    BY <1>0, <1>i, <1>1, <1>5 DEF ThTick, ThShape, ThNumbers
  <2>2. \A s \in ThSessions :
          /\ thMem'[s].thread <= thIds'.threads /\ thMem'[s].unread <= thIds'.rows
          /\ thPc'[s] = "flushed" => thMem'[s].unread < thMem'[s].id /\ thMem'[s].id <= thIds'.rows
    BY <1>0, <1>i, <1>4 DEF ThTick, ThShape, ThNumbers, thSessions
  <2>3. thread'.id # 0 BY <1>0, <1>1
  <2> QED BY <2>1, <2>2, <2>3, <1>i DEF ThTick, ThShape, ThNumbers, thSessions
<1> QED BY <1>2, <1>3, <1>6 DEF ThShape

LEMMA ThNewestIsSome == ASSUME NEW ids PROVE Newest(ids) \subseteq ids
BY DEF Newest

LEMMA ThIdsTyped ==
    ASSUME ThTypeOK, NEW n
    PROVE  IdsOf(n) \subseteq 1..ThMaxRows /\ IsFiniteSet(IdsOf(n))
<1>1. IdsOf(n) \subseteq 1..ThMaxRows BY DEF IdsOf, ThTypeOK, ThRowRecords
<1>2. IsFiniteSet(1..ThMaxRows) BY ThMaxRowsNat, FS_Interval
<1> QED BY <1>1, <1>2, FS_Subset

LEMMA ThPageShape == ASSUME ThShape, ThOpen \/ ThLoadOlder PROVE ThShape'
<1>0. \A n : IdsOf(n) \subseteq 1..ThMaxRows BY ThIdsTyped DEF ThShape
<1>1. thPage' \in ThPages /\ thPage'.thread <= thIds.threads
  <2>1. CASE ThOpen
    <3>1. Newest(IdsOf(thread.id)) \subseteq 1..ThMaxRows BY <1>0, ThNewestIsSome
    <3>2. HasOlder(Newest(IdsOf(thread.id))) \in BOOLEAN BY DEF HasOlder
    <3> QED BY <2>1, <1>0, <3>1, <3>2 DEF ThOpen, ThShape, ThNumbers, ThTypeOK, ThPages
  <2>2. CASE ThLoadOlder
    <3> DEFINE page == ThOlder(IdsOf(thread.id), Min(thPage.shown))
    <3>1. page \subseteq 1..ThMaxRows BY <1>0, ThNewestIsSome DEF ThOlder
    <3>2. HasOlder(page) \in BOOLEAN BY DEF HasOlder
    <3>3. thPage' = [thPage EXCEPT !.shown = @ \cup page, !.more = HasOlder(page)]
      BY <2>2 DEF ThLoadOlder
    <3> HIDE DEF page
    <3> QED BY <3>1, <3>2, <3>3 DEF ThShape, ThTypeOK, ThPages, ThNumbers
  <2> QED BY <2>1, <2>2
<1>2. UNCHANGED <<thread, thRows, thIds, thAt, thSessions, thObserved, thBounds>>
  BY DEF ThOpen, ThLoadOlder
<1>3. ThTypeOK' BY <1>1, <1>2 DEF ThShape, ThTypeOK, thSessions, thObserved
<1>4. ThSteps' BY <1>2 DEF ThShape, ThSteps, thSessions
<1>5. ThNumbers' BY <1>1, <1>2 DEF ThShape, ThNumbers, thSessions
<1> QED BY <1>3, <1>4, <1>5 DEF ThShape

LEMMA ThShapeStep == ThShape /\ [ThNext]_thVars => ThShape'
<1> SUFFICES ASSUME ThShape, [ThNext]_thVars PROVE ThShape' OBVIOUS
<1>0. \A m \in ThMessages : m \in ThMessages \cup ThReplies \cup {NoContent} OBVIOUS
<1>1. ASSUME NEW w \in ThWorkers, ThReceive(w) PROVE ThShape'
  <2> DEFINE m == thAt[w] + 1
  <2>1. w \in ThSessions /\ thPc[w] = "idle" /\ m \in ThMessages
        /\ thAt' = [thAt EXCEPT ![w] = m] /\ ThTo(w, "store", ThLoaded(m))
        /\ UNCHANGED <<thread, thRows, thIds, thPage, thObserved>>
    BY <1>1 DEF ThReceive, ThSessions, ThTaken
  <2> HIDE DEF m
  <2> QED BY <2>1, ThLoads
<1>2. ASSUME NEW w \in ThWorkers, ThStoreFails(w) PROVE ThShape'
  <2>1. w \in ThSessions BY DEF ThSessions
  <2>2. ThNumbers' BY <2>1, <1>2, ThClosesNumbers DEF ThStoreFails
  <2> QED BY <2>1, <2>2, <1>2, ThCommits DEF ThStoreFails, ThShape, ThTypeOK, thObserved
<1>3. ASSUME NEW s \in ThRequests, ThBeginsFor(s) PROVE ThShape'
  <2>1. s \in ThSessions /\ s \notin ThWorkers BY ThreadsAssumption DEF ThSessions
  <2>2. CASE ThBeginRead(s)
    <3>1. ThTo(s, "read", ThLoaded(NoContent)) /\ thPc[s] = "idle" /\ thread.id # 0
          /\ UNCHANGED <<thread, thRows, thIds, thAt, thPage, thObserved>>
      BY <2>2 DEF ThBeginRead, ThRequest
    <3> QED BY <2>1, <3>1, ThLoads
  <2>3. CASE ThBeginDelete(s)
    <3>1. ThTo(s, "delete", ThLoaded(NoContent)) /\ thPc[s] = "idle" /\ thread.id # 0
          /\ UNCHANGED <<thread, thRows, thIds, thAt, thPage, thObserved>>
      BY <2>3 DEF ThBeginDelete, ThRequest
    <3> QED BY <2>1, <3>1, ThLoads
  <2>4. ASSUME NEW p \in ThReplies, ThBeginReply(s, p) PROVE ThShape'
    <3>1. ThTo(s, "ask", ThLoaded(p)) /\ thPc[s] = "idle" /\ thread.id # 0
          /\ UNCHANGED <<thread, thRows, thIds, thAt, thPage, thObserved>>
      BY <2>4 DEF ThBeginReply, ThRequest
    <3> QED BY <2>1, <3>1, ThLoads
  <2> QED BY <1>3, <2>2, <2>3, <2>4 DEF ThBeginsFor
<1>4. CASE UNCHANGED thVars
  BY <1>4 DEF thVars, thSessions, thObserved, thBounds, ThShape, ThTypeOK, ThSteps, ThNumbers
<1> QED BY <1>1, <1>2, <1>3, <1>4, ThStoreShape, ThStoreFirstShape, ThMarkReadShape,
           ThDeleteShape, ThSendShape, ThSendLateShape, ThRecordShape, ThFlushShape,
           ThCrashShape, ThPageShape, ThTickShape DEF ThNext, ThBeginsFor

-----------------------------------------------------------------------------
(* Badges.                                                                  *)

ThUnseen == {row \in Incoming(thRows) : ~row.seen}

LEMMA ThUnreadSame ==
    ASSUME UnreadIsUnseen, thread'.unread = thread.unread, thSkewed' = thSkewed,
           ThUnseen' = ThUnseen
    PROVE  UnreadIsUnseen'
BY DEF UnreadIsUnseen, ThUnseen

LEMMA ThUnseenFinite == ASSUME ThShape PROVE IsFiniteSet(ThUnseen)
<1>1. ThUnseen \subseteq thRows BY DEF ThUnseen, Incoming
<1> QED BY <1>1, FS_Subset DEF ThShape, ThNumbers

LEMMA ThUnreadStep == ThShape /\ UnreadIsUnseen /\ [ThNext]_thVars => UnreadIsUnseen'
<1> SUFFICES ASSUME ThShape, UnreadIsUnseen, [ThNext]_thVars PROVE UnreadIsUnseen' OBVIOUS
<1>s. ThWorkers \subseteq ThSessions /\ ThRequests \subseteq ThSessions BY DEF ThSessions
<1>1. ASSUME NEW w \in ThWorkers, ThStore(w) PROVE UnreadIsUnseen'
  <2> DEFINE new == [id |-> thMem[w].id, thread |-> thread.id, of |-> thMem[w].of,
                     seen |-> FALSE]
  <2>1. thRows' = thRows \cup {new} BY <1>1 DEF ThStore, ThInsert
  <2>2. new.of \in ThMessages /\ ~new.seen /\ new.id = thMem[w].id
    BY <1>1 DEF ThStore, ThShape, ThSteps, ThTypeOK
  <2>3. new \notin thRows BY <1>1, <1>s, <2>2, ThAtInsert DEF ThStore
  <2> HIDE DEF new
  <2>4. ThUnseen' = ThUnseen \cup {new} /\ new \notin ThUnseen
    BY <2>1, <2>2, <2>3 DEF ThUnseen, Incoming
  <2>5. Cardinality(ThUnseen') = Cardinality(ThUnseen) + 1
    BY <2>4, ThUnseenFinite, FS_AddElement
  <2>6. thread'.unread = thMem[w].unread + 1
        /\ thSkewed' = (thSkewed \/ thread.unread # thMem[w].unread)
    BY <1>1 DEF ThStore, ThWriteUnread, ThCounted, ThShape, ThTypeOK
  <2> QED BY <2>5, <2>6 DEF UnreadIsUnseen, ThUnseen
<1>2. ASSUME NEW w \in ThWorkers, ThStoreFirst(w) PROVE UnreadIsUnseen'
  <2> DEFINE new == [id |-> thMem[w].id, thread |-> thIds.threads + 1, of |-> thMem[w].of,
                     seen |-> FALSE]
  <2>1. thRows' = {new} BY <1>2 DEF ThStoreFirst, ThShape, ThNumbers
  <2>2. new.of \in ThMessages /\ ~new.seen
    BY <1>2 DEF ThStoreFirst, ThShape, ThSteps, ThTypeOK
  <2> HIDE DEF new
  <2>3. ThUnseen' = {new} BY <2>1, <2>2 DEF ThUnseen, Incoming
  <2>4. thread'.unread = 1 BY <1>2 DEF ThStoreFirst, ThCounted
  <2> QED BY <2>3, <2>4, FS_Singleton DEF UnreadIsUnseen, ThUnseen
<1>3. ASSUME NEW s \in ThRequests, ThMarkRead(s) PROVE UnreadIsUnseen'
  <2>1. CASE thread.id = thMem[s].thread /\ thMem[s].unread # 0
    <3>1. thRows' = {[row EXCEPT !.seen = TRUE] : row \in thRows}
          /\ thread'.unread = 0
      BY <1>3, <2>1 DEF ThMarkRead, ThWriteUnread, ThShape, ThTypeOK
    <3>2. \A row \in thRows' : row.seen BY <3>1 DEF ThShape, ThTypeOK, ThRowRecords
    <3>3. ThUnseen' = {} BY <3>2 DEF ThUnseen, Incoming
    <3> QED BY <3>1, <3>3, FS_EmptySet DEF UnreadIsUnseen, ThUnseen
  <2>2. CASE ~(thread.id = thMem[s].thread /\ thMem[s].unread # 0)
    BY <1>3, <2>2, ThUnreadSame DEF ThMarkRead, ThUnseen, Incoming
  <2> QED BY <2>1, <2>2
<1>4. ASSUME NEW s \in ThRequests, ThDelete(s) PROVE UnreadIsUnseen'
  <2>1. CASE thread.id = thMem[s].thread
    <3>1. ThUnseen' = {} /\ thread'.unread = 0
      BY <1>4, <2>1 DEF ThDelete, ThUnseen, Incoming, NoThread
    <3> QED BY <3>1, FS_EmptySet DEF UnreadIsUnseen, ThUnseen
  <2>2. CASE thread.id # thMem[s].thread
    BY <1>4, <2>2, ThUnreadSame DEF ThDelete, ThUnseen, Incoming
  <2> QED BY <2>1, <2>2
<1>5. ASSUME NEW s \in ThRequests, ThRecord(s) PROVE UnreadIsUnseen'
  <2>1. CASE thread.id = thMem[s].thread
    <3> DEFINE new == [id |-> thMem[s].id, thread |-> thread.id, of |-> thMem[s].of,
                       seen |-> FALSE]
    <3>1. thRows' = thRows \cup {new} BY <1>5, <2>1 DEF ThRecord, ThInsert
    <3>2. new.of \notin ThMessages
      BY <1>5, ThreadsAssumption DEF ThRecord, ThShape, ThSteps
    <3> HIDE DEF new
    <3>3. ThUnseen' = ThUnseen BY <3>1, <3>2 DEF ThUnseen, Incoming
    <3> QED BY <1>5, <3>3, ThUnreadSame DEF ThRecord
  <2>2. CASE thread.id # thMem[s].thread
    BY <1>5, <2>2, ThUnreadSame DEF ThRecord, ThUnseen, Incoming
  <2> QED BY <2>1, <2>2
<1>6. CASE ThTick
  <2>1. ThUnseen' = {} /\ thread'.unread = 0
    BY <1>6 DEF ThTick, ThUnseen, Incoming, ThShape, ThNumbers
  <2> QED BY <2>1, FS_EmptySet DEF UnreadIsUnseen, ThUnseen
<1>7. CASE UNCHANGED <<thread, thRows, thSkewed>>
  BY <1>7, ThUnreadSame DEF ThUnseen, Incoming
<1>8. (\E w \in ThWorkers : ThStore(w) \/ ThStoreFirst(w))
      \/ (\E s \in ThRequests : ThMarkRead(s) \/ ThDelete(s) \/ ThRecord(s))
      \/ ThTick \/ UNCHANGED <<thread, thRows, thSkewed>>
  BY DEF ThNext, thVars, thObserved, ThReceive, ThStoreFails, ThBeginRead, ThBeginDelete,
         ThBeginReply, ThSend, ThSendLate, ThFlush, ThCrash, ThOpen, ThLoadOlder
<1> QED BY <1>1, <1>2, <1>3, <1>4, <1>5, <1>6, <1>7, <1>8

-----------------------------------------------------------------------------
(* Replies.                                                                 *)

\* The engine has told a request that it has sent this reply.
ThConfirmed(p) ==
    p \in thStored \/ \E s \in ThRequests : thMem[s].of = p /\ thPc[s] \in {"record", "flushed"}

ThReplyInv ==
    /\ \A s, q \in ThRequests : thMem[s].of \in ThReplies /\ thMem[s].of = thMem[q].of => s = q
    /\ \A p \in ThReplies :
          /\ (\E s \in ThRequests : thMem[s].of = p) => p \notin thStored
          /\ ThConfirmed(p) => thCopies[p] > 0 /\ thCopies[p] <= thDoubts[p] + 1
          /\ ~ThConfirmed(p) => thCopies[p] <= thDoubts[p]

LEMMA ThReplySame ==
    ASSUME ThReplyInv, thCopies' = thCopies, thDoubts' = thDoubts,
           \A p \in ThReplies : p \in thStored' <=> p \in thStored,
           \A s \in ThRequests :
              /\ thMem'[s].of = thMem[s].of
              /\ thMem[s].of \in ThReplies =>
                    (thPc'[s] \in {"record", "flushed"} <=> thPc[s] \in {"record", "flushed"})
    PROVE  ThReplyInv'
<1>1. \A p \in ThReplies : ThConfirmed(p)' <=> ThConfirmed(p) BY DEF ThConfirmed
<1> QED BY <1>1 DEF ThReplyInv

\* The steps of one request change what is known of its own reply.
LEMMA ThReplyElsewhere ==
    ASSUME ThReplyInv, NEW s \in ThRequests, NEW p \in ThReplies,
           thCopies \in [ThReplies -> Nat], thDoubts \in [ThReplies -> Nat],
           \A q \in ThReplies \ {p} : thCopies'[q] = thCopies[q] /\ thDoubts'[q] = thDoubts[q]
                                      /\ (q \in thStored' <=> q \in thStored),
           \A t \in ThRequests : t # s => thPc'[t] = thPc[t] /\ thMem'[t] = thMem[t],
           thMem[s].of \in {p, NoContent}, thMem'[s].of \in {p, NoContent},
           \A t \in ThRequests : t # s => thMem[t].of # p,
           thMem'[s].of = p => p \notin thStored',
           ThConfirmed(p)' => thCopies'[p] > 0 /\ thCopies'[p] <= thDoubts'[p] + 1,
           ~ThConfirmed(p)' => thCopies'[p] <= thDoubts'[p]
    PROVE  ThReplyInv'
<1>0. NoContent \notin ThReplies BY ThreadsAssumption
<1>1. \A q \in ThReplies \ {p} : ThConfirmed(q)' <=> ThConfirmed(q) BY <1>0 DEF ThConfirmed
<1>2. \A t, u \in ThRequests : thMem'[t].of \in ThReplies /\ thMem'[t].of = thMem'[u].of => t = u
  BY <1>0 DEF ThReplyInv
<1>3. ASSUME NEW q \in ThReplies
      PROVE  /\ (\E t \in ThRequests : thMem'[t].of = q) => q \notin thStored'
             /\ ThConfirmed(q)' => thCopies'[q] > 0 /\ thCopies'[q] <= thDoubts'[q] + 1
             /\ ~ThConfirmed(q)' => thCopies'[q] <= thDoubts'[q]
  <2>1. CASE q = p BY <2>1
  <2>2. CASE q # p BY <2>2, <1>0, <1>1 DEF ThReplyInv
  <2> QED BY <2>1, <2>2
<1> QED BY <1>2, <1>3 DEF ThReplyInv

LEMMA ThReplyClose ==
    ASSUME ThShape, ThReplyInv, NEW s \in ThRequests, NEW p \in ThReplies, thMem[s].of = p,
           ThClose(s)
    PROVE  /\ p \notin thStored /\ thCopies[p] \in Nat /\ thDoubts[p] \in Nat
           /\ \A t \in ThRequests : t # s => thMem[t].of # p
           /\ thMem'[s].of = NoContent /\ p # NoContent
           /\ \A t \in ThRequests : t # s => thPc'[t] = thPc[t] /\ thMem'[t] = thMem[t]
           /\ ThConfirmed(p) <=> thPc[s] \in {"record", "flushed"}
           /\ ThConfirmed(p)' <=> p \in thStored'
<1>0. s \in ThSessions /\ p # NoContent BY ThreadsAssumption DEF ThSessions
<1>1. thMem'[s] = ThForgotten
      /\ \A t \in ThSessions : t # s => thPc'[t] = thPc[t] /\ thMem'[t] = thMem[t]
  BY <1>0, ThMoves DEF ThShape, ThClose
<1>2. p \notin thStored /\ thCopies[p] \in Nat /\ thDoubts[p] \in Nat
      /\ \A t \in ThRequests : t # s => thMem[t].of # p
  BY DEF ThReplyInv, ThShape, ThTypeOK
<1>3. \A t \in ThRequests : t # s => thPc'[t] = thPc[t] /\ thMem'[t] = thMem[t]
  BY <1>1 DEF ThSessions
<1>4. thMem'[s].of = NoContent BY <1>1, ThForgottenFields
<1>5. ThConfirmed(p) <=> thPc[s] \in {"record", "flushed"} BY <1>2 DEF ThConfirmed
<1>6. \A t \in ThRequests : thMem'[t].of # p BY <1>0, <1>2, <1>3, <1>4
<1>7. ThConfirmed(p)' <=> p \in thStored' BY <1>6 DEF ThConfirmed
<1> QED BY <1>0, <1>2, <1>3, <1>4, <1>5, <1>7

LEMMA ThReplyStep == ThShape /\ ThReplyInv /\ [ThNext]_thVars => ThReplyInv'
<1> SUFFICES ASSUME ThShape, ThReplyInv, [ThNext]_thVars PROVE ThReplyInv' OBVIOUS
<1>s. ThWorkers \subseteq ThSessions /\ ThRequests \subseteq ThSessions
      /\ ThWorkers \cap ThRequests = {} /\ ThMessages \cap ThReplies = {}
  BY ThreadsAssumption DEF ThSessions
<1>f. thCopies \in [ThReplies -> Nat] /\ thDoubts \in [ThReplies -> Nat]
  BY DEF ThShape, ThTypeOK
<1>1. ASSUME NEW w \in ThWorkers,
             ThReceive(w) \/ ThStore(w) \/ ThStoreFirst(w) \/ ThStoreFails(w) \/ ThFlush(w)
                \/ ThCrash(w)
      PROVE  ThReplyInv'
  <2>1. \A s \in ThRequests : thPc'[s] = thPc[s] /\ thMem'[s] = thMem[s]
    <3>1. \E step, mem : ThTo(w, step, mem)
      BY <1>1 DEF ThReceive, ThStore, ThStoreFirst, ThStoreFails, ThFlush, ThCrash, ThClose
    <3> QED BY <3>1, <1>s, ThMoves DEF ThShape
  <2>2. thCopies' = thCopies /\ thDoubts' = thDoubts
    BY <1>1 DEF ThReceive, ThStore, ThStoreFirst, ThStoreFails, ThFlush, ThCrash, thObserved
  <2>3. \A p \in ThReplies : p \in thStored' <=> p \in thStored
    <3>1. CASE ThStore(w) \/ ThStoreFirst(w)
      <4>1. thMem[w].of \in ThMessages
        BY <3>1 DEF ThStore, ThStoreFirst, ThShape, ThSteps, ThTypeOK
      <4> QED BY <3>1, <4>1, <1>s DEF ThStore, ThStoreFirst
    <3>2. CASE ~(ThStore(w) \/ ThStoreFirst(w))
      BY <1>1, <3>2 DEF ThReceive, ThStoreFails, ThFlush, ThCrash, thObserved
    <3> QED BY <3>1, <3>2
  <2> QED BY <2>1, <2>2, <2>3, ThReplySame
<1>2. ASSUME NEW s \in ThRequests,
             ThBeginRead(s) \/ ThMarkRead(s) \/ ThBeginDelete(s) \/ ThDelete(s)
      PROVE  ThReplyInv'
  <2>1. \E step, mem : ThTo(s, step, mem) /\ mem.of = NoContent
    BY <1>2, ThLoadedFields, ThForgottenFields
       DEF ThBeginRead, ThMarkRead, ThBeginDelete, ThDelete, ThClose, ThShape
  <2>2. thMem[s].of = NoContent
    BY <1>2, <1>s, ThForgottenFields
       DEF ThBeginRead, ThMarkRead, ThBeginDelete, ThDelete, ThRequest, ThShape, ThSteps
  <2>3. thMem'[s].of = NoContent
        /\ \A t \in ThRequests : t # s => thPc'[t] = thPc[t] /\ thMem'[t] = thMem[t]
    BY <2>1, <1>s, ThMoves DEF ThShape
  <2>4. NoContent \notin ThReplies BY ThreadsAssumption
  <2>5. UNCHANGED <<thCopies, thDoubts, thStored>>
    BY <1>2 DEF ThBeginRead, ThMarkRead, ThBeginDelete, ThDelete, thObserved
  <2> QED BY <2>2, <2>3, <2>4, <2>5, ThReplySame
<1>3. ASSUME NEW s \in ThRequests, NEW p \in ThReplies, ThBeginReply(s, p) PROVE ThReplyInv'
  <2>1. thMem'[s].of = p /\ thPc'[s] = "ask"
        /\ \A t \in ThRequests : t # s => thPc'[t] = thPc[t] /\ thMem'[t] = thMem[t]
    BY <1>3, <1>s, ThMoves, ThLoadedFields DEF ThBeginReply, ThShape
  <2>2. thMem[s].of = NoContent
    BY <1>3, <1>s, ThForgottenFields DEF ThBeginReply, ThRequest, ThShape, ThSteps
  <2>3. p \notin thStored /\ (\A t \in ThRequests : thMem[t].of # p)
        /\ UNCHANGED <<thCopies, thDoubts, thStored>>
    BY <1>3 DEF ThBeginReply, thObserved
  <2>4. ~ThConfirmed(p) /\ ~ThConfirmed(p)' BY <2>1, <2>3 DEF ThConfirmed
  <2>5. thCopies[p] <= thDoubts[p] BY <2>4 DEF ThReplyInv
  <2> QED BY <1>f, <2>1, <2>2, <2>3, <2>4, <2>5, ThReplyElsewhere
<1>4. ASSUME NEW s \in ThRequests, NEW sent \in BOOLEAN, ThSend(s, sent) PROVE ThReplyInv'
  <2> PICK p \in ThReplies : p = thMem[s].of
    BY <1>4 DEF ThSend, ThSendLate, ThRecord, ThShape, ThSteps
  <2>0. thMem[s].of = p /\ thPc[s] = "ask" /\ UNCHANGED <<thDoubts, thStored>>
    BY <1>4 DEF ThSend, ThShape, ThSteps
  <2>1. CASE sent
    <3>1. thCopies' = [thCopies EXCEPT ![p] = @ + 1] BY <1>4, <2>1 DEF ThSend
    <3>2. thMem'[s] = thMem[s] /\ thPc'[s] = "record"
          /\ \A t \in ThRequests : t # s => thPc'[t] = thPc[t] /\ thMem'[t] = thMem[t]
      BY <1>4, <2>1, <1>s, ThMoves DEF ThSend, ThShape
    <3>3. p \notin thStored /\ \A t \in ThRequests : t # s => thMem[t].of # p
      BY <2>0 DEF ThReplyInv
    <3>4. ~ThConfirmed(p) BY <2>0, <3>3 DEF ThConfirmed
    <3>5. ThConfirmed(p)' BY <3>2 DEF ThConfirmed
    <3>6. thCopies[p] <= thDoubts[p] /\ thCopies[p] \in Nat /\ thDoubts[p] \in Nat
      BY <1>f, <2>0, <3>4 DEF ThReplyInv
    <3>7. thCopies'[p] = thCopies[p] + 1
          /\ \A q \in ThReplies \ {p} : thCopies'[q] = thCopies[q]
      BY <3>1, <1>f, <2>0
    <3>9. thCopies'[p] > 0 /\ thCopies'[p] <= thDoubts'[p] + 1 BY <3>6, <3>7, <2>0
    <3> QED BY <1>f, <2>0, <3>2, <3>3, <3>5, <3>7, <3>9, ThReplyElsewhere
  <2>2. CASE ~sent
    <3>1. ThClose(s) /\ thCopies' = thCopies BY <1>4, <2>2 DEF ThSend, ThAfterRefusal
    <3>2. /\ p \notin thStored
          /\ \A t \in ThRequests : t # s => thMem[t].of # p
          /\ thMem'[s].of = NoContent
          /\ \A t \in ThRequests : t # s => thPc'[t] = thPc[t] /\ thMem'[t] = thMem[t]
          /\ ThConfirmed(p) <=> thPc[s] \in {"record", "flushed"}
          /\ ThConfirmed(p)' <=> p \in thStored'
      BY <2>0, <3>1, ThReplyClose
    <3>3. ~ThConfirmed(p)' /\ thCopies[p] <= thDoubts[p] BY <2>0, <3>2 DEF ThReplyInv
    <3> QED BY <1>f, <2>0, <3>1, <3>2, <3>3, ThreadsAssumption, ThReplyElsewhere
  <2> QED BY <2>1, <2>2
<1>5. ASSUME NEW s \in ThRequests, ThSendLate(s) PROVE ThReplyInv'
  <2> PICK p \in ThReplies : p = thMem[s].of
    BY <1>5 DEF ThSend, ThSendLate, ThRecord, ThShape, ThSteps
  <2>0. thMem[s].of = p /\ thPc[s] = "ask" /\ thStored' = thStored /\ ThClose(s)
        /\ thCopies' = [thCopies EXCEPT ![p] = @ + 1]
        /\ thDoubts' = [thDoubts EXCEPT ![p] = @ + 1]
    BY <1>5 DEF ThSendLate, ThShape, ThSteps
  <2>1. /\ p \notin thStored /\ thCopies[p] \in Nat /\ thDoubts[p] \in Nat
        /\ \A t \in ThRequests : t # s => thMem[t].of # p
        /\ thMem'[s].of = NoContent
        /\ \A t \in ThRequests : t # s => thPc'[t] = thPc[t] /\ thMem'[t] = thMem[t]
        /\ ThConfirmed(p) <=> thPc[s] \in {"record", "flushed"}
        /\ ThConfirmed(p)' <=> p \in thStored'
    BY <2>0, ThReplyClose
  <2>2. thCopies[p] <= thDoubts[p] BY <2>0, <2>1 DEF ThReplyInv
  <2>3. /\ thCopies'[p] = thCopies[p] + 1 /\ thDoubts'[p] = thDoubts[p] + 1
        /\ \A q \in ThReplies \ {p} : thCopies'[q] = thCopies[q] /\ thDoubts'[q] = thDoubts[q]
    BY <1>f, <2>0
  <2>4. thCopies'[p] <= thDoubts'[p] BY <2>1, <2>2, <2>3
  <2> QED BY <1>f, <2>0, <2>1, <2>3, <2>4, ThReplyElsewhere
<1>6. ASSUME NEW s \in ThRequests, ThRecord(s) PROVE ThReplyInv'
  <2> PICK p \in ThReplies : p = thMem[s].of
    BY <1>6 DEF ThSend, ThSendLate, ThRecord, ThShape, ThSteps
  <2>0. thMem[s].of = p /\ thPc[s] = "flushed" /\ ThClose(s) /\ thCopies' = thCopies
    BY <1>6 DEF ThRecord, ThShape, ThSteps
  <2>1. /\ p \notin thStored /\ thCopies[p] \in Nat /\ thDoubts[p] \in Nat
        /\ \A t \in ThRequests : t # s => thMem[t].of # p
        /\ thMem'[s].of = NoContent /\ p # NoContent
        /\ \A t \in ThRequests : t # s => thPc'[t] = thPc[t] /\ thMem'[t] = thMem[t]
        /\ ThConfirmed(p) <=> thPc[s] \in {"record", "flushed"}
        /\ ThConfirmed(p)' <=> p \in thStored'
    BY <2>0, ThReplyClose
  <2>2. thCopies[p] > 0 /\ thCopies[p] <= thDoubts[p] + 1 BY <2>0, <2>1 DEF ThReplyInv
  <2>3. CASE thread.id = thMem[s].thread
    <3>1. thStored' = thStored \cup {p} /\ thDoubts' = thDoubts BY <1>6, <2>3 DEF ThRecord
    <3> QED BY <1>f, <2>0, <2>1, <2>2, <3>1, ThReplyElsewhere
  <2>4. CASE thread.id # thMem[s].thread
    <3>1. thStored' = thStored /\ thDoubts' = [thDoubts EXCEPT ![p] = @ + 1]
      BY <1>6, <2>4 DEF ThRecord
    <3>2. thDoubts'[p] = thDoubts[p] + 1
          /\ \A q \in ThReplies \ {p} : thDoubts'[q] = thDoubts[q]
      BY <1>f, <2>0, <3>1
    <3>3. thCopies'[p] <= thDoubts'[p] BY <2>0, <2>2, <3>2
    <3> QED BY <1>f, <2>0, <2>1, <3>1, <3>2, <3>3, ThReplyElsewhere
  <2> QED BY <2>3, <2>4
<1>7. ASSUME NEW s \in ThRequests, ThFlush(s) PROVE ThReplyInv'
  <2>1. thPc[s] = "record" BY <1>7 DEF ThFlush, ThShape, ThSteps
  <2>2. thPc'[s] = "flushed" /\ thMem'[s] = [thMem[s] EXCEPT !.id = thIds.rows + 1]
        /\ \A t \in ThRequests : t # s => thPc'[t] = thPc[t] /\ thMem'[t] = thMem[t]
    BY <1>7, <1>s, ThMoves DEF ThFlush, ThShape
  <2>3. thMem'[s].of = thMem[s].of BY <2>2, <1>s, ThReadSession DEF ThMemory, ThShape
  <2> QED BY <1>7, <2>1, <2>2, <2>3, ThReplySame DEF ThFlush, thObserved
<1>8. ASSUME NEW s \in ThRequests, ThCrash(s) PROVE ThReplyInv'
  <2> PICK p : p = thMem[s].of OBVIOUS
  <2>0. ThClose(s) /\ thCopies' = thCopies /\ thStored' = thStored
    BY <1>8 DEF ThCrash
  <2>1. CASE p \in ThReplies
    <3>1. thDoubts' = [thDoubts EXCEPT ![p] = @ + 1] BY <1>8, <1>s, <2>1 DEF ThCrash
    <3>2. /\ p \notin thStored /\ thCopies[p] \in Nat /\ thDoubts[p] \in Nat
          /\ \A t \in ThRequests : t # s => thMem[t].of # p
          /\ thMem'[s].of = NoContent
          /\ \A t \in ThRequests : t # s => thPc'[t] = thPc[t] /\ thMem'[t] = thMem[t]
          /\ ThConfirmed(p)' <=> p \in thStored'
      BY <2>0, <2>1, ThReplyClose
    <3>3. thDoubts'[p] = thDoubts[p] + 1
          /\ \A q \in ThReplies \ {p} : thDoubts'[q] = thDoubts[q]
      BY <1>f, <2>1, <3>1
    <3>4. thCopies[p] <= thDoubts[p] + 1 BY <2>1, <3>2 DEF ThReplyInv
    <3>6. thCopies'[p] <= thDoubts'[p] BY <3>3, <3>4, <2>0
    <3> QED BY <1>f, <2>0, <2>1, <3>2, <3>3, <3>6, ThReplyElsewhere
  <2>2. CASE p \notin ThReplies
    <3>1. thDoubts' = thDoubts BY <1>8, <1>s, <2>2 DEF ThCrash
    <3>2. thMem'[s] = ThForgotten
          /\ \A t \in ThRequests : t # s => thPc'[t] = thPc[t] /\ thMem'[t] = thMem[t]
      BY <2>0, <1>s, ThMoves DEF ThClose, ThShape
    <3>3. p = NoContent BY <1>8, <2>2, <1>s DEF ThCrash, ThShape, ThSteps, ThTypeOK
    <3>4. thMem'[s].of = thMem[s].of BY <3>2, <3>3, ThForgottenFields
    <3> QED BY <2>0, <2>2, <3>1, <3>2, <3>4, ThReplySame
  <2> QED BY <2>1, <2>2
<1>9. CASE ThOpen \/ ThLoadOlder \/ ThTick \/ UNCHANGED thVars
  BY <1>9, ThReplySame DEF ThOpen, ThLoadOlder, ThTick, thVars, thSessions, thObserved
<1> QED BY <1>1, <1>2, <1>3, <1>4, <1>5, <1>6, <1>7, <1>8, <1>9 DEF ThNext, ThSessions

LEMMA MaxOfFinite ==
  ASSUME NEW S \in SUBSET Nat, IsFiniteSet(S), S # {}
  PROVE  \E x \in S : \A y \in S : y <= x
<1>. DEFINE Above(x) == {y \in S : y > x}
            T == {Above(x) : x \in S}
<1>1. T \subseteq FiniteSubsetsOf(S)
  BY FS_FiniteSubsetsOfFinite
<1>2. T # {}
  OBVIOUS
<1>3. PICK U \in T : \A V \in T : ~(<<V, U>> \in StrictSubsetOrdering(S))
  <2>. HIDE DEF T
  <2>. QED
    BY <1>1, <1>2, FS_StrictSubsetOrderingWellFounded, WFMin
<1>4. PICK x \in S : U = Above(x)
  BY <1>3
<1>5. ASSUME NEW y \in S, y > x
      PROVE  FALSE
  <2>1. x \in Nat /\ y \in Nat /\ S \subseteq Nat
    OBVIOUS
  <2>2. \A z \in S : z > y => z > x
    BY <1>5, <2>1
  <2>3. ~(y > y)
    BY <2>1
  <2>4. Above(y) \subseteq Above(x) /\ y \in Above(x) /\ y \notin Above(y)
    BY <1>5, <2>2, <2>3, Zenon
  <2>5. Above(y) \in T
    OBVIOUS
  <2>6. <<Above(y), U>> \in StrictSubsetOrdering(S)
    BY <1>4, <2>4 DEF StrictSubsetOrdering
  <2>. QED
    BY <1>3, <2>5, <2>6
<1>6. \A y \in S : y <= x
  BY <1>5
<1>. QED
  BY <1>6

-----------------------------------------------------------------------------
(* Messages.                                                                *)

ThSettled(m) == m \in thStored \cup thExcused

\* A message is settled, or some worker has still to take it, or has it in hand for the
\* conversation there is; and while there is none, what a worker has been through is settled,
\* and so is what it has in hand for one that is gone.
ThKeepInv ==
    /\ \A m \in ThMessages :
          \/ ThSettled(m)
          \/ \E w \in ThWorkers :
                thAt[w] < m \/ (thMem[w].of = m /\ thMem[w].thread = thread.id)
    /\ thread.id = 0 =>
          \A w \in ThWorkers, m \in ThMessages :
              thAt[w] >= m /\ (thMem[w].of # m \/ thMem[w].thread # 0) => ThSettled(m)

LEMMA ThKeepSame ==
    ASSUME ThKeepInv, thread'.id = thread.id, thAt' = thAt,
           thStored \subseteq thStored', thExcused \subseteq thExcused',
           \A w \in ThWorkers : thMem'[w].of = thMem[w].of /\ thMem'[w].thread = thMem[w].thread
    PROVE  ThKeepInv'
BY DEF ThKeepInv, ThSettled

\* A worker is done with its message.
LEMMA ThKeepClose ==
    ASSUME ThShape, ThKeepInv, thread'.id = thread.id, thAt' = thAt, NEW w \in ThWorkers,
           ThClose(w), thStored \subseteq thStored', thExcused \subseteq thExcused',
           \/ thMem[w].of \in thStored' \cup thExcused'
           \/ thread.id # thMem[w].thread
    PROVE  ThKeepInv'
<1>1. thMem'[w] = ThForgotten /\ \A v \in ThWorkers : v # w => thMem'[v] = thMem[v]
  BY ThMoves DEF ThShape, ThClose, ThSessions
<1>2. ASSUME NEW m \in ThMessages
      PROVE  \/ ThSettled(m)'
             \/ \E v \in ThWorkers :
                   thAt'[v] < m \/ (thMem'[v].of = m /\ thMem'[v].thread = thread'.id)
  BY <1>1 DEF ThKeepInv, ThSettled
<1>3. ASSUME thread'.id = 0, NEW v \in ThWorkers, NEW m \in ThMessages, thAt'[v] >= m
      PROVE  thMem'[v].of # m \/ thMem'[v].thread # 0 => ThSettled(m)'
  <2>1. CASE v = w BY <1>3, <2>1 DEF ThKeepInv, ThSettled
  <2>2. CASE v # w BY <1>1, <1>3, <2>2 DEF ThKeepInv, ThSettled
  <2> QED BY <2>1, <2>2
<1> QED BY <1>2, <1>3 DEF ThKeepInv

LEMMA ThWorkerHas ==
    ASSUME ThShape, NEW w \in ThWorkers
    PROVE  /\ thAt[w] \in Nat
           /\ thMem[w].of \in ThMessages => thMem[w].of = thAt[w] /\ thPc[w] # "idle"
           /\ thPc[w] # "idle" => thMem[w].of \in ThMessages
           /\ thPc[w] = "idle" => thMem[w].of = NoContent
<1>1. thAt[w] \in Nat BY ThMessageNumbers DEF ThShape, ThTypeOK
<1>2. thPc[w] = "idle" => thMem[w].of = NoContent
  BY ThForgottenFields DEF ThShape, ThSteps, ThSessions
<1>3. thPc[w] # "idle" => thMem[w].of = thAt[w] /\ thMem[w].of \in ThMessages
  BY DEF ThShape, ThSteps, ThTypeOK
<1> QED BY <1>1, <1>2, <1>3, ThreadsAssumption

LEMMA ThReceiveKeeps ==
    ASSUME ThShape, ThKeepInv, NEW w \in ThWorkers, ThReceive(w) PROVE ThKeepInv'
<1> PICK n : n = thAt[w] + 1 OBVIOUS
<1>1. n \in ThMessages /\ thAt' = [thAt EXCEPT ![w] = n] /\ ThTo(w, "store", ThLoaded(n))
      /\ thPc[w] = "idle" /\ UNCHANGED <<thread, thStored, thExcused>>
  BY DEF ThReceive, ThTaken, thObserved
<1>2. thMem'[w].of = n /\ thMem'[w].thread = thread.id
      /\ \A v \in ThWorkers : v # w => thMem'[v] = thMem[v]
  BY <1>1, ThMoves, ThLoadedFields DEF ThShape, ThSessions
<1>3. thAt'[w] = n /\ \A v \in ThWorkers : v # w => thAt'[v] = thAt[v]
  BY <1>1 DEF ThShape, ThTypeOK
<1>4. thMem[w].of = NoContent /\ thAt[w] \in Nat /\ n = thAt[w] + 1
  BY <1>1, ThWorkerHas
<1>5. \A m \in ThMessages : m \in Nat /\ m # NoContent BY ThMessageNumbers, ThreadsAssumption
<1>6. \A m \in ThMessages : ThSettled(m)' <=> ThSettled(m) BY <1>1 DEF ThSettled
<1>7. ASSUME NEW m \in ThMessages, ~ThSettled(m)
      PROVE  \E v \in ThWorkers :
                thAt'[v] < m \/ (thMem'[v].of = m /\ thMem'[v].thread = thread'.id)
  <2>1. PICK v \in ThWorkers : thAt[v] < m \/ (thMem[v].of = m /\ thMem[v].thread = thread.id)
    BY <1>7 DEF ThKeepInv
  <2>2. CASE v # w BY <2>1, <2>2, <1>1, <1>2, <1>3
  <2>3. CASE v = w
    <3>1. thAt[w] < m BY <2>1, <2>3, <1>4, <1>5
    <3>2. n < m \/ n = m BY <3>1, <1>4, <1>5
    <3> QED BY <3>2, <1>1, <1>2, <1>3
  <2> QED BY <2>2, <2>3
<1>8. ASSUME thread'.id = 0, NEW v \in ThWorkers, NEW m \in ThMessages, thAt'[v] >= m,
             thMem'[v].of # m \/ thMem'[v].thread # 0
      PROVE  ThSettled(m)
  <2>1. CASE v # w BY <1>8, <2>1, <1>1, <1>2, <1>3 DEF ThKeepInv
  <2>2. CASE v = w
    <3>1. n >= m /\ n # m BY <1>8, <2>2, <1>1, <1>2, <1>3
    <3>2. thAt[w] >= m BY <3>1, <1>4, <1>5
    <3> QED BY <3>2, <1>1, <1>4, <1>5, <1>8 DEF ThKeepInv
  <2> QED BY <2>1, <2>2
<1> QED BY <1>6, <1>7, <1>8 DEF ThKeepInv

LEMMA ThStoreFirstKeeps ==
    ASSUME ThShape, ThKeepInv, NEW w \in ThWorkers, ThStoreFirst(w) PROVE ThKeepInv'
<1>0. thread.id = 0 /\ thAt' = thAt /\ thStored' = thStored \cup {thMem[w].of}
      /\ thExcused' = thExcused /\ ThClose(w) /\ thPc[w] # "idle"
  BY DEF ThStoreFirst
<1>1. thread'.id # 0 BY ThreadsAssumption DEF ThStoreFirst, ThShape, ThTypeOK
<1>2. thMem[w].of = thAt[w] /\ thAt[w] \in Nat BY <1>0, ThWorkerHas
<1>3. ASSUME NEW m \in ThMessages, ~ThSettled(m)'
      PROVE  \E v \in ThWorkers : thAt'[v] < m
  <2>1. ~ThSettled(m) /\ thMem[w].of # m /\ m \in Nat
    BY <1>0, <1>3, ThMessageNumbers DEF ThSettled
  <2>2. ~(thAt[w] >= m) BY <1>0, <2>1 DEF ThKeepInv
  <2>3. thAt[w] < m BY <1>2, <2>1, <2>2
  <2> QED BY <1>0, <2>3
<1> QED BY <1>1, <1>3 DEF ThKeepInv

LEMMA ThDeleteKeeps ==
    ASSUME ThShape, ThKeepInv, NEW s \in ThRequests, ThDelete(s) PROVE ThKeepInv'
<1>m. \A w \in ThWorkers : thMem'[w] = thMem[w]
  <2>1. s \in ThSessions /\ s \notin ThWorkers /\ ThClose(s)
    BY ThreadsAssumption DEF ThDelete, ThSessions
  <2> QED BY <2>1, ThMoves DEF ThShape, ThClose, ThSessions
<1>1. CASE thread.id = thMem[s].thread
  <2>1. thread'.id = 0 /\ thAt' = thAt /\ thStored' = thStored
        /\ thExcused' = thExcused \cup Unsettled
    BY <1>1 DEF ThDelete, NoThread
  <2>2. \A m \in ThMessages, w \in ThWorkers : thAt[w] >= m => ThSettled(m)'
    BY <2>1 DEF ThSettled, Unsettled
  <2>3. \A m \in ThMessages, w \in ThWorkers : thAt[w] >= m \/ thAt[w] < m
    BY ThMessageNumbers, ThWorkerHas
  <2>4. ThWorkers # {} BY ThreadsAssumption
  <2> QED BY <2>1, <2>2, <2>3, <2>4 DEF ThKeepInv
<1>2. CASE thread.id # thMem[s].thread BY <1>m, <1>2, ThKeepSame DEF ThDelete
<1> QED BY <1>1, <1>2

LEMMA ThTickKeeps == ASSUME ThShape, ThKeepInv, ThTick PROVE ThKeepInv'
<1>0. thread.id = 0 /\ thAt' = thAt /\ thStored' = thStored /\ thMem' = thMem
      /\ thExcused' = thExcused \cup InHand
  BY DEF ThTick, thSessions
<1>1. thread'.id # 0 BY ThreadsAssumption DEF ThTick, ThShape, ThTypeOK
<1>3. ASSUME NEW m \in ThMessages, ~ThSettled(m)'
      PROVE  \E v \in ThWorkers : thAt'[v] < m
  <2>1. ~ThSettled(m) BY <1>0, <1>3 DEF ThSettled
  <2>2. PICK v \in ThWorkers : thAt[v] < m \/ thMem[v].of = m BY <2>1 DEF ThKeepInv
  <2>3. thMem[v].of # m
    <3>1. thMem[v].of = m => thPc[v] # "idle" BY ThWorkerHas
    <3> QED BY <3>1, <1>0, <1>3 DEF ThSettled, InHand
  <2> QED BY <1>0, <2>2, <2>3
<1> QED BY <1>1, <1>3 DEF ThKeepInv

LEMMA ThKeepInit == ThInit => ThKeepInv
<1> SUFFICES ASSUME ThInit PROVE ThKeepInv OBVIOUS
<1>1. \A w \in ThWorkers : thAt[w] = 0 BY DEF ThInit
<1>2. \A m \in ThMessages : 0 < m /\ ~(0 >= m) BY ThMessageNumbers
<1> QED BY <1>1, <1>2, ThreadsAssumption DEF ThKeepInv

LEMMA ThKeepStep == ThShape /\ ThKeepInv /\ [ThNext]_thVars => ThKeepInv'
<1> SUFFICES ASSUME ThShape, ThKeepInv, [ThNext]_thVars PROVE ThKeepInv' OBVIOUS
<1>1. ASSUME NEW w \in ThWorkers, ThStore(w) PROVE ThKeepInv'
  <2>1. thread'.id = thread.id BY <1>1 DEF ThStore, ThWriteUnread, ThShape, ThTypeOK
  <2> QED BY <1>1, <2>1, ThKeepClose DEF ThStore
<1>2. ASSUME NEW w \in ThWorkers, ThStoreFails(w) PROVE ThKeepInv'
  BY <1>2, ThKeepClose DEF ThStoreFails, thObserved
<1>3. ASSUME NEW w \in ThWorkers, ThCrash(w) PROVE ThKeepInv'
  BY <1>3, ThKeepClose DEF ThCrash
<1>4. ASSUME NEW s \in ThSessions, ThFlush(s) PROVE ThKeepInv'
  <2>1. thMem'[s] = [thMem[s] EXCEPT !.id = thIds.rows + 1]
        /\ \A t \in ThSessions : t # s => thMem'[t] = thMem[t]
    BY <1>4, ThMoves DEF ThFlush, ThShape
  <2>2. thMem'[s].of = thMem[s].of /\ thMem'[s].thread = thMem[s].thread
    BY <2>1, ThReadSession DEF ThMemory, ThShape
  <2> QED BY <1>4, <2>1, <2>2, ThKeepSame DEF ThFlush, thObserved, ThSessions
<1>5. ASSUME NEW s \in ThRequests,
             ThBeginsFor(s) \/ ThMarkRead(s) \/ (\E sent \in BOOLEAN : ThSend(s, sent))
                \/ ThSendLate(s) \/ ThRecord(s) \/ ThCrash(s)
      PROVE  ThKeepInv'
  <2>0. s \in ThSessions /\ s \notin ThWorkers BY ThreadsAssumption DEF ThSessions
  <2>1. \E step, mem : ThTo(s, step, mem)
    BY <1>5 DEF ThBeginsFor, ThBeginRead, ThBeginDelete, ThBeginReply, ThMarkRead, ThSend,
                ThAfterRefusal, ThSendLate, ThRecord, ThCrash, ThClose
  <2>2. \A w \in ThWorkers : thMem'[w] = thMem[w]
    BY <2>0, <2>1, ThMoves DEF ThShape, ThSessions
  <2>3. thread'.id = thread.id
    BY <1>5 DEF ThBeginsFor, ThBeginRead, ThBeginDelete, ThBeginReply, ThMarkRead, ThSend,
                ThSendLate, ThRecord, ThCrash, ThWriteUnread, ThShape, ThTypeOK
  <2>4. thAt' = thAt /\ thStored \subseteq thStored' /\ thExcused \subseteq thExcused'
    BY <1>5, <2>0 DEF ThBeginsFor, ThBeginRead, ThBeginDelete, ThBeginReply, ThMarkRead,
                ThSend, ThSendLate, ThRecord, ThCrash, thObserved
  <2> QED BY <2>2, <2>3, <2>4, ThKeepSame
<1>6. CASE ThOpen \/ ThLoadOlder \/ UNCHANGED thVars
  BY <1>6, ThKeepSame DEF ThOpen, ThLoadOlder, thVars, thSessions, thObserved
<1> QED BY <1>1, <1>2, <1>3, <1>4, <1>5, <1>6, ThReceiveKeeps, ThStoreFirstKeeps, ThDeleteKeeps,
           ThTickKeeps DEF ThNext, ThSessions, ThBeginsFor

-----------------------------------------------------------------------------
(* Pages.                                                                   *)

ThPageInv ==
    thread.id # 0 /\ thPage.thread = thread.id =>
        /\ thPage.there \subseteq IdsOf(thread.id)
        /\ thPage.more => thPage.shown # {}
        /\ \A i \in thPage.there : (\E j \in thPage.shown : j <= i) => i \in thPage.shown
        /\ ~thPage.more => thPage.there \subseteq thPage.shown

LEMMA ThPageSame ==
    ASSUME ThPageInv, thPage' = thPage, thread'.id = thread.id,
           thread.id # 0 => IdsOf(thread.id) \subseteq IdsOf(thread.id)'
    PROVE  ThPageInv'
BY DEF ThPageInv

\* What is newer than a message on a page is on it.
LEMMA ThNewestGoesUp ==
    ASSUME NEW ids \in SUBSET Nat, IsFiniteSet(ids), NEW i \in Newest(ids), NEW j \in ids, i <= j
    PROVE  j \in Newest(ids)
<1> DEFINE Above(k) == {l \in ids : l > k}
<1>0. i \in Nat /\ j \in Nat /\ \A l \in ids : l \in Nat BY DEF Newest
<1>1. Above(j) \subseteq Above(i)
  <2>1. \A l \in ids : l > j => l > i BY <1>0
  <2> QED BY <2>1
<1>2. IsFiniteSet(Above(i)) BY FS_Subset
<1>3. Cardinality(Above(j)) <= Cardinality(Above(i)) BY <1>1, <1>2, FS_Subset
<1>4. Cardinality(Above(i)) \in Nat /\ Cardinality(Above(j)) \in Nat
  BY <1>1, <1>2, FS_Subset, FS_CardinalityType
<1>5. Cardinality(Above(i)) < ThPageSize BY DEF Newest
<1>6. Cardinality(Above(j)) < ThPageSize
  <2> HIDE DEF Above
  <2> QED BY <1>3, <1>4, <1>5, ThreadsAssumption
<1> QED BY <1>6 DEF Newest

\* A finite set of numbers has a least and a greatest member.
LEMMA ThExtremes ==
    ASSUME NEW ids \in SUBSET Nat, IsFiniteSet(ids), ids # {}
    PROVE  /\ Min(ids) \in ids /\ \A i \in ids : Min(ids) <= i
           /\ \E top \in ids : \A i \in ids : i <= top
<1>1. \E low \in ids : \A i \in ids : low <= i BY MinOfFinite
<1>2. Min(ids) \in ids /\ \A i \in ids : Min(ids) <= i BY <1>1 DEF Min
<1>3. \E top \in ids : \A i \in ids : i <= top BY MaxOfFinite
<1> QED BY <1>2, <1>3

\* A page is empty only when there is nothing to show.
LEMMA ThNewestShows ==
    ASSUME NEW ids \in SUBSET Nat, IsFiniteSet(ids), ids # {}
    PROVE  Newest(ids) # {}
<1>1. PICK top \in ids : \A i \in ids : i <= top BY ThExtremes
<1>2. {i \in ids : i > top} = {}
  <2>1. \A i \in ids : i \in Nat OBVIOUS
  <2>2. \A i \in ids : ~(i > top) BY <1>1, <2>1
  <2> QED BY <2>2
<1>3. Cardinality({i \in ids : i > top}) = 0 BY <1>2, FS_EmptySet
<1> QED BY <1>1, <1>3, ThreadsAssumption DEF Newest

LEMMA ThOpenPages == ASSUME ThShape, ThOpen PROVE ThPageInv'
<1> PICK ids : ids = IdsOf(thread.id) OBVIOUS
<1> DEFINE page == Newest(ids)
<1>0. ids \in SUBSET Nat /\ IsFiniteSet(ids)
  <2>1. 1..ThMaxRows \subseteq Nat BY ThMaxRowsNat
  <2> QED BY <2>1, ThIdsTyped DEF ThShape
<1>1. thPage' = [thread |-> thread.id, shown |-> page, there |-> ids, more |-> HasOlder(page)]
      /\ thread' = thread /\ thRows' = thRows
  BY DEF ThOpen
<1>2. page \subseteq ids BY ThNewestIsSome
<1>3. \A i \in ids : (\E j \in page : j <= i) => i \in page BY <1>0, ThNewestGoesUp
<1>4. ASSUME ~HasOlder(page) PROVE ids \subseteq page
  <2>1. SUFFICES ASSUME NEW i \in ids PROVE i \in page OBVIOUS
  <2>2. page # {} BY <1>0, ThNewestShows
  <2>3. Min(page) \in page BY <1>0, <1>2, <2>2, ThExtremes, FS_Subset
  <2>4. ~(i < Min(page)) BY <1>4, <2>2 DEF HasOlder
  <2>5. Min(page) <= i BY <2>3, <2>4, <1>0, <1>2
  <2> QED BY <2>3, <2>5, <1>3
<1>5. HasOlder(page) => page # {} BY DEF HasOlder
<1>6. IdsOf(thread.id)' = ids BY <1>1 DEF IdsOf
<1> HIDE DEF page
<1> QED BY <1>1, <1>2, <1>3, <1>4, <1>5, <1>6 DEF ThPageInv

LEMMA ThLoadOlderPages == ASSUME ThShape, ThPageInv, ThLoadOlder PROVE ThPageInv'
<1> PICK ids : ids = IdsOf(thread.id) OBVIOUS
<1> PICK shown, there : shown = thPage.shown /\ there = thPage.there OBVIOUS
<1> DEFINE oldest == Min(shown)
           under == {i \in ids : i < oldest}
           page == Newest(under)
<1>0. ids \in SUBSET Nat /\ IsFiniteSet(ids) /\ shown \in SUBSET Nat /\ IsFiniteSet(shown)
  <2>1. 1..ThMaxRows \subseteq Nat /\ IsFiniteSet(1..ThMaxRows) BY ThMaxRowsNat, FS_Interval
  <2>2. shown \subseteq 1..ThMaxRows BY DEF ThShape, ThTypeOK, ThPages
  <2> QED BY <2>1, <2>2, ThIdsTyped, FS_Subset DEF ThShape
<1>1. thread' = thread /\ thRows' = thRows /\ thPage.more /\ thPage.thread = thread.id
      /\ thPage' = [thPage EXCEPT !.shown = @ \cup page, !.more = HasOlder(page)]
  BY DEF ThLoadOlder, ThOlder
<1>2. CASE thread.id = 0 BY <1>1, <1>2 DEF ThPageInv
<1>3. CASE thread.id # 0
  <2>1. there \subseteq ids /\ shown # {}
        /\ \A i \in there : (\E j \in shown : j <= i) => i \in shown
    BY <1>1, <1>3 DEF ThPageInv
  <2>2. oldest \in shown /\ (\A i \in shown : oldest <= i) /\ oldest \in Nat
    BY <1>0, <2>1, ThExtremes
  <2> HIDE DEF oldest
  <2>3. under \in SUBSET Nat /\ IsFiniteSet(under) BY <1>0, FS_Subset
  <2>4. page \subseteq under BY ThNewestIsSome
  <2>5. \A i \in under : (\E j \in page : j <= i) => i \in page BY <2>3, ThNewestGoesUp
  <2>6. ASSUME NEW i \in there, NEW j \in shown \cup page, j <= i PROVE i \in shown \cup page
    <3>0. i \in Nat /\ j \in Nat BY <1>0, <2>1, <2>3, <2>4
    <3>1. CASE oldest <= i BY <3>1, <2>1, <2>2
    <3>2. CASE i < oldest
      <4>1. i \in under BY <3>2, <2>1
      <4>2. j < oldest BY <3>2, <2>6, <3>0, <2>2
      <4>3. j \in page BY <4>2, <2>2, <3>0, <2>6
      <4> QED BY <4>1, <4>3, <2>5, <2>6
    <3> QED BY <3>0, <3>1, <3>2, <2>2
  <2>7. ASSUME ~HasOlder(page), NEW i \in there PROVE i \in shown \cup page
    <3>0. i \in Nat BY <1>0, <2>1
    <3>1. CASE page = {}
      <4>1. under = {} BY <3>1, <2>3, ThNewestShows
      <4>2. ~(i < oldest) BY <4>1, <2>1
      <4>3. oldest <= i BY <4>2, <3>0, <2>2
      <4> QED BY <4>3, <2>1, <2>2
    <3>2. CASE page # {}
      <4>1. Min(page) \in page BY <2>3, <2>4, <3>2, ThExtremes, FS_Subset
      <4>2. ~(i < Min(page)) BY <2>7, <3>2, <2>1 DEF HasOlder
      <4>3. Min(page) <= i BY <4>1, <4>2, <3>0, <2>3, <2>4
      <4> QED BY <4>1, <4>3, <2>6
    <3> QED BY <3>1, <3>2
  <2>8. HasOlder(page) => page # {} BY DEF HasOlder
  <2>9. IdsOf(thread.id)' = ids BY <1>1 DEF IdsOf
  <2> HIDE DEF page, under
  <2>10. thPage'.thread = thread.id /\ thPage'.there = there /\ thPage'.shown = shown \cup page
         /\ thPage'.more = HasOlder(page)
    BY <1>1 DEF ThShape, ThTypeOK, ThPages
  <2> QED BY <1>1, <2>1, <2>6, <2>7, <2>8, <2>9, <2>10 DEF ThPageInv
<1> QED BY <1>2, <1>3

LEMMA ThNewThreadPages ==
    ASSUME ThShape, ThPageInv, thPage' = thPage, thread'.id = thIds.threads + 1
    PROVE  ThPageInv'
<1>1. thPage.thread \in Nat /\ thIds.threads \in Nat /\ thPage.thread <= thIds.threads
  BY ThreadsAssumption DEF ThShape, ThTypeOK, ThPages, ThNumbers
<1>2. thPage.thread # thIds.threads + 1 BY <1>1
<1> QED BY <1>2 DEF ThPageInv

LEMMA ThPageStep == ThShape /\ ThPageInv /\ [ThNext]_thVars => ThPageInv'
<1> SUFFICES ASSUME ThShape, ThPageInv, [ThNext]_thVars PROVE ThPageInv' OBVIOUS
<1>1. ASSUME NEW w \in ThWorkers, ThStore(w) PROVE ThPageInv'
  <2>1. thread'.id = thread.id BY <1>1 DEF ThStore, ThWriteUnread, ThShape, ThTypeOK
  <2>2. thRows \subseteq thRows' /\ thPage' = thPage BY <1>1 DEF ThStore, ThInsert
  <2>3. IdsOf(thread.id) \subseteq IdsOf(thread.id)' BY <2>1, <2>2 DEF IdsOf
  <2> QED BY <2>1, <2>2, <2>3, ThPageSame
<1>2. ASSUME NEW s \in ThRequests, ThRecord(s) PROVE ThPageInv'
  <2>1. thread' = thread /\ thRows \subseteq thRows' /\ thPage' = thPage
    BY <1>2 DEF ThRecord, ThInsert
  <2>3. IdsOf(thread.id) \subseteq IdsOf(thread.id)' BY <2>1 DEF IdsOf
  <2> QED BY <2>1, <2>3, ThPageSame
<1>3. ASSUME NEW s \in ThRequests, ThMarkRead(s) PROVE ThPageInv'
  <2>1. CASE thread.id = thMem[s].thread /\ thMem[s].unread # 0
    <3>1. thRows' = {[row EXCEPT !.seen = TRUE] : row \in thRows} /\ thPage' = thPage
          /\ thread'.id = thread.id
      BY <1>3, <2>1 DEF ThMarkRead, ThWriteUnread, ThShape, ThTypeOK
    <3>2. \A row \in thRows : \E new \in thRows' : new.id = row.id /\ new.thread = row.thread
      <4> SUFFICES ASSUME NEW row \in thRows
                   PROVE  \E new \in thRows' : new.id = row.id /\ new.thread = row.thread
        OBVIOUS
      <4>1. [row EXCEPT !.seen = TRUE].id = row.id /\ [row EXCEPT !.seen = TRUE].thread = row.thread
        BY DEF ThShape, ThTypeOK, ThRowRecords
      <4> QED BY <4>1, <3>1
    <3>3. IdsOf(thread.id) \subseteq IdsOf(thread.id)'
      <4> SUFFICES ASSUME NEW row \in thRows, row.thread = thread.id
                   PROVE  row.id \in {r.id : r \in {q \in thRows' : q.thread = thread'.id}}
        BY DEF IdsOf
      <4>1. PICK new \in thRows' : new.id = row.id /\ new.thread = row.thread BY <3>2
      <4> QED BY <4>1, <3>1
    <3> QED BY <3>1, <3>3, ThPageSame
  <2>2. CASE ~(thread.id = thMem[s].thread /\ thMem[s].unread # 0)
    BY <1>3, <2>2, ThPageSame DEF ThMarkRead, IdsOf
  <2> QED BY <2>1, <2>2
<1>4. ASSUME NEW s \in ThRequests, ThDelete(s) PROVE ThPageInv'
  <2>1. CASE thread.id = thMem[s].thread
    BY <1>4, <2>1 DEF ThDelete, NoThread, ThPageInv
  <2>2. CASE thread.id # thMem[s].thread BY <1>4, <2>2, ThPageSame DEF ThDelete, IdsOf
  <2> QED BY <2>1, <2>2
<1>5. ASSUME NEW w \in ThWorkers, ThStoreFirst(w) PROVE ThPageInv'
  BY <1>5, ThNewThreadPages DEF ThStoreFirst
<1>6. CASE ThTick BY <1>6, ThNewThreadPages DEF ThTick
<1>7. CASE UNCHANGED <<thread, thRows, thPage>> BY <1>7, ThPageSame DEF IdsOf
<1>8. \/ \E w \in ThWorkers : ThStore(w) \/ ThStoreFirst(w)
      \/ \E s \in ThRequests : ThMarkRead(s) \/ ThDelete(s) \/ ThRecord(s)
      \/ ThTick \/ ThOpen \/ ThLoadOlder \/ UNCHANGED <<thread, thRows, thPage>>
  BY DEF ThNext, thVars, ThReceive, ThStoreFails, ThBeginRead, ThBeginDelete,
         ThBeginReply, ThSend, ThSendLate, ThFlush, ThCrash
<1> QED BY <1>1, <1>2, <1>3, <1>4, <1>5, <1>6, <1>7, <1>8, ThOpenPages, ThLoadOlderPages

-----------------------------------------------------------------------------

ThInv == ThShape /\ UnreadIsUnseen /\ ThReplyInv /\ ThKeepInv /\ ThPageInv

\* Whatever the sessions do, the badge of a conversation that no stale session has written over
\* counts what nobody has opened, every reply and every message is accounted for, and the pages
\* of a thread leave nothing out (record_incoming, send_reply, mark_read, delete_conversation,
\* get_thread).
THEOREM ThreadsAreTrue == ThSpec => []ThreadsHold
<1>1. ThInit => ThInv
  <2> SUFFICES ASSUME ThInit PROVE ThInv OBVIOUS
  <2>1. UnreadIsUnseen
    <3>1. {row \in Incoming(thRows) : ~row.seen} = {} BY DEF ThInit, Incoming
    <3> QED BY <3>1, FS_EmptySet DEF ThInit, UnreadIsUnseen, NoThread
  <2>2. ThReplyInv
    <3>1. NoContent \notin ThReplies /\ ThRequests \subseteq ThSessions
      BY ThreadsAssumption DEF ThSessions
    <3>2. \A s \in ThRequests : thMem[s].of = NoContent
      BY <3>1, ThForgottenFields DEF ThInit
    <3> QED BY <3>1, <3>2 DEF ThInit, ThReplyInv, ThConfirmed
  <2>3. ThPageInv BY DEF ThInit, ThPageInv, NoThread
  <2> QED BY <2>1, <2>2, <2>3, ThShapeInit, ThKeepInit DEF ThInv
<1>2. ThInv /\ [ThNext]_thVars => ThInv'
  BY ThShapeStep, ThUnreadStep, ThReplyStep, ThKeepStep, ThPageStep DEF ThInv
<1>3. ThInv => ThreadsHold
  <2> SUFFICES ASSUME ThInv PROVE ThreadsHold OBVIOUS
  <2>1. RepliesAccounted
    <3> SUFFICES ASSUME NEW p \in ThReplies
                 PROVE  /\ thCopies[p] <= 1 + thDoubts[p]
                        /\ thCopies[p] > 0 /\ (\A s \in ThRequests : thMem[s].of # p) =>
                              p \in thStored \/ thDoubts[p] > 0
                        /\ p \in thStored => thCopies[p] > 0
      BY DEF RepliesAccounted
    <3>0. thCopies[p] \in Nat /\ thDoubts[p] \in Nat BY DEF ThInv, ThShape, ThTypeOK
    <3>1. /\ ThConfirmed(p) => thCopies[p] > 0 /\ thCopies[p] <= thDoubts[p] + 1
          /\ ~ThConfirmed(p) => thCopies[p] <= thDoubts[p]
      BY DEF ThInv, ThReplyInv
    <3>2. p \in thStored => ThConfirmed(p) BY DEF ThConfirmed
    <3>3. ~ThConfirmed(p) \/ p \in thStored \/ \E s \in ThRequests : thMem[s].of = p
      BY DEF ThConfirmed
    <3> QED BY <3>0, <3>1, <3>2, <3>3
  <2>2. MessageKept
    <3> SUFFICES ASSUME NEW m \in ThMessages,
                        \A w \in ThWorkers : thAt[w] >= m /\ thMem[w].of # m
                 PROVE  m \in thStored \cup thExcused
      BY DEF MessageKept
    <3>1. \A w \in ThWorkers : ~(thAt[w] < m)
      BY ThWorkerHas, ThMessageNumbers DEF ThInv
    <3> QED BY <3>1 DEF ThInv, ThKeepInv, ThSettled
  <2>3. PagesLeaveNothingOut BY DEF ThInv, ThPageInv, PagesLeaveNothingOut
  <2> QED BY <2>1, <2>2, <2>3 DEF ThreadsHold, ThInv
<1> QED BY <1>1, <1>2, <1>3, PTL DEF ThSpec

\* Every variable of the threads stays within its type.
THEOREM ThreadsTyped == ThSpec => []ThTypeOK
BY ThShapeInit, ThShapeStep, PTL DEF ThSpec, ThShape

-----------------------------------------------------------------------------
(***************************************************************************)
(* ContactBook: any rows, names, files and requests.                       *)
(***************************************************************************)

-----------------------------------------------------------------------------
(* The table of contacts (ContactBook).                                     *)

CbStep(f, n, table, free, file) ==
    IF n = 0 THEN [table |-> table, by |-> CbDictionary(table), free |-> free, taken |-> {}]
    ELSE CbImportLine(f[n - 1], file[n])

\* The work of an import, after each of its lines.
CbWork(f, table, free, file) == f = [n \in 0..Len(file) |-> CbStep(f, n, table, free, file)]

\* The lines of a file can be worked through, one after the other.
LEMMA CbWorkExists ==
    ASSUME NEW table, NEW free, NEW file, Len(file) \in Nat
    PROVE  \E f : CbWork(f, table, free, file)
<1> DEFINE L == Len(file)
           Upto(k) == \E f : f = [n \in 0..k |-> CbStep(f, n, table, free, file)]
           Bad == {k \in 0..L : ~Upto(k)}
<1>1. SUFFICES ASSUME Bad # {} PROVE FALSE BY DEF CbWork
<1>2. PICK k \in Bad : \A j \in Bad : k <= j
  <2>0. IsFiniteSet(0..L) BY FS_Interval
  <2>1. Bad \in SUBSET Nat /\ IsFiniteSet(Bad) BY <2>0, FS_Subset
  <2> HIDE DEF Bad
  <2> QED BY <2>1, <1>1, MinOfFinite
<1>3. k \in 0..L /\ ~Upto(k) OBVIOUS
<1>4. CASE k = 0
  <2> DEFINE f == [n \in 0..0 |-> [table |-> table, by |-> CbDictionary(table), free |-> free,
                                   taken |-> {}]]
  <2>1. f = [n \in 0..0 |-> CbStep(f, n, table, free, file)]
    <3>1. \A n \in 0..0 : n = 0 OBVIOUS
    <3> QED BY <3>1 DEF CbStep
  <2> QED BY <2>1, <1>3, <1>4
<1>5. CASE k # 0
  <2>1. k - 1 \in 0..L /\ ~(k <= k - 1) /\ k \in Nat BY <1>3, <1>5
  <2>2. Upto(k - 1) BY <1>2, <2>1
  <2>3. PICK f : f = [n \in 0..(k - 1) |-> CbStep(f, n, table, free, file)] BY <2>2
  <2> DEFINE g == [n \in 0..k |-> IF n < k THEN f[n] ELSE CbImportLine(f[k - 1], file[k])]
  <2>4. ASSUME NEW n \in 0..k PROVE g[n] = CbStep(g, n, table, free, file)
    <3>1. CASE n = 0
      <4>1. 0 < k /\ 0 \in 0..(k - 1) BY <1>5, <2>1
      <4>2. g[n] = f[0] BY <3>1, <4>1
      <4>3. f[0] = CbStep(f, 0, table, free, file) BY <2>3, <4>1
      <4> QED BY <3>1, <4>2, <4>3 DEF CbStep
    <3>2. CASE n # 0 /\ n < k
      <4>1. n \in 0..(k - 1) /\ n - 1 \in 0..k /\ n - 1 < k BY <3>2, <2>1
      <4>2. g[n] = f[n] /\ g[n - 1] = f[n - 1] BY <3>2, <4>1
      <4>3. f[n] = CbStep(f, n, table, free, file) BY <2>3, <4>1
      <4> HIDE DEF g
      <4> QED BY <3>2, <4>2, <4>3 DEF CbStep
    <3>3. CASE n = k
      <4>1. k - 1 \in 0..k /\ k - 1 < k /\ ~(k < k) BY <2>1, <1>5
      <4>2. g[k] = CbImportLine(f[k - 1], file[k]) /\ g[k - 1] = f[k - 1] BY <4>1, <3>3
      <4> HIDE DEF g
      <4> QED BY <3>3, <4>2, <1>5 DEF CbStep
    <3>4. n < k \/ n = k BY <2>1
    <3> QED BY <3>1, <3>2, <3>3, <3>4
  <2>5. g = [n \in 0..k |-> g[n]] OBVIOUS
  <2> HIDE DEF g
  <2>6. g = [n \in 0..k |-> CbStep(g, n, table, free, file)] BY <2>4, <2>5
  <2> QED BY <2>6, <1>3
<1> QED BY <1>4, <1>5

\* An import is the work after the last of its lines.
LEMMA CbImportedIs ==
    ASSUME NEW table, NEW free, NEW file, Len(file) \in Nat
    PROVE  \E f : CbWork(f, table, free, file) /\ CbImported(table, free, file) = f[Len(file)]
<1> DEFINE work[n \in 0..Len(file)] ==
              IF n = 0 THEN [table |-> table, by |-> CbDictionary(table), free |-> free,
                             taken |-> {}]
              ELSE CbImportLine(work[n - 1], file[n])
<1>1. CbImported(table, free, file) = work[Len(file)] BY DEF CbImported
<1>2. work = CHOOSE f : f = [n \in 0..Len(file) |->
                                IF n = 0 THEN [table |-> table, by |-> CbDictionary(table),
                                               free |-> free, taken |-> {}]
                                ELSE CbImportLine(f[n - 1], file[n])]
  OBVIOUS
<1>3. \E f : f = [n \in 0..Len(file) |->
                                IF n = 0 THEN [table |-> table, by |-> CbDictionary(table),
                                               free |-> free, taken |-> {}]
                                ELSE CbImportLine(f[n - 1], file[n])]
  <2>1. PICK f : CbWork(f, table, free, file) BY CbWorkExists
  <2>2. f = [n \in 0..Len(file) |-> IF n = 0 THEN [table |-> table, by |-> CbDictionary(table),
                                                   free |-> free, taken |-> {}]
                                    ELSE CbImportLine(f[n - 1], file[n])]
    BY <2>1 DEF CbWork, CbStep
  <2> QED BY <2>2
<1> HIDE DEF work
<1>4. CbWork(work, table, free, file) BY <1>2, <1>3 DEF CbWork, CbStep
<1> QED BY <1>1, <1>4

LEMMA CbRowNumbers == CbRows \subseteq Nat \ {0} /\ IsFiniteSet(CbRows) /\ 0 \notin CbRows
<1>1. IsFiniteSet(CbRows) /\ Cardinality(CbRows) \in Nat
  BY ContactBookAssumption, FS_CardinalityType
<1>2. CbRows = 1..Cardinality(CbRows) BY ContactBookAssumption
<1>3. 1..Cardinality(CbRows) \subseteq Nat \ {0} BY <1>1
<1> QED BY <1>1, <1>2, <1>3

LEMMA CbLeastRow ==
    ASSUME NEW free \in SUBSET CbRows, free # {}
    PROVE  Min(free) \in free
<1>1. free \in SUBSET Nat /\ IsFiniteSet(free) BY CbRowNumbers, FS_Subset
<1>2. \E c \in free : \A d \in free : c <= d BY <1>1, MinOfFinite
<1> QED BY <1>2 DEF Min

LEMMA CbLastRow ==
    ASSUME NEW S \in SUBSET CbRows, S # {}
    PROVE  Max(S) \in S
<1>1. S \in SUBSET Nat /\ IsFiniteSet(S) BY CbRowNumbers, FS_Subset
<1>2. \E c \in S : \A d \in S : d <= c BY <1>1, MaxOfFinite
<1>3. \E c \in S : \A d \in S : c >= d BY <1>1, <1>2
<1> QED BY <1>3 DEF Max

\* A name is a phone number or a username, and stands in the column of its kind.
LEMMA CbNamesInLine ==
    ASSUME NEW line \in CbLines, NEW X \in CbNames
    PROVE  /\ line.phone \in CbPhones \cup {CbNone} /\ line.username \in CbUsernames \cup {CbNone}
           /\ X \in NamesIn(line) <=> X = line.phone \/ X = line.username
           /\ X = line.phone => X \in CbPhones
           /\ X = line.username => X \in CbUsernames
           /\ X # CbNone
BY ContactBookAssumption DEF CbLines, NamesIn, CbNames

LEMMA CbNamesAreNames == ASSUME NEW line \in CbLines PROVE NamesIn(line) \subseteq CbNames
BY DEF CbLines, NamesIn, CbNames

LEMMA CbOverIs ==
    ASSUME NEW line \in CbLines, NEW row \in CbLines
    PROVE  /\ CbOver(line, row) \in CbLines
           /\ \/ CbOver(line, row).phone = row.phone /\ line.phone = CbNone
              \/ CbOver(line, row).phone = line.phone /\ line.phone \in NamesIn(line)
           /\ \/ CbOver(line, row).username = row.username /\ line.username = CbNone
              \/ CbOver(line, row).username = line.username /\ line.username \in NamesIn(line)
BY DEF CbOver, CbLines, NamesIn

CbWorkTyped(w) ==
    /\ w.table \in [CbRows -> CbLines]
    /\ w.by \in [CbNames -> {0} \cup CbRows]
    /\ w.free \in SUBSET CbRows

\* Every column has the value it had, or a name out of some lines.
CbFrom(new, table, names) ==
    \A c \in CbRows :
        /\ new[c].phone = table[c].phone \/ new[c].phone \in names
        /\ new[c].username = table[c].username \/ new[c].username \in names

\* The dictionaries know the one row that has a name.
CbKnown(w, X) == \A c \in CbHolders(w.table, X) : c = w.by[X]

LEMMA CbLineStep ==
    ASSUME NEW w, CbWorkTyped(w), w.free # {}, NEW line \in CbLines
    PROVE  LET v == CbImportLine(w, line) IN
           /\ CbWorkTyped(v)
           /\ Cardinality(v.free) >= Cardinality(w.free) - 1
           /\ w.taken \subseteq v.taken /\ v.taken \subseteq w.taken \cup NamesIn(line)
           /\ CbFrom(v.table, w.table, NamesIn(line))
           /\ \A X \in CbNames : CbKnown(w, X) /\ X \notin v.taken => CbKnown(v, X)
<1> DEFINE match == CbMatch(w.by, line)
           c == IF match # 0 THEN match ELSE Min(w.free)
           row == CbOver(line, w.table[c])
           v == CbImportLine(w, line)
<1>1. v.table = [w.table EXCEPT ![c] = row]
      /\ v.by = [name \in CbNames |-> IF name \in NamesIn(row) THEN c ELSE w.by[name]]
      /\ v.free = w.free \ {c}
      /\ v.taken = w.taken \cup {name \in NamesIn(line) :
                                    match # 0 /\ CbHolders(w.table, name) \ {c} # {}}
  BY DEF CbImportLine
<1>l. /\ line.phone \in CbPhones \cup {CbNone} /\ line.username \in CbUsernames \cup {CbNone}
  BY DEF CbLines
<1>2. match \in {0} \cup CbRows
  BY <1>l DEF CbMatch, CbWorkTyped, CbNames
<1>3. c \in CbRows
  <2>1. Min(w.free) \in CbRows BY CbLeastRow DEF CbWorkTyped
  <2> QED BY <1>2, <2>1
<1>4. match = 0 => \A X \in NamesIn(line) : w.by[X] = 0
  <2> SUFFICES ASSUME match = 0, NEW X \in NamesIn(line) PROVE w.by[X] = 0 OBVIOUS
  <2>1. X # CbNone /\ (X = line.phone \/ X = line.username) BY DEF NamesIn
  <2> QED BY <2>1 DEF CbMatch
<1> HIDE DEF match, c, v
<1>5. row \in CbLines BY <1>3, CbOverIs DEF CbWorkTyped
<1>6. \A X \in CbNames : X \in NamesIn(row) => X \in NamesIn(line) \/ X \in NamesIn(w.table[c])
  <2>1. w.table[c] \in CbLines BY <1>3 DEF CbWorkTyped
  <2> QED BY <2>1, <1>5, CbOverIs, CbNamesInLine
<1>7. CbWorkTyped(v)
  <2>1. v.table \in [CbRows -> CbLines] BY <1>1, <1>3, <1>5 DEF CbWorkTyped
  <2>2. v.by \in [CbNames -> {0} \cup CbRows]
    <3> HIDE DEF row
    <3> QED BY <1>1, <1>3 DEF CbWorkTyped
  <2>3. v.free \in SUBSET CbRows BY <1>1 DEF CbWorkTyped
  <2> QED BY <2>1, <2>2, <2>3 DEF CbWorkTyped
<1>8. Cardinality(v.free) >= Cardinality(w.free) - 1
  <2>1. IsFiniteSet(w.free) BY CbRowNumbers, FS_Subset DEF CbWorkTyped
  <2>2. Cardinality(w.free) \in Nat BY <2>1, FS_CardinalityType
  <2>3. CASE c \in w.free
    <3>1. Cardinality(w.free \ {c}) = Cardinality(w.free) - 1 BY <2>1, <2>3, FS_RemoveElement
    <3> QED BY <3>1, <1>1, <2>2
  <2>4. CASE c \notin w.free
    <3>1. v.free = w.free BY <1>1, <2>4
    <3> QED BY <3>1, <2>2
  <2> QED BY <2>3, <2>4
<1>9. CbFrom(v.table, w.table, NamesIn(line))
  <2> SUFFICES ASSUME NEW d \in CbRows
               PROVE  /\ v.table[d].phone = w.table[d].phone \/ v.table[d].phone \in NamesIn(line)
                      /\ v.table[d].username = w.table[d].username
                         \/ v.table[d].username \in NamesIn(line)
    BY DEF CbFrom
  <2>1. CASE d = c
    <3>1. v.table[d] = row BY <1>1, <1>3, <2>1 DEF CbWorkTyped
    <3>2. w.table[c] \in CbLines BY <1>3 DEF CbWorkTyped
    <3>3. (row.phone = w.table[c].phone \/ row.phone \in NamesIn(line))
          /\ (row.username = w.table[c].username \/ row.username \in NamesIn(line))
      BY <3>2, CbOverIs
    <3> QED BY <2>1, <3>1, <3>3
  <2>2. CASE d # c BY <1>1, <2>2 DEF CbWorkTyped
  <2> QED BY <2>1, <2>2
<1>10. ASSUME NEW X \in CbNames, CbKnown(w, X), X \notin v.taken PROVE CbKnown(v, X)
  <2> SUFFICES ASSUME NEW d \in CbHolders(v.table, X) PROVE d = v.by[X] BY DEF CbKnown
  <2>0. d \in CbRows /\ X \in NamesIn(v.table[d]) BY DEF CbHolders
  <2>1. CASE X \in NamesIn(row)
    <3>1. v.by[X] = c BY <1>1, <2>1
    <3>2. SUFFICES ASSUME d # c PROVE FALSE BY <3>1
    <3>3. d \in CbHolders(w.table, X)
      <4>1. v.table[d] = w.table[d] BY <1>1, <2>0, <3>2 DEF CbWorkTyped
      <4> QED BY <4>1, <2>0 DEF CbHolders
    <3>4. d = w.by[X] BY <3>3, <1>10 DEF CbKnown
    <3>5. CASE X \in NamesIn(w.table[c])
      <4>1. c \in CbHolders(w.table, X) BY <1>3, <3>5 DEF CbHolders
      <4>2. c = w.by[X] BY <4>1, <1>10 DEF CbKnown
      <4> QED BY <4>2, <3>4, <3>2
    <3>6. CASE X \in NamesIn(line)
      <4>1. CASE match = 0
        <5>1. w.by[X] = 0 BY <4>1, <3>6, <1>4
        <5> QED BY <5>1, <3>4, <2>0, CbRowNumbers
      <4>2. CASE match # 0
        <5>1. CbHolders(w.table, X) \ {c} = {} BY <1>1, <1>10, <3>6, <4>2
        <5> QED BY <5>1, <3>3, <3>2
      <4> QED BY <4>1, <4>2
    <3> QED BY <3>5, <3>6, <2>1, <1>6
  <2>2. CASE X \notin NamesIn(row)
    <3>1. v.by[X] = w.by[X] BY <1>1, <2>2
    <3>2. d # c
      <4>1. d = c => v.table[d] = row BY <1>1, <1>3 DEF CbWorkTyped
      <4> QED BY <4>1, <2>0, <2>2
    <3>3. v.table[d] = w.table[d] BY <1>1, <2>0, <3>2 DEF CbWorkTyped
    <3>4. d \in CbHolders(w.table, X) BY <3>3, <2>0 DEF CbHolders
    <3> QED BY <3>1, <3>4, <1>10 DEF CbKnown
  <2> QED BY <2>1, <2>2
<1>11. w.taken \subseteq v.taken /\ v.taken \subseteq w.taken \cup NamesIn(line) BY <1>1
<1> QED BY <1>7, <1>8, <1>9, <1>10, <1>11 DEF v

CbFileNames(file) == UNION {NamesIn(file[i]) : i \in DOMAIN file}

\* What an import makes of a table: names out of the file, and where a name had one row at
\* most and was not taken from another one, it has one row at most.
\* An import writes only names of its file, and gives none that it has not taken a second row.
CbImportsWell(made, table, file) ==
    /\ made.table \in [CbRows -> CbLines]
    /\ made.taken \subseteq CbNames
    /\ CbFrom(made.table, table, CbFileNames(file))
    /\ \A X \in CbNames \ made.taken :
          (\A c, d \in CbHolders(table, X) : c = d) =>
              \A c, d \in CbHolders(made.table, X) : c = d

LEMMA CbImportedKeeps ==
    ASSUME NEW table \in [CbRows -> CbLines], NEW free \in SUBSET CbRows,
           NEW file \in Seq(CbLines), Cardinality(free) >= Len(file)
    PROVE  CbImportsWell(CbImported(table, free, file), table, file)
<1>0. Len(file) \in Nat /\ Cardinality(free) \in Nat
  <2>1. IsFiniteSet(free) BY CbRowNumbers, FS_Subset
  <2> QED BY <2>1, FS_CardinalityType
<1>1. PICK f : CbWork(f, table, free, file) /\ CbImported(table, free, file) = f[Len(file)]
  BY <1>0, CbImportedIs
<1> DEFINE L == Len(file)
           Init0 == [table |-> table, by |-> CbDictionary(table), free |-> free, taken |-> {}]
           Good(w, n) ==
              /\ CbWorkTyped(w)
              /\ Cardinality(w.free) >= L - n
              /\ w.taken \subseteq CbNames
              /\ CbFrom(w.table, table, CbFileNames(file))
              /\ \A X \in CbNames \ w.taken :
                    (\A c, d \in CbHolders(table, X) : c = d) => CbKnown(w, X)
<1>7. CbImported(table, free, file) = f[L] BY <1>1
<1>2. f[0] = Init0 /\ \A n \in 1..L : f[n] = CbImportLine(f[n - 1], file[n])
  <2>1. \A n \in 0..L : f[n] = CbStep(f, n, table, free, file) BY <1>1 DEF CbWork
  <2>2. 0 \in 0..L /\ \A n \in 1..L : n \in 0..L /\ n # 0 BY <1>0
  <2> QED BY <2>1, <2>2 DEF CbStep
<1>3. Good(f[0], 0)
  <2> DEFINE w == f[0]
  <2>1. w.table = table /\ w.by = CbDictionary(table) /\ w.free = free /\ w.taken = {} BY <1>2
  <2> HIDE DEF w
  <2>2. \A X \in CbNames : CbHolders(table, X) \in SUBSET CbRows BY DEF CbHolders
  <2>3. \A X \in CbNames : CbHolders(table, X) # {} =>
            CbDictionary(table)[X] = Max(CbHolders(table, X))
            /\ Max(CbHolders(table, X)) \in CbHolders(table, X)
    BY <2>2, CbLastRow DEF CbDictionary
  <2>4. CbDictionary(table) \in [CbNames -> {0} \cup CbRows]
    <3>1. \A X \in CbNames : CbDictionary(table)[X] \in {0} \cup CbRows
      BY <2>2, <2>3 DEF CbDictionary
    <3>2. CbDictionary(table) = [X \in CbNames |-> CbDictionary(table)[X]] BY DEF CbDictionary
    <3> QED BY <3>1, <3>2
  <2>5. CbWorkTyped(w) BY <2>1, <2>4 DEF CbWorkTyped
  <2>6. Cardinality(w.free) >= L - 0 BY <2>1, <1>0
  <2>7. CbFrom(w.table, table, CbFileNames(file)) BY <2>1 DEF CbFrom
  <2>8. ASSUME NEW X \in CbNames, \A c, d \in CbHolders(table, X) : c = d PROVE CbKnown(w, X)
    BY <2>1, <2>3, <2>8 DEF CbKnown
  <2> QED BY <2>1, <2>5, <2>6, <2>7, <2>8 DEF w
<1>4. ASSUME NEW n \in 1..L, Good(f[n - 1], n - 1) PROVE Good(f[n], n)
  <2> DEFINE w == f[n - 1]  v == CbImportLine(w, file[n])
  <2>0. f[n] = v BY <1>2
  <2>1. file[n] \in CbLines /\ n \in DOMAIN file BY <1>0
  <2>2. w.free # {}
    <3>1. Cardinality(w.free) >= L - (n - 1) BY <1>4
    <3>2. w.free = {} => Cardinality(w.free) = 0 BY FS_EmptySet
    <3>3. L - (n - 1) > 0 BY <1>0
    <3> HIDE DEF w
    <3> QED BY <3>1, <3>2, <3>3, <1>0
  <2>3. CbWorkTyped(w) /\ Cardinality(w.free) >= L - (n - 1) /\ w.taken \subseteq CbNames
        /\ CbFrom(w.table, table, CbFileNames(file))
        /\ \A X \in CbNames \ w.taken :
              (\A c, d \in CbHolders(table, X) : c = d) => CbKnown(w, X)
    BY <1>4
  <2> HIDE DEF w
  <2>4. /\ CbWorkTyped(v)
        /\ Cardinality(v.free) >= Cardinality(w.free) - 1
        /\ w.taken \subseteq v.taken /\ v.taken \subseteq w.taken \cup NamesIn(file[n])
        /\ CbFrom(v.table, w.table, NamesIn(file[n]))
        /\ \A X \in CbNames : CbKnown(w, X) /\ X \notin v.taken => CbKnown(v, X)
    BY <2>1, <2>2, <2>3, CbLineStep
  <2> HIDE DEF v
  <2>5. Cardinality(v.free) >= L - n
    <3>1. Cardinality(w.free) \in Nat /\ Cardinality(v.free) \in Nat
      BY <2>3, <2>4, CbRowNumbers, FS_Subset, FS_CardinalityType DEF CbWorkTyped
    <3> QED BY <3>1, <2>3, <2>4, <1>0
  <2>6. CbFrom(v.table, table, CbFileNames(file))
    <3>1. NamesIn(file[n]) \subseteq CbFileNames(file) BY <2>1 DEF CbFileNames
    <3> QED BY <3>1, <2>3, <2>4 DEF CbFrom
  <2>7. \A X \in CbNames \ v.taken :
            (\A c, d \in CbHolders(table, X) : c = d) => CbKnown(v, X)
    BY <2>3, <2>4
  <2>8. v.taken \subseteq CbNames BY <2>1, <2>3, <2>4, CbNamesAreNames
  <2> QED BY <2>0, <2>4, <2>5, <2>6, <2>7, <2>8
<1>5. Good(f[L], L)
  <2> DEFINE Bad == {n \in 0..L : ~Good(f[n], n)}
  <2>1. SUFFICES ASSUME Bad # {} PROVE FALSE BY <1>0
  <2>2. PICK n \in Bad : \A m \in Bad : n <= m
    <3>0. IsFiniteSet(0..L) BY <1>0, FS_Interval
    <3>1. Bad \in SUBSET Nat /\ IsFiniteSet(Bad) BY <3>0, FS_Subset
    <3> HIDE DEF Bad
    <3> QED BY <3>1, <2>1, MinOfFinite
  <2>3. n \in 0..L /\ ~Good(f[n], n) OBVIOUS
  <2> HIDE DEF Good
  <2>4. n # 0 BY <2>3, <1>3
  <2>5. n \in 1..L /\ n - 1 \in 0..L /\ ~(n <= n - 1) BY <2>3, <2>4, <1>0
  <2>6. Good(f[n - 1], n - 1) BY <2>2, <2>5
  <2> QED BY <2>3, <2>5, <2>6, <1>4
<1>6. \A X \in CbNames \ f[L].taken :
          (\A c, d \in CbHolders(table, X) : c = d) =>
              \A c, d \in CbHolders(f[L].table, X) : c = d
  BY <1>5 DEF CbKnown
<1>8. CbImportsWell(f[L], table, file) BY <1>5, <1>6 DEF CbWorkTyped, CbImportsWell
<1> QED BY <1>7, <1>8

-----------------------------------------------------------------------------
(* What the requests rely on.                                               *)

CbRowsOK ==
    /\ \A c \in CbRows : ~CbExists(c) => cbRow[c] = CbNobody
    /\ \A c \in CbRows \ cbUsed : ~CbExists(c) /\ ~cbFound[c]

\* What two requests have in hand at once has been noted.
CbHands ==
    /\ \A r \in CbRequests :
          /\ cbPc[r] = "idle" => cbMem[r] = CbForgotten
          /\ cbMem[r].row \in {0} \cup cbUsed
          /\ cbPc[r] \in {"edit", "resolve", "unresolve"} => cbMem[r].row # 0
          /\ cbPc[r] = "create" => cbMem[r].row = 0
    /\ \A r, q \in CbRequests : r # q =>
          /\ NamesOf(cbMem[r]) \cap NamesOf(cbMem[q]) \subseteq cbRaced
          /\ \A c \in CbRows : cbMem[r].row = c /\ cbMem[q].row = c => c \in cbShared

\* Nobody else gets a name that a request is going to write.
CbSeen ==
    \A r \in CbRequests : \A X \in NamesOf(cbMem[r]) \ cbRaced :
        CbHolders(cbRow, X) \subseteq CbHolders(cbMem[r].table, X)

CbSole(table, X) == \A c, d \in CbHolders(table, X) : c = d

\* A name that is going to be written was free, but for an import, which sees to that line by
\* line.
CbCheckedMem(step, mem) ==
    /\ step \in {"create", "edit", "save"} =>
          /\ mem.file = <<>>
          /\ \A X \in NamesIn(mem.new) :
                mem.row = 0 \/ X \notin NamesIn(mem.table[mem.row]) => CbHolders(mem.table, X) = {}
    /\ step = "import" =>
          /\ mem.new = CbNobody
          /\ \A X \in CbNames \ (cbRaced \cup cbUnited) : CbSole(mem.table, X)

CbChecked == \A r \in CbRequests : CbCheckedMem(cbPc[r], cbMem[r])

CbUnique == \A X \in CbNames \ (cbRaced \cup cbUnited) : CbSole(cbRow, X)

\* A row that one request has in hand is as it was loaded.
CbTold ==
    \A r \in CbRequests : \A c \in CbRows \ cbShared :
        cbMem[r].row = c /\ CbExists(c) =>
            cbMem[r].found = cbFound[c] /\ cbMem[r].status = cbStatus[c]

CbInv ==
    /\ CbTypeOK /\ CbRowsOK /\ CbHands /\ CbSeen /\ CbChecked /\ CbUnique /\ CbTold
    /\ ResolvedHasId

LEMMA CbNobodyHolds ==
    /\ CbNobody \in CbLines /\ NamesIn(CbNobody) = {}
    /\ \A X : CbHolders([c \in CbRows |-> CbNobody], X) = {}
BY DEF CbNobody, CbLines, NamesIn, CbHolders

LEMMA CbForgottenIs ==
    /\ CbForgotten \in CbMemory /\ CbForgotten.row = 0 /\ NamesOf(CbForgotten) = {}
    /\ CbForgotten.new = CbNobody /\ CbForgotten.file = <<>>
    /\ CbForgotten.table = [c \in CbRows |-> CbNobody]
<1>1. /\ CbForgotten.row = 0 /\ CbForgotten.new = CbNobody /\ CbForgotten.file = <<>>
      /\ CbForgotten.table = [c \in CbRows |-> CbNobody]
  BY DEF CbForgotten
<1>2. CbForgotten \in CbMemory
  BY CbNobodyHolds DEF CbForgotten, CbMemory, CbStatuses
<1>3. DOMAIN (<< >>) = {} OBVIOUS
<1>4. NamesOf(CbForgotten) = {} BY <1>1, <1>3, CbNobodyHolds DEF NamesOf
<1> QED BY <1>1, <1>2, <1>4

\* The names a request has in hand are names.
LEMMA CbNamesOfNames == ASSUME NEW mem \in CbMemory PROVE NamesOf(mem) \subseteq CbNames
<1>1. mem.new \in CbLines /\ mem.file \in Seq(CbLines)
  <2>1. CbFiles \subseteq Seq(CbLines \ {CbNobody}) BY ContactBookAssumption
  <2>2. <<>> \in Seq(CbLines) OBVIOUS
  <2>3. Seq(CbLines \ {CbNobody}) \subseteq Seq(CbLines) OBVIOUS
  <2> QED BY <2>1, <2>2, <2>3 DEF CbMemory
<1>2. \A i \in DOMAIN mem.file : mem.file[i] \in CbLines BY <1>1
<1> QED BY <1>1, <1>2, CbNamesAreNames DEF NamesOf

LEMMA CbNamesOfNew ==
    ASSUME NEW mem, mem.file = <<>>
    PROVE  NamesOf(mem) = NamesIn(mem.new)
BY DEF NamesOf

LEMMA CbMoves ==
    ASSUME CbTypeOK, NEW r \in CbRequests, NEW step, NEW mem, CbTo(r, step, mem)
    PROVE  /\ cbPc'[r] = step /\ cbMem'[r] = mem
           /\ \A q \in CbRequests : q # r => cbPc'[q] = cbPc[q] /\ cbMem'[q] = cbMem[q]
BY DEF CbTypeOK, CbTo

CbSteps == {"idle", "create", "edit", "save", "import", "resolve", "unresolve"}

LEMMA CbMovesTyped ==
    ASSUME CbTypeOK, NEW r \in CbRequests, NEW step \in CbSteps, NEW mem \in CbMemory,
           CbTo(r, step, mem)
    PROVE  cbPc' \in [CbRequests -> CbSteps] /\ cbMem' \in [CbRequests -> CbMemory]
BY DEF CbTypeOK, CbTo, CbSteps

-----------------------------------------------------------------------------
(* A request begins, and writes, once each.                                 *)

LEMMA CbStarts ==
    ASSUME CbInv, NEW r \in CbRequests, NEW step \in CbSteps \ {"idle"}, NEW mem \in CbMemory,
           CbStart(r, step, mem), UNCHANGED <<cbTable, cbUnited>>,
           mem.row \in {0} \cup cbUsed,
           step \in {"edit", "resolve", "unresolve"} => mem.row # 0,
           step = "create" => mem.row = 0,
           \A X \in NamesOf(mem) : CbHolders(cbRow, X) \subseteq CbHolders(mem.table, X),
           CbCheckedMem(step, mem),
           \A c \in CbRows : mem.row = c => mem.found = cbFound[c] /\ mem.status = cbStatus[c]
    PROVE  CbInv'
<1> DEFINE others == {q \in CbRequests \ {r} : cbPc[q] # "idle"}
<1>0. /\ cbPc'[r] = step /\ cbMem'[r] = mem
      /\ \A q \in CbRequests : q # r => cbPc'[q] = cbPc[q] /\ cbMem'[q] = cbMem[q]
  BY CbMoves DEF CbStart, CbInv
<1>t. UNCHANGED <<cbRow, cbFound, cbStatus, cbUsed, cbUnited>> BY DEF cbTable
<1>1. /\ cbRaced' = cbRaced \cup UNION {NamesOf(mem) \cap NamesOf(cbMem[q]) : q \in others}
      /\ cbShared' = cbShared \cup
                        {c \in CbRows : c = mem.row /\ \E q \in others : cbMem[q].row = c}
  BY DEF CbStart
<1>2. cbRaced \subseteq cbRaced' /\ cbShared \subseteq cbShared' BY <1>1
<1>i. \A q \in CbRequests : cbPc[q] = "idle" => NamesOf(cbMem[q]) = {} /\ cbMem[q].row = 0
  BY CbForgottenIs DEF CbInv, CbHands
<1>3. \A q \in CbRequests \ {r} : NamesOf(mem) \cap NamesOf(cbMem[q]) \subseteq cbRaced'
  BY <1>1, <1>i
<1>4. \A q \in CbRequests \ {r} : \A c \in CbRows :
          mem.row = c /\ cbMem[q].row = c => c \in cbShared'
  BY <1>1, <1>i, CbRowNumbers
<1>5. CbTypeOK'
  <2>1. cbPc' \in [CbRequests -> CbSteps] /\ cbMem' \in [CbRequests -> CbMemory]
    BY CbMovesTyped DEF CbStart, CbInv
  <2>2. NamesOf(mem) \subseteq CbNames BY CbNamesOfNames
  <2>3. cbRaced' \subseteq CbNames /\ cbShared' \subseteq CbRows
    BY <1>1, <2>2 DEF CbInv, CbTypeOK
  <2> QED BY <2>1, <2>3, <1>t DEF CbInv, CbTypeOK, CbSteps
<1>6. CbRowsOK' BY <1>t DEF CbInv, CbRowsOK, CbExists
<1>7. CbHands'
  <2>1. ASSUME NEW q \in CbRequests
        PROVE  /\ cbPc'[q] = "idle" => cbMem'[q] = CbForgotten
               /\ cbMem'[q].row \in {0} \cup cbUsed'
               /\ cbPc'[q] \in {"edit", "resolve", "unresolve"} => cbMem'[q].row # 0
               /\ cbPc'[q] = "create" => cbMem'[q].row = 0
    BY <1>0, <1>t DEF CbInv, CbHands
  <2>2. ASSUME NEW p \in CbRequests, NEW q \in CbRequests, p # q
        PROVE  /\ NamesOf(cbMem'[p]) \cap NamesOf(cbMem'[q]) \subseteq cbRaced'
               /\ \A c \in CbRows : cbMem'[p].row = c /\ cbMem'[q].row = c => c \in cbShared'
    <3>1. CASE p = r BY <3>1, <2>2, <1>0, <1>3, <1>4
    <3>2. CASE q = r BY <3>2, <2>2, <1>0, <1>3, <1>4
    <3>3. CASE p # r /\ q # r BY <3>3, <2>2, <1>0, <1>2 DEF CbInv, CbHands
    <3> QED BY <3>1, <3>2, <3>3
  <2> QED BY <2>1, <2>2 DEF CbHands
<1>8. CbSeen'
  <2> SUFFICES ASSUME NEW q \in CbRequests, NEW X \in NamesOf(cbMem'[q]) \ cbRaced'
               PROVE  CbHolders(cbRow', X) \subseteq CbHolders(cbMem'[q].table, X)
    BY DEF CbSeen
  <2>1. CASE q = r BY <2>1, <1>0, <1>t
  <2>2. CASE q # r BY <2>2, <1>0, <1>t, <1>2 DEF CbInv, CbSeen
  <2> QED BY <2>1, <2>2
<1>9. CbChecked'
  <2> SUFFICES ASSUME NEW q \in CbRequests PROVE CbCheckedMem(cbPc[q], cbMem[q])'
    BY DEF CbChecked
  <2>1. CbCheckedMem(cbPc'[q], cbMem'[q])
    <3>1. CASE q = r BY <3>1, <1>0
    <3>2. CASE q # r BY <3>2, <1>0 DEF CbInv, CbChecked
    <3> QED BY <3>1, <3>2
  <2> QED BY <2>1, <1>2, <1>t DEF CbCheckedMem
<1>10. CbUnique' BY <1>2, <1>t DEF CbInv, CbUnique
<1>11. CbTold' BY <1>0, <1>2, <1>t DEF CbInv, CbTold, CbExists
<1>12. ResolvedHasId' BY <1>2, <1>t DEF CbInv, ResolvedHasId
<1> QED BY <1>5, <1>6, <1>7, <1>8, <1>9, <1>10, <1>11, <1>12 DEF CbInv

LEMMA CbWrites ==
    ASSUME CbInv, NEW r \in CbRequests, CbClose(r), cbRaced' = cbRaced, cbShared' = cbShared,
           cbUnited \subseteq cbUnited', cbUsed \subseteq cbUsed',
           cbRow' \in [CbRows -> CbLines], cbFound' \in [CbRows -> BOOLEAN],
           cbStatus' \in [CbRows -> CbStatuses \cup {"none"}], cbUsed' \subseteq CbRows,
           cbUnited' \subseteq CbNames, CbRowsOK',
           \A X \in CbNames \ NamesOf(cbMem[r]) : CbHolders(cbRow', X) \subseteq CbHolders(cbRow, X),
           \A X \in NamesOf(cbMem[r]) \ (cbRaced \cup cbUnited') : CbSole(cbRow', X),
           \A c \in cbUsed : c # cbMem[r].row /\ cbStatus'[c] # "none" =>
               cbStatus[c] # "none" /\ cbStatus'[c] = cbStatus[c] /\ cbFound'[c] = cbFound[c],
           \A c \in CbRows \ cbShared :
               /\ cbStatus'[c] = "resolved" => cbFound'[c]
               /\ cbFound'[c] => cbStatus'[c] \in {"resolved", "failed"}
    PROVE  CbInv'
<1>0. /\ cbPc'[r] = "idle" /\ cbMem'[r] = CbForgotten
      /\ \A q \in CbRequests : q # r => cbPc'[q] = cbPc[q] /\ cbMem'[q] = cbMem[q]
  BY CbMoves DEF CbClose, CbInv
<1>1. CbTypeOK'
  <2>1. cbPc' \in [CbRequests -> CbSteps] /\ cbMem' \in [CbRequests -> CbMemory]
    <3>1. "idle" \in CbSteps BY DEF CbSteps
    <3> QED BY <3>1, CbMovesTyped, CbForgottenIs DEF CbClose, CbInv
  <2> QED BY <2>1 DEF CbInv, CbTypeOK, CbSteps
<1>2. CbHands'
  <2>1. ASSUME NEW q \in CbRequests
        PROVE  /\ cbPc'[q] = "idle" => cbMem'[q] = CbForgotten
               /\ cbMem'[q].row \in {0} \cup cbUsed'
               /\ cbPc'[q] \in {"edit", "resolve", "unresolve"} => cbMem'[q].row # 0
               /\ cbPc'[q] = "create" => cbMem'[q].row = 0
    BY <1>0, CbForgottenIs DEF CbInv, CbHands
  <2>2. ASSUME NEW p \in CbRequests, NEW q \in CbRequests, p # q
        PROVE  /\ NamesOf(cbMem'[p]) \cap NamesOf(cbMem'[q]) \subseteq cbRaced'
               /\ \A c \in CbRows : cbMem'[p].row = c /\ cbMem'[q].row = c => c \in cbShared'
    BY <2>2, <1>0, CbForgottenIs, CbRowNumbers DEF CbInv, CbHands
  <2> QED BY <2>1, <2>2 DEF CbHands
<1>3. CbSeen'
  <2> SUFFICES ASSUME NEW q \in CbRequests, NEW X \in NamesOf(cbMem'[q]) \ cbRaced'
               PROVE  CbHolders(cbRow', X) \subseteq CbHolders(cbMem'[q].table, X)
    BY DEF CbSeen
  <2>1. q # r BY <1>0, CbForgottenIs
  <2>2. X \in NamesOf(cbMem[q]) /\ X \notin cbRaced /\ cbMem'[q] = cbMem[q] BY <2>1, <1>0
  <2>3. X \notin NamesOf(cbMem[r]) BY <2>1, <2>2 DEF CbInv, CbHands
  <2>4. X \in CbNames BY <2>2, CbNamesOfNames DEF CbInv, CbTypeOK
  <2> QED BY <2>2, <2>3, <2>4 DEF CbInv, CbSeen
<1>4. CbChecked'
  <2> SUFFICES ASSUME NEW q \in CbRequests PROVE CbCheckedMem(cbPc[q], cbMem[q])'
    BY DEF CbChecked
  <2>1. CASE q = r BY <2>1, <1>0 DEF CbCheckedMem
  <2>2. CASE q # r
    <3>1. CbCheckedMem(cbPc'[q], cbMem'[q]) BY <2>2, <1>0 DEF CbInv, CbChecked
    <3> QED BY <3>1 DEF CbCheckedMem
  <2> QED BY <2>1, <2>2
<1>5. CbUnique'
  <2> SUFFICES ASSUME NEW X \in CbNames \ (cbRaced' \cup cbUnited') PROVE CbSole(cbRow', X)
    BY DEF CbUnique, CbSole
  <2>1. CASE X \in NamesOf(cbMem[r]) BY <2>1
  <2>2. CASE X \notin NamesOf(cbMem[r])
    <3>1. CbHolders(cbRow', X) \subseteq CbHolders(cbRow, X) BY <2>2
    <3>2. CbSole(cbRow, X) BY DEF CbInv, CbUnique
    <3> QED BY <3>1, <3>2 DEF CbSole
  <2> QED BY <2>1, <2>2
<1>6. CbTold'
  <2> SUFFICES ASSUME NEW q \in CbRequests, NEW c \in CbRows \ cbShared', cbMem'[q].row = c,
                      cbStatus'[c] # "none"
               PROVE  cbMem'[q].found = cbFound'[c] /\ cbMem'[q].status = cbStatus'[c]
    BY DEF CbTold, CbExists
  <2>1. q # r BY <1>0, CbForgottenIs, CbRowNumbers
  <2>2. cbMem'[q] = cbMem[q] /\ cbMem[q].row = c BY <2>1, <1>0
  <2>3. c # cbMem[r].row BY <2>1, <2>2 DEF CbInv, CbHands
  <2>4. c \in cbUsed BY <2>2, CbRowNumbers DEF CbInv, CbHands
  <2>5. cbStatus[c] # "none" /\ cbStatus'[c] = cbStatus[c] /\ cbFound'[c] = cbFound[c]
    BY <2>3, <2>4
  <2> QED BY <2>2, <2>5 DEF CbInv, CbTold, CbExists
<1>7. ResolvedHasId' BY DEF ResolvedHasId
<1> QED BY <1>1, <1>2, <1>3, <1>4, <1>5, <1>6, <1>7 DEF CbInv

-----------------------------------------------------------------------------
(* The actions.                                                             *)

LEMMA CbReadRow ==
    ASSUME CbInv, NEW c \in CbRows
    PROVE  /\ cbRow[c] \in CbLines /\ cbFound[c] \in BOOLEAN
           /\ CbExists(c) => c \in cbUsed /\ cbStatus[c] \in CbStatuses
           /\ NamesIn(cbRow[c]) # {} => CbExists(c)
BY CbNobodyHolds DEF CbInv, CbTypeOK, CbRowsOK, CbExists

LEMMA CbLoadedIs ==
    ASSUME CbInv, NEW c \in CbRows, CbExists(c)
    PROVE  /\ CbLoaded(c) \in CbMemory
           /\ CbLoaded(c).row = c /\ CbLoaded(c).new = CbNobody /\ CbLoaded(c).file = <<>>
           /\ CbLoaded(c).table = cbRow /\ CbLoaded(c).found = cbFound[c]
           /\ CbLoaded(c).status = cbStatus[c]
           /\ c \in cbUsed /\ c # 0
<1>1. cbFound[c] \in BOOLEAN /\ cbStatus[c] \in CbStatuses /\ c \in cbUsed BY CbReadRow
<1>2. cbRow \in [CbRows -> CbLines] BY DEF CbInv, CbTypeOK
<1>3. CbLoaded(c) \in CbMemory BY <1>1, <1>2, CbNobodyHolds DEF CbLoaded, CbMemory
<1> QED BY <1>1, <1>3, CbRowNumbers DEF CbLoaded

LEMMA CbHandsOver ==
    ASSUME NEW mem \in CbMemory, mem.file = <<>>, NEW new \in CbLines
    PROVE  LET m == [mem EXCEPT !.new = new] IN
           /\ m \in CbMemory /\ m.row = mem.row /\ m.new = new /\ m.file = <<>>
           /\ m.table = mem.table /\ m.found = mem.found /\ m.status = mem.status
           /\ NamesOf(m) = NamesIn(new)
<1>1. [mem EXCEPT !.new = new] =
         [row |-> mem.row, new |-> new, found |-> mem.found, status |-> mem.status,
          table |-> mem.table, file |-> mem.file]
  BY DEF CbMemory
<1>2. [mem EXCEPT !.new = new] \in CbMemory BY <1>1 DEF CbMemory
<1> QED BY <1>1, <1>2, CbNamesOfNew

LEMMA CbBeginCreateKeeps ==
    ASSUME CbInv, NEW r \in CbRequests, NEW line \in CbLines, CbBeginCreate(r, line)
    PROVE  CbInv'
<1> DEFINE m == [CbForgotten EXCEPT !.new = line]
<1>1. m \in CbMemory /\ m.row = 0 /\ m.new = line /\ m.file = <<>> /\ NamesOf(m) = NamesIn(line)
  BY CbForgottenIs, CbHandsOver
<1>2. \A X \in NamesIn(line) : CbHolders(cbRow, X) = {} BY DEF CbBeginCreate, CbConflict
<1>3. \A X : CbHolders(m.table, X) = {} BY CbForgottenIs, CbHandsOver, CbNobodyHolds
<1>4. CbStart(r, "create", m) /\ UNCHANGED <<cbTable, cbUnited>> BY DEF CbBeginCreate
<1> HIDE DEF m
<1>5. CbCheckedMem("create", m) BY <1>1, <1>3 DEF CbCheckedMem
<1>6. "create" \in CbSteps BY DEF CbSteps
<1> QED BY <1>1, <1>2, <1>4, <1>5, <1>6, CbStarts, CbRowNumbers

LEMMA CbBeginEditKeeps ==
    ASSUME CbInv, NEW r \in CbRequests, NEW c \in CbRows, NEW line \in CbLines,
           CbBeginEdit(r, c, line)
    PROVE  CbInv'
<1> DEFINE m == [CbLoaded(c) EXCEPT !.new = line]
           given == [phone |-> IF line.phone = cbRow[c].phone THEN CbNone ELSE line.phone,
                     username |-> IF line.username = cbRow[c].username THEN CbNone
                                  ELSE line.username]
<1>0. CbExists(c) BY DEF CbBeginEdit
<1>l. CbLoaded(c) \in CbMemory /\ CbLoaded(c).file = <<>> BY <1>0, CbLoadedIs
<1>1. /\ m \in CbMemory /\ m.row = c /\ m.new = line /\ m.file = <<>> /\ m.table = cbRow
      /\ m.found = cbFound[c] /\ m.status = cbStatus[c] /\ NamesOf(m) = NamesIn(line)
      /\ c \in cbUsed /\ c # 0
  BY <1>0, <1>l, CbLoadedIs, CbHandsOver
<1>2. ASSUME NEW X \in NamesIn(line), X \notin NamesIn(cbRow[c]) PROVE CbHolders(cbRow, X) = {}
  <2>1. X \in NamesIn(given) BY <1>2 DEF NamesIn
  <2>2. CbHolders(cbRow, X) \ {c} = {} BY <2>1 DEF CbBeginEdit, CbConflict
  <2> QED BY <2>2, <1>2 DEF CbHolders
<1>4. CbStart(r, "edit", m) /\ UNCHANGED <<cbTable, cbUnited>> BY DEF CbBeginEdit
<1> HIDE DEF m
<1>5. CbCheckedMem("edit", m) BY <1>1, <1>2 DEF CbCheckedMem
<1>6. "edit" \in CbSteps BY DEF CbSteps
<1> QED BY <1>1, <1>4, <1>5, <1>6, CbStarts

LEMMA CbBeginSaveKeeps ==
    ASSUME CbInv, NEW r \in CbRequests, NEW c \in {0} \cup CbRows, NEW line \in CbLines,
           CbBeginSave(r, c, line)
    PROVE  CbInv'
<1>s. "save" \in CbSteps BY DEF CbSteps
<1>1. CASE c = 0
  <2> DEFINE m == [CbForgotten EXCEPT !.new = line]
  <2>1. m \in CbMemory /\ m.row = 0 /\ m.new = line /\ m.file = <<>> /\ NamesOf(m) = NamesIn(line)
    BY CbForgottenIs, CbHandsOver
  <2>2. \A X \in NamesIn(line) : CbHolders(cbRow, X) = {}
    <3>1. 0 \notin UNION {CbHolders(cbRow, name) : name \in NamesIn(line)}
      BY CbRowNumbers DEF CbHolders
    <3>2. UNION {CbHolders(cbRow, name) : name \in NamesIn(line)} = {}
      BY <3>1, <1>1 DEF CbBeginSave
    <3> QED BY <3>2
  <2>3. \A X : CbHolders(m.table, X) = {} BY CbForgottenIs, CbHandsOver, CbNobodyHolds
  <2>4. CbStart(r, "save", m) /\ UNCHANGED <<cbTable, cbUnited>> BY <1>1 DEF CbBeginSave
  <2> HIDE DEF m
  <2>5. CbCheckedMem("save", m) BY <2>1, <2>3 DEF CbCheckedMem
  <2> QED BY <2>1, <2>2, <2>4, <2>5, <1>s, CbStarts, CbRowNumbers
<1>2. CASE c # 0
  <2> DEFINE new == CbOver(line, cbRow[c])  m == [CbLoaded(c) EXCEPT !.new = new]
  <2>0. c \in CbRows /\ CbExists(c)
    <3>1. c \in CbRows BY <1>2
    <3>2. CASE UNION {CbHolders(cbRow, name) : name \in NamesIn(line)} # {}
      <4>1. PICK X \in NamesIn(line) : c \in CbHolders(cbRow, X) BY <3>2 DEF CbBeginSave
      <4> QED BY <4>1, <3>1, CbReadRow DEF CbHolders
    <3>3. CASE UNION {CbHolders(cbRow, name) : name \in NamesIn(line)} = {}
      BY <3>1, <3>3, <1>2 DEF CbBeginSave
    <3> QED BY <3>1, <3>2, <3>3
  <2>l. CbLoaded(c) \in CbMemory /\ CbLoaded(c).file = <<>> BY <2>0, CbLoadedIs
  <2>n. cbRow[c] \in CbLines /\ new \in CbLines BY <2>0, CbReadRow, CbOverIs
  <2>1. /\ m \in CbMemory /\ m.row = c /\ m.new = new /\ m.file = <<>> /\ m.table = cbRow
        /\ m.found = cbFound[c] /\ m.status = cbStatus[c] /\ NamesOf(m) = NamesIn(new)
        /\ c \in cbUsed /\ c # 0
    <3> HIDE DEF new
    <3> QED BY <2>0, <2>l, <2>n, CbLoadedIs, CbHandsOver
  <2>2. ASSUME NEW X \in NamesIn(new), X \notin NamesIn(cbRow[c]) PROVE CbHolders(cbRow, X) = {}
    <3>1. X \in NamesIn(line)
      <4>1. X \in CbNames BY <2>n, CbNamesAreNames
      <4> QED BY <4>1, <2>n, <2>2, CbOverIs, CbNamesInLine
    <3>2. CbHolders(cbRow, X) \ {c} = {} BY <3>1 DEF CbBeginSave, CbConflict
    <3> QED BY <3>2, <2>2 DEF CbHolders
  <2>4. CbStart(r, "save", m) /\ UNCHANGED <<cbTable, cbUnited>> BY <1>2 DEF CbBeginSave
  <2> HIDE DEF m, new
  <2>5. CbCheckedMem("save", m) BY <2>1, <2>2 DEF CbCheckedMem
  <2> QED BY <2>1, <2>4, <2>5, <1>s, CbStarts
<1> QED BY <1>1, <1>2

LEMMA CbBeginImportKeeps ==
    ASSUME CbInv, NEW r \in CbRequests, NEW file \in CbFiles, CbBeginImport(r, file)
    PROVE  CbInv'
<1> DEFINE m == [row |-> 0, new |-> CbNobody, found |-> FALSE, status |-> "pending",
                 table |-> cbRow, file |-> file]
<1>1. /\ m.row = 0 /\ m.new = CbNobody /\ m.found = FALSE /\ m.status = "pending"
      /\ m.table = cbRow /\ m.file = file
  OBVIOUS
<1>2. CbStart(r, "import", m) /\ UNCHANGED <<cbTable, cbUnited>> BY DEF CbBeginImport
<1> HIDE DEF m
<1>3. m \in CbMemory
  <2>1. cbRow \in [CbRows -> CbLines] BY DEF CbInv, CbTypeOK
  <2> QED BY <2>1, CbNobodyHolds DEF CbMemory, CbStatuses, m
<1>4. CbCheckedMem("import", m) BY <1>1 DEF CbCheckedMem, CbInv, CbUnique
<1>5. m.row = 0 /\ m.table = cbRow BY <1>1
<1>6. "import" \in CbSteps BY DEF CbSteps
<1> QED BY <1>2, <1>3, <1>4, <1>5, <1>6, CbStarts, CbRowNumbers

LEMMA CbBeginResolveKeeps ==
    ASSUME CbInv, NEW r \in CbRequests, NEW c \in CbRows,
           CbBeginResolve(r, c) \/ CbBeginUnresolve(r, c)
    PROVE  CbInv'
<1> PICK step \in {"resolve", "unresolve"} :
        CbExists(c) /\ CbStart(r, step, CbLoaded(c)) /\ UNCHANGED <<cbTable, cbUnited>>
  BY DEF CbBeginResolve, CbBeginUnresolve
<1>1. step \in CbSteps \ {"idle"} /\ step \notin {"create", "edit", "save", "import"}
  BY DEF CbSteps
<1>2. CbCheckedMem(step, CbLoaded(c)) BY <1>1 DEF CbCheckedMem
<1>3. NamesOf(CbLoaded(c)) = {}
  BY CbLoadedIs, CbNamesOfNew, CbNobodyHolds
<1> QED BY <1>1, <1>2, <1>3, CbLoadedIs, CbStarts

\* A row that is written over with what a request has changed of it.
LEMMA CbWrittenIs ==
    ASSUME NEW new \in CbLines, NEW loaded \in CbLines, NEW current \in CbLines
    PROVE  LET row == CbWritten(new, loaded, current) IN
           /\ row \in CbLines
           /\ \A X \in CbNames : X \in NamesIn(row) =>
                 X \in NamesIn(current) \/ (X \in NamesIn(new) /\ X \notin NamesIn(loaded))
           /\ new = loaded => row = current
<1> DEFINE row == CbWritten(new, loaded, current)
<1>1. row.phone = (IF new.phone = loaded.phone THEN current.phone ELSE new.phone)
      /\ row.username = (IF new.username = loaded.username THEN current.username
                         ELSE new.username)
  BY DEF CbWritten
<1>2. row \in CbLines BY DEF CbWritten, CbLines
<1>3. ASSUME NEW X \in CbNames, X \in NamesIn(row), X \notin NamesIn(current)
      PROVE  X \in NamesIn(new) /\ X \notin NamesIn(loaded)
  <2> HIDE DEF row
  <2>1. CASE X = row.phone
    <3>1. X \in CbPhones /\ X \notin CbUsernames
      BY <2>1, <1>2, CbNamesInLine, ContactBookAssumption
    <3>2. X # current.phone BY <1>3, CbNamesInLine
    <3>3. X = new.phone /\ X # loaded.phone BY <1>1, <2>1, <3>2
    <3> QED BY <3>1, <3>3, CbNamesInLine
  <2>2. CASE X = row.username
    <3>1. X \in CbUsernames /\ X \notin CbPhones
      BY <2>2, <1>2, CbNamesInLine, ContactBookAssumption
    <3>2. X # current.username BY <1>3, CbNamesInLine
    <3>3. X = new.username /\ X # loaded.username BY <1>1, <2>2, <3>2
    <3> QED BY <3>1, <3>3, CbNamesInLine
  <2> QED BY <2>1, <2>2, <1>2, <1>3, CbNamesInLine
<1>4. new = loaded => row = current BY DEF CbWritten, CbLines
<1> QED BY <1>2, <1>3, <1>4

\* A request that has a checked name in hand writes it into the row.
LEMMA CbWritesName ==
    ASSUME CbInv, NEW r \in CbRequests, cbPc[r] \in {"create", "edit", "save"},
           NEW c \in CbRows, NEW row \in CbLines, cbRow' = [cbRow EXCEPT ![c] = row],
           \A X \in CbNames : X \in NamesIn(row) =>
              \/ X \in NamesIn(cbRow[c])
              \/ /\ X \in NamesIn(cbMem[r].new)
                 /\ cbMem[r].row = 0 \/ X \notin NamesIn(cbMem[r].table[cbMem[r].row])
    PROVE  /\ cbRow' \in [CbRows -> CbLines]
           /\ \A X \in CbNames \ NamesOf(cbMem[r]) :
                 CbHolders(cbRow', X) \subseteq CbHolders(cbRow, X)
           /\ \A X \in NamesOf(cbMem[r]) \ (cbRaced \cup cbUnited) : CbSole(cbRow', X)
<1>1. cbRow' \in [CbRows -> CbLines] /\ cbRow'[c] = row
      /\ \A d \in CbRows : d # c => cbRow'[d] = cbRow[d]
  BY DEF CbInv, CbTypeOK
<1>2. NamesOf(cbMem[r]) = NamesIn(cbMem[r].new) /\ NamesOf(cbMem[r]) \subseteq CbNames
      /\ CbCheckedMem(cbPc[r], cbMem[r])
  <2>1. CbCheckedMem(cbPc[r], cbMem[r]) BY DEF CbInv, CbChecked
  <2>2. cbMem[r].file = <<>> BY <2>1 DEF CbCheckedMem
  <2>3. cbMem[r] \in CbMemory BY DEF CbInv, CbTypeOK
  <2> QED BY <2>1, <2>2, <2>3, CbNamesOfNew, CbNamesOfNames
<1>3. ASSUME NEW X \in CbNames, NEW d \in CbHolders(cbRow', X)
      PROVE  \/ d \in CbHolders(cbRow, X)
             \/ /\ d = c /\ X \in NamesIn(cbMem[r].new)
                /\ CbHolders(cbMem[r].table, X) = {}
  <2>1. d \in CbRows /\ X \in NamesIn(cbRow'[d]) BY DEF CbHolders
  <2>2. CASE d # c BY <2>1, <2>2, <1>1 DEF CbHolders
  <2>3. CASE d = c
    <3>1. X \in NamesIn(cbRow[c]) => d \in CbHolders(cbRow, X) BY <2>3 DEF CbHolders
    <3> QED BY <2>1, <2>3, <3>1, <1>1, <1>2 DEF CbCheckedMem
  <2> QED BY <2>2, <2>3
<1>4. ASSUME NEW X \in NamesOf(cbMem[r]) \ (cbRaced \cup cbUnited) PROVE CbSole(cbRow', X)
  <2>1. X \in CbNames BY <1>2
  <2>2. CbHolders(cbRow, X) \subseteq CbHolders(cbMem[r].table, X) BY DEF CbInv, CbSeen
  <2>3. CbSole(cbRow, X) BY <2>1 DEF CbInv, CbUnique
  <2> QED BY <2>1, <2>2, <2>3, <1>3 DEF CbSole
<1> QED BY <1>1, <1>2, <1>3, <1>4

LEMMA CbInsertKeeps ==
    ASSUME CbInv, NEW r \in CbRequests, cbPc[r] \in {"create", "save"}, cbMem[r].row = 0,
           CbFree # {}, NEW found \in BOOLEAN, CbInsert(cbMem[r].new, found), CbClose(r),
           UNCHANGED <<cbObserved>>
    PROVE  CbInv'
<1> PICK c : c = Min(CbFree) OBVIOUS
<1>0. c \in CbRows /\ c \notin cbUsed BY CbLeastRow DEF CbFree
<1>1. /\ cbRow' = [cbRow EXCEPT ![c] = cbMem[r].new]
      /\ cbFound' = [cbFound EXCEPT ![c] = found]
      /\ cbStatus' = [cbStatus EXCEPT ![c] = IF found THEN "resolved" ELSE "pending"]
      /\ cbUsed' = cbUsed \cup {c}
  BY DEF CbInsert
<1>2. cbMem[r].new \in CbLines BY DEF CbInv, CbTypeOK, CbMemory
<1>3. /\ cbRow' \in [CbRows -> CbLines]
      /\ \A X \in CbNames \ NamesOf(cbMem[r]) : CbHolders(cbRow', X) \subseteq CbHolders(cbRow, X)
      /\ \A X \in NamesOf(cbMem[r]) \ (cbRaced \cup cbUnited) : CbSole(cbRow', X)
  <2> HIDE DEF CbInv
  <2> QED BY <1>0, <1>1, <1>2, CbWritesName
<1>4. /\ cbFound' \in [CbRows -> BOOLEAN] /\ cbUsed' \subseteq CbRows
      /\ cbStatus' \in [CbRows -> CbStatuses \cup {"none"}]
  BY <1>0, <1>1 DEF CbInv, CbTypeOK, CbStatuses
<1>5. /\ cbRow'[c] = cbMem[r].new /\ cbFound'[c] = found
      /\ cbStatus'[c] = (IF found THEN "resolved" ELSE "pending")
      /\ \A d \in CbRows : d # c => cbRow'[d] = cbRow[d] /\ cbFound'[d] = cbFound[d]
                                    /\ cbStatus'[d] = cbStatus[d]
  BY <1>0, <1>1 DEF CbInv, CbTypeOK
<1>6. CbRowsOK' BY <1>1, <1>5 DEF CbInv, CbRowsOK, CbExists
<1>7. \A d \in CbRows \ cbShared :
          /\ cbStatus'[d] = "resolved" => cbFound'[d]
          /\ cbFound'[d] => cbStatus'[d] \in {"resolved", "failed"}
  BY <1>5 DEF CbInv, ResolvedHasId
<1>8. \A d \in cbUsed : d # c /\ d \in CbRows BY <1>0 DEF CbInv, CbTypeOK
<1>9. cbUnited' = cbUnited /\ cbRaced' = cbRaced /\ cbShared' = cbShared /\ cbUsed \subseteq cbUsed'
  BY <1>1 DEF cbObserved
<1>10. cbUnited' \subseteq CbNames BY <1>9 DEF CbInv, CbTypeOK
<1> QED BY <1>3, <1>4, <1>5, <1>6, <1>7, <1>8, <1>9, <1>10, CbWrites

LEMMA CbCreateKeeps == ASSUME CbInv, NEW r \in CbRequests, CbCreate(r) PROVE CbInv'
<1>1. cbMem[r].row = 0 BY DEF CbCreate, CbInv, CbHands
<1> QED BY <1>1, CbInsertKeeps DEF CbCreate

\* What is found out of a row is written where it differs from what was loaded.
LEMMA CbResolvesRow ==
    ASSUME CbInv, NEW r \in CbRequests, cbMem[r].row # 0,
           NEW found \in BOOLEAN, NEW status \in CbStatuses,
           status = "resolved" => found, found => status \in {"resolved", "failed"},
           CbResolution(cbMem[r], found, status) \/ UNCHANGED <<cbFound, cbStatus>>
    PROVE  /\ cbFound' \in [CbRows -> BOOLEAN]
           /\ cbStatus' \in [CbRows -> CbStatuses \cup {"none"}]
           /\ \A d \in CbRows : cbStatus'[d] # "none" <=> cbStatus[d] # "none"
           /\ \A d \in CbRows : d # cbMem[r].row =>
                 cbFound'[d] = cbFound[d] /\ cbStatus'[d] = cbStatus[d]
           /\ \A d \in CbRows : cbStatus[d] = "none" => cbFound'[d] = cbFound[d]
           /\ \A d \in CbRows \ cbShared :
                 /\ cbStatus'[d] = "resolved" => cbFound'[d]
                 /\ cbFound'[d] => cbStatus'[d] \in {"resolved", "failed"}
<1> PICK m : m = cbMem[r] OBVIOUS
<1>0. m.row \in CbRows BY DEF CbInv, CbHands, CbTypeOK
<1>t. cbFound \in [CbRows -> BOOLEAN] /\ cbStatus \in [CbRows -> CbStatuses \cup {"none"}]
      /\ "none" \notin CbStatuses
  BY DEF CbInv, CbTypeOK, CbStatuses
<1>g. \A d \in CbRows \ cbShared :
          /\ cbStatus[d] = "resolved" => cbFound[d]
          /\ cbFound[d] => cbStatus[d] \in {"resolved", "failed"}
  BY DEF CbInv, ResolvedHasId
<1>1. CASE UNCHANGED <<cbFound, cbStatus>> BY <1>1, <1>t, <1>g
<1>2. CASE CbResolution(m, found, status) /\ CbExists(m.row)
  <2>1. /\ cbFound' = [cbFound EXCEPT ![m.row] = IF found = m.found THEN @ ELSE found]
        /\ cbStatus' = [cbStatus EXCEPT ![m.row] = IF status = m.status THEN @ ELSE status]
    BY <1>2 DEF CbResolution
  <2>2. cbStatus[m.row] # "none" BY <1>2 DEF CbExists
  <2>3. /\ cbFound'[m.row] = (IF found = m.found THEN cbFound[m.row] ELSE found)
        /\ cbStatus'[m.row] = (IF status = m.status THEN cbStatus[m.row] ELSE status)
        /\ \A d \in CbRows : d # m.row => cbFound'[d] = cbFound[d] /\ cbStatus'[d] = cbStatus[d]
    BY <2>1, <1>0, <1>t
  <2>4. cbFound' \in [CbRows -> BOOLEAN] /\ cbStatus' \in [CbRows -> CbStatuses \cup {"none"}]
    BY <2>1, <1>0, <1>t
  <2>5. cbStatus'[m.row] # "none" BY <2>2, <2>3, <1>t
  <2>6. ASSUME m.row \notin cbShared
        PROVE  cbFound'[m.row] = found /\ cbStatus'[m.row] = status
    <3>1. m.found = cbFound[m.row] /\ m.status = cbStatus[m.row]
      BY <1>0, <1>2, <2>6 DEF CbInv, CbTold
    <3> QED BY <3>1, <2>3
  <2>7. ASSUME NEW d \in CbRows \ cbShared
        PROVE  /\ cbStatus'[d] = "resolved" => cbFound'[d]
               /\ cbFound'[d] => cbStatus'[d] \in {"resolved", "failed"}
    <3>1. CASE d = m.row BY <3>1, <2>6
    <3>2. CASE d # m.row BY <3>2, <2>3, <1>g
    <3> QED BY <3>1, <3>2
  <2> QED BY <2>2, <2>3, <2>4, <2>5, <2>7
<1>3. CASE CbResolution(m, found, status) /\ ~CbExists(m.row)
  <2>1. UNCHANGED <<cbFound, cbStatus>> BY <1>3 DEF CbResolution
  <2> QED BY <2>1, <1>t, <1>g
<1> QED BY <1>1, <1>2, <1>3

\* The close of a request that has written found ids and statuses, and names of its own.
LEMMA CbUpdates ==
    ASSUME CbInv, NEW r \in CbRequests, CbClose(r), UNCHANGED <<cbUsed, cbObserved>>,
           cbRow' \in [CbRows -> CbLines],
           \A c \in CbRows : cbStatus[c] = "none" => cbRow'[c] = CbNobody,
           \A X \in CbNames \ NamesOf(cbMem[r]) : CbHolders(cbRow', X) \subseteq CbHolders(cbRow, X),
           \A X \in NamesOf(cbMem[r]) \ (cbRaced \cup cbUnited) : CbSole(cbRow', X),
           cbFound' \in [CbRows -> BOOLEAN],
           cbStatus' \in [CbRows -> CbStatuses \cup {"none"}],
           \A d \in CbRows : cbStatus'[d] # "none" <=> cbStatus[d] # "none",
           \A d \in CbRows : d # cbMem[r].row =>
              cbFound'[d] = cbFound[d] /\ cbStatus'[d] = cbStatus[d],
           \A d \in CbRows : cbStatus[d] = "none" => cbFound'[d] = cbFound[d],
           \A d \in CbRows \ cbShared :
              /\ cbStatus'[d] = "resolved" => cbFound'[d]
              /\ cbFound'[d] => cbStatus'[d] \in {"resolved", "failed"}
    PROVE  CbInv'
<1>1. CbRowsOK' BY DEF CbInv, CbRowsOK, CbExists
<1>2. cbUsed' = cbUsed /\ cbUsed \subseteq CbRows /\ cbUnited' = cbUnited /\ cbRaced' = cbRaced
      /\ cbShared' = cbShared /\ cbUnited' \subseteq CbNames
  BY DEF CbInv, CbTypeOK, cbObserved
<1> QED BY <1>1, <1>2, CbWrites

\* A request that writes no name.
LEMMA CbSameRows ==
    ASSUME CbInv, NEW r \in CbRequests, cbRow' = cbRow
    PROVE  /\ cbRow' \in [CbRows -> CbLines]
           /\ \A c \in CbRows : cbStatus[c] = "none" => cbRow'[c] = CbNobody
           /\ \A X \in CbNames \ NamesOf(cbMem[r]) : CbHolders(cbRow', X) \subseteq CbHolders(cbRow, X)
           /\ \A X \in NamesOf(cbMem[r]) \ (cbRaced \cup cbUnited) : CbSole(cbRow', X)
<1>1. NamesOf(cbMem[r]) \subseteq CbNames BY CbNamesOfNames DEF CbInv, CbTypeOK
<1> QED BY <1>1 DEF CbInv, CbTypeOK, CbRowsOK, CbExists, CbUnique

LEMMA CbResolveKeeps ==
    ASSUME CbInv, NEW r \in CbRequests,
           (\E status \in {"resolved", "no_telegram", "failed"} : CbResolve(r, status))
              \/ CbUnresolve(r)
    PROVE  CbInv'
<1>1. cbMem[r].row # 0 BY DEF CbResolve, CbUnresolve, CbInv, CbHands
<1>2. CbClose(r) /\ UNCHANGED <<cbRow, cbUsed, cbObserved>> BY DEF CbResolve, CbUnresolve
<1>3. cbMem[r].found \in BOOLEAN BY DEF CbInv, CbTypeOK, CbMemory
<1>4. \E found \in BOOLEAN, status \in CbStatuses :
          /\ status = "resolved" => found
          /\ found => status \in {"resolved", "failed"}
          /\ CbResolution(cbMem[r], found, status) \/ UNCHANGED <<cbFound, cbStatus>>
  <2>0. {"resolved", "no_telegram", "failed", "pending"} = CbStatuses BY DEF CbStatuses
  <2>1. CASE CbUnresolve(r) BY <2>0, <2>1 DEF CbUnresolve, CbUnresolved
  <2>2. ASSUME NEW status \in {"resolved", "no_telegram", "failed"}, CbResolve(r, status)
        PROVE  <1>4!:
    BY <2>0, <2>2, <1>3 DEF CbResolve, CbAnswered
  <2> QED BY <2>1, <2>2
<1> PICK found \in BOOLEAN, status \in CbStatuses :
          /\ status = "resolved" => found
          /\ found => status \in {"resolved", "failed"}
          /\ CbResolution(cbMem[r], found, status) \/ UNCHANGED <<cbFound, cbStatus>>
  BY <1>4
<1>5. /\ cbFound' \in [CbRows -> BOOLEAN]
      /\ cbStatus' \in [CbRows -> CbStatuses \cup {"none"}]
      /\ \A d \in CbRows : cbStatus'[d] # "none" <=> cbStatus[d] # "none"
      /\ \A d \in CbRows : d # cbMem[r].row =>
            cbFound'[d] = cbFound[d] /\ cbStatus'[d] = cbStatus[d]
      /\ \A d \in CbRows : cbStatus[d] = "none" => cbFound'[d] = cbFound[d]
      /\ \A d \in CbRows \ cbShared :
            /\ cbStatus'[d] = "resolved" => cbFound'[d]
            /\ cbFound'[d] => cbStatus'[d] \in {"resolved", "failed"}
  BY <1>1, CbResolvesRow
<1>6. /\ cbRow' \in [CbRows -> CbLines]
      /\ \A c \in CbRows : cbStatus[c] = "none" => cbRow'[c] = CbNobody
      /\ \A X \in CbNames \ NamesOf(cbMem[r]) : CbHolders(cbRow', X) \subseteq CbHolders(cbRow, X)
      /\ \A X \in NamesOf(cbMem[r]) \ (cbRaced \cup cbUnited) : CbSole(cbRow', X)
  BY <1>2, CbSameRows
<1> QED BY <1>2, <1>5, <1>6, CbUpdates

\* The names of a row are written where they differ from those loaded.
LEMMA CbWritesRow ==
    ASSUME CbInv, NEW r \in CbRequests, cbPc[r] \in {"edit", "save"}, cbMem[r].row # 0,
           IF CbExists(cbMem[r].row)
           THEN cbRow' = [cbRow EXCEPT ![cbMem[r].row] =
                             CbWritten(cbMem[r].new, cbMem[r].table[cbMem[r].row], @)]
           ELSE cbRow' = cbRow
    PROVE  /\ cbRow' \in [CbRows -> CbLines]
           /\ \A c \in CbRows : cbStatus[c] = "none" => cbRow'[c] = CbNobody
           /\ \A X \in CbNames \ NamesOf(cbMem[r]) : CbHolders(cbRow', X) \subseteq CbHolders(cbRow, X)
           /\ \A X \in NamesOf(cbMem[r]) \ (cbRaced \cup cbUnited) : CbSole(cbRow', X)
<1> PICK m : m = cbMem[r] OBVIOUS
<1>0. m.row \in CbRows /\ m.new \in CbLines /\ m.table[m.row] \in CbLines
      /\ cbRow[m.row] \in CbLines
  BY DEF CbInv, CbHands, CbTypeOK, CbMemory
<1>1. CASE CbExists(m.row)
  <2> DEFINE row == CbWritten(m.new, m.table[m.row], cbRow[m.row])
  <2>1. cbRow' = [cbRow EXCEPT ![m.row] = row] BY <1>0, <1>1 DEF CbInv, CbTypeOK
  <2>2. row \in CbLines
        /\ \A X \in CbNames : X \in NamesIn(row) =>
              X \in NamesIn(cbRow[m.row])
              \/ (X \in NamesIn(m.new) /\ X \notin NamesIn(m.table[m.row]))
    BY <1>0, CbWrittenIs
  <2> HIDE DEF row
  <2>3. /\ cbRow' \in [CbRows -> CbLines]
        /\ \A X \in CbNames \ NamesOf(cbMem[r]) : CbHolders(cbRow', X) \subseteq CbHolders(cbRow, X)
        /\ \A X \in NamesOf(cbMem[r]) \ (cbRaced \cup cbUnited) : CbSole(cbRow', X)
    BY <1>0, <2>1, <2>2, CbWritesName
  <2>4. \A c \in CbRows : cbStatus[c] = "none" => cbRow'[c] = CbNobody
    BY <1>1, <2>1 DEF CbInv, CbTypeOK, CbRowsOK, CbExists
  <2> QED BY <2>3, <2>4
<1>2. CASE ~CbExists(m.row) BY <1>2, CbSameRows
<1> QED BY <1>1, <1>2

LEMMA CbSameStatus ==
    ASSUME CbInv, UNCHANGED <<cbFound, cbStatus>>
    PROVE  /\ cbFound' \in [CbRows -> BOOLEAN]
           /\ cbStatus' \in [CbRows -> CbStatuses \cup {"none"}]
           /\ \A d \in CbRows \ cbShared :
                 /\ cbStatus'[d] = "resolved" => cbFound'[d]
                 /\ cbFound'[d] => cbStatus'[d] \in {"resolved", "failed"}
BY DEF CbInv, CbTypeOK, ResolvedHasId

LEMMA CbEditKeeps == ASSUME CbInv, NEW r \in CbRequests, CbEdit(r) PROVE CbInv'
<1>1. cbPc[r] = "edit" /\ cbMem[r].row # 0 BY DEF CbEdit, CbInv, CbHands
<1>2. IF CbExists(cbMem[r].row)
      THEN cbRow' = [cbRow EXCEPT ![cbMem[r].row] =
                        CbWritten(cbMem[r].new, cbMem[r].table[cbMem[r].row], @)]
      ELSE cbRow' = cbRow
  BY DEF CbEdit
<1>3. /\ cbRow' \in [CbRows -> CbLines]
      /\ \A c \in CbRows : cbStatus[c] = "none" => cbRow'[c] = CbNobody
      /\ \A X \in CbNames \ NamesOf(cbMem[r]) : CbHolders(cbRow', X) \subseteq CbHolders(cbRow, X)
      /\ \A X \in NamesOf(cbMem[r]) \ (cbRaced \cup cbUnited) : CbSole(cbRow', X)
  BY <1>1, <1>2, CbWritesRow
<1>4. CbClose(r) /\ UNCHANGED <<cbFound, cbStatus, cbUsed, cbObserved>> BY DEF CbEdit
<1> QED BY <1>3, <1>4, CbSameStatus, CbUpdates

LEMMA CbSaveKeeps ==
    ASSUME CbInv, NEW r \in CbRequests, NEW peer \in BOOLEAN, CbSave(r, peer)
    PROVE  CbInv'
<1>0. cbPc[r] = "save" /\ CbClose(r) /\ UNCHANGED cbObserved BY DEF CbSave
<1>1. CASE cbMem[r].row = 0
  <2>1. CbFree # {} /\ CbInsert(cbMem[r].new, peer) BY <1>1 DEF CbSave
  <2> QED BY <1>0, <1>1, <2>1, CbInsertKeeps
<1>2. CASE cbMem[r].row # 0
  <2>1. IF CbExists(cbMem[r].row)
        THEN cbRow' = [cbRow EXCEPT ![cbMem[r].row] =
                          CbWritten(cbMem[r].new, cbMem[r].table[cbMem[r].row], @)]
        ELSE cbRow' = cbRow
    BY <1>2 DEF CbSave, cbTable
  <2>2. /\ cbRow' \in [CbRows -> CbLines]
        /\ \A c \in CbRows : cbStatus[c] = "none" => cbRow'[c] = CbNobody
        /\ \A X \in CbNames \ NamesOf(cbMem[r]) : CbHolders(cbRow', X) \subseteq CbHolders(cbRow, X)
        /\ \A X \in NamesOf(cbMem[r]) \ (cbRaced \cup cbUnited) : CbSole(cbRow', X)
    BY <1>0, <1>2, <2>1, CbWritesRow
  <2>3. cbUsed' = cbUsed BY <1>2 DEF CbSave, cbTable
  <2>4. CbResolution(cbMem[r], TRUE, "resolved") \/ UNCHANGED <<cbFound, cbStatus>>
    BY <1>2 DEF CbSave, cbTable
  <2>5. "resolved" \in CbStatuses BY DEF CbStatuses
  <2>6. /\ cbFound' \in [CbRows -> BOOLEAN]
        /\ cbStatus' \in [CbRows -> CbStatuses \cup {"none"}]
        /\ \A d \in CbRows : cbStatus'[d] # "none" <=> cbStatus[d] # "none"
        /\ \A d \in CbRows : d # cbMem[r].row =>
              cbFound'[d] = cbFound[d] /\ cbStatus'[d] = cbStatus[d]
        /\ \A d \in CbRows : cbStatus[d] = "none" => cbFound'[d] = cbFound[d]
        /\ \A d \in CbRows \ cbShared :
              /\ cbStatus'[d] = "resolved" => cbFound'[d]
              /\ cbFound'[d] => cbStatus'[d] \in {"resolved", "failed"}
    BY <1>2, <2>4, <2>5, CbResolvesRow
  <2> QED BY <1>0, <2>2, <2>3, <2>6, CbUpdates
<1> QED BY <1>1, <1>2

LEMMA CbDeleteKeeps == ASSUME CbInv, NEW c \in CbRows, CbDelete(c) PROVE CbInv'
<1>1. /\ cbRow' = [cbRow EXCEPT ![c] = CbNobody] /\ cbFound' = [cbFound EXCEPT ![c] = FALSE]
      /\ cbStatus' = [cbStatus EXCEPT ![c] = "none"]
      /\ UNCHANGED <<cbUsed, cbPc, cbMem, cbRaced, cbUnited, cbShared>>
  BY DEF CbDelete, cbSessions, cbObserved
<1>2. /\ cbRow'[c] = CbNobody /\ cbFound'[c] = FALSE /\ cbStatus'[c] = "none"
      /\ \A d \in CbRows : d # c => cbRow'[d] = cbRow[d] /\ cbFound'[d] = cbFound[d]
                                    /\ cbStatus'[d] = cbStatus[d]
  BY <1>1 DEF CbInv, CbTypeOK
<1>3. CbTypeOK' BY <1>1, CbNobodyHolds DEF CbInv, CbTypeOK
<1>4. CbRowsOK' BY <1>1, <1>2 DEF CbInv, CbRowsOK, CbExists
<1>5. CbHands' BY <1>1 DEF CbInv, CbHands
<1>6. \A X : CbHolders(cbRow', X) \subseteq CbHolders(cbRow, X)
  <2> SUFFICES ASSUME NEW X, NEW d \in CbHolders(cbRow', X) PROVE d \in CbHolders(cbRow, X)
    OBVIOUS
  <2>1. d \in CbRows /\ X \in NamesIn(cbRow'[d]) BY DEF CbHolders
  <2>2. d # c BY <2>1, <1>2, CbNobodyHolds
  <2> QED BY <2>1, <2>2, <1>2 DEF CbHolders
<1>7. CbSeen' BY <1>1, <1>6 DEF CbInv, CbSeen
<1>8. CbChecked' BY <1>1 DEF CbInv, CbChecked, CbCheckedMem
<1>9. CbUnique' BY <1>1, <1>6 DEF CbInv, CbUnique, CbSole
<1>10. CbTold' BY <1>1, <1>2 DEF CbInv, CbTold, CbExists
<1>11. ResolvedHasId' BY <1>1, <1>2 DEF CbInv, ResolvedHasId
<1> QED BY <1>3, <1>4, <1>5, <1>7, <1>8, <1>9, <1>10, <1>11 DEF CbInv

\* A name that stays in a row is one that the request has left there.
LEMMA CbWrittenStays ==
    ASSUME NEW new \in CbLines, NEW loaded \in CbLines, NEW current \in CbLines,
           NEW X \in CbNames, X \in NamesIn(CbWritten(new, loaded, current)),
           X \in NamesIn(loaded)
    PROVE  X \in NamesIn(new)
<1> DEFINE row == CbWritten(new, loaded, current)
<1>1. row.phone = (IF new.phone = loaded.phone THEN current.phone ELSE new.phone)
      /\ row.username = (IF new.username = loaded.username THEN current.username
                         ELSE new.username)
  BY DEF CbWritten
<1>2. row \in CbLines BY CbWrittenIs
<1>3. X \in NamesIn(row) OBVIOUS
<1> HIDE DEF row
<1>4. CASE X = row.phone
  <2>1. X \in CbPhones /\ X \notin CbUsernames
    BY <1>4, <1>2, CbNamesInLine, ContactBookAssumption
  <2>2. X = loaded.phone BY <2>1, CbNamesInLine
  <2>3. X = new.phone BY <1>1, <1>4, <2>2
  <2> QED BY <2>3, CbNamesInLine
<1>5. CASE X = row.username
  <2>1. X \in CbUsernames /\ X \notin CbPhones
    BY <1>5, <1>2, CbNamesInLine, ContactBookAssumption
  <2>2. X = loaded.username BY <2>1, CbNamesInLine
  <2>3. X = new.username BY <1>1, <1>5, <2>2
  <2> QED BY <2>3, CbNamesInLine
<1> QED BY <1>2, <1>3, <1>4, <1>5, CbNamesInLine

LEMMA CbImportKeeps == ASSUME CbInv, NEW r \in CbRequests, CbImport(r) PROVE CbInv'
<1> PICK m : m = cbMem[r] OBVIOUS
<1> PICK free : free = CbFree OBVIOUS
<1> PICK done : done = CbImported(m.table, free, m.file) OBVIOUS
<1> DEFINE new == done.table  changed == {c \in CbRows : new[c] # m.table[c]}
<1>0. cbPc[r] = "import" /\ CbClose(r) /\ Cardinality(free) >= Len(m.file)
      /\ UNCHANGED <<cbFound, cbRaced, cbShared>>
  BY DEF CbImport
<1>1. CASE ~(\A c \in changed \ free : CbExists(c))
  <2>1. UNCHANGED <<cbRow, cbStatus, cbUsed, cbUnited>> BY <1>1 DEF CbImport
  <2>2. UNCHANGED cbObserved BY <1>0, <2>1 DEF cbObserved
  <2>3. /\ cbRow' \in [CbRows -> CbLines]
        /\ \A c \in CbRows : cbStatus[c] = "none" => cbRow'[c] = CbNobody
        /\ \A X \in CbNames \ NamesOf(cbMem[r]) : CbHolders(cbRow', X) \subseteq CbHolders(cbRow, X)
        /\ \A X \in NamesOf(cbMem[r]) \ (cbRaced \cup cbUnited) : CbSole(cbRow', X)
    BY <2>1, CbSameRows
  <2> QED BY <1>0, <2>1, <2>2, <2>3, CbSameStatus, CbUpdates
<1>2. CASE \A c \in changed \ free : CbExists(c)
  <2>1. /\ cbRow' = [c \in CbRows |-> CbWritten(new[c], m.table[c], cbRow[c])]
        /\ cbStatus' = [c \in CbRows |-> IF c \in changed \cap free THEN "pending"
                                         ELSE cbStatus[c]]
        /\ cbUsed' = cbUsed \cup changed
        /\ cbUnited' = cbUnited \cup done.taken
    BY <1>2 DEF CbImport
  <2>2. m.table \in [CbRows -> CbLines] /\ m.file \in Seq(CbLines) /\ free \in SUBSET CbRows
        /\ m \in CbMemory
    <3>1. m \in CbMemory BY DEF CbInv, CbTypeOK
    <3>2. <<>> \in Seq(CbLines) OBVIOUS
    <3>3. CbFiles \subseteq Seq(CbLines \ {CbNobody}) BY ContactBookAssumption
    <3>4. Seq(CbLines \ {CbNobody}) \subseteq Seq(CbLines) OBVIOUS
    <3> QED BY <3>1, <3>2, <3>3, <3>4 DEF CbMemory, CbFree
  <2>3. /\ new \in [CbRows -> CbLines]
        /\ done.taken \subseteq CbNames
        /\ CbFrom(new, m.table, CbFileNames(m.file))
        /\ \A X \in CbNames \ done.taken :
              (\A c, d \in CbHolders(m.table, X) : c = d) =>
                  \A c, d \in CbHolders(new, X) : c = d
    <3> PICK table : table = m.table OBVIOUS
    <3> PICK file : file = m.file OBVIOUS
    <3>1. table \in [CbRows -> CbLines] /\ free \in SUBSET CbRows /\ file \in Seq(CbLines)
          /\ Cardinality(free) >= Len(file)
      BY <1>0, <2>2
    <3>2. done = CbImported(table, free, file) OBVIOUS
    <3>3. CbImportsWell(CbImported(table, free, file), table, file) BY <3>1, CbImportedKeeps
    <3> QED BY <3>2, <3>3 DEF CbImportsWell
  <2> HIDE DEF new
  <2>4. \A c \in CbRows : new[c] \in CbLines /\ m.table[c] \in CbLines /\ cbRow[c] \in CbLines
    BY <2>2, <2>3 DEF CbInv, CbTypeOK
  <2>5. cbRow' \in [CbRows -> CbLines] BY <2>1, <2>4, CbWrittenIs
  <2>6. NamesOf(m) \subseteq CbNames /\ CbFileNames(m.file) \subseteq NamesOf(m)
    BY <2>2, CbNamesOfNames DEF NamesOf, CbFileNames
  <2>7. ASSUME NEW X \in CbNames, NEW c \in CbHolders(cbRow', X)
        PROVE  \/ c \in CbHolders(cbRow, X)
               \/ c \in CbHolders(new, X) /\ X \in CbFileNames(m.file)
    <3>1. c \in CbRows /\ X \in NamesIn(CbWritten(new[c], m.table[c], cbRow[c]))
      BY <2>1 DEF CbHolders
    <3>2. X \in NamesIn(cbRow[c]) \/ (X \in NamesIn(new[c]) /\ X \notin NamesIn(m.table[c]))
      BY <3>1, <2>4, CbWrittenIs
    <3>3. CASE X \in NamesIn(cbRow[c]) BY <3>1, <3>3 DEF CbHolders
    <3>4. CASE X \in NamesIn(new[c]) /\ X \notin NamesIn(m.table[c])
      <4>1. (X = new[c].phone \/ X = new[c].username)
            /\ X # m.table[c].phone /\ X # m.table[c].username
        BY <3>1, <3>4, <2>4, CbNamesInLine
      <4>2. X \in CbFileNames(m.file) BY <4>1, <3>1, <2>3 DEF CbFrom
      <4> QED BY <4>2, <3>1, <3>4 DEF CbHolders
    <3> QED BY <3>2, <3>3, <3>4
  <2>8. \A X \in CbNames \ NamesOf(m) : CbHolders(cbRow', X) \subseteq CbHolders(cbRow, X)
    BY <2>6, <2>7
  <2>9. ASSUME NEW X \in NamesOf(m) \ (cbRaced \cup cbUnited') PROVE CbSole(cbRow', X)
    <3>0. X \in CbNames /\ X \notin cbUnited /\ X \notin done.taken /\ X \notin cbRaced
      BY <2>1, <2>6
    <3>1. CbSole(m.table, X) BY <1>0, <3>0 DEF CbInv, CbChecked, CbCheckedMem
    <3>2. CbSole(new, X) BY <3>0, <3>1, <2>3 DEF CbSole
    <3>3. CbHolders(cbRow, X) \subseteq CbHolders(m.table, X) BY <3>0, <2>9 DEF CbInv, CbSeen
    <3>4. ASSUME NEW c \in CbHolders(cbRow', X) PROVE c \in CbHolders(new, X)
      <4>1. CASE c \in CbHolders(cbRow, X)
        <5>1. c \in CbRows /\ X \in NamesIn(CbWritten(new[c], m.table[c], cbRow[c]))
          BY <2>1, <3>4 DEF CbHolders
        <5>2. X \in NamesIn(m.table[c]) BY <4>1, <3>3 DEF CbHolders
        <5>3. X \in NamesIn(new[c]) BY <5>1, <5>2, <3>0, <2>4, CbWrittenStays
        <5> QED BY <5>1, <5>3 DEF CbHolders
      <4>2. CASE c \notin CbHolders(cbRow, X) BY <4>2, <3>0, <3>4, <2>7
      <4> QED BY <4>1, <4>2
    <3> QED BY <3>2, <3>4 DEF CbSole
  <2>11. /\ cbFound' \in [CbRows -> BOOLEAN] /\ cbUsed' \subseteq CbRows
         /\ cbStatus' \in [CbRows -> CbStatuses \cup {"none"}] /\ cbUnited' \subseteq CbNames
    BY <1>0, <2>1, <2>3 DEF CbInv, CbTypeOK, CbStatuses
  <2>12. CbRowsOK'
    <3>1. ASSUME NEW c \in CbRows, cbStatus'[c] = "none" PROVE cbRow'[c] = CbNobody
      <4>1. c \notin changed \cap free /\ cbStatus[c] = "none" BY <2>1, <3>1
      <4>2. new[c] = m.table[c] BY <4>1, <1>2 DEF CbExists
      <4>3. cbRow'[c] = cbRow[c] BY <4>2, <2>1, <2>4, CbWrittenIs
      <4> QED BY <4>1, <4>3 DEF CbInv, CbRowsOK, CbExists
    <3>2. ASSUME NEW c \in CbRows \ cbUsed' PROVE cbStatus'[c] = "none" /\ ~cbFound'[c]
      BY <1>0, <2>1 DEF CbInv, CbRowsOK, CbExists
    <3> QED BY <3>1, <3>2 DEF CbRowsOK, CbExists
  <2>13. \A c \in cbUsed : cbStatus'[c] = cbStatus[c] /\ cbFound'[c] = cbFound[c]
    BY <1>0, <2>1 DEF CbInv, CbTypeOK, CbFree
  <2>14. \A c \in CbRows \ cbShared :
             /\ cbStatus'[c] = "resolved" => cbFound'[c]
             /\ cbFound'[c] => cbStatus'[c] \in {"resolved", "failed"}
    BY <1>0, <2>1 DEF CbInv, ResolvedHasId, CbRowsOK, CbFree
  <2>15. cbUsed \subseteq cbUsed' /\ cbUnited \subseteq cbUnited' BY <2>1
  <2> QED BY <1>0, <2>5, <2>8, <2>9, <2>11, <2>12, <2>13, <2>14, <2>15, CbWrites
<1> QED BY <1>1, <1>2

LEMMA CbInitially == CbInit => CbInv
<1> SUFFICES ASSUME CbInit PROVE CbInv OBVIOUS
<1>1. CbTypeOK BY CbForgottenIs, CbNobodyHolds DEF CbInit, CbTypeOK
<1>2. CbRowsOK BY DEF CbInit, CbRowsOK, CbExists
<1>3. \A r \in CbRequests : cbMem[r] = CbForgotten /\ cbPc[r] = "idle" BY DEF CbInit
<1>4. CbHands BY <1>3, CbForgottenIs, CbRowNumbers DEF CbHands
<1>5. CbSeen BY <1>3, CbForgottenIs DEF CbSeen
<1>6. CbChecked BY <1>3 DEF CbChecked, CbCheckedMem
<1>7. CbUnique BY CbNobodyHolds DEF CbInit, CbUnique, CbSole
<1>8. CbTold BY <1>3, CbForgottenIs, CbRowNumbers DEF CbTold
<1>9. ResolvedHasId BY DEF CbInit, ResolvedHasId
<1> QED BY <1>1, <1>2, <1>4, <1>5, <1>6, <1>7, <1>8, <1>9 DEF CbInv

LEMMA CbInvStep == CbInv /\ [CbNext]_cbVars => CbInv'
<1> SUFFICES ASSUME CbInv, [CbNext]_cbVars PROVE CbInv' OBVIOUS
<1>1. CASE UNCHANGED cbVars
  <2>1. UNCHANGED <<cbRow, cbFound, cbStatus, cbUsed, cbPc, cbMem, cbRaced, cbUnited, cbShared>>
    BY <1>1 DEF cbVars, cbTable, cbSessions, cbObserved
  <2>2. CbTypeOK' /\ CbRowsOK' BY <2>1 DEF CbInv, CbTypeOK, CbRowsOK, CbExists
  <2>3. CbHands' /\ CbTold' /\ ResolvedHasId'
    BY <2>1 DEF CbInv, CbHands, CbTold, CbExists, ResolvedHasId
  <2>4. CbSeen' BY <2>1 DEF CbInv, CbSeen
  <2>5. CbUnique' BY <2>1 DEF CbInv, CbUnique, CbSole
  <2>6. CbChecked'
    <3> SUFFICES ASSUME NEW q \in CbRequests PROVE CbCheckedMem(cbPc[q], cbMem[q])'
      BY DEF CbChecked
    <3>1. CbCheckedMem(cbPc[q], cbMem[q]) BY DEF CbInv, CbChecked
    <3>2. CbCheckedMem(cbPc'[q], cbMem'[q]) BY <2>1, <3>1
    <3> QED BY <2>1, <3>2 DEF CbCheckedMem
  <2> QED BY <2>2, <2>3, <2>4, <2>5, <2>6 DEF CbInv
<1>2. CASE CbNext
  <2> HIDE DEF CbInv
  <2> QED BY <1>2, CbBeginCreateKeeps, CbBeginEditKeeps, CbBeginSaveKeeps, CbBeginImportKeeps,
             CbBeginResolveKeeps, CbCreateKeeps, CbEditKeeps, CbImportKeeps, CbSaveKeeps,
             CbResolveKeeps, CbDeleteKeeps DEF CbNext
<1> QED BY <1>1, <1>2

\* Whoever creates, edits, saves, imports, resolves and deletes contacts, a name has one row at
\* most but where two requests raced or an import united two rows, and a contact counts as
\* resolved if and only if it has a Telegram id, but for one that failed since or two requests
\* had in hand at once (find_conflict, import_contacts, resolve_contact).
THEOREM ContactsAreWhoTheySay == CbSpec => []ContactBookHolds
<1>1. CbInv => ContactBookHolds
  <2> SUFFICES ASSUME CbInv PROVE ContactBookHolds OBVIOUS
  <2>1. ASSUME NEW X \in CbNames \ (cbRaced \cup cbUnited)
        PROVE  Cardinality(CbHolders(cbRow, X)) <= 1
    <3>1. CbSole(cbRow, X) BY DEF CbInv, CbUnique
    <3>2. CASE CbHolders(cbRow, X) = {}
      <4>1. Cardinality(CbHolders(cbRow, X)) = 0 BY <3>2, FS_EmptySet
      <4> QED BY <4>1
    <3>3. CASE CbHolders(cbRow, X) # {}
      <4>1. PICK c : CbHolders(cbRow, X) = {c} BY <3>1, <3>3 DEF CbSole
      <4>2. Cardinality(CbHolders(cbRow, X)) = 1 BY <4>1, FS_Singleton
      <4> QED BY <4>2
    <3> QED BY <3>2, <3>3
  <2> QED BY <2>1 DEF ContactBookHolds, NamesAreUnique, CbInv
<1> QED BY <1>1, CbInitially, CbInvStep, PTL DEF CbSpec

\* Every variable of the contacts stays within its type.
THEOREM ContactsTyped == CbSpec => []CbTypeOK
<1>1. CbInv => CbTypeOK BY DEF CbInv
<1> QED BY <1>1, CbInitially, CbInvStep, PTL DEF CbSpec
=============================================================================
