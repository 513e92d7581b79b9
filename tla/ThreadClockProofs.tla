-------------------------- MODULE ThreadClockProofs --------------------------
(***************************************************************************)
(* The vector clocks order the accesses of a taint execution exactly as    *)
(* the calls that pass clocks on do, for any number of threads and any     *)
(* number of calls, as far as the threads have an entry in the clocks.     *)
(***************************************************************************)
EXTENDS ThreadClock, TLAPS

Index == 0 .. ClockSize - 1

Clock == [Index -> Nat]

AccessId == Threads \X Nat

Access == [id : AccessId, clock : Clock, passed : SUBSET AccessId, before : SUBSET AccessId]

States == {NONE, "RUNNABLE", "JOIN_BLOCKED", "COND_BLOCKED", "TERMINATED"}

exists(t) == threadState[t] # NONE

ClockTypeOK ==
  /\ threadState \in [Threads -> States]
  /\ vectorClock \in [Threads -> Clock]
  /\ joinRecord \in [Threads -> SUBSET Threads]
  /\ waitingList \in Seq(Threads)
  /\ calls \in [Threads -> Nat]
  /\ accesses \subseteq Access
  /\ passed \in [Threads -> SUBSET AccessId]
  /\ before \in [Threads -> SUBSET AccessId]

\* Only blocked threads are waited with: each once at the condition, or for
\* one thread that has not ended.
Blocked ==
  /\ \A i \in 1 .. Len(waitingList) : threadState[waitingList[i]] = "COND_BLOCKED"
  /\ \A i, j \in 1 .. Len(waitingList) : waitingList[i] = waitingList[j] => i = j
  /\ \A u, v \in Threads : u \in joinRecord[v] /\ threadState[v] # "TERMINATED" =>
       /\ threadState[u] = "JOIN_BLOCKED"
       /\ \A w \in Threads : u \in joinRecord[w] /\ threadState[w] # "TERMINATED" => w = v

\* Nobody is ahead of a thread in the thread's own entry, and nobody is level
\* with it while it goes on.
OwnEntryLeads ==
  \A a, u \in Threads : a < ClockSize /\ u # a /\ exists(u) =>
    /\ ~ exists(a) => vectorClock[u][a] = 0
    /\ exists(a) => vectorClock[u][a] <= vectorClock[a][a]
    /\ exists(a) /\ threadState[a] # "TERMINATED" => vectorClock[u][a] < vectorClock[a][a]

RecordedIds == {e.id : e \in accesses}

\* A thread's clock has reached the clock of an access exactly when the access
\* was passed on to the thread.
KnownToThreads ==
  /\ \A e \in accesses : exists(e.id[1]) /\ e.id \in passed[e.id[1]]
  /\ \A u \in Threads : exists(u) =>
       /\ passed[u] \subseteq before[u]
       /\ passed[u] \subseteq RecordedIds
       /\ \A e \in accesses :
            /\ e.id \in passed[u] => atMost(e.clock, vectorClock[u])
            /\ /\ e.id[1] < ClockSize
               /\ u # e.id[1]
               /\ e.clock[e.id[1]] <= vectorClock[u][e.id[1]]
               => e.id \in passed[u]

\* The same for the copy of the clock that an access got, and the accesses of
\* one thread are passed on from each to the next.
KnownToAccesses ==
  \A f \in accesses :
    /\ atMost(f.clock, vectorClock[f.id[1]])
    /\ f.passed \subseteq f.before
    /\ f.passed \subseteq RecordedIds
    /\ \A e \in accesses :
         /\ e.id \in f.passed => atMost(e.clock, f.clock)
         /\ /\ e.id[1] < ClockSize
            /\ e.id[1] # f.id[1]
            /\ e.clock[e.id[1]] <= f.clock[e.id[1]]
            => e.id \in f.passed
         /\ e.id[1] = f.id[1] => e = f \/ e.id \in f.passed \/ f.id \in e.passed

ClockInv == ClockTypeOK /\ Blocked /\ OwnEntryLeads /\ KnownToThreads /\ KnownToAccesses

-----------------------------------------------------------------------------
\* Incrementing an entry of a clock.
LEMMA Ticks ==
  ASSUME NEW c \in Clock, NEW t \in Threads, NEW n \in Nat
  PROVE  /\ ticks(c, t, n) \in Clock
         /\ atMost(c, ticks(c, t, n))
         /\ \A i \in Index : i # t => ticks(c, t, n)[i] = c[i]
         /\ t < ClockSize => t \in Index /\ ticks(c, t, n)[t] = c[t] + n
BY ClockAssumption DEF Clock, Index, Threads, ticks, atMost

\* Taking over the larger entries of another clock.
LEMMA Merge ==
  ASSUME NEW c \in Clock, NEW d \in Clock
  PROVE  /\ merge(c, d) \in Clock
         /\ atMost(c, merge(c, d))
         /\ atMost(d, merge(c, d))
         /\ \A i \in Index : /\ merge(c, d)[i] \in {c[i], d[i]}
                             /\ c[i] <= merge(c, d)[i] /\ d[i] <= merge(c, d)[i]
BY ClockAssumption DEF Clock, Index, merge, atMost

\* Comparing clocks is a partial order.
LEMMA AtMostOrder ==
  ASSUME NEW c \in Clock, NEW d \in Clock, NEW e \in Clock
  PROVE  /\ atMost(c, c)
         /\ atMost(c, d) /\ atMost(d, e) => atMost(c, e)
         /\ atMost(c, d) /\ atMost(d, c) => c = d
         /\ \A i \in Index : atMost(c, d) => c[i] <= d[i]
BY ClockAssumption DEF Clock, Index, atMost

\* The fields of a recorded access.
LEMMA AccessFields ==
  ASSUME ClockTypeOK, NEW e \in accesses
  PROVE  /\ e.id \in AccessId /\ e.id[1] \in Threads
         /\ e.clock \in Clock
         /\ e.passed \subseteq AccessId /\ e.before \subseteq AccessId
<1>1. e \in Access
  BY DEF ClockTypeOK
<1>2. QED BY <1>1 DEF Access, AccessId

\* Entry numbers of threads.
LEMMA ThreadIndex ==
  ASSUME NEW a \in Threads, a < ClockSize
  PROVE  a \in Index
BY ClockAssumption DEF Threads, Index

-----------------------------------------------------------------------------
\* What thread u knows after a step comes from threads that existed before it,
\* with their clocks; an entry of its clock is one that such a thread had, or
\* the thread of the entry has told u everything.
Learns(u) ==
  /\ passed'[u] \subseteq before'[u]
  /\ \A x \in passed'[u] : \E s \in Threads :
       exists(s) /\ x \in passed[s] /\ atMost(vectorClock[s], vectorClock'[u])
  /\ \A a \in Threads : a < ClockSize /\ a # u /\ exists(a) =>
       \/ passed[a] \subseteq passed'[u]
       \/ \E s \in Threads : /\ exists(s) /\ s # a
                             /\ passed[s] \subseteq passed'[u]
                             /\ vectorClock'[u][a] = vectorClock[s][a]

\* A step that records no access and where every thread learns in that way
\* keeps clocks and knowledge in agreement.
LEMMA Learning ==
  ASSUME ClockInv, ClockTypeOK', accesses' = accesses,
         \A u \in Threads : exists(u) =>
           /\ exists(u)'
           /\ passed[u] \subseteq passed'[u]
           /\ atMost(vectorClock[u], vectorClock'[u]),
         \A u \in Threads : exists(u)' => Learns(u)
  PROVE  KnownToThreads' /\ KnownToAccesses'
<1>1. ClockTypeOK /\ KnownToThreads /\ KnownToAccesses
  BY DEF ClockInv
<1>2. \A u \in Threads : vectorClock[u] \in Clock /\ vectorClock'[u] \in Clock
  BY <1>1 DEF ClockTypeOK
<1>3. \A e \in accesses : e.id[1] \in Threads /\ e.clock \in Clock
  BY <1>1, AccessFields
<1>4. \A e \in accesses : exists(e.id[1])' /\ e.id \in passed'[e.id[1]]
  BY <1>1, <1>3, Zenon DEF KnownToThreads
<1>5. RecordedIds' = RecordedIds
  BY DEF RecordedIds
<1>6. ASSUME NEW u \in Threads, exists(u)'
      PROVE  passed'[u] \subseteq before'[u] /\ passed'[u] \subseteq RecordedIds
  BY <1>1, <1>6, Zenon DEF Learns, KnownToThreads
<1>7. ASSUME NEW u \in Threads, exists(u)', NEW e \in accesses, e.id \in passed'[u]
      PROVE  atMost(e.clock, vectorClock'[u])
  <2>1. PICK s \in Threads : /\ exists(s) /\ e.id \in passed[s]
                             /\ atMost(vectorClock[s], vectorClock'[u])
    BY <1>7, Zenon DEF Learns
  <2>2. atMost(e.clock, vectorClock[s])
    BY <1>1, <2>1, Zenon DEF KnownToThreads
  <2>3. QED BY <1>2, <1>3, <2>1, <2>2, AtMostOrder
<1>8. ASSUME NEW u \in Threads, exists(u)', NEW e \in accesses, e.id[1] < ClockSize,
             u # e.id[1], e.clock[e.id[1]] <= vectorClock'[u][e.id[1]]
      PROVE  e.id \in passed'[u]
  <2> DEFINE a == e.id[1]
  <2>1. a \in Threads /\ exists(a) /\ e.id \in passed[a]
    BY <1>1, <1>3, Zenon DEF KnownToThreads
  <2> HIDE DEF a
  <2>2. CASE passed[a] \subseteq passed'[u]
    BY <2>1, <2>2
  <2>3. CASE \E s \in Threads : /\ exists(s) /\ s # a
                                /\ passed[s] \subseteq passed'[u]
                                /\ vectorClock'[u][a] = vectorClock[s][a]
    <3>1. PICK s \in Threads : /\ exists(s) /\ s # a
                               /\ passed[s] \subseteq passed'[u]
                               /\ vectorClock'[u][a] = vectorClock[s][a]
      BY <2>3, Zenon
    <3>2. e.id \in passed[s]
      BY <1>1, <1>8, <3>1, Zenon DEF KnownToThreads, a
    <3>3. QED BY <3>1, <3>2
  <2>4. QED BY <1>8, <2>1, <2>2, <2>3, Zenon DEF Learns, a
<1>9. KnownToThreads'
  BY <1>4, <1>5, <1>6, <1>7, <1>8 DEF KnownToThreads
<1>10. ASSUME NEW f \in accesses  PROVE atMost(f.clock, vectorClock'[f.id[1]])
  <2>1. PICK u \in Threads : u = f.id[1]
    BY <1>3
  <2>2. exists(u) /\ f.clock \in Clock /\ atMost(f.clock, vectorClock[u])
    BY <1>1, <1>3, <2>1, Zenon DEF KnownToThreads, KnownToAccesses
  <2>3. atMost(vectorClock[u], vectorClock'[u])
    BY <2>2, Zenon
  <2>4. atMost(f.clock, vectorClock'[u])
    BY <1>2, <2>2, <2>3, AtMostOrder
  <2>5. QED BY <2>1, <2>4
<1>11. KnownToAccesses'
  BY <1>1, <1>5, <1>10 DEF KnownToAccesses
<1>12. QED BY <1>9, <1>11

\* An access records what its thread knows, under the thread's clock.
LEMMA AccessInv ==
  ASSUME ClockInv, NEW t \in Threads, access(t)
  PROVE  ClockInv'
<1>1. ClockTypeOK /\ Blocked /\ OwnEntryLeads /\ KnownToThreads /\ KnownToAccesses
  BY DEF ClockInv
<1> DEFINE id == <<t, calls[t]>>
           new == [id |-> id, clock |-> vectorClock[t], passed |-> passed[t],
                   before |-> before[t]]
<1>2. /\ threadState[t] = "RUNNABLE" /\ exists(t)
      /\ \A e \in accesses : e.id # id
      /\ accesses' = accesses \union {new}
      /\ passed' = [passed EXCEPT ![t] = @ \union {id}]
      /\ before' = [before EXCEPT ![t] = @ \union {id}]
      /\ UNCHANGED <<threadState, vectorClock, joinRecord, waitingList, calls>>
  BY ClockAssumption DEF access, exists
<1>3. /\ id \in AccessId /\ id[1] = t /\ new \in Access
      /\ new.id = id /\ new.clock = vectorClock[t]
      /\ new.passed = passed[t] /\ new.before = before[t]
      /\ \A u \in Threads : vectorClock[u] \in Clock
  BY <1>1 DEF ClockTypeOK, AccessId, Access
<1> HIDE DEF id, new
<1>4. ClockTypeOK'
  BY <1>1, <1>2, <1>3 DEF ClockTypeOK
<1>5. Blocked' /\ OwnEntryLeads'
  BY <1>1, <1>2 DEF Blocked, OwnEntryLeads, exists
<1>6. \A u \in Threads : /\ passed'[u] = IF u = t THEN passed[t] \union {id} ELSE passed[u]
                         /\ before'[u] = IF u = t THEN before[t] \union {id} ELSE before[u]
  BY <1>1, <1>2 DEF ClockTypeOK
<1>7. id \notin RecordedIds /\ RecordedIds' = RecordedIds \union {id}
  BY <1>2, <1>3 DEF RecordedIds
<1>8. \A e \in accesses : e.id[1] \in Threads /\ e.clock \in Clock /\ exists(e.id[1])
  BY <1>1, AccessFields, Zenon DEF KnownToThreads
<1>9. KnownToThreads'
  <2>1. \A e \in accesses' : exists(e.id[1])' /\ e.id \in passed'[e.id[1]]
    BY <1>1, <1>2, <1>3, <1>6, <1>8 DEF KnownToThreads, exists
  <2>2. ASSUME NEW u \in Threads, exists(u)
        PROVE  passed'[u] \subseteq before'[u] /\ passed'[u] \subseteq RecordedIds'
    BY <1>1, <1>6, <1>7, <2>2, Zenon DEF KnownToThreads
  <2>3. ASSUME NEW u \in Threads, exists(u), NEW e \in accesses', e.id \in passed'[u]
        PROVE  atMost(e.clock, vectorClock[u])
    <3>1. CASE e = new
      <4>1. u = t
        BY <1>1, <1>3, <1>6, <1>7, <2>3, <3>1, Zenon DEF KnownToThreads
      <4>2. QED BY <1>3, <3>1, <4>1, AtMostOrder
    <3>2. CASE e \in accesses
      <4>1. e.id \in passed[u]
        BY <1>2, <1>6, <2>3, <3>2
      <4>2. QED BY <1>1, <2>3, <3>2, <4>1, Zenon DEF KnownToThreads
    <3>3. QED BY <1>2, <3>1, <3>2
  <2>4. ASSUME NEW u \in Threads, exists(u), NEW e \in accesses', e.id[1] < ClockSize,
               u # e.id[1], e.clock[e.id[1]] <= vectorClock[u][e.id[1]]
        PROVE  e.id \in passed'[u]
    <3>1. CASE e = new
      <4>1. t < ClockSize /\ u # t /\ vectorClock[t][t] <= vectorClock[u][t]
        BY <1>3, <2>4, <3>1
      <4>2. vectorClock[u][t] < vectorClock[t][t]
        BY <1>1, <1>2, <2>4, <4>1, Zenon DEF OwnEntryLeads
      <4>3. vectorClock[u][t] \in Nat /\ vectorClock[t][t] \in Nat
        BY <1>3, <4>1, ThreadIndex DEF Clock
      <4>4. QED BY <4>1, <4>2, <4>3
    <3>2. CASE e \in accesses
      BY <1>1, <1>6, <2>4, <3>2, Zenon DEF KnownToThreads
    <3>3. QED BY <1>2, <3>1, <3>2
  <2>5. QED BY <1>2, <2>1, <2>2, <2>3, <2>4 DEF KnownToThreads, exists
<1>10. KnownToAccesses'
  <2>1. ASSUME NEW f \in accesses'
        PROVE  /\ atMost(f.clock, vectorClock'[f.id[1]])
               /\ f.passed \subseteq f.before
               /\ f.passed \subseteq RecordedIds
    <3>1. CASE f = new
      BY <1>1, <1>2, <1>3, <3>1, AtMostOrder, Zenon DEF KnownToThreads
    <3>2. CASE f \in accesses
      BY <1>1, <1>2, <3>2 DEF KnownToAccesses
    <3>3. QED BY <1>2, <3>1, <3>2
  <2>2. ASSUME NEW f \in accesses', NEW e \in accesses', e.id \in f.passed
        PROVE  atMost(e.clock, f.clock)
    <3>1. e \in accesses
      BY <1>2, <1>3, <1>7, <2>1, <2>2
    <3>2. CASE f = new
      BY <1>1, <1>2, <1>3, <2>2, <3>1, <3>2, Zenon DEF KnownToThreads
    <3>3. CASE f \in accesses
      BY <1>1, <2>2, <3>1, <3>3 DEF KnownToAccesses
    <3>4. QED BY <1>2, <3>2, <3>3
  <2>3. ASSUME NEW f \in accesses', NEW e \in accesses', e.id[1] < ClockSize,
               e.id[1] # f.id[1], e.clock[e.id[1]] <= f.clock[e.id[1]]
        PROVE  e.id \in f.passed
    <3>1. CASE e \in accesses /\ f \in accesses
      BY <1>1, <2>3, <3>1 DEF KnownToAccesses
    <3>2. CASE e \in accesses /\ f = new
      BY <1>1, <1>2, <1>3, <2>3, <3>2, Zenon DEF KnownToThreads
    <3>3. CASE e = new /\ f \in accesses
      <4> DEFINE u == f.id[1]
      <4>1. /\ u \in Threads /\ exists(u) /\ u # t /\ t < ClockSize
            /\ vectorClock[t][t] <= f.clock[t]
        BY <1>3, <1>8, <2>3, <3>3, Zenon
      <4>2. f.clock \in Clock /\ atMost(f.clock, vectorClock[u])
        BY <1>1, <1>8, <3>3, Zenon DEF KnownToAccesses
      <4> HIDE DEF u
      <4>3. t \in Index
        BY <4>1, ThreadIndex
      <4>4. f.clock[t] <= vectorClock[u][t]
        BY <1>3, <4>1, <4>2, <4>3, AtMostOrder
      <4>5. vectorClock[u][t] < vectorClock[t][t]
        BY <1>1, <1>2, <4>1, Zenon DEF OwnEntryLeads
      <4>6. vectorClock[u][t] \in Nat /\ vectorClock[t][t] \in Nat /\ f.clock[t] \in Nat
        BY <1>3, <4>1, <4>2, <4>3 DEF Clock
      <4>7. QED BY <4>1, <4>4, <4>5, <4>6
    <3>4. QED BY <1>2, <2>3, <3>1, <3>2, <3>3
  <2>4. ASSUME NEW f \in accesses', NEW e \in accesses', e.id[1] = f.id[1]
        PROVE  e = f \/ e.id \in f.passed \/ f.id \in e.passed
    <3>1. CASE e \in accesses /\ f \in accesses
      BY <1>1, <2>4, <3>1 DEF KnownToAccesses
    <3>2. CASE e \in accesses /\ f = new
      BY <1>1, <1>3, <2>4, <3>2, Zenon DEF KnownToThreads
    <3>3. CASE e = new /\ f \in accesses
      BY <1>1, <1>3, <2>4, <3>3, Zenon DEF KnownToThreads
    <3>4. QED BY <1>2, <3>1, <3>2, <3>3
  <2>5. QED BY <1>7, <2>1, <2>2, <2>3, <2>4 DEF KnownToAccesses
<1>11. QED BY <1>4, <1>5, <1>9, <1>10 DEF ClockInv

-----------------------------------------------------------------------------
\* No thread's own entry is overtaken, when an entry that changes comes from
\* another thread that existed, or from the thread itself, which has gone on.
LEMMA Leading ==
  ASSUME ClockInv, ClockTypeOK',
         \A u \in Threads : exists(u) =>
           exists(u)' /\ atMost(vectorClock[u], vectorClock'[u]),
         \A a \in Threads : exists(a)' /\ threadState'[a] # "TERMINATED" =>
           threadState[a] # "TERMINATED",
         \A a \in Threads : a < ClockSize /\ exists(a)' /\ ~ exists(a) =>
           vectorClock'[a][a] > 0,
         \A a, u \in Threads : a < ClockSize /\ u # a /\ exists(u)' =>
           \/ \E s \in Threads : exists(s) /\ s # a /\ vectorClock'[u][a] = vectorClock[s][a]
           \/ exists(a)' /\ vectorClock'[u][a] < vectorClock'[a][a]
           \/ threadState'[a] = "TERMINATED" /\ vectorClock'[u][a] <= vectorClock'[a][a]
  PROVE  OwnEntryLeads'
<1> SUFFICES ASSUME NEW a \in Threads, NEW u \in Threads, a < ClockSize, u # a, exists(u)'
             PROVE  /\ ~ exists(a)' => vectorClock'[u][a] = 0
                    /\ exists(a)' => vectorClock'[u][a] <= vectorClock'[a][a]
                    /\ exists(a)' /\ threadState'[a] # "TERMINATED" =>
                         vectorClock'[u][a] < vectorClock'[a][a]
  BY DEF OwnEntryLeads
<1>1. a \in Index
  BY ThreadIndex
<1>2. \A v \in Threads : vectorClock[v] \in Clock /\ vectorClock'[v] \in Clock
  BY DEF ClockInv, ClockTypeOK
<1>3. \A v \in Threads : vectorClock[v][a] \in Nat /\ vectorClock'[v][a] \in Nat
  BY <1>1, <1>2 DEF Clock
<1>4. exists(a) => vectorClock[a][a] <= vectorClock'[a][a]
  BY <1>1, <1>2, AtMostOrder, Zenon
<1>5. CASE \E s \in Threads : exists(s) /\ s # a /\ vectorClock'[u][a] = vectorClock[s][a]
  <2>1. PICK s \in Threads : exists(s) /\ s # a /\ vectorClock'[u][a] = vectorClock[s][a]
    BY <1>5, Zenon
  <2>2. /\ ~ exists(a) => vectorClock[s][a] = 0
        /\ exists(a) => vectorClock[s][a] <= vectorClock[a][a]
        /\ exists(a) /\ threadState[a] # "TERMINATED" => vectorClock[s][a] < vectorClock[a][a]
    BY <2>1, Zenon DEF ClockInv, OwnEntryLeads
  <2>3. vectorClock[s][a] \in Nat /\ vectorClock[a][a] \in Nat /\ vectorClock'[a][a] \in Nat
    BY <1>3
  <2>4. CASE exists(a)
    <3>1. exists(a)' /\ vectorClock[a][a] <= vectorClock'[a][a]
      BY <1>4, <2>4, Zenon
    <3>2. vectorClock'[u][a] <= vectorClock'[a][a]
      BY <2>1, <2>2, <2>3, <2>4, <3>1
    <3>3. threadState'[a] # "TERMINATED" => vectorClock'[u][a] < vectorClock'[a][a]
      BY <2>1, <2>2, <2>3, <2>4, <3>1
    <3>4. QED BY <3>1, <3>2, <3>3
  <2>5. CASE ~ exists(a)
    <3>1. vectorClock'[u][a] = 0 /\ (exists(a)' => vectorClock'[a][a] > 0)
      BY <2>1, <2>2, <2>5, Zenon
    <3>2. QED BY <2>3, <3>1
  <2>6. QED BY <2>4, <2>5, Zenon
<1>6. CASE exists(a)' /\ vectorClock'[u][a] < vectorClock'[a][a]
  BY <1>3, <1>6
<1>7. CASE threadState'[a] = "TERMINATED" /\ vectorClock'[u][a] <= vectorClock'[a][a]
  BY <1>7, ClockAssumption DEF exists
<1>8. QED BY <1>5, <1>6, <1>7, Zenon

\* A call that only increments the caller's entry.
LEMMA OwnTick ==
  ASSUME ClockInv, ClockTypeOK', NEW t \in Threads, threadState[t] = "RUNNABLE",
         vectorClock' = [vectorClock EXCEPT ![t] = tick(@, t)],
         accesses' = accesses, passed' = passed,
         \A u \in Threads : /\ exists(u)' <=> exists(u)
                            /\ threadState'[u] = "TERMINATED" <=> threadState[u] = "TERMINATED"
                            /\ before[u] \subseteq before'[u]
  PROVE  OwnEntryLeads' /\ KnownToThreads' /\ KnownToAccesses'
<1>1. \A u \in Threads : vectorClock[u] \in Clock
  BY DEF ClockInv, ClockTypeOK
<1>2. \A u \in Threads : vectorClock'[u] = IF u = t THEN ticks(vectorClock[t], t, 1)
                                           ELSE vectorClock[u]
  BY DEF ClockInv, ClockTypeOK, tick
<1>3. \A u \in Threads : atMost(vectorClock[u], vectorClock'[u])
  BY <1>1, <1>2, Ticks, AtMostOrder
<1>4. \A a, u \in Threads : a < ClockSize /\ a # u => vectorClock'[u][a] = vectorClock[u][a]
  BY <1>1, <1>2, Ticks, ThreadIndex
<1>5. OwnEntryLeads'
  BY <1>3, <1>4, Leading, Zenon
<1>6. ASSUME NEW u \in Threads, exists(u)'  PROVE Learns(u)
  <2>1. passed'[u] \subseteq before'[u]
    BY <1>6, Zenon DEF ClockInv, KnownToThreads
  <2>2. QED BY <1>3, <1>4, <1>6, <2>1, Zenon DEF Learns
<1>7. QED BY <1>3, <1>5, <1>6, Learning, Zenon

\* pthread_create: the new thread starts with its creator's clock.
LEMMA CreateInv ==
  ASSUME ClockInv, NEW t \in Threads, create(t)
  PROVE  ClockInv'
<1>1. ClockTypeOK /\ Blocked /\ KnownToThreads /\ OwnEntryLeads
  BY DEF ClockInv
<1>2. PICK n \in Threads :
        /\ threadState[n] = NONE
        /\ threadState' = [threadState EXCEPT ![n] = "RUNNABLE"]
        /\ vectorClock' = [vectorClock EXCEPT ![n] = tick(vectorClock[t], n),
                                              ![t] = tick(@, t)]
        /\ passed' = [passed EXCEPT ![n] = passed[t]]
        /\ before' = [before EXCEPT ![n] = before[t]]
  BY Zenon DEF create
<1>3. /\ threadState[t] = "RUNNABLE" /\ exists(t) /\ n # t
      /\ calls' = [calls EXCEPT ![t] = @ + 1]
      /\ UNCHANGED <<joinRecord, waitingList, accesses>>
  BY <1>2, ClockAssumption DEF create, runs, exists
<1>4. \A u \in Threads : vectorClock[u] \in Clock
  BY <1>1 DEF ClockTypeOK
<1>5. \A u \in Threads :
        /\ threadState'[u] = IF u = n THEN "RUNNABLE" ELSE threadState[u]
        /\ passed'[u] = IF u = n THEN passed[t] ELSE passed[u]
        /\ before'[u] = IF u = n THEN before[t] ELSE before[u]
        /\ vectorClock'[u] = IF u = n THEN ticks(vectorClock[t], n, 1)
                             ELSE IF u = t THEN ticks(vectorClock[t], t, 1)
                             ELSE vectorClock[u]
  BY <1>1, <1>2, <1>3 DEF ClockTypeOK, tick
<1>6. ClockTypeOK'
  <2>1. \A u \in Threads : vectorClock'[u] \in Clock
    BY <1>4, <1>5, Ticks
  <2>2. vectorClock' \in [Threads -> Clock]
    <3>1. vectorClock' = [u \in Threads |-> vectorClock'[u]]
      BY ONLY <1>1, <1>2, Zenon DEF ClockTypeOK
    <3>2. QED BY ONLY <2>1, <3>1
  <2>3. threadState' \in [Threads -> States] /\ calls' \in [Threads -> Nat]
    BY <1>1, <1>2, <1>3 DEF ClockTypeOK, States
  <2>4. passed' \in [Threads -> SUBSET AccessId] /\ before' \in [Threads -> SUBSET AccessId]
    BY <1>1, <1>2 DEF ClockTypeOK
  <2>5. QED BY <1>1, <1>3, <2>2, <2>3, <2>4 DEF ClockTypeOK
<1>7. Blocked'
  BY <1>1, <1>2, <1>3, <1>5, ClockAssumption DEF Blocked, ClockTypeOK
<1>8. ASSUME NEW u \in Threads, exists(u)
      PROVE  exists(u)' /\ atMost(vectorClock[u], vectorClock'[u])
  <2>1. u # n /\ exists(u)'
    BY <1>2, <1>5, <1>8 DEF exists
  <2>2. CASE u = t
    <3>1. vectorClock'[t] = ticks(vectorClock[t], t, 1)
      BY <1>3, <1>5
    <3>2. QED BY <1>4, <2>1, <2>2, <3>1, Ticks
  <2>3. CASE u # t
    <3>1. vectorClock'[u] = vectorClock[u]
      BY <1>5, <2>1, <2>3
    <3>2. QED BY <1>4, <2>1, <3>1, AtMostOrder
  <2>4. QED BY <2>2, <2>3
<1>9. /\ atMost(vectorClock[t], vectorClock'[n])
      /\ \A a \in Threads : a < ClockSize /\ a # n => vectorClock'[n][a] = vectorClock[t][a]
      /\ \A a, u \in Threads : a < ClockSize /\ u # n /\ a # u =>
           vectorClock'[u][a] = vectorClock[u][a]
      /\ n < ClockSize => vectorClock'[n][n] = vectorClock[t][n] + 1
      /\ t < ClockSize => vectorClock'[t][t] = vectorClock[t][t] + 1
  <2>1. /\ vectorClock'[n] = ticks(vectorClock[t], n, 1)
        /\ vectorClock'[t] = ticks(vectorClock[t], t, 1)
        /\ \A u \in Threads : u # n /\ u # t => vectorClock'[u] = vectorClock[u]
    BY ONLY <1>3, <1>5, n \in Threads, t \in Threads
  <2>2. ASSUME NEW u \in Threads
        PROVE  /\ atMost(vectorClock[t], ticks(vectorClock[t], u, 1))
               /\ \A a \in Index : a # u => ticks(vectorClock[t], u, 1)[a] = vectorClock[t][a]
               /\ u < ClockSize => ticks(vectorClock[t], u, 1)[u] = vectorClock[t][u] + 1
    <3>1. vectorClock[t] \in Clock /\ 1 \in Nat
      BY ONLY <1>4, t \in Threads
    <3>2. QED BY ONLY <3>1, u \in Threads, Ticks, ZenonT(60)
  <2>3. /\ atMost(vectorClock[t], vectorClock'[n])
        /\ \A a \in Threads : a < ClockSize /\ a # n => vectorClock'[n][a] = vectorClock[t][a]
        /\ n < ClockSize => vectorClock'[n][n] = vectorClock[t][n] + 1
        /\ t < ClockSize => vectorClock'[t][t] = vectorClock[t][t] + 1
    BY ONLY <2>1, <2>2, ThreadIndex, n \in Threads, t \in Threads
  <2>4. ASSUME NEW a \in Threads, NEW u \in Threads, a < ClockSize, u # n, a # u
        PROVE  vectorClock'[u][a] = vectorClock[u][a]
    BY ONLY <2>1, <2>2, <2>4, ThreadIndex, t \in Threads
  <2>5. QED BY ONLY <2>3, <2>4
<1>10. \A a, u \in Threads : a < ClockSize => vectorClock[u][a] \in Nat
  BY <1>4, ThreadIndex DEF Clock
<1>11. ASSUME NEW a \in Threads, NEW u \in Threads, a < ClockSize, u # a, exists(u)'
       PROVE  \/ \E s \in Threads : exists(s) /\ s # a /\ vectorClock'[u][a] = vectorClock[s][a]
              \/ exists(a)' /\ vectorClock'[u][a] < vectorClock'[a][a]
  <2>1. CASE u # n
    BY <1>5, <1>9, <1>11, <2>1 DEF exists
  <2>2. CASE u = n /\ a # t
    BY <1>3, <1>9, <1>11, <2>2, Zenon
  <2>3. CASE u = n /\ a = t
    <3>1. /\ vectorClock'[n][t] = vectorClock[t][t]
          /\ vectorClock'[t][t] = vectorClock[t][t] + 1
          /\ vectorClock[t][t] \in Nat
      BY <1>3, <1>9, <1>10, <1>11, <2>3
    <3>2. exists(t)'
      BY <1>3, <1>8, Zenon
    <3>3. QED BY <2>3, <3>1, <3>2 DEF exists
  <2>4. QED BY <2>1, <2>2, <2>3, Zenon
<1>12. OwnEntryLeads'
  <2>1. \A a \in Threads : a < ClockSize /\ exists(a)' /\ ~ exists(a) => vectorClock'[a][a] > 0
    BY <1>5, <1>9, <1>10 DEF exists
  <2>2. \A a \in Threads : exists(a)' /\ threadState'[a] # "TERMINATED" =>
          threadState[a] # "TERMINATED"
    BY <1>2, <1>5, ClockAssumption
  <2>3. QED BY <1>6, <1>8, <1>11, <2>1, <2>2, Leading, Zenon
<1>13. ASSUME NEW u \in Threads, exists(u)'  PROVE Learns(u)
  <2>1. CASE u # n
    <3>1. exists(u) /\ passed'[u] = passed[u] /\ before'[u] = before[u]
      BY <1>5, <1>13, <2>1 DEF exists
    <3>2. passed'[u] \subseteq before'[u]
      BY <1>1, <3>1, Zenon DEF KnownToThreads
    <3>3. QED BY <1>8, <1>9, <2>1, <3>1, <3>2, Zenon DEF Learns
  <2>2. CASE u = n
    <3>1. passed'[u] = passed[t] /\ before'[u] = before[t]
      BY <1>5, <2>2
    <3>2. passed'[u] \subseteq before'[u]
      BY <1>1, <1>3, <3>1, Zenon DEF KnownToThreads
    <3>3. QED BY <1>3, <1>9, <2>2, <3>1, <3>2, Zenon DEF Learns
  <2>3. QED BY <2>1, <2>2
<1>14. \A u \in Threads : exists(u) => passed[u] \subseteq passed'[u]
  BY <1>2, <1>5 DEF exists
<1>15. KnownToThreads' /\ KnownToAccesses'
  BY <1>3, <1>6, <1>8, <1>13, <1>14, Learning, Zenon
<1>16. QED BY <1>6, <1>7, <1>12, <1>15 DEF ClockInv

\* Joining: the caller goes on, or is recorded with a thread that goes on.
LEMMA JoinInv ==
  ASSUME ClockInv, NEW t \in Threads, join(t)
  PROVE  ClockInv'
<1>1. ClockTypeOK /\ Blocked
  BY DEF ClockInv
<1>2. /\ threadState[t] = "RUNNABLE"
      /\ calls' = [calls EXCEPT ![t] = @ + 1]
      /\ vectorClock' = [vectorClock EXCEPT ![t] = tick(@, t)]
      /\ UNCHANGED <<waitingList, accesses, passed>>
  BY DEF join, runs
<1>3. PICK u \in Threads \ {t} :
        /\ threadState[u] # NONE
        /\ IF threadState[u] = "TERMINATED"
           THEN /\ before' = [before EXCEPT ![t] = @ \union before[u]]
                /\ UNCHANGED <<threadState, joinRecord>>
           ELSE /\ joinRecord' = [joinRecord EXCEPT ![u] = @ \union {t}]
                /\ threadState' = [threadState EXCEPT ![t] = "JOIN_BLOCKED"]
                /\ UNCHANGED before
  BY DEF join
<1>4. vectorClock' \in [Threads -> Clock] /\ calls' \in [Threads -> Nat]
  <2>1. vectorClock \in [Threads -> Clock] /\ calls \in [Threads -> Nat]
    BY <1>1 DEF ClockTypeOK
  <2>2. tick(vectorClock[t], t) \in Clock
    BY <2>1, Ticks DEF tick
  <2>3. QED BY ONLY <1>2, <2>1, <2>2, t \in Threads
<1>5. CASE threadState[u] = "TERMINATED"
  <2>1. /\ before' = [before EXCEPT ![t] = @ \union before[u]]
        /\ UNCHANGED <<threadState, joinRecord>>
    BY <1>3, <1>5
  <2>2. before' \in [Threads -> SUBSET AccessId] /\ \A v \in Threads : before[v] \subseteq before'[v]
    BY <1>1, <2>1 DEF ClockTypeOK
  <2>3. ClockTypeOK'
    BY <1>1, <1>2, <1>4, <2>1, <2>2 DEF ClockTypeOK
  <2>4. Blocked'
    BY <1>1, <1>2, <2>1 DEF Blocked
  <2>5. OwnEntryLeads' /\ KnownToThreads' /\ KnownToAccesses'
    BY <1>2, <2>1, <2>2, <2>3, OwnTick, Zenon DEF exists
  <2>6. QED BY <2>3, <2>4, <2>5 DEF ClockInv
<1>6. CASE threadState[u] # "TERMINATED"
  <2>1. /\ joinRecord' = [joinRecord EXCEPT ![u] = @ \union {t}]
        /\ threadState' = [threadState EXCEPT ![t] = "JOIN_BLOCKED"]
        /\ before' = before
    BY <1>3, <1>6
  <2>2. /\ threadState' \in [Threads -> States] /\ joinRecord' \in [Threads -> SUBSET Threads]
        /\ \A v \in Threads :
             /\ threadState'[v] = IF v = t THEN "JOIN_BLOCKED" ELSE threadState[v]
             /\ joinRecord'[v] = IF v = u THEN joinRecord[u] \union {t} ELSE joinRecord[v]
    BY <1>1, <2>1 DEF ClockTypeOK, States
  <2>3. ClockTypeOK'
    BY <1>1, <1>2, <1>4, <2>1, <2>2 DEF ClockTypeOK
  <2>4. Blocked'
    <3>1. \A v \in Threads : t \in joinRecord[v] => threadState[v] = "TERMINATED"
      BY <1>1, <1>2 DEF Blocked
    <3>2. /\ \A i \in 1 .. Len(waitingList) : threadState'[waitingList[i]] = "COND_BLOCKED"
          /\ \A i, j \in 1 .. Len(waitingList) : waitingList[i] = waitingList[j] => i = j
      <4>1. \A i \in 1 .. Len(waitingList) : waitingList[i] \in Threads
        BY <1>1 DEF ClockTypeOK
      <4>2. QED BY <1>1, <1>2, <2>2, <4>1 DEF Blocked
    <3>3. ASSUME NEW v \in Threads, NEW w \in Threads, w \in joinRecord'[v],
                 threadState'[v] # "TERMINATED"
          PROVE  /\ threadState'[w] = "JOIN_BLOCKED"
                 /\ \A x \in Threads : w \in joinRecord'[x] /\ threadState'[x] # "TERMINATED"
                      => x = v
      BY <1>1, <1>2, <1>6, <2>2, <3>1, <3>3 DEF Blocked
    <3>4. QED BY <1>2, <3>2, <3>3 DEF Blocked
  <2>5. OwnEntryLeads' /\ KnownToThreads' /\ KnownToAccesses'
    <3>1. \A v \in Threads :
            /\ exists(v)' <=> exists(v)
            /\ threadState'[v] = "TERMINATED" <=> threadState[v] = "TERMINATED"
      BY <1>2, <2>2, ClockAssumption DEF exists
    <3>2. QED BY <1>2, <2>1, <2>3, <3>1, OwnTick, Zenon
  <2>6. QED BY <2>3, <2>4, <2>5 DEF ClockInv
<1>7. QED BY <1>5, <1>6

\* pthread_cond_wait.
LEMMA WaitInv ==
  ASSUME ClockInv, NEW t \in Threads, wait(t)
  PROVE  ClockInv'
<1>1. ClockTypeOK /\ Blocked
  BY DEF ClockInv
<1>2. /\ threadState[t] = "RUNNABLE"
      /\ calls' = [calls EXCEPT ![t] = @ + 1]
      /\ threadState' = [threadState EXCEPT ![t] = "COND_BLOCKED"]
      /\ waitingList' = Append(waitingList, t)
      /\ vectorClock' = [vectorClock EXCEPT ![t] = tick(@, t)]
      /\ UNCHANGED <<joinRecord, accesses, passed, before>>
  BY DEF wait, runs
<1>3. vectorClock' \in [Threads -> Clock] /\ calls' \in [Threads -> Nat]
  BY <1>1, <1>2, Ticks DEF ClockTypeOK, tick
<1>4. /\ threadState' \in [Threads -> States]
      /\ \A v \in Threads : threadState'[v] = IF v = t THEN "COND_BLOCKED" ELSE threadState[v]
  BY <1>1, <1>2 DEF ClockTypeOK, States
<1>5. waitingList \in Seq(Threads) /\ waitingList' \in Seq(Threads)
  BY <1>1, <1>2 DEF ClockTypeOK
<1>6. ClockTypeOK'
  BY <1>1, <1>2, <1>3, <1>4, <1>5 DEF ClockTypeOK
<1>7. Blocked'
  <2>1. /\ Len(waitingList) \in Nat /\ Len(waitingList') = Len(waitingList) + 1
        /\ \A i \in 1 .. Len(waitingList) : /\ waitingList'[i] = waitingList[i]
                                            /\ waitingList[i] \in Threads
        /\ waitingList'[Len(waitingList) + 1] = t
    BY <1>2, <1>5
  <2>2. ASSUME NEW i \in 1 .. Len(waitingList')
        PROVE  \/ i \in 1 .. Len(waitingList)
               \/ i = Len(waitingList) + 1
    BY <2>1
  <2>3. \A i \in 1 .. Len(waitingList) : waitingList[i] # t /\ threadState[waitingList[i]] = "COND_BLOCKED"
    BY <1>1, <1>2 DEF Blocked
  <2>4. \A i \in 1 .. Len(waitingList') : threadState'[waitingList'[i]] = "COND_BLOCKED"
    BY <1>4, <2>1, <2>2, <2>3
  <2>5. ASSUME NEW i \in 1 .. Len(waitingList'), NEW j \in 1 .. Len(waitingList'),
               waitingList'[i] = waitingList'[j]
        PROVE  i = j
    BY <1>1, <2>1, <2>2, <2>3, <2>5 DEF Blocked
  <2>6. ASSUME NEW v \in Threads, NEW w \in Threads, w \in joinRecord[v],
               threadState'[v] # "TERMINATED"
        PROVE  /\ threadState'[w] = "JOIN_BLOCKED"
               /\ \A x \in Threads : w \in joinRecord[x] /\ threadState'[x] # "TERMINATED"
                    => x = v
    BY <1>1, <1>2, <1>4, <2>6 DEF Blocked
  <2>7. QED BY <1>2, <2>4, <2>5, <2>6 DEF Blocked
<1>8. \A v \in Threads :
        /\ exists(v)' <=> exists(v)
        /\ threadState'[v] = "TERMINATED" <=> threadState[v] = "TERMINATED"
  BY <1>2, <1>4, ClockAssumption DEF exists
<1>9. OwnEntryLeads' /\ KnownToThreads' /\ KnownToAccesses'
  BY <1>2, <1>6, <1>8, OwnTick, Zenon
<1>10. QED BY <1>6, <1>7, <1>9 DEF ClockInv

\* The end of a thread: those that wait for it take over its clock.
LEMMA EndInv ==
  ASSUME ClockInv, NEW t \in Threads, end(t)
  PROVE  ClockInv'
<1>1. ClockTypeOK /\ Blocked /\ KnownToThreads /\ OwnEntryLeads
  BY DEF ClockInv
<1> DEFINE J == joinRecord[t]
<1>2. /\ threadState[t] = "RUNNABLE" /\ exists(t)
      /\ UNCHANGED <<joinRecord, waitingList, calls, accesses>>
      /\ threadState' = [u \in Threads |->
           IF u = t THEN "TERMINATED" ELSE IF u \in J THEN "RUNNABLE" ELSE threadState[u]]
      /\ vectorClock' = [u \in Threads |->
           IF u \in J THEN merge(vectorClock[u], vectorClock[t]) ELSE vectorClock[u]]
      /\ passed' = [u \in Threads |-> IF u \in J THEN passed[u] \union passed[t] ELSE passed[u]]
      /\ before' = [u \in Threads |-> IF u \in J THEN before[u] \union before[t] ELSE before[u]]
  BY ClockAssumption DEF end, exists
<1>3. \A u \in Threads : u \in J => u # t /\ threadState[u] = "JOIN_BLOCKED"
  BY <1>1, <1>2 DEF Blocked
<1> HIDE DEF J
<1>4. \A u \in Threads : vectorClock[u] \in Clock
  BY <1>1 DEF ClockTypeOK
<1>5. ClockTypeOK'
  <2>1. \A u \in Threads : vectorClock'[u] \in Clock
    BY <1>2, <1>4, Merge
  <2>2. vectorClock' \in [Threads -> Clock]
    BY <1>2, <2>1
  <2>3. threadState' \in [Threads -> States]
    BY <1>1, <1>2 DEF ClockTypeOK, States
  <2>4. passed' \in [Threads -> SUBSET AccessId] /\ before' \in [Threads -> SUBSET AccessId]
    BY <1>1, <1>2 DEF ClockTypeOK
  <2>5. QED BY <1>1, <1>2, <2>2, <2>3, <2>4 DEF ClockTypeOK
<1>6. Blocked'
  <2>1. \A i \in 1 .. Len(waitingList) : waitingList[i] \in Threads
    BY <1>1 DEF ClockTypeOK
  <2>2. \A i \in 1 .. Len(waitingList) : threadState'[waitingList[i]] = "COND_BLOCKED"
    BY <1>1, <1>2, <1>3, <2>1 DEF Blocked
  <2>3. ASSUME NEW v \in Threads, NEW w \in Threads, w \in joinRecord[v],
               threadState'[v] # "TERMINATED"
        PROVE  /\ threadState'[w] = "JOIN_BLOCKED"
               /\ \A x \in Threads : w \in joinRecord[x] /\ threadState'[x] # "TERMINATED"
                    => x = v
    <3>1. v # t /\ threadState[v] # "TERMINATED"
      BY <1>2, <1>3, <2>3
    <3>2. /\ threadState[w] = "JOIN_BLOCKED"
          /\ \A x \in Threads : w \in joinRecord[x] /\ threadState[x] # "TERMINATED" => x = v
      BY <1>1, <2>3, <3>1 DEF Blocked
    <3>3. w \notin J /\ w # t
      BY <1>2, <3>1, <3>2 DEF J
    <3>4. \A x \in Threads : threadState'[x] # "TERMINATED" => threadState[x] # "TERMINATED"
      BY <1>2, <1>3
    <3>5. QED BY <1>2, <3>2, <3>3, <3>4
  <2>4. QED BY <1>1, <1>2, <2>2, <2>3 DEF Blocked
<1>7. ASSUME NEW u \in Threads, u \in J
      PROVE  /\ atMost(vectorClock[u], vectorClock'[u]) /\ atMost(vectorClock[t], vectorClock'[u])
             /\ \A a \in Threads : a < ClockSize =>
                  vectorClock'[u][a] \in {vectorClock[u][a], vectorClock[t][a]}
  BY <1>2, <1>4, <1>7, Merge, ThreadIndex
<1>8. \A u \in Threads : exists(u)' <=> exists(u)
  BY <1>2, <1>3, ClockAssumption DEF exists
<1>9. \A u \in Threads : u \notin J => vectorClock'[u] = vectorClock[u]
  BY <1>2
<1>10. \A u \in Threads : atMost(vectorClock[u], vectorClock'[u]) /\ passed[u] \subseteq passed'[u]
  BY <1>2, <1>4, <1>7, <1>9, AtMostOrder
<1>11. ASSUME NEW a \in Threads, NEW u \in Threads, a < ClockSize, u # a, exists(u)'
       PROVE  \/ \E s \in Threads : exists(s) /\ s # a /\ vectorClock'[u][a] = vectorClock[s][a]
              \/ threadState'[a] = "TERMINATED" /\ vectorClock'[u][a] <= vectorClock'[a][a]
  <2>1. CASE vectorClock'[u][a] = vectorClock[u][a]
    BY <1>8, <1>11, <2>1, Zenon
  <2>2. CASE vectorClock'[u][a] = vectorClock[t][a] /\ a # t
    BY <1>2, <2>2, Zenon
  <2>3. CASE vectorClock'[u][a] = vectorClock[t][a] /\ a = t
    <3>1. vectorClock'[t] = vectorClock[t] /\ threadState'[t] = "TERMINATED"
      BY <1>2, <1>3, <1>9
    <3>2. vectorClock[t][t] \in Nat
      BY <1>4, <1>11, <2>3, ThreadIndex DEF Clock
    <3>3. threadState'[a] = "TERMINATED" /\ vectorClock'[u][a] <= vectorClock'[a][a]
      BY <2>3, <3>1, <3>2
    <3>4. QED BY <3>3, Zenon
  <2>4. QED BY <1>7, <1>9, <1>11, <2>1, <2>2, <2>3, Zenon
<1>12. OwnEntryLeads'
  <2>1. \A a \in Threads : threadState'[a] # "TERMINATED" => threadState[a] # "TERMINATED"
    BY <1>2, <1>3
  <2>2. QED BY <1>5, <1>8, <1>10, <1>11, <2>1, Leading, Zenon
<1>13. ASSUME NEW u \in Threads, exists(u)'  PROVE Learns(u)
  <2>0. exists(u) /\ passed[u] \subseteq before[u] /\ passed[t] \subseteq before[t]
    BY <1>1, <1>2, <1>8, <1>13, Zenon DEF KnownToThreads
  <2>1. CASE u \notin J
    <3>1. passed'[u] = passed[u] /\ before'[u] = before[u] /\ vectorClock'[u] = vectorClock[u]
      BY <1>2, <2>1
    <3>2. QED BY <1>10, <2>0, <3>1, Zenon DEF Learns
  <2>2. CASE u \in J
    <3>1. passed'[u] = passed[u] \union passed[t] /\ before'[u] = before[u] \union before[t]
      BY <1>2, <2>2
    <3>2. \A x \in passed'[u] : \E s \in Threads :
            exists(s) /\ x \in passed[s] /\ atMost(vectorClock[s], vectorClock'[u])
      BY <1>2, <1>7, <2>0, <2>2, <3>1, Zenon
    <3>3. ASSUME NEW a \in Threads, a < ClockSize, a # u
          PROVE  \/ passed[a] \subseteq passed'[u]
                 \/ \E s \in Threads : /\ exists(s) /\ s # a
                                       /\ passed[s] \subseteq passed'[u]
                                       /\ vectorClock'[u][a] = vectorClock[s][a]
      <4>1. CASE a = t
        BY <3>1, <4>1, Zenon
      <4>2. CASE a # t
        BY <1>2, <1>7, <2>0, <2>2, <3>1, <3>3, <4>2, Zenon
      <4>3. QED BY <4>1, <4>2, Zenon
    <3>4. QED BY <2>0, <3>1, <3>2, <3>3, Zenon DEF Learns
  <2>3. QED BY <2>1, <2>2
<1>14. KnownToThreads' /\ KnownToAccesses'
  BY <1>2, <1>5, <1>8, <1>10, <1>13, Learning, Zenon
<1>15. QED BY <1>5, <1>6, <1>12, <1>14 DEF ClockInv

\* Waking threads that wait at the condition.
LEMMA WakeInv ==
  ASSUME ClockInv, NEW t \in Threads, threadState[t] = "RUNNABLE",
         calls' = [calls EXCEPT ![t] = @ + 1],
         UNCHANGED <<joinRecord, accesses>>,
         NEW released \in Seq(Threads),
         \A i \in 1 .. Len(released) : threadState[released[i]] = "COND_BLOCKED",
         wake(t, released),
         waitingList' \in Seq(Threads),
         \A i \in 1 .. Len(waitingList') :
           /\ threadState[waitingList'[i]] = "COND_BLOCKED"
           /\ \A j \in 1 .. Len(released) : released[j] # waitingList'[i],
         \A i, j \in 1 .. Len(waitingList') : waitingList'[i] = waitingList'[j] => i = j
  PROVE  ClockInv'
<1> DEFINE n == Len(released)
           woken == {released[i] : i \in 1 .. n}
           place(u) == CHOOSE i \in 1 .. n : released[i] = u
           told(u) == ticks(vectorClock[t], t, place(u) - 1)
<1>1. ClockTypeOK /\ Blocked /\ OwnEntryLeads /\ KnownToThreads
  BY DEF ClockInv
<1>2. /\ threadState' = [u \in Threads |-> IF u \in woken THEN "RUNNABLE" ELSE threadState[u]]
      /\ vectorClock' = [u \in Threads |->
           IF u = t THEN ticks(vectorClock[t], t, n + 1)
           ELSE IF u \in woken THEN merge(vectorClock[u], told(u)) ELSE vectorClock[u]]
      /\ passed' = [u \in Threads |-> IF u \in woken THEN passed[u] \union passed[t] ELSE passed[u]]
      /\ before' = [u \in Threads |-> IF u \in woken THEN before[u] \union before[t] ELSE before[u]]
  BY DEF wake
<1>3. n \in Nat
  OBVIOUS
<1>4. \A u \in woken : u \in Threads /\ u # t /\ threadState[u] = "COND_BLOCKED"
  OBVIOUS
<1>5. ASSUME NEW u \in woken
      PROVE  place(u) \in 1 .. n
  <2>1. \E i \in 1 .. n : released[i] = u
    OBVIOUS
  <2>2. QED BY <2>1
<1> HIDE DEF n, place
<1>6. exists(t) /\ vectorClock[t] \in Clock /\ \A u \in Threads : vectorClock[u] \in Clock
  BY <1>1, ClockAssumption DEF ClockTypeOK, exists
<1>7. ASSUME NEW u \in woken
      PROVE  /\ told(u) \in Clock
             /\ atMost(vectorClock[t], told(u))
             /\ \A a \in Threads : a < ClockSize /\ a # t => told(u)[a] = vectorClock[t][a]
             /\ t < ClockSize => told(u)[t] = vectorClock[t][t] + (place(u) - 1)
  <2>1. PICK m \in Nat : m = place(u) - 1
    BY <1>3, <1>5
  <2>2. told(u) = ticks(vectorClock[t], t, m)
    BY <2>1
  <2> HIDE DEF told, woken
  <2>3. /\ told(u) \in Clock
        /\ atMost(vectorClock[t], told(u))
        /\ \A a \in Index : a # t => told(u)[a] = vectorClock[t][a]
        /\ t < ClockSize => told(u)[t] = vectorClock[t][t] + m
    <3>1. /\ ticks(vectorClock[t], t, m) \in Clock
          /\ atMost(vectorClock[t], ticks(vectorClock[t], t, m))
          /\ \A a \in Index : a # t => ticks(vectorClock[t], t, m)[a] = vectorClock[t][a]
          /\ t < ClockSize => ticks(vectorClock[t], t, m)[t] = vectorClock[t][t] + m
      BY ONLY <1>6, m \in Nat, t \in Threads, Ticks, Zenon
    <3>2. QED BY ONLY <2>2, <3>1
  <2>4. t < ClockSize => told(u)[t] = vectorClock[t][t] + (place(u) - 1)
    BY <2>1, <2>3
  <2>5. QED BY <2>3, <2>4, ThreadIndex
<1> HIDE DEF woken, told
<1>8. /\ vectorClock'[t] = ticks(vectorClock[t], t, n + 1)
      /\ vectorClock'[t] \in Clock
      /\ atMost(vectorClock[t], vectorClock'[t])
      /\ \A a \in Threads : a < ClockSize /\ a # t => vectorClock'[t][a] = vectorClock[t][a]
      /\ t < ClockSize => vectorClock'[t][t] = vectorClock[t][t] + (n + 1)
  <2>1. vectorClock'[t] = ticks(vectorClock[t], t, n + 1)
    BY <1>2
  <2>2. PICK m \in Nat : m = n + 1
    BY <1>3
  <2>3. /\ vectorClock'[t] \in Clock
        /\ atMost(vectorClock[t], vectorClock'[t])
        /\ \A a \in Index : a # t => vectorClock'[t][a] = vectorClock[t][a]
        /\ t < ClockSize => vectorClock'[t][t] = vectorClock[t][t] + m
    <3>1. vectorClock'[t] = ticks(vectorClock[t], t, m)
      BY <2>1, <2>2
    <3>2. /\ ticks(vectorClock[t], t, m) \in Clock
          /\ atMost(vectorClock[t], ticks(vectorClock[t], t, m))
          /\ \A a \in Index : a # t => ticks(vectorClock[t], t, m)[a] = vectorClock[t][a]
          /\ t < ClockSize => ticks(vectorClock[t], t, m)[t] = vectorClock[t][t] + m
      BY ONLY <1>6, m \in Nat, t \in Threads, Ticks, Zenon
    <3>3. QED BY ONLY <3>1, <3>2
  <2>4. t < ClockSize => vectorClock'[t][t] = vectorClock[t][t] + (n + 1)
    BY <2>2, <2>3
  <2>5. QED BY <2>1, <2>3, <2>4, ThreadIndex
<1>9. ASSUME NEW u \in Threads, u \in woken
      PROVE  /\ vectorClock'[u] \in Clock
             /\ atMost(vectorClock[u], vectorClock'[u]) /\ atMost(vectorClock[t], vectorClock'[u])
             /\ \A a \in Threads : a < ClockSize =>
                  vectorClock'[u][a] \in {vectorClock[u][a], told(u)[a]}
  <2>1. vectorClock'[u] = merge(vectorClock[u], told(u))
    BY <1>2, <1>4, <1>9
  <2>2. told(u) \in Clock /\ atMost(vectorClock[t], told(u))
    BY <1>7, <1>9
  <2>3. /\ vectorClock'[u] \in Clock
        /\ atMost(vectorClock[u], vectorClock'[u]) /\ atMost(told(u), vectorClock'[u])
        /\ \A i \in Index : vectorClock'[u][i] \in {vectorClock[u][i], told(u)[i]}
    BY <1>6, <2>1, <2>2, Merge
  <2>4. atMost(vectorClock[t], vectorClock'[u])
    BY <1>6, <2>2, <2>3, AtMostOrder
  <2>5. QED BY <2>3, <2>4, ThreadIndex
<1>10. \A u \in Threads : u # t /\ u \notin woken => vectorClock'[u] = vectorClock[u]
  BY <1>2
<1>11. \A u \in Threads : /\ vectorClock'[u] \in Clock
                          /\ atMost(vectorClock[u], vectorClock'[u])
                          /\ passed[u] \subseteq passed'[u]
  BY <1>2, <1>6, <1>8, <1>9, <1>10, AtMostOrder
<1>12. ClockTypeOK'
  <2>1. vectorClock' \in [Threads -> Clock]
    BY <1>2, <1>11
  <2>2. threadState' \in [Threads -> States]
    BY <1>1, <1>2 DEF ClockTypeOK, States
  <2>3. passed' \in [Threads -> SUBSET AccessId] /\ before' \in [Threads -> SUBSET AccessId]
    BY <1>1, <1>2 DEF ClockTypeOK
  <2>4. calls' \in [Threads -> Nat]
    BY <1>1 DEF ClockTypeOK
  <2>5. QED BY <1>1, <2>1, <2>2, <2>3, <2>4 DEF ClockTypeOK
<1>13. Blocked'
  <2>1. \A i \in 1 .. Len(waitingList') : waitingList'[i] \in Threads /\ waitingList'[i] \notin woken
    BY DEF woken, n
  <2>2. \A i \in 1 .. Len(waitingList') : threadState'[waitingList'[i]] = "COND_BLOCKED"
    BY <1>2, <2>1
  <2>3. \A u \in Threads : /\ threadState'[u] = "TERMINATED" <=> threadState[u] = "TERMINATED"
                           /\ threadState[u] = "JOIN_BLOCKED" => threadState'[u] = "JOIN_BLOCKED"
    BY <1>2, <1>4
  <2>4. QED BY <1>1, <2>2, <2>3 DEF Blocked
<1>14. \A u \in Threads : exists(u)' <=> exists(u)
  BY <1>2, <1>4, ClockAssumption DEF exists
<1>15. ASSUME NEW a \in Threads, NEW u \in Threads, a < ClockSize, u # a, exists(u)'
       PROVE  \/ \E s \in Threads : exists(s) /\ s # a /\ vectorClock'[u][a] = vectorClock[s][a]
              \/ exists(a)' /\ vectorClock'[u][a] < vectorClock'[a][a]
  <2>1. CASE vectorClock'[u][a] = vectorClock[u][a]
    BY <1>14, <1>15, <2>1, Zenon
  <2>2. CASE u \in woken /\ vectorClock'[u][a] = told(u)[a] /\ a # t
    <3>1. vectorClock'[u][a] = vectorClock[t][a]
      BY <1>7, <1>15, <2>2
    <3>2. QED BY <1>6, <2>2, <3>1, Zenon
  <2>3. CASE u \in woken /\ vectorClock'[u][a] = told(u)[a] /\ a = t
    <3>1. /\ vectorClock'[u][a] = vectorClock[t][t] + (place(u) - 1)
          /\ vectorClock'[a][a] = vectorClock[t][t] + (n + 1)
      BY <1>7, <1>8, <1>15, <2>3
    <3>2. vectorClock[t][t] \in Nat
      BY <1>6, <1>15, <2>3, ThreadIndex DEF Clock
    <3>3. place(u) \in 1 .. n
      BY <1>5, <2>3
    <3>4. vectorClock'[u][a] < vectorClock'[a][a]
      BY <1>3, <3>1, <3>2, <3>3
    <3>5. exists(a)'
      BY <1>6, <1>14, <2>3 DEF exists
    <3>6. QED BY <3>4, <3>5, Zenon
  <2>4. QED BY <1>8, <1>9, <1>10, <1>15, <2>1, <2>2, <2>3, Zenon
<1>16. OwnEntryLeads'
  <2>1. \A a \in Threads : threadState'[a] # "TERMINATED" => threadState[a] # "TERMINATED"
    BY <1>2, <1>4
  <2>2. QED BY <1>11, <1>12, <1>14, <1>15, <2>1, Leading, Zenon
<1>17. ASSUME NEW u \in Threads, exists(u)'  PROVE Learns(u)
  <2>0. exists(u) /\ passed[u] \subseteq before[u] /\ passed[t] \subseteq before[t]
    BY <1>1, <1>6, <1>14, <1>17, Zenon DEF KnownToThreads
  <2>1. CASE u \notin woken
    <3>1. passed'[u] = passed[u] /\ before'[u] = before[u]
      BY <1>2, <2>1
    <3>2. \A a \in Threads : a < ClockSize /\ a # u => vectorClock'[u][a] = vectorClock[u][a]
      BY <1>8, <1>10, <2>1
    <3>3. QED BY <1>11, <2>0, <3>1, <3>2, Zenon DEF Learns
  <2>2. CASE u \in woken
    <3>1. passed'[u] = passed[u] \union passed[t] /\ before'[u] = before[u] \union before[t]
      BY <1>2, <2>2
    <3>2. \A x \in passed'[u] : \E s \in Threads :
            exists(s) /\ x \in passed[s] /\ atMost(vectorClock[s], vectorClock'[u])
      BY <1>6, <1>9, <2>0, <2>2, <3>1, Zenon
    <3>3. ASSUME NEW a \in Threads, a < ClockSize, a # u
          PROVE  \/ passed[a] \subseteq passed'[u]
                 \/ \E s \in Threads : /\ exists(s) /\ s # a
                                       /\ passed[s] \subseteq passed'[u]
                                       /\ vectorClock'[u][a] = vectorClock[s][a]
      <4>1. CASE a = t
        BY <3>1, <4>1, Zenon
      <4>2. CASE a # t
        <5>1. vectorClock'[u][a] \in {vectorClock[u][a], told(u)[a]}
          BY <1>9, <2>2, <3>3
        <5>2. told(u)[a] = vectorClock[t][a]
          BY <1>7, <2>2, <3>3, <4>2
        <5>3. CASE vectorClock'[u][a] = vectorClock[u][a]
          BY <2>0, <3>1, <3>3, <5>3, Zenon
        <5>4. CASE vectorClock'[u][a] = vectorClock[t][a]
          BY <1>6, <3>1, <4>2, <5>4, Zenon
        <5>5. QED BY <5>1, <5>2, <5>3, <5>4, Zenon
      <4>3. QED BY <4>1, <4>2, Zenon
    <3>4. QED BY <2>0, <3>1, <3>2, <3>3, Zenon DEF Learns
  <2>3. QED BY <2>1, <2>2
<1>18. KnownToThreads' /\ KnownToAccesses'
  BY <1>11, <1>12, <1>14, <1>17, Learning, Zenon
<1>19. QED BY <1>12, <1>13, <1>16, <1>18 DEF ClockInv

\* pthread_cond_signal wakes the first thread that waits.
LEMMA SignalInv ==
  ASSUME ClockInv, NEW t \in Threads, signal(t)
  PROVE  ClockInv'
<1> DEFINE released == IF waitingList = <<>> THEN <<>> ELSE <<Head(waitingList)>>
<1>1. ClockTypeOK /\ Blocked /\ waitingList \in Seq(Threads)
  BY DEF ClockInv, ClockTypeOK
<1>2. /\ threadState[t] = "RUNNABLE"
      /\ calls' = [calls EXCEPT ![t] = @ + 1]
      /\ wake(t, released)
      /\ waitingList' = IF waitingList = <<>> THEN <<>> ELSE Tail(waitingList)
      /\ UNCHANGED <<joinRecord, accesses>>
  BY DEF signal, runs
<1>3. CASE waitingList = <<>>
  <2>1. waitingList' = <<>> /\ released = <<>>
    BY <1>2, <1>3
  <2>2. /\ released \in Seq(Threads) /\ waitingList' \in Seq(Threads)
        /\ Len(waitingList') = 0 /\ Len(released) = 0
    BY <2>1
  <2> HIDE DEF released
  <2>3. 1 .. Len(waitingList') = {} /\ 1 .. Len(released) = {}
    BY <2>2
  <2>4. /\ \A i \in 1 .. Len(released) : threadState[released[i]] = "COND_BLOCKED"
        /\ \A i \in 1 .. Len(waitingList') :
             /\ threadState[waitingList'[i]] = "COND_BLOCKED"
             /\ \A j \in 1 .. Len(released) : released[j] # waitingList'[i]
        /\ \A i, j \in 1 .. Len(waitingList') : waitingList'[i] = waitingList'[j] => i = j
    BY <2>3
  <2>5. QED BY <1>2, <2>2, <2>4, WakeInv, Zenon
<1>4. CASE waitingList # <<>>
  <2>1. waitingList' = Tail(waitingList) /\ released = <<Head(waitingList)>>
    BY <1>2, <1>4
  <2> HIDE DEF released
  <2>2. /\ Len(waitingList) \in Nat \ {0}
        /\ \A i \in 1 .. Len(waitingList) : /\ waitingList[i] \in Threads
                                            /\ threadState[waitingList[i]] = "COND_BLOCKED"
        /\ \A i, j \in 1 .. Len(waitingList) : waitingList[i] = waitingList[j] => i = j
    BY <1>1, <1>4 DEF Blocked
  <2>3. /\ released \in Seq(Threads) /\ Len(released) = 1 /\ released[1] = waitingList[1]
        /\ waitingList' \in Seq(Threads) /\ Len(waitingList') = Len(waitingList) - 1
        /\ \A i \in 1 .. Len(waitingList') : waitingList'[i] = waitingList[i + 1]
    BY <1>1, <1>4, <2>1, <2>2
  <2>4. \A i \in 1 .. Len(waitingList') : i + 1 \in 1 .. Len(waitingList) /\ i + 1 # 1
    BY <2>2, <2>3
  <2>5. \A i \in 1 .. Len(released) : threadState[released[i]] = "COND_BLOCKED"
    BY <2>2, <2>3
  <2>6. \A i \in 1 .. Len(waitingList') :
           /\ threadState[waitingList'[i]] = "COND_BLOCKED"
           /\ \A j \in 1 .. Len(released) : released[j] # waitingList'[i]
    <3>1. 1 \in 1 .. Len(waitingList) /\ \A j \in 1 .. Len(released) : j = 1
      BY <2>2, <2>3
    <3>2. QED BY <2>2, <2>3, <2>4, <3>1
  <2>7. ASSUME NEW i \in 1 .. Len(waitingList'), NEW j \in 1 .. Len(waitingList'),
               waitingList'[i] = waitingList'[j]
        PROVE  i = j
    <3>1. i + 1 = j + 1
      BY <2>2, <2>3, <2>4, <2>7
    <3>2. QED BY <2>2, <2>3, <3>1
  <2>8. QED BY <1>2, <2>3, <2>5, <2>6, <2>7, WakeInv, Zenon
<1>5. QED BY <1>3, <1>4

\* pthread_cond_broadcast wakes all of them.
LEMMA BroadcastInv ==
  ASSUME ClockInv, NEW t \in Threads, broadcast(t)
  PROVE  ClockInv'
<1>1. waitingList \in Seq(Threads) /\ Blocked
  BY DEF ClockInv, ClockTypeOK
<1>2. /\ threadState[t] = "RUNNABLE"
      /\ calls' = [calls EXCEPT ![t] = @ + 1]
      /\ wake(t, waitingList)
      /\ waitingList' = <<>>
      /\ UNCHANGED <<joinRecord, accesses>>
  BY DEF broadcast, runs
<1>3. waitingList' \in Seq(Threads) /\ Len(waitingList') = 0
  BY <1>2
<1>4. \A i \in 1 .. Len(waitingList) : threadState[waitingList[i]] = "COND_BLOCKED"
  BY <1>1 DEF Blocked
<1>5. 1 .. Len(waitingList') = {}
  BY <1>3
<1>6. /\ \A i \in 1 .. Len(waitingList') :
           /\ threadState[waitingList'[i]] = "COND_BLOCKED"
           /\ \A j \in 1 .. Len(waitingList) : waitingList[j] # waitingList'[i]
      /\ \A i, j \in 1 .. Len(waitingList') : waitingList'[i] = waitingList'[j] => i = j
  BY <1>5
<1>7. QED BY <1>1, <1>2, <1>3, <1>4, <1>6, WakeInv, Zenon

-----------------------------------------------------------------------------
\* The main thread alone, with nothing accessed.
LEMMA ClockInitInv ==
  ASSUME ClockInit
  PROVE  ClockInv
<1>1. ClockTypeOK
  BY ClockAssumption DEF ClockInit, ClockTypeOK, States, Clock, Index, Access, AccessId
<1>2. Blocked
  BY DEF ClockInit, Blocked
<1>3. OwnEntryLeads
  <2>1. \A u \in Threads : exists(u) <=> u = 1
    BY ClockAssumption DEF ClockInit, exists
  <2>2. \A a, u \in Threads : a < ClockSize => vectorClock[u][a] = 0
    BY ThreadIndex DEF ClockInit, Index
  <2>3. QED BY <2>1, <2>2, Zenon DEF OwnEntryLeads
<1>4. KnownToThreads /\ KnownToAccesses
  BY DEF ClockInit, KnownToThreads, KnownToAccesses, RecordedIds
<1>5. QED BY <1>1, <1>2, <1>3, <1>4 DEF ClockInv

\* Every call keeps clocks and knowledge in agreement.
LEMMA ClockNextInv ==
  ASSUME ClockInv, [ClockNext]_clockVars
  PROVE  ClockInv'
<1>1. ASSUME NEW t \in Threads, access(t)  PROVE ClockInv'
  BY <1>1, AccessInv
<1>2. ASSUME NEW t \in Threads, create(t)  PROVE ClockInv'
  BY <1>2, CreateInv, SMTT(30)
<1>3. ASSUME NEW t \in Threads, join(t)  PROVE ClockInv'
  BY <1>3, JoinInv
<1>4. ASSUME NEW t \in Threads, end(t)  PROVE ClockInv'
  BY <1>4, EndInv
<1>5. ASSUME NEW t \in Threads, wait(t)  PROVE ClockInv'
  BY <1>5, WaitInv
<1>6. ASSUME NEW t \in Threads, signal(t)  PROVE ClockInv'
  BY <1>6, SignalInv
<1>7. ASSUME NEW t \in Threads, broadcast(t)  PROVE ClockInv'
  BY <1>7, BroadcastInv
<1>8. CASE UNCHANGED clockVars
  BY <1>8 DEF clockVars, ClockInv, ClockTypeOK, Blocked, OwnEntryLeads, KnownToThreads,
              KnownToAccesses, RecordedIds, exists
<1>9. QED BY <1>1, <1>2, <1>3, <1>4, <1>5, <1>6, <1>7, <1>8 DEF ClockNext

\* The inductive invariant holds in every execution.
THEOREM ClocksInvariant == ClockSpec => []ClockInv
<1>1. ClockInit => ClockInv
  BY ClockInitInv
<1>2. ClockInv /\ [ClockNext]_clockVars => ClockInv'
  BY ClockNextInv, SMTT(30)
<1>3. QED BY <1>1, <1>2, PTL DEF ClockSpec

\* A recorded clock reaches that of an access of another thread exactly when
\* the access was passed on to it, if that other thread has an entry.
LEMMA ExactForEntries ==
  ASSUME ClockInv, NEW e \in accesses, NEW f \in accesses,
         e.id[1] # f.id[1], e.id[1] < ClockSize
  PROVE  atMost(e.clock, f.clock) <=> e.id \in f.passed
<1>1. e.id[1] \in Index /\ e.clock \in Clock /\ f.clock \in Clock
  BY AccessFields, ThreadIndex DEF ClockInv
<1>2. atMost(e.clock, f.clock) => e.clock[e.id[1]] <= f.clock[e.id[1]]
  BY <1>1, AtMostOrder
<1>3. QED BY <1>2 DEF ClockInv, KnownToAccesses

\* No edge that DTAMhybrid removes leads to a read that could be after the
\* write, if the read's thread has an entry.
LEMMA PrunedForEntries ==
  ASSUME ClockInv, NEW w \in accesses, NEW r \in accesses,
         pruned(w, r), r.id[1] < ClockSize
  PROVE  r.id \in w.before
<1>1. /\ atMost(r.clock, w.clock) /\ w.clock # r.clock
      /\ w.clock \in Clock /\ r.clock \in Clock
      /\ w.passed \subseteq w.before
  BY AccessFields DEF pruned, ClockInv, KnownToAccesses
<1>2. CASE r.id[1] # w.id[1]
  BY <1>1, <1>2, ExactForEntries
<1>3. CASE r.id[1] = w.id[1]
  <2>1. w.id \notin r.passed
    <3>1. w.id \in r.passed => atMost(w.clock, r.clock)
      BY DEF ClockInv, KnownToAccesses
    <3>2. QED BY <1>1, <3>1, AtMostOrder
  <2>2. r.id \in w.passed
    BY <1>1, <1>3, <2>1 DEF ClockInv, KnownToAccesses
  <2>3. QED BY <1>1, <2>2
<1>4. QED BY <1>2, <1>3

\* If every thread has an entry in the clocks, they order the accesses of
\* different threads exactly as the calls that pass clocks on: a copy made in
\* Executor.cpp or TaintListener.cpp is never too small and never too large.
\* So DTAMhybrid removes the edge from a write to a read only if the read
\* really was before the write.
THEOREM ClocksCorrect ==
  ASSUME LastThreadId < ClockSize
  PROVE  ClockSpec => []ClocksExact
<1>1. ClockInv => ClocksExact
  <2>1. ASSUME ClockInv, NEW e \in accesses  PROVE e.id[1] < ClockSize
    <3>1. e.id[1] \in Threads
      BY <2>1, AccessFields DEF ClockInv
    <3>2. QED BY <3>1, ClockAssumption DEF Threads
  <2>2. ClockInv => ComparesAsPassed
    BY <2>1, ExactForEntries DEF ComparesAsPassed
  <2>3. ClockInv => PrunedOnlyIfOrdered
    BY <2>1, PrunedForEntries DEF PrunedOnlyIfOrdered
  <2>4. QED BY <2>2, <2>3 DEF ClocksExact
<1>2. QED BY <1>1, ClocksInvariant, PTL
=============================================================================
