----------------------- MODULE PthreadRefinementProofs -----------------------
(***************************************************************************)
(* PthreadRuntime implements PthreadSpec, for any number of threads,       *)
(* mutexes, conditions and barriers.  The refinement mapping recovers what *)
(* a blocked thread waits for from the lists of the managers; the          *)
(* inductive invariant of PthreadInvariant says that there is exactly one  *)
(* answer.                                                                 *)
(***************************************************************************)
EXTENDS PthreadRefinement, PthreadRuntimeProofs, FiniteSetTheorems

\* Where the managers have registered thread t.
WaitsAt(t, c, m) ==
  [threadId |-> t, mutexName |-> m] \in Range(waiting[c])

ArrivedAt(t, b) == t \in Range(barrier[b].blockedList)

Joins(t, u) == threadState[u] # "TERMINATED" /\ t \in Range(joinRecord[u])

\* What the refinement mapping makes of each state of a thread.
ActivityExact ==
  \A t \in Tid :
    /\ threadState[t] = "NONE" => activityOf(t) = Unborn
    /\ threadState[t] = "RUNNABLE" => activityOf(t) = Running
    /\ threadState[t] = "TERMINATED" => activityOf(t) = Ended
    /\ threadState[t] = "MUTEX_BLOCKED" =>
         /\ blockedThreadPool[t] \in Mutexes
         /\ activityOf(t) = Locking(blockedThreadPool[t])
    /\ threadState[t] = "COND_BLOCKED" =>
         \E c \in Conds, m \in Mutexes : WaitsAt(t, c, m)
    /\ \A c \in Conds, m \in Mutexes : WaitsAt(t, c, m) =>
         threadState[t] = "COND_BLOCKED" /\ activityOf(t) = Waiting(c, m)
    /\ threadState[t] = "BARRIER_BLOCKED" => \E b \in Barriers : ArrivedAt(t, b)
    /\ \A b \in Barriers : ArrivedAt(t, b) =>
         threadState[t] = "BARRIER_BLOCKED" /\ activityOf(t) = AtBarrier(b)
    /\ threadState[t] = "JOIN_BLOCKED" => \E u \in Tid : Joins(t, u)
    /\ \A u \in Tid : Joins(t, u) =>
         threadState[t] = "JOIN_BLOCKED" /\ activityOf(t) = Joining(u)

\* The invariant makes the mapping's choices unique.
LEMMA ActivityCases == Inv => ActivityExact
<1> SUFFICES ASSUME Inv, NEW t \in Tid
    PROVE
    /\ threadState[t] = "NONE" => activityOf(t) = Unborn
    /\ threadState[t] = "RUNNABLE" => activityOf(t) = Running
    /\ threadState[t] = "TERMINATED" => activityOf(t) = Ended
    /\ threadState[t] = "MUTEX_BLOCKED" =>
         /\ blockedThreadPool[t] \in Mutexes
         /\ activityOf(t) = Locking(blockedThreadPool[t])
    /\ threadState[t] = "COND_BLOCKED" =>
         \E c \in Conds, m \in Mutexes : WaitsAt(t, c, m)
    /\ \A c \in Conds, m \in Mutexes : WaitsAt(t, c, m) =>
         threadState[t] = "COND_BLOCKED" /\ activityOf(t) = Waiting(c, m)
    /\ threadState[t] = "BARRIER_BLOCKED" => \E b \in Barriers : ArrivedAt(t, b)
    /\ \A b \in Barriers : ArrivedAt(t, b) =>
         threadState[t] = "BARRIER_BLOCKED" /\ activityOf(t) = AtBarrier(b)
    /\ threadState[t] = "JOIN_BLOCKED" => \E u \in Tid : Joins(t, u)
    /\ \A u \in Tid : Joins(t, u) =>
         threadState[t] = "JOIN_BLOCKED" /\ activityOf(t) = Joining(u)
  BY DEF ActivityExact
<1>1. /\ threadState[t] = "NONE" => activityOf(t) = Unborn
      /\ threadState[t] = "RUNNABLE" => activityOf(t) = Running
      /\ threadState[t] = "TERMINATED" => activityOf(t) = Ended
      /\ threadState[t] = "MUTEX_BLOCKED" => activityOf(t) = Locking(blockedThreadPool[t])
      /\ threadState[t] = "COND_BLOCKED" =>
           activityOf(t) = Waiting(conditionOf(t), mutexGivenUp(t))
      /\ threadState[t] = "BARRIER_BLOCKED" => activityOf(t) = AtBarrier(barrierOf(t))
      /\ threadState[t] = "JOIN_BLOCKED" => activityOf(t) = Joining(joinedBy(t))
  BY DEF activityOf
<1>2. threadState[t] = "MUTEX_BLOCKED" => blockedThreadPool[t] \in Mutexes
  BY DEF Inv, TypeOK, PoolExact
<1>3. \A c \in Conds : /\ waiting[c] \in Seq(WaitParam)
                       /\ \A x : x \in Range(waiting[c]) <=>
                            \E i \in 1 .. Len(waiting[c]) : waiting[c][i] = x
  BY InList DEF Inv, TypeOK
<1>4. \A c \in Conds : t \in Range(threadsOf(waiting[c])) <=>
        \E i \in 1 .. Len(waiting[c]) : waiting[c][i].threadId = t
  BY Zenon, <1>3, ThreadsOf
<1>5. threadState[t] = "COND_BLOCKED" =>
         \E c \in Conds, m \in Mutexes : WaitsAt(t, c, m)
  <2>1. SUFFICES ASSUME threadState[t] = "COND_BLOCKED"
                 PROVE  \E c \in Conds, m \in Mutexes : WaitsAt(t, c, m)
    OBVIOUS
  <2>2. PICK c \in Conds : t \in Range(threadsOf(waiting[c]))
    BY <2>1 DEF Inv, CondExact
  <2>3. PICK i \in 1 .. Len(waiting[c]) : waiting[c][i].threadId = t
    BY <1>4, <2>2
  <2>4. waiting[c][i] \in WaitParam
    BY <1>3
  <2>5. PICK m \in Mutexes : waiting[c][i] = [threadId |-> t, mutexName |-> m]
    BY <2>3, <2>4 DEF WaitParam
  <2>6. waiting[c][i] \in Range(waiting[c])
    BY <1>3, Zenon
  <2>7. WaitsAt(t, c, m)
    BY ONLY <2>5, <2>6 DEF WaitsAt
  <2>8. QED BY ONLY <2>7
<1>6. ASSUME NEW c \in Conds, NEW m \in Mutexes, WaitsAt(t, c, m)
      PROVE  threadState[t] = "COND_BLOCKED" /\ activityOf(t) = Waiting(c, m)
  <2>1. PICK i \in 1 .. Len(waiting[c]) :
          waiting[c][i] = [threadId |-> t, mutexName |-> m]
    BY ONLY <1>3, <1>6, c \in Conds, Zenon DEF WaitsAt
  <2>2. waiting[c][i].threadId = t /\ waiting[c][i].mutexName = m
    BY <2>1
  <2>3. threadState[t] = "COND_BLOCKED"
    BY <1>4, <2>2 DEF Inv, CondExact
  <2>4. ASSUME NEW d \in Conds, NEW j \in 1 .. Len(waiting[d]), waiting[d][j].threadId = t
        PROVE  d = c /\ j = i
    BY <2>2, <2>4 DEF Inv, CondExact
  <2>5. conditionOf(t) = c
    BY Zenon, <1>4, <2>2, <2>4 DEF conditionOf
  <2>6. mutexGivenUp(t) = m
    BY Zenon, <2>2, <2>4, <2>5 DEF mutexGivenUp
  <2>7. QED BY <1>1, <2>3, <2>5, <2>6
<1>7. threadState[t] = "BARRIER_BLOCKED" => \E b \in Barriers : ArrivedAt(t, b)
  BY DEF Inv, BarrierExact, ArrivedAt
<1>8. ASSUME NEW b \in Barriers, ArrivedAt(t, b)
      PROVE  threadState[t] = "BARRIER_BLOCKED" /\ activityOf(t) = AtBarrier(b)
  <2>1. threadState[t] = "BARRIER_BLOCKED"
    BY <1>8 DEF Inv, BarrierExact, ArrivedAt
  <2>2. \A a \in Barriers : barrier[a].blockedList \in Seq(Tid)
    BY SMTT(30) DEF Inv, TypeOK, BarrierRecord
  <2>3. \A a \in Barriers : ArrivedAt(t, a) => a = b
    BY <1>8, <2>2, InList DEF Inv, BarrierExact, ArrivedAt
  <2>4. barrierOf(t) = b
    BY Zenon, <1>8, <2>3 DEF barrierOf, ArrivedAt
  <2>5. QED BY <1>1, <2>1, <2>4
<1>9. threadState[t] = "JOIN_BLOCKED" => \E u \in Tid : Joins(t, u)
  BY DEF Inv, JoinExact, Joins
<1>10. ASSUME NEW u \in Tid, Joins(t, u)
       PROVE  threadState[t] = "JOIN_BLOCKED" /\ activityOf(t) = Joining(u)
  <2>1. threadState[t] = "JOIN_BLOCKED"
    BY <1>10 DEF Inv, JoinExact, Joins
  <2>2. \A v \in Tid : joinRecord[v] \in Seq(Tid)
    BY DEF Inv, TypeOK
  <2>3. ASSUME NEW v \in Tid, Joins(t, v)  PROVE v = u
    <3>1. PICK i \in 1 .. Len(joinRecord[u]) : joinRecord[u][i] = t
      BY <1>10, <2>2, InList DEF Joins
    <3>2. PICK j \in 1 .. Len(joinRecord[v]) : joinRecord[v][j] = t
      BY <2>2, <2>3, InList DEF Joins
    <3>3. QED BY <1>10, <2>3, <3>1, <3>2 DEF Inv, JoinExact, Joins
  <2>4. joinedBy(t) = u
    BY Zenon, <1>10, <2>3 DEF joinedBy, Joins
  <2>5. QED BY <1>1, <2>1, <2>4
<1>11. QED BY <1>1, <1>2, <1>5, <1>6, <1>7, <1>8, <1>9, <1>10

\* The same after a step.
LEMMA ActivityCasesAfter == Inv' => ActivityExact'
BY ActivityCases, PTL

\* The kind of an activity tells in which queue the thread is blocked.
LEMMA KindTellsState ==
  ASSUME Inv, NEW x \in Tid
  PROVE  /\ activityOf(x).kind = "waiting" => threadState[x] = "COND_BLOCKED"
         /\ activityOf(x).kind = "barrier" => threadState[x] = "BARRIER_BLOCKED"
         /\ activityOf(x).kind = "joining" => threadState[x] = "JOIN_BLOCKED"
<1>1. threadState[x] \in ThreadStates
  BY DEF Inv, TypeOK
<1>2. CASE threadState[x] = "NONE"
  <2>1. activityOf(x) = Unborn
    BY ONLY <1>2 DEF activityOf
  <2>2. QED BY ONLY <2>1 DEF Unborn
<1>3. CASE threadState[x] = "RUNNABLE"
  <2>1. activityOf(x) = Running
    BY ONLY <1>3 DEF activityOf
  <2>2. QED BY ONLY <2>1 DEF Running
<1>4. CASE threadState[x] = "TERMINATED"
  <2>1. activityOf(x) = Ended
    BY ONLY <1>4 DEF activityOf
  <2>2. QED BY ONLY <2>1 DEF Ended
<1>5. CASE threadState[x] = "MUTEX_BLOCKED"
  <2>1. activityOf(x) = Locking(blockedThreadPool[x])
    BY ONLY <1>5 DEF activityOf
  <2>2. QED BY ONLY <2>1 DEF Locking
<1>6. CASE threadState[x] = "COND_BLOCKED"
  <2>1. activityOf(x) = Waiting(conditionOf(x), mutexGivenUp(x))
    BY ONLY <1>6 DEF activityOf
  <2>2. activityOf(x).kind = "waiting"
    BY ONLY <2>1 DEF Waiting
  <2>3. QED BY ONLY <1>6, <2>2
<1>7. CASE threadState[x] = "BARRIER_BLOCKED"
  <2>1. activityOf(x) = AtBarrier(barrierOf(x))
    BY ONLY <1>7 DEF activityOf
  <2>2. activityOf(x).kind = "barrier"
    BY ONLY <2>1 DEF AtBarrier
  <2>3. QED BY ONLY <1>7, <2>2
<1>8. CASE threadState[x] = "JOIN_BLOCKED"
  <2>1. activityOf(x) = Joining(joinedBy(x))
    BY ONLY <1>8 DEF activityOf
  <2>2. activityOf(x).kind = "joining"
    BY ONLY <2>1 DEF Joining
  <2>3. QED BY ONLY <1>8, <2>2
<1>9. QED BY ONLY <1>1, <1>2, <1>3, <1>4, <1>5, <1>6, <1>7, <1>8 DEF ThreadStates

-----------------------------------------------------------------------------
\* A step leaves the state and the registrations of thread x alone.
KeepsPlace(x) ==
  /\ threadState'[x] = threadState[x]
  /\ blockedThreadPool'[x] = blockedThreadPool[x]
  /\ \A c \in Conds, m \in Mutexes : WaitsAt(x, c, m) => WaitsAt(x, c, m)'
  /\ \A b \in Barriers : ArrivedAt(x, b) => ArrivedAt(x, b)'
  /\ \A u \in Tid : Joins(x, u) => Joins(x, u)'

\* The lists of the conditions are as they were.
LEMMA SameWaits ==
  ASSUME waiting' = waiting, NEW x
  PROVE  \A c \in Conds, m \in Mutexes : WaitsAt(x, c, m) => WaitsAt(x, c, m)'
BY DEF WaitsAt

\* The lists of the barriers are as they were.
LEMMA SameArrivals ==
  ASSUME barrier' = barrier, NEW x
  PROVE  \A b \in Barriers : ArrivedAt(x, b) => ArrivedAt(x, b)'
BY DEF ArrivedAt

\* Then x goes on doing what it did.
LEMMA KeepsActivity ==
  ASSUME ActivityExact, ActivityExact', Inv, NEW x \in Tid, KeepsPlace(x)
  PROVE  activityOf(x)' = activityOf(x)
<1> USE DEF KeepsPlace
<1>1. threadState[x] \in ThreadStates
  BY DEF Inv, TypeOK
<1>2. CASE threadState[x] \in {"NONE", "RUNNABLE", "TERMINATED"}
  BY <1>2 DEF ActivityExact, Unborn, Running, Ended
<1>3. CASE threadState[x] = "MUTEX_BLOCKED"
  BY <1>3 DEF ActivityExact, Locking
<1>4. CASE threadState[x] = "COND_BLOCKED"
  <2>1. PICK c \in Conds, m \in Mutexes : WaitsAt(x, c, m)
    BY <1>4 DEF ActivityExact
  <2>2. activityOf(x) = Waiting(c, m)
    BY <2>1 DEF ActivityExact
  <2>3. activityOf(x)' = Waiting(c, m)
    BY <2>1 DEF ActivityExact, Waiting
  <2>4. QED BY <2>2, <2>3
<1>5. CASE threadState[x] = "BARRIER_BLOCKED"
  <2>1. PICK b \in Barriers : ArrivedAt(x, b)
    BY <1>5 DEF ActivityExact
  <2>2. QED BY <2>1 DEF ActivityExact, AtBarrier
<1>6. CASE threadState[x] = "JOIN_BLOCKED"
  <2>1. PICK u \in Tid : Joins(x, u)
    BY <1>6 DEF ActivityExact
  <2>2. QED BY <2>1 DEF ActivityExact, Joining
<1>7. QED BY <1>1, <1>2, <1>3, <1>4, <1>5, <1>6 DEF ThreadStates

\* A step that changes nothing the mapping looks at.
LEMMA Stutters ==
  ASSUME UNCHANGED <<threadState, managerVars, joinRecord>>
  PROVE  UNCHANGED P!specVars
BY DEF managerVars, P!specVars, activityOf, conditionOf, mutexGivenUp, barrierOf,
       joinedBy

\* A failed assert, exit() and a failing instruction have no counterpart.
LEMMA StatusStutters ==
  ASSUME UNCHANGED <<schedulerVars, managerVars, joinRecord>>
  PROVE  UNCHANGED P!specVars
BY Stutters DEF schedulerVars

\* pthread_create.
LEMMA CreateStep ==
  ASSUME Inv, ActivityExact, ActivityExact', NEW t \in Tid, executePThreadCreate(t)
  PROVE  [P!SpecNext]_(P!specVars)
<1>0. threadState[t] = "RUNNABLE"
  BY DEF executePThreadCreate, running
<1>1. CASE nextThreadId > MaxThreads
  BY <1>1, StatusStutters DEF executePThreadCreate, assertFails
<1>2. CASE ~ nextThreadId > MaxThreads
  <2>0. nextThreadId \in Tid
    BY <1>2, MaxThreadsAssumption DEF Inv, TypeOK, Tid
  <2>1. PICK u \in Tid : u = nextThreadId
    BY <2>0
  <2>2. /\ threadState' = [threadState EXCEPT ![u] = "RUNNABLE"]
        /\ UNCHANGED <<managerVars, joinRecord>>
        /\ threadState[u] = "NONE"
    <3>1. u \in Nat
      BY DEF Tid
    <3>2. QED BY <1>2, <2>1, <3>1 DEF executePThreadCreate, createThread, Inv, IdsExact, exists
  <2>3. threadState'[u] = "RUNNABLE" /\ \A x \in Tid : x # u => threadState'[x] = threadState[x]
    BY <2>2 DEF Inv, TypeOK
  <2>4. ASSUME NEW x \in Tid, x # u  PROVE activityOf(x)' = activityOf(x)
    BY <2>2, <2>3, <2>4, KeepsActivity DEF managerVars, KeepsPlace, WaitsAt, ArrivedAt, Joins
  <2>5. activityOf(u)' = Running /\ activityOf(u) = Unborn /\ activityOf(t) = Running
    BY <1>0, <2>2, <2>3 DEF ActivityExact
  <2>6. P!Create(t, u)
    BY <2>2, <2>4, <2>5, Zenon DEF P!Create, P!Running, P!Unborn, Running, Unborn, managerVars
  <2>7. QED BY <2>2, <2>6 DEF P!SpecNext
<1>3. QED BY <1>1, <1>2

\* A thread that exists and has not ended is doing something.
LEMMA Alive ==
  ASSUME ActivityExact, Inv, NEW u \in Tid, threadState[u] \notin {"NONE", "TERMINATED"}
  PROVE  activityOf(u) \notin {Unborn, Ended}
<1> USE DEF Unborn, Ended
<1>1. threadState[u] \in {"RUNNABLE", "MUTEX_BLOCKED", "COND_BLOCKED",
                          "BARRIER_BLOCKED", "JOIN_BLOCKED"}
  BY DEF Inv, TypeOK, ThreadStates
<1>2. CASE threadState[u] = "RUNNABLE"
  BY <1>2 DEF ActivityExact, Running
<1>3. CASE threadState[u] = "MUTEX_BLOCKED"
  <2>1. activityOf(u) = Locking(blockedThreadPool[u])
    BY <1>3 DEF ActivityExact
  <2>2. activityOf(u).kind = "locking"
    BY <2>1 DEF Locking
  <2>3. QED BY <2>2
<1>4. CASE threadState[u] = "COND_BLOCKED"
  <2>1. PICK c \in Conds, m \in Mutexes : activityOf(u) = Waiting(c, m)
    BY <1>4 DEF ActivityExact
  <2>2. activityOf(u).kind = "waiting"
    BY <2>1 DEF Waiting
  <2>3. QED BY <2>2
<1>5. CASE threadState[u] = "BARRIER_BLOCKED"
  <2>1. PICK b \in Barriers : activityOf(u) = AtBarrier(b)
    BY <1>5 DEF ActivityExact
  <2>2. activityOf(u).kind = "barrier"
    BY <2>1 DEF AtBarrier
  <2>3. QED BY <2>2
<1>6. CASE threadState[u] = "JOIN_BLOCKED"
  <2>1. PICK v \in Tid : activityOf(u) = Joining(v)
    BY <1>6 DEF ActivityExact
  <2>2. activityOf(u).kind = "joining"
    BY <2>1 DEF Joining
  <2>3. QED BY <2>2
<1>7. QED BY <1>1, <1>2, <1>3, <1>4, <1>5, <1>6

\* pthread_join: the caller goes on, or joins a thread that has not ended.
LEMMA JoinStep ==
  ASSUME Inv, ActivityExact, ActivityExact',
         NEW t \in Tid, NEW u \in Tid, executePThreadJoin(t, u)
  PROVE  [P!SpecNext]_(P!specVars)
<1>0. threadState[t] = "RUNNABLE"
  BY DEF executePThreadJoin, running
<1>1. CASE ~ exists(u)
  BY Zenon, <1>1, StatusStutters DEF executePThreadJoin, assertFails
<1>2. CASE threadState[u] = "TERMINATED"
  BY Zenon, <1>1, <1>2, StatusStutters DEF executePThreadJoin
<1>3. CASE exists(u) /\ threadState[u] # "TERMINATED"
  <2>1. /\ joinRecord' = [joinRecord EXCEPT ![u] = Append(@, t)]
        /\ threadState' = [threadState EXCEPT ![t] = "JOIN_BLOCKED"]
        /\ UNCHANGED managerVars
    BY <1>3 DEF executePThreadJoin
  <2>2. \A x \in Tid : threadState'[x] = IF x = t THEN "JOIN_BLOCKED" ELSE threadState[x]
    BY <2>1 DEF Inv, TypeOK
  <2>3. /\ joinRecord'[u] = Append(joinRecord[u], t)
        /\ \A v \in Tid \ {u} : joinRecord'[v] = joinRecord[v]
        /\ \A v \in Tid : joinRecord[v] \in Seq(Tid)
    BY <2>1 DEF Inv, TypeOK
  <2>4. /\ t \in Range(joinRecord'[u])
        /\ \A v \in Tid : \A x : x \in Range(joinRecord[v]) => x \in Range(joinRecord'[v])
    BY <2>3, AddItem, Zenon DEF addItem
  <2>5. \A v \in Tid : threadState[v] # "TERMINATED" => threadState'[v] # "TERMINATED"
    BY <2>2
  <2>6. ASSUME NEW x \in Tid, x # t  PROVE activityOf(x)' = activityOf(x)
    <3>1. \A v \in Tid : Joins(x, v) => Joins(x, v)'
      BY <2>4, <2>5 DEF Joins
    <3>2. KeepsPlace(x)
      BY <2>1, <2>2, <2>6, <3>1 DEF managerVars, KeepsPlace, WaitsAt, ArrivedAt
    <3>3. QED BY <3>2, KeepsActivity
  <2>7. activityOf(t) = Running /\ activityOf(t)' = Joining(u)
    <3>1. Joins(t, u)'
      BY <1>3, <2>4, <2>5 DEF Joins
    <3>2. QED BY <1>0, <3>1 DEF ActivityExact, Joining
  <2>8. activityOf(u) \notin {Unborn, Ended}
    BY <1>3, Alive DEF exists
  <2>9. P!Join(t, u)
    BY <2>1, <2>6, <2>7, <2>8, Zenon DEF P!Join, P!Running, P!Unborn, P!Ended, P!Joining,
       Running, Unborn, Ended, Joining, managerVars
  <2>10. QED BY <2>9 DEF P!SpecNext
<1>4. QED BY <1>1, <1>2, <1>3, Zenon

\* Getting a mutex, at once or after having been made to wait for it.
LEMMA AcquireStep ==
  ASSUME Inv, ActivityExact, ActivityExact', NEW t \in Tid, NEW m \in Mutexes,
         lockedThreadId[m] = 0,
         \/ threadState[t] = "RUNNABLE"
         \/ threadState[t] = "MUTEX_BLOCKED" /\ blockedThreadPool[t] = m,
         lockedThreadId' = [lockedThreadId EXCEPT ![m] = t],
         blockedThreadPool' = [blockedThreadPool EXCEPT ![t] = NoObject],
         threadState' = [threadState EXCEPT ![t] = "RUNNABLE"],
         UNCHANGED <<waiting, barrier, joinRecord>>
  PROVE  P!SpecNext
<1>1. \A x \in Tid :
        /\ threadState'[x] = IF x = t THEN "RUNNABLE" ELSE threadState[x]
        /\ x # t => blockedThreadPool'[x] = blockedThreadPool[x]
  BY DEF Inv, TypeOK
<1>2. ASSUME NEW x \in Tid, x # t  PROVE activityOf(x)' = activityOf(x)
  <2>1. \A u \in Tid : Joins(x, u) => Joins(x, u)'
    BY <1>1 DEF Joins
  <2>2. KeepsPlace(x)
    BY <1>1, <1>2, <2>1 DEF KeepsPlace, WaitsAt, ArrivedAt
  <2>3. QED BY <2>2, KeepsActivity
<1>3. activityOf(t) \in {Running, Locking(m)} /\ activityOf(t)' = Running
  BY <1>1 DEF ActivityExact, Running
<1>4. P!Acquire(t, m)
  BY <1>2, <1>3, Zenon DEF P!Acquire, P!Running, P!Locking, Running, Locking
<1>5. QED BY <1>4 DEF P!SpecNext

\* pthread_mutex_lock.
LEMMA MutexLockStep ==
  ASSUME Inv, ActivityExact, ActivityExact', NEW t \in Tid, NEW m,
         executePThreadMutexLock(t, m)
  PROVE  [P!SpecNext]_(P!specVars)
<1>0. threadState[t] = "RUNNABLE" /\ threadState \in [Tid -> ThreadStates]
  BY DEF executePThreadMutexLock, running, Inv, TypeOK
<1>1. CASE m \notin Mutexes
  BY <1>1, StatusStutters DEF executePThreadMutexLock, assertFails
<1>2. CASE m \in Mutexes /\ ~ isMutexLocked(m)
  <2>1. /\ lockedThreadId[m] = 0
        /\ lockedThreadId' = [lockedThreadId EXCEPT ![m] = t]
        /\ blockedThreadPool' = [blockedThreadPool EXCEPT ![t] = NoObject]
        /\ threadState' = threadState
        /\ UNCHANGED <<waiting, barrier, joinRecord>>
    BY <1>0, <1>2, Zenon DEF executePThreadMutexLock, lock, isMutexLocked
  <2>2. threadState' = [threadState EXCEPT ![t] = "RUNNABLE"]
    BY <1>0, <2>1
  <2>3. QED BY <1>0, <1>2, <2>1, <2>2, AcquireStep, Zenon
<1>3. CASE m \in Mutexes /\ isMutexLocked(m)
  <2>1. /\ lockedThreadId[m] # 0
        /\ blockedThreadPool' = insertBlocked(blockedThreadPool, t, m)
        /\ threadState' = [threadState EXCEPT ![t] = "MUTEX_BLOCKED"]
        /\ UNCHANGED <<lockedThreadId, waiting, barrier, joinRecord>>
    BY <1>3 DEF executePThreadMutexLock, lock, isMutexLocked
  <2>2. blockedThreadPool' = [blockedThreadPool EXCEPT ![t] = m]
    BY <1>0, <2>1 DEF insertBlocked, Inv, PoolExact
  <2>3. \A x \in Tid :
          /\ threadState'[x] = IF x = t THEN "MUTEX_BLOCKED" ELSE threadState[x]
          /\ blockedThreadPool'[x] = IF x = t THEN m ELSE blockedThreadPool[x]
    BY <2>1, <2>2 DEF Inv, TypeOK
  <2>4. ASSUME NEW x \in Tid, x # t  PROVE activityOf(x)' = activityOf(x)
    <3>1. \A u \in Tid : Joins(x, u) => Joins(x, u)'
      BY <2>1, <2>3 DEF Joins
    <3>2. threadState'[x] = threadState[x] /\ blockedThreadPool'[x] = blockedThreadPool[x]
      BY ONLY <2>3, <2>4
    <3>3. KeepsPlace(x)
      BY ONLY <2>1, <3>1, <3>2, SameWaits, SameArrivals, Zenon DEF KeepsPlace
    <3>4. QED BY <3>3, KeepsActivity
  <2>5. activityOf(t) = Running /\ activityOf(t)' = Locking(m)
    BY <1>0, <2>3 DEF ActivityExact, Locking
  <2>6. P!BlockOnMutex(t, m)
    BY <2>1, <2>4, <2>5, Zenon DEF P!BlockOnMutex, P!Running, P!Locking, Running, Locking
  <2>7. QED BY <1>3, <2>6 DEF P!SpecNext
<1>4. QED BY <1>1, <1>2, <1>3

\* pthread_mutex_unlock.
LEMMA MutexUnlockStep ==
  ASSUME Inv, ActivityExact, ActivityExact', NEW t \in Tid, NEW m,
         executePThreadMutexUnlock(t, m)
  PROVE  [P!SpecNext]_(P!specVars)
<1>0. threadState[t] = "RUNNABLE"
  BY DEF executePThreadMutexUnlock, running
<1>1. CASE m \notin Mutexes
  BY <1>1, StatusStutters DEF executePThreadMutexUnlock, assertFails
<1>2. CASE m \in Mutexes
  <2>1. /\ lockedThreadId' = [lockedThreadId EXCEPT ![m] = 0]
        /\ UNCHANGED <<threadState, blockedThreadPool, waiting, barrier, joinRecord>>
    BY <1>2 DEF executePThreadMutexUnlock, unlock, schedulerVars
  <2>2. \A x \in Tid : activityOf(x)' = activityOf(x)
    BY <2>1 DEF activityOf, conditionOf, mutexGivenUp, barrierOf, joinedBy
  <2>3. activityOf(t) = Running
    BY <1>0 DEF ActivityExact
  <2>4. P!Release(t, m)
    BY <2>1, <2>2, <2>3 DEF P!Release, P!Running, Running
  <2>5. QED BY <1>2, <2>4 DEF P!SpecNext
<1>3. QED BY <1>1, <1>2

-----------------------------------------------------------------------------
\* pthread_cond_wait: the mutex is given up and the wait begins in one step.
LEMMA CondWaitStep ==
  ASSUME Inv, ActivityExact, ActivityExact', NEW t \in Tid, NEW c, NEW m,
         executePThreadCondWait(t, c, m)
  PROVE  [P!SpecNext]_(P!specVars)
<1>0. threadState[t] = "RUNNABLE"
  BY DEF executePThreadCondWait, running
<1>1. CASE ~ canWait(c, m, t)
  BY <1>1, StatusStutters DEF executePThreadCondWait, assertFails
<1>2. CASE canWait(c, m, t)
  <2> DEFINE w == [threadId |-> t, mutexName |-> m]
  <2>1. c \in Conds /\ m \in Mutexes /\ lockedThreadId[m] = t
    BY <1>2 DEF canWait, isThreadOwnMutex
  <2>2. /\ waiting' = [waiting EXCEPT ![c] = Append(@, w)]
        /\ lockedThreadId' = [lockedThreadId EXCEPT ![m] = 0]
        /\ threadState' = [threadState EXCEPT ![t] = "COND_BLOCKED"]
        /\ UNCHANGED <<blockedThreadPool, barrier, joinRecord>>
    BY <1>2 DEF executePThreadCondWait, wait, unlock
  <2>3. \A x \in Tid : threadState'[x] = IF x = t THEN "COND_BLOCKED" ELSE threadState[x]
    BY <2>2 DEF Inv, TypeOK
  <2>4. w \in WaitParam
    BY <2>1 DEF WaitParam
  <2> HIDE DEF w
  <2>5. /\ waiting'[c] = Append(waiting[c], w)
        /\ \A d \in Conds \ {c} : waiting'[d] = waiting[d]
        /\ waiting[c] \in Seq(WaitParam)
    BY <2>1, <2>2 DEF Inv, TypeOK
  <2>6. /\ w \in Range(waiting'[c])
        /\ \A d \in Conds : \A v : v \in Range(waiting[d]) => v \in Range(waiting'[d])
    BY <2>4, <2>5, AddItem, Zenon DEF addItem
  <2>7. ASSUME NEW x \in Tid, x # t  PROVE activityOf(x)' = activityOf(x)
    <3>1. \A u \in Tid : Joins(x, u) => Joins(x, u)'
      BY <2>2, <2>3 DEF Joins
    <3>2. \A d \in Conds, n \in Mutexes : WaitsAt(x, d, n) => WaitsAt(x, d, n)'
      BY <2>6 DEF WaitsAt
    <3>3. threadState'[x] = threadState[x] /\ blockedThreadPool'[x] = blockedThreadPool[x]
      BY ONLY <2>2, <2>3, <2>7
    <3>4. KeepsPlace(x)
      BY ONLY <2>2, <3>1, <3>2, <3>3, SameArrivals, Zenon DEF KeepsPlace
    <3>5. QED BY <3>4, KeepsActivity
  <2>8. activityOf(t) = Running /\ activityOf(t)' = Waiting(c, m)
    <3>1. WaitsAt(t, c, m)'
      BY <2>6 DEF WaitsAt, w
    <3>2. QED BY <1>0, <2>1, <3>1 DEF ActivityExact, Waiting
  <2>9. P!Wait(t, c, m)
    BY <2>1, <2>2, <2>7, <2>8, Zenon DEF P!Wait, P!Running, P!Waiting, Running, Waiting
  <2>10. QED BY <2>1, <2>9 DEF P!SpecNext
<1>3. QED BY <1>1, <1>2

\* The waiters of a condition are the threads in its list.
LEMMA Waiters ==
  ASSUME Inv, ActivityExact, NEW c \in Conds
  PROVE  \A x \in Tid : /\ x \in P!WaitersOf(c) <=> \E m \in Mutexes : WaitsAt(x, c, m)
                        /\ x \in P!WaitersOf(c) <=>
                             \E i \in 1 .. Len(waiting[c]) : waiting[c][i].threadId = x
<1> SUFFICES ASSUME NEW x \in Tid
             PROVE  /\ x \in P!WaitersOf(c) <=> \E m \in Mutexes : WaitsAt(x, c, m)
                    /\ x \in P!WaitersOf(c) <=>
                         \E i \in 1 .. Len(waiting[c]) : waiting[c][i].threadId = x
  OBVIOUS
<1>1. x \in P!WaitersOf(c) <=> \E m \in Mutexes : activityOf(x) = Waiting(c, m)
  BY DEF P!WaitersOf, P!Waiting, Waiting
<1>2. ASSUME NEW m \in Mutexes, activityOf(x) = Waiting(c, m)  PROVE WaitsAt(x, c, m)
  <2>1. activityOf(x).kind = "waiting"
    BY <1>2 DEF Waiting
  <2>2. threadState[x] = "COND_BLOCKED"
    BY <2>1, KindTellsState
  <2>3. PICK d \in Conds, n \in Mutexes : WaitsAt(x, d, n)
    BY <2>2 DEF ActivityExact
  <2>4. Waiting(d, n) = Waiting(c, m)
    BY <1>2, <2>3 DEF ActivityExact
  <2>5. Waiting(d, n).cond = Waiting(c, m).cond /\ Waiting(d, n).mutex = Waiting(c, m).mutex
    BY <2>4
  <2>6. d = c /\ n = m
    BY <2>5 DEF Waiting
  <2>7. QED BY <2>3, <2>6
<1>3. x \in P!WaitersOf(c) <=> \E m \in Mutexes : WaitsAt(x, c, m)
  BY <1>1, <1>2 DEF ActivityExact
<1>4. waiting[c] \in Seq(WaitParam)
  BY DEF Inv, TypeOK
<1>5. \A v : v \in Range(waiting[c]) <=> \E i \in 1 .. Len(waiting[c]) : waiting[c][i] = v
  BY <1>4, InList
<1>6. ASSUME NEW i \in 1 .. Len(waiting[c]), waiting[c][i].threadId = x
      PROVE  \E m \in Mutexes : WaitsAt(x, c, m)
  <2>1. waiting[c][i] \in WaitParam
    BY <1>4
  <2>2. /\ waiting[c][i].mutexName \in Mutexes
        /\ waiting[c][i] = [threadId |-> x, mutexName |-> waiting[c][i].mutexName]
    BY <1>6, <2>1 DEF WaitParam
  <2>3. QED BY <1>5, <2>2 DEF WaitsAt
<1>7. ASSUME NEW m \in Mutexes, WaitsAt(x, c, m)
      PROVE  \E i \in 1 .. Len(waiting[c]) : waiting[c][i].threadId = x
  <2>1. PICK i \in 1 .. Len(waiting[c]) :
          waiting[c][i] = [threadId |-> x, mutexName |-> m]
    BY <1>5, <1>7 DEF WaitsAt
  <2>2. waiting[c][i].threadId = x
    BY <2>1
  <2>3. QED BY <2>2
<1>8. QED BY <1>3, <1>6, <1>7

\* No thread is in a condition's list twice.
LEMMA WaitsOnce ==
  ASSUME Inv, NEW c \in Conds, NEW i \in 1 .. Len(waiting[c]), NEW j \in 1 .. Len(waiting[c]),
         waiting[c][i].threadId = waiting[c][j].threadId
  PROVE  i = j
BY DEF Inv, CondExact

\* Only a thread that is blocked on a mutex is in the pool.
LEMMA OutOfPool ==
  ASSUME Inv, NEW x \in Tid, threadState[x] # "MUTEX_BLOCKED"
  PROVE  blockedThreadPool[x] = NoObject
BY DEF Inv, PoolExact

\* Signal and broadcast: the first WaitParams of one condition's list leave it
\* and their threads go for the mutexes they gave up.
LEMMA WakeStep ==
  ASSUME Inv, ActivityExact, ActivityExact', NEW t \in Tid, running(t), NEW c \in Conds,
         NEW wps \in Seq(WaitParam), NEW rest \in Seq(WaitParam),
         Len(waiting[c]) = Len(wps) + Len(rest),
         \A i \in 1 .. Len(wps) : wps[i] = waiting[c][i],
         \A i \in 1 .. Len(rest) : rest[i] = waiting[c][i + Len(wps)],
         waiting' = [waiting EXCEPT ![c] = rest],
         blockedThreadPool' = addBlockedThreads(blockedThreadPool, wps),
         threadState' = enter(threadState, threadsOf(wps), "MUTEX_BLOCKED"),
         UNCHANGED <<lockedThreadId, barrier, joinRecord>>,
         NEW S, \A x \in Tid : x \in S <=> \E i \in 1 .. Len(wps) : wps[i].threadId = x
  PROVE  P!Wake(t, c, S)
<1>0. /\ Len(wps) \in Nat /\ Len(rest) \in Nat /\ threadState[t] = "RUNNABLE"
      /\ \A i \in 1 .. Len(wps) : i \in 1 .. Len(waiting[c])
  BY DEF running
<1>1. \A d \in Conds : waiting[d] \in Seq(WaitParam)
  BY DEF Inv, TypeOK
<1>2. \A x \in Tid : threadState'[x] = IF x \in S THEN "MUTEX_BLOCKED" ELSE threadState[x]
  <2>1. \A x : x \in Range(threadsOf(wps)) <=> \E i \in 1 .. Len(wps) : wps[i].threadId = x
    BY ThreadsOf, Zenon
  <2>2. QED BY ONLY <2>1, threadState' = enter(threadState, threadsOf(wps), "MUTEX_BLOCKED"),
               \A x \in Tid : x \in S <=> \E i \in 1 .. Len(wps) : wps[i].threadId = x
            DEF enter
<1>3. waiting'[c] = rest /\ \A d \in Conds \ {c} : waiting'[d] = waiting[d]
  BY DEF Inv, TypeOK
<1>4. ASSUME NEW x \in Tid, x \notin S  PROVE activityOf(x)' = activityOf(x)
  <2>1. ~ \E i \in 1 .. Len(wps) : wps[i].threadId = x
    BY <1>4
  <2>2. blockedThreadPool'[x] = blockedThreadPool[x]
    BY <2>1 DEF addBlockedThreads
  <2>3. \A u \in Tid : Joins(x, u) => Joins(x, u)'
    BY <1>2 DEF Joins
  <2>4. ASSUME NEW d \in Conds, NEW m \in Mutexes, WaitsAt(x, d, m)  PROVE WaitsAt(x, d, m)'
    <3>1. CASE d # c
      BY <1>3, <2>4, <3>1 DEF WaitsAt
    <3>2. CASE d = c
      <4> DEFINE w == [threadId |-> x, mutexName |-> m]
      <4>0. w \in Range(waiting[c]) /\ w.threadId = x
        BY <2>4, <3>2 DEF WaitsAt
      <4> HIDE DEF w
      <4>1. PICK i \in 1 .. Len(waiting[c]) : waiting[c][i] = w
        BY <1>1, <4>0, InList
      <4>2. waiting[c][i].threadId = x
        BY ONLY <4>0, <4>1
      <4>3. i \notin 1 .. Len(wps)
        BY <2>1, <4>2
      <4>4. i - Len(wps) \in 1 .. Len(rest) /\ (i - Len(wps)) + Len(wps) = i
        BY <1>0, <4>3
      <4>5. rest[i - Len(wps)] = w
        BY <4>1, <4>4
      <4>6. w \in Range(rest)
        BY <4>4, <4>5, InList, SMTT(30)
      <4>7. QED BY <1>3, <3>2, <4>6 DEF WaitsAt, w
    <3>3. QED BY <3>1, <3>2
  <2>5. threadState'[x] = threadState[x] /\ barrier' = barrier
    BY <1>2, <1>4
  <2>6. KeepsPlace(x)
    BY ONLY <2>2, <2>3, <2>4, <2>5, SameArrivals, Zenon DEF KeepsPlace
  <2>7. QED BY <2>6, KeepsActivity
<1>5. ASSUME NEW x \in Tid, x \in S
      PROVE  activityOf(x)' = Locking(activityOf(x).mutex)
  <2>1. PICK i \in 1 .. Len(wps) : wps[i].threadId = x
    BY <1>5
  <2>2. wps[i] \in WaitParam /\ i \in 1 .. Len(waiting[c]) /\ waiting[c][i] = wps[i]
    BY <1>0
  <2>3. PICK m \in Mutexes : wps[i] = [threadId |-> x, mutexName |-> m]
    BY ONLY <2>1, <2>2, SMTT(30) DEF WaitParam
  <2>4. WaitsAt(x, c, m)
    <3>1. waiting[c] \in Seq(WaitParam)
      BY ONLY <1>1, c \in Conds
    <3>2. waiting[c][i] \in Range(waiting[c])
      BY ONLY <2>2, <3>1, InList, Zenon
    <3>3. QED BY ONLY <2>2, <2>3, <3>2 DEF WaitsAt
  <2>5. threadState[x] = "COND_BLOCKED" /\ activityOf(x) = Waiting(c, m)
    BY <2>4, Zenon DEF ActivityExact
  <2>6. activityOf(x).mutex = m
    BY <2>5 DEF Waiting
  <2>7. blockedThreadPool[x] = NoObject
    <3>1. threadState[x] # "MUTEX_BLOCKED"
      BY ONLY <2>5
    <3>2. QED BY ONLY <3>1, x \in Tid, Inv, OutOfPool
  <2>8. ASSUME NEW j \in 1 .. Len(wps), wps[j].threadId = x  PROVE j = i
    <3>1. j \in 1 .. Len(waiting[c]) /\ waiting[c][j].threadId = waiting[c][i].threadId
      BY <1>0, <2>1, <2>2, <2>8, Zenon
    <3>2. QED BY ONLY <2>2, <3>1, Inv, c \in Conds, WaitsOnce
  <2>9. (CHOOSE j \in 1 .. Len(wps) : wps[j].threadId = x) = i
    BY Zenon, <2>1, <2>8
  <2>10. blockedThreadPool'[x] = wps[i].mutexName
    BY <2>1, <2>7, <2>9, Zenon DEF addBlockedThreads
  <2>11. threadState'[x] = "MUTEX_BLOCKED" /\ blockedThreadPool'[x] = m
    BY ONLY <1>2, <1>5, <2>3, <2>10
  <2>12. activityOf(x)' = Locking(blockedThreadPool'[x])
    BY ONLY <2>11, x \in Tid, ActivityExact', Zenon DEF ActivityExact
  <2>13. QED BY ONLY <2>6, <2>11, <2>12
<1>6. activityOf(t) = Running
  BY <1>0, Zenon DEF ActivityExact
<1>7. QED BY <1>4, <1>5, <1>6 DEF P!Wake, P!Running, P!Locking, Running, Locking

\* pthread_cond_signal: the first waiter is woken, if there is one.
LEMMA CondSignalStep ==
  ASSUME Inv, ActivityExact, ActivityExact', NEW t \in Tid, NEW c,
         executePThreadCondSignal(t, c)
  PROVE  [P!SpecNext]_(P!specVars)
<1>1. CASE c \notin Conds
  BY <1>1, StatusStutters DEF executePThreadCondSignal, assertFails
<1>2. CASE c \in Conds
  <2>1. /\ waiting[c] \in Seq(WaitParam) /\ waiting \in [Conds -> Seq(WaitParam)]
        /\ blockedThreadPool \in [Tid -> Mutexes \cup {NoObject}]
        /\ threadState \in [Tid -> ThreadStates]
    BY <1>2 DEF Inv, TypeOK
  <2>2. CASE waiting[c] = <<>>
    <3>1. /\ waiting' = waiting
          /\ blockedThreadPool' = addBlockedThreads(blockedThreadPool, <<>>)
          /\ threadState' = enter(threadState, threadsOf(<<>>), "MUTEX_BLOCKED")
          /\ UNCHANGED <<lockedThreadId, barrier, joinRecord>>
      BY <1>2, <2>1, <2>2, Zenon DEF executePThreadCondSignal, signal, signalled
    <3>2. blockedThreadPool' = blockedThreadPool
      BY <2>1, <3>1 DEF addBlockedThreads
    <3>3. threadState' = threadState
      <4>1. \A x : x \notin Range(threadsOf(<<>>))
        BY DEF threadsOf, Range
      <4>2. QED BY <2>1, <3>1, <4>1 DEF enter
    <3>4. QED BY <3>1, <3>2, <3>3, Stutters DEF managerVars
  <2>3. CASE waiting[c] # <<>>
    <3> DEFINE wps == <<Head(waiting[c])>>
               rest == Tail(waiting[c])
               w == Head(waiting[c]).threadId
    <3>1. signalled(c) = wps /\ waiting' = [waiting EXCEPT ![c] = rest]
      BY <1>2, <2>1, <2>3 DEF signalled, executePThreadCondSignal, signal
    <3>2. /\ wps \in Seq(WaitParam) /\ rest \in Seq(WaitParam)
          /\ Len(wps) = 1 /\ Len(waiting[c]) = Len(wps) + Len(rest)
          /\ wps[1] = waiting[c][1] /\ wps[1].threadId = w
          /\ 1 \in 1 .. Len(waiting[c]) /\ waiting[c][1] \in WaitParam
          /\ \A i \in 1 .. Len(rest) : rest[i] = waiting[c][i + Len(wps)]
      BY <2>1, <2>3
    <3> HIDE DEF wps, rest, w
    <3>3. \A i \in 1 .. Len(wps) : wps[i] = waiting[c][i]
      BY <3>2
    <3>4. w \in Tid /\ \A x \in Tid : x \in {w} <=> \E i \in 1 .. Len(wps) : wps[i].threadId = x
      BY <3>2 DEF WaitParam
    <3>5. /\ running(t)
          /\ waiting' = [waiting EXCEPT ![c] = rest]
          /\ blockedThreadPool' = addBlockedThreads(blockedThreadPool, wps)
          /\ threadState' = enter(threadState, threadsOf(wps), "MUTEX_BLOCKED")
          /\ UNCHANGED <<lockedThreadId, barrier, joinRecord>>
      BY <1>2, <3>1 DEF executePThreadCondSignal, signal
    <3>6. P!Wake(t, c, {w})
      BY ONLY Zenon, <1>2, <3>2, <3>3, <3>4, <3>5, Inv, ActivityExact, ActivityExact',
         t \in Tid, WakeStep
    <3>7. w \in P!WaitersOf(c)
      BY <1>2, <3>2, <3>4, Waiters, Zenon
    <3>8. QED BY <1>2, <3>6, <3>7, Zenon DEF P!SpecNext, P!Signal
  <2>4. QED BY <2>2, <2>3
<1>3. QED BY <1>1, <1>2

\* pthread_cond_broadcast: all waiters are woken.
LEMMA CondBroadcastStep ==
  ASSUME Inv, ActivityExact, ActivityExact', NEW t \in Tid, NEW c,
         executePThreadCondBroadcast(t, c)
  PROVE  [P!SpecNext]_(P!specVars)
<1>1. CASE c \notin Conds
  BY <1>1, StatusStutters DEF executePThreadCondBroadcast, assertFails
<1>2. CASE c \in Conds
  <2>1. waiting[c] \in Seq(WaitParam)
    BY <1>2 DEF Inv, TypeOK
  <2> DEFINE e == <<>>
  <2>2. /\ e \in Seq(WaitParam)
        /\ Len(waiting[c]) = Len(waiting[c]) + Len(e)
        /\ \A i \in 1 .. Len(waiting[c]) : waiting[c][i] = waiting[c][i]
        /\ \A i \in 1 .. Len(e) : e[i] = waiting[c][i + Len(waiting[c])]
    BY <2>1
  <2>3. /\ running(t)
        /\ waiting' = [waiting EXCEPT ![c] = e]
        /\ blockedThreadPool' = addBlockedThreads(blockedThreadPool, waiting[c])
        /\ threadState' = enter(threadState, threadsOf(waiting[c]), "MUTEX_BLOCKED")
        /\ UNCHANGED <<lockedThreadId, barrier, joinRecord>>
    BY <1>2 DEF executePThreadCondBroadcast, broadcast, broadcasted
  <2> HIDE DEF e
  <2>4. \A x \in Tid : x \in P!WaitersOf(c) <=>
          \E i \in 1 .. Len(waiting[c]) : waiting[c][i].threadId = x
    BY <1>2, Waiters
  <2>5. P!Wake(t, c, P!WaitersOf(c))
    BY ONLY Zenon, <1>2, <2>1, <2>2, <2>3, <2>4, Inv, ActivityExact, ActivityExact',
       t \in Tid, WakeStep
  <2>6. QED BY <1>2, <2>5 DEF P!SpecNext, P!Broadcast
<1>3. QED BY <1>1, <1>2

-----------------------------------------------------------------------------
\* pthread_barrier_init.
LEMMA BarrierInitStep ==
  ASSUME Inv, ActivityExact, ActivityExact', NEW t \in Tid, NEW b,
         NEW n \in BarrierCounts, executePThreadBarrierInit(t, b, n)
  PROVE  [P!SpecNext]_(P!specVars)
<1>0. threadState[t] = "RUNNABLE"
  BY DEF executePThreadBarrierInit, running
<1>1. CASE b \notin Barriers
  BY <1>1, StatusStutters DEF executePThreadBarrierInit, assertFails
<1>2. CASE b \in Barriers
  <2>1. /\ barrier' = [barrier EXCEPT ![b].count = n]
        /\ UNCHANGED <<threadState, lockedThreadId, blockedThreadPool, waiting, joinRecord>>
    BY <1>2 DEF executePThreadBarrierInit, init, schedulerVars, mutexVars
  <2>2. barrier \in [Barriers -> BarrierRecord] /\ n \in Nat
    BY BarriersAssumption DEF Inv, TypeOK
  <2>3. \A a \in Barriers : /\ barrier'[a].blockedList = barrier[a].blockedList
                            /\ barrier'[a].count = IF a = b THEN n ELSE barrier[a].count
    BY <1>2, <2>1, <2>2 DEF BarrierRecord
  <2>4. ASSUME NEW x \in Tid  PROVE activityOf(x)' = activityOf(x)
    <3>1. KeepsPlace(x)
      BY <2>1, <2>3 DEF KeepsPlace, WaitsAt, ArrivedAt, Joins
    <3>2. QED BY <3>1, KeepsActivity
  <2>5. activityOf(t) = Running
    BY <1>0, Zenon DEF ActivityExact
  <2>6. P!BarrierInit(t, b)
    BY <1>2, <2>1, <2>2, <2>3, <2>4, <2>5, Zenon DEF P!BarrierInit, P!Running, Running
  <2>7. QED BY <1>2, <2>6 DEF P!SpecNext
<1>3. QED BY <1>1, <1>2

\* A list without repetitions is as long as it has members.
LEMMA DistinctCardinality ==
  ASSUME NEW S, NEW s \in Seq(S), Distinct(s)
  PROVE  Cardinality(Range(s)) = Len(s)
<1>1. Len(s) \in Nat /\ DOMAIN s = 1 .. Len(s)
  OBVIOUS
<1>2. s \in Bijection(1 .. Len(s), Range(s))
  <2>1. s \in [1 .. Len(s) -> Range(s)]
    BY <1>1 DEF Range
  <2>2. IsInjective(s)
    BY InjectiveList
  <2>3. \A x \in Range(s) : \E i \in 1 .. Len(s) : s[i] = x
    BY InList
  <2>4. QED BY <2>1, <2>2, <2>3 DEF Bijection, Injection, Surjection
<1>3. IsFiniteSet(1 .. Len(s)) /\ Cardinality(1 .. Len(s)) = Len(s)
  BY ONLY <1>1, FS_Interval, SMTT(30)
<1>4. QED BY <1>2, <1>3, FS_Bijection DEF ExistsBijection

\* The threads at a barrier are the threads in its list, and the arrivals are
\* counted right.
LEMMA Present ==
  ASSUME Inv, ActivityExact, NEW b \in Barriers
  PROVE  /\ \A x \in Tid : activityOf(x) = AtBarrier(b) <=> ArrivedAt(x, b)
         /\ {x \in Tid : activityOf(x) = AtBarrier(b)} = Range(barrier[b].blockedList)
         /\ Cardinality(Range(barrier[b].blockedList)) = barrier[b].current
<1>1. ASSUME NEW x \in Tid, activityOf(x) = AtBarrier(b)  PROVE ArrivedAt(x, b)
  <2>1. activityOf(x).kind = "barrier" /\ activityOf(x).barrier = b
    BY <1>1 DEF AtBarrier
  <2>2. threadState[x] = "BARRIER_BLOCKED"
    BY <2>1, KindTellsState
  <2>3. PICK a \in Barriers : ArrivedAt(x, a)
    BY <2>2 DEF ActivityExact
  <2>4. activityOf(x) = AtBarrier(a)
    BY <2>3 DEF ActivityExact
  <2>5. a = b
    BY <2>1, <2>4 DEF AtBarrier
  <2>6. QED BY <2>3, <2>5
<1>2. \A x \in Tid : activityOf(x) = AtBarrier(b) <=> ArrivedAt(x, b)
  BY <1>1 DEF ActivityExact
<1>3. barrier[b] \in BarrierRecord
  BY DEF Inv, TypeOK
<1>4. barrier[b].blockedList \in Seq(Tid)
  BY <1>3 DEF BarrierRecord
<1>5. Distinct(barrier[b].blockedList) /\ barrier[b].current = Len(barrier[b].blockedList)
  BY DEF Inv, BarrierExact, Distinct
<1>6. \A x \in Range(barrier[b].blockedList) : x \in Tid
  BY <1>4, InList
<1>7. {x \in Tid : activityOf(x) = AtBarrier(b)} = Range(barrier[b].blockedList)
  BY <1>2, <1>6 DEF ArrivedAt
<1>8. QED BY <1>2, <1>4, <1>5, <1>7, DistinctCardinality

\* pthread_barrier_wait: the barrier opens with the last arrival it requires,
\* and stays closed before.
LEMMA BarrierWaitStep ==
  ASSUME Inv, ActivityExact, ActivityExact', NEW t \in Tid, NEW b,
         executePThreadBarrierWait(t, b)
  PROVE  [P!SpecNext]_(P!specVars)
<1>0. /\ threadState[t] = "RUNNABLE" /\ joinRecord' = joinRecord
      /\ activityOf(t) = Running
  BY DEF executePThreadBarrierWait, running, ActivityExact
<1>1. CASE b \notin Barriers
  BY <1>0, <1>1, StatusStutters DEF executePThreadBarrierWait
<1>2. CASE b \in Barriers
  <2> DEFINE list == barrier[b].blockedList
             present == {u \in Tid : activityOf(u) = AtBarrier(b)}
  <2>1. /\ present = Range(list)
        /\ Cardinality(present) = barrier[b].current
        /\ \A x \in Tid : activityOf(x) = AtBarrier(b) <=> x \in present
    BY <1>2, Present
  <2>2. barrier \in [Barriers -> BarrierRecord] /\ barrier[b] \in BarrierRecord
    BY <1>2 DEF Inv, TypeOK
  <2>3. list \in Seq(Tid)
    BY <2>2 DEF BarrierRecord
  <2>4. UNCHANGED <<mutexVars, waiting>>
    BY <1>2 DEF executePThreadBarrierWait
  <2>5. ASSUME activityOf(t)' = IF isFull(b) THEN Running ELSE AtBarrier(b),
               \A x \in Tid : x # t => activityOf(x)' =
                 IF isFull(b) /\ x \in present THEN Running ELSE activityOf(x),
               \A a \in Barriers : barrier'[a].count = barrier[a].count
        PROVE  P!Arrive(t, b)
    <3>0. P!AtBarrier(b) = AtBarrier(b) /\ P!Running = Running
      BY DEF P!AtBarrier, AtBarrier, P!Running, Running
    <3>1. {u \in Tid : [x \in Tid |-> activityOf(x)][u] = P!AtBarrier(b)} = present
      BY <3>0
    <3>2. t \notin present
      BY <1>0 DEF Running, AtBarrier
    <3>3. [x \in Barriers |-> barrier[x].count][b] = barrier[b].count
      BY <1>2
    <3>4. \A T : P!Cardinality(T) = Cardinality(T)
      BY Zenon DEF P!Cardinality, Cardinality
    <3> HIDE DEF present
    <3>5. P!Cardinality(present) + 1 = [x \in Barriers |-> barrier[x].count][b] <=> isFull(b)
      BY <2>1, <3>3, <3>4 DEF isFull
    <3>6. UNCHANGED <<lockedThreadId, [a \in Barriers |-> barrier[a].count]>>
      BY <2>4, <2>5 DEF mutexVars
    <3>7. CASE isFull(b)
      BY <1>0, <2>5, <3>0, <3>1, <3>2, <3>5, <3>6, <3>7, Zenon DEF P!Arrive
    <3>8. CASE ~ isFull(b)
      BY <1>0, <2>5, <3>0, <3>1, <3>5, <3>6, <3>8, Zenon DEF P!Arrive
    <3>9. QED BY <3>7, <3>8
  <2>6. CASE isFull(b)
    <3>1. /\ barrier' = [barrier EXCEPT ![b] =
               [count |-> barrier[b].count, current |-> 0, blockedList |-> <<>>]]
          /\ threadState' = enter(threadState, list, "RUNNABLE")
      BY <1>2, <2>6 DEF executePThreadBarrierWait, barrierWait
    <3>2. \A a \in Barriers : /\ barrier'[a].count = barrier[a].count
                              /\ a # b => barrier'[a] = barrier[a]
      BY <2>2, <3>1
    <3>3. \A x \in Tid : threadState'[x] = IF x \in Range(list) THEN "RUNNABLE"
                                           ELSE threadState[x]
      BY <3>1 DEF enter
    <3>4. \A x \in Range(list) : x \in Tid => activityOf(x)' = Running
      BY <3>3, Zenon DEF ActivityExact
    <3>5. activityOf(t)' = Running
      BY <1>0, <3>3, Zenon DEF ActivityExact
    <3>6. ASSUME NEW x \in Tid, x \notin Range(list)  PROVE activityOf(x)' = activityOf(x)
      <4>1. \A u \in Tid : Joins(x, u) => Joins(x, u)'
        BY <1>0, <3>3 DEF Joins
      <4>2. \A a \in Barriers : ArrivedAt(x, a) => ArrivedAt(x, a)'
        BY <3>2, <3>6 DEF ArrivedAt
      <4>3. /\ threadState'[x] = threadState[x] /\ blockedThreadPool'[x] = blockedThreadPool[x]
            /\ waiting' = waiting
        BY ONLY <2>4, <3>3, <3>6 DEF mutexVars
      <4>4. KeepsPlace(x)
        BY ONLY <4>1, <4>2, <4>3, SameWaits, Zenon DEF KeepsPlace
      <4>5. QED BY <4>4, KeepsActivity
    <3>7. P!Arrive(t, b)
      BY <2>1, <2>5, <2>6, <3>2, <3>4, <3>5, <3>6, SMTT(30)
    <3>8. QED BY <1>2, <3>7 DEF P!SpecNext
  <2>7. CASE ~ isFull(b)
    <3>1. /\ barrier' = [barrier EXCEPT ![b] =
               [count |-> barrier[b].count, current |-> barrier[b].current + 1,
                blockedList |-> Append(list, t)]]
          /\ threadState' = [threadState EXCEPT ![t] = "BARRIER_BLOCKED"]
      BY <1>2, <2>7 DEF executePThreadBarrierWait, barrierWait
    <3>2. /\ \A a \in Barriers : /\ barrier'[a].count = barrier[a].count
                                 /\ a # b => barrier'[a] = barrier[a]
          /\ barrier'[b].blockedList = Append(list, t)
      BY <1>2, <2>2, <3>1
    <3>3. \A x \in Tid : threadState'[x] = IF x = t THEN "BARRIER_BLOCKED"
                                           ELSE threadState[x]
      BY <3>1 DEF Inv, TypeOK
    <3>4. \A x : x \in Range(barrier'[b].blockedList) <=> x \in Range(list) \/ x = t
      BY <2>3, <3>2, AddItem DEF addItem
    <3>5. activityOf(t)' = AtBarrier(b)
      <4>1. ArrivedAt(t, b)'
        BY <3>4, SMTT(30) DEF ArrivedAt
      <4>2. QED BY <1>2, <4>1, Zenon DEF ActivityExact, AtBarrier
    <3>6. ASSUME NEW x \in Tid, x # t  PROVE activityOf(x)' = activityOf(x)
      <4>1. \A u \in Tid : Joins(x, u) => Joins(x, u)'
        BY <1>0, <3>3 DEF Joins
      <4>2. \A a \in Barriers : ArrivedAt(x, a) => ArrivedAt(x, a)'
        BY ONLY <3>2, <3>4, Zenon DEF ArrivedAt
      <4>3. /\ threadState'[x] = threadState[x] /\ blockedThreadPool'[x] = blockedThreadPool[x]
            /\ waiting' = waiting
        BY ONLY <2>4, <3>3, <3>6 DEF mutexVars
      <4>4. KeepsPlace(x)
        BY ONLY <4>1, <4>2, <4>3, SameWaits, Zenon DEF KeepsPlace
      <4>5. QED BY <4>4, KeepsActivity
    <3>7. P!Arrive(t, b)
      BY <2>5, <2>7, <3>2, <3>5, <3>6
    <3>8. QED BY <1>2, <3>7 DEF P!SpecNext
  <2>8. QED BY <2>6, <2>7
<1>3. QED BY <1>1, <1>2

-----------------------------------------------------------------------------
\* The end of a thread: the threads that join it run on, nobody else does.
LEMMA ThreadEndStep ==
  ASSUME Inv, ActivityExact, ActivityExact', NEW t \in Tid, threadEnd(t)
  PROVE  P!SpecNext
<1>1. /\ threadState[t] = "RUNNABLE"
      /\ threadState' = [enter(threadState, joinRecord[t], "RUNNABLE")
                           EXCEPT ![t] = "TERMINATED"]
      /\ UNCHANGED <<managerVars, joinRecord>>
  BY SMTT(30) DEF threadEnd, running
<1>2. \A x \in Tid : threadState'[x] =
        IF x = t THEN "TERMINATED"
        ELSE IF x \in Range(joinRecord[t]) THEN "RUNNABLE" ELSE threadState[x]
  BY <1>1 DEF enter
<1>3. \A x \in Tid : activityOf(x) = Joining(t) => Joins(x, t)
  <2> SUFFICES ASSUME NEW x \in Tid, activityOf(x) = Joining(t)  PROVE Joins(x, t)
    OBVIOUS
  <2>1. activityOf(x).kind = "joining" /\ activityOf(x).thread = t
    BY DEF Joining
  <2>2. threadState[x] = "JOIN_BLOCKED"
    BY <2>1, KindTellsState
  <2>3. PICK u \in Tid : Joins(x, u)
    BY <2>2, Zenon DEF ActivityExact
  <2>4. activityOf(x) = Joining(u)
    BY <2>3, Zenon DEF ActivityExact
  <2>5. u = t
    BY <2>1, <2>4 DEF Joining
  <2>6. QED BY <2>3, <2>5
<1>4. \A x \in Tid : activityOf(x) = Joining(t) <=> x \in Range(joinRecord[t])
  <2>1. \A x \in Tid : Joins(x, t) <=> x \in Range(joinRecord[t])
    BY ONLY <1>1 DEF Joins
  <2>2. \A x \in Tid : Joins(x, t) => activityOf(x) = Joining(t)
    BY ONLY ActivityExact, t \in Tid, Zenon DEF ActivityExact
  <2>3. QED BY ONLY <1>3, <2>1, <2>2
<1>5. activityOf(t) = Running /\ activityOf(t)' = Ended
  BY <1>1, <1>2, Zenon DEF ActivityExact, Ended
<1>6. ASSUME NEW x \in Tid, x # t, x \in Range(joinRecord[t])  PROVE activityOf(x)' = Running
  BY <1>2, <1>6, Zenon DEF ActivityExact, Running
<1>7. ASSUME NEW x \in Tid, x # t, x \notin Range(joinRecord[t])
      PROVE  activityOf(x)' = activityOf(x)
  <2>1. \A u \in Tid : Joins(x, u) => Joins(x, u)'
    BY <1>1, <1>2, <1>7 DEF Joins
  <2>2. /\ threadState'[x] = threadState[x] /\ blockedThreadPool'[x] = blockedThreadPool[x]
        /\ waiting' = waiting /\ barrier' = barrier
    BY ONLY <1>1, <1>2, <1>7 DEF managerVars
  <2>3. KeepsPlace(x)
    BY ONLY <2>1, <2>2, SameWaits, SameArrivals, Zenon DEF KeepsPlace
  <2>4. QED BY <2>3, KeepsActivity
<1>8. P!End(t)
  <2>1. P!Running = Running /\ P!Ended = Ended /\ P!Joining(t) = Joining(t)
    BY DEF P!Running, P!Ended, P!Joining, Running, Ended, Joining
  <2>2. QED BY <1>1, <1>4, <1>5, <1>6, <1>7, <2>1 DEF P!End, managerVars
<1>9. QED BY <1>8, SMTT(30) DEF P!SpecNext

\* The retry loop: the thread gets its mutex, or nothing happens to it.
LEMMA NotRunnableStep ==
  ASSUME Inv, ActivityExact, ActivityExact', NEW t \in Tid, notRunnable(t)
  PROVE  [P!SpecNext]_(P!specVars)
<1>1. CASE threadState[t] # "MUTEX_BLOCKED"
  BY <1>1, StatusStutters DEF notRunnable, unableToRun
<1>2. CASE threadState[t] = "MUTEX_BLOCKED"
  <2>1. PICK m \in Mutexes : blockedThreadPool[t] = m
    BY <1>2 DEF Inv, TypeOK, PoolExact
  <2>2. m # NoObject
    BY MutexesAssumption
  <2>3. lock(m, t) /\ UNCHANGED <<waiting, barrier, joinRecord>>
    BY <1>2, <2>1, <2>2 DEF notRunnable, retryLock
  <2>4. CASE isMutexLocked(m)
    <3>1. UNCHANGED <<threadState, lockedThreadId, blockedThreadPool>>
      BY <1>2, <2>1, <2>2, <2>3, <2>4 DEF notRunnable, retryLock, lock, insertBlocked
    <3>2. QED BY <2>3, <3>1, Stutters DEF managerVars
  <2>5. CASE ~ isMutexLocked(m)
    <3>1. /\ lockedThreadId[m] = 0
          /\ threadState' = [threadState EXCEPT ![t] = "RUNNABLE"]
          /\ lockedThreadId' = [lockedThreadId EXCEPT ![m] = t]
          /\ blockedThreadPool' = [blockedThreadPool EXCEPT ![t] = NoObject]
      BY <1>2, <2>1, <2>2, <2>3, <2>5 DEF notRunnable, retryLock, lock, isMutexLocked
    <3>2. QED BY <1>2, <2>1, <2>3, <3>1, AcquireStep, Zenon
  <2>6. QED BY <2>4, <2>5
<1>3. QED BY <1>1, <1>2

-----------------------------------------------------------------------------
\* A fresh ExecutionState: the main thread runs, the others are unborn.
LEMMA InitMaps == Init => P!SpecInit
<1> SUFFICES ASSUME Init  PROVE P!SpecInit
  OBVIOUS
<1>1. 1 \in Tid
  BY MaxThreadsAssumption DEF Tid
<1>2. \A t \in Tid : activityOf(t) = IF t = 1 THEN Running ELSE Unborn
  BY DEF Init, SchedulerInit, activityOf
<1>3. [t \in Tid |-> activityOf(t)] = [t \in Tid |-> IF t = 1 THEN P!Running ELSE P!Unborn]
  BY <1>2 DEF P!Running, P!Unborn, Running, Unborn
<1>4. lockedThreadId = [m \in Mutexes |-> 0]
  BY DEF Init, MutexManagerInit
<1>5. [b \in Barriers |-> barrier[b].count] \in [Barriers -> Nat]
  BY DEF Init, BarrierManagerInit, DEFAULTCOUNT
<1>6. QED BY <1>1, <1>3, <1>4, <1>5 DEF P!SpecInit

\* Every step of the executor is a step of PthreadSpec, or one that a user of
\* the pthread functions cannot see.
LEMMA NextMaps == Inv /\ Inv' /\ [Next]_vars => [P!SpecNext]_(P!specVars)
<1> SUFFICES ASSUME Inv, Inv', [Next]_vars  PROVE [P!SpecNext]_(P!specVars)
  OBVIOUS
<1>0. ActivityExact /\ ActivityExact'
  BY ActivityCases, ActivityCasesAfter
<1>1. ASSUME NEW t \in Tid, pthreadCall(t)  PROVE [P!SpecNext]_(P!specVars)
  BY <1>0, <1>1, CreateStep, JoinStep, MutexLockStep, MutexUnlockStep, CondWaitStep,
     CondSignalStep, CondBroadcastStep, BarrierWaitStep, BarrierInitStep, SMTT(30) DEF pthreadCall
<1>2. ASSUME NEW t \in Tid, terminates(t)  PROVE [P!SpecNext]_(P!specVars)
  BY <1>0, <1>2, ThreadEndStep, StatusStutters
     DEF terminates, terminateStateOnExit, terminateStateOnError
<1>3. ASSUME NEW t \in Tid, notRunnable(t)  PROVE [P!SpecNext]_(P!specVars)
  BY <1>0, <1>3, NotRunnableStep
<1>4. CASE UNCHANGED vars
  BY <1>4, Stutters DEF vars, managerVars
<1>5. QED BY <1>1, <1>2, <1>3, <1>4 DEF Next, runOver

\* The executor's queues, pools and lists together give every program the
\* pthread functions of PthreadSpec, whatever it calls, in every interleaving
\* and for any number of threads, mutexes, conditions and barriers: no wakeup
\* is lost or invented, a waiter returns with its mutex, a barrier and a join
\* release everybody they should and nobody else.
THEOREM RefinementCorrect == Spec => ImplementsPthreads
<1>1. Inv /\ Inv' /\ [Next]_vars => [P!SpecNext]_(P!specVars)
  BY NextMaps
<1>2. QED BY <1>1, InitMaps, InvHolds, PTL DEF Spec, ImplementsPthreads, P!PthreadSemantics
=============================================================================
