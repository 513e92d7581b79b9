-------------------------- MODULE PthreadInvariant --------------------------
(***************************************************************************)
(* Proofs about PthreadRuntime, for any number of threads, mutexes,        *)
(* conditions and barriers.  No single conjunct of the invariant below is  *)
(* inductive: that a thread is swapped in only when it is not queued needs *)
(* the lists of the managers to hold blocked threads only, and the other   *)
(* way round.                                                              *)
(***************************************************************************)
EXTENDS PthreadRuntime, ThreadSchedulerProofs

Inv ==
  /\ TypeOK
  /\ IdsExact
  /\ QueueExact
  /\ PoolExact
  /\ CondExact
  /\ BarrierExact
  /\ JoinExact
  /\ NeverBroken

\* The thread ids of a list of WaitParams.
LEMMA ThreadsOf ==
  ASSUME NEW wps \in Seq(WaitParam)
  PROVE  /\ threadsOf(wps) \in Seq(Tid)
         /\ Len(threadsOf(wps)) = Len(wps)
         /\ \A i \in 1 .. Len(wps) : threadsOf(wps)[i] = wps[i].threadId
         /\ \A t : t \in Range(threadsOf(wps)) <=>
                     \E i \in 1 .. Len(wps) : wps[i].threadId = t
<1>1. \A i \in 1 .. Len(wps) : wps[i].threadId \in Tid
  <2>1. \A i \in 1 .. Len(wps) : wps[i] \in WaitParam
    OBVIOUS
  <2>2. \A w \in WaitParam : w.threadId \in Tid
    BY DEF WaitParam
  <2>3. QED BY <2>1, <2>2
<1>2. /\ threadsOf(wps) \in Seq(Tid)
      /\ Len(threadsOf(wps)) = Len(wps)
      /\ \A i \in 1 .. Len(wps) : threadsOf(wps)[i] = wps[i].threadId
  BY <1>1 DEF threadsOf
<1>3. QED BY <1>2, InList

\* The selected thread is the first of the queue.
LEMMA Selected ==
  ASSUME Inv, NEW t \in Tid, selected(t)
  PROVE  t \in Range(queue) /\ isSchedulable(t) /\ control = "run"
<1>1. queue \in Seq(Tid) /\ queue # <<>> /\ t = queue[1]
  BY DEF Inv, TypeOK, selected, selectNextItem
<1>2. 1 \in 1 .. Len(queue)
  BY <1>1
<1>3. QED BY <1>1, <1>2, InList DEF Inv, QueueExact, selected

\* The end of an iteration leaves status and control well typed.
LEMMA FinishIteration ==
  ASSUME Inv, control = "run", finishIteration
  PROVE  /\ execStatus' \in {"SUCCESS", "RUNTIMEERROR"}
         /\ control' \in {"run", "end", "aborted", "broken"}
         /\ control' # "broken"
BY DEF Inv, TypeOK, finishIteration

\* The invariant only depends on the variables other than status and control.
LEMMA StatusOnly ==
  ASSUME Inv,
         UNCHANGED <<schedulerVars, managerVars, joinRecord>>,
         execStatus' \in {"SUCCESS", "RUNTIMEERROR"},
         control' \in {"run", "end", "aborted"}
  PROVE  Inv'
BY DEF Inv, TypeOK, IdsExact, QueueExact, PoolExact, CondExact, BarrierExact,
       JoinExact, NeverBroken, schedulerVars, managerVars, isSchedulable, exists

\* A fresh ExecutionState with empty managers satisfies the invariant.
LEMMA InitInv == Init => Inv
<1> SUFFICES ASSUME Init PROVE Inv
  OBVIOUS
<1> USE MaxThreadsAssumption DEF Init, SchedulerInit, MutexManagerInit,
        CondManagerInit, BarrierManagerInit
<1>0. 1 \in Tid /\ queue \in Seq(Tid) /\ Len(queue) = 1 /\ queue[1] = 1
  BY DEF Tid
<1>1. TypeOK
  BY <1>0 DEF TypeOK, ThreadStates, BarrierRecord, DEFAULTCOUNT, Tid
<1>2. IdsExact
  BY DEF IdsExact, exists, Tid
<1>3. QueueExact
  <2>1. \A x : x \in Range(queue) <=> x = 1
    <3>1. \A i : i \in 1 .. Len(queue) <=> i = 1
      BY <1>0
    <3>2. \A x : x \in Range(queue) <=> \E i \in 1 .. Len(queue) : queue[i] = x
      BY ZenonT(30), <1>0, InList
    <3>3. QED BY ONLY <1>0, <3>1, <3>2
  <2>2. Distinct(queue)
    BY <1>0 DEF Distinct
  <2>3. QED BY Zenon, <1>0, <2>1, <2>2, InjectiveList DEF QueueExact, isSchedulable, Tid
<1>4. PoolExact
  BY DEF PoolExact
<1>5. CondExact
  <2>1. \A c \in Conds : waiting[c] = <<>> /\ Len(waiting[c]) = 0
    OBVIOUS
  <2>2. \A c \in Conds : waiting[c] \in Seq(WaitParam)
    OBVIOUS
  <2>3. ASSUME NEW t \in Tid, NEW c \in Conds
        PROVE  t \notin Range(threadsOf(waiting[c]))
    <3>1. ~ \E i \in 1 .. Len(waiting[c]) : waiting[c][i].threadId = t
      BY ONLY <2>1
    <3>2. QED BY ONLY <2>2, <3>1, ThreadsOf
  <2>4. QED BY <2>1, <2>3 DEF CondExact
<1>6. BarrierExact
  <2>1. \A b \in Barriers : barrier[b].blockedList = <<>> /\ barrier[b].current = 0
    OBVIOUS
  <2>2. \A b \in Barriers : Len(barrier[b].blockedList) = 0
    BY <2>1
  <2>3. \A t \in Tid : \A b \in Barriers : t \notin Range(barrier[b].blockedList)
    BY <2>1 DEF Range
  <2>4. QED BY <2>1, <2>2, <2>3 DEF BarrierExact
<1>7. JoinExact
  <2>1. \A u \in Tid : joinRecord[u] = <<>> /\ Len(joinRecord[u]) = 0
    OBVIOUS
  <2>2. \A t \in Tid : \A u \in Tid : t \notin Range(joinRecord[u])
    BY <2>1 DEF Range
  <2>3. QED BY <2>1, <2>2 DEF JoinExact
<1>8. NeverBroken
  BY DEF NeverBroken
<1>9. QED BY <1>1, <1>2, <1>3, <1>4, <1>5, <1>6, <1>7, <1>8 DEF Inv

-----------------------------------------------------------------------------
\* A step that leaves the lists of the conditions alone, neither blocks nor
\* releases a thread there and gives no mutex to one that waits there.
LEMMA CondFrame ==
  ASSUME Inv, waiting' = waiting,
         \A t \in Tid : threadState'[t] = "COND_BLOCKED"
                          <=> threadState[t] = "COND_BLOCKED",
         \A m \in Mutexes : \/ lockedThreadId'[m] = lockedThreadId[m]
                            \/ lockedThreadId'[m] = 0
                            \/ /\ lockedThreadId'[m] \in Tid
                               /\ threadState[lockedThreadId'[m]] # "COND_BLOCKED"
  PROVE  CondExact'
<1>1. /\ \A t \in Tid : threadState'[t] = "COND_BLOCKED" <=>
           \E c \in Conds : t \in Range(threadsOf(waiting'[c]))
      /\ \A c, d \in Conds :
           \A i \in 1 .. Len(waiting'[c]), j \in 1 .. Len(waiting'[d]) :
             waiting'[c][i].threadId = waiting'[d][j].threadId => c = d /\ i = j
  BY DEF Inv, CondExact
<1>2. ASSUME NEW c \in Conds, NEW i \in 1 .. Len(waiting[c])
      PROVE  lockedThreadId'[waiting[c][i].mutexName] # waiting[c][i].threadId
  <2> DEFINE w == waiting[c][i]
  <2>1. waiting[c] \in Seq(WaitParam)
    BY DEF Inv, TypeOK
  <2>2. w \in WaitParam
    BY <2>1
  <2>3. w.threadId \in Tid /\ w.mutexName \in Mutexes /\ w.threadId # 0
    BY <2>2 DEF WaitParam, Tid
  <2>4. w.threadId \in Range(threadsOf(waiting[c]))
    BY <2>1, ThreadsOf
  <2>5. threadState[w.threadId] = "COND_BLOCKED"
    BY <2>3, <2>4 DEF Inv, CondExact
  <2>6. lockedThreadId[w.mutexName] # w.threadId
    BY DEF Inv, CondExact
  <2>7. QED BY <2>3, <2>5, <2>6
<1>3. QED BY <1>1, <1>2 DEF CondExact

\* A step that leaves the lists of the barriers alone.
LEMMA BarrierFrame ==
  ASSUME Inv,
         \A b \in Barriers : /\ barrier'[b].blockedList = barrier[b].blockedList
                             /\ barrier'[b].current = barrier[b].current,
         \A t \in Tid : threadState'[t] = "BARRIER_BLOCKED"
                          <=> threadState[t] = "BARRIER_BLOCKED"
  PROVE  BarrierExact'
BY SMTT(30) DEF Inv, BarrierExact

\* A step that leaves the join records alone and ends no thread.
LEMMA JoinFrame ==
  ASSUME Inv, joinRecord' = joinRecord,
         \A t \in Tid : /\ threadState'[t] = "JOIN_BLOCKED"
                             <=> threadState[t] = "JOIN_BLOCKED"
                        /\ threadState'[t] = "TERMINATED"
                             <=> threadState[t] = "TERMINATED"
  PROVE  JoinExact'
BY DEF Inv, JoinExact

\* pthread_create: the new id is unused, so the new thread is queued once.
LEMMA CreateInv ==
  ASSUME Inv, NEW t \in Tid, executePThreadCreate(t)
  PROVE  Inv'
<1>1. CASE nextThreadId > MaxThreads
  BY <1>1, StatusOnly DEF executePThreadCreate, assertFails, Inv, TypeOK
<1>2. CASE ~ nextThreadId > MaxThreads
  <2> DEFINE n == nextThreadId
  <2>0. /\ running(t) /\ createThread /\ finishIteration
        /\ UNCHANGED <<managerVars, joinRecord>>
    BY <1>2 DEF executePThreadCreate
  <2>1. n \in Tid /\ threadState[n] = "NONE" /\ n \notin Range(queue)
    <3>1. n \in Tid /\ ~ n < nextThreadId
      BY <1>2, MaxThreadsAssumption DEF Inv, TypeOK, Tid
    <3>2. threadState[n] = "NONE"
      BY <3>1 DEF Inv, IdsExact, exists
    <3>3. QED BY <3>1, <3>2 DEF Inv, QueueExact, isSchedulable
  <2>2. /\ queue \in Seq(Tid) /\ Distinct(queue)
    BY InjectiveList DEF Inv, TypeOK, QueueExact
  <2>3. /\ queue' \in Seq(Tid) /\ Distinct(queue')
        /\ \A x : x \in Range(queue') <=> x \in Range(queue) \/ x = n
    BY Zenon, <2>0, <2>1, <2>2, AddItem DEF createThread
  <2>4. \A x \in Tid : threadState'[x] = IF x = n THEN "RUNNABLE" ELSE threadState[x]
    BY <2>0 DEF createThread, Inv, TypeOK
  <2>5. TypeOK'
    <3>1. threadState' \in [Tid -> ThreadStates] /\ n + 1 \in 2 .. MaxThreads + 1
      BY <1>2, <2>0, <2>1, MaxThreadsAssumption
         DEF createThread, Inv, TypeOK, ThreadStates, Tid
    <3>2. QED BY <2>0, <2>3, <3>1, FinishIteration
          DEF createThread, Inv, TypeOK, managerVars, running, selected
  <2>6. IdsExact'
    BY <2>0, <2>1, <2>4 DEF createThread, Inv, TypeOK, IdsExact, exists, Tid
  <2>7. QueueExact'
    BY <2>1, <2>3, <2>4, InjectiveList DEF Inv, QueueExact, isSchedulable
  <2>8. PoolExact'
    BY <2>0, <2>1, <2>4 DEF Inv, PoolExact, managerVars
  <2>9. CondExact' /\ BarrierExact' /\ JoinExact'
    BY <2>0, <2>1, <2>4, CondFrame, BarrierFrame, JoinFrame DEF managerVars
  <2>10. NeverBroken'
    BY <2>0, FinishIteration DEF running, selected, NeverBroken
  <2>11. QED BY <2>5, <2>6, <2>7, <2>8, <2>9, <2>10 DEF Inv
<1>3. QED BY <1>1, <1>2

-----------------------------------------------------------------------------
\* The running thread is blocked outside the mutex manager and swapped out.
LEMMA SwapOut ==
  ASSUME Inv, NEW t \in Tid, running(t), nextThreadId' = nextThreadId,
         NEW st \in {"COND_BLOCKED", "BARRIER_BLOCKED", "JOIN_BLOCKED"},
         threadState' = [threadState EXCEPT ![t] = st],
         queue' = removeItem(queue, t)
  PROVE  /\ threadState' \in [Tid -> ThreadStates]
         /\ queue' \in Seq(Tid)
         /\ \A x \in Tid : threadState'[x] = IF x = t THEN st ELSE threadState[x]
         /\ IdsExact' /\ QueueExact'
<1>1. /\ threadState' \in [Tid -> ThreadStates]
      /\ \A x \in Tid : threadState'[x] = IF x = t THEN st ELSE threadState[x]
  BY DEF Inv, TypeOK, ThreadStates
<1>2. threadState[t] = "RUNNABLE" /\ t \in Range(queue)
  BY Selected DEF running
<1>3. queue \in Seq(Tid) /\ Distinct(queue)
  BY InjectiveList DEF Inv, TypeOK, QueueExact
<1>4. /\ queue' \in Seq(Tid) /\ Distinct(queue')
      /\ \A x : x \in Range(queue') <=> x \in Range(queue) /\ x # t
  BY <1>2, <1>3, RemoveItem
<1>5. IdsExact'
  BY <1>1, <1>2 DEF Inv, IdsExact, exists
<1>6. QueueExact'
  BY <1>1, <1>4, InjectiveList DEF Inv, QueueExact, isSchedulable
<1>7. QED BY <1>1, <1>4, <1>5, <1>6

\* Threads blocked outside the mutex manager are swapped in.
LEMMA SwapInThreads ==
  ASSUME Inv, NEW ts \in Seq(Tid), Distinct(ts), nextThreadId' = nextThreadId,
         \A x \in Range(ts) : x \in Tid /\ threadState[x] \in
             {"COND_BLOCKED", "BARRIER_BLOCKED", "JOIN_BLOCKED"},
         NEW st \in {"RUNNABLE", "MUTEX_BLOCKED"},
         threadState' = enter(threadState, ts, st),
         queue' = swapIn(queue, ts)
  PROVE  /\ threadState' \in [Tid -> ThreadStates]
         /\ queue' \in Seq(Tid)
         /\ \A x \in Tid : threadState'[x] =
              IF x \in Range(ts) THEN st ELSE threadState[x]
         /\ IdsExact' /\ QueueExact'
<1>1. /\ threadState' \in [Tid -> ThreadStates]
      /\ \A x \in Tid : threadState'[x] =
           IF x \in Range(ts) THEN st ELSE threadState[x]
  BY DEF Inv, TypeOK, ThreadStates, enter
<1>2. queue \in Seq(Tid) /\ Distinct(queue)
  BY InjectiveList DEF Inv, TypeOK, QueueExact
<1>3. \A x \in Range(ts) : x \notin Range(queue)
  BY DEF Inv, QueueExact, isSchedulable
<1>4. /\ queue' \in Seq(Tid) /\ Distinct(queue')
      /\ \A x : x \in Range(queue') <=> x \in Range(queue) \/ x \in Range(ts)
  BY <1>2, <1>3, SwapIn
<1>5. IdsExact'
  BY <1>1 DEF Inv, IdsExact, exists
<1>6. QueueExact'
  BY <1>1, <1>4, InjectiveList DEF Inv, QueueExact, isSchedulable
<1>7. QED BY <1>1, <1>4, <1>5, <1>6

\* pthread_join: the caller goes on, or is recorded once and swapped out.
LEMMA JoinInv ==
  ASSUME Inv, NEW t \in Tid, NEW u \in Tid, executePThreadJoin(t, u)
  PROVE  Inv'
<1>0. running(t) /\ control = "run"
  BY DEF executePThreadJoin, running, selected
<1>1. CASE ~ exists(u)
  BY Zenon, <1>1, StatusOnly DEF executePThreadJoin, assertFails, Inv, TypeOK
<1>2. CASE exists(u) /\ threadState[u] = "TERMINATED"
  <2>1. UNCHANGED <<schedulerVars, managerVars, joinRecord>> /\ finishIteration
    BY <1>2 DEF executePThreadJoin
  <2>2. QED BY <1>0, <2>1, StatusOnly, FinishIteration
<1>3. CASE exists(u) /\ threadState[u] # "TERMINATED"
  <2>0. /\ joinRecord' = [joinRecord EXCEPT ![u] = Append(@, t)]
        /\ threadState' = [threadState EXCEPT ![t] = "JOIN_BLOCKED"]
        /\ queue' = removeItem(queue, t)
        /\ nextThreadId' = nextThreadId /\ UNCHANGED managerVars
        /\ finishIteration
    BY <1>3 DEF executePThreadJoin
  <2>1. /\ threadState' \in [Tid -> ThreadStates] /\ queue' \in Seq(Tid)
        /\ \A x \in Tid : threadState'[x] =
             IF x = t THEN "JOIN_BLOCKED" ELSE threadState[x]
        /\ IdsExact' /\ QueueExact'
    BY Zenon, <1>0, <2>0, SwapOut
  <2>2. threadState[t] = "RUNNABLE"
    BY <1>0 DEF running
  <2>3. \A v \in Tid : joinRecord[v] \in Seq(Tid)
    BY DEF Inv, TypeOK
  <2>4. /\ joinRecord' \in [Tid -> Seq(Tid)]
        /\ joinRecord'[u] = Append(joinRecord[u], t)
        /\ \A v \in Tid \ {u} : joinRecord'[v] = joinRecord[v]
    BY <2>0, <2>3 DEF Inv, TypeOK
  <2>5. TypeOK'
    BY <1>0, <2>0, <2>1, <2>4, FinishIteration DEF Inv, TypeOK, managerVars
  <2>6. PoolExact'
    BY <2>0, <2>1, <2>2 DEF Inv, PoolExact, managerVars
  <2>7. CondExact' /\ BarrierExact'
    BY <2>0, <2>1, <2>2, CondFrame, BarrierFrame DEF managerVars
  <2>8. JoinExact'
    <3>1. /\ \A v \in Tid \ {u} : \A x : x \in Range(joinRecord'[v]) <=> x \in Range(joinRecord[v])
          /\ \A x : x \in Range(joinRecord'[u]) <=> x \in Range(joinRecord[u]) \/ x = t
      BY <2>3, <2>4, AddItem DEF addItem
    <3>2. \A v \in Tid : threadState'[v] # "TERMINATED" <=> threadState[v] # "TERMINATED"
      BY <2>1, <2>2
    <3>3. ASSUME NEW v \in Tid, threadState[v] # "TERMINATED"
          PROVE  t \notin Range(joinRecord[v])
      BY <2>2, <3>3 DEF Inv, JoinExact
    <3>4. \A x \in Tid : threadState'[x] = "JOIN_BLOCKED" <=>
            \E v \in Tid : threadState'[v] # "TERMINATED" /\ x \in Range(joinRecord'[v])
      BY Zenon, <1>3, <2>1, <2>2, <3>1, <3>2, <3>3 DEF Inv, JoinExact
    <3>5. /\ Len(joinRecord[u]) \in Nat
          /\ Len(joinRecord'[u]) = Len(joinRecord[u]) + 1
          /\ \A i \in 1 .. Len(joinRecord[u]) : joinRecord'[u][i] = joinRecord[u][i]
          /\ joinRecord'[u][Len(joinRecord[u]) + 1] = t
      BY <2>3, <2>4
    <3>6. ASSUME NEW v \in Tid, NEW i \in 1 .. Len(joinRecord'[v])
          PROVE  \/ i \in 1 .. Len(joinRecord[v]) /\ joinRecord'[v][i] = joinRecord[v][i]
                 \/ v = u /\ i = Len(joinRecord[u]) + 1 /\ joinRecord'[v][i] = t
      <4>1. CASE v # u
        BY <2>4, <4>1
      <4>2. CASE v = u
        <5>1. i \in 1 .. Len(joinRecord[u]) + 1
          BY <3>5, <4>2
        <5>2. i \in 1 .. Len(joinRecord[u]) \/ i = Len(joinRecord[u]) + 1
          BY ONLY Len(joinRecord[u]) \in Nat, <5>1
        <5>3. QED BY Zenon, <3>5, <4>2, <5>2
      <4>3. QED BY <4>1, <4>2
    <3>7. ASSUME NEW v \in Tid, NEW i \in 1 .. Len(joinRecord[v]),
                 threadState[v] # "TERMINATED"
          PROVE  joinRecord[v][i] # t
      BY <2>3, <3>3, <3>7, InList
    <3>8. ASSUME NEW v \in Tid, NEW w \in Tid,
                 NEW i \in 1 .. Len(joinRecord'[v]), NEW j \in 1 .. Len(joinRecord'[w]),
                 threadState'[v] # "TERMINATED", threadState'[w] # "TERMINATED",
                 joinRecord'[v][i] = joinRecord'[w][j]
          PROVE  v = w /\ i = j
      <4>1. CASE i \in 1 .. Len(joinRecord[v]) /\ joinRecord'[v][i] = joinRecord[v][i]
        <5>1. j \in 1 .. Len(joinRecord[w]) /\ joinRecord'[w][j] = joinRecord[w][j]
          BY Zenon, <3>2, <3>6, <3>7, <3>8, <4>1
        <5>2. threadState[v] # "TERMINATED" /\ threadState[w] # "TERMINATED"
          BY <3>2, <3>8
        <5>3. joinRecord[v][i] = joinRecord[w][j]
          BY Zenon, <3>8, <4>1, <5>1
        <5>4. QED BY <4>1, <5>1, <5>2, <5>3 DEF Inv, JoinExact
      <4>2. CASE v = u /\ i = Len(joinRecord[u]) + 1 /\ joinRecord'[v][i] = t
        <5>1. ~ (j \in 1 .. Len(joinRecord[w]) /\ joinRecord'[w][j] = joinRecord[w][j])
          BY Zenon, <3>2, <3>7, <3>8, <4>2
        <5>2. w = u /\ j = Len(joinRecord[u]) + 1
          BY Zenon, <3>6, <5>1
        <5>3. QED BY Zenon, <4>2, <5>2
      <4>3. QED BY <3>6, <4>1, <4>2
    <3>9. QED BY <3>4, <3>8 DEF JoinExact
  <2>9. NeverBroken'
    BY <1>0, <2>0, FinishIteration DEF NeverBroken
  <2>10. QED BY <2>1, <2>5, <2>6, <2>7, <2>8, <2>9 DEF Inv
<1>4. QED BY Zenon, <1>1, <1>2, <1>3

-----------------------------------------------------------------------------
\* pthread_mutex_lock: a caller that has to wait gets its entry in the pool
\* together with its state, and stays queued.
LEMMA MutexLockInv ==
  ASSUME Inv, NEW t \in Tid, NEW m, executePThreadMutexLock(t, m)
  PROVE  Inv'
<1>0. /\ running(t) /\ control = "run"
      /\ threadState[t] = "RUNNABLE" /\ blockedThreadPool[t] = NoObject
  BY DEF executePThreadMutexLock, running, selected, Inv, PoolExact
<1>1. CASE m \notin Mutexes
  BY <1>1, StatusOnly DEF executePThreadMutexLock, assertFails, Inv, TypeOK
<1>2. CASE m \in Mutexes
  <2>0. /\ lock(m, t) /\ finishIteration
        /\ threadState' = [threadState EXCEPT ![t] =
                             IF isMutexLocked(m) THEN "MUTEX_BLOCKED" ELSE @]
        /\ UNCHANGED <<queue, nextThreadId, waiting, barrier, joinRecord>>
    BY <1>2 DEF executePThreadMutexLock
  <2>1. /\ threadState' \in [Tid -> ThreadStates]
        /\ \A x \in Tid : threadState'[x] = IF x = t /\ isMutexLocked(m)
                                            THEN "MUTEX_BLOCKED" ELSE threadState[x]
    BY <2>0 DEF Inv, TypeOK, ThreadStates
  <2>2. /\ blockedThreadPool' \in [Tid -> Mutexes \cup {NoObject}]
        /\ \A x \in Tid : blockedThreadPool'[x] = IF x = t /\ isMutexLocked(m)
                                                  THEN m ELSE blockedThreadPool[x]
    <3>1. blockedThreadPool \in [Tid -> Mutexes \cup {NoObject}]
      BY DEF Inv, TypeOK
    <3>2. CASE isMutexLocked(m)
      <4>1. blockedThreadPool' = [blockedThreadPool EXCEPT ![t] = m]
        BY <1>0, <2>0, <3>2 DEF lock, insertBlocked
      <4>2. QED BY <1>2, <3>1, <3>2, <4>1
    <3>3. CASE ~ isMutexLocked(m)
      <4>1. blockedThreadPool' = [blockedThreadPool EXCEPT ![t] = NoObject]
        BY <2>0, <3>3 DEF lock
      <4>2. QED BY <1>0, <3>1, <3>3, <4>1
    <3>4. QED BY <3>2, <3>3
  <2>3. /\ lockedThreadId' \in [Mutexes -> Tid \cup {0}]
        /\ \A n \in Mutexes : lockedThreadId'[n] \in {lockedThreadId[n], t}
    <3>1. lockedThreadId \in [Mutexes -> Tid \cup {0}]
      BY DEF Inv, TypeOK
    <3>2. \/ lockedThreadId' = lockedThreadId
          \/ lockedThreadId' = [lockedThreadId EXCEPT ![m] = t]
      BY <2>0 DEF lock
    <3>3. QED BY <1>2, <3>1, <3>2
  <2>4. TypeOK'
    BY <1>0, <2>0, <2>1, <2>2, <2>3, FinishIteration DEF Inv, TypeOK
  <2>5. IdsExact' /\ QueueExact'
    BY <1>0, <2>0, <2>1 DEF Inv, IdsExact, QueueExact, exists, isSchedulable
  <2>6. PoolExact'
    BY <1>0, <1>2, <2>1, <2>2, MutexesAssumption DEF Inv, PoolExact
  <2>7. BarrierExact' /\ JoinExact'
    BY <1>0, <2>0, <2>1, BarrierFrame, JoinFrame
  <2>8. CondExact'
    BY <1>0, <2>0, <2>1, <2>3, CondFrame
  <2>9. NeverBroken'
    BY <1>0, <2>0, FinishIteration DEF NeverBroken
  <2>10. QED BY <2>4, <2>5, <2>6, <2>7, <2>8, <2>9 DEF Inv
<1>3. QED BY <1>1, <1>2

\* pthread_mutex_unlock wakes nobody: pool and queue stay as they are.
LEMMA MutexUnlockInv ==
  ASSUME Inv, NEW t \in Tid, NEW m, executePThreadMutexUnlock(t, m)
  PROVE  Inv'
<1>0. control = "run"
  BY DEF executePThreadMutexUnlock, running, selected
<1>1. CASE m \notin Mutexes
  BY <1>1, StatusOnly DEF executePThreadMutexUnlock, assertFails, Inv, TypeOK
<1>2. CASE m \in Mutexes
  <2>0. /\ unlock(m) /\ finishIteration
        /\ UNCHANGED <<schedulerVars, blockedThreadPool, waiting, barrier, joinRecord>>
    BY <1>2 DEF executePThreadMutexUnlock
  <2>1. /\ lockedThreadId' \in [Mutexes -> Tid \cup {0}]
        /\ \A n \in Mutexes : lockedThreadId'[n] \in {lockedThreadId[n], 0}
    BY <1>2, <2>0 DEF unlock, Inv, TypeOK
  <2>2. TypeOK'
    BY <1>0, <2>0, <2>1, FinishIteration DEF Inv, TypeOK, schedulerVars
  <2>3. IdsExact' /\ QueueExact' /\ PoolExact'
    BY <2>0 DEF Inv, IdsExact, QueueExact, PoolExact, exists, isSchedulable,
                schedulerVars
  <2>4. BarrierExact' /\ JoinExact'
    BY <2>0, BarrierFrame, JoinFrame DEF schedulerVars
  <2>5. CondExact'
    BY <2>0, <2>1, CondFrame DEF schedulerVars
  <2>6. NeverBroken'
    BY <1>0, <2>0, FinishIteration DEF NeverBroken
  <2>7. QED BY <2>2, <2>3, <2>4, <2>5, <2>6 DEF Inv
<1>3. QED BY <1>1, <1>2

\* A MUTEX_BLOCKED thread is in the pool, so its retry never breaks.
LEMMA NotRunnableInv ==
  ASSUME Inv, NEW t \in Tid, notRunnable(t)
  PROVE  Inv'
<1> DEFINE m == blockedThreadPool[t]
<1>1. /\ selected(t) /\ control = "run" /\ threadState[t] = "MUTEX_BLOCKED"
      /\ m \in Mutexes /\ m # NoObject
  BY Selected, MutexesAssumption
     DEF notRunnable, selected, isSchedulable, Inv, TypeOK, PoolExact
<1>2. /\ lock(m, t)
      /\ IF isMutexLocked(m)
         THEN queue' = reSchedule(queue) /\ UNCHANGED threadState
         ELSE /\ threadState' = [threadState EXCEPT ![t] = "RUNNABLE"]
              /\ UNCHANGED queue
      /\ UNCHANGED <<nextThreadId, control, waiting, barrier, joinRecord, execStatus>>
  BY <1>1 DEF notRunnable, retryLock
<1> HIDE DEF m
<1>3. CASE isMutexLocked(m)
  <2>1. UNCHANGED <<threadState, lockedThreadId, blockedThreadPool>>
    BY <1>1, <1>2, <1>3 DEF lock, insertBlocked, m
  <2>2. queue \in Seq(Tid) /\ queue # <<>> /\ Distinct(queue)
    BY <1>1, InjectiveList DEF selected, Inv, TypeOK, QueueExact
  <2>3. /\ queue' \in Seq(Tid) /\ Distinct(queue')
        /\ \A x : x \in Range(queue') <=> x \in Range(queue)
    BY <1>2, <1>3, <2>2, ReSchedule
  <2>4. TypeOK'
    BY <1>2, <2>1, <2>3 DEF Inv, TypeOK
  <2>5. QueueExact'
    BY <2>1, <2>3, InjectiveList DEF Inv, QueueExact, isSchedulable
  <2>6. IdsExact' /\ PoolExact' /\ NeverBroken'
    BY <1>2, <2>1 DEF Inv, IdsExact, PoolExact, NeverBroken, exists
  <2>7. CondExact' /\ BarrierExact' /\ JoinExact'
    BY <1>2, <2>1, CondFrame, BarrierFrame, JoinFrame
  <2>8. QED BY <2>4, <2>5, <2>6, <2>7 DEF Inv
<1>4. CASE ~ isMutexLocked(m)
  <2>1. /\ threadState' \in [Tid -> ThreadStates]
        /\ \A x \in Tid : threadState'[x] = IF x = t THEN "RUNNABLE" ELSE threadState[x]
    <3>1. threadState' = [threadState EXCEPT ![t] = "RUNNABLE"]
      BY <1>2, <1>4
    <3>2. QED BY <3>1 DEF Inv, TypeOK, ThreadStates
  <2>2. /\ blockedThreadPool' \in [Tid -> Mutexes \cup {NoObject}]
        /\ \A x \in Tid : blockedThreadPool'[x] =
             IF x = t THEN NoObject ELSE blockedThreadPool[x]
    <3>1. blockedThreadPool' = [blockedThreadPool EXCEPT ![t] = NoObject]
      BY <1>2, <1>4 DEF lock
    <3>2. QED BY <3>1 DEF Inv, TypeOK
  <2>3. /\ lockedThreadId' \in [Mutexes -> Tid \cup {0}]
        /\ \A n \in Mutexes : lockedThreadId'[n] \in {lockedThreadId[n], t}
    <3>1. lockedThreadId' = [lockedThreadId EXCEPT ![m] = t]
      BY <1>2, <1>4 DEF lock
    <3>2. QED BY <1>1, <3>1 DEF Inv, TypeOK
  <2>4. TypeOK'
    BY <1>2, <1>4, <2>1, <2>2, <2>3 DEF Inv, TypeOK
  <2>5. IdsExact' /\ QueueExact'
    BY <1>1, <1>2, <1>4, <2>1 DEF Inv, IdsExact, QueueExact, exists, isSchedulable
  <2>6. PoolExact' /\ NeverBroken'
    BY <1>1, <1>2, <2>1, <2>2 DEF Inv, PoolExact, NeverBroken
  <2>7. BarrierExact' /\ JoinExact'
    BY <1>1, <1>2, <2>1, BarrierFrame, JoinFrame
  <2>8. CondExact'
    BY <1>1, <1>2, <2>1, <2>3, CondFrame
  <2>9. QED BY <2>4, <2>5, <2>6, <2>7, <2>8 DEF Inv
<1>5. QED BY <1>3, <1>4

-----------------------------------------------------------------------------
\* The end of a thread releases the threads its record names.  They are in no
\* other record of a thread that has not ended, so none is released twice.
LEMMA ThreadEndInv ==
  ASSUME Inv, NEW t \in Tid, threadEnd(t)
  PROVE  Inv'
<1> DEFINE ts == joinRecord[t]
           q == swapIn(queue, ts)
<1>0. /\ running(t) /\ control = "run" /\ threadState[t] = "RUNNABLE"
      /\ t \in Range(queue)
  BY Selected DEF threadEnd, running, selected
<1>1. /\ threadState' = [enter(threadState, ts, "RUNNABLE") EXCEPT ![t] = "TERMINATED"]
      /\ queue' = removeItem(q, t) /\ nextThreadId' = nextThreadId
      /\ UNCHANGED <<managerVars, joinRecord>> /\ finishIteration
  BY DEF threadEnd
<1>2. \A u \in Tid : /\ joinRecord[u] \in Seq(Tid)
                     /\ \A x : x \in Range(joinRecord[u]) <=>
                          \E i \in 1 .. Len(joinRecord[u]) : joinRecord[u][i] = x
  BY InList DEF Inv, TypeOK
<1>3. ASSUME NEW u \in Tid, NEW v \in Tid,
             NEW i \in 1 .. Len(joinRecord[u]), NEW j \in 1 .. Len(joinRecord[v]),
             threadState[u] # "TERMINATED", threadState[v] # "TERMINATED",
             joinRecord[u][i] = joinRecord[v][j]
      PROVE  u = v /\ i = j
  BY <1>3 DEF Inv, JoinExact
<1>4. \A x \in Tid : threadState[x] = "JOIN_BLOCKED" <=>
        \E u \in Tid : threadState[u] # "TERMINATED" /\ x \in Range(joinRecord[u])
  BY DEF Inv, JoinExact
<1>5. ts \in Seq(Tid) /\ Distinct(ts)
  BY <1>0, <1>2, <1>3 DEF Distinct
<1>6. \A x \in Range(ts) : x \in Tid /\ threadState[x] = "JOIN_BLOCKED"
  <2>1. \A i \in 1 .. Len(ts) : ts[i] \in Tid
    BY <1>5
  <2>2. \A x \in Range(ts) : x \in Tid
    BY Zenon, <1>2, <2>1
  <2>3. \A x \in Range(ts) :
          threadState[t] # "TERMINATED" /\ x \in Range(joinRecord[t])
    BY <1>0
  <2>4. QED BY ONLY t \in Tid, <1>4, <2>2, <2>3
<1> HIDE DEF ts
<1>7. queue \in Seq(Tid) /\ Distinct(queue)
  BY InjectiveList DEF Inv, TypeOK, QueueExact
<1>8. \A x \in Range(ts) : x \notin Range(queue)
  BY <1>6 DEF Inv, QueueExact, isSchedulable
<1>9. /\ q \in Seq(Tid) /\ Distinct(q)
      /\ \A x : x \in Range(q) <=> x \in Range(queue) \/ x \in Range(ts)
  BY <1>5, <1>7, <1>8, SwapIn
<1> HIDE DEF q
<1>10. t \in Range(q)
  BY <1>0, <1>9
<1>11. /\ queue' \in Seq(Tid) /\ Distinct(queue')
       /\ \A x : x \in Range(queue') <=> x \in Range(q) /\ x # t
  BY <1>1, <1>9, <1>10, RemoveItem
<1>12. /\ threadState' \in [Tid -> ThreadStates]
       /\ \A x \in Tid : threadState'[x] =
            IF x = t THEN "TERMINATED"
            ELSE IF x \in Range(ts) THEN "RUNNABLE" ELSE threadState[x]
  BY <1>1 DEF enter, Inv, TypeOK, ThreadStates
<1>13. TypeOK'
  BY <1>0, <1>1, <1>11, <1>12, FinishIteration DEF Inv, TypeOK, managerVars
<1>14. IdsExact'
  BY <1>0, <1>1, <1>6, <1>12 DEF Inv, IdsExact, exists
<1>15. QueueExact'
  BY <1>9, <1>11, <1>12, InjectiveList DEF Inv, QueueExact, isSchedulable
<1>16. PoolExact'
  BY <1>0, <1>1, <1>6, <1>12 DEF Inv, PoolExact, managerVars
<1>17. CondExact' /\ BarrierExact'
  BY <1>0, <1>1, <1>6, <1>12, CondFrame, BarrierFrame DEF managerVars
<1>18. JoinExact'
  <2>1. \A u \in Tid : threadState'[u] # "TERMINATED"
                         <=> threadState[u] # "TERMINATED" /\ u # t
    BY <1>6, <1>12
  <2>2. ASSUME NEW x \in Tid, NEW u \in Tid, threadState'[u] # "TERMINATED",
               x \in Range(joinRecord[u]), x \in Range(ts)
        PROVE  FALSE
    <3>1. PICK i \in 1 .. Len(joinRecord[u]) : joinRecord[u][i] = x
      BY Zenon, <1>2, <2>2
    <3>2. PICK j \in 1 .. Len(joinRecord[t]) : joinRecord[t][j] = x
      BY Zenon, <1>2, <2>2 DEF ts
    <3>3. u = t
      BY <1>0, <1>3, <2>1, <2>2, <3>1, <3>2
    <3>4. QED BY <2>1, <2>2, <3>3
  <2>3. \A x \in Tid : threadState'[x] = "JOIN_BLOCKED" <=>
          \E u \in Tid : threadState'[u] # "TERMINATED" /\ x \in Range(joinRecord[u])
    <3> SUFFICES ASSUME NEW x \in Tid
                 PROVE  threadState'[x] = "JOIN_BLOCKED" <=>
                          \E u \in Tid : /\ threadState'[u] # "TERMINATED"
                                         /\ x \in Range(joinRecord[u])
      OBVIOUS
    <3>1. threadState'[x] = "JOIN_BLOCKED" <=>
            threadState[x] = "JOIN_BLOCKED" /\ x \notin Range(ts)
      BY <1>0, <1>12
    <3>2. QED BY <1>4, <2>1, <2>2, <3>1 DEF ts
  <2>4. ASSUME NEW u \in Tid, NEW v \in Tid,
               NEW i \in 1 .. Len(joinRecord[u]), NEW j \in 1 .. Len(joinRecord[v]),
               threadState'[u] # "TERMINATED", threadState'[v] # "TERMINATED",
               joinRecord[u][i] = joinRecord[v][j]
        PROVE  u = v /\ i = j
    BY <1>3, <2>1, <2>4
  <2>5. QED BY <1>1, <2>3, <2>4 DEF JoinExact
<1>19. NeverBroken'
  BY <1>0, <1>1, FinishIteration DEF NeverBroken
<1>20. QED BY <1>13, <1>14, <1>15, <1>16, <1>17, <1>18, <1>19 DEF Inv
=============================================================================
