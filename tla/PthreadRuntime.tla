---------------------------- MODULE PthreadRuntime ----------------------------
(***************************************************************************)
(* One execution of a multithreaded program by Executor::run               *)
(* (lib/Core/Executor.cpp), without a prefix: the run loop, the handlers   *)
(* of the pthread functions, the end of a thread and the retry loop for    *)
(* threads that wait for a mutex.                                          *)
(*                                                                         *)
(* The executor is one OS thread that interprets the program's threads.    *)
(* What the selected thread does next is up to the program, so it is the   *)
(* source of nondeterminism here; instructions that are no synchronization *)
(* leave the state of this module alone and are not modelled.  One step is *)
(* one iteration of the run loop that executes an instruction, or one      *)
(* iteration of the inner retry loop.                                      *)
(***************************************************************************)
EXTENDS CondManager, BarrierManager

ASSUME NoObjectAssumption == NoObject \notin Barriers

VARIABLES
  joinRecord,           \* Executor::joinRecord: who waits for the end of whom
  execStatus,           \* Executor::execStatus
  control               \* "run"     the run loop is going on
                        \* "end"     the run loop has been left
                        \* "aborted" an assert on the program's call failed
                        \* "broken"  an assert on the executor's state failed

managerVars == <<lockedThreadId, blockedThreadPool, waiting, barrier>>

vars == <<threadState, queue, nextThreadId, lockedThreadId, blockedThreadPool,
          waiting, barrier, joinRecord, execStatus, control>>

-----------------------------------------------------------------------------
\* The run loop takes thread t: getNextThread, then a switch on its state.
selected(t) == control = "run" /\ queue # <<>> /\ t = selectNextItem(queue)

running(t) == selected(t) /\ threadState[t] = "RUNNABLE"

examineAllThreadFinalState(states) ==
  \A t \in Tid : states[t] \in {"NONE", "TERMINATED"}

\* The end of an iteration of the run loop: an empty queue ends the execution.
finishIteration ==
  IF queue' = <<>>
  THEN /\ control' = "end"
       /\ execStatus' = IF examineAllThreadFinalState(threadState')
                        THEN "SUCCESS" ELSE "RUNTIMEERROR"
  ELSE UNCHANGED <<control, execStatus>>

\* An assert on the arguments of a call fails: the analysis is aborted.
assertFails ==
  /\ control' = "aborted"
  /\ UNCHANGED <<schedulerVars, managerVars, joinRecord, execStatus>>

-----------------------------------------------------------------------------
\* Mutant: the bound on thread ids is checked before the id is taken.
createOneTooMany(t) ==
  /\ running(t)
  /\ IF nextThreadId > MaxThreads + 1
     THEN assertFails
     ELSE /\ createThread
          /\ UNCHANGED <<managerVars, joinRecord>>
          /\ finishIteration

executePThreadCreate(t) ==
  /\ running(t)
  /\ IF nextThreadId > MaxThreads
     THEN assertFails
     ELSE /\ createThread
          /\ UNCHANGED <<managerVars, joinRecord>>
          /\ finishIteration

\* Joining a thread that has ended goes on at once.
executePThreadJoin(t, u) ==
  /\ running(t)
  /\ \/ /\ ~ exists(u)
        /\ assertFails
     \/ /\ exists(u)
        /\ threadState[u] = "TERMINATED"
        /\ UNCHANGED <<schedulerVars, managerVars, joinRecord>>
        /\ finishIteration
     \/ /\ exists(u)
        /\ threadState[u] # "TERMINATED"
        /\ joinRecord' = [joinRecord EXCEPT ![u] = Append(@, t)]
        /\ threadState' = [threadState EXCEPT ![t] = "JOIN_BLOCKED"]
        /\ queue' = removeItem(queue, t)
        /\ UNCHANGED <<nextThreadId, managerVars>>
        /\ finishIteration

executePThreadCondWait(t, c, m) ==
  /\ running(t)
  /\ IF ~ canWait(c, m, t)
     THEN assertFails
     ELSE /\ wait(c, m, t)
          /\ threadState' = [threadState EXCEPT ![t] = "COND_BLOCKED"]
          /\ queue' = removeItem(queue, t)
          /\ UNCHANGED <<nextThreadId, barrier, joinRecord>>
          /\ finishIteration

executePThreadCondSignal(t, c) ==
  /\ running(t)
  /\ IF c \notin Conds
     THEN assertFails
     ELSE /\ signal(c)
          /\ threadState' = enter(threadState, threadsOf(signalled(c)),
                                  "MUTEX_BLOCKED")
          /\ queue' = swapIn(queue, threadsOf(signalled(c)))
          /\ UNCHANGED <<nextThreadId, barrier, joinRecord>>
          /\ finishIteration

executePThreadCondBroadcast(t, c) ==
  /\ running(t)
  /\ IF c \notin Conds
     THEN assertFails
     ELSE /\ broadcast(c)
          /\ threadState' = enter(threadState, threadsOf(broadcasted(c)),
                                  "MUTEX_BLOCKED")
          /\ queue' = swapIn(queue, threadsOf(broadcasted(c)))
          /\ UNCHANGED <<nextThreadId, barrier, joinRecord>>
          /\ finishIteration

\* A thread that finds the mutex locked stays in the queue, MUTEX_BLOCKED.
executePThreadMutexLock(t, m) ==
  /\ running(t)
  /\ IF m \notin Mutexes
     THEN assertFails
     ELSE /\ lock(m, t)
          /\ threadState' = [threadState EXCEPT ![t] =
                               IF isMutexLocked(m) THEN "MUTEX_BLOCKED" ELSE @]
          /\ UNCHANGED <<queue, nextThreadId, waiting, barrier, joinRecord>>
          /\ finishIteration

executePThreadMutexUnlock(t, m) ==
  /\ running(t)
  /\ IF m \notin Mutexes
     THEN assertFails
     ELSE /\ unlock(m)
          /\ UNCHANGED <<schedulerVars, blockedThreadPool, waiting, barrier,
                         joinRecord>>
          /\ finishIteration

executePThreadBarrierInit(t, b, n) ==
  /\ running(t)
  /\ IF b \notin Barriers
     THEN assertFails
     ELSE /\ init(b, n)
          /\ UNCHANGED <<schedulerVars, mutexVars, waiting, joinRecord>>
          /\ finishIteration

\* The last thread to arrive goes on and swaps the others in.  The assert for
\* an unknown barrier has a string literal for its condition: it never fails.
executePThreadBarrierWait(t, b) ==
  /\ running(t)
  /\ \/ /\ b \notin Barriers
        /\ UNCHANGED <<schedulerVars, managerVars>>
     \/ /\ b \in Barriers
        /\ isFull(b)
        /\ barrierWait(b, t)
        /\ threadState' = enter(threadState, barrier[b].blockedList, "RUNNABLE")
        /\ queue' = swapIn(queue, barrier[b].blockedList)
        /\ UNCHANGED <<nextThreadId, mutexVars, waiting>>
     \/ /\ b \in Barriers
        /\ ~ isFull(b)
        /\ barrierWait(b, t)
        /\ threadState' = [threadState EXCEPT ![t] = "BARRIER_BLOCKED"]
        /\ queue' = removeItem(queue, t)
        /\ UNCHANGED <<nextThreadId, mutexVars, waiting>>
  /\ UNCHANGED joinRecord
  /\ finishIteration

\* Ret in the outermost frame of a thread: the joiners are swapped in, then
\* the thread is swapped out.  Its mutexes stay locked, its record stays.
threadEnd(t) ==
  /\ running(t)
  /\ threadState' = [enter(threadState, joinRecord[t], "RUNNABLE")
                       EXCEPT ![t] = "TERMINATED"]
  /\ queue' = removeItem(swapIn(queue, joinRecord[t]), t)
  /\ UNCHANGED <<nextThreadId, managerVars, joinRecord>>
  /\ finishIteration

\* exit() and the early terminations: the state is removed, the status stays.
terminateStateOnExit(t) ==
  /\ running(t)
  /\ control' = "end"
  /\ UNCHANGED <<schedulerVars, managerVars, joinRecord, execStatus>>

\* An instruction of the program fails (bad memory access, failed assertion).
terminateStateOnError(t) ==
  /\ running(t)
  /\ control' = "end"
  /\ execStatus' = "RUNTIMEERROR"
  /\ UNCHANGED <<schedulerVars, managerVars, joinRecord>>

-----------------------------------------------------------------------------
\* One iteration of the retry loop.  A thread that gets its mutex runs on; one
\* that does not goes to the end of the queue.  The flag that should break the
\* loop is declared inside the loop body, so it is FALSE whenever it is read
\* and the "perhaps deadlock happen" branch is never taken.
retryLock(t) ==
  /\ LET m == blockedThreadPool[t]
     IN  IF m = NoObject
         THEN /\ control' = "broken"
              /\ UNCHANGED <<schedulerVars, mutexVars>>
         ELSE /\ lock(m, t)
              /\ IF isMutexLocked(m)
                 THEN queue' = reSchedule(queue) /\ UNCHANGED threadState
                 ELSE /\ threadState' = [threadState EXCEPT ![t] = "RUNNABLE"]
                      /\ UNCHANGED queue
              /\ UNCHANGED <<nextThreadId, control>>
  /\ UNCHANGED <<waiting, barrier, joinRecord, execStatus>>

\* The default case of the switch: the thread is unable to run.
unableToRun ==
  /\ control' = "end"
  /\ execStatus' = "RUNTIMEERROR"
  /\ UNCHANGED <<schedulerVars, managerVars, joinRecord>>

\* The selected thread is not RUNNABLE.
notRunnable(t) ==
  /\ selected(t)
  /\ threadState[t] # "RUNNABLE"
  /\ IF threadState[t] = "MUTEX_BLOCKED" THEN retryLock(t) ELSE unableToRun

-----------------------------------------------------------------------------
Init ==
  /\ SchedulerInit
  /\ MutexManagerInit
  /\ CondManagerInit
  /\ BarrierManagerInit
  /\ joinRecord = [t \in Tid |-> <<>>]
  /\ execStatus = "SUCCESS"
  /\ control = "run"

\* The synchronization calls of the selected thread.  The program may pass the
\* address of something that was never registered.
pthreadCall(t) ==
  \/ executePThreadCreate(t)
  \/ \E u \in Tid : executePThreadJoin(t, u)
  \/ \E m \in Mutexes \cup {NoObject} :
       \/ executePThreadMutexLock(t, m)
       \/ executePThreadMutexUnlock(t, m)
       \/ \E c \in Conds \cup {NoObject} : executePThreadCondWait(t, c, m)
  \/ \E c \in Conds \cup {NoObject} :
       \/ executePThreadCondSignal(t, c)
       \/ executePThreadCondBroadcast(t, c)
  \/ \E b \in Barriers \cup {NoObject} :
       \/ executePThreadBarrierWait(t, b)
       \/ \E n \in BarrierCounts : executePThreadBarrierInit(t, b, n)

terminates(t) ==
  \/ threadEnd(t)
  \/ terminateStateOnExit(t)
  \/ terminateStateOnError(t)

\* run has returned, or the process is gone.
runOver == control # "run" /\ UNCHANGED vars

Next ==
  \/ \E t \in Tid : pthreadCall(t) \/ terminates(t) \/ notRunnable(t)
  \/ runOver

Spec == Init /\ [][Next]_vars
-----------------------------------------------------------------------------
TypeOK ==
  /\ threadState \in [Tid -> ThreadStates]
  /\ queue \in Seq(Tid)
  /\ nextThreadId \in 2 .. MaxThreads + 1
  /\ lockedThreadId \in [Mutexes -> Tid \cup {0}]
  /\ blockedThreadPool \in [Tid -> Mutexes \cup {NoObject}]
  /\ waiting \in [Conds -> Seq(WaitParam)]
  /\ barrier \in [Barriers -> BarrierRecord]
  /\ joinRecord \in [Tid -> Seq(Tid)]
  /\ execStatus \in {"SUCCESS", "RUNTIMEERROR"}
  /\ control \in {"run", "end", "aborted", "broken"}

\* The run queue holds every thread the executor may select and no other, each
\* of them once, although handlers swap threads in and out at five places.
QueueExact ==
  /\ IsInjective(queue)
  /\ \A t \in Tid : isSchedulable(t) <=> t \in Range(queue)

\* The ids handed out so far are those of the threads that exist.
IdsExact == \A t \in Tid : exists(t) <=> t < nextThreadId

\* A thread waits for a mutex exactly when the pool knows which one.
PoolExact ==
  \A t \in Tid : threadState[t] = "MUTEX_BLOCKED" <=> blockedThreadPool[t] # NoObject

\* A thread is COND_BLOCKED exactly when it is in one condition's list, once,
\* and it does not hold the mutex it gave up there.
CondExact ==
  /\ \A t \in Tid : threadState[t] = "COND_BLOCKED" <=>
       \E c \in Conds : t \in Range(threadsOf(waiting[c]))
  /\ \A c, d \in Conds :
       \A i \in 1 .. Len(waiting[c]), j \in 1 .. Len(waiting[d]) :
         waiting[c][i].threadId = waiting[d][j].threadId => c = d /\ i = j
  /\ \A c \in Conds : \A i \in 1 .. Len(waiting[c]) :
       lockedThreadId[waiting[c][i].mutexName] # waiting[c][i].threadId

\* A thread is BARRIER_BLOCKED exactly when it is in one barrier's list, once,
\* and the arrivals counted are the threads in the list.
BarrierExact ==
  /\ \A t \in Tid : threadState[t] = "BARRIER_BLOCKED" <=>
       \E b \in Barriers : t \in Range(barrier[b].blockedList)
  /\ \A a, b \in Barriers :
       \A i \in 1 .. Len(barrier[a].blockedList),
          j \in 1 .. Len(barrier[b].blockedList) :
         barrier[a].blockedList[i] = barrier[b].blockedList[j] => a = b /\ i = j
  /\ \A b \in Barriers : barrier[b].current = Len(barrier[b].blockedList)

\* A thread is JOIN_BLOCKED exactly when the record of one thread that has not
\* ended names it, once.  Records of ended threads are never erased.
JoinExact ==
  /\ \A t \in Tid : threadState[t] = "JOIN_BLOCKED" <=>
       \E u \in Tid : threadState[u] # "TERMINATED" /\ t \in Range(joinRecord[u])
  /\ \A u, v \in Tid :
       \A i \in 1 .. Len(joinRecord[u]), j \in 1 .. Len(joinRecord[v]) :
         /\ threadState[u] # "TERMINATED"
         /\ threadState[v] # "TERMINATED"
         /\ joinRecord[u][i] = joinRecord[v][j]
         => u = v /\ i = j

\* Every blocked thread is registered exactly once, with the manager its state
\* names, so the call that should wake it will find it; a thread that is not
\* blocked is registered nowhere.
RegisteredWhereBlocked == PoolExact /\ CondExact /\ BarrierExact /\ JoinExact

\* The asserts of the executor on its own state never fail: a MUTEX_BLOCKED
\* thread always has a mutex to try for, in every order of calls.
NeverBroken == control # "broken"

=============================================================================
