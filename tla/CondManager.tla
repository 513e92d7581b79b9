------------------------------ MODULE CondManager ------------------------------
(***************************************************************************)
(* lib/Core/Condition.cpp, CondScheduler.cpp (first in, first served) and  *)
(* CondManager.cpp: the condition variables with their lists of waiting    *)
(* threads.  A released thread goes to the mutex manager's pool: it still  *)
(* has to get its mutex back.                                              *)
(***************************************************************************)
EXTENDS MutexManager

CONSTANT Conds          \* addresses of the global pthread_cond_t objects

ASSUME CondsAssumption == NoObject \notin Conds

VARIABLE waiting        \* the WaitParams queued at each condition

WaitParam == [threadId : Tid, mutexName : Mutexes]

threadsOf(wps) == [i \in 1 .. Len(wps) |-> wps[i].threadId]

\* addBlockedThread for every WaitParam of the list wps.
addBlockedThreads(pool, wps) ==
  [t \in Tid |->
     IF pool[t] = NoObject /\ \E i \in 1 .. Len(wps) : wps[i].threadId = t
     THEN wps[CHOOSE i \in 1 .. Len(wps) : wps[i].threadId = t].mutexName
     ELSE pool[t]]

\* CondManager::wait succeeds.
canWait(c, m, t) == m \in Mutexes /\ c \in Conds /\ isThreadOwnMutex(m, t)

wait(c, m, t) ==
  /\ waiting' = [waiting EXCEPT ![c] =
                   Append(@, [threadId |-> t, mutexName |-> m])]
  /\ unlock(m)
  /\ UNCHANGED blockedThreadPool

\* The WaitParams that signal and broadcast take off the condition's list.
signalled(c) == IF waiting[c] = <<>> THEN <<>> ELSE <<Head(waiting[c])>>

broadcasted(c) == waiting[c]

\* Mutant: the released thread is not put into the pool.
signalWithoutPool(c) ==
  /\ waiting' = [waiting EXCEPT ![c] = IF @ = <<>> THEN <<>> ELSE Tail(@)]
  /\ UNCHANGED <<lockedThreadId, blockedThreadPool>>

signal(c) ==
  /\ waiting' = [waiting EXCEPT ![c] = IF @ = <<>> THEN <<>> ELSE Tail(@)]
  /\ blockedThreadPool' = addBlockedThreads(blockedThreadPool, signalled(c))
  /\ UNCHANGED lockedThreadId

broadcast(c) ==
  /\ waiting' = [waiting EXCEPT ![c] = <<>>]
  /\ blockedThreadPool' = addBlockedThreads(blockedThreadPool, broadcasted(c))
  /\ UNCHANGED lockedThreadId

CondManagerInit == waiting = [c \in Conds |-> <<>>]
=============================================================================
