-------------------------- MODULE PthreadRefinement --------------------------
(***************************************************************************)
(* PthreadRuntime implements PthreadSpec: the refinement mapping.  The     *)
(* queue, the order of the lists and the executor's status have no         *)
(* counterpart there.                                                      *)
(***************************************************************************)
EXTENDS PthreadRuntime, ThreadActivity

\* The condition and the mutex a COND_BLOCKED thread waits with.
conditionOf(t) == CHOOSE c \in Conds : t \in Range(threadsOf(waiting[c]))

mutexGivenUp(t) ==
  LET wps == waiting[conditionOf(t)]
  IN  wps[CHOOSE i \in 1 .. Len(wps) : wps[i].threadId = t].mutexName

barrierOf(t) == CHOOSE b \in Barriers : t \in Range(barrier[b].blockedList)

joinedBy(t) ==
  CHOOSE u \in Tid : threadState[u] # "TERMINATED" /\ t \in Range(joinRecord[u])

activityOf(t) ==
  CASE threadState[t] = "NONE"            -> Unborn
    [] threadState[t] = "RUNNABLE"        -> Running
    [] threadState[t] = "TERMINATED"      -> Ended
    [] threadState[t] = "MUTEX_BLOCKED"   -> Locking(blockedThreadPool[t])
    [] threadState[t] = "COND_BLOCKED"    -> Waiting(conditionOf(t), mutexGivenUp(t))
    [] threadState[t] = "BARRIER_BLOCKED" -> AtBarrier(barrierOf(t))
    [] threadState[t] = "JOIN_BLOCKED"    -> Joining(joinedBy(t))

P == INSTANCE PthreadSpec WITH
       Threads  <- Tid,
       activity <- [t \in Tid |-> activityOf(t)],
       owner    <- lockedThreadId,
       required <- [b \in Barriers |-> barrier[b].count]

\* The executor's queues, pools and lists together give the program the
\* pthread functions of PthreadSpec: no wakeup is lost or invented, a waiter
\* returns with its mutex, a barrier and a join release everybody they should
\* and nobody else.
ImplementsPthreads == P!PthreadSemantics
=============================================================================
