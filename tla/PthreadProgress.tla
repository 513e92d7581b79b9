---------------------------- MODULE PthreadProgress ----------------------------
(***************************************************************************)
(* PthreadRuntime for programs whose threads make at most Fuel             *)
(* synchronization calls each and then return.  For such a program the     *)
(* executor should come to an end; it is one loop in one OS thread that    *)
(* nothing else schedules, so weak fairness of its steps is all it takes.  *)
(***************************************************************************)
EXTENDS PthreadRuntime

CONSTANT Fuel           \* bound on the calls of each thread

ASSUME FuelAssumption == Fuel \in Nat

VARIABLE fuel           \* calls each thread may still make

fuelVars == <<vars, fuel>>

FuelInit == Init /\ fuel = [t \in Tid |-> Fuel]

\* The calls are the program's choice; that a thread ends, and that the
\* executor retries a lock, is not limited.
FuelNext ==
  \/ \E t \in Tid : /\ fuel[t] > 0
                    /\ pthreadCall(t)
                    /\ fuel' = [fuel EXCEPT ![t] = @ - 1]
  \/ \E t \in Tid : /\ threadEnd(t) \/ notRunnable(t)
                    /\ UNCHANGED fuel
  \/ runOver /\ UNCHANGED fuel

FuelSpec == FuelInit /\ [][FuelNext]_fuelVars /\ WF_fuelVars(FuelNext)

-----------------------------------------------------------------------------
\* Every thread the executor could select waits for a mutex that is locked.
\* Nothing ever unlocks one again.
MutexDeadlock ==
  /\ control = "run"
  /\ \A t \in Range(queue) : /\ threadState[t] = "MUTEX_BLOCKED"
                             /\ isMutexLocked(blockedThreadPool[t])

\* The rotation of the queue serves everybody: unless all threads left are
\* deadlocked on mutexes for good, every execution of a terminating program is
\* over some time.  In particular a thread whose mutex becomes free gets to try
\* for it, however many threads that cannot go on are in front of it.
RunEnds == <>(control # "run" \/ []MutexDeadlock)

\* The retry loop of Executor::run says "perhaps deadlock happen" and makes the
\* execution fail once it has come round to the thread it began with.
DeadlockReported ==
  MutexDeadlock ~> (control = "end" /\ execStatus = "RUNTIMEERROR")
=============================================================================
