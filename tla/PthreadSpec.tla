----------------------------- MODULE PthreadSpec -----------------------------
(***************************************************************************)
(* What the executor promises the analysed program: the pthread functions  *)
(* as their users know them.  There is no scheduler, no queue and no pool; *)
(* any running thread may take the next step, and a thread that waits is   *)
(* known by what it waits for.                                             *)
(***************************************************************************)
EXTENDS Naturals, FiniteSets, ThreadActivity

CONSTANTS Threads, Mutexes, Conds, Barriers

VARIABLES
  activity,             \* what each thread is doing
  owner,                \* the thread that holds each mutex, 0 for none
  required              \* the number of threads each barrier waits for

specVars == <<activity, owner, required>>

Activities ==
  {Unborn, Running, Ended}
    \cup {Locking(m) : m \in Mutexes}
    \cup {Waiting(c, m) : c \in Conds, m \in Mutexes}
    \cup {AtBarrier(b) : b \in Barriers}
    \cup {Joining(u) : u \in Threads}

\* The threads that wait at condition c, whatever their mutex.
WaitersOf(c) ==
  {t \in Threads : \E m \in Mutexes : activity[t] = Waiting(c, m)}

SpecInit ==
  /\ \E main \in Threads :
       activity = [t \in Threads |-> IF t = main THEN Running ELSE Unborn]
  /\ owner = [m \in Mutexes |-> 0]
  /\ required \in [Barriers -> Nat]

-----------------------------------------------------------------------------
Create(t, u) ==
  /\ activity[t] = Running
  /\ activity[u] = Unborn
  /\ activity' = [activity EXCEPT ![u] = Running]
  /\ UNCHANGED <<owner, required>>

\* A thread gets a free mutex, at once or after it was made to wait.
Acquire(t, m) ==
  /\ activity[t] \in {Running, Locking(m)}
  /\ owner[m] = 0
  /\ owner' = [owner EXCEPT ![m] = t]
  /\ activity' = [activity EXCEPT ![t] = Running]
  /\ UNCHANGED required

BlockOnMutex(t, m) ==
  /\ activity[t] = Running
  /\ owner[m] # 0
  /\ activity' = [activity EXCEPT ![t] = Locking(m)]
  /\ UNCHANGED <<owner, required>>

Release(t, m) ==
  /\ activity[t] = Running
  /\ owner' = [owner EXCEPT ![m] = 0]
  /\ UNCHANGED <<activity, required>>

\* Giving up the mutex and starting to wait is one step.
Wait(t, c, m) ==
  /\ activity[t] = Running
  /\ owner[m] = t
  /\ owner' = [owner EXCEPT ![m] = 0]
  /\ activity' = [activity EXCEPT ![t] = Waiting(c, m)]
  /\ UNCHANGED required

\* The released threads go for the mutexes they gave up.
Wake(t, c, S) ==
  /\ activity[t] = Running
  /\ activity' = [u \in Threads |->
                    IF u \in S THEN Locking(activity[u].mutex) ELSE activity[u]]
  /\ UNCHANGED <<owner, required>>

\* A signal to a condition somebody waits at is never lost.
Signal(t, c) == \E w \in WaitersOf(c) : Wake(t, c, {w})

Broadcast(t, c) == Wake(t, c, WaitersOf(c))

\* The count is the caller's choice.
BarrierInit(t, b) ==
  /\ activity[t] = Running
  /\ required'[b] \in Nat
  /\ required' = [required EXCEPT ![b] = required'[b]]
  /\ UNCHANGED <<activity, owner>>

\* Nobody leaves a barrier before the required number of threads has arrived,
\* and then everybody does.
Arrive(t, b) ==
  LET present == {u \in Threads : activity[u] = AtBarrier(b)}
  IN  /\ activity[t] = Running
      /\ activity' = IF Cardinality(present) + 1 = required[b]
                     THEN [u \in Threads |-> IF u \in present THEN Running
                                                              ELSE activity[u]]
                     ELSE [activity EXCEPT ![t] = AtBarrier(b)]
      /\ UNCHANGED <<owner, required>>

Join(t, u) ==
  /\ activity[t] = Running
  /\ activity[u] \notin {Unborn, Ended}
  /\ activity' = [activity EXCEPT ![t] = Joining(u)]
  /\ UNCHANGED <<owner, required>>

\* The end of a thread releases exactly the threads that join it.
End(t) ==
  /\ activity[t] = Running
  /\ activity' = [u \in Threads |->
                    IF u = t THEN Ended
                    ELSE IF activity[u] = Joining(t) THEN Running
                    ELSE activity[u]]
  /\ UNCHANGED <<owner, required>>

SpecNext ==
  \E t \in Threads :
    \/ End(t)
    \/ \E u \in Threads : Create(t, u) \/ Join(t, u)
    \/ \E m \in Mutexes :
         \/ Acquire(t, m) \/ BlockOnMutex(t, m) \/ Release(t, m)
         \/ \E c \in Conds : Wait(t, c, m)
    \/ \E c \in Conds : Signal(t, c) \/ Broadcast(t, c)
    \/ \E b \in Barriers : Arrive(t, b) \/ BarrierInit(t, b)

PthreadSemantics == SpecInit /\ [][SpecNext]_specVars
=============================================================================
