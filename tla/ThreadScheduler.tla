--------------------------- MODULE ThreadScheduler ---------------------------
(***************************************************************************)
(* The threads of the analysed program and the first-in-first-served run   *)
(* queue the executor takes them from (lib/Core/ThreadScheduler.cpp,       *)
(* Thread.h, ThreadList.cpp and the thread operations of                   *)
(* ExecutionState.cpp).                                                    *)
(*                                                                         *)
(* The operators work on values, not on the variables, because one handler *)
(* of the executor swaps several threads in and one out.                   *)
(***************************************************************************)
EXTENDS Naturals, Sequences, Functions

CONSTANT MaxThreads     \* the bound asserted on thread ids; 5 in the code

ASSUME MaxThreadsAssumption == MaxThreads \in Nat \ {0}

VARIABLES
  threadState,          \* Thread::threadState by thread id
  queue,                \* FIFSThreadScheduler::queue, a list of thread ids
  nextThreadId          \* the static counter Thread::nextThreadId

schedulerVars == <<threadState, queue, nextThreadId>>

Tid == 1 .. MaxThreads

\* "NONE": the slot of ThreadList is empty, the thread was not created.
ThreadStates == {"NONE", "RUNNABLE", "MUTEX_BLOCKED", "COND_BLOCKED",
                 "BARRIER_BLOCKED", "JOIN_BLOCKED", "TERMINATED"}

isSchedulable(t) == threadState[t] \in {"RUNNABLE", "MUTEX_BLOCKED"}

exists(t) == threadState[t] # "NONE"

selectNextItem(q) == Head(q)

addItem(q, t) == Append(q, t)

\* The first position of t in q.
firstAt(q, t) == CHOOSE i \in DOMAIN q : q[i] = t /\ \A j \in 1 .. i - 1 : q[j] # t

\* Mutant: the thread that was swapped out stays in the queue.
removeNothing(q, t) == q

\* Only the first occurrence is erased.
removeItem(q, t) ==
  IF t \in Range(q)
  THEN LET i == firstAt(q, t) IN SubSeq(q, 1, i - 1) \o SubSeq(q, i + 1, Len(q))
  ELSE q

\* Mutant: the thread that cannot go on stays in front.
keepFront(q) == q

reSchedule(q) == Append(Tail(q), Head(q))

\* swapInThread for every thread of the list ts, in the order of the list.
swapIn(q, ts) == q \o ts

\* The thread states after every thread of the list ts entered state st.
enter(states, ts, st) ==
  [t \in Tid |-> IF t \in Range(ts) THEN st ELSE states[t]]

\* createThread(kf): the next id, a new RUNNABLE thread at the end of the queue.
createThread ==
  /\ threadState' = [threadState EXCEPT ![nextThreadId] = "RUNNABLE"]
  /\ queue' = addItem(queue, nextThreadId)
  /\ nextThreadId' = nextThreadId + 1

\* A fresh ExecutionState: one thread, number 1, RUNNABLE and queued.
SchedulerInit ==
  /\ threadState = [t \in Tid |-> IF t = 1 THEN "RUNNABLE" ELSE "NONE"]
  /\ queue = <<1>>
  /\ nextThreadId = 2
=============================================================================
