----------------------------- MODULE ThreadClock -----------------------------
(***************************************************************************)
(* The vector clocks that Executor.cpp and TaintListener.cpp keep for the  *)
(* threads of a taint execution, and the copies that the accesses of       *)
(* shared variables get.  DTAM decides with these copies which reads a     *)
(* write cannot reach.                                                     *)
(*                                                                         *)
(* Next to the clocks go two records of what really was before what: all   *)
(* of it, and the part of it that goes through the calls which pass clocks *)
(* on.  Mutexes leave the clocks alone and are left out.                   *)
(***************************************************************************)
EXTENDS Naturals, Sequences, FiniteSets

CONSTANTS
  LastThreadId,         \* largest thread id that getNextThreadId gives out
  ClockSize,            \* length of a vector clock
  MaxCalls,             \* bound: calls of each thread
  NONE                  \* the state of a thread before it exists

ASSUME ClockAssumption ==
  /\ LastThreadId \in Nat \ {0}
  /\ ClockSize \in Nat
  /\ NONE \notin {"RUNNABLE", "JOIN_BLOCKED", "COND_BLOCKED", "TERMINATED"}

Threads == 1 .. LastThreadId

VARIABLES
  threadState,          \* Thread::threadState, NONE before the thread exists
  vectorClock,          \* Thread::vectorClock
  joinRecord,           \* Executor::joinRecord
  waitingList,          \* the waiting threads of the condition, first in first out
  calls,                \* calls of each thread so far
  accesses,             \* the accesses, with their copies of the clock
  passed, before        \* accesses before each thread's next step

clockVars == <<threadState, vectorClock, joinRecord, waitingList, calls, accesses,
               passed, before>>

-----------------------------------------------------------------------------
\* n increments.  Incrementing an entry the vector does not have writes elsewhere.
ticks(clock, t, n) == IF t < ClockSize THEN [clock EXCEPT ![t] = @ + n] ELSE clock

tick(clock, t) == ticks(clock, t, 1)

\* The loop that lets a thread take over the larger entries of another.
merge(clock, other) ==
  [i \in DOMAIN clock |-> IF clock[i] < other[i] THEN other[i] ELSE clock[i]]

\* A call of the running thread t.
runs(t) == threadState[t] = "RUNNABLE" /\ calls[t] < MaxCalls[t]
           /\ calls' = [calls EXCEPT ![t] = @ + 1]

\* An access of a shared variable gets a copy of the clock.  One between two
\* calls is enough.
access(t) ==
  /\ threadState[t] = "RUNNABLE"
  /\ LET id == <<t, calls[t]>> IN
       /\ \A e \in accesses : e.id # id
       /\ accesses' = accesses \union
            {[id |-> id, clock |-> vectorClock[t], passed |-> passed[t], before |-> before[t]]}
       /\ passed' = [passed EXCEPT ![t] = @ \union {id}]
       /\ before' = [before EXCEPT ![t] = @ \union {id}]
  /\ UNCHANGED <<threadState, vectorClock, joinRecord, waitingList, calls>>

\* executePThreadCreate; the listener increments after the call.
create(t) ==
  /\ runs(t)
  /\ \E new \in Threads :
       /\ threadState[new] = NONE
       /\ \A u \in 1 .. new - 1 : threadState[u] # NONE
       /\ threadState' = [threadState EXCEPT ![new] = "RUNNABLE"]
       /\ vectorClock' = [vectorClock EXCEPT ![new] = tick(vectorClock[t], new),
                                             ![t] = tick(@, t)]
       /\ passed' = [passed EXCEPT ![new] = passed[t]]
       /\ before' = [before EXCEPT ![new] = before[t]]
  /\ UNCHANGED <<joinRecord, waitingList, accesses>>

\* executePThreadJoin: a thread that has ended passes nothing on.
join(t) ==
  /\ runs(t)
  /\ \E u \in Threads \ {t} :
       /\ threadState[u] # NONE
       /\ IF threadState[u] = "TERMINATED"
          THEN /\ before' = [before EXCEPT ![t] = @ \union before[u]]
               /\ UNCHANGED <<threadState, joinRecord>>
          ELSE /\ joinRecord' = [joinRecord EXCEPT ![u] = @ \union {t}]
               /\ threadState' = [threadState EXCEPT ![t] = "JOIN_BLOCKED"]
               /\ UNCHANGED before
  /\ vectorClock' = [vectorClock EXCEPT ![t] = tick(@, t)]
  /\ UNCHANGED <<waitingList, accesses, passed>>

\* Mutant: the ended thread's clock is not passed on.
endSilently(t) ==
  /\ threadState[t] = "RUNNABLE"
  /\ threadState' = [u \in Threads |->
       IF u = t THEN "TERMINATED"
       ELSE IF u \in joinRecord[t] THEN "RUNNABLE" ELSE threadState[u]]
  /\ passed' = [u \in Threads |->
       IF u \in joinRecord[t] THEN passed[u] \union passed[t] ELSE passed[u]]
  /\ before' = [u \in Threads |->
       IF u \in joinRecord[t] THEN before[u] \union before[t] ELSE before[u]]
  /\ UNCHANGED <<vectorClock, joinRecord, waitingList, calls, accesses>>

\* Ret of the first frame: the threads that wait for this one go on.
end(t) ==
  /\ threadState[t] = "RUNNABLE"
  /\ threadState' = [u \in Threads |->
       IF u = t THEN "TERMINATED"
       ELSE IF u \in joinRecord[t] THEN "RUNNABLE" ELSE threadState[u]]
  /\ vectorClock' = [u \in Threads |->
       IF u \in joinRecord[t] THEN merge(vectorClock[u], vectorClock[t])
       ELSE vectorClock[u]]
  /\ passed' = [u \in Threads |->
       IF u \in joinRecord[t] THEN passed[u] \union passed[t] ELSE passed[u]]
  /\ before' = [u \in Threads |->
       IF u \in joinRecord[t] THEN before[u] \union before[t] ELSE before[u]]
  /\ UNCHANGED <<joinRecord, waitingList, calls, accesses>>

\* executePThreadCondWait
wait(t) ==
  /\ runs(t)
  /\ threadState' = [threadState EXCEPT ![t] = "COND_BLOCKED"]
  /\ waitingList' = Append(waitingList, t)
  /\ vectorClock' = [vectorClock EXCEPT ![t] = tick(@, t)]
  /\ UNCHANGED <<joinRecord, accesses, passed, before>>

\* The i-th released thread gets the clock after i - 1 increments; the listener
\* increments once more.
wake(t, released) ==
  LET n == Len(released)
      place(u) == CHOOSE i \in 1 .. n : released[i] = u
      woken == {released[i] : i \in 1 .. n}
  IN  /\ threadState' = [u \in Threads |->
                           IF u \in woken THEN "RUNNABLE" ELSE threadState[u]]
      /\ vectorClock' = [u \in Threads |->
           IF u = t THEN ticks(vectorClock[t], t, n + 1)
           ELSE IF u \in woken THEN merge(vectorClock[u], ticks(vectorClock[t], t, place(u) - 1))
           ELSE vectorClock[u]]
      /\ passed' = [u \in Threads |->
                      IF u \in woken THEN passed[u] \union passed[t] ELSE passed[u]]
      /\ before' = [u \in Threads |->
                      IF u \in woken THEN before[u] \union before[t] ELSE before[u]]

\* executePThreadCondSignal
signal(t) ==
  /\ runs(t)
  /\ wake(t, IF waitingList = <<>> THEN <<>> ELSE <<Head(waitingList)>>)
  /\ waitingList' = IF waitingList = <<>> THEN <<>> ELSE Tail(waitingList)
  /\ UNCHANGED <<joinRecord, accesses>>

\* executePThreadCondBroadcast
broadcast(t) ==
  /\ runs(t)
  /\ wake(t, waitingList)
  /\ waitingList' = <<>>
  /\ UNCHANGED <<joinRecord, accesses>>

\* The main thread has id 1; a clock starts with zeros.
ClockInit ==
  /\ threadState = [t \in Threads |-> IF t = 1 THEN "RUNNABLE" ELSE NONE]
  /\ vectorClock = [t \in Threads |-> [i \in 0 .. ClockSize - 1 |-> 0]]
  /\ joinRecord = [t \in Threads |-> {}]
  /\ waitingList = <<>>
  /\ calls = [t \in Threads |-> 0]
  /\ accesses = {}
  /\ passed = [t \in Threads |-> {}]
  /\ before = [t \in Threads |-> {}]

ClockNext ==
  \E t \in Threads : \/ access(t) \/ create(t) \/ join(t) \/ end(t)
                     \/ wait(t) \/ signal(t) \/ broadcast(t)

ClockSpec == ClockInit /\ [][ClockNext]_clockVars

-----------------------------------------------------------------------------
atMost(c, d) == \A i \in DOMAIN c : c[i] <= d[i]

\* DTAMPoint::isBefore is false, so that DTAMhybrid removes the edge from the
\* write w to the read r.
pruned(w, r) == atMost(r.clock, w.clock) /\ w.clock # r.clock

\* The clocks compare exactly as the accesses were ordered by the calls that
\* pass clocks on: creating, a signal that wakes, and the end of a thread that
\* others wait for.
ComparesAsPassed ==
  \A e, f \in accesses :
    e.id[1] # f.id[1] => (atMost(e.clock, f.clock) <=> e.id \in f.passed)

\* DTAMhybrid removes the edge from a write to a read only if the read really
\* was before the write.
PrunedOnlyIfOrdered ==
  \A w, r \in accesses : pruned(w, r) => r.id \in w.before

\* The clocks compare exactly as the accesses were ordered by the calls that
\* pass clocks on, and DTAMhybrid removes an edge to a read only if the read
\* really was before the write.
ClocksExact == ComparesAsPassed /\ PrunedOnlyIfOrdered

=============================================================================
