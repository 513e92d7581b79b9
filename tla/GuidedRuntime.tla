---------------------------- MODULE GuidedRuntime ----------------------------
(***************************************************************************)
(* An execution under a prefix.  The solver's model orders the events of a *)
(* recorded execution, computePrefix cuts the order off behind the negated *)
(* branch, and Executor::run executes the program again: as long as the    *)
(* prefix lasts it takes the thread of the next event, gives new threads   *)
(* their recorded ids, wakes the waiter the prefix needs first, and gives  *)
(* up when the thread cannot run; then the threads are taken in the order  *)
(* of the queue.                                                           *)
(*                                                                         *)
(* The program is a sequence of instructions for every role.  A role is a  *)
(* thread of the recorded execution, with its recorded id.  The orders are *)
(* those that keep to the meaning of the calls: one mutex, one condition.  *)
(***************************************************************************)
EXTENDS Integers, Sequences, FiniteSets, SequencesExt

CONSTANTS
  Roles, Main,          \* threads of the recorded execution, the first one
  Script,               \* instructions of each role; the last one is "ret"
  RecordedId            \* thread id of each role in the recorded execution

NoThread == 0

VARIABLES
  phase,                \* "solve", "run", "end"
  order,                \* events in the solver's order; an event is its role
  solved,               \* the program's state after these events
  pos,                  \* Prefix::pos: events of the prefix that are executed
  pc, state,            \* Thread::pc, threadState, by role
  id,                   \* Thread::threadId, by role; 0 before its creation
  nextThreadId,         \* Thread::nextThreadId
  queue,                \* FIFSThreadScheduler::queue of roles
  owner, waiters,       \* the mutex's thread, the condition's wait list
  execStatus
guidedVars == <<phase, order, solved, pos, pc, state, id, nextThreadId, queue,
                owner, waiters, execStatus>>
executorVars == <<pos, pc, state, id, nextThreadId, queue, owner, waiters, execStatus>>

inst(r, n) == Script[r][n]

-----------------------------------------------------------------------------
\* The meaning of the calls, as buildSynchronizationFormula has it: an event is
\* possible in a state s.
possible(r, s) ==
  LET i == inst(r, s.pc[r]) IN
    /\ s.live[r] = "yes" \/ (s.live[r] = "woken" /\ s.owner = NoThread)
    /\ i[1] = "lock" => s.owner = NoThread
    /\ i[1] = "join" => s.live[i[2]] = "ended"

after(r, s, w) ==
  LET i == inst(r, s.pc[r])
      held == IF s.live[r] = "woken" THEN r ELSE s.owner
  IN  [pc |-> [s.pc EXCEPT ![r] = @ + 1],
       owner |-> CASE i[1] = "lock" -> r
                   [] i[1] \in {"unlock", "wait"} -> NoThread
                   [] OTHER -> held,
       live |-> [q \in Roles |->
                   CASE q = r /\ i[1] = "ret" -> "ended"
                     [] q = r /\ i[1] = "wait" -> "waits"
                     [] i[1] = "create" /\ q = i[2] -> "yes"
                     [] i[1] = "signal" /\ q = w -> "woken"
                     [] q = r -> "yes"
                     [] OTHER -> s.live[q]]]

waitsFor(s) == {q \in Roles : s.live[q] = "waits"}

\* The solver's model puts another event behind the ones it has placed.
solve ==
  /\ phase = "solve"
  /\ \E r \in Roles :
       /\ possible(r, solved)
       /\ \E w \in IF inst(r, solved.pc[r])[1] = "signal" /\ waitsFor(solved) # {}
                   THEN waitsFor(solved) ELSE {NoThread} :
            solved' = after(r, solved, w)
       /\ order' = Append(order, r)
  /\ UNCHANGED <<phase, executorVars>>

\* Encode::computePrefix: the order so far is the prefix; the execution starts.
computePrefix ==
  /\ phase = "solve" /\ order # << >>
  /\ phase' = "run"
  /\ UNCHANGED <<order, solved, executorVars>>

-----------------------------------------------------------------------------
\* Prefix::isFinished
isFinished(p) == p = Len(order)

\* GuidedThreadScheduler::selectNextItem
selectThread == IF isFinished(pos) THEN Head(queue) ELSE order[pos + 1]

\* Mutant: the waiter that came first, as without a prefix.
firstWaiter(p) == Head(waiters)

\* GuidedCondScheduler::selectNextItem: the first waiter with an event in the
\* rest of the prefix, or the one that came first.
selectWaiter(p) ==
  LET rest == {k \in p + 1..Len(order) : order[k] \in ToSet(waiters)} IN
    IF rest = {} THEN Head(waiters)
    ELSE order[CHOOSE k \in rest : \A j \in rest : k <= j]

\* ExecutionState::createThread(kf, threadId)
nextIdAfter(n) == IF n >= nextThreadId THEN n + 1 ELSE nextThreadId

\* executePThreadCreate: the recorded id as long as the prefix lasts.
create(q) ==
  LET n == IF isFinished(pos) THEN nextThreadId ELSE RecordedId[q] IN
    /\ id' = [id EXCEPT ![q] = n]
    /\ nextThreadId' = IF isFinished(pos) THEN nextThreadId + 1 ELSE nextIdAfter(n)
    /\ queue' = Append(queue, q)
    /\ UNCHANGED waiters

\* The thread's state when it executes: a blocked one has got its mutex.
runnable(r) == [state EXCEPT ![r] = "RUNNABLE"]

\* Mutant: the mutex is left to nobody.
ownerUnset(r) == owner

\* tryToLockForBlockedThread in Executor::run: the mutex of a thread that waited.
ownerWhenRun(r) == IF state[r] = "MUTEX_BLOCKED" THEN r ELSE owner

\* Mutex::lock
lockedBy(r) == r

\* FIFSThreadScheduler::removeItem
withoutThread(r) == Remove(queue, r)

\* Executor::executeInstruction of thread r.
execute(r) ==
  LET i == inst(r, pc[r])
      st == runnable(r)
      own == ownerWhenRun(r)
  IN  CASE i[1] = "create" ->
             /\ create(i[2])
             /\ state' = [st EXCEPT ![i[2]] = "RUNNABLE"] /\ owner' = own
        [] i[1] = "lock" ->
             /\ IF own = NoThread
                THEN owner' = lockedBy(r) /\ state' = st
                ELSE owner' = own /\ state' = [st EXCEPT ![r] = "MUTEX_BLOCKED"]
             /\ UNCHANGED <<id, nextThreadId, queue, waiters>>
        [] i[1] = "unlock" ->
             /\ owner' = NoThread /\ state' = st
             /\ UNCHANGED <<id, nextThreadId, queue, waiters>>
        [] i[1] = "wait" ->
             /\ owner' = NoThread
             /\ state' = [st EXCEPT ![r] = "COND_BLOCKED"]
             /\ waiters' = Append(waiters, r)
             /\ queue' = withoutThread(r)
             /\ UNCHANGED <<id, nextThreadId>>
        [] i[1] = "signal" ->
             /\ owner' = own
             /\ IF waiters = << >>
                THEN state' = st /\ UNCHANGED <<waiters, queue>>
                ELSE LET w == selectWaiter(pos) IN
                       /\ state' = [st EXCEPT ![w] = "MUTEX_BLOCKED"]
                       /\ waiters' = Remove(waiters, w)
                       /\ queue' = Append(queue, w)
             /\ UNCHANGED <<id, nextThreadId>>
        [] i[1] = "join" ->
             /\ IF state[i[2]] = "TERMINATED"
                THEN state' = st /\ UNCHANGED queue
                ELSE /\ state' = [st EXCEPT ![r] = "JOIN_BLOCKED"]
                     /\ queue' = withoutThread(r)
             /\ owner' = own
             /\ UNCHANGED <<id, nextThreadId, waiters>>
        [] i[1] = "ret" ->
             LET js == {s \in Roles : /\ state[s] = "JOIN_BLOCKED"
                                      /\ inst(s, pc[s] - 1) = <<"join", r>>} IN
               /\ state' = [s \in Roles |-> IF s \in js THEN "RUNNABLE"
                                            ELSE IF s = r THEN "TERMINATED" ELSE st[s]]
               /\ queue' = withoutThread(r) \o SetToSeq(js)
               /\ owner' = own
               /\ UNCHANGED <<id, nextThreadId, waiters>>

\* One iteration of the loop of Executor::run that executes an instruction.
step(r) ==
  /\ execute(r)
  /\ pc' = [pc EXCEPT ![r] = @ + 1]
  /\ pos' = IF isFinished(pos) THEN pos ELSE pos + 1
  /\ IF queue' = << >>
     THEN /\ phase' = "end"
          /\ execStatus' = IF \A s \in Roles : state'[s] \in {"NONE", "TERMINATED"}
                           THEN "SUCCESS" ELSE "RUNTIMEERROR"
     ELSE UNCHANGED <<phase, execStatus>>

\* A thread that waits for the mutex under a prefix, or one that is blocked
\* otherwise, ends the execution.
unable ==
  /\ phase' = "end" /\ execStatus' = "RUNTIMEERROR"
  /\ UNCHANGED <<pos, pc, state, id, nextThreadId, queue, owner, waiters>>

\* Mutant: the thread stays at the head of the queue.
retryFirst(r) ==
  UNCHANGED <<queue, phase, pos, pc, state, id, nextThreadId, owner, waiters, execStatus>>

\* Behind the prefix the thread goes to the end of the queue.
retry(r) ==
  /\ queue' = Append(Tail(queue), r)
  /\ UNCHANGED <<phase, pos, pc, state, id, nextThreadId, owner, waiters, execStatus>>

\* The loop of Executor::run.
run ==
  /\ phase = "run"
  /\ LET r == selectThread IN
       IF \/ state[r] = "RUNNABLE"
          \/ state[r] = "MUTEX_BLOCKED" /\ owner = NoThread
       THEN step(r)
       ELSE IF state[r] = "MUTEX_BLOCKED" /\ isFinished(pos) THEN retry(r) ELSE unable
  /\ UNCHANGED <<order, solved>>

GuidedInit ==
  /\ phase = "solve" /\ order = << >> /\ pos = 0
  /\ solved = [pc |-> [r \in Roles |-> 1], owner |-> NoThread,
               live |-> [r \in Roles |-> IF r = Main THEN "yes" ELSE "no"]]
  /\ pc = [r \in Roles |-> 1]
  /\ state = [r \in Roles |-> IF r = Main THEN "RUNNABLE" ELSE "NONE"]
  /\ id = [r \in Roles |-> IF r = Main THEN 1 ELSE 0]
  /\ nextThreadId = 2
  /\ queue = <<Main>>
  /\ owner = NoThread /\ waiters = << >>
  /\ execStatus = "SUCCESS"

GuidedNext == solve \/ computePrefix \/ run

GuidedSpec == GuidedInit /\ [][GuidedNext]_guidedVars /\ WF_guidedVars(run)

-----------------------------------------------------------------------------
started == phase # "solve"

\* As long as the prefix lasts, each event's thread can run, and is at the
\* event's instruction: no feasible prefix is given up (the checks on
\* isAbleToRun and on getCurrentInst).
PrefixFollowed ==
  started =>
    /\ pos < Len(order) => phase = "run"
    /\ \A r \in Roles :
         pos < Len(order) => pc[r] = 1 + Cardinality({k \in 1..pos : order[k] = r})

\* Threads created under the prefix have their recorded ids, and no two threads
\* share an id, those created after the prefix included.
ThreadIds ==
  \A r, s \in Roles :
    /\ r # s /\ id[r] # 0 => id[r] # id[s]
    /\ (\E k \in 1..pos : order[k] = r) => id[r] = RecordedId[r]

\* The prefix leaves the executor where the solver's order leads: as many
\* threads wait for the condition, the same one has the mutex, the same ended.
ReachesSolution ==
  (started /\ pos = Len(order) /\ \A r \in Roles : pc[r] = solved.pc[r]) =>
    /\ Len(waiters) = Cardinality(waitsFor(solved))
    /\ owner = solved.owner
    /\ \A r \in Roles : (state[r] = "TERMINATED") = (solved.live[r] = "ended")

\* Behind the prefix the queue holds the threads that can be scheduled, once.
QueueOfSchedulable ==
  started =>
    /\ ToSet(queue) = {r \in Roles : state[r] \in {"RUNNABLE", "MUTEX_BLOCKED"}}
    /\ Len(queue) = Cardinality(ToSet(queue))

\* An execution under a prefix comes to its end.
GuidedEnds == started ~> phase = "end"
=============================================================================
