---------------------------- MODULE TraceRecording ----------------------------
(***************************************************************************)
(* PSOListener and Trace: what is recorded of one execution.               *)
(*                                                                         *)
(* The listener is called before an instruction is interpreted, so an      *)
(* event is recorded when a thread makes a call, not when the call takes   *)
(* effect: a thread that has to wait has its event in the trace already.   *)
(* pthread_cond_wait is recorded as two events, the call and the virtual   *)
(* one that locks the mutex again.  An event is known by its thread and    *)
(* its place in the thread's list.                                         *)
(***************************************************************************)
EXTENDS Naturals, Sequences, FiniteSets

CONSTANTS
  Threads,              \* 1 is the main thread
  Program,              \* the instructions of each thread, in order
  Vars, Mutexes, Conds, Barriers,
  BarrierCount,         \* argument of pthread_barrier_init
  NULL

VARIABLES
  recording,            \* the execution is going on
  executed,             \* instructions of each thread that have been fetched
  pending,              \* event of a thread that has not taken effect yet
  machine,              \* who holds the mutexes, who sleeps at a condition
  eventList,            \* Trace::eventList
  readSet, writeSet,    \* events of each variable, in recorded order
  all_lock_unlock,      \* LockPair records of each mutex
  all_wait, all_signal, \* Wait_Lock records and signal events of each condition
  all_barrier,          \* per barrier, the events of each release
  barrierRecord,        \* BarrierInfo of each barrier
  createThreadPoint, joinThreadPoint

recorded == <<eventList, readSet, writeSet, all_lock_unlock, all_wait, all_signal,
              all_barrier, createThreadPoint, joinThreadPoint>>

execution == <<executed, pending, machine, barrierRecord>>

recordVars == <<recording, execution, recorded>>

Op(e) == eventList[e[1]][e[2]]

-----------------------------------------------------------------------------
(* The pthread functions: what an event needs and what it changes.         *)

sleepers(ms, c) == {t \in Threads : ms.asleep[t] = c}

\* The states after the event e = op of thread t: none if it has to wait, more
\* than one if a signal has a choice.
perform(ms, t, op) ==
  CASE op.op \in {"lock", "relock"} ->
         IF ms.owner[op.mutex] = NULL /\ ms.asleep[t] = NULL
         THEN {[ms EXCEPT !.owner[op.mutex] = t]} ELSE {}
    [] op.op = "unlock" -> {[ms EXCEPT !.owner[op.mutex] = NULL]}
    [] op.op = "wait" ->
         IF ms.owner[op.mutex] = t
         THEN {[ms EXCEPT !.owner[op.mutex] = NULL, !.asleep[t] = op.cond]} ELSE {}
    [] op.op = "signal" ->
         IF sleepers(ms, op.cond) = {} THEN {ms}
         ELSE {[ms EXCEPT !.asleep[u] = NULL] : u \in sleepers(ms, op.cond)}
    [] op.op = "broadcast" ->
         {[ms EXCEPT !.asleep = [u \in Threads |->
             IF ms.asleep[u] = op.cond THEN NULL ELSE ms.asleep[u]]]}
    [] OTHER -> {ms}

StartMachine == [owner |-> [m \in Mutexes |-> NULL], asleep |-> [t \in Threads |-> NULL]]

created(t) == t = 1 \/ \E p \in createThreadPoint : p[2] = t

ended(t) == executed[t] = Len(Program[t]) /\ pending[t] = NULL

-----------------------------------------------------------------------------
\* Trace::insertEvent, and the event's place for those that come next.
insertEvents(t, ops) == eventList' = [eventList EXCEPT ![t] = @ \o ops]

nextEvent(t) == <<t, Len(eventList[t]) + 1>>

\* Trace::insertReadSet and insertWriteSet.
insertInto(sets, x, e) == [sets EXCEPT ![x] = Append(@, e)]

\* Trace::insertLockOrUnlock for an unlock: the thread's last pair gets it, if
\* it has none.
closePair(pairs, t, e) ==
  LET mine == {i \in DOMAIN pairs : pairs[i].thread = t}
      last == CHOOSE i \in mine : \A j \in mine : j <= i
  IN  IF mine = {} \/ pairs[last].unlock # NULL THEN pairs
      ELSE [pairs EXCEPT ![last].unlock = e]

\* insertLockOrUnlock for a lock.
openPair(pairs, t, e) == Append(pairs, [thread |-> t, lock |-> e, unlock |-> NULL])

\* Thread t fetches an instruction of kind op, recorded as these events.
fetch(t, kinds) ==
  /\ recording
  /\ created(t) /\ pending[t] = NULL
  /\ executed[t] < Len(Program[t])
  /\ Program[t][executed[t] + 1].op \in kinds
  /\ executed' = [executed EXCEPT ![t] = @ + 1]
  /\ UNCHANGED recording

fetched(t) == Program[t][executed[t] + 1]

-----------------------------------------------------------------------------
\* An instruction that neither synchronizes nor accesses a shared variable.
executeNormal(t) ==
  /\ fetch(t, {"normal"})
  /\ insertEvents(t, <<fetched(t)>>)
  /\ UNCHANGED <<pending, machine, barrierRecord, readSet, writeSet, all_lock_unlock,
                 all_wait, all_signal, all_barrier, createThreadPoint, joinThreadPoint>>

executeLoad(t) ==
  /\ fetch(t, {"load"})
  /\ insertEvents(t, <<fetched(t)>>)
  /\ readSet' = insertInto(readSet, fetched(t).var, nextEvent(t))
  /\ UNCHANGED <<pending, machine, barrierRecord, writeSet, all_lock_unlock, all_wait,
                 all_signal, all_barrier, createThreadPoint, joinThreadPoint>>

\* A store, or a call of strcpy that writes a shared variable: recorded after
\* the call, by handleExternalFunction.
executeStore(t) ==
  /\ fetch(t, {"store", "strcpy"})
  /\ insertEvents(t, <<fetched(t)>>)
  /\ writeSet' = insertInto(writeSet, fetched(t).var, nextEvent(t))
  /\ UNCHANGED <<pending, machine, barrierRecord, readSet, all_lock_unlock, all_wait,
                 all_signal, all_barrier, createThreadPoint, joinThreadPoint>>

\* PSOListener::createThread records the event with the id of the new thread.
executeCreate(t) ==
  /\ fetch(t, {"create"})
  /\ insertEvents(t, <<fetched(t)>>)
  /\ createThreadPoint' = createThreadPoint \union {<<nextEvent(t), fetched(t).thread>>}
  /\ UNCHANGED <<pending, machine, barrierRecord, readSet, writeSet, all_lock_unlock,
                 all_wait, all_signal, all_barrier, joinThreadPoint>>

executeJoin(t) ==
  /\ fetch(t, {"join"})
  /\ insertEvents(t, <<fetched(t)>>)
  /\ joinThreadPoint' = joinThreadPoint \union {<<nextEvent(t), fetched(t).thread>>}
  /\ pending' = [pending EXCEPT ![t] = IF ended(fetched(t).thread) THEN NULL
                                       ELSE nextEvent(t)]
  /\ UNCHANGED <<machine, barrierRecord, readSet, writeSet, all_lock_unlock, all_wait,
                 all_signal, all_barrier, createThreadPoint>>

executeLock(t) ==
  /\ fetch(t, {"lock"})
  /\ insertEvents(t, <<fetched(t)>>)
  /\ LET m == fetched(t).mutex IN
       /\ all_lock_unlock' = [all_lock_unlock EXCEPT ![m] = openPair(@, t, nextEvent(t))]
       /\ IF perform(machine, t, fetched(t)) = {}
          THEN pending' = [pending EXCEPT ![t] = nextEvent(t)] /\ UNCHANGED machine
          ELSE machine' \in perform(machine, t, fetched(t)) /\ UNCHANGED pending
  /\ UNCHANGED <<barrierRecord, readSet, writeSet, all_wait, all_signal, all_barrier,
                 createThreadPoint, joinThreadPoint>>

executeUnlock(t) ==
  /\ fetch(t, {"unlock"})
  /\ insertEvents(t, <<fetched(t)>>)
  /\ machine' \in perform(machine, t, fetched(t))
  /\ LET m == fetched(t).mutex IN
       all_lock_unlock' = [all_lock_unlock EXCEPT ![m] = closePair(@, t, nextEvent(t))]
  /\ UNCHANGED <<pending, barrierRecord, readSet, writeSet, all_wait, all_signal,
                 all_barrier, createThreadPoint, joinThreadPoint>>

\* The call releases the mutex; the virtual event that locks it again comes
\* next in the thread's list and in the pairs of the mutex.
executeCondWait(t) ==
  /\ fetch(t, {"wait"})
  /\ LET m == fetched(t).mutex
         wait == nextEvent(t)
         lock == <<t, wait[2] + 1>>
     IN  /\ insertEvents(t, <<fetched(t), [op |-> "relock", mutex |-> m]>>)
         /\ all_lock_unlock' = [all_lock_unlock EXCEPT ![m] =
                                  openPair(closePair(@, t, wait), t, lock)]
         /\ all_wait' = insertInto(all_wait, fetched(t).cond,
                                   [wait |-> wait, lock |-> lock])
         /\ pending' = [pending EXCEPT ![t] = lock]
  /\ machine' \in perform(machine, t, fetched(t))
  /\ UNCHANGED <<barrierRecord, readSet, writeSet, all_signal, all_barrier,
                 createThreadPoint, joinThreadPoint>>

\* Signals and broadcasts are recorded alike.
executeSignal(t) ==
  /\ fetch(t, {"signal", "broadcast"})
  /\ insertEvents(t, <<fetched(t)>>)
  /\ all_signal' = insertInto(all_signal, fetched(t).cond, nextEvent(t))
  /\ machine' \in perform(machine, t, fetched(t))
  /\ UNCHANGED <<pending, barrierRecord, readSet, writeSet, all_lock_unlock, all_wait,
                 all_barrier, createThreadPoint, joinThreadPoint>>

\* Trace::insertBarrierOperation: the name of a barrier holds the number of its
\* releases so far.
insertBarrierOperation(releases, n, e) ==
  IF n < Len(releases) THEN [releases EXCEPT ![n + 1] = Append(@, e)]
                       ELSE Append(releases, <<e>>)

\* BarrierInfo counts the arrivals of the barrier on its own.
executeBarrierWait(t) ==
  /\ fetch(t, {"barrier"})
  /\ insertEvents(t, <<fetched(t)>>)
  /\ LET b == fetched(t).barrier
         info == barrierRecord[b]
         full == info.current + 1 = BarrierCount
         waiting == {u \in Threads :
                       pending[u] # NULL /\ Op(pending[u]) = fetched(t)}
     IN  /\ all_barrier' = [all_barrier EXCEPT ![b] =
                              insertBarrierOperation(@, info.released, nextEvent(t))]
         /\ barrierRecord' = [barrierRecord EXCEPT ![b] =
              IF full THEN [current |-> 0, released |-> info.released + 1]
                      ELSE [info EXCEPT !.current = @ + 1]]
         /\ pending' = [u \in Threads |->
                          IF full THEN IF u \in waiting THEN NULL ELSE pending[u]
                          ELSE IF u = t THEN nextEvent(t) ELSE pending[u]]
  /\ UNCHANGED <<machine, readSet, writeSet, all_lock_unlock, all_wait, all_signal,
                 createThreadPoint, joinThreadPoint>>

\* The retry loop finds the mutex free, or the joined thread has ended.
takeEffect(t) ==
  /\ recording
  /\ pending[t] # NULL
  /\ \/ /\ Op(pending[t]).op \in {"lock", "relock"}
        /\ machine' \in perform(machine, t, Op(pending[t]))
     \/ /\ Op(pending[t]).op = "join"
        /\ ended(Op(pending[t]).thread)
        /\ UNCHANGED machine
  /\ pending' = [pending EXCEPT ![t] = NULL]
  /\ UNCHANGED <<recording, executed, barrierRecord, recorded>>

\* All threads have ended: the trace is complete.
recordingOver ==
  /\ recording
  /\ \A t \in Threads : ended(t)
  /\ recording' = FALSE
  /\ machine' = StartMachine
  /\ UNCHANGED <<executed, pending, barrierRecord, recorded>>

\* beforeRunMethodAsMain: createNewTrace.
RecordInit ==
  /\ recording = TRUE
  /\ executed = [t \in Threads |-> 0]
  /\ pending = [t \in Threads |-> NULL]
  /\ machine = StartMachine
  /\ barrierRecord = [b \in Barriers |-> [current |-> 0, released |-> 0]]
  /\ eventList = [t \in Threads |-> <<>>]
  /\ readSet = [x \in Vars |-> <<>>]
  /\ writeSet = [x \in Vars |-> <<>>]
  /\ all_lock_unlock = [m \in Mutexes |-> <<>>]
  /\ all_wait = [c \in Conds |-> <<>>]
  /\ all_signal = [c \in Conds |-> <<>>]
  /\ all_barrier = [b \in Barriers |-> <<>>]
  /\ createThreadPoint = {}
  /\ joinThreadPoint = {}

executeInstruction(t) ==
  \/ executeNormal(t) \/ executeLoad(t) \/ executeStore(t)
  \/ executeCreate(t) \/ executeJoin(t)
  \/ executeLock(t) \/ executeUnlock(t)
  \/ executeCondWait(t) \/ executeSignal(t)
  \/ executeBarrierWait(t)

RecordNext ==
  \/ \E t \in Threads : executeInstruction(t) \/ takeEffect(t)
  \/ recordingOver
=============================================================================
