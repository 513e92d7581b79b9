---------------------------- MODULE OrderEncoding ----------------------------
(***************************************************************************)
(* The formulas that Encode.cpp builds from a recorded trace, and what     *)
(* they are for: the orders that satisfy them should be those in which the *)
(* threads can execute the same events again, and a read should be equal   *)
(* to the write it would see.                                              *)
(*                                                                         *)
(* After the recording an order of all events is built, one time step      *)
(* after the other.  Next to it goes what the machine can do: the states   *)
(* it can be in if the events happen in this order, and the last write of  *)
(* each variable.                                                          *)
(***************************************************************************)
EXTENDS TraceRecording

CONSTANT Initialized    \* variables with an initializer

VARIABLES
  placed,               \* number of blocks of each thread that have a time
  order,                \* the time of each block that has one
  now,                  \* time steps so far
  possible,             \* states of the machine after these blocks, in order
  memory,               \* last write of each variable
  seen,                 \* the write each read sees
  tainted               \* the reads and writes of tainted values

orderVars == <<placed, order, now, possible, memory, seen, tainted>>

encodingVars == <<recordVars, orderVars>>

\* Stands for the write of the initial value of a variable.
Initial == <<0, 0>>

-----------------------------------------------------------------------------
\* Encode::getInstOpType
isNormalOp(e) == Op(e).op = "normal"

EventsOf(t) == {<<t, k>> : k \in DOMAIN eventList[t]}

Events == UNION {EventsOf(t) : t \in Threads}

\* Encode::controlGranularity(2): a normal event shares the name of the event
\* that follows it, so the name is that of the first event of the block.
eventName(e) ==
  LET starts == {k \in 1 .. e[2] : k = 1 \/ ~ isNormalOp(<<e[1], k - 1>>)}
  IN  <<e[1], CHOOSE k \in starts : \A j \in starts : j <= k>>

Blocks == {eventName(e) : e \in Events}

\* The last event of a block, the only one that others can notice.
visible(b) ==
  LET events == {e \in EventsOf(b[1]) : eventName(e) = b}
  IN  CHOOSE e \in events : \A f \in events : f[2] <= e[2]

Before(e, f) == order[eventName(e)] < order[eventName(f)]

elements(list) == {list[i] : i \in DOMAIN list}

-----------------------------------------------------------------------------
\* buildMemoryModelFormula: the program order of the blocks of a thread.
MemoryModelFormula ==
  \A e \in Events : LET next == <<e[1], e[2] + 1>> IN
    next \in Events /\ eventName(e) # eventName(next) => Before(e, next)

\* Mutant: the join is after the first event of the joined thread.
joinAfterFirst ==
  /\ \A p \in createThreadPoint : Before(p[1], <<p[2], 1>>)
  /\ \A p \in joinThreadPoint : Before(<<p[2], 1>>, p[1])

\* buildPartialOrderFormula
PartialOrderFormula ==
  /\ \A p \in createThreadPoint : Before(p[1], <<p[2], 1>>)
  /\ \A p \in joinThreadPoint : Before(<<p[2], Len(eventList[p[2]])>>, p[1])

\* Mutant: the pairs keep the order in which they were recorded.
locksAsRecorded ==
  \A m \in Mutexes : LET pairs == all_lock_unlock[m] IN
    \A i, j \in DOMAIN pairs :
      i < j /\ pairs[i].unlock # NULL /\ pairs[i].thread # pairs[j].thread =>
        Before(pairs[i].unlock, pairs[j].lock)

\* The locks of a mutex.  Of two pairs the first in the list must be complete.
LockFormula ==
  \A m \in Mutexes : LET pairs == all_lock_unlock[m] IN
    \A i, j \in DOMAIN pairs :
      i < j /\ pairs[i].unlock # NULL /\ pairs[i].thread # pairs[j].thread =>
        \/ Before(pairs[i].unlock, pairs[j].lock)
        \/ pairs[j].unlock # NULL /\ Before(pairs[j].unlock, pairs[i].lock)

\* Waits and signals of a condition.  The match is the set of pairs whose
\* variable m_w_s is 1: each wait has a signal between its two events, no
\* signal has two waits, and none is of the waiting thread.
WaitFormula ==
  \A c \in Conds : LET waits == elements(all_wait[c])
                       signals == elements(all_signal[c]) IN
    \E match \in SUBSET (waits \X signals) :
      /\ \A w \in waits : \E s \in signals :
           <<w, s>> \in match /\ Before(w.wait, s) /\ Before(s, w.lock)
      /\ \A p, q \in match : p[2] = q[2] => p = q
      /\ \A p \in match : p[1].wait[1] # p[2][1]

\* The events of one release of a barrier happen at the same time.
BarrierFormula ==
  \A b \in Barriers : \A n \in DOMAIN all_barrier[b] :
    LET events == all_barrier[b][n] IN
      \A i \in 1 .. Len(events) - 1 :
        order[eventName(events[i])] = order[eventName(events[i + 1])]

SynchronizeFormula == LockFormula /\ WaitFormula /\ BarrierFormula

-----------------------------------------------------------------------------
writesOf(t, x) ==
  {e \in EventsOf(t) : Op(e).op \in {"store", "strcpy"} /\ Op(e).var = x}

\* markLatestWriteForGlobalVar: the last write of the variable before the read
\* in its own thread.
latestWrite(r) ==
  LET before == {w \in writesOf(r[1], Op(r).var) : w[2] < r[2]}
  IN  IF before = {} THEN NULL
      ELSE CHOOSE w \in before : \A v \in before : v[2] <= w[2]

\* The writes a read may be equal to: those of other threads in recorded
\* order, then the latest one of its own.
mayBeRead(r) ==
  LET other(w) == w[1] # r[1]
  IN  SelectSeq(writeSet[Op(r).var], other)
        \o (IF latestWrite(r) = NULL THEN <<>> ELSE <<latestWrite(r)>>)

\* readFromInitFormula, and the order that goes with it.
readFromInit(r) ==
  /\ latestWrite(r) = NULL
  /\ Op(r).var \in Initialized
  /\ \A w \in elements(mayBeRead(r)) : Before(r, w)

\* Mutant: another write may lie between the write and the read.
readFromAnyEarlier(r, i) == Before(mayBeRead(r)[i], r)

\* readFromWriteFormula, and the order that goes with it.  The next write of
\* the same thread has to come after the read, if it is next in the list; the
\* writes of other threads come before the write or after the read.
readFromWrite(r, i) ==
  LET list == mayBeRead(r)
      w == list[i]
  IN  /\ Before(w, r)
      /\ i < Len(list) /\ list[i + 1][1] = w[1] => Before(r, list[i + 1])
      /\ \A j \in DOMAIN list :
           list[j][1] # w[1] => Before(list[j], w) \/ Before(r, list[j])

\* The sources whose disjunct holds, and so the values the read may have.
sources(r) ==
  (IF readFromInit(r) THEN {Initial} ELSE {})
    \union {mayBeRead(r)[i] : i \in {j \in DOMAIN mayBeRead(r) : readFromWrite(r, j)}}

Reads == {e \in Events : Op(e).op = "load"}

\* buildReadWriteFormula: one disjunct holds; no disjuncts at all make TRUE.
ReadWriteFormula ==
  \A r \in Reads :
    \/ sources(r) # {}
    \/ mayBeRead(r) = <<>> /\ (latestWrite(r) # NULL \/ Op(r).var \notin Initialized)

\* buildAllFormula
Formulas ==
  MemoryModelFormula /\ PartialOrderFormula /\ ReadWriteFormula /\ SynchronizeFormula

-----------------------------------------------------------------------------
(* The taint formulas: one tag per read and write; S is the set of tags    *)
(* that are true.                                                          *)

\* The load whose value a store of kind "copy" writes.
copied(w) ==
  LET before == {e \in EventsOf(w[1]) : Op(e).op = "load" /\ e[2] < w[2]}
  IN  CHOOSE r \in before : \A s \in before : s[2] <= r[2]

Writes == UNION {writesOf(t, x) : t \in Threads, x \in Vars}

\* Mutant: the tag of a write that only copies is free.
copiesUntagged(S) == \A w \in Writes : w \in S <=> Op(w).value = "taint"

\* buildTaintProgatationFormula and makeOrTaint
TaintPropagationFormula(S) ==
  \A w \in Writes :
    w \in S <=> \/ Op(w).value = "taint"
                \/ Op(w).value = "copy" /\ copied(w) \in S

\* The variables DTAM found that taint may reach.
potentialTaint ==
  LET closed(V) == \A w \in Writes :
        Op(w).value = "taint" \/ (Op(w).value = "copy" /\ Op(copied(w)).var \in V)
          => Op(w).var \in V
      all == {V \in SUBSET Vars : closed(V)}
  IN  {x \in Vars : \A V \in all : x \in V}

\* buildTaintMatchFormula: as the read-write formula, on tags.  buildInitTaint-
\* Formula makes the tag of every initial value false.
TaintMatchFormula(S) ==
  \A r \in Reads :
    IF Op(r).var \in potentialTaint
    THEN \/ mayBeRead(r) = <<>> /\ sources(r) = {}
         \/ \E s \in sources(r) : r \in S <=> s \in S
    ELSE r \notin S

-----------------------------------------------------------------------------
(* Executing the events in the order of their times.                       *)

nextBlock(t) ==
  LET mine == {b \in Blocks : b[1] = t}
  IN  CHOOSE b \in mine : Cardinality({a \in mine : a[2] < b[2]}) = placed[t]

unplaced(t) == placed[t] < Cardinality({b \in Blocks : b[1] = t})

\* The threads whose next event is of the n-th release of a barrier.
arrived(b, n) == {t \in Threads : unplaced(t) /\
                    visible(nextBlock(t)) \in elements(all_barrier[b][n])}

\* A thread runs between the event that creates it and the one that joins it.
canHappen(e) ==
  /\ \A p \in createThreadPoint : p[2] = e[1] => eventName(p[1]) \in DOMAIN order
  /\ Op(e).op = "join" => ~ unplaced(Op(e).thread)

place(ts) ==
  /\ placed' = [t \in Threads |-> IF t \in ts THEN placed[t] + 1 ELSE placed[t]]
  /\ order' = [b \in DOMAIN order \union {nextBlock(t) : t \in ts} |->
                 IF b \in DOMAIN order THEN order[b] ELSE now]
  /\ now' = now + 1
  /\ UNCHANGED recordVars

\* The next event of thread t gets the next time.  A barrier that only one
\* thread reaches at that time is one that no thread passes.
placeBlock(t) ==
  /\ ~ recording /\ unplaced(t)
  /\ place({t})
  /\ LET e == visible(nextBlock(t)) op == Op(e) IN
       /\ possible' = IF canHappen(e) /\ op.op # "barrier"
                      THEN UNION {perform(ms, t, op) : ms \in possible} ELSE {}
       /\ memory' = IF op.op \in {"store", "strcpy"}
                    THEN [memory EXCEPT ![op.var] = e] ELSE memory
       /\ seen' = IF op.op = "load" THEN seen \union {<<e, memory[op.var]>>} ELSE seen
       /\ tainted' = IF \/ op.op = "load" /\ memory[op.var] \in tainted
                        \/ op.op \in {"store", "strcpy"} /\ op.value = "taint"
                        \/ op.op \in {"store", "strcpy"} /\ op.value = "copy"
                             /\ copied(e) \in tainted
                     THEN tainted \union {e} ELSE tainted

\* All threads of a release of a barrier go on at the same time.
placeRelease(b, n) ==
  /\ ~ recording
  /\ Cardinality(arrived(b, n)) = Len(all_barrier[b][n])
  /\ place(arrived(b, n))
  /\ possible' = IF \A t \in arrived(b, n) : canHappen(visible(nextBlock(t)))
                 THEN possible ELSE {}
  /\ UNCHANGED <<memory, seen, tainted>>

EncodingInit ==
  /\ RecordInit
  /\ placed = [t \in Threads |-> 0]
  /\ order = << >>
  /\ now = 1
  /\ possible = {StartMachine}
  /\ memory = [x \in Vars |-> Initial]
  /\ seen = {}
  /\ tainted = {}

ordered == ~ recording /\ \A t \in Threads : ~ unplaced(t)

EncodingNext ==
  \/ RecordNext /\ UNCHANGED orderVars
  \/ \E t \in Threads : placeBlock(t)
  \/ \E b \in Barriers : \E n \in DOMAIN all_barrier[b] : placeRelease(b, n)
  \/ ordered /\ UNCHANGED encodingVars

EncodingSpec == EncodingInit /\ [][EncodingNext]_encodingVars

-----------------------------------------------------------------------------
\* Every order that satisfies the formulas of buildAllFormula can be executed:
\* computePrefix never makes a prefix that the threads cannot follow.
SolutionsRun == ordered /\ Formulas => possible # {}

\* Every order in which the threads could execute the recorded events, the
\* recorded one included, satisfies the formulas: check_if and verify do not
\* miss a schedule.
RunsAreSolutions == ordered /\ possible # {} => Formulas

\* The write a read really sees in an executable order is one the read-write
\* formula lets it be equal to.
ReadsComplete ==
  ordered /\ possible # {} => \A p \in seen : p[2] \in sources(p[1])

\* Any other write the formula lets a read be equal to is an older one of the
\* thread whose write the read sees, and between the two the list of writes
\* has one of another thread: the stale values are no more than these.
ReadsFresh ==
  ordered /\ possible # {} =>
    \A p \in seen : \A s \in sources(p[1]) \ {p[2]} :
      LET list == mayBeRead(p[1]) IN
        \E i, j \in DOMAIN list :
          /\ list[i] = s /\ list[j] = p[2]
          /\ s[1] = p[2][1] /\ list[i + 1][1] # s[1]
          /\ i + 1 < j

\* The tags of what is really tainted in an executable order satisfy the taint
\* formulas: PTS does not miss taint that some schedule has.
TaintsAreSolutions ==
  ordered /\ possible # {} =>
    TaintMatchFormula(tainted) /\ TaintPropagationFormula(tainted)
=============================================================================
