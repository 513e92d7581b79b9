------------------------------ MODULE MCEncoding ------------------------------
(* The solver loop of Encode and the formulas it is given: EncodeSolver with *)
(* two threads of two events, and OrderEncoding with five programs.  subject *)
(* says which of them a behaviour is of; the variables of the others are     *)
(* NULL.                                                                     *)
EXTENDS Naturals, Sequences, FiniteSets

CONSTANT NULL

VARIABLE subject

VARIABLES
  feasible, feasibleTaint, unrelated, useful, control, index, scopes, taintScopes,
  scheduleSet, PTS, taintPTS, noTaintPTS, answer, thrown

VARIABLES
  recording, executed, pending, machine, eventList, readSet, writeSet,
  all_lock_unlock, all_wait, all_signal, all_barrier, barrierRecord,
  createThreadPoint, joinThreadPoint, placed, order, now, possible, memory, seen,
  tainted

solverVars == <<feasible, feasibleTaint, unrelated, useful, control, index, scopes,
                taintScopes, scheduleSet, PTS, taintPTS, noTaintPTS, answer, thrown>>

traceVars == <<recording, executed, pending, machine, eventList, readSet, writeSet,
               all_lock_unlock, all_wait, all_signal, all_barrier, barrierRecord,
               createThreadPoint, joinThreadPoint, placed, order, now, possible,
               memory, seen, tainted>>

-----------------------------------------------------------------------------
\* verify and check_if: an assert, two branches, a read of an unrelated variable.
\* The recorded order is one solution, and there are two more: whether a goal can
\* be reached takes one world.
first == <<"if1", "assert">>

second == <<"read", "if2">>

Range(s) == {s[i] : i \in DOMAIN s}

Events == Range(first) \union Range(second)

\* Orders that respect the program order of both threads.
Orders ==
  {o \in [Events -> 1 .. Len(first) + Len(second)] :
     /\ \A a, b \in Events : o[a] = o[b] => a = b
     /\ \A i \in 1 .. Len(first) - 1 : o[first[i]] < o[first[i + 1]]
     /\ \A i \in 1 .. Len(second) - 1 : o[second[i]] < o[second[i + 1]]}

AllWorlds == [order : Orders, holds : [Events -> BOOLEAN]]

E == INSTANCE EncodeSolver WITH
  Asserts <- <<"assert">>, Ifs <- <<"if1", "if2">>, Points <- <<>>, Rws <- {"read"},
  Worlds <- AllWorlds

\* As recorded: all formulas hold.
recorded == CHOOSE w \in AllWorlds : \A e \in Events : w.holds[e]

SolverInit ==
  /\ \E v, w \in AllWorlds : feasible = {recorded, v, w}
  /\ feasibleTaint = feasible
  /\ useful \in {{"if1", "if2"}, {"if2"}}
  /\ E!EncodeInit

-----------------------------------------------------------------------------
normal == [op |-> "normal"]

load(x) == [op |-> "load", var |-> x]

store(x, v) == [op |-> "store", var |-> x, value |-> v]

strcpy(x, v) == [op |-> "strcpy", var |-> x, value |-> v]

create(t) == [op |-> "create", thread |-> t]

join(t) == [op |-> "join", thread |-> t]

lock(m) == [op |-> "lock", mutex |-> m]

unlock(m) == [op |-> "unlock", mutex |-> m]

wait(c, m) == [op |-> "wait", cond |-> c, mutex |-> m]

signal(c) == [op |-> "signal", cond |-> c]

broadcast(c) == [op |-> "broadcast", cond |-> c]

barrier(b) == [op |-> "barrier", barrier |-> b]

\* Taint goes from x through a heap variable that main writes first.
AccessProgram ==
  << <<store("h", "const"), create(2), create(3), normal, load("h"), join(2), load("x")>>,
     <<strcpy("x", "taint"), store("x", "const")>>,
     <<load("x"), store("h", "copy")>> >>

\* Two writers of x whose writes can be recorded in any order.
WritersProgram ==
  << <<create(2), create(3), load("x")>>,
     <<store("x", "const"), normal, store("x", "const")>>,
     <<store("x", "taint")>> >>

\* A waiter and a signaller use one mutex; main joins the signaller.
SyncProgram ==
  << <<create(2), create(3), join(3)>>,
     <<lock("m"), wait("c", "m"), unlock("m")>>,
     <<lock("m"), signal("c"), unlock("m"), normal>> >>

\* Two waiters, each with its signal.
SignalsProgram ==
  << <<create(2), create(3), signal("c"), signal("c")>>,
     <<lock("m"), wait("c", "m"), unlock("m")>>,
     <<lock("m"), wait("c", "m"), unlock("m")>> >>

\* Two rounds of a barrier that both threads pass, with accesses between.
BarrierProgram ==
  << <<create(2), store("x", "const"), barrier("b"), normal, barrier("b"), load("x")>>,
     <<barrier("b"), store("x", "taint"), barrier("b"), load("x")>> >>

Access == INSTANCE OrderEncoding WITH
  Threads <- 1 .. 3, Program <- AccessProgram, Vars <- {"x", "h"}, Mutexes <- {"m"},
  Conds <- {"c"}, Barriers <- {"b"}, BarrierCount <- 2, Initialized <- {"x"}

Writers == INSTANCE OrderEncoding WITH
  Threads <- 1 .. 3, Program <- WritersProgram, Vars <- {"x", "h"}, Mutexes <- {"m"},
  Conds <- {"c"}, Barriers <- {"b"}, BarrierCount <- 2, Initialized <- {"x"}

Sync == INSTANCE OrderEncoding WITH
  Threads <- 1 .. 3, Program <- SyncProgram, Vars <- {"x", "h"}, Mutexes <- {"m"},
  Conds <- {"c"}, Barriers <- {"b"}, BarrierCount <- 2, Initialized <- {"x"}

Signals == INSTANCE OrderEncoding WITH
  Threads <- 1 .. 3, Program <- SignalsProgram, Vars <- {"x", "h"}, Mutexes <- {"m"},
  Conds <- {"c"}, Barriers <- {"b"}, BarrierCount <- 2, Initialized <- {"x"}

Barrier == INSTANCE OrderEncoding WITH
  Threads <- 1 .. 2, Program <- BarrierProgram, Vars <- {"x", "h"}, Mutexes <- {"m"},
  Conds <- {"c"}, Barriers <- {"b"}, BarrierCount <- 2, Initialized <- {"x"}

-----------------------------------------------------------------------------
SolverIdle ==
  /\ feasible = NULL /\ feasibleTaint = NULL /\ unrelated = NULL /\ useful = NULL
  /\ control = NULL /\ index = NULL /\ scopes = NULL /\ taintScopes = NULL
  /\ scheduleSet = NULL /\ PTS = NULL /\ taintPTS = NULL /\ noTaintPTS = NULL
  /\ answer = NULL /\ thrown = NULL

TraceIdle ==
  /\ recording = NULL /\ executed = NULL /\ pending = NULL /\ machine = NULL
  /\ eventList = NULL /\ readSet = NULL /\ writeSet = NULL /\ all_lock_unlock = NULL
  /\ all_wait = NULL /\ all_signal = NULL /\ all_barrier = NULL /\ barrierRecord = NULL
  /\ createThreadPoint = NULL /\ joinThreadPoint = NULL /\ placed = NULL
  /\ order = NULL /\ now = NULL /\ possible = NULL /\ memory = NULL /\ seen = NULL
  /\ tainted = NULL

Init ==
  \/ subject = "solver" /\ SolverInit /\ TraceIdle
  \/ subject = "access" /\ Access!EncodingInit /\ SolverIdle
  \/ subject = "writers" /\ Writers!EncodingInit /\ SolverIdle
  \/ subject = "sync" /\ Sync!EncodingInit /\ SolverIdle
  \/ subject = "signals" /\ Signals!EncodingInit /\ SolverIdle
  \/ subject = "barrier" /\ Barrier!EncodingInit /\ SolverIdle

Next ==
  /\ UNCHANGED subject
  /\ \/ subject = "solver" /\ E!EncodeNext /\ UNCHANGED traceVars
     \/ subject = "access" /\ Access!EncodingNext /\ UNCHANGED solverVars
     \/ subject = "writers" /\ Writers!EncodingNext /\ UNCHANGED solverVars
     \/ subject = "sync" /\ Sync!EncodingNext /\ UNCHANGED solverVars
     \/ subject = "signals" /\ Signals!EncodingNext /\ UNCHANGED solverVars
     \/ subject = "barrier" /\ Barrier!EncodingNext /\ UNCHANGED solverVars

Spec == Init /\ [][Next]_<<subject, solverVars, traceVars>>

\* State constraint for the programs with waits: orders in which a thread starts
\* before it is created are left to the others.
Started ==
  subject \in {"sync", "signals"} =>
    \A p \in createThreadPoint : placed[p[2]] > 0 => Sync!eventName(p[1]) \in DOMAIN order

-----------------------------------------------------------------------------
\* Every prefix does what it was computed for: it is an order of the trace in which the
\* assert fails or the branch goes the other way, with all that comes before it as
\* recorded.  As long as no exception was caught, "unsat" is answered only if no order of
\* the trace reaches the goal, whatever was checked before.
AnswersRight == subject = "solver" => E!PrefixesReal /\ E!UnsatMeansImpossible

\* Every order that satisfies the formulas of buildAllFormula can be executed:
\* computePrefix never makes a prefix that the threads cannot follow.
SolutionsRun ==
  /\ subject = "access" => Access!SolutionsRun
  /\ subject = "sync" => Sync!SolutionsRun
  /\ subject = "signals" => Signals!SolutionsRun
  /\ subject = "barrier" => Barrier!SolutionsRun

\* Every order in which the threads could execute the recorded events, the
\* recorded one included, satisfies the formulas: check_if and verify do not
\* miss a schedule.
RunsAreSolutions ==
  /\ subject = "access" => Access!RunsAreSolutions
  /\ subject = "sync" => Sync!RunsAreSolutions
  /\ subject = "signals" => Signals!RunsAreSolutions
  /\ subject = "barrier" => Barrier!RunsAreSolutions

\* The write a read really sees in an executable order is one the read-write formula lets
\* it be equal to, and any other write it may be equal to is an older one of the thread
\* whose write the read sees: the stale values are no more than these.
ReadsRight ==
  /\ subject = "access" => Access!ReadsComplete
  /\ subject = "writers" => Writers!ReadsFresh

\* The tags of what is really tainted in an executable order satisfy the taint
\* formulas: PTS does not miss taint that some schedule has.
TaintsAreSolutions == subject = "access" => Access!TaintsAreSolutions

\* "create a backstracking point" and "backstracking" (Encode.cpp:265 and 422) enclose
\* the check of a branch, so the answer for one branch is independent of what happened
\* to the others.
BranchesIndependent == subject = "solver" => E!BranchesIndependent

=============================================================================
