----------------------------- MODULE MCGuidance -----------------------------
(* The two parts of the loop whose end depends on others: an execution under *)
(* a prefix (GuidedRuntime), with a program whose threads are created by     *)
(* different threads and one where two threads wait and one signals; and     *)
(* the work list of PTS (EncodeSolver), with a branch and two points.        *)
(* subject says which of them a behaviour is of; the variables of the others *)
(* are NULL.                                                                 *)
EXTENDS Naturals, Sequences, FiniteSets

CONSTANT NULL

VARIABLE subject

VARIABLES
  feasible, feasibleTaint, unrelated, useful, control, index, scopes, taintScopes,
  scheduleSet, PTS, taintPTS, noTaintPTS, answer, thrown

VARIABLES
  phase, order, solved, pos, pc, state, id, nextThreadId, queue, owner, waiters,
  execStatus

solverVars == <<feasible, feasibleTaint, unrelated, useful, control, index, scopes,
                taintScopes, scheduleSet, PTS, taintPTS, noTaintPTS, answer, thrown>>

executorVars == <<phase, order, solved, pos, pc, state, id, nextThreadId, queue, owner,
                  waiters, execStatus>>

vars == <<subject, solverVars, executorVars>>

-----------------------------------------------------------------------------
CreateScript ==
  <<  << <<"create", 2>>, <<"lock">>, <<"unlock">>, <<"create", 3>>, <<"join", 2>>, <<"ret">> >>,
      << <<"create", 4>>, <<"ret">> >>,
      << <<"lock">>, <<"unlock">>, <<"ret">> >>,
      << <<"lock">>, <<"unlock">>, <<"ret">> >> >>

WaitScript ==
  <<  << <<"create", 2>>, <<"create", 3>>, <<"lock">>, <<"signal">>, <<"unlock">>, <<"ret">> >>,
      << <<"lock">>, <<"wait">>, <<"unlock">>, <<"ret">> >>,
      << <<"lock">>, <<"wait">>, <<"signal">>, <<"unlock">>, <<"ret">> >> >>

Create == INSTANCE GuidedRuntime WITH
  Roles <- 1 .. 4, Main <- 1, Script <- CreateScript, RecordedId <- <<1, 2, 3, 4>>

Wait == INSTANCE GuidedRuntime WITH
  Roles <- 1 .. 3, Main <- 1, Script <- WaitScript, RecordedId <- <<1, 2, 3>>

-----------------------------------------------------------------------------
Events == {"if1", "point1", "point2"}

\* if1 and point1 are events of one thread, in this order.
Orders ==
  {o \in [Events -> 1 .. 3] : /\ \A a, b \in Events : o[a] = o[b] => a = b
                              /\ o["if1"] < o["point1"]}

AllWorlds == [order : Orders, holds : [Events -> BOOLEAN]]

Taint == INSTANCE EncodeSolver WITH
  Asserts <- <<>>, Ifs <- <<"if1">>, Points <- <<"point1", "point2">>, Rws <- {},
  Worlds <- AllWorlds

\* As recorded: all formulas hold.
recorded == CHOOSE w \in AllWorlds : \A e \in Events : w.holds[e]

TaintInit ==
  /\ \E v, w \in AllWorlds : feasible = {recorded, v, w}
  /\ feasibleTaint = feasible
  /\ useful \in {{"if1"}, {}}
  /\ Taint!EncodeInit

-----------------------------------------------------------------------------
SolverIdle ==
  /\ feasible = NULL /\ feasibleTaint = NULL /\ unrelated = NULL /\ useful = NULL
  /\ control = NULL /\ index = NULL /\ scopes = NULL /\ taintScopes = NULL
  /\ scheduleSet = NULL /\ PTS = NULL /\ taintPTS = NULL /\ noTaintPTS = NULL
  /\ answer = NULL /\ thrown = NULL

ExecutorIdle ==
  /\ phase = NULL /\ order = NULL /\ solved = NULL /\ pos = NULL /\ pc = NULL
  /\ state = NULL /\ id = NULL /\ nextThreadId = NULL /\ queue = NULL /\ owner = NULL
  /\ waiters = NULL /\ execStatus = NULL

Init ==
  \/ subject = "create" /\ Create!GuidedInit /\ SolverIdle
  \/ subject = "wait" /\ Wait!GuidedInit /\ SolverIdle
  \/ subject = "taint" /\ TaintInit /\ ExecutorIdle

CreateStep == subject = "create" /\ Create!GuidedNext /\ UNCHANGED <<subject, solverVars>>

WaitStep == subject = "wait" /\ Wait!GuidedNext /\ UNCHANGED <<subject, solverVars>>

TaintStep == subject = "taint" /\ Taint!EncodeNext /\ UNCHANGED <<subject, executorVars>>

Next == CreateStep \/ WaitStep \/ TaintStep

\* The executor goes on while it can; the solver's loop is sequential, and a point that
\* is tried for ever gets an answer at last.
Spec ==
  /\ Init /\ [][Next]_vars
  /\ WF_vars(subject = "wait" /\ Wait!run /\ UNCHANGED <<subject, solverVars>>)
  /\ WF_vars(subject = "create" /\ Create!run /\ UNCHANGED <<subject, solverVars>>)
  /\ WF_vars(TaintStep)
  /\ SF_vars(subject = "taint" /\ Taint!decidePoint /\ UNCHANGED <<subject, executorVars>>)

-----------------------------------------------------------------------------
\* As long as the prefix lasts, each event's thread can run, and is at the event's
\* instruction: no feasible prefix is given up (the checks on isAbleToRun and on
\* getCurrentInst).  Threads created under the prefix have their recorded ids, and no two
\* threads share an id, those created after the prefix included.
PrefixFollowed ==
  /\ subject = "create" => Create!PrefixFollowed /\ Create!ThreadIds
  /\ subject = "wait" => Wait!PrefixFollowed /\ Wait!ThreadIds

\* The prefix leaves the executor where the solver's order leads: as many threads wait for
\* the condition, the same one has the mutex, the same ended; and behind the prefix the
\* queue holds the threads that can be scheduled, once.
ReachesSolution ==
  /\ subject = "create" => Create!ReachesSolution /\ Create!QueueOfSchedulable
  /\ subject = "wait" => Wait!ReachesSolution /\ Wait!QueueOfSchedulable

\* PTS decides every point, once, in spite of exceptions; what it calls tainted can be
\* tainted in a feasible order.
PointsDecided == subject = "taint" => Taint!PointsDecided

\* An execution under a prefix comes to its end, and PTS ends if the solver's exceptions do.
LoopsEnd ==
  /\ (subject \in {"create", "wait"} /\ phase # "solve") ~> phase = "end"
  /\ subject = "taint" => Taint!PTSEnds

=============================================================================
