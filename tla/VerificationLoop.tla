--------------------------- MODULE VerificationLoop ---------------------------
(***************************************************************************)
(* The search over executions: Executor::runVerification with startControl *)
(* and endControl of ListenerService.cpp, the afterRunMethodAsMain of the  *)
(* listeners, the schedule set of RuntimeDataManager.cpp and the two loops *)
(* of Encode.cpp that fill it (verify and check_if).                       *)
(*                                                                         *)
(* A new trace is executed three times with one prefix: recorded (run      *)
(* state 0), symbolically (1) and for taint (2).  The second execution     *)
(* ends with the analysis that produces prefixes, the third one with the   *)
(* choice of the next prefix.  Which trace an execution records, and which *)
(* branches the solver can negate, is up to the analysed program.          *)
(***************************************************************************)
EXTENDS Naturals, Sequences, Functions

CONSTANTS
  Abstracts,            \* Trace::abstract: the branches taken by each thread
  Variants,             \* interleavings with the same abstract
  NumBranches,          \* bound on the branches of a trace (ifFormula.size())
  NULL                  \* Executor::prefix is NULL

ASSUME NumBranchesAssumption == NumBranches \in Nat

VARIABLES
  control,              \* "loop" head of the while loop, "run", "end" before
                        \* endControl, "check" inside check_if, "done"
  execStatus,           \* Executor::execStatus
  isFinished,           \* Executor::isFinished
  executionNum,         \* Executor::executionNum, counted up to 2
  prefix,               \* Executor::prefix
  consumed,             \* prefix->pos has left eventList.begin()
  nextRunState,         \* RuntimeDataManager::runState
  runState,             \* ListenerService::runState
  listeners,            \* ListenerService::bitcodeListeners
  scheduleSet,          \* RuntimeDataManager::scheduleSet
  testedTraceList,      \* RuntimeDataManager::testedTraceList
  currentTrace,         \* RuntimeDataManager::currentTrace
  branch,               \* the loop index of check_if
  history               \* what happened so far; read by the properties only

loopVars == <<control, execStatus, isFinished, executionNum, prefix, consumed,
              nextRunState, runState, listeners, scheduleSet, testedTraceList,
              currentTrace, branch, history>>

Traces == [abstract : Abstracts, variant : Variants]

\* Branch 0 stands for an assert that the solver can violate.
Prefixes == Traces \X (0 .. NumBranches)

ASSUME NULLAssumption == NULL \notin Prefixes /\ NULL \notin Traces

Statuses == {"SUCCESS", "IGNOREDERROR", "RUNTIMEERROR"}

Kinds == <<"PSOListener", "SymbolicListener", "TaintListener">>

\* ListenerService::popListener: the vector is used as a stack.
popListener(vector) == SubSeq(vector, 1, Len(vector) - 1)

\* Trace::isEqual
isEqual(t, u) == t.abstract = u.abstract

Histories ==
  [promised : SUBSET Prefixes,   \* prefixes that check_if produced
   executed : SUBSET Prefixes,   \* prefixes with which a run was recorded
   recordedWith : Prefixes \union {NULL},  \* prefix of the latest recorded run
   bug : Prefixes \union {NULL}, \* violates an assert and is to be replayed
   clean : BOOLEAN]              \* no run failed, no assert was violated

-----------------------------------------------------------------------------
LoopInit ==
  /\ control = "loop"
  /\ execStatus = "SUCCESS"
  /\ isFinished = FALSE
  /\ executionNum = 0
  /\ prefix = NULL
  /\ consumed = FALSE
  /\ nextRunState = 0
  /\ runState = 0
  /\ listeners = <<>>
  /\ scheduleSet = <<>>
  /\ testedTraceList = {}
  /\ currentTrace = NULL
  /\ branch = 1
  /\ history = [promised |-> {}, executed |-> {}, recordedWith |-> NULL,
                bug |-> NULL, clean |-> TRUE]

\* The condition of the while loop in runVerification.
goesOn == ~ isFinished /\ execStatus # "RUNTIMEERROR"

\* Mutant: the third execution goes on where the second one left the prefix.
startWithoutReuse ==
  /\ control = "loop"
  /\ goesOn
  /\ control' = "run"
  /\ execStatus' = "SUCCESS"
  /\ runState' = nextRunState
  /\ listeners' = Append(listeners, Kinds[nextRunState + 1])
  /\ \/ /\ nextRunState = 0
        /\ executionNum' = IF executionNum < 2 THEN executionNum + 1 ELSE 2
        /\ UNCHANGED <<nextRunState, consumed>>
     \/ /\ nextRunState = 1
        /\ nextRunState' = 2
        /\ consumed' = FALSE
        /\ UNCHANGED executionNum
     \/ /\ nextRunState = 2
        /\ nextRunState' = 0
        /\ UNCHANGED <<executionNum, consumed>>
  /\ UNCHANGED <<isFinished, prefix, scheduleSet, testedTraceList, currentTrace,
                 branch, history>>

\* The run state of this execution is cached, the next one is set right away.
startControl ==
  /\ control = "loop"
  /\ goesOn
  /\ control' = "run"
  /\ execStatus' = "SUCCESS"
  /\ runState' = nextRunState
  /\ listeners' = Append(listeners, Kinds[nextRunState + 1])
  /\ \/ /\ nextRunState = 0
        /\ executionNum' = IF executionNum < 2 THEN executionNum + 1 ELSE 2
        /\ UNCHANGED <<nextRunState, consumed>>
     \/ /\ nextRunState = 1
        /\ nextRunState' = 2
        /\ consumed' = FALSE
        /\ UNCHANGED executionNum
     \/ /\ nextRunState = 2
        /\ nextRunState' = 0
        /\ consumed' = FALSE
        /\ UNCHANGED executionNum
  /\ UNCHANGED <<isFinished, prefix, scheduleSet, testedTraceList, currentTrace,
                 branch, history>>

leaveLoop ==
  /\ control = "loop"
  /\ ~ goesOn
  /\ control' = "done"
  /\ UNCHANGED <<execStatus, isFinished, executionNum, prefix, consumed,
                 nextRunState, runState, listeners, scheduleSet,
                 testedTraceList, currentTrace, branch, history>>

\* Mutant: the prefix that is taken stays in the schedule set.
getFrontAgain(used) ==
  IF scheduleSet = <<>>
  THEN /\ isFinished' = TRUE
       /\ consumed' = used
       /\ UNCHANGED <<prefix, scheduleSet>>
  ELSE /\ isFinished' = FALSE
       /\ prefix' = Head(scheduleSet)
       /\ consumed' = FALSE
       /\ UNCHANGED scheduleSet

\* Mutant: an empty schedule set does not end the search.
getNothing(used) ==
  IF scheduleSet = <<>>
  THEN /\ isFinished' = FALSE
       /\ consumed' = used
       /\ UNCHANGED <<prefix, scheduleSet>>
  ELSE /\ isFinished' = FALSE
       /\ prefix' = Head(scheduleSet)
       /\ consumed' = FALSE
       /\ scheduleSet' = Tail(scheduleSet)

\* Executor::getNewPrefix and RuntimeDataManager::getNextPrefix; used says
\* whether the execution that just ended had a prefix, which it has consumed.
getNewPrefix(used) ==
  IF scheduleSet = <<>>
  THEN /\ isFinished' = TRUE
       /\ consumed' = used
       /\ UNCHANGED <<prefix, scheduleSet>>
  ELSE /\ isFinished' = FALSE
       /\ prefix' = Head(scheduleSet)
       /\ consumed' = FALSE
       /\ scheduleSet' = Tail(scheduleSet)

-----------------------------------------------------------------------------
\* runFunctionAsMain with a PSOListener: beforeRunMethodAsMain creates the
\* trace, the run leaves the prefix behind, afterRunMethodAsMain decides.
failedRecord(status) ==
  /\ execStatus' = status
  /\ isFinished' = TRUE
  /\ consumed' = (prefix # NULL)
  /\ history' = [history EXCEPT !.recordedWith = prefix, !.bug = NULL,
                                !.clean = FALSE]
  /\ UNCHANGED <<prefix, scheduleSet, testedTraceList, nextRunState>>

\* RuntimeDataManager::isCurrentTraceUntested
isUntested(trace) == \A t \in testedTraceList : ~ isEqual(trace, t)

\* history after an execution that went well
afterRecord ==
  [history EXCEPT !.recordedWith = prefix, !.bug = NULL,
                  !.executed = @ \union ({prefix} \ {NULL})]

redundantRecord(trace) ==
  /\ execStatus' = "SUCCESS"
  /\ ~ isUntested(trace)
  /\ getNewPrefix(prefix # NULL)
  /\ history' = afterRecord
  /\ UNCHANGED <<testedTraceList, nextRunState>>

\* Mutant: a trace with the abstract of a tested one is analysed again.
everyTraceIsNew(trace) ==
  /\ execStatus' = "SUCCESS"
  /\ consumed' = (prefix # NULL)
  /\ testedTraceList' = testedTraceList \union {trace}
  /\ nextRunState' = 1
  /\ history' = afterRecord
  /\ UNCHANGED <<isFinished, prefix, scheduleSet>>

newRecord(trace) ==
  /\ execStatus' = "SUCCESS"
  /\ isUntested(trace)
  /\ consumed' = (prefix # NULL)
  /\ testedTraceList' = testedTraceList \union {trace}
  /\ nextRunState' = 1
  /\ history' = afterRecord
  /\ UNCHANGED <<isFinished, prefix, scheduleSet>>

record ==
  /\ control = "run"
  /\ runState = 0
  /\ control' = "end"
  /\ \E trace \in Traces :
       /\ currentTrace' = trace
       /\ \/ \E status \in Statuses \ {"SUCCESS"} : failedRecord(status)
          \/ redundantRecord(trace)
          \/ newRecord(trace)
  /\ UNCHANGED <<executionNum, runState, listeners, branch>>

\* runFunctionAsMain with a SymbolicListener or a TaintListener.  Neither looks
\* at execStatus when the execution is over.
rerun ==
  /\ control = "run"
  /\ runState \in {1, 2}
  /\ control' = "end"
  /\ execStatus' \in Statuses
  /\ consumed' = (prefix # NULL)
  /\ history' = [history EXCEPT !.clean = @ /\ execStatus' = "SUCCESS"]
  /\ UNCHANGED <<isFinished, executionNum, prefix, nextRunState, runState,
                 listeners, scheduleSet, testedTraceList, currentTrace, branch>>

-----------------------------------------------------------------------------
\* endControl; what is left of the iteration is prepareNextExecution, which
\* resets the state of PthreadRuntime.
endRecord ==
  /\ control = "end"
  /\ runState = 0
  /\ control' = "loop"
  /\ listeners' = popListener(listeners)
  /\ UNCHANGED <<execStatus, isFinished, executionNum, prefix, consumed,
                 nextRunState, runState, scheduleSet, testedTraceList,
                 currentTrace, branch, history>>

\* Mutant: verify leaves the other prefixes in front of the one it found.
keepOtherPrefixes(bug) == Append(scheduleSet, bug)

\* clearAllPrefix and addScheduleSet in Encode::verify
onlyPrefix(bug) == <<bug>>

\* Encode::verify finds an assert that another interleaving violates.
verifyFails ==
  /\ control = "end"
  /\ runState = 1
  /\ control' = "loop"
  /\ listeners' = popListener(listeners)
  /\ LET bug == <<currentTrace, 0>> IN
       /\ scheduleSet' = onlyPrefix(bug)
       /\ history' = [history EXCEPT !.bug = bug, !.clean = FALSE]
  /\ UNCHANGED <<execStatus, isFinished, executionNum, prefix, consumed,
                 nextRunState, runState, testedTraceList, currentTrace, branch>>

\* verify returns true and check_if begins.
verifyHolds ==
  /\ control = "end"
  /\ runState = 1
  /\ control' = "check"
  /\ listeners' = popListener(listeners)
  /\ branch' = 1
  /\ UNCHANGED <<execStatus, isFinished, executionNum, prefix, consumed,
                 nextRunState, runState, scheduleSet, testedTraceList,
                 currentTrace, history>>

\* Mutant: one branch too many.
lastBranchOffByOne == NumBranches + 1

lastBranch == NumBranches

\* One iteration of the loop in check_if: the branch is negated, or it is not
\* (filtered as useless, unsatisfiable, unknown, or an exception of the solver).
checkBranch ==
  /\ control = "check"
  /\ branch <= lastBranch
  /\ branch' = branch + 1
  /\ \/ /\ scheduleSet' = Append(scheduleSet, <<currentTrace, branch>>)
        /\ history' = [history EXCEPT !.promised =
                                        @ \union {<<currentTrace, branch>>}]
     \/ UNCHANGED <<scheduleSet, history>>
  /\ UNCHANGED <<control, execStatus, isFinished, executionNum, prefix,
                 consumed, nextRunState, runState, listeners, testedTraceList,
                 currentTrace>>

endSymbolic ==
  /\ control = "check"
  /\ branch > lastBranch
  /\ control' = "loop"
  /\ UNCHANGED <<execStatus, isFinished, executionNum, prefix, consumed,
                 nextRunState, runState, listeners, scheduleSet,
                 testedTraceList, currentTrace, branch, history>>

\* DTAM::dtam and Encode::PTS are taken to return; they touch none of this.
endTaint ==
  /\ control = "end"
  /\ runState = 2
  /\ control' = "loop"
  /\ listeners' = popListener(listeners)
  /\ getNewPrefix(consumed)
  /\ UNCHANGED <<execStatus, executionNum, nextRunState, runState,
                 testedTraceList, currentTrace, branch, history>>

terminated == control = "done" /\ UNCHANGED loopVars

LoopNext ==
  \/ startControl \/ leaveLoop
  \/ record \/ rerun
  \/ endRecord \/ verifyFails \/ verifyHolds \/ checkBranch \/ endSymbolic
  \/ endTaint
  \/ terminated

LoopSpec == LoopInit /\ [][LoopNext]_loopVars

\* The loop is sequential code: it takes its next step if it has one.
FairLoopSpec == LoopSpec /\ WF_loopVars(LoopNext)

-----------------------------------------------------------------------------
LoopTypeOK ==
  /\ control \in {"loop", "run", "end", "check", "done"}
  /\ execStatus \in Statuses
  /\ isFinished \in BOOLEAN
  /\ executionNum \in 0 .. 2
  /\ prefix \in Prefixes \union {NULL}
  /\ consumed \in BOOLEAN
  /\ nextRunState \in 0 .. 2
  /\ runState \in 0 .. 2
  /\ listeners \in Seq(Range(Kinds))
  /\ scheduleSet \in Seq(Prefixes)
  /\ testedTraceList \subseteq Traces
  /\ currentTrace \in Traces \union {NULL}
  /\ branch \in 1 .. NumBranches + 1
  /\ history \in Histories

(***************************************************************************)
(* The three executions of a trace agree.  While the program runs, exactly *)
(* the listener of the current run state is installed and the prefix is at *)
(* its first event.  The symbolic and the taint execution have the prefix  *)
(* with which the trace was recorded, and that trace is a tested one; an   *)
(* execution that is recorded after the first has a prefix, so that the    *)
(* name PSOListener prints is there (PSOListener.cpp:132).                 *)
(***************************************************************************)
SameExecution ==
  control = "run" =>
    /\ listeners = <<Kinds[runState + 1]>>
    /\ ~ consumed
    /\ runState # 0 => prefix = history.recordedWith /\ currentTrace \in testedTraceList
    /\ runState = 0 /\ executionNum > 1 => prefix # NULL

(***************************************************************************)
(* No prefix is lost and none is executed twice: as long as no execution   *)
(* failed and no assert was violated, the prefixes that check_if produced  *)
(* are the executed ones, the current one and the ones in the schedule     *)
(* set, each in one place; and the search ends with all of them executed.  *)
(***************************************************************************)
NoPrefixLost ==
  history.clean =>
    /\ history.promised = history.executed \union Range(scheduleSet)
                            \union ({prefix} \ {NULL})
    /\ IsInjective(scheduleSet)
    /\ history.executed \intersect Range(scheduleSet) = {}
    /\ prefix \notin Range(scheduleSet)
    /\ control = "done" => history.executed = history.promised

(***************************************************************************)
(* No two analysed traces have the same abstract (isCurrentTraceUntested), *)
(* and prefixes come from analysed traces only.                            *)
(***************************************************************************)
AnalysedOnce ==
  /\ \A t, u \in testedTraceList : isEqual(t, u) => t = u
  /\ \A p \in Range(scheduleSet) : p[1] \in testedTraceList

(***************************************************************************)
(* A violated assert is replayed at once: the execution recorded after     *)
(* Encode::verify found one has the prefix that violates it, and no other  *)
(* prefix is left (the comment at Encode.cpp:205).                         *)
(***************************************************************************)
BugReplayedNext ==
  history.bug # NULL /\ control = "run" /\ runState = 0 =>
    prefix = history.bug /\ scheduleSet = <<>>

(***************************************************************************)
(* The search ends: with finitely many abstracts and branches the loop of  *)
(* runVerification is left.                                                *)
(***************************************************************************)
SearchEnds == <>(control = "done")

(***************************************************************************)
(* "执行有错误,放弃本次执行", an execution with an error is given up              *)
(* (PSOListener.cpp:891): an ignored error ends that execution, and the    *)
(* search ends only when no prefix is left.                                *)
(***************************************************************************)
OnlyThisExecutionGivenUp ==
  control = "done" /\ execStatus = "IGNOREDERROR" => scheduleSet = <<>>

=============================================================================
