----------------------------- MODULE LoopInvariant -----------------------------
(***************************************************************************)
(* The inductive invariant of VerificationLoop.                            *)
(***************************************************************************)
EXTENDS VerificationLoop

\* The run state of the iteration that begins or is under way.
phase == IF control = "loop" THEN nextRunState ELSE runState

\* The trace of the latest recorded execution is new; its symbolic execution
\* has not been analysed yet.
beforeAnalysis ==
  \/ control \in {"loop", "end"} /\ nextRunState = 1
  \/ control \in {"run", "end"} /\ runState = 1

\* The run state of the next iteration is set when an iteration starts; only
\* newRecord changes it later.
PhaseOK ==
  /\ listeners = IF control \in {"run", "end"} THEN <<Kinds[runState + 1]>> ELSE <<>>
  /\ control = "check" => runState = 1
  /\ control \in {"run", "end", "check"} =>
       nextRunState \in IF runState = 1 THEN {2} ELSE IF control = "end" /\ runState = 0 THEN {0, 1} ELSE {0}
  /\ control # "done" /\ (phase # 0 \/ (control = "end" /\ nextRunState = 1)) =>
       /\ prefix = history.recordedWith
       /\ currentTrace \in testedTraceList
       /\ ~ isFinished
  /\ control = "done" => ~ goesOn
  /\ control = "run" => ~ isFinished /\ ~ consumed
  /\ control \in {"loop", "end"} /\ phase = 0 /\ nextRunState = 0 /\ ~ isFinished =>
       ~ consumed

(* An execution is recorded with no prefix once. *)
PrefixOK ==
  /\ executionNum = 0 /\ control # "done" => control = "loop" /\ phase = 0
  /\ control # "done" /\ phase = 0 /\ ~ isFinished =>
       \/ control = "loop" /\ executionNum = 0
       \/ control = "run" /\ executionNum = 1
       \/ control = "end" /\ nextRunState = 1
       \/ prefix # NULL

\* The prefix of a clean search is executed unless its recording is to come.
Worklist ==
  history.clean =>
    /\ \/ prefix \in history.executed \union {NULL}
       \/ control \in {"loop", "run"} /\ phase = 0 /\ ~ isFinished
       \/ control = "end" /\ phase = 0 /\ nextRunState = 0 /\ ~ isFinished
    /\ isFinished => scheduleSet = <<>>
    /\ execStatus = "SUCCESS"

\* Where the prefixes of the trace under analysis stand.
PromisedOK ==
  /\ \A p \in history.promised : p[1] \in testedTraceList
  /\ beforeAnalysis => \A p \in history.promised : p[1] # currentTrace
  /\ control = "check" =>
       \A p \in history.promised : p[1] = currentTrace => p[2] < branch

BugOK ==
  history.bug # NULL /\ control # "done" =>
    \/ /\ control \in {"loop", "run", "end"}
       /\ phase = 2
       /\ scheduleSet = <<history.bug>>
    \/ /\ control \in {"loop", "run"}
       /\ phase = 0
       /\ prefix = history.bug
       /\ scheduleSet = <<>>

LoopInv ==
  /\ LoopTypeOK /\ PhaseOK /\ PrefixOK /\ Worklist /\ PromisedOK
  /\ NoPrefixLost /\ AnalysedOnce /\ BugOK

=============================================================================
