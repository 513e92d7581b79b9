-------------------------- MODULE VerificationLoopProofs --------------------------
(***************************************************************************)
(* The invariant of LoopInvariant is inductive, for any traces and any     *)
(* number of branches; the theorems follow.                                *)
(***************************************************************************)
EXTENDS LoopInvariant, TLAPS

\* Adding to the schedule set.
LEMMA AddScheduleSet ==
  ASSUME NEW S, NEW s \in Seq(S), NEW e \in S
  PROVE  /\ Append(s, e) \in Seq(S)
         /\ Range(Append(s, e)) = Range(s) \union {e}
         /\ IsInjective(s) /\ e \notin Range(s) => IsInjective(Append(s, e))
<1>1. /\ Append(s, e) \in Seq(S)
      /\ Len(s) \in Nat
      /\ DOMAIN s = 1 .. Len(s)
      /\ DOMAIN Append(s, e) = 1 .. Len(s) + 1
      /\ \A i \in 1 .. Len(s) : Append(s, e)[i] = s[i]
      /\ Append(s, e)[Len(s) + 1] = e
  OBVIOUS
<1>2. \A i \in 1 .. Len(s) + 1 : i \in 1 .. Len(s) \/ i = Len(s) + 1
  BY <1>1
<1>3. Range(Append(s, e)) = Range(s) \union {e}
  BY <1>1, <1>2 DEF Range
<1>4. IsInjective(s) /\ e \notin Range(s) => IsInjective(Append(s, e))
  BY <1>1, <1>2 DEF Range, IsInjective
<1> QED
  BY <1>1, <1>3, <1>4

\* Taking the first prefix of the schedule set.
LEMMA GetNextPrefix ==
  ASSUME NEW S, NEW s \in Seq(S), s # <<>>
  PROVE  /\ Tail(s) \in Seq(S)
         /\ Head(s) \in S
         /\ Range(s) = Range(Tail(s)) \union {Head(s)}
         /\ IsInjective(s) => IsInjective(Tail(s)) /\ Head(s) \notin Range(Tail(s))
<1>1. /\ Tail(s) \in Seq(S)
      /\ Len(s) \in Nat \ {0}
      /\ DOMAIN s = 1 .. Len(s)
      /\ DOMAIN Tail(s) = 1 .. Len(s) - 1
      /\ \A i \in 1 .. Len(s) - 1 : Tail(s)[i] = s[i + 1] /\ i + 1 \in 1 .. Len(s)
      /\ Head(s) = s[1]
      /\ 1 \in 1 .. Len(s)
      /\ s[1] \in S
  OBVIOUS
<1>2. \A i \in 1 .. Len(s) : i = 1 \/ (i - 1 \in 1 .. Len(s) - 1 /\ Tail(s)[i - 1] = s[i])
  BY <1>1
<1>3. Range(s) = Range(Tail(s)) \union {Head(s)}
  <2>1. \A i \in 1 .. Len(s) : s[i] \in Range(Tail(s)) \union {Head(s)}
    BY Zenon, <1>1, <1>2 DEF Range
  <2>2. Range(Tail(s)) \union {Head(s)} \subseteq Range(s)
    BY <1>1 DEF Range
  <2> QED
    BY <1>1, <2>1, <2>2 DEF Range
<1>4. IsInjective(s) => IsInjective(Tail(s)) /\ Head(s) \notin Range(Tail(s))
  BY <1>1 DEF Range, IsInjective
<1> QED
  BY <1>1, <1>3, <1>4

\* A list of one element, and the empty list.
LEMMA ShortLists ==
  ASSUME NEW S, NEW e \in S
  PROVE  /\ <<e>> \in Seq(S) /\ Range(<<e>>) = {e}
         /\ <<e>> # <<>> /\ Head(<<e>>) = e /\ Tail(<<e>>) = <<>>
         /\ <<>> \in Seq(S) /\ Range(<<>>) = {} /\ IsInjective(<<>>)
BY DEF Range, IsInjective

\* What getNewPrefix leaves, with the schedule set as a set of prefixes.
taken(used) ==
  \/ /\ scheduleSet = <<>>
     /\ isFinished' = TRUE /\ consumed' = used
     /\ prefix' = prefix /\ scheduleSet' = scheduleSet
  \/ /\ isFinished' = FALSE /\ consumed' = FALSE
     /\ prefix' \in Prefixes /\ prefix' # NULL
     /\ scheduleSet' \in Seq(Prefixes)
     /\ Range(scheduleSet) = Range(scheduleSet') \union {prefix'}
     /\ IsInjective(scheduleSet) =>
          IsInjective(scheduleSet') /\ prefix' \notin Range(scheduleSet')

\* Executor::getNewPrefix takes one prefix out, or finds none and finishes.
LEMMA GetNewPrefix ==
  ASSUME scheduleSet \in Seq(Prefixes), NEW used, getNewPrefix(used)
  PROVE  taken(used)
<1>1. CASE scheduleSet = <<>>
  BY <1>1 DEF getNewPrefix, taken
<1>2. CASE scheduleSet # <<>>
  <2>1. /\ Tail(scheduleSet) \in Seq(Prefixes)
        /\ Head(scheduleSet) \in Prefixes
        /\ Range(scheduleSet) = Range(Tail(scheduleSet)) \union {Head(scheduleSet)}
        /\ IsInjective(scheduleSet) =>
             /\ IsInjective(Tail(scheduleSet))
             /\ Head(scheduleSet) \notin Range(Tail(scheduleSet))
    BY <1>2, GetNextPrefix
  <2>2. /\ isFinished' = FALSE /\ consumed' = FALSE
        /\ prefix' = Head(scheduleSet)
        /\ scheduleSet' = Tail(scheduleSet)
    BY <1>2 DEF getNewPrefix
  <2> QED
    BY <2>1, <2>2, NULLAssumption DEF taken
<1> QED
  BY <1>1, <1>2

\* The vector of listeners is a stack.
LEMMA PushPop ==
  ASSUME NEW k \in 0 .. 2
  PROVE  /\ Append(<<>>, Kinds[k + 1]) = <<Kinds[k + 1]>>
         /\ popListener(<<Kinds[k + 1]>>) = <<>>
         /\ <<Kinds[k + 1]>> \in Seq(Range(Kinds))
         /\ <<>> \in Seq(Range(Kinds))
BY DEF popListener, Kinds, Range

\* The initial state satisfies the invariant.
LEMMA InitInv == ASSUME LoopInit PROVE LoopInv
<1>1. <<>> \in Seq(Range(Kinds)) /\ <<>> \in Seq(Prefixes) /\ Range(<<>>) = {} /\ IsInjective(<<>>)
  BY DEF Range, IsInjective
<1>2. LoopTypeOK
  <2>1. history \in Histories
    BY DEF LoopInit, Histories
  <2>2. branch \in 1 .. NumBranches + 1
    BY NumBranchesAssumption DEF LoopInit
  <2>3. listeners \in Seq(Range(Kinds)) /\ scheduleSet \in Seq(Prefixes)
    BY <1>1 DEF LoopInit
  <2>4. /\ control \in {"loop", "run", "end", "check", "done"}
        /\ execStatus \in Statuses
        /\ executionNum \in 0 .. 2 /\ nextRunState \in 0 .. 2 /\ runState \in 0 .. 2
    BY DEF LoopInit, Statuses
  <2>5. /\ isFinished \in BOOLEAN /\ consumed \in BOOLEAN
        /\ prefix \in Prefixes \union {NULL}
        /\ testedTraceList \subseteq Traces
        /\ currentTrace \in Traces \union {NULL}
    BY Zenon DEF LoopInit
  <2> QED
    BY <2>1, <2>2, <2>3, <2>4, <2>5 DEF LoopTypeOK
<1>3. PhaseOK /\ PrefixOK /\ Worklist /\ BugOK
  BY DEF LoopInit, PhaseOK, PrefixOK, Worklist, BugOK, phase
<1>4. PromisedOK /\ NoPrefixLost /\ AnalysedOnce
  BY <1>1 DEF LoopInit, PromisedOK, NoPrefixLost, AnalysedOnce, beforeAnalysis
<1> QED
  BY <1>2, <1>3, <1>4 DEF LoopInv

\* The run state of the iteration is set together with the next one.
LEMMA StartControlInv == ASSUME LoopInv, startControl PROVE LoopInv'
<1>1. LoopTypeOK'
  <2>1. history' \in Histories
    BY NumBranchesAssumption DEF LoopInv, LoopTypeOK, Histories, Prefixes, startControl
  <2>2. /\ listeners' \in Seq(Range(Kinds)) /\ scheduleSet' \in Seq(Prefixes)
        /\ prefix' \in Prefixes \union {NULL}
    BY PushPop DEF LoopInv, LoopTypeOK, PhaseOK, startControl
  <2>3. /\ testedTraceList' \subseteq Traces
        /\ currentTrace' \in Traces \union {NULL}
        /\ isFinished' \in BOOLEAN /\ consumed' \in BOOLEAN
    BY Zenon DEF LoopInv, LoopTypeOK, startControl
  <2>4. /\ control' \in {"loop", "run", "end", "check", "done"}
        /\ execStatus' \in Statuses
        /\ executionNum' \in 0 .. 2 /\ nextRunState' \in 0 .. 2 /\ runState' \in 0 .. 2
        /\ branch' \in 1 .. NumBranches + 1
    BY NumBranchesAssumption DEF LoopInv, LoopTypeOK, Statuses, startControl
  <2> QED
    BY <2>1, <2>2, <2>3, <2>4 DEF LoopTypeOK
<1>2. PhaseOK'
  BY PushPop DEF LoopInv, LoopTypeOK, PhaseOK, goesOn, phase, startControl
<1>3. PrefixOK'
  BY DEF LoopInv, LoopTypeOK, PhaseOK, PrefixOK, phase, startControl
<1>4. Worklist'
  BY DEF LoopInv, LoopTypeOK, PhaseOK, Worklist, phase, startControl
<1>5. PromisedOK'
  BY DEF LoopInv, LoopTypeOK, PhaseOK, PromisedOK, beforeAnalysis, phase, startControl
<1>6. NoPrefixLost'
  BY DEF LoopInv, LoopTypeOK, NoPrefixLost, PhaseOK, phase, startControl
<1>7. AnalysedOnce'
  BY DEF AnalysedOnce, LoopInv, LoopTypeOK, PhaseOK, phase, startControl
<1>8. BugOK'
  BY DEF BugOK, LoopInv, LoopTypeOK, PhaseOK, phase, startControl
<1> QED
  BY <1>1, <1>2, <1>3, <1>4, <1>5, <1>6, <1>7, <1>8 DEF LoopInv

\* A clean search is left with an empty schedule set.
LEMMA LeaveLoopInv == ASSUME LoopInv, leaveLoop PROVE LoopInv'
<1>1. LoopTypeOK'
  <2>1. history' \in Histories
    BY NumBranchesAssumption DEF LoopInv, LoopTypeOK, Histories, Prefixes, leaveLoop
  <2>2. /\ listeners' \in Seq(Range(Kinds)) /\ scheduleSet' \in Seq(Prefixes)
        /\ prefix' \in Prefixes \union {NULL}
    BY PushPop DEF LoopInv, LoopTypeOK, PhaseOK, leaveLoop
  <2>3. /\ testedTraceList' \subseteq Traces
        /\ currentTrace' \in Traces \union {NULL}
        /\ isFinished' \in BOOLEAN /\ consumed' \in BOOLEAN
    BY DEF LoopInv, LoopTypeOK, leaveLoop
  <2>4. /\ control' \in {"loop", "run", "end", "check", "done"}
        /\ execStatus' \in Statuses
        /\ executionNum' \in 0 .. 2 /\ nextRunState' \in 0 .. 2 /\ runState' \in 0 .. 2
        /\ branch' \in 1 .. NumBranches + 1
    BY NumBranchesAssumption DEF LoopInv, LoopTypeOK, Statuses, leaveLoop
  <2> QED
    BY <2>1, <2>2, <2>3, <2>4 DEF LoopTypeOK
<1>2. PhaseOK'
  BY DEF LoopInv, LoopTypeOK, PhaseOK, goesOn, leaveLoop, phase
<1>3. PrefixOK'
  BY DEF LoopInv, LoopTypeOK, PhaseOK, PrefixOK, leaveLoop, phase
<1>4. Worklist'
  BY DEF LoopInv, LoopTypeOK, Worklist, phase, goesOn, leaveLoop
<1>5. PromisedOK'
  BY DEF LoopInv, LoopTypeOK, PhaseOK, PromisedOK, beforeAnalysis, leaveLoop, phase
<1>6. NoPrefixLost'
  <2>1. Range(<<>>) = {}
    BY DEF Range
  <2> QED
    BY Zenon, <2>1 DEF LoopInv, LoopTypeOK, NoPrefixLost, Worklist, goesOn, leaveLoop
<1>7. AnalysedOnce'
  BY DEF AnalysedOnce, LoopInv, LoopTypeOK, PhaseOK, leaveLoop, phase
<1>8. BugOK'
  BY DEF BugOK, LoopInv, LoopTypeOK, PhaseOK, leaveLoop, phase
<1> QED
  BY <1>1, <1>2, <1>3, <1>4, <1>5, <1>6, <1>7, <1>8 DEF LoopInv

\* The symbolic and the taint execution do not touch the schedule set.
LEMMA RerunInv == ASSUME LoopInv, rerun PROVE LoopInv'
<1>1. LoopTypeOK'
  <2>1. history' \in Histories
    BY Zenon, NumBranchesAssumption DEF LoopInv, LoopTypeOK, Histories, Prefixes, rerun
  <2>2. /\ listeners' \in Seq(Range(Kinds)) /\ scheduleSet' \in Seq(Prefixes)
        /\ prefix' \in Prefixes \union {NULL}
    BY PushPop DEF LoopInv, LoopTypeOK, PhaseOK, rerun
  <2>3. /\ testedTraceList' \subseteq Traces
        /\ currentTrace' \in Traces \union {NULL}
        /\ isFinished' \in BOOLEAN /\ consumed' \in BOOLEAN
    BY DEF LoopInv, LoopTypeOK, rerun
  <2>4. /\ control' \in {"loop", "run", "end", "check", "done"}
        /\ execStatus' \in Statuses
        /\ executionNum' \in 0 .. 2 /\ nextRunState' \in 0 .. 2 /\ runState' \in 0 .. 2
        /\ branch' \in 1 .. NumBranches + 1
    BY NumBranchesAssumption DEF LoopInv, LoopTypeOK, Statuses, rerun
  <2> QED
    BY <2>1, <2>2, <2>3, <2>4 DEF LoopTypeOK
<1>2. PhaseOK'
  BY DEF LoopInv, LoopTypeOK, PhaseOK, goesOn, phase, rerun
<1>3. PrefixOK'
  BY DEF LoopInv, LoopTypeOK, PhaseOK, PrefixOK, phase, rerun
<1>4. Worklist'
  BY DEF LoopInv, LoopTypeOK, PhaseOK, Worklist, phase, rerun
<1>5. PromisedOK'
  BY DEF LoopInv, LoopTypeOK, PhaseOK, PromisedOK, beforeAnalysis, phase, rerun
<1>6. NoPrefixLost'
  BY DEF LoopInv, LoopTypeOK, NoPrefixLost, PhaseOK, phase, rerun
<1>7. AnalysedOnce'
  BY DEF AnalysedOnce, LoopInv, LoopTypeOK, PhaseOK, phase, rerun
<1>8. BugOK'
  BY DEF BugOK, LoopInv, LoopTypeOK, PhaseOK, phase, rerun
<1> QED
  BY <1>1, <1>2, <1>3, <1>4, <1>5, <1>6, <1>7, <1>8 DEF LoopInv

\* The listener is popped.
LEMMA EndRecordInv == ASSUME LoopInv, endRecord PROVE LoopInv'
<1>1. LoopTypeOK'
  <2>1. history' \in Histories
    BY NumBranchesAssumption DEF LoopInv, LoopTypeOK, Histories, Prefixes, endRecord
  <2>2. /\ listeners' \in Seq(Range(Kinds)) /\ scheduleSet' \in Seq(Prefixes)
        /\ prefix' \in Prefixes \union {NULL}
    BY PushPop DEF LoopInv, LoopTypeOK, PhaseOK, endRecord
  <2>3. /\ testedTraceList' \subseteq Traces
        /\ currentTrace' \in Traces \union {NULL}
        /\ isFinished' \in BOOLEAN /\ consumed' \in BOOLEAN
    BY DEF LoopInv, LoopTypeOK, endRecord
  <2>4. /\ control' \in {"loop", "run", "end", "check", "done"}
        /\ execStatus' \in Statuses
        /\ executionNum' \in 0 .. 2 /\ nextRunState' \in 0 .. 2 /\ runState' \in 0 .. 2
        /\ branch' \in 1 .. NumBranches + 1
    BY NumBranchesAssumption DEF LoopInv, LoopTypeOK, Statuses, endRecord
  <2> QED
    BY <2>1, <2>2, <2>3, <2>4 DEF LoopTypeOK
<1>2. PhaseOK'
  BY PushPop DEF LoopInv, LoopTypeOK, PhaseOK, endRecord, goesOn, phase
<1>3. PrefixOK'
  BY DEF LoopInv, LoopTypeOK, PhaseOK, PrefixOK, endRecord, phase
<1>4. Worklist'
  BY DEF LoopInv, LoopTypeOK, PhaseOK, Worklist, endRecord, phase
<1>5. PromisedOK'
  BY DEF LoopInv, LoopTypeOK, PhaseOK, PromisedOK, beforeAnalysis, endRecord, phase
<1>6. NoPrefixLost'
  BY DEF LoopInv, LoopTypeOK, NoPrefixLost, PhaseOK, endRecord, phase
<1>7. AnalysedOnce'
  BY DEF AnalysedOnce, LoopInv, LoopTypeOK, PhaseOK, endRecord, phase
<1>8. BugOK'
  BY DEF BugOK, LoopInv, LoopTypeOK, PhaseOK, endRecord, phase
<1> QED
  BY <1>1, <1>2, <1>3, <1>4, <1>5, <1>6, <1>7, <1>8 DEF LoopInv

\* The search is not clean any more.
LEMMA VerifyFailsInv == ASSUME LoopInv, verifyFails PROVE LoopInv'
<1> DEFINE bug == <<currentTrace, 0>>
<1>0. currentTrace \in testedTraceList /\ bug \in Prefixes /\ bug # NULL
  BY NumBranchesAssumption, NULLAssumption
  DEF LoopInv, LoopTypeOK, PhaseOK, phase, verifyFails, Prefixes
<1>a. scheduleSet' = <<bug>> /\ history' = [history EXCEPT !.bug = bug, !.clean = FALSE]
  BY DEF verifyFails, onlyPrefix
<1>1. LoopTypeOK'
  <2>1. history' \in Histories
    BY Zenon, <1>0, <1>a DEF LoopInv, LoopTypeOK, Histories
  <2>2. /\ listeners' \in Seq(Range(Kinds)) /\ scheduleSet' \in Seq(Prefixes)
        /\ prefix' \in Prefixes \union {NULL}
    <3>1. listeners' \in Seq(Range(Kinds))
      BY PushPop DEF LoopInv, LoopTypeOK, PhaseOK, verifyFails
    <3>2. scheduleSet' \in Seq(Prefixes)
      BY <1>0, <1>a, ShortLists
    <3> QED
      BY <3>1, <3>2 DEF LoopInv, LoopTypeOK, verifyFails
  <2>3. /\ testedTraceList' \subseteq Traces
        /\ currentTrace' \in Traces \union {NULL}
        /\ isFinished' \in BOOLEAN /\ consumed' \in BOOLEAN
    BY DEF LoopInv, LoopTypeOK, verifyFails
  <2>4. /\ control' \in {"loop", "run", "end", "check", "done"}
        /\ execStatus' \in Statuses
        /\ executionNum' \in 0 .. 2 /\ nextRunState' \in 0 .. 2 /\ runState' \in 0 .. 2
        /\ branch' \in 1 .. NumBranches + 1
    BY NumBranchesAssumption DEF LoopInv, LoopTypeOK, Statuses, verifyFails
  <2> QED
    BY <2>1, <2>2, <2>3, <2>4 DEF LoopTypeOK
<1>2. PhaseOK'
  BY PushPop, ShortLists DEF LoopInv, LoopTypeOK, PhaseOK, goesOn, onlyPrefix, phase, verifyFails
<1>3. PrefixOK'
  BY ShortLists DEF LoopInv, LoopTypeOK, PhaseOK, PrefixOK, onlyPrefix, phase, verifyFails
<1>4. Worklist'
  BY ShortLists DEF LoopInv, LoopTypeOK, PhaseOK, Worklist, onlyPrefix, phase, verifyFails
<1>5. PromisedOK'
  BY ShortLists DEF LoopInv, LoopTypeOK, PhaseOK, PromisedOK, beforeAnalysis, onlyPrefix, phase, verifyFails
<1>6. NoPrefixLost'
  BY ShortLists DEF LoopInv, LoopTypeOK, NoPrefixLost, PhaseOK, onlyPrefix, phase, verifyFails
<1>7. AnalysedOnce'
  <2>1. Range(scheduleSet') = {bug} /\ bug[1] = currentTrace
    BY <1>0, <1>a, ShortLists
  <2> QED
    BY <1>0, <2>1 DEF LoopInv, AnalysedOnce, verifyFails
<1>8. BugOK'
  BY ShortLists DEF BugOK, LoopInv, LoopTypeOK, PhaseOK, onlyPrefix, phase, verifyFails
<1> QED
  BY <1>1, <1>2, <1>3, <1>4, <1>5, <1>6, <1>7, <1>8 DEF LoopInv

\* No prefix of the trace was promised before.
LEMMA VerifyHoldsInv == ASSUME LoopInv, verifyHolds PROVE LoopInv'
<1>1. LoopTypeOK'
  <2>1. history' \in Histories
    BY NumBranchesAssumption DEF LoopInv, LoopTypeOK, Histories, Prefixes, verifyHolds
  <2>2. /\ listeners' \in Seq(Range(Kinds)) /\ scheduleSet' \in Seq(Prefixes)
        /\ prefix' \in Prefixes \union {NULL}
    BY PushPop DEF LoopInv, LoopTypeOK, PhaseOK, verifyHolds
  <2>3. /\ testedTraceList' \subseteq Traces
        /\ currentTrace' \in Traces \union {NULL}
        /\ isFinished' \in BOOLEAN /\ consumed' \in BOOLEAN
    BY DEF LoopInv, LoopTypeOK, verifyHolds
  <2>4. /\ control' \in {"loop", "run", "end", "check", "done"}
        /\ execStatus' \in Statuses
        /\ executionNum' \in 0 .. 2 /\ nextRunState' \in 0 .. 2 /\ runState' \in 0 .. 2
        /\ branch' \in 1 .. NumBranches + 1
    BY NumBranchesAssumption DEF LoopInv, LoopTypeOK, Statuses, verifyHolds
  <2> QED
    BY <2>1, <2>2, <2>3, <2>4 DEF LoopTypeOK
<1>2. PhaseOK'
  BY PushPop DEF LoopInv, LoopTypeOK, PhaseOK, goesOn, phase, verifyHolds
<1>3. PrefixOK'
  BY DEF LoopInv, LoopTypeOK, PhaseOK, PrefixOK, phase, verifyHolds
<1>4. Worklist'
  BY DEF LoopInv, LoopTypeOK, PhaseOK, Worklist, phase, verifyHolds
<1>5. PromisedOK'
  BY DEF LoopInv, LoopTypeOK, PhaseOK, PromisedOK, beforeAnalysis, phase, verifyHolds
<1>6. NoPrefixLost'
  BY DEF LoopInv, LoopTypeOK, NoPrefixLost, PhaseOK, phase, verifyHolds
<1>7. AnalysedOnce'
  BY DEF AnalysedOnce, LoopInv, LoopTypeOK, PhaseOK, phase, verifyHolds
<1>8. BugOK'
  BY DEF BugOK, LoopInv, LoopTypeOK, PhaseOK, phase, verifyHolds
<1> QED
  BY <1>1, <1>2, <1>3, <1>4, <1>5, <1>6, <1>7, <1>8 DEF LoopInv

\* A promised prefix is a new one: its trace was not analysed before, its branch is higher.
LEMMA CheckBranchInv == ASSUME LoopInv, checkBranch PROVE LoopInv'
<1> DEFINE new == <<currentTrace, branch>>
<1>0. /\ currentTrace \in testedTraceList /\ new \in Prefixes /\ new # NULL
      /\ new[1] = currentTrace /\ new[2] = branch
      /\ branch \in 1 .. NumBranches /\ branch' = branch + 1
  BY NumBranchesAssumption, NULLAssumption
  DEF LoopInv, LoopTypeOK, PhaseOK, phase, checkBranch, lastBranch, Prefixes
<1>a. /\ control = "check" /\ runState = 1
      /\ UNCHANGED <<control, execStatus, isFinished, executionNum, prefix,
                    consumed, nextRunState, runState, listeners,
                    testedTraceList, currentTrace>>
  BY DEF LoopInv, PhaseOK, checkBranch
<1>b. /\ \/ scheduleSet' = Append(scheduleSet, new)
            /\ history' = [history EXCEPT !.promised = @ \union {new}]
         \/ UNCHANGED <<scheduleSet, history>>
  BY DEF checkBranch
<1>c. new \notin history.promised
  BY <1>0, <1>a DEF LoopInv, PromisedOK
<1>d. /\ history' \in Histories
      /\ history'.executed = history.executed /\ history'.clean = history.clean
      /\ history'.bug = history.bug /\ history'.recordedWith = history.recordedWith
  <2>1. CASE history' = [history EXCEPT !.promised = @ \union {new}]
    BY Zenon, <1>0, <2>1 DEF LoopInv, LoopTypeOK, Histories
  <2>2. CASE history' = history
    BY <2>2 DEF LoopInv, LoopTypeOK
  <2> QED
    BY <1>b, <2>1, <2>2
<1>e. /\ scheduleSet' \in Seq(Prefixes)
      /\ \/ /\ history'.promised = history.promised \union {new}
            /\ Range(scheduleSet') = Range(scheduleSet) \union {new}
            /\ IsInjective(scheduleSet) /\ new \notin Range(scheduleSet) =>
                 IsInjective(scheduleSet')
         \/ scheduleSet' = scheduleSet /\ history' = history
  <2>1. scheduleSet \in Seq(Prefixes) /\ history \in Histories
    BY DEF LoopInv, LoopTypeOK
  <2>2. /\ Append(scheduleSet, new) \in Seq(Prefixes)
        /\ Range(Append(scheduleSet, new)) = Range(scheduleSet) \union {new}
        /\ IsInjective(scheduleSet) /\ new \notin Range(scheduleSet) =>
             IsInjective(Append(scheduleSet, new))
    BY <1>0, <2>1, AddScheduleSet
  <2>3. history' = [history EXCEPT !.promised = @ \union {new}] =>
          history'.promised = history.promised \union {new}
    BY <2>1 DEF Histories
  <2> QED
    BY Zenon, <1>b, <2>1, <2>2, <2>3
<1> HIDE DEF new
<1>1. LoopTypeOK'
  BY <1>0, <1>a, <1>d, <1>e, NumBranchesAssumption DEF LoopInv, LoopTypeOK
<1>2. PhaseOK'
  BY <1>a, <1>d DEF LoopInv, PhaseOK, phase, goesOn
<1>3. PrefixOK'
  BY <1>a DEF LoopInv, PrefixOK, phase
<1>4. Worklist'
  BY <1>a, <1>d DEF LoopInv, PhaseOK, Worklist, phase
<1>5. PromisedOK'
  <2>1. \A p \in history.promised : p[2] \in Nat
    BY NumBranchesAssumption DEF LoopInv, LoopTypeOK, Histories, Prefixes
  <2> QED
    BY <1>0, <1>a, <1>e, <2>1 DEF LoopInv, PromisedOK, beforeAnalysis
<1>6. NoPrefixLost'
  BY <1>0, <1>a, <1>c, <1>d, <1>e DEF LoopInv, NoPrefixLost
<1>7. AnalysedOnce'
  BY <1>0, <1>a, <1>e DEF LoopInv, AnalysedOnce
<1>8. BugOK'
  BY <1>a, <1>d DEF LoopInv, BugOK, phase
<1> QED
  BY <1>1, <1>2, <1>3, <1>4, <1>5, <1>6, <1>7, <1>8 DEF LoopInv

\* The taint execution is next.
LEMMA EndSymbolicInv == ASSUME LoopInv, endSymbolic PROVE LoopInv'
<1>1. LoopTypeOK'
  <2>1. history' \in Histories
    BY NumBranchesAssumption DEF LoopInv, LoopTypeOK, Histories, Prefixes, endSymbolic, lastBranch
  <2>2. /\ listeners' \in Seq(Range(Kinds)) /\ scheduleSet' \in Seq(Prefixes)
        /\ prefix' \in Prefixes \union {NULL}
    BY PushPop DEF LoopInv, LoopTypeOK, PhaseOK, endSymbolic, lastBranch
  <2>3. /\ testedTraceList' \subseteq Traces
        /\ currentTrace' \in Traces \union {NULL}
        /\ isFinished' \in BOOLEAN /\ consumed' \in BOOLEAN
    BY DEF LoopInv, LoopTypeOK, endSymbolic, lastBranch
  <2>4. /\ control' \in {"loop", "run", "end", "check", "done"}
        /\ execStatus' \in Statuses
        /\ executionNum' \in 0 .. 2 /\ nextRunState' \in 0 .. 2 /\ runState' \in 0 .. 2
        /\ branch' \in 1 .. NumBranches + 1
    BY NumBranchesAssumption DEF LoopInv, LoopTypeOK, Statuses, endSymbolic, lastBranch
  <2> QED
    BY <2>1, <2>2, <2>3, <2>4 DEF LoopTypeOK
<1>2. PhaseOK'
  BY DEF LoopInv, LoopTypeOK, PhaseOK, endSymbolic, goesOn, lastBranch, phase
<1>3. PrefixOK'
  BY DEF LoopInv, LoopTypeOK, PhaseOK, PrefixOK, endSymbolic, lastBranch, phase
<1>4. Worklist'
  BY DEF LoopInv, LoopTypeOK, PhaseOK, Worklist, endSymbolic, lastBranch, phase
<1>5. PromisedOK'
  BY DEF LoopInv, LoopTypeOK, PhaseOK, PromisedOK, beforeAnalysis, endSymbolic, lastBranch, phase
<1>6. NoPrefixLost'
  BY DEF LoopInv, LoopTypeOK, NoPrefixLost, PhaseOK, endSymbolic, lastBranch, phase
<1>7. AnalysedOnce'
  BY DEF AnalysedOnce, LoopInv, LoopTypeOK, PhaseOK, endSymbolic, lastBranch, phase
<1>8. BugOK'
  BY DEF BugOK, LoopInv, LoopTypeOK, PhaseOK, endSymbolic, lastBranch, phase
<1> QED
  BY <1>1, <1>2, <1>3, <1>4, <1>5, <1>6, <1>7, <1>8 DEF LoopInv

\* The next prefix, or the end.
LEMMA EndTaintInv == ASSUME LoopInv, endTaint PROVE LoopInv'
<1>0. /\ control = "end" /\ runState = 2 /\ nextRunState = 0 /\ ~ isFinished
      /\ control' = "loop" /\ listeners = <<Kinds[runState + 1]>> /\ listeners' = <<>>
      /\ UNCHANGED <<execStatus, executionNum, nextRunState, runState,
                    testedTraceList, currentTrace, branch, history>>
  <2>1. listeners = <<Kinds[runState + 1]>> /\ listeners' = <<>>
    BY PushPop DEF LoopInv, LoopTypeOK, PhaseOK, endTaint
  <2> QED
    BY <2>1 DEF LoopInv, PhaseOK, phase, endTaint
<1>b. scheduleSet \in Seq(Prefixes)
  BY DEF LoopInv, LoopTypeOK
<1>c. taken(consumed)
  BY <1>b, GetNewPrefix DEF endTaint
<1>1. LoopTypeOK'
  <2>1. <<>> \in Seq(Range(Kinds))
    OBVIOUS
  <2>2. /\ listeners' \in Seq(Range(Kinds)) /\ scheduleSet' \in Seq(Prefixes)
        /\ prefix' \in Prefixes \union {NULL}
        /\ isFinished' \in BOOLEAN /\ consumed' \in BOOLEAN
    BY Zenon, <1>0, <1>b, <1>c, <2>1 DEF LoopInv, LoopTypeOK, taken
  <2> QED
    BY <1>0, <2>2 DEF LoopInv, LoopTypeOK
<1>2. PhaseOK'
  BY <1>0, <1>c DEF LoopInv, PhaseOK, phase, goesOn, taken
<1>3. PrefixOK'
  BY <1>0, <1>c DEF LoopInv, PrefixOK, phase, taken
<1>4. Worklist'
  BY <1>0, <1>c DEF LoopInv, Worklist, phase, taken
<1>5. PromisedOK'
  BY <1>0 DEF LoopInv, PromisedOK, beforeAnalysis
<1>6. NoPrefixLost'
  <2>1. history.clean => prefix \in history.executed \union {NULL}
    BY <1>0 DEF LoopInv, Worklist, phase
  <2> QED
    BY <1>0, <1>c, <2>1 DEF LoopInv, NoPrefixLost, taken
<1>7. AnalysedOnce'
  BY <1>0, <1>c DEF LoopInv, AnalysedOnce, taken
<1>8. BugOK'
  <2>1. ASSUME history.bug # NULL
        PROVE  /\ scheduleSet = <<history.bug>>
               /\ prefix' = history.bug /\ scheduleSet' = <<>>
    <3>1. scheduleSet = <<history.bug>> /\ history.bug \in Prefixes
      BY <1>0, <2>1 DEF LoopInv, LoopTypeOK, Histories, BugOK, phase
    <3> QED
      BY <3>1, ShortLists DEF endTaint, getNewPrefix
  <2> QED
    BY <1>0, <2>1 DEF BugOK, phase
<1> QED
  BY <1>1, <1>2, <1>3, <1>4, <1>5, <1>6, <1>7, <1>8 DEF LoopInv

-----------------------------------------------------------------------------
\* An error while recording: the search is neither clean nor continued.
LEMMA FailedRecordInv ==
  ASSUME LoopInv, record, NEW status \in Statuses, failedRecord(status),
         currentTrace' \in Traces
  PROVE  LoopInv'
<1>0. /\ control = "run" /\ runState = 0 /\ control' = "end" /\ nextRunState = 0
      /\ UNCHANGED <<executionNum, runState, listeners, branch>>
      /\ history \in Histories
  BY DEF LoopInv, LoopTypeOK, PhaseOK, record
<1>1. /\ execStatus' = status /\ isFinished' = TRUE /\ consumed' = (prefix # NULL)
      /\ history' = [history EXCEPT !.recordedWith = prefix, !.bug = NULL, !.clean = FALSE]
      /\ UNCHANGED <<prefix, scheduleSet, testedTraceList, nextRunState>>
  BY DEF failedRecord
<1>2. /\ history' \in Histories
      /\ history'.promised = history.promised /\ history'.clean = FALSE
      /\ history'.bug = NULL
  BY Zenon, <1>0, <1>1 DEF LoopInv, LoopTypeOK, Histories
<1>3. LoopTypeOK'
  BY <1>0, <1>1, <1>2 DEF LoopInv, LoopTypeOK
<1>4. PhaseOK'
  BY <1>0, <1>1 DEF LoopInv, PhaseOK, phase
<1>5. PrefixOK' /\ Worklist' /\ NoPrefixLost' /\ BugOK'
  BY <1>0, <1>1, <1>2 DEF LoopInv, PrefixOK, Worklist, NoPrefixLost, BugOK, phase
<1>6. PromisedOK' /\ AnalysedOnce'
  BY <1>0, <1>1, <1>2 DEF LoopInv, PromisedOK, AnalysedOnce, beforeAnalysis
<1> QED
  BY <1>3, <1>4, <1>5, <1>6 DEF LoopInv

\* What a recorded execution adds to the history.
LEMMA AfterRecord ==
  ASSUME LoopInv, history' = afterRecord
  PROVE  /\ history' \in Histories
         /\ history'.promised = history.promised /\ history'.clean = history.clean
         /\ history'.bug = NULL /\ history'.recordedWith = prefix
         /\ history'.executed = history.executed \union ({prefix} \ {NULL})
<1>1. history \in Histories /\ prefix \in Prefixes \union {NULL}
  BY DEF LoopInv, LoopTypeOK
<1> QED
  BY Zenon, <1>1 DEF afterRecord, Histories

\* A redundant trace: its prefix is executed, the next one is taken.
LEMMA RedundantRecordInv ==
  ASSUME LoopInv, record, NEW trace, redundantRecord(trace),
         currentTrace' \in Traces
  PROVE  LoopInv'
<1>0. /\ control = "run" /\ runState = 0 /\ control' = "end" /\ nextRunState = 0
      /\ UNCHANGED <<executionNum, runState, listeners, branch>>
      /\ scheduleSet \in Seq(Prefixes)
  BY DEF LoopInv, LoopTypeOK, PhaseOK, record
<1>1. /\ execStatus' = "SUCCESS" /\ taken(prefix # NULL) /\ history' = afterRecord
      /\ UNCHANGED <<testedTraceList, nextRunState>>
  BY <1>0, GetNewPrefix DEF redundantRecord
<1>2. /\ history' \in Histories
      /\ history'.promised = history.promised /\ history'.clean = history.clean
      /\ history'.bug = NULL
      /\ history'.executed = history.executed \union ({prefix} \ {NULL})
  BY <1>1, AfterRecord
<1>3. LoopTypeOK'
  <2>1. /\ scheduleSet' \in Seq(Prefixes) /\ prefix' \in Prefixes \union {NULL}
        /\ isFinished' \in BOOLEAN /\ consumed' \in BOOLEAN
    BY Zenon, <1>0, <1>1 DEF LoopInv, LoopTypeOK, taken
  <2> QED
    BY <1>0, <1>1, <1>2, <2>1 DEF LoopInv, LoopTypeOK, Statuses
<1>4. PhaseOK'
  BY <1>0, <1>1 DEF LoopInv, PhaseOK, phase, taken
<1>5. PrefixOK' /\ BugOK'
  BY <1>0, <1>1, <1>2 DEF LoopInv, PrefixOK, BugOK, phase, taken
<1>6. Worklist'
  BY <1>0, <1>1, <1>2 DEF LoopInv, LoopTypeOK, Worklist, phase, taken
<1>7. NoPrefixLost'
  BY <1>0, <1>1, <1>2 DEF LoopInv, LoopTypeOK, NoPrefixLost, taken
<1>8. PromisedOK' /\ AnalysedOnce'
  BY <1>0, <1>1, <1>2 DEF LoopInv, PromisedOK, AnalysedOnce, beforeAnalysis, taken
<1> QED
  BY <1>3, <1>4, <1>5, <1>6, <1>7, <1>8 DEF LoopInv

\* A new trace: nothing was promised for it, since it was not tested.
LEMMA NewRecordInv ==
  ASSUME LoopInv, record, NEW trace \in Traces, newRecord(trace),
         currentTrace' = trace
  PROVE  LoopInv'
<1>0. /\ control = "run" /\ runState = 0 /\ control' = "end" /\ nextRunState = 0
      /\ UNCHANGED <<executionNum, runState, listeners, branch>>
      /\ ~ isFinished
  BY DEF LoopInv, LoopTypeOK, PhaseOK, record
<1>1. /\ execStatus' = "SUCCESS" /\ isUntested(trace) /\ history' = afterRecord
      /\ consumed' = (prefix # NULL) /\ nextRunState' = 1
      /\ testedTraceList' = testedTraceList \union {trace}
      /\ UNCHANGED <<isFinished, prefix, scheduleSet>>
  BY DEF newRecord
<1>2. /\ history' \in Histories
      /\ history'.promised = history.promised /\ history'.clean = history.clean
      /\ history'.bug = NULL /\ history'.recordedWith = prefix
      /\ history'.executed = history.executed \union ({prefix} \ {NULL})
  BY <1>1, AfterRecord
<1>3. \A t \in testedTraceList : ~ isEqual(trace, t) /\ ~ isEqual(t, trace) /\ t # trace
  BY <1>1 DEF isUntested, isEqual
<1>4. LoopTypeOK'
  BY <1>0, <1>1, <1>2 DEF LoopInv, LoopTypeOK, Statuses
<1>5. PhaseOK'
  BY <1>0, <1>1, <1>2 DEF LoopInv, PhaseOK, phase
<1>6. PrefixOK' /\ BugOK'
  BY <1>0, <1>1, <1>2 DEF LoopInv, PrefixOK, BugOK, phase
<1>7. Worklist'
  BY <1>0, <1>1, <1>2 DEF LoopInv, LoopTypeOK, Worklist, phase
<1>8. NoPrefixLost'
  BY SMTT(30), <1>0, <1>1, <1>2 DEF LoopInv, LoopTypeOK, NoPrefixLost
<1>9. PromisedOK'
  BY SMTT(30), <1>0, <1>1, <1>2, <1>3 DEF LoopInv, PromisedOK, beforeAnalysis
<1>10. AnalysedOnce'
  BY <1>1, <1>3 DEF LoopInv, AnalysedOnce
<1> QED
  BY <1>4, <1>5, <1>6, <1>7, <1>8, <1>9, <1>10 DEF LoopInv

\* The three outcomes of recording an execution.
LEMMA RecordInv == ASSUME LoopInv, record PROVE LoopInv'
<1>1. PICK trace \in Traces :
        /\ currentTrace' = trace
        /\ \/ \E status \in Statuses \ {"SUCCESS"} : failedRecord(status)
           \/ redundantRecord(trace)
           \/ newRecord(trace)
  BY DEF record
<1> QED
  BY <1>1, FailedRecordInv, RedundantRecordInv, NewRecordInv

-----------------------------------------------------------------------------
\* Every step preserves the invariant.
LEMMA NextInv == ASSUME LoopInv, [LoopNext]_loopVars PROVE LoopInv'
<1>1. CASE LoopNext
  <2>1. CASE terminated
    BY SMTT(30), <2>1 DEF terminated, loopVars, LoopInv, LoopTypeOK, PhaseOK, PrefixOK, Worklist,
                PromisedOK, NoPrefixLost, AnalysedOnce, BugOK, phase, goesOn,
                beforeAnalysis
  <2> QED
    BY <1>1, <2>1, StartControlInv, LeaveLoopInv, RecordInv, RerunInv, EndRecordInv,
       VerifyFailsInv, VerifyHoldsInv, CheckBranchInv, EndSymbolicInv, EndTaintInv
    DEF LoopNext
<1>2. CASE UNCHANGED loopVars
  BY SMTT(30), <1>2 DEF loopVars, LoopInv, LoopTypeOK, PhaseOK, PrefixOK, Worklist, PromisedOK,
              NoPrefixLost, AnalysedOnce, BugOK, phase, goesOn, beforeAnalysis
<1> QED
  BY <1>1, <1>2

\* The invariant holds in every reachable state.
THEOREM LoopInvariantHolds == LoopSpec => []LoopInv
<1>1. LoopInit => LoopInv
  BY InitInv
<1>2. LoopInv /\ [LoopNext]_loopVars => LoopInv'
  BY NextInv
<1> QED
  BY <1>1, <1>2, PTL DEF LoopSpec

\* The state of the verification loop is well-typed.
THEOREM LoopTypeCorrect == LoopSpec => []LoopTypeOK
BY LoopInvariantHolds, PTL DEF LoopInv

\* The three executions of a trace have one prefix and their own listener, for
\* startControl and endControl of ListenerService.cpp.
THEOREM SameExecutionHolds == LoopSpec => []SameExecution
<1>1. LoopInv => SameExecution
  BY DEF LoopInv, LoopTypeOK, PhaseOK, PrefixOK, SameExecution, phase
<1> QED
  BY <1>1, LoopInvariantHolds, PTL

\* No prefix that check_if produced is lost or executed twice while no
\* execution fails, and the search ends with all of them executed.
THEOREM NoPrefixLostHolds == LoopSpec => []NoPrefixLost
BY LoopInvariantHolds, PTL DEF LoopInv

\* isCurrentTraceUntested lets no two traces with one abstract be analysed.
THEOREM AnalysedOnceHolds == LoopSpec => []AnalysedOnce
BY LoopInvariantHolds, PTL DEF LoopInv

\* The prefix that violates an assert is the next one to be recorded.
THEOREM BugReplayedNextHolds == LoopSpec => []BugReplayedNext
<1>1. LoopInv => BugReplayedNext
  BY DEF LoopInv, LoopTypeOK, PhaseOK, BugOK, BugReplayedNext, phase
<1> QED
  BY <1>1, LoopInvariantHolds, PTL

=============================================================================
