----------------------------- MODULE EncodeSolver -----------------------------
(***************************************************************************)
(* What Encode.cpp asks the solver about one trace: verify (can an assert  *)
(* fail?), check_if (can a branch go the other way?) and PTS (can a point  *)
(* be tainted?).  All three push a scope, assert a goal, check, and pop.   *)
(*                                                                         *)
(* A world is a solution of the formulas of the trace: an order of its     *)
(* events and, for each formula, whether it holds.  The solver answers     *)
(* correctly, gives up (unknown), or throws an exception.                  *)
(***************************************************************************)
EXTENDS Naturals, Sequences

CONSTANTS
  Asserts, Ifs,         \* assertFormula and ifFormula, as sequences of events
  Points,               \* DTAMParallel without DTAMSerial, as a sequence
  Rws,                  \* events of rwFormula
  Worlds,               \* [order : [Events -> Nat], holds : [Events -> BOOLEAN]]
  NULL

VARIABLES
  feasible,             \* solutions of buildAllFormula
  feasibleTaint,        \* solutions of buildPTSFormula
  unrelated,            \* rwFormula of variables not in RelatedSymbolicExpr
  useful,               \* branches that filterUselessWithSet keeps
  control,              \* "verify", "check_if", "PTS", "done" or "aborted"
  index,                \* of the loop of verify or check_if
  scopes,               \* z3_solver: the goal asserted in each open scope
  taintScopes,          \* z3_taint_solver
  scheduleSet,          \* goals with the world of their prefix
  PTS,                  \* the work list of PTS
  taintPTS, noTaintPTS,
  answer,               \* the answer for each goal, NULL before it is asked for
  thrown                \* an exception has been caught

trace == <<feasible, feasibleTaint, unrelated, useful>>

encodeVars == <<trace, control, index, scopes, taintScopes, scheduleSet, PTS,
                taintPTS, noTaintPTS, answer, thrown>>

elements(list) == {list[i] : i \in DOMAIN list}

Goals == elements(Asserts) \union elements(Ifs) \union elements(Points)

\* The formulas that have to hold if they come before the goal.
guards(goal) ==
  IF goal \in elements(Asserts) THEN (elements(Asserts) \union elements(Ifs)) \ {goal}
  ELSE IF goal \in elements(Ifs) THEN (elements(Ifs) \ {goal}) \union unrelated
  ELSE elements(Ifs)

\* The negated formula of an assert or a branch, or the tag of a point.
satisfies(world, goal) ==
  /\ ~ world.holds[goal]
  /\ \A g \in guards(goal) : world.order[g] < world.order[goal] => world.holds[g]

\* Solutions of what is asserted in a solver.
models(solutions, stack) ==
  {w \in solutions : \A i \in DOMAIN stack : stack[i] = NULL \/ satisfies(w, stack[i])}

\* solver::check: never sat or unsat wrongly.
check(solutions, stack, result) ==
  \/ result = "sat" /\ models(solutions, stack) # {}
  \/ result = "unsat" /\ models(solutions, stack) = {}
  \/ result \in {"unknown", "exception"}

\* solver::pop
pop(stack) == SubSeq(stack, 1, Len(stack) - 1)

-----------------------------------------------------------------------------
\* verify has pushed its first backtracking point.
EncodeInit ==
  /\ feasible \in SUBSET Worlds
  /\ feasibleTaint \in SUBSET Worlds
  /\ unrelated \in SUBSET Rws
  /\ useful \in SUBSET elements(Ifs)
  /\ control = "verify"
  /\ index = 1
  /\ scopes = <<NULL>>
  /\ taintScopes = <<>>
  /\ scheduleSet = <<>>
  /\ PTS = Points
  /\ taintPTS = <<>>
  /\ noTaintPTS = <<>>
  /\ answer = [g \in Goals |-> NULL]
  /\ thrown = FALSE

\* One assert.  A world that violates it is replayed before anything else, and
\* check_if is not called; nobody catches an exception here.
verifyAssert ==
  /\ control = "verify"
  /\ index <= Len(Asserts)
  /\ LET goal == Asserts[index]
         pushed == Append(scopes, goal) IN
     \E result \in {"sat", "unsat", "unknown", "exception"} :
       /\ check(feasible, pushed, result)
       /\ answer' = [answer EXCEPT ![goal] = result]
       /\ \/ /\ result = "sat"
             /\ \E w \in models(feasible, pushed) : scheduleSet' = <<<<goal, w>>>>
             /\ scopes' = pushed
             /\ control' = "PTS"
             /\ UNCHANGED index
          \/ /\ result \in {"unsat", "unknown"}
             /\ index' = index + 1
             /\ scopes' = pop(pushed)
             /\ UNCHANGED <<control, scheduleSet>>
          \/ /\ result = "exception"
             /\ control' = "aborted"
             /\ scopes' = pushed
             /\ UNCHANGED <<index, scheduleSet>>
  /\ UNCHANGED <<trace, taintScopes, PTS, taintPTS, noTaintPTS, thrown>>

verifyOver ==
  /\ control = "verify"
  /\ index > Len(Asserts)
  /\ control' = "check_if"
  /\ index' = 1
  /\ scopes' = pop(scopes)
  /\ UNCHANGED <<trace, taintScopes, scheduleSet, PTS, taintPTS, noTaintPTS, answer,
                 thrown>>

\* Mutant: the scope of a branch that can be negated stays open.
checkWithoutPop ==
  /\ control = "check_if"
  /\ index <= Len(Ifs)
  /\ index' = index + 1
  /\ LET goal == Ifs[index]
         pushed == Append(scopes, goal) IN
     \E result \in {"sat", "unsat", "unknown", "exception", "filtered"} :
       /\ IF goal \in useful THEN check(feasible, pushed, result) ELSE result = "filtered"
       /\ answer' = [answer EXCEPT ![goal] = result]
       /\ scopes' = IF result \in {"sat", "exception"} THEN pushed ELSE scopes
       /\ thrown' = (thrown \/ result = "exception")
       /\ IF result = "sat"
          THEN \E w \in models(feasible, pushed) :
                 scheduleSet' = Append(scheduleSet, <<goal, w>>)
          ELSE UNCHANGED scheduleSet
  /\ UNCHANGED <<trace, control, taintScopes, PTS, taintPTS, noTaintPTS>>

\* One branch.  The handler of the exception continues with the next branch:
\* the scope it was thrown in stays open.
checkBranch ==
  /\ control = "check_if"
  /\ index <= Len(Ifs)
  /\ index' = index + 1
  /\ LET goal == Ifs[index]
         pushed == Append(scopes, goal) IN
     \E result \in {"sat", "unsat", "unknown", "exception", "filtered"} :
       /\ IF goal \in useful THEN check(feasible, pushed, result) ELSE result = "filtered"
       /\ answer' = [answer EXCEPT ![goal] = result]
       /\ scopes' = IF result = "exception" THEN pushed ELSE scopes
       /\ thrown' = (thrown \/ result = "exception")
       /\ IF result = "sat"
          THEN \E w \in models(feasible, pushed) :
                 scheduleSet' = Append(scheduleSet, <<goal, w>>)
          ELSE UNCHANGED scheduleSet
  /\ UNCHANGED <<trace, control, taintScopes, PTS, taintPTS, noTaintPTS>>

checkOver ==
  /\ control = "check_if"
  /\ index > Len(Ifs)
  /\ control' = "PTS"
  /\ UNCHANGED <<trace, index, scopes, taintScopes, scheduleSet, PTS, taintPTS,
                 noTaintPTS, answer, thrown>>

-----------------------------------------------------------------------------
\* Mutant: a point without an answer is kept for later, too.
decideOnlySure ==
  /\ control = "PTS"
  /\ PTS # <<>>
  /\ LET pushed == Append(taintScopes, Head(PTS)) IN
     \E result \in {"sat", "unsat", "unknown"} :
       /\ check(feasibleTaint, pushed, result)
       /\ answer' = [answer EXCEPT ![Head(PTS)] = result]
       /\ IF result = "sat" THEN taintPTS' = Append(taintPTS, Head(PTS))
                            ELSE UNCHANGED taintPTS
       /\ IF result = "unsat" THEN noTaintPTS' = Append(noTaintPTS, Head(PTS))
                              ELSE UNCHANGED noTaintPTS
       /\ PTS' = Tail(PTS)
  /\ UNCHANGED <<trace, control, index, scopes, taintScopes, scheduleSet, thrown>>

\* One point gets an answer and leaves the list; unknown counts as not tainted.
decidePoint ==
  /\ control = "PTS"
  /\ PTS # <<>>
  /\ LET pushed == Append(taintScopes, Head(PTS)) IN
     \E result \in {"sat", "unsat", "unknown"} :
       /\ check(feasibleTaint, pushed, result)
       /\ answer' = [answer EXCEPT ![Head(PTS)] = result]
       /\ IF result = "sat"
          THEN taintPTS' = Append(taintPTS, Head(PTS)) /\ UNCHANGED noTaintPTS
          ELSE noTaintPTS' = Append(noTaintPTS, Head(PTS)) /\ UNCHANGED taintPTS
       /\ PTS' = Tail(PTS)
  /\ UNCHANGED <<trace, control, index, scopes, taintScopes, scheduleSet, thrown>>

\* An exception: the same point is tried again, in one more scope.  MaxScopes
\* bounds the model; the code has no bound.
MaxScopes == 2

retryPoint ==
  /\ control = "PTS"
  /\ PTS # <<>>
  /\ taintScopes' = IF Len(taintScopes) < MaxScopes THEN Append(taintScopes, Head(PTS))
                                                    ELSE taintScopes
  /\ thrown' = TRUE
  /\ UNCHANGED <<trace, control, index, scopes, scheduleSet, PTS, taintPTS, noTaintPTS,
                 answer>>

PTSOver ==
  /\ control = "PTS"
  /\ PTS = <<>>
  /\ control' = "done"
  /\ UNCHANGED <<trace, index, scopes, taintScopes, scheduleSet, PTS, taintPTS,
                 noTaintPTS, answer, thrown>>

encodeOver == control \in {"done", "aborted"} /\ UNCHANGED encodeVars

EncodeNext ==
  \/ verifyAssert \/ verifyOver
  \/ checkBranch \/ checkOver
  \/ decidePoint \/ retryPoint \/ PTSOver
  \/ encodeOver

EncodeSpec == EncodeInit /\ [][EncodeNext]_encodeVars

\* The code is sequential, and a point that is tried for ever gets an answer at
\* last: an exception of the solver is not permanent.
FairEncodeSpec ==
  EncodeSpec /\ WF_encodeVars(EncodeNext) /\ SF_encodeVars(decidePoint)

-----------------------------------------------------------------------------
(***************************************************************************)
(* Every prefix does what it was computed for: it is an order of the trace *)
(* in which the assert fails or the branch goes the other way, with all    *)
(* that comes before it as recorded.  Scopes left open by exceptions only  *)
(* add conditions.                                                         *)
(***************************************************************************)
PrefixesReal ==
  \A p \in elements(scheduleSet) : p[2] \in feasible /\ satisfies(p[2], p[1])

possible(goal) ==
  \E w \in (IF goal \in elements(Points) THEN feasibleTaint ELSE feasible) :
    satisfies(w, goal)

(***************************************************************************)
(* As long as no exception was caught, an answer is about its own goal     *)
(* alone: "unsat" is given only if no order of the trace reaches the goal, *)
(* whatever was checked before (the scopes are closed again).              *)
(***************************************************************************)
UnsatMeansImpossible ==
  ~ thrown => \A g \in Goals : answer[g] = "unsat" => ~ possible(g)

(***************************************************************************)
(* PTS decides every point, once, in spite of exceptions; what it calls    *)
(* tainted can be tainted in a feasible order.                             *)
(***************************************************************************)
PointsDecided ==
  /\ taintPTS \o noTaintPTS \o PTS \in
       {s \in [1 .. Len(Points) -> elements(Points)] :
          elements(s) = elements(Points)}
  /\ \A p \in elements(taintPTS) : possible(p)
  /\ control = "done" => \A p \in elements(Points) : answer[p] # NULL

\* PTS ends, if the solver's exceptions do.
PTSEnds == <>(control \in {"done", "aborted"})

(***************************************************************************)
(* "create a backstracking point" and "backstracking" (Encode.cpp:265 and  *)
(* 422) enclose the check of a branch, so the answer for one branch is     *)
(* independent of what happened to the others.                             *)
(***************************************************************************)
BranchesIndependent ==
  \A g \in elements(Ifs) : answer[g] = "unsat" => ~ possible(g)

=============================================================================
