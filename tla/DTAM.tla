--------------------------------- MODULE DTAM ---------------------------------
(***************************************************************************)
(* The taint analysis of a recorded trace: DTAM.cpp and DTAMPoint.cpp.     *)
(*                                                                         *)
(* The reads and writes of shared variables are the points of a graph.     *)
(* Taint goes from a read to the writes whose value was computed from it,  *)
(* and from a write to the reads of its variable: to all of them in the    *)
(* parallel analysis, in the hybrid one only to those that the vector      *)
(* clocks do not put before the write.  Each analysis marks what can be    *)
(* reached from the points that were tainted in the execution itself.      *)
(***************************************************************************)
EXTENDS Naturals

CONSTANTS
  Reads, Writes,        \* the events of allReadSet and of allWriteSet
  Vars,                 \* shared variables
  Clocks,               \* values of the vector clocks
  NumThreads            \* length of a vector clock

ASSUME PointsAssumption == Reads \intersect Writes = {}
ASSUME ClocksAssumption == NumThreads \in Nat /\ Clocks \subseteq [1 .. NumThreads -> Nat]

VARIABLES
  varName,              \* the variable of each point
  relatedSymbolicExpr,  \* the reads from which a written value was computed
  vectorClock,          \* DTAMPoint::vectorClock
  serial,               \* the points named in Trace::DTAMSerial
  analysis,             \* the analysis under way, "parallel" or "hybrid"
  control,              \* next step of DTAM::dtam
  affectingVariable,    \* DTAMPoint::affectingVariable: where taint goes
  isTaint,              \* the points with DTAMPoint::isTaint
  remainPoint,          \* the work list of initTaint
  parallel, hybrid      \* Trace::DTAMParallel, Trace::DTAMhybrid

trace == <<varName, relatedSymbolicExpr, vectorClock, serial>>

dtamVars == <<trace, analysis, control, affectingVariable, isTaint, remainPoint,
              parallel, hybrid>>

Points == Reads \union Writes

\* Mutant: equal clocks, as within one thread, count as later.
notBefore(p, q) == \E i \in 1 .. NumThreads : vectorClock[p][i] < vectorClock[q][i]

\* DTAMPoint::isBefore: false only if p's clock is strictly the larger one.
isBefore(p, q) ==
  \/ \E i \in 1 .. NumThreads : vectorClock[p][i] < vectorClock[q][i]
  \/ \A i \in 1 .. NumThreads : vectorClock[p][i] = vectorClock[q][i]

-----------------------------------------------------------------------------
\* What the taint execution leaves behind; any trace.
DTAMInit ==
  /\ varName \in [Points -> Vars]
  /\ relatedSymbolicExpr \in [Writes -> SUBSET Reads]
  /\ vectorClock \in [Points -> Clocks]
  /\ serial \in SUBSET Points
  /\ analysis = "parallel"
  /\ control = "DTAMParallel"
  /\ affectingVariable = [p \in Points |-> {}]
  /\ isTaint = {}
  /\ remainPoint = {}
  /\ parallel = {}
  /\ hybrid = {}

readersOf(w) == {r \in Reads : varName[r] = varName[w]}

computedFrom(r) == {w \in Writes : r \in relatedSymbolicExpr[w]}

DTAMParallel ==
  /\ control = "DTAMParallel"
  /\ control' = "initTaint"
  /\ affectingVariable' = [p \in Points |-> IF p \in Writes THEN readersOf(p)
                                                          ELSE computedFrom(p)]
  /\ UNCHANGED <<trace, analysis, isTaint, remainPoint, parallel, hybrid>>

\* Mutant: the tainted points are put on the work list without a mark.
initUnmarked ==
  /\ control = "initTaint"
  /\ control' = "depthFirst"
  /\ isTaint' = {}
  /\ remainPoint' = serial
  /\ UNCHANGED <<trace, analysis, affectingVariable, parallel, hybrid>>

\* The marks of an earlier analysis are removed, the tainted points marked.
initTaint ==
  /\ control = "initTaint"
  /\ control' = "depthFirst"
  /\ isTaint' = serial
  /\ remainPoint' = serial
  /\ UNCHANGED <<trace, analysis, affectingVariable, parallel, hybrid>>

\* Mutant: a point that is marked when it is reached is not followed.
markOnly ==
  /\ control = "depthFirst"
  /\ \E p \in remainPoint :
       /\ isTaint' = isTaint \union affectingVariable[p]
       /\ remainPoint' = remainPoint \ {p}
  /\ UNCHANGED <<trace, analysis, control, affectingVariable, parallel, hybrid>>

\* One round of the loop.  The code takes the last point; which one it is does
\* not matter.
propagate ==
  /\ control = "depthFirst"
  /\ \E p \in remainPoint :
       /\ isTaint' = isTaint \union affectingVariable[p]
       /\ remainPoint' = (remainPoint \ {p}) \union (affectingVariable[p] \ isTaint)
  /\ UNCHANGED <<trace, analysis, control, affectingVariable, parallel, hybrid>>

\* getTaint stores the marked points; dtam goes on to the hybrid analysis.
getTaint ==
  /\ control = "depthFirst"
  /\ remainPoint = {}
  /\ \/ /\ analysis = "parallel"
        /\ analysis' = "hybrid"
        /\ control' = "DTAMhybrid"
        /\ parallel' = isTaint
        /\ UNCHANGED hybrid
     \/ /\ analysis = "hybrid"
        /\ control' = "done"
        /\ hybrid' = isTaint
        /\ UNCHANGED <<analysis, parallel>>
  /\ UNCHANGED <<trace, affectingVariable, isTaint, remainPoint>>

\* The edge from w to an earlier r is removed, and w was computed from r: then
\* the code erases an element of one vector with an iterator of another one.
erasesForeignIterator ==
  \E w \in Writes : \E r \in affectingVariable[w] :
    ~ isBefore(w, r) /\ w \in affectingVariable[r]

\* Mutant: the edges out of a read are compared as well.
pruneAll ==
  /\ control = "DTAMhybrid"
  /\ IF erasesForeignIterator
     THEN control' = "undefined" /\ UNCHANGED affectingVariable
     ELSE /\ control' = "initTaint"
          /\ affectingVariable' =
               [p \in Points |-> {q \in affectingVariable[p] : isBefore(p, q)}]
  /\ UNCHANGED <<trace, analysis, isTaint, remainPoint, parallel, hybrid>>

DTAMhybrid ==
  /\ control = "DTAMhybrid"
  /\ IF erasesForeignIterator
     THEN control' = "undefined" /\ UNCHANGED affectingVariable
     ELSE /\ control' = "initTaint"
          /\ affectingVariable' =
               [p \in Points |-> IF p \in Writes
                                 THEN {r \in affectingVariable[p] : isBefore(p, r)}
                                 ELSE affectingVariable[p]]
  /\ UNCHANGED <<trace, analysis, isTaint, remainPoint, parallel, hybrid>>

dtamOver == control \in {"done", "undefined"} /\ UNCHANGED dtamVars

DTAMNext ==
  \/ DTAMParallel \/ initTaint \/ propagate \/ getTaint \/ DTAMhybrid \/ dtamOver

DTAMSpec == DTAMInit /\ [][DTAMNext]_dtamVars

-----------------------------------------------------------------------------
DTAMTypeOK ==
  /\ analysis \in {"parallel", "hybrid"}
  /\ control \in {"DTAMParallel", "initTaint", "depthFirst", "DTAMhybrid",
                  "done", "undefined"}
  /\ affectingVariable \in [Points -> SUBSET Points]
  /\ isTaint \subseteq Points
  /\ remainPoint \subseteq isTaint
  /\ parallel \subseteq Points
  /\ hybrid \subseteq Points

\* S has the tainted points and, with a point, all those it affects.
closed(S, affects) == serial \subseteq S /\ \A p \in S : affects[p] \subseteq S

leastClosed(S, affects) ==
  closed(S, affects) /\ \A T \in SUBSET Points : closed(T, affects) => S \subseteq T

\* Taint without regard to order, in terms of the trace.
affectsInParallel ==
  [p \in Points |-> {q \in Points :
     \/ p \in Writes /\ q \in Reads /\ varName[p] = varName[q]
     \/ p \in Reads /\ q \in Writes /\ p \in relatedSymbolicExpr[q]}]

\* The clocks order p before q.
precedes(p, q) ==
  /\ \A i \in 1 .. NumThreads : vectorClock[p][i] <= vectorClock[q][i]
  /\ vectorClock[p] # vectorClock[q]

\* Taint that does not go from a write back to an earlier read.
affectsInOrder ==
  [p \in Points |-> {q \in affectsInParallel[p] :
                       ~ (p \in Writes /\ precedes(q, p))}]

\* The parallel analysis finds exactly what taint can reach over shared
\* variables: the work list of initTaint misses no point and adds none.
ParallelExact ==
  analysis = "hybrid" => leastClosed(parallel, affectsInParallel)

\* The hybrid analysis finds exactly what taint can reach when no read sees a
\* write that the vector clocks put after it.  The graph is pruned in place and
\* the marks are reused, so this is about what the first analysis left behind.
HybridExact ==
  control = "done" => leastClosed(hybrid, affectsInOrder)

\* The hybrid result lies between the taint of the execution itself and the
\* parallel result: Encode::PTS asks the solver about the points between serial
\* and parallel only, and reports which of them the hybrid analysis has.
HybridBetween ==
  control = "done" => serial \subseteq hybrid /\ hybrid \subseteq parallel

=============================================================================
