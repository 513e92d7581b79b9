------------------------------ MODULE DTAMProofs ------------------------------
(***************************************************************************)
(* The analyses of DTAM are exact, for every trace.                        *)
(***************************************************************************)
EXTENDS DTAM, TLAPS

\* The inputs are a trace; no step changes them.
TraceOK ==
  /\ varName \in [Points -> Vars]
  /\ relatedSymbolicExpr \in [Writes -> SUBSET Reads]
  /\ vectorClock \in [Points -> Clocks]
  /\ serial \in SUBSET Points

\* The graph of the analysis under way.
GraphOK ==
  /\ control \in {"initTaint", "depthFirst", "done"} =>
       affectingVariable = IF analysis = "parallel" THEN affectsInParallel
                                                    ELSE affectsInOrder
  /\ control = "DTAMhybrid" => affectingVariable = affectsInParallel
  /\ control \in {"DTAMhybrid", "done", "undefined"} => analysis = "hybrid"
  /\ control = "DTAMParallel" => analysis = "parallel"

\* Half way through the work list: the marks have the tainted points, the
\* marked points that are off the list have been followed, and no mark is
\* outside a set that is closed.
WorkListOK ==
  control = "depthFirst" =>
    /\ serial \subseteq isTaint
    /\ \A p \in isTaint \ remainPoint : affectingVariable[p] \subseteq isTaint
    /\ \A T \in SUBSET Points : closed(T, affectingVariable) => isTaint \subseteq T

DTAMInv ==
  DTAMTypeOK /\ TraceOK /\ GraphOK /\ WorkListOK /\ ParallelExact /\ HybridExact

\* Clocks with equal entries are equal.
LEMMA EqualClocks ==
  ASSUME NEW c \in [1 .. NumThreads -> Nat], NEW d \in [1 .. NumThreads -> Nat]
  PROVE  c = d <=> \A i \in 1 .. NumThreads : c[i] = d[i]
<1>1. /\ c = [i \in 1 .. NumThreads |-> c[i]]
      /\ d = [i \in 1 .. NumThreads |-> d[i]]
  OBVIOUS
<1>2. ASSUME \A i \in 1 .. NumThreads : c[i] = d[i]
      PROVE  c = d
  <2>1. [i \in 1 .. NumThreads |-> c[i]] = [i \in 1 .. NumThreads |-> d[i]]
    BY <1>2, Zenon
  <2> QED
    BY <1>1, <2>1, Zenon
<1> QED
  BY <1>2, Zenon

\* The two formulations of the order of the clocks agree.
LEMMA IsBeforePrecedes ==
  ASSUME TraceOK, NEW p \in Points, NEW q \in Points
  PROVE  isBefore(p, q) <=> ~ precedes(q, p)
<1>1. /\ vectorClock[p] \in [1 .. NumThreads -> Nat]
      /\ vectorClock[q] \in [1 .. NumThreads -> Nat]
  BY ClocksAssumption DEF TraceOK
<1>2. vectorClock[p] = vectorClock[q] <=>
        \A i \in 1 .. NumThreads : vectorClock[p][i] = vectorClock[q][i]
  BY <1>1, EqualClocks
<1>3. \A i \in 1 .. NumThreads : vectorClock[p][i] \in Nat /\ vectorClock[q][i] \in Nat
  BY <1>1
<1> QED
  BY <1>2, <1>3 DEF isBefore, precedes

\* The graph DTAMParallel builds.
LEMMA ParallelGraph ==
  ASSUME TraceOK
  PROVE  /\ affectsInParallel = [p \in Points |-> IF p \in Writes THEN readersOf(p)
                                                                 ELSE computedFrom(p)]
         /\ affectsInParallel \in [Points -> SUBSET Points]
<1>1. ASSUME NEW p \in Points
      PROVE  {q \in Points : \/ p \in Writes /\ q \in Reads /\ varName[p] = varName[q]
                             \/ p \in Reads /\ q \in Writes /\ p \in relatedSymbolicExpr[q]}
               = IF p \in Writes THEN readersOf(p) ELSE computedFrom(p)
  BY PointsAssumption DEF Points, readersOf, computedFrom
<1> QED
  BY <1>1 DEF affectsInParallel

\* The graph DTAMhybrid leaves.
LEMMA HybridGraph ==
  ASSUME TraceOK
  PROVE  /\ affectsInOrder = [p \in Points |-> IF p \in Writes
                                THEN {r \in affectsInParallel[p] : isBefore(p, r)}
                                ELSE affectsInParallel[p]]
         /\ affectsInOrder \in [Points -> SUBSET Points]
         /\ \A p \in Points : affectsInOrder[p] \subseteq affectsInParallel[p]
<1>1. affectsInParallel \in [Points -> SUBSET Points]
  BY ParallelGraph
<1>2. ASSUME NEW p \in Points
      PROVE  {q \in affectsInParallel[p] : ~ (p \in Writes /\ precedes(q, p))}
               = IF p \in Writes THEN {r \in affectsInParallel[p] : isBefore(p, r)}
                                 ELSE affectsInParallel[p]
  BY <1>1, IsBeforePrecedes
<1> QED
  BY <1>1, <1>2 DEF affectsInOrder

-----------------------------------------------------------------------------
\* The initial states.
LEMMA DTAMInitInv == ASSUME DTAMInit PROVE DTAMInv
BY DEF DTAMInit, DTAMInv, DTAMTypeOK, TraceOK, GraphOK, WorkListOK, ParallelExact,
       HybridExact

\* A step leaves the trace alone, and with it what is defined by it.
LEMMA TraceFrame ==
  ASSUME TraceOK, UNCHANGED trace
  PROVE  /\ TraceOK'
         /\ affectsInParallel' = affectsInParallel /\ affectsInOrder' = affectsInOrder
         /\ serial' = serial
BY DEF TraceOK, trace, affectsInParallel, affectsInOrder, precedes

\* Building the graph.
LEMMA ParallelInv == ASSUME DTAMInv, DTAMParallel PROVE DTAMInv'
<1>1. /\ TraceOK' /\ affectsInParallel' = affectsInParallel
      /\ affectingVariable' = affectsInParallel
      /\ affectsInParallel \in [Points -> SUBSET Points]
  BY TraceFrame, ParallelGraph DEF DTAMInv, DTAMParallel
<1> QED
  BY <1>1 DEF DTAMInv, DTAMParallel, DTAMTypeOK, GraphOK, WorkListOK, ParallelExact,
              HybridExact

\* The list begins with the tainted points.
LEMMA InitTaintInv == ASSUME DTAMInv, initTaint PROVE DTAMInv'
<1>1. /\ TraceOK' /\ affectsInParallel' = affectsInParallel
      /\ affectsInOrder' = affectsInOrder /\ serial' = serial
  BY TraceFrame DEF DTAMInv, initTaint
<1>2. DTAMTypeOK' /\ GraphOK' /\ HybridExact'
  BY <1>1 DEF DTAMInv, initTaint, DTAMTypeOK, TraceOK, GraphOK, HybridExact
<1>3. WorkListOK'
  BY <1>1 DEF initTaint, WorkListOK, closed
<1>4. ParallelExact'
  BY <1>1 DEF DTAMInv, initTaint, ParallelExact, leastClosed, closed
<1> QED
  BY <1>1, <1>2, <1>3, <1>4 DEF DTAMInv

\* Following one point.
LEMMA PropagateInv == ASSUME DTAMInv, propagate PROVE DTAMInv'
<1>1. /\ TraceOK' /\ affectsInParallel' = affectsInParallel
      /\ affectsInOrder' = affectsInOrder /\ serial' = serial
  BY TraceFrame DEF DTAMInv, propagate
<1>2. PICK p \in remainPoint :
        /\ isTaint' = isTaint \union affectingVariable[p]
        /\ remainPoint' = (remainPoint \ {p}) \union (affectingVariable[p] \ isTaint)
  BY DEF propagate
<1>3. /\ control = "depthFirst" /\ control' = control
      /\ UNCHANGED <<analysis, affectingVariable, parallel, hybrid>>
      /\ p \in isTaint /\ isTaint \subseteq Points /\ remainPoint \subseteq isTaint
      /\ affectingVariable \in [Points -> SUBSET Points]
  BY DEF DTAMInv, DTAMTypeOK, propagate
<1>4. DTAMTypeOK'
  BY <1>2, <1>3 DEF DTAMInv, DTAMTypeOK
<1>5. GraphOK' /\ HybridExact'
  BY <1>1, <1>3 DEF DTAMInv, GraphOK, HybridExact
<1>6. WorkListOK'
  <2>1. serial' \subseteq isTaint'
    BY <1>1, <1>2, <1>3 DEF DTAMInv, WorkListOK
  <2>2. \A q \in isTaint' \ remainPoint' : affectingVariable'[q] \subseteq isTaint'
    BY <1>2, <1>3 DEF DTAMInv, WorkListOK
  <2>3. ASSUME NEW T \in SUBSET Points, closed(T, affectingVariable)
        PROVE  isTaint' \subseteq T
    <3>1. isTaint \subseteq T
      BY <1>3, <2>3 DEF DTAMInv, WorkListOK
    <3> QED
      BY <1>2, <1>3, <2>3, <3>1 DEF closed
  <2>4. \A T : closed(T, affectingVariable)' <=> closed(T, affectingVariable)
    BY <1>1, <1>3 DEF closed
  <2> QED
    BY <2>1, <2>2, <2>3, <2>4, <1>3 DEF WorkListOK, closed
<1>7. ParallelExact'
  BY <1>1, <1>3 DEF DTAMInv, ParallelExact, leastClosed, closed
<1> QED
  BY <1>1, <1>4, <1>5, <1>6, <1>7 DEF DTAMInv

\* An empty list: the marks are the least closed set.
LEMMA GetTaintInv == ASSUME DTAMInv, getTaint PROVE DTAMInv'
<1>1. /\ TraceOK' /\ affectsInParallel' = affectsInParallel
      /\ affectsInOrder' = affectsInOrder /\ serial' = serial
  BY TraceFrame DEF DTAMInv, getTaint
<1>2. leastClosed(isTaint, affectingVariable)
  BY DEF DTAMInv, DTAMTypeOK, getTaint, WorkListOK, leastClosed, closed
<1>3. DTAMTypeOK' /\ GraphOK' /\ WorkListOK'
  BY <1>1 DEF DTAMInv, DTAMTypeOK, getTaint, GraphOK, WorkListOK
<1>4. CASE analysis = "parallel"
  <2>1. affectingVariable = affectsInParallel /\ parallel' = isTaint /\ control' # "done"
    BY <1>4 DEF DTAMInv, GraphOK, getTaint
  <2>2. ParallelExact' /\ HybridExact'
    BY <1>1, <1>2, <2>1 DEF ParallelExact, HybridExact, leastClosed, closed
  <2> QED
    BY <1>1, <1>3, <2>2 DEF DTAMInv
<1>5. CASE analysis = "hybrid"
  <2>1. /\ affectingVariable = affectsInOrder /\ hybrid' = isTaint
        /\ parallel' = parallel /\ analysis' = analysis
    BY <1>5 DEF DTAMInv, GraphOK, getTaint
  <2>2. ParallelExact' /\ HybridExact'
    BY <1>1, <1>2, <2>1 DEF DTAMInv, ParallelExact, HybridExact, leastClosed, closed
  <2> QED
    BY <1>1, <1>3, <2>2 DEF DTAMInv
<1> QED
  BY <1>4, <1>5 DEF DTAMInv, DTAMTypeOK

\* Pruning the graph.
LEMMA HybridInv == ASSUME DTAMInv, DTAMhybrid PROVE DTAMInv'
<1>1. /\ TraceOK /\ TraceOK' /\ affectsInParallel' = affectsInParallel
      /\ affectsInOrder' = affectsInOrder /\ serial' = serial
  BY TraceFrame DEF DTAMInv, DTAMhybrid
<1>2. affectingVariable = affectsInParallel /\ analysis = "hybrid"
  BY DEF DTAMInv, DTAMhybrid, GraphOK
<1>3. CASE erasesForeignIterator
  BY <1>1, <1>2, <1>3 DEF DTAMInv, DTAMhybrid, DTAMTypeOK, GraphOK, WorkListOK,
                          ParallelExact, HybridExact, leastClosed, closed
<1>4. CASE ~ erasesForeignIterator
  <2>1. /\ affectingVariable' = affectsInOrder /\ control' = "initTaint"
        /\ affectsInOrder \in [Points -> SUBSET Points]
    BY <1>1, <1>2, <1>4, HybridGraph DEF DTAMhybrid
  <2> QED
    BY <1>1, <1>2, <2>1 DEF DTAMInv, DTAMhybrid, DTAMTypeOK, GraphOK, WorkListOK,
                            ParallelExact, HybridExact, leastClosed, closed
<1> QED
  BY <1>3, <1>4

\* Every step preserves the invariant.
LEMMA DTAMNextInv == ASSUME DTAMInv, [DTAMNext]_dtamVars PROVE DTAMInv'
<1>1. CASE UNCHANGED dtamVars
  <2>1. /\ TraceOK' /\ affectsInParallel' = affectsInParallel
        /\ affectsInOrder' = affectsInOrder /\ serial' = serial
    BY <1>1, TraceFrame DEF DTAMInv, dtamVars
  <2> QED
    BY <1>1, <2>1 DEF dtamVars, DTAMInv, DTAMTypeOK, GraphOK, WorkListOK, ParallelExact,
                      HybridExact, leastClosed, closed
<1> QED
  BY <1>1, ParallelInv, InitTaintInv, PropagateInv, GetTaintInv, HybridInv
  DEF DTAMNext, dtamOver

\* The invariant holds in every reachable state.
THEOREM DTAMInvariantHolds == DTAMSpec => []DTAMInv
<1>1. DTAMInit => DTAMInv
  BY DTAMInitInv
<1>2. DTAMInv /\ [DTAMNext]_dtamVars => DTAMInv'
  BY DTAMNextInv
<1> QED
  BY <1>1, <1>2, PTL DEF DTAMSpec

\* The work list and the graph keep their types; every point on the work list
\* is marked.
THEOREM DTAMTypeCorrect == DTAMSpec => []DTAMTypeOK
BY DTAMInvariantHolds, PTL DEF DTAMInv

\* The parallel analysis marks exactly what taint reaches, for every trace.
THEOREM ParallelIsExact == DTAMSpec => []ParallelExact
BY DTAMInvariantHolds, PTL DEF DTAMInv

\* The hybrid analysis marks exactly what taint reaches in order, in the graph
\* that the parallel analysis left and DTAMhybrid pruned.
THEOREM HybridIsExact == DTAMSpec => []HybridExact
BY DTAMInvariantHolds, PTL DEF DTAMInv

\* The hybrid result lies between the serial and the parallel one.
THEOREM HybridIsBetween == DTAMSpec => []HybridBetween
<1>1. ASSUME DTAMInv, control = "done"
      PROVE  serial \subseteq hybrid /\ hybrid \subseteq parallel
  <2>1. leastClosed(parallel, affectsInParallel) /\ leastClosed(hybrid, affectsInOrder)
    BY <1>1 DEF DTAMInv, GraphOK, ParallelExact, HybridExact
  <2>2. /\ parallel \in SUBSET Points
        /\ \A p \in Points : affectsInOrder[p] \subseteq affectsInParallel[p]
    BY <1>1, HybridGraph DEF DTAMInv, DTAMTypeOK
  <2>3. closed(parallel, affectsInOrder)
    BY <2>1, <2>2 DEF leastClosed, closed
  <2> QED
    BY <2>1, <2>2, <2>3 DEF leastClosed, closed
<1>2. DTAMInv => HybridBetween
  BY <1>1 DEF HybridBetween
<1> QED
  BY <1>2, DTAMInvariantHolds, PTL

=============================================================================
