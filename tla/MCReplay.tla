------------------------------- MODULE MCReplay -------------------------------
(* What is computed from one recorded execution: the vector clocks that       *)
(* prune read-write pairs (ThreadClock), the symbolic and the taint            *)
(* re-execution (Reexecution), the addresses recorded for aggregates           *)
(* (MemoryLayout) and the slicing of the constraints (Slicing).  subject says  *)
(* which of them a behaviour is of; the variables of the others are NULL, and  *)
(* no thread has done anything to the clocks.                                  *)
EXTENDS ThreadClock, TLC

CONSTANTS NULL, t1, t2, x, y

VARIABLE subject

VARIABLES
  global, local, register, loadRecord, storeRecord, symGlobal, symLocal, symRegister,
  symbolicMap, stored, constraints, taintedAddress, taintedSymbol, DTAMSerial,
  taintSymbolicExpr, unTaintSymbolicExpr, related, kleeBr, inCheck, uncollected,
  truth, steps, type, mutexes, initializers, stores, branches, phase, nit,
  allRelated, remaining, kQueryExpr, varRelated, varThread, i, branch

vars ==
  <<global, local, register, loadRecord, storeRecord, symGlobal, symLocal, symRegister,
    symbolicMap, stored, constraints, taintedAddress, taintedSymbol, DTAMSerial,
    taintSymbolicExpr, unTaintSymbolicExpr, related, kleeBr, inCheck, uncollected,
    truth, steps, type, mutexes, initializers, stores, branches, phase, nit,
    allRelated, remaining, kQueryExpr, varRelated, varThread, i, branch>>

Symmetry == Permutations({x, y}) \union Permutations({t1, t2})

-----------------------------------------------------------------------------
\* Main creates two threads and makes one more call; the others make one call.
FewCalls == [t \in 1 .. 3 |-> IF t = 1 THEN 3 ELSE 1]

Reexec == INSTANCE Reexecution WITH
  Threads <- {t1, t2}, Globals <- {x, y}, MaxSteps <- 6, MaxAccesses <- 2

\* Types of depth three: scalars, structs of up to two scalars, arrays of two of
\* them, and structs of up to three of all these.
Scalars == [kind : {"char", "word", "string", "mutex"}]

Struct(F, n) == {[kind |-> "struct", fields |-> s] : s \in UNION {[1..k -> F] : k \in 1..n}}

Arrays(A) == [kind : {"array"}, count : {2}, element : A]

Inner == Scalars \union Struct(Scalars, 2)

AllTypes == Struct(Inner \union Arrays(Struct(Scalars, 2)), 2) \union Struct(Inner, 3)

Layout == INSTANCE MemoryLayout WITH Types <- AllTypes, Start <- 8

\* Constraints of at most one use, branches of at most two.
SomeStores == [var : 1 .. 3, uses : {{}} \union {{u} : u \in 1 .. 3}, thread : 1 .. 2]

SomeBranches == [uses : {U \in SUBSET (1 .. 3) : U # {} /\ Cardinality(U) <= 2}, thread : {1}]

Slices == INSTANCE Slicing WITH
  Vars <- 1 .. 3, Threads <- 1 .. 2, Stores <- SomeStores, Branches <- SomeBranches,
  MaxStores <- 2, MaxBranches <- 2

-----------------------------------------------------------------------------
ClockOnly ==
  /\ global = NULL /\ local = NULL /\ register = NULL /\ loadRecord = NULL
  /\ storeRecord = NULL /\ symGlobal = NULL /\ symLocal = NULL /\ symRegister = NULL
  /\ symbolicMap = NULL /\ stored = NULL /\ constraints = NULL /\ taintedAddress = NULL
  /\ taintedSymbol = NULL /\ DTAMSerial = NULL /\ taintSymbolicExpr = NULL
  /\ unTaintSymbolicExpr = NULL /\ related = NULL /\ kleeBr = NULL /\ inCheck = NULL
  /\ uncollected = NULL /\ truth = NULL /\ steps = NULL /\ type = NULL
  /\ mutexes = NULL /\ initializers = NULL /\ stores = NULL /\ branches = NULL
  /\ phase = NULL /\ nit = NULL /\ allRelated = NULL /\ remaining = NULL
  /\ kQueryExpr = NULL /\ varRelated = NULL /\ varThread = NULL /\ i = NULL
  /\ branch = NULL

ReexecOnly ==
  /\ ClockInit /\ type = NULL /\ mutexes = NULL /\ initializers = NULL
  /\ stores = NULL /\ branches = NULL /\ phase = NULL /\ nit = NULL
  /\ allRelated = NULL /\ remaining = NULL /\ kQueryExpr = NULL /\ varRelated = NULL
  /\ varThread = NULL /\ i = NULL /\ branch = NULL

LayoutOnly ==
  /\ ClockInit /\ global = NULL /\ local = NULL /\ register = NULL
  /\ loadRecord = NULL /\ storeRecord = NULL /\ symGlobal = NULL /\ symLocal = NULL
  /\ symRegister = NULL /\ symbolicMap = NULL /\ stored = NULL /\ constraints = NULL
  /\ taintedAddress = NULL /\ taintedSymbol = NULL /\ DTAMSerial = NULL
  /\ taintSymbolicExpr = NULL /\ unTaintSymbolicExpr = NULL /\ related = NULL
  /\ kleeBr = NULL /\ inCheck = NULL /\ uncollected = NULL /\ truth = NULL
  /\ steps = NULL /\ stores = NULL /\ branches = NULL /\ phase = NULL /\ nit = NULL
  /\ allRelated = NULL /\ remaining = NULL /\ kQueryExpr = NULL /\ varRelated = NULL
  /\ varThread = NULL /\ i = NULL /\ branch = NULL

SlicesOnly ==
  /\ ClockInit /\ global = NULL /\ local = NULL /\ register = NULL
  /\ loadRecord = NULL /\ storeRecord = NULL /\ symGlobal = NULL /\ symLocal = NULL
  /\ symRegister = NULL /\ symbolicMap = NULL /\ stored = NULL /\ constraints = NULL
  /\ taintedAddress = NULL /\ taintedSymbol = NULL /\ DTAMSerial = NULL
  /\ taintSymbolicExpr = NULL /\ unTaintSymbolicExpr = NULL /\ kleeBr = NULL
  /\ inCheck = NULL /\ uncollected = NULL /\ truth = NULL /\ steps = NULL
  /\ type = NULL /\ mutexes = NULL /\ initializers = NULL

Init ==
  \/ subject = "clock" /\ ClockInit /\ ClockOnly
  \/ subject = "reexec" /\ Reexec!ReexecInit /\ ReexecOnly
  \/ subject = "layout" /\ Layout!LayoutInit /\ LayoutOnly
  \/ subject = "slices" /\ Slices!SliceInit /\ SlicesOnly

Next ==
  /\ UNCHANGED subject
  /\ \/ subject = "clock" /\ ClockNext
        /\ UNCHANGED <<global, local, register, loadRecord, storeRecord, symGlobal, symLocal,
                       symRegister, symbolicMap, stored, constraints, taintedAddress, taintedSymbol,
                       DTAMSerial, taintSymbolicExpr, unTaintSymbolicExpr, related, kleeBr, inCheck,
                       uncollected, truth, steps, type, mutexes, initializers, stores, branches,
                       phase, nit, allRelated, remaining, kQueryExpr, varRelated, varThread, i,
                       branch>>
     \/ subject = "reexec" /\ Reexec!ReexecNext
        /\ UNCHANGED <<clockVars, type, mutexes, initializers, stores, branches, phase, nit,
                       allRelated, remaining, kQueryExpr, varRelated, varThread, i, branch>>
     \/ subject = "layout" /\ Layout!LayoutNext
        /\ UNCHANGED <<clockVars, global, local, register, loadRecord, storeRecord, symGlobal,
                       symLocal, symRegister, symbolicMap, stored, constraints, taintedAddress,
                       taintedSymbol, DTAMSerial, taintSymbolicExpr, unTaintSymbolicExpr, related,
                       kleeBr, inCheck, uncollected, truth, steps, stores, branches, phase, nit,
                       allRelated, remaining, kQueryExpr, varRelated, varThread, i, branch>>
     \/ subject = "slices" /\ Slices!SliceNext
        /\ UNCHANGED <<clockVars, global, local, register, loadRecord, storeRecord, symGlobal,
                       symLocal, symRegister, symbolicMap, stored, constraints, taintedAddress,
                       taintedSymbol, DTAMSerial, taintSymbolicExpr, unTaintSymbolicExpr, kleeBr,
                       inCheck, uncollected, truth, steps, type, mutexes, initializers>>

Spec == Init /\ [][Next]_<<subject, clockVars, vars>>

-----------------------------------------------------------------------------
\* The second execution computes what was recorded: registers and memory have their
\* recorded values when the symbols have theirs, and the recorded execution satisfies
\* every collected constraint, so buildAllFormula has at least this solution.
RecordedSatisfies == subject = "reexec" => Reexec!FollowsRecorded /\ Reexec!RecordedSatisfies

\* What TaintListener takes to be tainted really is, and it first misses taint where a
\* register is used again after its symbols were replaced by constants.  Every read a
\* stored value was computed from is recorded, so DTAM finds an entry for it, and a
\* variable with a tainted store stays in taintSymbolicExpr.
TaintRecorded ==
  subject = "reexec" => Reexec!TaintExact /\ Reexec!RelatedRecorded /\ Reexec!TaintSets

\* A symbolic branch of the program has a constraint, unless it runs while another thread
\* is between the call and the branch of a check.
BranchesCollected == subject = "reexec" => Reexec!BranchesCollected

\* Every mutex of a variable is known under its address when no struct inside its type has
\* padding at its end (createSpecialElement), and every initial value is recorded under
\* its address when structs begin and end on their fields' addresses (handleInitializer).
AddressesUnpadded ==
  subject = "layout" => Layout!SpecialAddressesUnpadded /\ Layout!InitialValuesUnpadded

\* The slice of a trace: a variable of a branch, or one that a kept constraint of an
\* earlier name uses, has all of its constraints kept, and none is lost between the lists.
\* A branch is left alone only if no variable it reaches by later and later names is
\* written and accessed by two threads: no schedule changes it so.
SlicesSound ==
  subject = "slices" => Slices!KeptUpwards /\ Slices!NothingLost /\ Slices!SkippedOnlyIfLocal

=============================================================================
