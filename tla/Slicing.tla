------------------------------- MODULE Slicing -------------------------------
(***************************************************************************)
(* DealWithSymbolicExpr: which variables matter to the branches and the    *)
(* asserts of a trace, which constraints, reads and writes are kept for    *)
(* them, and which branches a different schedule could turn.               *)
(*                                                                         *)
(* Names are numbers in the order of std::string.  The closures walk over  *)
(* a std::set that they insert into, so they go upwards only.              *)
(***************************************************************************)
EXTENDS Integers, Sequences, FiniteSetsExt, SequencesExt

CONSTANTS
  Vars,                 \* names of shared variables: 1..n
  Threads,              \* thread ids: positive numbers
  Stores,               \* constraints of stores: [var, uses, thread]
  Branches,             \* branches: [uses, thread]
  MaxStores, MaxBranches   \* bounds: constraints of one trace

VARIABLES
  stores,               \* Trace::storeSymbolicExpr
  branches,             \* Trace::brSymbolicExpr and assertSymbolicExpr
  phase,                \* "filter", "sets", "branch", "done"
  nit,                  \* the name the iterator is at; 0 at the start
  allRelated,           \* allRelatedSymbolicExpr
  remaining,            \* remainingExpr
  kQueryExpr,
  varRelated,           \* Trace::varRelatedSymbolicExpr
  varThread,            \* Trace::varThread
  i,                    \* the branch check_if looks at
  related,              \* Trace::RelatedSymbolicExpr
  branch                \* what filterUselessWithSet returned for each branch
sliceVars == <<stores, branches, phase, nit, allRelated, remaining, kQueryExpr,
               varRelated, varThread, i, related, branch>>

usesOf(c) == c.uses \union {c.var}

\* The read and write events of the trace: a thread and a variable.
reads == LET r(c) == {<<c.thread, u>> : u \in c.uses} IN
           UNION {r(stores[k]) : k \in 1..Len(stores)}
             \union UNION {r(branches[k]) : k \in 1..Len(branches)}
writes == {<<stores[k].thread, stores[k].var>> : k \in 1..Len(stores)}

\* The next name of a set the iterator comes to.
above(S, n) == {v \in S : v > n}

-----------------------------------------------------------------------------
\* Mutant: the uses of a constraint are not added.
withoutUses(S, taken) == S

\* addExprToSet for the constraints that were taken
withUses(S, taken) == S \union UNION {usesOf(taken[k]) : k \in 1..Len(taken)}

\* remainingExpr without the constraints of a variable
erased(v) == SelectSeq(remaining, LAMBDA c : c.var # v)

\* filterUseless: the variable at the iterator, its constraints, what they use.
visit ==
  /\ phase = "filter" /\ above(allRelated, nit) # {}
  /\ LET v == Min(above(allRelated, nit))
         taken == SelectSeq(remaining, LAMBDA c : c.var = v)
     IN  /\ nit' = v
         /\ kQueryExpr' = kQueryExpr \o taken
         /\ remaining' = erased(v)
         /\ varRelated' = [varRelated EXCEPT ![v] = withUses(@, taken)]
         /\ allRelated' = withUses(allRelated, taken)
  /\ UNCHANGED <<stores, branches, phase, varThread, i, related, branch>>

\* The thread of a variable: 0 for several, -1 for one that is never written.
threadOf(v) ==
  LET r == {a[1] : a \in {a \in reads : a[2] = v}}
      w == {a[1] : a \in {a \in writes : a[2] = v}}
  IN  IF w = {} THEN -1 ELSE IF Cardinality(r \union w) = 1 THEN Max(r \union w) ELSE 0

\* fillterTrace: the events of variables that matter.
useful(events) == {a \in events : a[2] \in allRelated}

\* filterUseless: read set, write set, initial values, events and varThread.
filterSets ==
  /\ phase = "filter" /\ above(allRelated, nit) = {}
  /\ varThread' = [v \in {a[2] : a \in useful(reads \union writes)} |->
                     threadOf(v)]
  /\ phase' = "branch" /\ i' = 1 /\ nit' = 0
  /\ related' = branches[1].uses
  /\ UNCHANGED <<stores, branches, allRelated, remaining, kQueryExpr, varRelated, branch>>

\* filterUselessWithSet: the variable at the iterator.
relate ==
  /\ phase = "branch" /\ above(related, nit) # {}
  /\ LET v == Min(above(related, nit)) IN
       /\ nit' = v
       /\ related' = related \union varRelated[v]
  /\ UNCHANGED <<stores, branches, phase, allRelated, remaining, kQueryExpr, varRelated,
                 varThread, i, branch>>

\* A variable without an entry gets one, which is 0.
someShared(S) == \E v \in S : v \notin DOMAIN varThread \/ varThread[v] = 0

\* filterUselessWithSet returns; check_if goes on with the next branch.
decide ==
  /\ phase = "branch" /\ above(related, nit) = {}
  /\ branch' = Append(branch, someShared(related))
  /\ nit' = 0
  /\ IF i = Len(branches)
     THEN phase' = "done" /\ UNCHANGED <<i, related>>
     ELSE phase' = phase /\ i' = i + 1 /\ related' = branches[i + 1].uses
  /\ UNCHANGED <<stores, branches, allRelated, remaining, kQueryExpr, varRelated, varThread>>

SliceInit ==
  /\ stores \in UNION {[1..n -> Stores] : n \in 0..MaxStores}
  /\ branches \in UNION {[1..n -> Branches] : n \in 1..MaxBranches}
  /\ phase = "filter" /\ nit = 0
  /\ allRelated = UNION {branches[k].uses : k \in 1..Len(branches)}
  /\ remaining = stores /\ kQueryExpr = << >>
  /\ varRelated = [v \in Vars |-> {}]
  /\ varThread = << >>
  /\ i = 0 /\ related = {} /\ branch = << >>

SliceNext == visit \/ filterSets \/ relate \/ decide

SliceSpec == SliceInit /\ [][SliceNext]_sliceVars

-----------------------------------------------------------------------------
filtered == phase # "filter"

\* The constraints that are kept: a variable of a branch, or one that a kept
\* constraint of an earlier name uses, has all of its constraints kept.  The
\* values of other variables are left open.
KeptUpwards ==
  filtered =>
    \A v \in Vars :
      (\/ \E k \in 1..Len(branches) : v \in branches[k].uses
       \/ \E k \in 1..Len(kQueryExpr) : kQueryExpr[k].var < v /\ v \in kQueryExpr[k].uses) =>
        /\ \A k \in 1..Len(remaining) : remaining[k].var # v
        /\ v \in allRelated

\* Nothing is lost between the lists: each store constraint is kept or remains.
NothingLost ==
  \A c \in Stores :
    Len(SelectSeq(stores, LAMBDA d : d = c)) =
      Len(SelectSeq(kQueryExpr, LAMBDA d : d = c))
        + Len(SelectSeq(remaining, LAMBDA d : d = c))

\* Variables that v's constraints reach by later and later names.
reach(S) ==
  LET next(T) == T \union {u \in Vars : \E k \in 1..Len(stores) :
                             stores[k].var \in T /\ u > stores[k].var /\ u \in stores[k].uses}
  IN  FoldLeft(LAMBDA T, k : next(T), S, [k \in 1..Cardinality(Vars) |-> k])

\* A branch is left alone only if no variable it reaches by later and later
\* names is written and accessed by two threads: no schedule changes it so.
SkippedOnlyIfLocal ==
  \A k \in 1..Len(branch) :
    ~ branch[k] =>
      \A v \in reach(branches[k].uses) :
        LET users == {a[1] : a \in {a \in reads \union writes : a[2] = v}} IN
          (\E a \in writes : a[2] = v) => Cardinality(users) = 1
=============================================================================
