---------------------------- MODULE SolverChain ----------------------------
(* The chain of solvers a path's queries go through (constructSolverChain):  *)
(* constraint independence, the validity cache, the counterexample cache     *)
(* over a tree of sets (MapOfSets), an incomplete solver in front of the     *)
(* core solver, and the core solver, which may fail in a forked process;     *)
(* optionally the answers are validated against the core solver.             *)
(*                                                                           *)
(* A Boolean expression is a name with the assignments it holds under, the   *)
(* array elements it reads and its negation.  A layer is an operator that    *)
(* gives the set of its possible results [ok, agreed, res, st]: whether it   *)
(* succeeded, was validated, its answer and the caches after it.  The core   *)
(* solver chooses any solution.  Text, timing and logging are left out.      *)
EXTENDS Integers, Sequences, FiniteSets, SequencesExt, FiniteSetsExt

CONSTANTS Exprs,        \* the expressions, in the order of Expr::compare
          Holds,        \* expression -> the assignments it holds under
          Negated,      \* createIsZero
          ReadsElement, \* expression -> <<array, index>> it reads at a constant index
          ReadsWhole,   \* expression -> arrays it reads at a symbolic index
          Assignments,  \* array -> values, for all arrays
          Zero,         \* array -> the value of an array nothing is known of
          Paths,        \* the constraints queries are asked under
          RangeBits,    \* width of the expression getRange is asked about
          MaxAsked      \* bound: number of queries

VARIABLES options,   \* which layers there are
          caches,    \* [tree, table, cache]
          asked,     \* number of queries
          answer     \* the last query and what came of it

solverVars == <<options, caches, asked, answer>>

isConstant(e) == e \in {"true", "false"}

arraysOf(es) == UNION {ReadsWhole[e] \cup {x[1] : x \in ReadsElement[e]} : e \in es}

\* The assignments with all constraints and without the query.
solutions(c, e) == {a \in Assignments : (\A x \in c : a \in Holds[x]) /\ a \notin Holds[e]}

Valid(c, e) == solutions(c, e) = {}

failure(st) == [ok |-> FALSE, agreed |-> TRUE, st |-> st]

success(v, st) == [ok |-> TRUE, agreed |-> TRUE, res |-> v, st |-> st]

-----------------------------------------------------------------------------
\* Assignments bind some of the arrays; the others read as zero.

completed(a) == [x \in DOMAIN Zero |-> IF x \in DOMAIN a THEN a[x] ELSE Zero[x]]

evaluate(a, e) == completed(a) \in Holds[e]

satisfies(a, key) == \A e \in key : evaluate(a, e)

-----------------------------------------------------------------------------
\* The core solver.  Its result is {} when the query is valid, else {a counterexample}.

runAndGetCex(c, e, objects, st) ==
  IF Valid(c, e) THEN {success({}, st)}
  ELSE {success({[x \in objects |-> a[x]]}, st) : a \in solutions(c, e)}

\* In a child process: fork, waitpid, a signal, the timeout or the exit code may fail.
runAndGetCexForked(c, e, objects, st) == runAndGetCex(c, e, objects, st) \cup {failure(st)}

stpInitialValues(c, e, objects, st) ==
  IF options.forked THEN runAndGetCexForked(c, e, objects, st) ELSE runAndGetCex(c, e, objects, st)

\* metaSMT: the constraints and the negated query are assumptions of one call of solve ...
metaRunAndGetCex(c, e, objects, st) ==
  LET models == solutions(c, e)
  IN IF models = {} THEN {success({}, st)} ELSE {success({[x \in objects |-> a[x]]}, st) : a \in models}

\* ... or assertions of a child process, whose values come back in shared memory.
metaRunAndGetCexForked(c, e, objects, st) == metaRunAndGetCex(c, e, objects, st) \cup {failure(st)}

metaInitialValues(c, e, objects, st) ==
  IF options.forked THEN metaRunAndGetCexForked(c, e, objects, st)
  ELSE metaRunAndGetCex(c, e, objects, st)

coreInitialValues(c, e, objects, st) ==
  IF options.metaSMT THEN metaInitialValues(c, e, objects, st) ELSE stpInitialValues(c, e, objects, st)

coreTruth(c, e, st) ==
  {IF r.ok THEN success(r.res = {}, r.st) ELSE r : r \in coreInitialValues(c, e, {}, st)}

\* The assignment the value is taken from exists: the constraints are satisfiable.
coreValue(c, e, st) ==
  {IF r.ok THEN success(\A a \in r.res : evaluate(a, e), r.st) ELSE r :
     r \in coreInitialValues(c, "false", arraysOf({e}), st)}

\* SolverImpl::computeValidity.
coreValidity(c, e, st) ==
  UNION {IF ~ r.ok THEN {r}
         ELSE IF r.res THEN {success("True", r.st)}
         ELSE {IF ~ f.ok THEN f ELSE success(IF f.res THEN "False" ELSE "Unknown", f.st) :
                 f \in coreTruth(c, Negated[e], r.st)} : r \in coreTruth(c, e, st)}

-----------------------------------------------------------------------------
\* StagedSolverImpl: an incomplete solver is asked first.  It is right when it answers.

primaryTruth(c, e) == {"None", IF Valid(c, e) THEN "MustBeTrue" ELSE "MayBeFalse"}

\* IncompleteSolver::computeValidity.
primaryValidity(t, f) ==
  CASE t = "MustBeTrue" -> "MustBeTrue"
    [] t # "MustBeTrue" /\ f = "MustBeTrue" -> "MustBeFalse"
    [] t = "MayBeFalse" /\ f = "MayBeFalse" -> "TrueOrFalse"
    [] t = "MayBeFalse" /\ f = "None" -> "MayBeFalse"
    [] t = "None" /\ f = "MayBeFalse" -> "MayBeTrue"
    [] OTHER -> "None"

stagedTruth(c, e, st) ==
  IF ~ options.fast THEN coreTruth(c, e, st)
  ELSE UNION {IF p # "None" THEN {success(p = "MustBeTrue", st)} ELSE coreTruth(c, e, st) :
                p \in primaryTruth(c, e)}

\* What is left to find out after a partial answer, from the truth of the query or of its
\* negation.
settled(p, st, truth, truthOfNegation, validity) ==
  CASE p = "MustBeTrue" -> {success("True", st)}
    [] p = "MustBeFalse" -> {success("False", st)}
    [] p = "TrueOrFalse" -> {success("Unknown", st)}
    [] p = "MayBeTrue" -> {IF r.ok THEN success(IF r.res THEN "True" ELSE "Unknown", r.st) ELSE r :
                             r \in truth}
    [] p = "MayBeFalse" -> {IF r.ok THEN success(IF r.res THEN "False" ELSE "Unknown", r.st) ELSE r :
                              r \in truthOfNegation}
    [] OTHER -> validity

stagedValidity(c, e, st) ==
  IF ~ options.fast THEN coreValidity(c, e, st)
  ELSE UNION {settled(primaryValidity(t, f), st, coreTruth(c, e, st), coreTruth(c, Negated[e], st),
                      coreValidity(c, e, st)) :
                t \in primaryTruth(c, e), f \in primaryTruth(c, Negated[e])}

stagedInitialValues(c, e, objects, st) ==
  (IF options.fast THEN runAndGetCex(c, e, objects, st) ELSE {})
    \cup coreInitialValues(c, e, objects, st)

-----------------------------------------------------------------------------
\* MapOfSets: a tree whose paths are the sets, in order.

EmptyNode == [isEndOfSet |-> FALSE, value |-> {}, children |-> <<>>]

found(v) == [found |-> TRUE, value |-> v]

missing == [found |-> FALSE, value |-> {}]

position(e) == CHOOSE i \in DOMAIN Exprs : Exprs[i] = e

ordered(set) == SelectSeq(Exprs, LAMBDA e : e \in set)

child(n, e) == IF e \in DOMAIN n.children THEN n.children[e] ELSE EmptyNode

RECURSIVE insertAt(_, _, _)
insertAt(n, rest, v) ==
  IF rest = <<>> THEN [n EXCEPT !.isEndOfSet = TRUE, !.value = v]
  ELSE LET e == Head(rest)
       IN [n EXCEPT !.children = [x \in DOMAIN n.children \cup {e} |->
             IF x = e THEN insertAt(child(n, e), Tail(rest), v) ELSE n.children[x]]]

insert(n, set, v) == insertAt(n, ordered(set), v)

RECURSIVE lookupAt(_, _)
lookupAt(n, rest) ==
  IF rest = <<>> THEN (IF n.isEndOfSet THEN found(n.value) ELSE missing)
  ELSE IF Head(rest) \notin DOMAIN n.children THEN missing
  ELSE lookupAt(n.children[Head(rest)], Tail(rest))

lookup(n, set) == lookupAt(n, ordered(set))

\* The predicates on the values: NullAssignment, NonNullAssignment,
\* NullOrSatisfyingAssignment.
matches(p, v, key) ==
  CASE p = "null" -> v = {}
    [] p = "nonnull" -> v # {}
    [] p = "nullOrSatisfying" -> \A a \in v : satisfies(a, key)

firstFound(results) ==
  IF \E i \in DOMAIN results : results[i].found
  THEN results[Min({i \in DOMAIN results : results[i].found})]
  ELSE missing

\* The elements of the set that a child continues are tried in order.
RECURSIVE findSubset(_, _, _, _)
findSubset(n, rest, p, key) ==
  IF n.isEndOfSet /\ matches(p, n.value, key) THEN found(n.value)
  ELSE firstFound([i \in DOMAIN rest |->
         IF rest[i] \in DOMAIN n.children
         THEN findSubset(n.children[rest[i]], SubSeq(rest, i + 1, Len(rest)), p, key)
         ELSE missing])

\* All children are tried with the set as it is, then the one for its first element.
RECURSIVE findSuperset(_, _, _, _)
findSuperset(n, rest, p, key) ==
  LET kids == ordered(DOMAIN n.children)
      below == firstFound([i \in DOMAIN kids |-> findSuperset(n.children[kids[i]], rest, p, key)])
  IN IF rest = <<>> /\ n.isEndOfSet /\ matches(p, n.value, key) THEN found(n.value)
     ELSE IF rest = <<>> \/ below.found THEN below
     ELSE IF Head(rest) \in DOMAIN n.children
          THEN findSuperset(n.children[Head(rest)], Tail(rest), p, key)
     ELSE missing

-----------------------------------------------------------------------------
\* CexCachingSolver: counterexamples by the set of constraints and the negated query.

searchForAssignment(key, st) ==
  LET exact == lookup(st.tree, key)
      super == findSuperset(st.tree, ordered(key), "nonnull", key)
      sub == findSubset(st.tree, ordered(key),
                        IF options.tryAll THEN "null" ELSE "nullOrSatisfying", key)
      known == {a \in st.table : satisfies(a, key)}
  IN IF exact.found THEN {exact}
     ELSE IF super.found THEN {super}
     ELSE IF sub.found THEN {sub}
     ELSE IF options.tryAll /\ known # {} THEN {found({a}) : a \in known}
     ELSE {missing}

keyOf(c, e) == c \cup ({Negated[e]} \ {"true"})

\* A query for true has no counterexample.
lookupAssignment(c, e, st) ==
  IF Negated[e] = "false" THEN {found({})} ELSE searchForAssignment(keyOf(c, e), st)

remembered(key, r) ==
  [r EXCEPT !.st = [@ EXCEPT !.table = @ \cup r.res, !.tree = insert(@, key, r.res)]]

getAssignment(c, e, st) ==
  UNION {IF l.found THEN {success(l.value, st)}
         ELSE {IF r.ok THEN remembered(keyOf(c, e), r) ELSE r :
                 r \in stagedInitialValues(c, e, arraysOf(keyOf(c, e)), st)} :
           l \in lookupAssignment(c, e, st)}

cexTruth(c, e, st) ==
  LET refuted == options.experimental
                 /\ \E l \in lookupAssignment(c, Negated[e], st) : l.found /\ l.value = {}
  IN IF refuted THEN {failure(st)}
     ELSE {IF r.ok THEN success(r.res = {}, r.st) ELSE r : r \in getAssignment(c, e, st)}

\* The constraints' own assignment tells which of the two answers is still open.
cexValidity(c, e, st) ==
  UNION {IF ~ r.ok THEN {r}
         ELSE LET holds == \A a \in r.res : evaluate(a, e)
                  q == IF holds THEN e ELSE Negated[e]
              IN {IF ~ f.ok THEN f
                  ELSE IF f.res # {} THEN success("Unknown", f.st)
                  ELSE success(IF holds THEN "True" ELSE "False", f.st) :
                    f \in getAssignment(c, q, r.st)} : r \in getAssignment(c, "false", st)}

cexValue(c, e, st) ==
  {IF r.ok THEN success(\A a \in r.res : evaluate(a, e), r.st) ELSE r :
     r \in getAssignment(c, "false", st)}

cexInitialValues(c, e, objects, st) ==
  {IF r.ok THEN success({[x \in objects |-> completed(a)[x]] : a \in r.res}, r.st) ELSE r :
     r \in getAssignment(c, e, st)}

-----------------------------------------------------------------------------
\* CachingSolver: partial validities by the constraints and the smaller of the query and
\* its negation.

negationUsed(e) == position(e) >= position(Negated[e])

canonicalizeQuery(e) == IF negationUsed(e) THEN Negated[e] ELSE e

negatePartialValidity(p) ==
  CASE p = "MustBeTrue" -> "MustBeFalse"
    [] p = "MustBeFalse" -> "MustBeTrue"
    [] p = "MayBeTrue" -> "MayBeFalse"
    [] p = "MayBeFalse" -> "MayBeTrue"
    [] OTHER -> p

oriented(e, p) == IF negationUsed(e) THEN negatePartialValidity(p) ELSE p

entryOf(c, e) == <<c, canonicalizeQuery(e)>>

cacheLookup(c, e, st) ==
  IF entryOf(c, e) \in DOMAIN st.cache THEN oriented(e, st.cache[entryOf(c, e)]) ELSE "None"

\* An entry that is there stays as it is.
cacheInsert(c, e, p, st) ==
  IF entryOf(c, e) \in DOMAIN st.cache THEN st
  ELSE [st EXCEPT !.cache = [x \in DOMAIN @ \cup {entryOf(c, e)} |->
                               IF x \in DOMAIN @ THEN @[x] ELSE oriented(e, p)]]

partial(v) == CASE v = "True" -> "MustBeTrue" [] v = "False" -> "MustBeFalse" [] OTHER -> "TrueOrFalse"

cachingValidity(c, e, st) ==
  {IF r.ok THEN success(r.res, cacheInsert(c, e, partial(r.res), r.st)) ELSE r :
     r \in settled(cacheLookup(c, e, st), st, cexTruth(c, e, st), cexTruth(c, Negated[e], st), cexValidity(c, e, st))}

cachingTruth(c, e, st) ==
  LET hit == cacheLookup(c, e, st)
      learned(valid) == IF valid THEN "MustBeTrue"
                        ELSE IF hit = "MayBeTrue" THEN "TrueOrFalse" ELSE "MayBeFalse"
  IN IF hit \notin {"None", "MayBeTrue"} THEN {success(hit = "MustBeTrue", st)}
     ELSE {IF r.ok THEN success(r.res, cacheInsert(c, e, learned(r.res), r.st)) ELSE r :
             r \in cexTruth(c, e, st)}

-----------------------------------------------------------------------------
\* IndependentSolver: the constraints the query depends on.

elements(e) == [at |-> {x \in ReadsElement[e] : x[1] \notin ReadsWhole[e]}, whole |-> ReadsWhole[e]]

intersects(s, t) ==
  \/ s.at \cap t.at # {}
  \/ s.whole \cap (t.whole \cup {x[1] : x \in t.at}) # {}
  \/ t.whole \cap {x[1] : x \in s.at} # {}

addElements(s, t) ==
  LET whole == s.whole \cup t.whole
  IN [at |-> {x \in s.at \cup t.at : x[1] \notin whole}, whole |-> whole]

\* One pass over the constraints not yet taken.
pass(s, e) == IF intersects(elements(e), s.closure)
              THEN [s EXCEPT !.closure = addElements(@, elements(e)), !.taken = @ \cup {e}] ELSE s

\* A single pass: a constraint that the first ones in line depend on comes too late.
onePass(s, c) == FoldLeft(pass, s, ordered(c \ s.taken))

RECURSIVE closure(_, _)
closure(s, c) ==
  LET t == FoldLeft(pass, s, ordered(c \ s.taken))
  IN IF t.closure = s.closure THEN t ELSE closure(t, c)

getIndependentConstraints(c, e) == closure([closure |-> elements(e), taken |-> {}], c).taken

required(c, e) == IF options.independent THEN getIndependentConstraints(c, e) ELSE c

independentTruth(c, e, st) == cachingTruth(required(c, e), e, st)

independentValidity(c, e, st) == cachingValidity(required(c, e), e, st)

independentValue(c, e, st) == cexValue(required(c, e), e, st)

-----------------------------------------------------------------------------
\* ValidatingSolver: an answer the core solver does not share is an assertion failure.

\* right: the answers it does share.
checked(results, right) ==
  IF ~ options.validate THEN results
  ELSE {IF r.ok THEN [r EXCEPT !.agreed = r.res \in right] ELSE r : r \in results}
         \cup (IF options.forked THEN {failure(r.st) : r \in results} ELSE {})

valueOf(c, e) == IF Valid(c, e) THEN "True" ELSE IF Valid(c, Negated[e]) THEN "False" ELSE "Unknown"

computeTruth(c, e, st) ==
  checked(independentTruth(c, e, st), {Valid(c, e)})

computeValidity(c, e, st) ==
  checked(independentValidity(c, e, st), {valueOf(c, e)})

computeValue(c, e, st) ==
  checked(independentValue(c, e, st), {v \in BOOLEAN : ~ Valid(c, IF v THEN Negated[e] ELSE e)})

\* The values are constraints of the query that is validated.
computeInitialValues(c, e, objects, st) ==
  LET bound(a, x) == \A y \in objects : a[y] = x[y]
      agrees(v) == IF v = {} THEN Valid(c, e)
                   ELSE \A a \in v : \A b \in Assignments : bound(a, b) => b \in solutions(c, e)
      validated(results) ==
        checked(results, {v \in {r.res : r \in {q \in results : q.ok}} : agrees(v)})
  IN validated(cexInitialValues(c, e, objects, st))

-----------------------------------------------------------------------------
\* The interface of Solver, as TimingSolver calls it.

\* simplifyExpr on an expression that is a constraint, or the negation of one.
simplified(c, e) == IF e \in c THEN "true" ELSE IF Negated[e] \in c THEN "false" ELSE e

mustBeTrue(c, e, st) ==
  LET s == simplified(c, e)
  IN IF isConstant(s) THEN {success(s = "true", st)} ELSE computeTruth(c, s, st)

mayBeTrue(c, e, st) ==
  {IF r.ok THEN [r EXCEPT !.res = ~ @] ELSE r : r \in mustBeTrue(c, Negated[e], st)}

evaluateQuery(c, e, st) ==
  LET s == simplified(c, e)
  IN IF isConstant(s) THEN {success(IF s = "true" THEN "True" ELSE "False", st)}
     ELSE computeValidity(c, s, st)

getValue(c, e, st) ==
  LET s == simplified(c, e)
  IN IF isConstant(s) THEN {success(s = "true", st)} ELSE computeValue(c, s, st)

\* Values for the arrays, from the constraints.
getInitialValues(c, objects, st) ==
  {IF r.ok /\ r.res = {} THEN failure(r.st) ELSE r : r \in computeInitialValues(c, "false", objects, st)}

Ask(op, c, e) ==
  /\ asked < MaxAsked
  /\ asked' = asked + 1
  /\ \E r \in CASE op = "mustBeTrue" -> mustBeTrue(c, e, caches)
                [] op = "mayBeTrue" -> mayBeTrue(c, e, caches)
                [] op = "evaluate" -> evaluateQuery(c, e, caches)
                [] op = "getValue" -> getValue(c, e, caches)
                [] op = "getInitialValues" -> getInitialValues(c, arraysOf(c \cup {e}), caches) :
       /\ caches' = r.st
       /\ answer' = IF r.ok THEN [op |-> op, c |-> c, e |-> e, ok |-> TRUE, agreed |-> r.agreed, res |-> r.res]
                     ELSE [op |-> op, c |-> c, e |-> e, ok |-> FALSE]
  /\ UNCHANGED options

\* Solver::getRange.  The solver is asked about the set of possible values.
RECURSIVE search(_, _, _)
search(lo, hi, down) ==
  IF lo >= hi THEN lo
  ELSE LET mid == lo + (hi - lo) \div 2
       IN IF mid \in down THEN search(lo, mid, down) ELSE search(mid + 1, hi, down)

getRange(values) ==
  LET bits == search(0, RangeBits, {m \in 0 .. RangeBits : \A v \in values : v \div 2^m = 0})
      top == 2^bits - 1
      min == IF 0 \in values THEN 0
             ELSE search(0, top, {m \in 0 .. top : \E v \in values : v <= m})
  IN <<min, search(min, top, {m \in 0 .. top : \A v \in values : v <= m})>>

AskRange(values) ==
  /\ asked = 0
  /\ asked' = MaxAsked
  /\ answer' = [op |-> "getRange", c |-> values, ok |-> TRUE, agreed |-> TRUE, res |-> getRange(values)]
  /\ UNCHANGED <<options, caches>>

SolverInit ==
  /\ options \in [independent : BOOLEAN, fast : BOOLEAN, tryAll : BOOLEAN, experimental : BOOLEAN,
                  validate : BOOLEAN, forked : BOOLEAN, metaSMT : BOOLEAN]
  /\ Cardinality({o \in DOMAIN options \ {"forked"} : options[o] # (o = "independent")}) <= 1
  /\ options.forked => options.independent
  /\ caches = [tree |-> EmptyNode, table |-> {}, cache |-> <<>>]
  /\ asked = 0
  /\ answer = [op |-> "none", ok |-> FALSE]

SolverNext ==
  \/ \E op \in {"mustBeTrue", "mayBeTrue", "evaluate", "getValue", "getInitialValues"},
        c \in Paths, e \in Range(Exprs) \ {"true", "false"} : Ask(op, c, e)
  \/ \E values \in (SUBSET (0 .. 2^RangeBits - 1)) \ {{}} : AskRange(values)

SolverSpec == SolverInit /\ [][SolverNext]_solverVars

-----------------------------------------------------------------------------
\* Whatever the caches took from earlier queries, under other constraints and after
\* failures, and whichever layers there are: an answer is the right one for the query.
SolverRight ==
  answer.ok =>
    /\ answer.agreed
    /\ LET c == answer.c
           r == answer.res
       IN CASE answer.op = "mustBeTrue" -> r = Valid(c, answer.e)
         [] answer.op = "mayBeTrue" -> r = (~ Valid(c, Negated[answer.e]))
         [] answer.op = "evaluate" -> r = valueOf(c, answer.e)
         [] answer.op = "getValue" -> ~ Valid(c, IF r THEN Negated[answer.e] ELSE answer.e)
         [] answer.op = "getInitialValues" ->
              \A a \in r : \E b \in solutions(c, "false") : \A x \in DOMAIN a : a[x] = b[x]
         [] answer.op = "getRange" -> r = <<Min(c), Max(c)>>

\* A query fails only when the core solver failed: the layers above it lose no answer,
\* except for cex-cache-exp, which gives up on a query it has refuted.
FailsWithCore ==
  answer.op # "none" /\ ~ answer.ok => options.forked \/ options.experimental

\* What the caches hold is true for ever: a counterexample in the tree satisfies its set, a
\* set without one is unsatisfiable, and a partial validity is one.
CachesSound ==
  LET RECURSIVE sound(_, _)
      sound(n, key) ==
        /\ n.isEndOfSet => IF n.value = {} THEN \A a \in Assignments : \E e \in key : a \notin Holds[e]
                           ELSE \A a \in n.value : satisfies(a, key)
        /\ \A e \in DOMAIN n.children : sound(n.children[e], key \cup {e})
      right(c, e, p) == CASE p = "MustBeTrue" -> Valid(c, e)
                          [] p = "MustBeFalse" -> Valid(c, Negated[e])
                          [] p = "MayBeTrue" -> ~ Valid(c, Negated[e])
                          [] p = "MayBeFalse" -> ~ Valid(c, e)
                          [] p = "TrueOrFalse" -> ~ Valid(c, e) /\ ~ Valid(c, Negated[e])
  IN /\ sound(caches.tree, {})
     /\ \A x \in DOMAIN caches.cache : right(x[1], x[2], caches.cache[x])
====
