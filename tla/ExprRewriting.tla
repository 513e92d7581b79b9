---------------------------- MODULE ExprRewriting ----------------------------
(* Visitors that rewrite expressions (ExprVisitor.cpp) and what rests on     *)
(* them: evaluation under an assignment (ExprEvaluator.cpp, Assignment.h),   *)
(* the constraints of a path, which rewrite each other (Constraints.cpp),    *)
(* the values a condition implies (ImpliedValue.cpp) and the reads and       *)
(* arrays of an expression (ExprUtil.cpp).  A behaviour builds conditions    *)
(* with the create functions and adds them to the constraints of one path.   *)
(* A visitor's table of visited expressions is left out: its visits have no  *)
(* state besides.                                                            *)
EXTENDS Expressions, FiniteSetsExt

CONSTANTS ArraySize,       \* elements of the symbolic array; indices may go beyond
          MaxConstraints   \* bound: conditions added to the path

VARIABLES constraints,  \* ConstraintManager::constraints, or Failed
          held          \* the assignments that satisfy every condition added

rewriteVars == <<exprVars, constraints, held>>

Failed == <<False>>     \* the assertion "attempt to add invalid (false) constraint"

-----------------------------------------------------------------------------
\* The rebuild function of each kind.
rebuild(x, kids) ==
  CASE x.k = "Read" -> createRead(x.arr, x.updates, x.updates, kids[1])
    [] x.k = "Select" -> createSelect(kids[1], kids[2], kids[3])
    [] x.k = "Concat" -> createConcat(kids[1], kids[2])
    [] x.k = "Extract" -> createExtract(kids[1], x.off, x.w)
    [] x.k \in {"ZExt", "SExt"} -> createExt(x.k, kids[1], x.w)
    [] x.k = "Not" -> createNot(kids[1])
    [] x.k = "NotOptimized" -> NotOptimized(kids[1])
    [] OTHER -> create(x.k, kids[1], kids[2])

\* DoChildren of visitActual.
withKids(x, kids) == IF kids = x.kid THEN x ELSE rebuild(x, kids)

\* ExprEvaluator: reads are replaced by init, the expressions for the elements of the
\* symbolic array.  A write to an unknown index ends the search; a divisor that becomes
\* zero is left as it was.
RECURSIVE visitEval(_, _)
RECURSIVE visitUpdates(_, _, _, _)
visitUpdates(arr, updates, i, init) ==
  IF updates = <<>> THEN (IF arr = "constant" THEN at(ConstantValues[i + 1]) ELSE init[i])
  ELSE LET ui == visitEval(Head(updates).index, init)
       IN IF ~ isConst(ui) THEN createRead(arr, updates, updates, at(i))
          ELSE IF ui.v = i THEN visitEval(Head(updates).value, init)
          ELSE visitUpdates(arr, Tail(updates), i, init)

protectedDivOperation(x, kids) ==
  IF x.k \in DivKinds /\ isZero(kids[2]) THEN <<kids[1], x.kid[2]>> ELSE kids

visitEval(x, init) ==
  IF isConst(x) THEN x
  ELSE LET kids == protectedDivOperation(x, [i \in DOMAIN x.kid |-> visitEval(x.kid[i], init)])
       IN CASE x.k = "Read" /\ isConst(kids[1]) -> visitUpdates(x.arr, x.updates, kids[1].v, init)
            [] kids = x.kid /\ \E i \in DOMAIN kids : ~ isConst(kids[i]) -> x
            [] OTHER -> rebuild(x, kids)

initialRead(i) == allocRead("symbolic", <<>>, at(i))

\* Assignment::evaluate, for an assignment that binds the array: an element beyond its
\* size is 0, or is left free.
Indices == 0 .. 2^ElemWidth - 1

assigned(bytes, free) ==
  [i \in Indices |-> IF i < ArraySize THEN at(bytes[i]) ELSE IF free THEN initialRead(i) ELSE at(0)]

\* Assignment::satisfies.
satisfies(bytes, conds) ==
  \A i \in DOMAIN conds : visitEval(conds[i], assigned(bytes, FALSE)) = True

-----------------------------------------------------------------------------
\* ConstraintManager.

\* ExprReplaceVisitor: src becomes dst, also where rebuilding makes it appear.
RECURSIVE visitReplace(_, _, _)
visitReplace(x, src, dst) ==
  LET post(y) == IF y = src THEN dst ELSE y
  IN IF isConst(x) \/ x = src THEN post(x)
     ELSE post(withKids(x, [i \in DOMAIN x.kid |-> visitReplace(x.kid[i], src, dst)]))

\* ExprReplaceVisitor2: each key becomes its value; what was rebuilt is visited again.
RECURSIVE visitReplaceAll(_, _)
visitReplaceAll(x, replacements) ==
  LET kids == [i \in DOMAIN x.kid |-> visitReplaceAll(x.kid[i], replacements)]
      post(y) == IF y \in DOMAIN replacements THEN replacements[y] ELSE y
  IN IF isConst(x) THEN x
     ELSE post(IF kids = x.kid THEN x ELSE visitReplaceAll(rebuild(x, kids), replacements))

\* What a constraint says of an expression: <<expression, constant>>.
equality(c) == IF c.k = "Eq" /\ isConst(c.kid[1]) THEN <<c.kid[2], c.kid[1]>> ELSE <<c, True>>

equalities(cs) ==
  LET pairs == [i \in DOMAIN cs |-> equality(cs[i])]
      first(x) == Min({i \in DOMAIN cs : pairs[i][1] = x})
  IN [x \in {pairs[i][1] : i \in DOMAIN cs} |-> pairs[first(x)][2]]

simplifyExpr(cs, x) == IF isConst(x) THEN x ELSE visitReplaceAll(x, equalities(cs))

RECURSIVE addConstraintInternal(_, _)

\* The constraints of old, one after the other, behind those of cs.
RECURSIVE rewriteConstraints(_, _, _, _)
rewriteConstraints(cs, old, src, dst) ==
  LET with(x) == IF x # Head(old) THEN addConstraintInternal(cs, x) ELSE Append(cs, x)
  IN IF old = <<>> \/ cs = Failed THEN cs
     ELSE rewriteConstraints(with(visitReplace(Head(old), src, dst)), Tail(old), src, dst)

append(cs, x) == IF cs = Failed THEN Failed ELSE Append(cs, x)

addConstraintInternal(cs, x) ==
  CASE cs = Failed -> Failed
    [] isConst(x) -> IF x = True THEN cs ELSE Failed
    [] x.k = "And" -> addConstraintInternal(addConstraintInternal(cs, x.kid[1]), x.kid[2])
    [] x.k = "Eq" /\ isConst(x.kid[1]) -> append(rewriteConstraints(<<>>, cs, x.kid[2], x.kid[1]), x)
    [] OTHER -> append(cs, x)

\* Mutant: the constraints an equality rewrites are dropped when they change.
dropRewritten(cs, x) == addConstraintInternal(SelectSeq(cs, LAMBDA c : simplifyExpr(<<x>>, c) = c), x)

addConstraint(cs, x) == addConstraintInternal(cs, simplifyExpr(cs, x))

-----------------------------------------------------------------------------
\* ImpliedValue::getImpliedValues: the reads whose value follows from x having the value v.
\* The value passed on below Or is a null pointer (Null).  Its caller in the Executor,
\* doImpliedValueConcretization, aborts before it gets here.
Null == Const(0, 0)

RECURSIVE getImpliedValues(_, _)
getImpliedValues(x, v) ==
  LET below(i, c) == getImpliedValues(x.kid[i], c)
      left == isConst(x.kid[1])
  IN IF v = Null \/ isConst(x) THEN {}
     ELSE CASE x.k = "Read" -> {<<x, v>>}
            [] x.k = "Select" ->
                 IF isConst(x.kid[2]) /\ isConst(x.kid[3])
                 THEN below(1, IF v = x.kid[2] THEN True ELSE False)
                 ELSE {}
            [] x.k = "Concat" -> below(1, foldExtract(v, x.kid[2].w, x.kid[1].w))
                                   \cup below(2, foldExtract(v, 0, x.kid[2].w))
            [] x.k \in {"ZExt", "SExt"} -> below(1, foldExtract(v, 0, x.kid[1].w))
            [] x.k = "Add" /\ left -> below(2, foldBinary("Sub", v, x.kid[1]))
            [] x.k = "Sub" /\ left -> below(2, foldBinary("Sub", x.kid[1], v))
            [] x.k = "Xor" /\ left -> below(2, foldBinary("Xor", v, x.kid[1]))
            [] x.k = "And" /\ v = True -> below(1, v) \cup below(2, v)
            [] x.k = "Or" /\ isZero(v) -> below(1, Null) \cup below(2, Null)
            [] x.k = "Eq" /\ left /\ v = True -> below(2, x.kid[1])
            [] x.k = "Eq" /\ left /\ x.kid[1].w = 1 -> below(2, foldNot(x.kid[1]))
            [] OTHER -> {}

\* findReads: the reads of an expression; those of the writes too if visitUpdates.
RECURSIVE findReads(_, _)
findReads(x, writes) ==
  IF isConst(x) THEN {}
  ELSE UNION {findReads(x.kid[i], writes) : i \in DOMAIN x.kid}
         \cup (IF x.k # "Read" THEN {}
               ELSE {x} \cup (IF ~ writes THEN {}
                              ELSE UNION {findReads(x.updates[i].index, TRUE)
                                            \cup findReads(x.updates[i].value, TRUE) :
                                          i \in DOMAIN x.updates}))

\* findSymbolicObjects: the symbolic arrays an expression reads, written elements included.
findSymbolicObjects(x) == {r.arr : r \in findReads(x, TRUE)} \ {"constant"}

-----------------------------------------------------------------------------
\* Conditions are built, with fewer operands after the first call, and added; a condition is
\* added only if the path stays feasible, and nothing is divided by what may be zero on it.

\* A read behind a write to an unknown index, and a comparison that is always true.
written == allocRead("symbolic", <<[index |-> y0, value |-> at(1)]>>, at(0))

bounded == alloc("Ule", allocExt("ZExt", allocConcat(x0, y0), 5), Const(20, 5))

Starts == {x0, y0, alloc("Ult", x0, y0), alloc("Eq", at(1), x0), written, bounded}

Others == {at(0), at(1), x0, y0, alloc("Eq", at(2), y0), alloc("Eq", False, alloc("Ult", y0, x0))}

RewriteInit ==
  /\ builder = "create"
  /\ e \in Starts
  /\ value = [env \in Env |-> eval(e, env)]
  /\ n = 0
  /\ constraints = <<>>
  /\ held = Env

divisible(k, o) ==
  k \notin DivKinds \/ \A env \in held : value[env] # 0 /\ eval(o, env) # 0

Build ==
  /\ \/ /\ n = 0
        /\ \/ \E k \in {"Add", "Sub", "UDiv", "And", "Or", "Xor", "Eq", "Ne", "Ult", "Ule", "Slt"},
                 o \in Others : divisible(k, o) /\ Binary(k, o)
           \/ Complement \/ Reads
           \/ \E k \in {"ZExt", "SExt"}, w \in Widths : Extend(k, w)
           \/ \E o \in {x0, y0} : Concat(o)
           \/ \E c \in {alloc("Ult", x0, y0)}, o \in {at(0), y0} : Select(c, o)
     \/ /\ n > 0
        /\ \/ \E k \in {"Sub", "UDiv", "Eq", "Ult"}, o \in {at(1), y0} :
                 divisible(k, o) /\ Binary(k, o)
           \/ \E o \in {alloc("Eq", at(2), y0)} : Binary("Or", o)
           \/ Extract(0, 1)
  /\ UNCHANGED <<constraints, held>>

AddConstraint ==
  /\ e.w = 1 /\ ~ isConst(e)
  /\ Len(constraints) < MaxConstraints /\ n < MaxCalls
  /\ held' = {env \in held : value[env] = 1}
  /\ held' # {}
  /\ constraints' = addConstraint(constraints, e)
  /\ e' \in {x0, alloc("Eq", at(1), x0)}
  /\ value' = [env \in Env |-> eval(e', env)]
  /\ UNCHANGED <<builder, n>>

RewriteNext == Build \/ AddConstraint

RewriteSpec == RewriteInit /\ [][RewriteNext]_rewriteVars

-----------------------------------------------------------------------------
\* However the constraints were split, rewritten with each other's equalities and put in
\* another order, together they hold for exactly the assignments that satisfy every
\* condition added; no rewriting makes one of them false.
ConstraintsExact ==
  /\ constraints # Failed
  /\ \A env \in Env : env \in held <=> \A i \in DOMAIN constraints : eval(constraints[i], env) = 1

\* An expression simplified with the constraints keeps its value on the path.
SimplifiedRight ==
  LET same(s) == s.w = e.w /\ \A env \in held : eval(s, env) = value[env]
  IN same(simplifyExpr(constraints, e))

\* Evaluation under an assignment ends in the value of the expression, however much of it
\* is written and read back; an assignment satisfies the constraints iff it is one of the
\* path.
EvaluatedRight ==
  \A env \in Env :
    (\A i \in Indices : i >= ArraySize => env[i] = 0) =>
      /\ value[env] # Undef => visitEval(e, assigned(env, FALSE)) = Const(value[env], e.w)
      /\ satisfies(env, constraints) <=> env \in held

\* What a condition implies for a read holds under every assignment that satisfies it.
ImpliedRight ==
  \A v \in {0, 1} : e.w = 1 =>
    \A p \in getImpliedValues(e, Const(v, 1)) : \A env \in Env :
      value[env] = v => eval(p[1], env) = p[2].v

\* An expression without symbolic objects has one value; the reads found determine it.
ReadsDetermine ==
  LET reads == findReads(e, FALSE)
      same(r, a, b) == eval(r, a) = eval(r, b)
  IN \A a, b \in Env :
       \/ Undef \in {value[a], value[b]}
       \/ value[a] = value[b]
       \/ findSymbolicObjects(e) # {} /\ \E r \in reads : ~ same(r, a, b)
====
