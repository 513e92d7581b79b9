----------------------------- MODULE Expressions -----------------------------
(* Expressions and the two ways they are built: the create functions of      *)
(* Expr.cpp (CanonicalExprs) and the builders of ExprBuilder.cpp.  A         *)
(* behaviour builds one expression call by call, with other expressions as   *)
(* operands, and keeps the value the calls stand for beside it.              *)
EXTENDS CanonicalExprs

CONSTANTS Env,             \* assignments of the symbolic array
          Widths,          \* widths expressions are extended to
          MaxCalls         \* bound: calls that build the expression

VARIABLES builder,   \* which create functions are called
          e,         \* the expression built so far
          value,     \* its value by the meaning of the calls, per assignment
          n          \* number of calls

exprVars == <<builder, e, value, n>>

-----------------------------------------------------------------------------
\* The builders of ExprBuilder.cpp.  "default" allocates; "folding" works on top of it,
\* "simplifying" on top of "folding".

base(b) == IF b = "simplifying" THEN "folding" ELSE "default"

RECURSIVE build(_, _, _, _)

RECURSIVE buildNot(_, _)
buildNot(b, x) ==
  IF b = "default" THEN allocNot(x)
  ELSE IF x.k = "Not" THEN x.kid[1]
  ELSE IF isConst(x) THEN foldNot(x)
  ELSE IF b = "simplifying" /\ x.k = "Or"
       THEN build(b, "And", buildNot(b, x.kid[1]), buildNot(b, x.kid[2]))
  ELSE buildNot(base(b), x)

\* ConstantFoldingBuilder::Add.
foldingAddC(c, x) ==
  LET kid(i) == x.kid[i]
      is(k, i) == x.k = k /\ isConst(x.kid[i])
      plus == foldBinary("Add", c, kid(1))
  IN IF isZero(c) THEN x
     ELSE IF is("Add", 1) THEN build("folding", "Add", plus, kid(2))
     ELSE IF is("Add", 2) THEN build("folding", "Add", foldBinary("Add", c, kid(2)), kid(1))
     ELSE IF is("Sub", 1) THEN build("folding", "Sub", plus, kid(2))
     ELSE IF is("Sub", 2) THEN build("folding", "Add", foldBinary("Sub", c, kid(2)), kid(1))
     ELSE alloc("Add", c, x)

foldingAdd(l, r) ==
  LET is(k, i) == r.k = k /\ isConst(r.kid[i])
      add(x, y) == build("folding", "Add", x, y)
      sub(x, y) == build("folding", "Sub", x, y)
  IN IF l.k = "Add" THEN add(l.kid[1], add(l.kid[2], r))
     ELSE IF l.k = "Sub" THEN add(l.kid[1], sub(r, l.kid[2]))
     ELSE IF is("Add", 1) THEN add(r.kid[1], add(l, r.kid[2]))
     ELSE IF is("Add", 2) THEN add(r.kid[2], add(l, r.kid[1]))
     ELSE IF is("Sub", 1) THEN add(r.kid[1], sub(l, r.kid[2]))
     ELSE IF is("Sub", 2) THEN add(Neg(r.kid[2]), add(l, r.kid[1]))
     ELSE alloc("Add", l, r)

\* ConstantFoldingBuilder::Sub.
foldingSubC(c, x) ==
  LET is(k, i) == x.k = k /\ isConst(x.kid[i])
      less(i) == foldBinary("Sub", c, x.kid[i])
  IN IF is("Add", 1) THEN build("folding", "Sub", less(1), x.kid[2])
     ELSE IF is("Add", 2) THEN build("folding", "Sub", less(2), x.kid[1])
     ELSE IF is("Sub", 1) THEN build("folding", "Add", less(1), x.kid[2])
     ELSE IF is("Sub", 2) THEN build("folding", "Sub", foldBinary("Add", c, x.kid[2]), x.kid[1])
     ELSE alloc("Sub", c, x)

foldingSub(l, r) ==
  LET is(k, i) == r.k = k /\ isConst(r.kid[i])
      add(x, y) == build("folding", "Add", x, y)
      sub(x, y) == build("folding", "Sub", x, y)
  IN IF l.k = "Add" THEN add(l.kid[1], sub(l.kid[2], r))
     ELSE IF l.k = "Sub" THEN sub(l.kid[1], add(l.kid[2], r))
     ELSE IF is("Add", 1) THEN add(Neg(r.kid[1]), sub(l, r.kid[2]))
     ELSE IF is("Add", 2) THEN add(Neg(r.kid[2]), sub(l, r.kid[1]))
     ELSE IF is("Sub", 1) THEN add(Neg(r.kid[1]), add(l, r.kid[2]))
     ELSE IF is("Sub", 2) THEN add(r.kid[2], sub(l, r.kid[1]))
     ELSE alloc("Sub", l, r)

\* Mul, And, Or and Xor with a constant, which comes to stand on the left.
foldingBitsC(k, c, x) ==
  IF isZero(c) THEN (IF k \in {"Mul", "And"} THEN c ELSE x)
  ELSE IF k = "Mul" /\ isOne(c) THEN x
  ELSE IF k = "And" /\ isAllOnes(c) THEN x
  ELSE IF k = "Or" /\ isAllOnes(c) THEN c
  ELSE alloc(k, c, x)

\* Eq of both builders, with a constant.
builderEqC(b, c, x) ==
  IF c = True THEN x
  ELSE IF c = False THEN buildNot(base(b), x)
  ELSE build(base(b), "Eq", c, x)

foldingBinary(k, l, r) ==
  LET c == IF isConst(l) THEN l ELSE r     \* the constant, if there is one
      x == IF isConst(l) THEN r ELSE l
      mixed == isConst(l) \/ isConst(r)
  IN CASE k = "Add" -> IF mixed THEN foldingAddC(c, x) ELSE foldingAdd(l, r)
       [] k = "Sub" -> IF isConst(l) THEN foldingSubC(l, r)
                       ELSE IF isConst(r) THEN foldingAddC(Neg(r), l)
                       ELSE foldingSub(l, r)
       [] k \in {"Mul", "And", "Or", "Xor"} /\ mixed -> foldingBitsC(k, c, x)
       [] k = "Eq" /\ mixed -> builderEqC("folding", c, x)
       [] OTHER -> alloc(k, l, r)

simplifyingBinary(k, l, r) ==
  CASE k = "Eq" -> IF isConst(l) THEN builderEqC("simplifying", l, r)
                   ELSE IF isConst(r) THEN builderEqC("simplifying", r, l)
                   ELSE IF l = r THEN True
                   ELSE build("folding", "Eq", l, r)
    [] k = "Ne" -> buildNot("simplifying", build("simplifying", "Eq", l, r))
    [] k \in {"Ugt", "Uge", "Sgt", "Sge"} -> build("simplifying", turned(k), r, l)
    [] OTHER -> build("folding", k, l, r)

\* ConstantSpecializedExprBuilder: constants are folded before a builder is asked.
specializedArith(b, k, l, r) ==
  IF isConst(l) /\ isConst(r) THEN foldBinary(k, l, r)
  ELSE IF b = "folding" THEN foldingBinary(k, l, r)
  ELSE simplifyingBinary(k, l, r)

build(b, k, l, r) == IF b = "default" THEN alloc(k, l, r) ELSE specializedArith(b, k, l, r)

\* Reads: the builders drop the newest writes that are known to go elsewhere.
RECURSIVE rolledBack(_, _, _)
rolledBack(b, updates, index) ==
  IF updates = <<>> \/ build(b, "Eq", index, Head(updates).index) # False THEN updates
  ELSE rolledBack(b, Tail(updates), index)

buildRead(b, arr, updates, index) ==
  allocRead(arr, IF b = "default" THEN updates ELSE rolledBack(b, updates, index), index)

buildSelect(b, c, t, f) ==
  IF b # "default" /\ isConst(c) THEN (IF c = True THEN t ELSE f) ELSE allocSelect(c, t, f)

buildConcat(b, l, r) ==
  IF b # "default" /\ isConst(l) /\ isConst(r) THEN foldConcat(l, r) ELSE allocConcat(l, r)

buildExtract(b, x, off, w) ==
  IF b # "default" /\ isConst(x) THEN foldExtract(x, off, w) ELSE allocExtract(x, off, w)

buildExt(b, k, x, w) == IF b # "default" /\ isConst(x) THEN foldExt(k, x, w) ELSE allocExt(k, x, w)

-----------------------------------------------------------------------------
\* The calls.  Expr.cpp is the builder "create".

binary(k, l, r) == IF builder = "create" THEN create(k, l, r) ELSE build(builder, k, l, r)

read(arr, updates, index) ==
  IF builder = "create" THEN createRead(arr, updates, updates, index)
  ELSE buildRead(builder, arr, updates, index)

select(c, t, f) == IF builder = "create" THEN createSelect(c, t, f) ELSE buildSelect(builder, c, t, f)

concat(l, r) == IF builder = "create" THEN createConcat(l, r) ELSE buildConcat(builder, l, r)

extract(x, off, w) ==
  IF builder = "create" THEN createExtract(x, off, w) ELSE buildExtract(builder, x, off, w)

ext(k, x, w) == IF builder = "create" THEN createExt(k, x, w) ELSE buildExt(builder, k, x, w)

not(x) == IF builder = "create" THEN createNot(x) ELSE buildNot(builder, x)

-----------------------------------------------------------------------------
\* Operands of the calls: constants, reads x and y of the symbolic array, sums and
\* differences of them, conditions.

\* Built by the functions the behaviour is about ...
Canonical == {at(1), at(3), x0, y0, alloc("Add", at(1), x0), alloc("Sub", at(2), y0)}

\* ... or, for a builder, by the default builder before it.
Raw == {at(1), x0, y0, alloc("Add", at(1), x0), alloc("Add", x0, at(1)), alloc("Sub", x0, at(1)),
        alloc("Add", y0, x0)}

Conditions == {True, False, alloc("Ult", x0, y0), alloc("Eq", at(1), x0)}

Operands == Conditions \cup (IF builder = "create" THEN Canonical ELSE Raw)

\* After the first call the operands are fewer.
Later == {at(1), x0, alloc("Ult", x0, y0)}

operands == IF n = 0 THEN Operands ELSE Later

\* The updates a read goes through: the expression is written over an older write.
writesOf(x) == {<<[index |-> i, value |-> x], [index |-> at(0), value |-> y0]>> :
                  i \in {at(0), at(1), y0}}

lift(k, a, b, w) ==
  IF a = Undef \/ b = Undef \/ (k \in DivKinds /\ b = 0) THEN Undef ELSE apply(k, a, b, w)

ExprInit ==
  /\ builder \in {"create", "folding", "simplifying"}
  /\ e \in Operands
  /\ value = [env \in Env |-> eval(e, env)]
  /\ n = 0

call(x, val(_)) ==
  /\ n < MaxCalls
  /\ n' = n + 1
  /\ e' = x
  /\ value' = [env \in Env |-> val(env)]
  /\ UNCHANGED builder

\* The expression as the left or the right operand; a divisor is never the constant 0.
Binary(k, o) ==
  /\ o.w = e.w
  /\ \/ /\ ~ (k \in DivKinds /\ isZero(o))
        /\ LET val(env) == lift(k, value[env], eval(o, env), e.w) IN call(binary(k, e, o), val)
     \/ /\ ~ (k \in DivKinds /\ isZero(e))
        /\ LET val(env) == lift(k, eval(o, env), value[env], e.w) IN call(binary(k, o, e), val)

Complement ==
  LET val(env) == IF value[env] = Undef THEN Undef ELSE 2^(e.w) - 1 - value[env]
  IN call(not(e), val)

\* ZExt and SExt of Expr.cpp also truncate; the builders only extend.
Extend(k, w) ==
  LET val(env) == IF value[env] = Undef THEN Undef
                  ELSE IF w > e.w THEN extend(value[env], e.w, w, k)
                  ELSE value[env] % 2^w
  IN /\ builder = "create" \/ w > e.w
     /\ call(ext(k, e, w), val)

Extract(off, w) ==
  LET val(env) == IF value[env] = Undef THEN Undef ELSE (value[env] \div 2^off) % 2^w
  IN /\ off + w <= e.w
     /\ call(extract(e, off, w), val)

Concat(o) ==
  LET joined(a, b, w) == IF a = Undef \/ b = Undef THEN Undef ELSE a * 2^w + b
  IN \/ LET val(env) == joined(value[env], eval(o, env), o.w) IN call(concat(e, o), val)
     \/ LET val(env) == joined(eval(o, env), value[env], e.w) IN call(concat(o, e), val)

\* What memory makes of a value that is written and read back: its parts, joined again.
Rejoin ==
  LET val(env) == value[env]
  IN /\ builder = "create"
     /\ call(createN([i \in 1 .. e.w |-> createExtract(e, e.w - i, 1)]), val)

Implies(o) ==
  LET val(env) == IF value[env] = Undef \/ eval(o, env) = Undef THEN Undef
                  ELSE bool(value[env] = 1 => eval(o, env) = 1)
  IN /\ builder = "create" /\ e.w = 1 /\ o.w = 1
     /\ call(createImplies(e, o), val)

Hide ==
  LET val(env) == value[env] IN ~ isConst(e) /\ call(NotOptimized(e), val)

\* The expression as the condition or as a choice.
Select(c, o) ==
  \/ /\ e.w = 1
     /\ LET val(env) == IF value[env] = Undef THEN Undef
                        ELSE IF value[env] = 1 THEN eval(o, env) ELSE eval(x0, env)
        IN o.w = ElemWidth /\ call(select(e, o, x0), val)
  \/ /\ c.w = 1 /\ o.w = e.w
     /\ LET val(env) == IF eval(c, env) = 1 THEN value[env] ELSE eval(o, env)
        IN call(select(c, e, o), val)
  \/ /\ c.w = 1 /\ o.w = e.w
     /\ LET val(env) == IF eval(c, env) = 1 THEN eval(o, env) ELSE value[env]
        IN call(select(c, o, e), val)

\* The expression as the index of a read, or as the value a read may find.
Read(arr, updates, index) ==
  LET val(env) == LET i == eval(index, env)
                  IN IF i = Undef THEN Undef ELSE evalRead(arr, updates, i, env)
  IN call(read(arr, updates, index), val)

Reads ==
  /\ e.w = ElemWidth
  /\ \/ \E arr \in {"constant", "symbolic"} : Read(arr, <<>>, e)
     \/ \E updates \in writesOf(x0) : Read("symbolic", updates, e)
     \/ \E updates \in writesOf(e), i \in {at(0), at(1), x0} : Read("symbolic", updates, i)

ExprNext ==
  \/ \E k \in BinaryKinds, o \in operands : Binary(k, o)
  \/ Complement
  \/ \E k \in {"ZExt", "SExt"}, w \in Widths : Extend(k, w)
  \/ \E w \in Widths, off \in 0 .. ElemWidth : Extract(off, w)
  \/ \E o \in operands : Concat(o) \/ Implies(o)
  \/ Rejoin \/ Hide
  \/ \E c \in Conditions, o \in operands : Select(c, o)
  \/ Reads

ExprSpec == ExprInit /\ [][ExprNext]_exprVars

-----------------------------------------------------------------------------
\* Whatever was folded, cancelled, moved or rolled back, the expression built has, under
\* every assignment the calls give a value for, that value.
BuiltRight == \A env \in Env : value[env] # Undef => eval(e, env) = value[env]

\* The canonical form Expr.h promises of the create functions, as far as the code keeps it:
\* no operation on constants only; comparisons are Eq, Ult, Ule, Slt, Sle and of Booleans
\* only Eq; no arithmetic on Booleans; a constant of Add, Sub, Mul, Xor and Eq is on the
\* left (And and Or keep it on the right); a sum has no linear part below its root.
RECURSIVE canonical(_)
canonical(x) ==
  \/ isConst(x)
  \/ /\ \A i \in DOMAIN x.kid : canonical(x.kid[i])
     /\ x.k # "Read" => \E i \in DOMAIN x.kid : ~ isConst(x.kid[i])
     /\ x.k \notin {"Ne", "Ugt", "Uge", "Sgt", "Sge"}
     /\ x.k \in {"Add", "Sub", "Mul", "Eq", "Xor"} => ~ isConst(x.kid[2])
     /\ x.k \in {"And", "Or"} => ~ isConst(x.kid[1])
     /\ x.k \in {"Add", "Sub"} => \A i \in {1, 2} : \A k \in {"Add", "Sub"} : ~ linear(x.kid[i], k)
     /\ x.k \in (ArithKinds \cup CmpKinds) \ {"Eq"} => x.kid[1].w > 1
     /\ x.k = "Eq" => x.kid[1] # True

CanonicalForm == builder = "create" => canonical(e)
====
