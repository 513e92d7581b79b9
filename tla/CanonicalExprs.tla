--------------------------- MODULE CanonicalExprs ---------------------------
(* Bit-vector expressions (Expr.h), what they mean, and the create functions *)
(* of Expr.cpp, which bring them in a canonical form.                        *)
(*                                                                           *)
(* An expression is a record with its kind k, its width w in bits and its    *)
(* kids.  Read has the array and its updates, newest first.  Floating point  *)
(* (isFloat) is left out.  A division by zero has no value (Undef): the      *)
(* program is stopped at it before the expression is used.                   *)
EXTENDS Integers, Sequences, Bitwise

CONSTANTS ElemWidth,       \* width of an element of an array (Int8)
          ConstantValues,  \* the elements of the constant array
          ConstArrayOpt,   \* --const-array-opt
          MaxMatches       \* largest disjunction of TryConstArrayOpt

-----------------------------------------------------------------------------
\* The meaning of the kinds.

Undef == -1

ArithKinds == {"Add", "Sub", "Mul", "UDiv", "SDiv", "URem", "SRem"}

BitKinds == {"And", "Or", "Xor", "Shl", "LShr", "AShr"}

CmpKinds == {"Eq", "Ne", "Ult", "Ule", "Ugt", "Uge", "Slt", "Sle", "Sgt", "Sge"}

DivKinds == {"UDiv", "SDiv", "URem", "SRem"}

BinaryKinds == ArithKinds \cup BitKinds \cup CmpKinds

signed(v, w) == IF v >= 2^(w - 1) THEN v - 2^w ELSE v

abs(x) == IF x < 0 THEN -x ELSE x

quotient(x, y) == IF (x < 0) = (y < 0) THEN abs(x) \div abs(y) ELSE -(abs(x) \div abs(y))

bool(b) == IF b THEN 1 ELSE 0

apply(k, a, b, w) ==
  LET s == signed(a, w)
      t == signed(b, w)
      m == 2^w
  IN CASE k = "Add" -> (a + b) % m
       [] k = "Sub" -> (a - b) % m
       [] k = "Mul" -> (a * b) % m
       [] k = "UDiv" -> a \div b
       [] k = "URem" -> a % b
       [] k = "SDiv" -> quotient(s, t) % m
       [] k = "SRem" -> (s - t * quotient(s, t)) % m
       [] k = "And" -> a & b
       [] k = "Or" -> a | b
       [] k = "Xor" -> a ^^ b
       [] k = "Shl" -> IF b >= w THEN 0 ELSE (a * 2^b) % m
       [] k = "LShr" -> IF b >= w THEN 0 ELSE a \div 2^b
       [] k = "AShr" -> (s \div 2^(IF b >= w THEN w ELSE b)) % m
       [] k = "Eq" -> bool(a = b)
       [] k = "Ne" -> bool(a # b)
       [] k = "Ult" -> bool(a < b)
       [] k = "Ule" -> bool(a <= b)
       [] k = "Ugt" -> bool(a > b)
       [] k = "Uge" -> bool(a >= b)
       [] k = "Slt" -> bool(s < t)
       [] k = "Sle" -> bool(s <= t)
       [] k = "Sgt" -> bool(s > t)
       [] k = "Sge" -> bool(s >= t)

extend(v, from, to, k) == IF k = "SExt" THEN signed(v, from) % 2^to ELSE v % 2^to

element(arr, env, i) == IF arr = "constant" THEN ConstantValues[i + 1] ELSE env[i]

RECURSIVE eval(_, _)
RECURSIVE evalRead(_, _, _, _)
evalRead(arr, updates, i, env) ==
  IF updates = <<>> THEN element(arr, env, i)
  ELSE LET u == Head(updates)
           j == eval(u.index, env)
       IN IF j = Undef THEN Undef
          ELSE IF j = i THEN eval(u.value, env)
          ELSE evalRead(arr, Tail(updates), i, env)

\* The value of an expression under an assignment.
eval(x, env) ==
  IF x.k = "Constant" THEN x.v
  ELSE LET a == eval(x.kid[1], env)
           b == IF Len(x.kid) > 1 THEN eval(x.kid[2], env) ELSE a
       IN CASE x.k = "Select" -> IF a = Undef THEN Undef
                                 ELSE IF a = 1 THEN b ELSE eval(x.kid[3], env)
            [] a = Undef \/ b = Undef -> Undef
            [] OTHER ->
                 CASE x.k = "Read" -> evalRead(x.arr, x.updates, a, env)
                   [] x.k = "Concat" -> a * 2^(x.kid[2].w) + b
                   [] x.k = "Extract" -> (a \div 2^(x.off)) % 2^(x.w)
                   [] x.k \in {"ZExt", "SExt"} -> extend(a, x.kid[1].w, x.w, x.k)
                   [] x.k = "Not" -> 2^(x.w) - 1 - a
                   [] x.k = "NotOptimized" -> a
                   [] x.k \in DivKinds /\ b = 0 -> Undef
                   [] OTHER -> apply(x.k, a, b, x.kid[1].w)

-----------------------------------------------------------------------------
\* Allocation: the expression as it is asked for.

Const(v, w) == [k |-> "Constant", w |-> w, v |-> v]

True == Const(1, 1)

False == Const(0, 1)

isConst(x) == x.k = "Constant"

isZero(x) == isConst(x) /\ x.v = 0

isOne(x) == isConst(x) /\ x.v = 1

isAllOnes(x) == isConst(x) /\ x.v = 2^(x.w) - 1

alloc(k, l, r) == [k |-> k, w |-> IF k \in CmpKinds THEN 1 ELSE l.w, kid |-> <<l, r>>]

allocRead(arr, updates, index) ==
  [k |-> "Read", w |-> ElemWidth, arr |-> arr, updates |-> updates, kid |-> <<index>>]

allocSelect(c, t, f) == [k |-> "Select", w |-> t.w, kid |-> <<c, t, f>>]

allocConcat(l, r) == [k |-> "Concat", w |-> l.w + r.w, kid |-> <<l, r>>]

allocExtract(x, off, w) == [k |-> "Extract", w |-> w, off |-> off, kid |-> <<x>>]

allocExt(k, x, w) == [k |-> k, w |-> w, kid |-> <<x>>]

allocNot(x) == [k |-> "Not", w |-> x.w, kid |-> <<x>>]

NotOptimized(x) == [k |-> "NotOptimized", w |-> x.w, kid |-> <<x>>]

-----------------------------------------------------------------------------
\* Operations of ConstantExpr.

foldBinary(k, cl, cr) == Const(apply(k, cl.v, cr.v, cl.w), IF k \in CmpKinds THEN 1 ELSE cl.w)

foldConcat(cl, cr) == Const(cl.v * 2^(cr.w) + cr.v, cl.w + cr.w)

foldExtract(c, off, w) == Const((c.v \div 2^off) % 2^w, w)

foldExt(k, c, w) == Const(extend(c.v, c.w, w, k), w)

foldNot(c) == Const(2^(c.w) - 1 - c.v, c.w)

Neg(c) == Const((-c.v) % 2^(c.w), c.w)

-----------------------------------------------------------------------------
\* The create functions of Expr.cpp.

RECURSIVE create(_, _, _)

createIsZero(x) == create("Eq", x, Const(0, x.w))

createImplies(hyp, conc) == create("Or", createIsZero(hyp), conc)

\* ReadExpr::create: a write to the same index as the read gives the value, as long as
\* the indices of all newer writes are known to differ.
RECURSIVE createRead(_, _, _, _)
createRead(arr, updates, rest, index) ==
  IF rest = <<>> THEN allocRead(arr, updates, index)
  ELSE LET cond == create("Eq", index, Head(rest).index)
       IN IF ~ isConst(cond) THEN allocRead(arr, updates, index)
          ELSE IF cond = True THEN Head(rest).value
          ELSE createRead(arr, updates, Tail(rest), index)

createSelect(c, t, f) ==
  IF isConst(c) THEN (IF c = True THEN t ELSE f)
  ELSE IF t = f THEN t
  ELSE IF t.w = 1 /\ (isConst(t) \/ isConst(f))
  THEN LET known == IF isConst(t) THEN t ELSE f
           other == IF isConst(t) THEN f ELSE t
       IN create(IF known = True THEN "Or" ELSE "And",
                 IF (t = True) \/ (~ isConst(t) /\ f = False) THEN c ELSE createIsZero(c), other)
  ELSE allocSelect(c, t, f)

RECURSIVE createExtract(_, _, _)

createConcat(l, r) ==
  IF isConst(l) /\ isConst(r) THEN foldConcat(l, r)
  ELSE IF l.k = "Extract" /\ r.k = "Extract" /\ l.kid = r.kid /\ r.off + r.w = l.off
       THEN createExtract(l.kid[1], r.off, l.w + r.w)
  ELSE allocConcat(l, r)

\* ConcatExpr::createN.
RECURSIVE createN(_)
createN(kids) == IF Len(kids) = 1 THEN kids[1] ELSE createConcat(Head(kids), createN(Tail(kids)))

createExtract(x, off, w) ==
  IF w = x.w THEN x
  ELSE IF isConst(x) THEN foldExtract(x, off, w)
  ELSE IF x.k = "Concat" THEN
    LET l == x.kid[1]
        r == x.kid[2]
    IN IF off >= r.w THEN createExtract(l, off - r.w, w)
       ELSE IF off + w <= r.w THEN createExtract(r, off, w)
       ELSE createConcat(createExtract(l, 0, w - r.w + off), createExtract(r, off, r.w - off))
  ELSE allocExtract(x, off, w)

createNot(x) == IF isConst(x) THEN foldNot(x) ELSE allocNot(x)

\* ZExtExpr::create and SExtExpr::create.
createExt(k, x, w) ==
  IF w = x.w THEN x
  ELSE IF w < x.w THEN createExtract(x, 0, w)
  ELSE IF isConst(x) THEN foldExt(k, x, w)
  ELSE allocExt(k, x, w)

\* Add or Sub with a constant on the left, the canonical linear form.
linear(x, k) == x.k = k /\ isConst(x.kid[1])

XorPartialR(cl, r) ==
  IF isZero(cl) THEN r
  ELSE IF cl.w = 1 THEN create("Eq", r, False)
  ELSE alloc("Xor", cl, r)

AddPartialR(cl, r) ==
  IF cl.w = 1 THEN XorPartialR(cl, r)
  ELSE IF isZero(cl) THEN r
  ELSE IF linear(r, "Add") THEN create("Add", create("Add", cl, r.kid[1]), r.kid[2])
  ELSE IF linear(r, "Sub") THEN create("Sub", create("Add", cl, r.kid[1]), r.kid[2])
  ELSE alloc("Add", cl, r)

AddCreate(l, r) ==
  IF l.w = 1 THEN alloc("Xor", l, r)
  ELSE IF linear(l, "Add") THEN create("Add", l.kid[1], create("Add", l.kid[2], r))
  ELSE IF linear(l, "Sub") THEN create("Add", l.kid[1], create("Sub", r, l.kid[2]))
  ELSE IF linear(r, "Add") THEN create("Add", r.kid[1], create("Add", l, r.kid[2]))
  ELSE IF linear(r, "Sub") THEN create("Add", r.kid[1], create("Sub", l, r.kid[2]))
  ELSE alloc("Add", l, r)

\* Mutant: c - (k - x) becomes (c - k) - x.
subOfSub(cl, r) ==
  IF cl.w = 1 THEN XorPartialR(cl, r)
  ELSE IF linear(r, "Add") \/ linear(r, "Sub")
  THEN create("Sub", create("Sub", cl, r.kid[1]), r.kid[2])
  ELSE alloc("Sub", cl, r)

SubPartialR(cl, r) ==
  IF cl.w = 1 THEN XorPartialR(cl, r)
  ELSE IF linear(r, "Add") THEN create("Sub", create("Sub", cl, r.kid[1]), r.kid[2])
  ELSE IF linear(r, "Sub") THEN create("Add", create("Sub", cl, r.kid[1]), r.kid[2])
  ELSE alloc("Sub", cl, r)

SubPartial(l, cr) == AddPartialR(foldBinary("Sub", Const(0, cr.w), cr), l)

SubCreate(l, r) ==
  IF l.w = 1 THEN alloc("Xor", l, r)
  ELSE IF l = r THEN Const(0, l.w)
  ELSE IF linear(l, "Add") THEN create("Add", l.kid[1], create("Sub", l.kid[2], r))
  ELSE IF linear(l, "Sub") THEN create("Sub", l.kid[1], create("Add", l.kid[2], r))
  ELSE IF linear(r, "Add") THEN create("Sub", create("Sub", l, r.kid[2]), r.kid[1])
  ELSE IF linear(r, "Sub") THEN create("Sub", create("Add", l, r.kid[2]), r.kid[1])
  ELSE alloc("Sub", l, r)

AndPartial(l, cr) == IF isAllOnes(cr) THEN l ELSE IF isZero(cr) THEN cr ELSE alloc("And", l, cr)

OrPartial(l, cr) == IF isAllOnes(cr) THEN cr ELSE IF isZero(cr) THEN l ELSE alloc("Or", l, cr)

MulPartialR(cl, r) ==
  IF cl.w = 1 THEN AndPartial(r, cl)
  ELSE IF isOne(cl) THEN r
  ELSE IF isZero(cl) THEN cl
  ELSE alloc("Mul", cl, r)

\* The kinds without rules for constants, on Booleans.
BoolCreate(k, l, r) ==
  CASE k \in {"UDiv", "SDiv", "AShr"} -> l
    [] k \in {"URem", "SRem"} -> False
    [] k \in {"Shl", "LShr"} -> create("And", l, createIsZero(r))
    [] k = "Ult" -> create("And", createIsZero(l), r)
    [] k = "Ule" -> create("Or", createIsZero(l), r)
    [] k = "Slt" -> create("And", l, createIsZero(r))
    [] k = "Sle" -> create("Or", l, createIsZero(r))

\* Equality with a constant array's element, as a disjunction over the indices.
TryConstArrayOpt(cl, rd) ==
  LET matches == SelectSeq([i \in 1 .. Len(ConstantValues) |-> i - 1],
                           LAMBDA i : ConstantValues[i + 1] = cl.v)
      RECURSIVE anyOf(_)
      anyOf(m) == IF m = 0 THEN False
                  ELSE create("Or", anyOf(m - 1),
                              create("Eq", rd.kid[1], Const(matches[m], rd.kid[1].w)))
  IN IF rd.arr # "constant" \/ rd.updates # <<>> \/ Len(matches) > MaxMatches
     THEN alloc("Eq", cl, rd)
     ELSE anyOf(Len(matches))

EqCreate(l, r) == IF l = r THEN True ELSE alloc("Eq", l, r)

EqExt(cl, r) ==
  LET trunc == foldExt("ZExt", cl, r.kid[1].w)
  IN IF cl = foldExt(r.k, trunc, cl.w) THEN create("Eq", r.kid[1], trunc) ELSE False

EqPartialR(cl, r) ==
  IF cl = True THEN r
  ELSE IF cl = False THEN
    (IF r.k = "Eq" /\ r.kid[1] = False THEN r.kid[2]
     ELSE IF r.k = "Or" THEN create("And", createIsZero(r.kid[1]), createIsZero(r.kid[2]))
     ELSE EqCreate(cl, r))
  ELSE IF r.k \in {"SExt", "ZExt"} THEN EqExt(cl, r)
  ELSE IF linear(r, "Add") THEN create("Eq", foldBinary("Sub", cl, r.kid[1]), r.kid[2])
  ELSE IF linear(r, "Sub") THEN create("Eq", foldBinary("Sub", r.kid[1], cl), r.kid[2])
  ELSE IF r.k = "Read" /\ ConstArrayOpt THEN TryConstArrayOpt(cl, r)
  ELSE EqCreate(cl, r)

\* BCREATE_R and CMPCREATE_T: a constant on either side has rules of its own.
createPartialR(k, cl, r) ==
  CASE k = "Add" -> AddPartialR(cl, r)
    [] k = "Sub" -> SubPartialR(cl, r)
    [] k = "Mul" -> MulPartialR(cl, r)
    [] k = "And" -> AndPartial(r, cl)
    [] k = "Or" -> OrPartial(r, cl)
    [] k = "Xor" -> XorPartialR(cl, r)
    [] k = "Eq" -> EqPartialR(cl, r)

createPartial(k, l, cr) == IF k = "Sub" THEN SubPartial(l, cr) ELSE createPartialR(k, cr, l)

createBoth(k, l, r) ==
  CASE k = "Add" -> AddCreate(l, r)
    [] k = "Sub" -> SubCreate(l, r)
    [] k = "Mul" -> alloc(IF l.w = 1 THEN "And" ELSE "Mul", l, r)
    [] k = "Eq" -> EqCreate(l, r)
    [] k \in {"And", "Or", "Xor"} -> alloc(k, l, r)
    [] OTHER -> IF l.w = 1 THEN BoolCreate(k, l, r) ELSE alloc(k, l, r)

\* The kinds that are not used in canonical form: the other operand comes first.
turned(k) == CASE k = "Ugt" -> "Ult" [] k = "Uge" -> "Ule" [] k = "Sgt" -> "Slt" [] k = "Sge" -> "Sle"

create(k, l, r) ==
  LET ruled == k \in {"Add", "Sub", "Mul", "And", "Or", "Xor", "Eq"}
  IN IF k = "Ne" THEN create("Eq", False, create("Eq", l, r))
     ELSE IF k \in {"Ugt", "Uge", "Sgt", "Sge"} THEN create(turned(k), r, l)
     ELSE IF isConst(l) /\ isConst(r) THEN foldBinary(k, l, r)
     ELSE IF ruled /\ isConst(l) THEN createPartialR(k, l, r)
     ELSE IF ruled /\ isConst(r) THEN createPartial(k, l, r)
     ELSE createBoth(k, l, r)
-----------------------------------------------------------------------------
\* A constant of the width of an element, and two elements of the symbolic array.

at(i) == Const(i, ElemWidth)

x0 == allocRead("symbolic", <<>>, at(0))

y0 == allocRead("symbolic", <<>>, at(1))
====
