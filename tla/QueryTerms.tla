----------------------------- MODULE QueryTerms ------------------------------
(* How expressions become terms of a decision procedure: STPBuilder.cpp and  *)
(* MetaSMTBuilder.h, with the division constants of ConstantDivision.cpp,    *)
(* and the translation KQuery2Z3.cpp of the re-execution's formulas.         *)
(*                                                                           *)
(* A term is its sort and its value under an assignment: w is its number of  *)
(* bits, 0 for a Boolean, and -1 for what is not a term (an assertion of the *)
(* builder, or operands of different sorts).  The 32 and 64 bits of the code *)
(* are Int32 and twice Int32 bits here.  A behaviour builds an expression    *)
(* with the create functions of Expr.cpp; every builder is asked for it.     *)
EXTENDS Expressions, FiniteSets, FiniteSetsExt

CONSTANTS Int32,      \* the width that divisions by constants are rewritten for
          Divisors,   \* constants used as operands
          SecondKinds \* kinds applied to an expression that is already built

Int64 == 2 * Int32

-----------------------------------------------------------------------------
\* Operations of the decision procedures.

Bad == [w |-> -1, v |-> 0]

bv(x, w) == [w |-> w, v |-> x % 2^w]

truth(b) == [w |-> 0, v |-> bool(b)]

bvZero(w) == bv(0, w)

bvOne(w) == bv(1, w)

bvMinusOne(w) == bv(-1, w)

sameBV(a, b) == a.w > 0 /\ a.w = b.w

bvConcat(a, b) == IF a.w > 0 /\ b.w > 0 THEN bv(a.v * 2^(b.w) + b.v, a.w + b.w) ELSE Bad

bvExtract(a, top, bottom) ==
  IF a.w > top THEN bv(a.v \div 2^bottom, top - bottom + 1) ELSE Bad

bvSignExtend(a, w) == IF a.w > 0 THEN bv(signed(a.v, a.w), w) ELSE Bad

ite(c, a, b) == IF c.w # 0 \/ a.w < 0 \/ a.w # b.w THEN Bad ELSE IF c.v = 1 THEN a ELSE b

\* A division by zero has some value; the program never uses it.
bvOp(k, a, b) ==
  IF ~ sameBV(a, b) THEN Bad
  ELSE IF k \in DivKinds /\ b.v = 0 THEN bvZero(a.w)
  ELSE bv(apply(k, a.v, b.v, a.w), a.w)

bvCompare(k, a, b) == IF sameBV(a, b) THEN truth(apply(k, a.v, b.v, a.w) = 1) ELSE Bad

bvNot(a) == IF a.w > 0 THEN bv(-1 - a.v, a.w) ELSE Bad

logic(k, a, b) == IF a.w = 0 /\ b.w = 0 THEN truth(apply(k, a.v, b.v, 1) = 1) ELSE Bad

notT(a) == IF a.w = 0 THEN truth(a.v = 0) ELSE Bad

boolExtract(a, bit) == bvCompare("Eq", bvExtract(a, bit, bit), bvOne(1))

-----------------------------------------------------------------------------
\* ConstantDivision.cpp.

lowBit(x) == CHOOSE i \in 0 .. Int64 : (x \div 2^i) % 2 = 1 /\ x % 2^i = 0

\* LOG2_CEIL, with the leading zeros of a 32-bit word counted by ldz.
log2Ceil(x) == CHOOSE i \in 0 .. Int32 : x <= 2^i /\ \A j \in 0 .. i - 1 : x > 2^j

exp_base_2(i) == IF i \in 0 .. Int32 - 1 THEN 2^i ELSE 0

\* The bits to add and the bits to subtract, for the runs of ones from the lowest.
RECURSIVE multConstants(_, _, _)
multConstants(x, add, sub) ==
  IF x = 0 THEN [add |-> add, sub |-> sub]
  ELSE LET low == lowBit(x)
           p == (x + 2^low) % 2^Int64
           high == IF p = 0 THEN Int64 ELSE lowBit(p)
           rest == IF p = 0 THEN 0 ELSE p - 2^high
           top == IF high = Int64 THEN {} ELSE {high}
       IN IF high = low + 1 THEN multConstants(rest, add \cup {low}, sub)
          ELSE IF low > 0 /\ low - 1 \in add
          THEN multConstants(rest, (add \ {low - 1}) \cup top, sub \cup {low - 1})
          ELSE multConstants(rest, add \cup top, sub \cup {low})

ComputeMultConstants64(x) == multConstants(x, {}, {})

ComputeUDivConstants32(d) ==
  LET l == log2Ceil(d)
      mid == (exp_base_2(l) - d) % 2^Int32
  IN [mprime |-> ((2^Int32 * mid) \div d + 1) % 2^Int32,
      sh1 |-> IF l < 1 THEN l ELSE 1,
      sh2 |-> IF l > 1 THEN l - 1 ELSE 0]

\* Mutant: no least exponent for the divisors 1 and -1.
noLeast(d) ==
  LET a == abs(d)
      l == IF a = 2^(Int32 - 1) THEN Int32 - 1 ELSE log2Ceil(a)
      m == (2^Int32 * exp_base_2(l - 1)) \div a + 1
  IN [mprime |-> signed((m - 2^Int32) % 2^Int32, Int32),
      dsign |-> IF d < 0 THEN -1 ELSE 0,
      shpost |-> l - 1]

ComputeSDivConstants32(d) ==
  LET a == abs(d)
      l == IF a = 2^(Int32 - 1) THEN Int32 - 1 ELSE IF a <= 2 THEN 1 ELSE log2Ceil(a)
      m == (2^Int32 * exp_base_2(l - 1)) \div a + 1
  IN [mprime |-> signed((m - 2^Int32) % 2^Int32, Int32),
      dsign |-> IF d < 0 THEN -1 ELSE 0,
      shpost |-> l - 1]

-----------------------------------------------------------------------------
\* STPBuilder.cpp.

isPowerOfTwo(d) == \E i \in 0 .. Int64 : d = 2^i

limited(c) == c.v % 2^Int32       \* (unsigned) getLimitedValue()

stpRightShift(t, shift) ==
  IF shift = 0 THEN t
  ELSE IF shift >= t.w THEN bvZero(t.w)
  ELSE bvConcat(bvZero(shift), bvExtract(t, t.w - 1, shift))

stpLeftShift(t, shift) ==
  IF shift = 0 THEN t
  ELSE IF shift >= t.w THEN bvZero(t.w)
  ELSE bvConcat(bvExtract(t, t.w - shift - 1, 0), bvZero(shift))

\* The chain of conditions compares the amount with constants of the width of t.
stpVarLeftShift(t, amount) ==
  IF ~ sameBV(t, amount) THEN Bad
  ELSE IF amount.v < t.w THEN stpLeftShift(t, amount.v) ELSE bvZero(t.w)

stpVarRightShift(t, amount) ==
  IF ~ sameBV(t, amount) THEN Bad
  ELSE IF amount.v < t.w THEN stpRightShift(t, amount.v) ELSE bvZero(t.w)

stpAShrByConstant(t, shift, isSigned) ==
  IF shift = 0 THEN t
  ELSE IF shift >= t.w - 1 THEN bvZero(t.w)
  ELSE ite(isSigned, bvConcat(bvMinusOne(shift), bvExtract(t, t.w - 1, shift)),
           stpRightShift(t, shift))

stpVarArithRightShift(t, amount) ==
  LET isSigned == boolExtract(t, t.w - 1)
  IN IF ~ sameBV(t, amount) THEN Bad
     ELSE IF amount.v >= t.w THEN bvZero(t.w)
     ELSE stpAShrByConstant(t, amount.v, isSigned)

stpMulByConstant(t, x) ==
  LET c == ComputeMultConstants64(x)
      part(bits) == MapThenSumSet(LAMBDA j : stpLeftShift(t, j).v, {j \in bits : j < t.w})
  IN IF c.add \cap c.sub # {} THEN Bad ELSE bv(part(c.add) - part(c.sub), t.w)

stpUDivByConstant(t, d) ==
  LET c == ComputeUDivConstants32(d)
      t1 == bvExtract(stpMulByConstant(bvConcat(bvZero(Int32), t), c.mprime), Int64 - 1, Int32)
      shifted == stpVarRightShift(bvOp("Sub", t, t1), bv(c.sh1, Int32))
  IN stpVarRightShift(bvOp("Add", shifted, t1), bv(c.sh2, Int32))

\* Its shift has an amount of 32 bits for a term of 64.
stpSDivByConstant(t, d) ==
  LET c == ComputeSDivConstants32(d)
      mult == stpMulByConstant(bvSignExtend(t, Int64), c.mprime % 2^Int64)
      npm == bvOp("Add", t, bvExtract(mult, Int64 - 1, Int32))
      shifted == stpVarRightShift(bvSignExtend(npm, Int64), bv(c.shpost, Int32))
      sign == ite(boolExtract(t, Int32 - 1), bvMinusOne(Int32), bvZero(Int32))
      q0 == bvOp("Sub", bvExtract(shifted, Int32 - 1, 0), sign)
      dsign == bv(c.dsign, Int32)
  IN bvOp("Sub", bvOp("Xor", q0, dsign), dsign)

\* Divisions; opt is optimizeDivides, r the right operand as an expression.
stpUDiv(opt, l, r, rt) ==
  IF isConst(r) /\ isPowerOfTwo(r.v) THEN stpRightShift(l, lowBit(r.v))
  ELSE IF isConst(r) /\ opt /\ r.w = Int32 THEN stpUDivByConstant(l, r.v)
  ELSE bvOp("UDiv", l, rt)

stpSDiv(opt, l, r, rt) ==
  IF isConst(r) /\ opt /\ r.w = Int32 THEN stpSDivByConstant(l, signed(r.v, Int32))
  ELSE bvOp("SDiv", l, rt)

stpURem(opt, l, r, rt) ==
  IF isConst(r) /\ isPowerOfTwo(r.v)
  THEN (IF r.v = 1 THEN bvZero(l.w)
        ELSE bvConcat(bvZero(l.w - lowBit(r.v)), bvExtract(l, lowBit(r.v) - 1, 0)))
  ELSE IF isConst(r) /\ opt /\ r.w = Int32
  THEN bvOp("Sub", l, stpMulByConstant(stpUDivByConstant(l, r.v), r.v))
  ELSE bvOp("URem", l, rt)

stpShift(k, l, r, rt) ==
  CASE k = "Shl" -> IF isConst(r) THEN stpLeftShift(l, limited(r)) ELSE stpVarLeftShift(l, rt)
    [] k = "LShr" -> IF isConst(r) THEN stpRightShift(l, limited(r)) ELSE stpVarRightShift(l, rt)
    [] k = "AShr" -> IF isConst(r)
                     THEN stpAShrByConstant(l, limited(r), boolExtract(l, l.w - 1))
                     ELSE stpVarArithRightShift(l, rt)

\* The operators that exist for Booleans and for bit vectors.
stpBitwise(k, l, rt) ==
  IF l.w # 0 THEN bvOp(k, l, rt)
  ELSE IF k = "Xor" THEN ite(l, notT(rt), rt)
  ELSE logic(k, l, rt)

stpEq(x, l, rt) ==
  IF l.w # 0 THEN bvCompare("Eq", l, rt)
  ELSE IF isConst(x) THEN (IF x = True THEN rt ELSE notT(rt))
  ELSE logic("Eq", l, rt)

stpCompare(k, l, rt) == bvCompare(k, l, rt)

stpArith(opt, k, x, l, r, rt) ==
  CASE k = "Mul" /\ isConst(x) -> stpMulByConstant(rt, x.v)
    [] k = "UDiv" -> stpUDiv(opt, l, r, rt)
    [] k = "SDiv" -> stpSDiv(opt, l, r, rt)
    [] k = "URem" -> stpURem(opt, l, r, rt)
    [] OTHER -> bvOp(k, l, rt)

stpCast(k, t, w) ==
  IF t.w = 0 THEN ite(t, IF k = "SExt" THEN bvMinusOne(w) ELSE bvOne(w), bvZero(w))
  ELSE IF k = "SExt" THEN bvSignExtend(t, w)
  ELSE bvConcat(bvZero(w - t.w), t)

-----------------------------------------------------------------------------
\* MetaSMTBuilder.h.  Shift amounts are cut to the bits a shift of the width needs.

getShiftBits(w) == IF w <= 2 THEN 1 ELSE log2Ceil(w)

cut(amount, w) == amount % 2^getShiftBits(w)

metaLeftShift(t, amount) ==
  LET shift == cut(amount, t.w)
  IN IF shift = 0 THEN t
     ELSE IF shift >= t.w THEN bvZero(t.w)
     ELSE bvConcat(bvExtract(t, t.w - shift - 1, 0), bvZero(shift))

metaRightShift(t, amount) ==
  LET shift == cut(amount, t.w)
  IN IF shift = 0 THEN t
     ELSE IF shift >= t.w THEN bvZero(t.w)
     ELSE bvConcat(bvZero(shift), bvExtract(t, t.w - 1, shift))

metaAShrByConstant(t, amount, isSigned) ==
  LET shift == cut(amount, t.w)
  IN IF shift = 0 THEN t
     ELSE IF shift >= t.w - 1 THEN ite(isSigned, bvMinusOne(t.w), bvZero(t.w))
     ELSE ite(isSigned, bvConcat(bvMinusOne(shift), bvExtract(t, t.w - 1, shift)),
              metaRightShift(t, shift))

\* The amount's low bits are compared with every shift there is.
metaVarLeftShift(t, amount) ==
  LET shift == bvExtract(amount, getShiftBits(t.w) - 1, 0)
  IN IF shift.v < t.w THEN metaLeftShift(t, shift.v) ELSE bvZero(t.w)

metaVarRightShift(t, amount) ==
  LET shift == bvExtract(amount, getShiftBits(t.w) - 1, 0)
  IN IF shift.v < t.w THEN metaRightShift(t, shift.v) ELSE bvZero(t.w)

metaVarArithRightShift(t, amount) ==
  LET shift == bvExtract(amount, getShiftBits(t.w) - 1, 0)
      last == IF shift.v < t.w - 1 THEN shift.v ELSE t.w - 1
  IN metaAShrByConstant(t, last, boolExtract(t, t.w - 1))

metaMulByConstant(t, x) ==
  LET c == ComputeMultConstants64(x)
      part(bits) == MapThenSumSet(LAMBDA j : metaLeftShift(t, j).v, {j \in bits : j < t.w})
  IN IF c.add \cap c.sub # {} THEN Bad ELSE bv(part(c.add) - part(c.sub), t.w)

metaUDivByConstant(t, d) ==
  LET c == ComputeUDivConstants32(d)
      t1 == bvExtract(metaMulByConstant(bvConcat(bvZero(Int32), t), c.mprime), Int64 - 1, Int32)
      shifted == metaVarRightShift(bvOp("Sub", t, t1), bv(c.sh1, Int32))
  IN metaVarRightShift(bvOp("Add", shifted, t1), bv(c.sh2, Int32))

metaSDivByConstant(t, d) ==
  LET c == ComputeSDivConstants32(d)
      mult == metaMulByConstant(bvSignExtend(t, Int64), c.mprime % 2^Int64)
      npm == bvOp("Add", t, bvExtract(mult, Int64 - 1, Int32))
      shifted == metaVarRightShift(bvSignExtend(npm, Int64), bv(c.shpost, Int32))
      sign == ite(boolExtract(t, Int32 - 1), bvMinusOne(Int32), bvZero(Int32))
      q0 == bvOp("Sub", bvExtract(shifted, Int32 - 1, 0), sign)
      dsign == bv(c.dsign, Int32)
  IN bvOp("Sub", bvOp("Xor", q0, dsign), dsign)

\* The remainder is computed by the division also where a mask has been.
metaArith(opt, k, x, l, r, rt) ==
  LET small == isConst(r) /\ opt /\ r.w = Int32
      power == isConst(r) /\ isPowerOfTwo(r.v)
  IN CASE k = "Mul" /\ isConst(x) -> metaMulByConstant(rt, x.v)
       [] k = "UDiv" /\ power -> metaRightShift(l, lowBit(r.v))
       [] k = "UDiv" /\ small -> metaUDivByConstant(l, r.v)
       [] k = "SDiv" /\ small -> metaSDivByConstant(l, signed(r.v, Int32))
       [] k = "URem" /\ small -> bvOp("Sub", l, metaMulByConstant(metaUDivByConstant(l, r.v), r.v))
       [] k = "URem" /\ power -> IF r.v = 1 THEN bvZero(l.w)
                                 ELSE bvConcat(bvZero(l.w - lowBit(r.v)),
                                               bvExtract(l, lowBit(r.v) - 1, 0))
       [] OTHER -> bvOp(k, l, rt)

metaShift(k, l, r, rt) ==
  CASE k = "Shl" -> IF isConst(r) THEN metaLeftShift(l, limited(r)) ELSE metaVarLeftShift(l, rt)
    [] k = "LShr" -> IF isConst(r) THEN metaRightShift(l, limited(r)) ELSE metaVarRightShift(l, rt)
    [] k = "AShr" -> IF isConst(r)
                     THEN metaAShrByConstant(l, limited(r), boolExtract(l, l.w - 1))
                     ELSE metaVarArithRightShift(l, rt)

metaBitwise(k, l, rt) == IF l.w # 0 THEN bvOp(k, l, rt) ELSE logic(k, l, rt)

metaEq(x, l, rt) ==
  IF l.w # 0 THEN bvCompare("Eq", l, rt)
  ELSE IF isConst(x) THEN (IF x = True THEN rt ELSE notT(rt))
  ELSE logic("Eq", l, rt)

metaCompare(k, l, rt) == bvCompare(k, l, rt)

metaCast(k, t, w) ==
  IF t.w = 0 THEN ite(t, IF k = "SExt" THEN bvMinusOne(w) ELSE bvOne(w), bvZero(w))
  ELSE IF k = "SExt" THEN bvSignExtend(t, w) ELSE bv(t.v, w)

-----------------------------------------------------------------------------
\* construct of both builders; be is [stp, opt].  What they have in common (constants,
\* reads, selects, concatenations, extractions) is written once.

operation(be, x, l, rt) ==
  LET kidl == x.kid[1]
      kidr == x.kid[2]
  IN CASE x.k \in ArithKinds -> IF l.w = 0 THEN Bad     \* "uncanonicalized ..."
                                ELSE IF be.stp THEN stpArith(be.opt, x.k, kidl, l, kidr, rt)
                                ELSE metaArith(be.opt, x.k, kidl, l, kidr, rt)
       [] x.k \in {"And", "Or", "Xor"} -> IF be.stp THEN stpBitwise(x.k, l, rt)
                                          ELSE metaBitwise(x.k, l, rt)
       [] x.k \in {"Shl", "LShr", "AShr"} -> IF l.w = 0 THEN Bad
                                             ELSE IF be.stp THEN stpShift(x.k, l, kidr, rt)
                                             ELSE metaShift(x.k, l, kidr, rt)
       [] x.k = "Eq" -> IF be.stp THEN stpEq(kidl, l, rt) ELSE metaEq(kidl, l, rt)
       [] x.k \in {"Ult", "Ule", "Slt", "Sle"} -> IF be.stp THEN stpCompare(x.k, l, rt)
                                                  ELSE metaCompare(x.k, l, rt)
       [] OTHER -> Bad                                  \* "unhandled Expr type"

RECURSIVE construct(_, _, _)

\* A read of the array with the writes of the updates.
RECURSIVE arrayForUpdate(_, _, _, _, _)
arrayForUpdate(be, arr, updates, index, env) ==
  IF updates = <<>> THEN bv(element(arr, env, index.v), ElemWidth)
  ELSE LET i == construct(be, Head(updates).index, env)
       IN ite(bvCompare("Eq", index, i), construct(be, Head(updates).value, env),
              arrayForUpdate(be, arr, Tail(updates), index, env))

\* What is the same for both but for the names of the operations; f is the third operand.
part(x, t, u, f) ==
  CASE x.k = "NotOptimized" -> t
    [] x.k = "Select" -> ite(t, u, f)
    [] x.k = "Concat" -> bvConcat(t, u)
    [] x.k = "Extract" -> IF x.w = 1 THEN boolExtract(t, x.off)
                          ELSE bvExtract(t, x.off + x.w - 1, x.off)

construct(be, x, env) ==
  IF isConst(x) THEN (IF x.w = 1 THEN truth(x.v = 1) ELSE bv(x.v, x.w))
  ELSE LET t == construct(be, x.kid[1], env)
           u == IF Len(x.kid) > 1 THEN construct(be, x.kid[2], env) ELSE t
           f == IF Len(x.kid) > 2 THEN construct(be, x.kid[3], env) ELSE u
       IN CASE x.k = "Read" -> arrayForUpdate(be, x.arr, x.updates, t, env)
            [] x.k \in {"NotOptimized", "Select", "Concat", "Extract"} -> part(x, t, u, f)
            [] x.k \in {"ZExt", "SExt"} -> IF be.stp THEN stpCast(x.k, t, x.w)
                                           ELSE metaCast(x.k, t, x.w)
            [] x.k = "Not" -> IF t.w = 0 THEN notT(t) ELSE bvNot(t)
            [] OTHER -> operation(be, x, t, u)

-----------------------------------------------------------------------------
\* KQuery2Z3.cpp: every integer is a bit vector of 64 bits, every array one variable.

z3Constant(x) ==
  IF x.w = 1 THEN truth(x.v = 1) ELSE bv(signed(x.v % 2^Int32, Int32), Int64)

\* The variable has the array's name: the index and the updates are not looked at.
z3Read(env) == bv(signed(env[0], Int32), Int64)

z3Concat(x, env) == IF \E i \in {1, 2} : x.kid[i].k = "Read" THEN z3Read(env) ELSE Bad

\* A truncation to Boolean makes a condition of a bit vector, which Z3 refuses.
z3Extract(x, t) == IF x.w = 1 THEN Bad ELSE t

z3Ext(x, t) ==
  IF x.kid[1].w = 1 THEN ite(t, bvOne(Int64), bvZero(Int64)) ELSE t

z3Arith(k, l, r) == bvOp(k, l, r)

z3Logic(k, l, r) == IF l.w > 0 THEN bvOp(k, l, r) ELSE logic(k, l, r)

z3Shift(k, l, r) == bvOp(k, l, r)

z3Compare(k, l, r) ==
  IF l.w > 0 THEN bvCompare(k, l, r) ELSE IF k = "Eq" THEN logic(k, l, r) ELSE Bad

RECURSIVE eachExprToZ3(_, _)
eachExprToZ3(x, env) ==
  IF isConst(x) THEN z3Constant(x)
  ELSE IF x.k = "Read" THEN z3Read(env)
  ELSE LET t == eachExprToZ3(x.kid[1], env)
           u == IF Len(x.kid) > 1 THEN eachExprToZ3(x.kid[2], env) ELSE t
       IN CASE x.k = "NotOptimized" -> Bad
            [] x.k = "Select" -> ite(t, u, eachExprToZ3(x.kid[3], env))
            [] x.k = "Concat" -> z3Concat(x, env)
            [] x.k = "Extract" -> z3Extract(x, t)
            [] x.k \in {"ZExt", "SExt"} -> z3Ext(x, t)
            [] x.k = "Not" -> IF t.w > 0 THEN bvNot(t) ELSE notT(t)
            [] x.k \in {"And", "Or", "Xor"} -> z3Logic(x.k, t, u)
            [] x.k \in {"Shl", "LShr", "AShr"} -> z3Shift(x.k, t, u)
            [] x.k \in CmpKinds -> z3Compare(x.k, t, u)
            [] OTHER -> z3Arith(x.k, t, u)

-----------------------------------------------------------------------------
\* The expressions: one call with any constant, then one of fewer.

TermsInit ==
  /\ builder = "create"
  /\ e \in {x0, y0, at(5), alloc("Ult", x0, y0), alloc("Add", at(1), x0)}
  /\ value = [env \in Env |-> eval(e, env)]
  /\ n = 0

constantsOrReads == {at(c) : c \in Divisors} \cup {x0, y0, alloc("Eq", at(3), y0)}

TermsNext ==
  \/ n = 0 /\ \E k \in BinaryKinds, o \in constantsOrReads : Binary(k, o)
  \/ n > 0 /\ \E k \in SecondKinds, o \in {at(3), y0} : Binary(k, o)
  \/ Complement \/ Hide
  \/ \E k \in {"ZExt", "SExt"}, w \in {Int64} : Extend(k, w)
  \/ \E w \in Widths, off \in {0, 1} : Extract(off, w)
  \/ \E o \in {x0} : n = 0 /\ Concat(o)
  \/ \E c \in {alloc("Ult", x0, y0)}, o \in {y0} : Select(c, o)
  \/ n = 0 /\ Reads

TermsSpec == TermsInit /\ [][TermsNext]_exprVars

-----------------------------------------------------------------------------
\* Where the terms of a builder differ from the expression: STP's arithmetic shift by at
\* least the width less one is zero also for a negative number; the amount of a metaSMT
\* shift is cut.
RECURSIVE shiftedOut(_, _, _)
shiftedOut(be, x, env) ==
  \/ /\ x.k \in {"Shl", "LShr", "AShr"}
     /\ LET shift == eval(x.kid[2], env)
        IN IF be.stp THEN x.k = "AShr" /\ shift >= x.w - 1 ELSE shift >= x.w
  \/ ~ isConst(x) /\ \E i \in DOMAIN x.kid : shiftedOut(be, x.kid[i], env)
  \/ x.k = "Read" /\ \E i \in DOMAIN x.updates : shiftedOut(be, x.updates[i].value, env)

\* What no term exists for: a concatenation of Booleans, and STP's signed division by a
\* constant, which compares amounts of 32 and of 64 bits.
RECURSIVE unbuilt(_, _)
unbuilt(be, x) ==
  \/ x.k = "Concat" /\ \E i \in {1, 2} : x.kid[i].w = 1
  \/ x.k = "SDiv" /\ be.stp /\ be.opt /\ x.w = Int32 /\ isConst(x.kid[2])
  \/ ~ isConst(x) /\ \E i \in DOMAIN x.kid : unbuilt(be, x.kid[i])
  \/ x.k = "Read" /\ \E i \in DOMAIN x.updates : unbuilt(be, x.updates[i].value)

term(x, v) == IF x.w = 1 THEN truth(v = 1) ELSE bv(v, x.w)

\* The term of the STP and the metaSMT builder means what the expression means, for every
\* assignment: shifts as concatenations, products as sums of shifts, quotients and
\* remainders by a constant as a product and shifts, Booleans as formulas.  No assertion
\* of the builders fails and no operation gets operands of different sorts.
TermsRight ==
  \A be \in [stp : BOOLEAN, opt : BOOLEAN] :
    unbuilt(be, e) \/
      \A env \in Env : value[env] # Undef /\ ~ shiftedOut(be, e, env) =>
        construct(be, e, env) = term(e, value[env])

\* No step of the computation leaves the signed range of its width, and nothing is read as
\* unsigned that is negative: the condition under which 64 bits can stand for all widths.
RECURSIVE inRange(_, _)
inRange(x, env) ==
  LET s(i) == signed(eval(x.kid[i], env), x.kid[i].w)
      fits(v, w) == v \in -(2^(w - 1)) .. 2^(w - 1) - 1
  IN /\ eval(x, env) # Undef
     /\ isConst(x) => x.w \in {1, Int32}
     /\ ~ isConst(x) /\ x.k # "Read" => \A i \in DOMAIN x.kid : inRange(x.kid[i], env)
     /\ x.k # "Concat" /\ x.k # "NotOptimized"
     /\ x.k = "Read" => x.kid[1] = at(0) /\ x.arr = "symbolic" /\ x.updates = <<>>
     /\ x.k = "Add" => fits(s(1) + s(2), x.w)
     /\ x.k = "Sub" => fits(s(1) - s(2), x.w)
     /\ x.k = "Mul" => fits(s(1) * s(2), x.w)
     /\ x.k = "SDiv" => fits(quotient(s(1), s(2)), x.w)
     /\ x.k = "Shl" => s(2) \in 0 .. x.w - 1 /\ fits(s(1) * 2^s(2), x.w)
     /\ x.k \in {"UDiv", "URem", "LShr"} => s(1) >= 0 /\ s(2) >= 0
     /\ x.k = "AShr" => s(2) >= 0
     /\ x.k = "ZExt" => x.kid[1].w = 1 \/ s(1) >= 0
     /\ x.k = "SExt" => x.kid[1].w > 1
     /\ x.k = "Extract" => x.off = 0 /\ x.w > 1 /\ fits(s(1), x.w)

\* In that range the formula given to Z3 means what the expression means.
SignedExact ==
  \A env \in Env : value[env] # Undef /\ inRange(e, env) =>
    eachExprToZ3(e, env) = IF e.w = 1 THEN truth(value[env] = 1)
                           ELSE bv(signed(value[env], e.w), Int64)
====
