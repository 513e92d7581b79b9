----------------------------- MODULE ValueRanges -----------------------------
(* The solver that guesses (FastCexSolver.cpp): it bounds the elements of    *)
(* the symbolic array by intervals that follow from a query, once as a       *)
(* guess (possible) and once safely (exact), and answers if the guess is a   *)
(* counterexample or the safe bounds decide the query.  Intervals of         *)
(* expressions are those of ExprRangeEvaluator.h.                            *)
(*                                                                           *)
(* An interval is <<min, max>> of machine words, empty if min > max.  A      *)
(* failed assertion ends the program: the bounds are Aborted.                 *)
EXTENDS ExprRewriting

CONSTANT WordBits   \* width of a machine word (uint64_t)

maxValueOfNBits(w) == 2^w - 1

Word == 2^WordBits

full(w) == <<0, maxValueOfNBits(w)>>

isFixed(r) == r[1] = r[2]

isEmpty(r) == r[1] > r[2]

mustEqual(r, s) == isFixed(r) /\ isFixed(s) /\ r[1] = s[1]

larger(a, b) == IF a > b THEN a ELSE b

smaller(a, b) == IF a < b THEN a ELSE b

set_intersection(r, s) == <<larger(r[1], s[1]), smaller(r[2], s[2])>>

set_union(r, s) == <<smaller(r[1], s[1]), larger(r[2], s[2])>>

mayEqual(r, s) == ~ isEmpty(set_intersection(r, s))

\* Of what remains in two parts the lower one is taken.
set_difference(r, s) ==
  CASE isEmpty(s) \/ s[1] > r[2] \/ s[2] < r[1] -> r
    [] s[1] <= r[1] /\ s[2] >= r[2] -> <<1, 0>>
    [] s[1] <= r[1] -> <<s[2] + 1, r[2]>>
    [] OTHER -> <<r[1], s[1] - 1>>

\* The bounds of x | y and x & y for x in r and y in s.  The loops over the bits m, from
\* the highest one, stop at the first where an operand can be replaced.
Bits == {2^i : i \in 0 .. WordBits - 1}

bit(x, m) == (x \div m) % 2 = 1

up(x, m) == (x \div m + 1) * m       \* (x | m) & -m, bit m of x not set

down(x, m) == (x \div m) * m - 1     \* (x & ~m) | (m - 1), bit m of x set

minOR(r, s) ==
  LET A == {m \in Bits : ~ bit(r[1], m) /\ bit(s[1], m) /\ up(r[1], m) <= r[2]}
      C == {m \in Bits : bit(r[1], m) /\ ~ bit(s[1], m) /\ up(s[1], m) <= s[2]}
      m == Max(A \cup C)
  IN IF A \cup C = {} THEN r[1] | s[1]
     ELSE IF m \in A THEN up(r[1], m) | s[1] ELSE r[1] | up(s[1], m)

maxOR(r, s) ==
  LET B == {m \in Bits : bit(r[2], m) /\ bit(s[2], m) /\ down(r[2], m) >= r[1]}
      D == {m \in Bits : bit(r[2], m) /\ bit(s[2], m) /\ down(s[2], m) >= s[1]}
      m == Max(B \cup D)
  IN IF B \cup D = {} THEN r[2] | s[2]
     ELSE IF m \in B THEN down(r[2], m) | s[2] ELSE r[2] | down(s[2], m)

minAND(r, s) ==
  LET A == {m \in Bits : ~ bit(r[1], m) /\ ~ bit(s[1], m) /\ up(r[1], m) <= r[2]}
      C == {m \in Bits : ~ bit(r[1], m) /\ ~ bit(s[1], m) /\ up(s[1], m) <= s[2]}
      m == Max(A \cup C)
  IN IF A \cup C = {} THEN r[1] & s[1]
     ELSE IF m \in A THEN up(r[1], m) & s[1] ELSE r[1] & up(s[1], m)

maxAND(r, s) ==
  LET B == {m \in Bits : bit(r[2], m) /\ ~ bit(s[2], m) /\ down(r[2], m) >= r[1]}
      D == {m \in Bits : ~ bit(r[2], m) /\ bit(s[2], m) /\ down(s[2], m) >= s[1]}
      m == Max(B \cup D)
  IN IF B \cup D = {} THEN r[2] & s[2]
     ELSE IF m \in B THEN down(r[2], m) & s[2] ELSE r[2] & down(s[2], m)

binaryAnd(r, s) == IF isFixed(r) /\ isFixed(s) THEN <<r[1] & s[1], r[1] & s[1]>>
                   ELSE <<minAND(r, s), maxAND(r, s)>>

binaryOr(r, s) == IF isFixed(r) /\ isFixed(s) THEN <<r[1] | s[1], r[1] | s[1]>>
                  ELSE <<minOR(r, s), maxOR(r, s)>>

\* All bits up to the highest one of the operands.
binaryXor(r, s) ==
  IF isFixed(r) /\ isFixed(s) THEN <<r[1] ^^ s[1], r[1] ^^ s[1]>>
  ELSE <<0, 2 * Max({m \in Bits : m <= (r[2] | s[2])}) - 1>>

shiftLeft(r, b) == <<(r[1] * 2^b) % Word, (r[2] * 2^b) % Word>>

shiftRight(r, b) == <<r[1] \div 2^b, r[2] \div 2^b>>

extractBits(r, low, high) ==
  LET mask == maxValueOfNBits(high - low) IN binaryAnd(shiftRight(r, low), <<mask, mask>>)

minSigned(r, w) == IF r[2] >= 2^(w - 1) THEN -(2^(w - 1)) ELSE r[1]

maxSigned(r, w) == IF r[1] < 2^(w - 1) /\ r[2] >= 2^(w - 1) THEN 2^(w - 1) - 1 ELSE signed(r[2], w)

-----------------------------------------------------------------------------
\* ExprRangeEvaluator.

certain(yes, no) == CASE yes -> <<1, 1>> [] no -> <<0, 0>> [] OTHER -> full(1)

\* CexRangeEvaluator::getInitialReadRange.
getInitialReadRange(arr, index) ==
  IF arr = "constant" /\ isFixed(index)
  THEN LET v == ConstantValues[index[1] + 1] IN <<v, v>>
  ELSE full(ElemWidth)

RECURSIVE range(_)

\* The union of what may be read, which starts from the empty interval <<1, 0>>.
RECURSIVE rangeOfRead(_, _, _, _)
rangeOfRead(arr, updates, index, res) ==
  IF updates = <<>> THEN set_union(res, getInitialReadRange(arr, index))
  ELSE LET ui == range(Head(updates).index)
           more == set_union(res, range(Head(updates).value))
       IN CASE mustEqual(ui, index) -> more
            [] mayEqual(ui, index) /\ more = full(ElemWidth) -> more
            [] mayEqual(ui, index) -> rangeOfRead(arr, Tail(updates), index, more)
            [] OTHER -> rangeOfRead(arr, Tail(updates), index, res)

rangeOfSelect(x) ==
  LET c == range(x.kid[1])
  IN CASE c = <<1, 1>> -> range(x.kid[2])
       [] c = <<0, 0>> -> range(x.kid[3])
       [] OTHER -> set_union(range(x.kid[2]), range(x.kid[3]))

rangeOfCompare(k, w, l, r) ==
  CASE k = "Eq" -> certain(mustEqual(l, r), ~ mayEqual(l, r))
    [] k = "Ult" -> certain(l[2] < r[1], l[1] >= r[2])
    [] k = "Ule" -> certain(l[2] <= r[1], l[1] > r[2])
    [] k = "Slt" -> certain(maxSigned(l, w) < minSigned(r, w), minSigned(l, w) >= maxSigned(r, w))
    [] k = "Sle" -> certain(maxSigned(l, w) <= minSigned(r, w), minSigned(l, w) > maxSigned(r, w))

\* A kid of a Concat is shifted by the width of an element, whatever its own width.
range(x) ==
  IF isConst(x) THEN <<x.v, x.v>>
  ELSE CASE x.k = "Read" -> rangeOfRead(x.arr, x.updates, range(x.kid[1]), <<1, 0>>)
         [] x.k = "Select" -> rangeOfSelect(x)
         [] x.k = "Concat" -> binaryOr(shiftLeft(range(x.kid[1]), ElemWidth), range(x.kid[2]))
         [] x.k = "And" -> binaryAnd(range(x.kid[1]), range(x.kid[2]))
         [] x.k = "Or" -> binaryOr(range(x.kid[1]), range(x.kid[2]))
         [] x.k = "Xor" -> binaryXor(range(x.kid[1]), range(x.kid[2]))
         [] x.k \in CmpKinds -> rangeOfCompare(x.k, x.kid[1].w, range(x.kid[1]), range(x.kid[2]))
         [] OTHER -> full(x.w)

-----------------------------------------------------------------------------
\* CexData: the bounds of the elements of the symbolic array.

elements == 0 .. ArraySize - 1

CexData == [possible |-> [i \in elements |-> full(ElemWidth)],
            exact |-> [i \in elements |-> full(ElemWidth)],
            failed |-> "nothing"]

\* An assertion failed while the guess, or the exact bounds, were narrowed.
Aborted(bounds) == [possible |-> <<>>, exact |-> <<>>, failed |-> bounds]

\* getPossibleValue: the middle of the interval.
getPossibleValue(cd, i) == LET r == cd.possible[i] IN r[1] + (r[2] - r[1]) \div 2

RECURSIVE propogatePossibleValues(_, _, _)

propogatePossibleValue(x, v, cd) == propogatePossibleValues(x, <<v, v>>, cd)

\* A fixed value replaces what was guessed before; an interval narrows it.  The writes of
\* the read are not looked at.
possibleRead(x, r, cd) ==
  LET i == x.kid[1].v
      tmp == set_intersection(cd.possible[i], r)
      byte == r[1] % 2^ElemWidth
  IN IF x.arr = "constant" \/ ~ isConst(x.kid[1]) \/ x.kid[1].v >= ArraySize THEN cd
     ELSE IF isFixed(r) THEN [cd EXCEPT !.possible[i] = <<byte, byte>>]
     ELSE IF isEmpty(tmp) THEN cd
     ELSE [cd EXCEPT !.possible[i] = tmp]

possibleSelect(x, c, r, cd) ==
  IF isFixed(c) THEN propogatePossibleValues(x.kid[IF c[1] # 0 THEN 2 ELSE 3], r, cd)
  ELSE propogatePossibleValues(x.kid[3], r, propogatePossibleValues(x.kid[2], r, cd))

\* Both parts are taken to have the width of the lower one; an empty interval fails an
\* assertion of binaryAnd.
possibleConcat(x, r, cd) ==
  LET w == x.kid[2].w
  IN IF isEmpty(r) THEN Aborted("guess")
     ELSE propogatePossibleValues(x.kid[2], extractBits(r, 0, w),
            propogatePossibleValues(x.kid[1], extractBits(r, w, 2 * w), cd))

possibleZExt(x, r, cd) ==
  propogatePossibleValues(x.kid[1], set_intersection(r, full(x.kid[1].w)), cd)

possibleSExt(x, r, cd) ==
  LET w == x.kid[1].w
      mask == maxValueOfNBits(w)
      output == set_difference(r, <<2^(w - 1), maxValueOfNBits(x.w) - maxValueOfNBits(w - 1) - 1>>)
  IN IF isEmpty(output) THEN Aborted("guess")
     ELSE propogatePossibleValues(x.kid[1], binaryAnd(output, <<mask, mask>>), cd)

possibleAdd(x, r, cd) ==
  LET less(v) == (v - x.kid[1].v) % 2^(x.w)
      nrange == <<less(r[1]), less(r[2])>>
  IN IF ~ isConst(x.kid[1]) \/ isEmpty(r) \/ isEmpty(nrange) THEN cd
     ELSE propogatePossibleValues(x.kid[2], nrange, cd)

\* And and Or of Booleans.  v is the value that one operand decides (0 for And): to get it,
\* one operand is forced to it, and the other too unless the first is known to be 1.
possibleLogic(x, v, l, s, r, cd) ==
  LET first == propogatePossibleValue(x.kid[1], v, cd)
      force(i, t, c) == IF t = <<1 - v, 1 - v>> THEN c ELSE propogatePossibleValue(x.kid[i], 1 - v, c)
  IN IF x.w > 1 \/ ~ isFixed(r) THEN cd
     ELSE IF bool(r[1] # 0) # v THEN force(2, s, force(1, l, cd))
     ELSE IF <<v, v>> \in {l, s} THEN cd
     ELSE IF l = <<1, 1>> THEN first ELSE propogatePossibleValue(x.kid[2], v, first)

possibleEq(x, r, cd) ==
  LET v == x.kid[1].v
  IN IF ~ isFixed(r) \/ ~ isConst(x.kid[1]) THEN cd
     ELSE IF r[1] # 0 THEN propogatePossibleValue(x.kid[2], v, cd)
     ELSE propogatePossibleValues(x.kid[2], IF v = 0 THEN <<1, maxValueOfNBits(x.kid[1].w)>>
                                            ELSE <<0, v - 1>>, cd)

\* Ult and Ule: strict is 1 for Ult.  Bounds are machine words and may wrap around.
possibleLess(x, strict, l, s, r, cd) ==
  LET top == maxValueOfNBits(x.kid[2].w)
      true == r[1] # 0
  IN CASE ~ isFixed(r) -> cd
       [] isFixed(l) -> propogatePossibleValues(x.kid[2],
            IF true THEN <<(l[1] + strict) % Word, top>> ELSE <<0, (l[1] - 1 + strict) % Word>>, cd)
       [] isFixed(s) -> propogatePossibleValues(x.kid[1],
            IF true THEN <<0, (s[1] - strict) % Word>> ELSE <<(s[1] + 1 - strict) % Word, top>>, cd)
       [] OTHER -> cd

propogatePossibleValues(x, r, cd) ==
  CASE cd.failed # "nothing" \/ isConst(x) -> cd
    [] x.k = "Read" -> possibleRead(x, r, cd)
    [] x.k = "Select" -> possibleSelect(x, range(x.kid[1]), r, cd)
    [] x.k = "Concat" -> possibleConcat(x, r, cd)
    [] x.k = "ZExt" -> possibleZExt(x, r, cd)
    [] x.k = "SExt" -> possibleSExt(x, r, cd)
    [] x.k = "Add" -> possibleAdd(x, r, cd)
    [] x.k \in {"And", "Or"} ->
         possibleLogic(x, bool(x.k = "Or"), range(x.kid[1]), range(x.kid[2]), r, cd)
    [] x.k = "Eq" -> possibleEq(x, r, cd)
    [] x.k = "Not" -> IF x.w > 1 \/ ~ isFixed(r) THEN cd
                      ELSE propogatePossibleValue(x.kid[1], bool(r[1] = 0), cd)
    [] x.k \in {"Ult", "Ule"} ->
         possibleLess(x, bool(x.k = "Ult"), range(x.kid[1]), range(x.kid[2]), r, cd)
    [] OTHER -> cd

\* Exact bounds: only through equalities and negations, and through writes that are known
\* to be what is read, or known not to be.
RECURSIVE propogateExactValue(_, _, _)

exactInitial(arr, index, v, cd) ==
  LET cvd == cd.exact[index[1]]
  IN IF arr = "constant" \/ ~ isFixed(index) THEN cd
     ELSE IF v \notin cvd[1] .. cvd[2] THEN Aborted("exact")
     ELSE [cd EXCEPT !.exact[index[1]] = <<v, v>>]

\* Mutant: the search goes on past a write that may be to the element.
exactPastWrites(x, writes, index, v, cd) ==
  LET hit == {i \in DOMAIN writes : mustEqual(writes[i], index)}
  IN IF hit = {} THEN exactInitial(x.arr, index, v, cd)
     ELSE propogateExactValue(x.updates[Min(hit)].value, v, cd)

\* The intervals of the indices that were written, and of the one that is read.
exactRead(x, writes, index, v, cd) ==
  LET may == {i \in DOMAIN writes : mayEqual(writes[i], index)}
      u == Min(may)
  IN IF may = {} THEN exactInitial(x.arr, index, v, cd)
     ELSE IF mustEqual(writes[u], index) \/ x.kid[1] = x.updates[u].index
     THEN propogateExactValue(x.updates[u].value, v, cd)
     ELSE cd

propogateExactValue(x, v, cd) ==
  CASE cd.failed # "nothing" \/ isConst(x) -> cd
    [] x.k = "Read" -> 
         exactRead(x, [i \in DOMAIN x.updates |-> range(x.updates[i].index)], range(x.kid[1]), v, cd)
    [] x.k = "Eq" /\ isConst(x.kid[1]) ->
         IF v # 0 THEN propogateExactValue(x.kid[2], x.kid[1].v, cd)
         ELSE IF x.kid[2].w = 1 THEN propogateExactValue(x.kid[2], 1 - x.kid[1].v, cd)
         ELSE cd
    [] x.k = "Not" /\ x.w = 1 -> propogateExactValue(x.kid[1], bool(v = 0), cd)
    [] OTHER -> cd

evaluatePossible(x, cd) ==
  visitEval(x, [i \in Indices |-> IF i < ArraySize THEN at(getPossibleValue(cd, i)) ELSE initialRead(i)])

evaluateExact(x, cd) ==
  visitEval(x, [i \in Indices |-> IF i < ArraySize /\ isFixed(cd.exact[i]) THEN at(cd.exact[i][1])
                                  ELSE initialRead(i)])

-----------------------------------------------------------------------------
\* FastCexSolver.

\* What is asked is a sequence of expressions and the values they are to have.
RECURSIVE propogateAll(_, _)
propogateAll(asked, cd) ==
  IF asked = <<>> THEN cd
  ELSE LET x == Head(asked)[1]
           v == Head(asked)[2]
       IN propogateAll(Tail(asked), propogateExactValue(x, v, propogatePossibleValue(x, v, cd)))

\* propogateValues: the answer and the bounds it rests on.
decide(asked, cd) ==
  [cd |-> cd,
   answer |-> CASE cd.failed # "nothing" -> "abort"
                [] \E i \in DOMAIN asked : evaluateExact(asked[i][1], cd) = Const(1 - asked[i][2], 1) -> "valid"
                [] \A i \in DOMAIN asked : evaluatePossible(asked[i][1], cd) = Const(asked[i][2], 1) -> "invalid"
                [] OTHER -> "none"]

propogateValues(cs, x, checkExpr) ==
  LET asked == [i \in DOMAIN cs |-> <<cs[i], 1>>] \o (IF checkExpr THEN << <<x, 0>> >> ELSE <<>>)
  IN decide(asked, propogateAll(asked, CexData))

\* computeTruth: "valid", "invalid" or "none".
computeTruth(p) == p.answer

\* computeValue, of what was propagated without the query: the value, or Undef.
computeValue(p, x) ==
  LET found(v) == IF p.answer = "invalid" /\ isConst(v) THEN v.v ELSE Undef
  IN found(evaluatePossible(x, p.cd))

\* computeInitialValues: the elements of the array.
computeInitialValues(p) == [i \in elements |-> evaluatePossible(initialRead(i), p.cd).v]

-----------------------------------------------------------------------------
\* Every part of a Concat but the first has the width of an element.
RECURSIVE aligned(_)
aligned(x) ==
  isConst(x) \/ /\ x.k = "Concat" => x.kid[2].w = ElemWidth
                /\ \A i \in DOMAIN x.kid : aligned(x.kid[i])
                /\ x.k = "Read" => \A i \in DOMAIN x.updates : aligned(x.updates[i].value)

\* The intervals of | and & are the tightest there are, and that of ^ has every value.
BoundsTight ==
  n = 0 /\ e = x0 /\ constraints = <<>> =>
    LET R == {<<a, b>> \in (0 .. 6) \X (0 .. 6) : a <= b}
        both(r, s, k) == {apply(k, p[1], p[2], 3) : p \in (r[1] .. r[2]) \X (s[1] .. s[2])}
    IN \A r, s \in R :
         /\ binaryOr(r, s) = <<Min(both(r, s, "Or")), Max(both(r, s, "Or"))>>
         /\ binaryAnd(r, s) = <<Min(both(r, s, "And")), Max(both(r, s, "And"))>>
         /\ both(r, s, "Xor") \subseteq binaryXor(r, s)[1] .. binaryXor(r, s)[2]

\* The interval of an expression has its value under every assignment.
RangeHolds ==
  LET r == range(e)
  IN aligned(e) => \A env \in Env : value[env] # Undef => value[env] \in r[1] .. r[2]

\* The assignment guessed for a query, with anything beyond the array.
guess(cd) == {[i \in Indices |-> IF i < ArraySize THEN getPossibleValue(cd, i) ELSE z] :
                z \in 0 .. maxValueOfNBits(ElemWidth)}

\* A query answered with "valid" is true on the whole path; one answered with "invalid" has
\* a counterexample, and the initial values returned are one; a value returned for an
\* expression is its value at an assignment of the path.  The assertions on the exact bounds
\* fail only for a query that is valid.
AnswersRight ==
  LET onPath(env) == \A i \in DOMAIN constraints : eval(constraints[i], env) = 1
      right(p) ==
        /\ computeTruth(p) = "valid" \/ p.cd.failed = "exact" => \A env \in held : value[env] = 1
        /\ computeTruth(p) = "invalid" =>
             /\ \A env \in guess(p.cd) : eval(e, env) = 0 /\ onPath(env)
             /\ computeInitialValues(p) = [i \in elements |-> getPossibleValue(p.cd, i)]
      valueAt(p, v) == v # Undef => \A env \in guess(p.cd) : eval(e, env) = v /\ onPath(env)
      valueRight(p) == valueAt(p, computeValue(p, e))
  IN aligned(e) /\ (\A i \in DOMAIN constraints : aligned(constraints[i])) =>
       /\ e.w = 1 => right(propogateValues(constraints, e, TRUE))
       /\ valueRight(propogateValues(constraints, e, FALSE))
====
