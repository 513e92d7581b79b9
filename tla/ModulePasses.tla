---------------------------- MODULE ModulePasses ----------------------------
(* From the LLVM function to the code the executor runs: the checks for      *)
(* division and shifts (Checks.cpp), the lowering of intrinsics              *)
(* (IntrinsicCleaner.cpp) and of switches (LowerSwitch.cpp), the order of    *)
(* phi nodes (PhiCleaner.cpp), the numbering of registers and constants      *)
(* (KModule.cpp), and the executor's way through blocks and phi nodes, which *)
(* relies on all of them.                                                    *)
(*                                                                           *)
(* A function is a sequence of blocks; a block has a name and instructions   *)
(* with the name of their result d, their values a and their blocks b.       *)
(* Names are numbers; argument 1 has name 1.  A behaviour takes a function   *)
(* and an argument, runs the passes, numbers the code and runs it.           *)
EXTENDS Integers, Sequences, SequencesExt, FiniteSetsExt

CONSTANTS Sources,      \* the functions
          Arguments,    \* values of the argument
          Width,        \* of every value, in bits
          SwitchTypes   \* --switch-type: "internal", "simple"

VARIABLES source,    \* the function as it was read
          argument,  \* its argument
          switchType,
          phase,     \* "checks", "intrinsics", "switch", "phis", "number", "run"
          F,         \* the function after the passes so far
          kf,        \* the numbered code
          machine    \* the thread that runs it

passVars == <<source, argument, switchType, phase, F, kf, machine>>

-----------------------------------------------------------------------------
\* Values, instructions, blocks.

K(v) == [const |-> TRUE, v |-> v]

V(n) == [const |-> FALSE, v |-> n]

instr(op, d, a, b) == [op |-> op, d |-> d, a |-> a, b |-> b]

names(G) == {G[j].name : j \in DOMAIN G} \cup UNION {{G[j].code[i].d : i \in DOMAIN G[j].code} : j \in DOMAIN G}

fresh(G) == Max(names(G)) + 1

position(G, name) == CHOOSE j \in DOMAIN G : G[j].name = name

terminator(G, name) == Last(G[position(G, name)].code)

phis(code) == {i \in DOMAIN code : code[i].op = "phi"}

\* The first phi entry for block p: PHINode::getBasicBlockIndex.
indexOf(phi, p) == Min({i \in DOMAIN phi.b : phi.b[i] = p})

setCode(G, name, code) == [G EXCEPT ![position(G, name)].code = code]

codeOf(G, name) == G[position(G, name)].code

\* Instructions are put in front of the last one of a block.
atEnd(code, i) == Front(code) \o <<i, Last(code)>>

-----------------------------------------------------------------------------
\* DivCheckPass and OvershiftCheckPass: a call of the check in front of each such instruction.

checked(i) ==
  CASE i.op = "udiv" -> <<instr("klee_div_zero_check", 0, <<i.a[2]>>, <<>>), i>>
    [] i.op = "shl" -> <<instr("klee_overshift_check", 0, <<K(Width), i.a[2]>>, <<>>), i>>
    [] OTHER -> <<i>>

checkPass(G) ==
  [j \in DOMAIN G |-> [G[j] EXCEPT !.code = FlattenSeq([i \in DOMAIN @ |-> checked(@[i])])]]

\* IntrinsicCleanerPass: an addition or multiplication with overflow becomes the operation,
\* a comparison of its result with the first operand, and the pair of both.
lowered(i, n) ==
  IF i.op \notin {"uadd_with_overflow", "umul_with_overflow"} THEN <<i>>
  ELSE <<instr(IF i.op = "uadd_with_overflow" THEN "add" ELSE "mul", n, i.a, <<>>),
         instr("ult", n + 1, <<V(n), i.a[1]>>, <<>>),
         instr("pair", i.d, <<V(n), V(n + 1)>>, <<>>)>>

intrinsicPass(G) ==
  [j \in DOMAIN G |->
     [G[j] EXCEPT !.code = FlattenSeq([i \in DOMAIN @ |-> lowered(@[i], fresh(G) + 2 * (100 * j + i))])]]

-----------------------------------------------------------------------------
\* LowerSwitchPass.

\* One phi entry of block name that comes from p comes from q.
redirect(G, name, p, q) ==
  LET turn(i) == IF i.op = "phi" THEN [i EXCEPT !.b[indexOf(i, p)] = q] ELSE i
      code == codeOf(G, name)
  IN setCode(G, name, [i \in DOMAIN code |-> turn(code[i])])

insertBlock(G, j, name, code) == SubSeq(G, 1, j) \o <<[name |-> name, code |-> code]>> \o SubSeq(G, j + 1, Len(G))

\* switchConvert: a chain of comparisons, built from its end.
RECURSIVE switchConvert(_, _, _, _, _)
switchConvert(G, orig, value, cases, curHead) ==
  IF cases = <<>>
  THEN setCode(G, orig, Append(Front(codeOf(G, orig)), instr("br", 0, <<>>, <<curHead>>)))
  ELSE LET c == Head(cases)
           new == fresh(G)
           code == <<instr("eq", new + 1, <<value, c.value>>, <<>>),
                     instr("br", 0, <<V(new + 1)>>, <<c.block, curHead>>)>>
           with == insertBlock(G, position(G, orig), new, code)
       IN switchConvert(redirect(with, c.block, orig, new), orig, value, Tail(cases), new)

processSwitchInst(G, orig) ==
  LET SI == terminator(G, orig)
      newDefault == fresh(G)
      with == insertBlock(G, position(G, SI.b[1]) - 1, newDefault, <<instr("br", 0, <<>>, <<SI.b[1]>>)>>)
      cases == [i \in 1..(Len(SI.b) - 1) |-> [value |-> SI.a[i + 1], block |-> SI.b[i + 1]]]
  IN switchConvert(redirect(with, SI.b[1], orig, newDefault), orig, SI.a[1], Reverse(cases), newDefault)

switchPass(G) ==
  FoldLeft(LAMBDA H, blk : IF Last(blk.code).op = "switch" THEN processSwitchInst(H, blk.name) ELSE H, G, G)

-----------------------------------------------------------------------------
\* PhiCleanerPass.

\* The entries of pi in the order of the first phi node.
reorder(pi, ref) ==
  IF pi.b = ref.b THEN pi
  ELSE [pi EXCEPT !.a = [i \in DOMAIN ref.b |-> pi.a[indexOf(pi, ref.b[i])]], !.b = ref.b]

\* Mutant: a use of an earlier phi node stays.
notMoved(G, name, k, i) == G

\* Entry i of a phi node uses an earlier phi node: the value is moved at the end of the
\* incoming block.
moveOut(G, name, k, i) ==
  LET pi == codeOf(G, name)[k]
      earlier == {codeOf(G, name)[j].d : j \in 1..(k - 1)}
      tmp == fresh(G)
      moved == setCode(G, pi.b[i], atEnd(codeOf(G, pi.b[i]), instr("cast", tmp, <<pi.a[i]>>, <<>>)))
  IN IF pi.a[i].const \/ pi.a[i].v \notin earlier THEN G
     ELSE setCode(moved, name, [codeOf(moved, name) EXCEPT ![k].a[i] = V(tmp)])

cleanPhi(G, name, k) ==
  LET code == codeOf(G, name)
      ordered == setCode(G, name, [code EXCEPT ![k] = reorder(code[k], code[1])])
  IN FoldLeftDomain(LAMBDA H, i : moveOut(H, name, k, i), ordered, code[1].b)

phiPass(G) ==
  FoldLeft(LAMBDA H, blk :
             FoldLeftDomain(LAMBDA I, k : IF k > 1 /\ k \in phis(blk.code) THEN cleanPhi(I, blk.name, k) ELSE I,
                            H, blk.code),
           G, G)

-----------------------------------------------------------------------------
\* KFunction: registers for the argument and every instruction, constants numbered as met.

entryOf(G, j) == FoldLeft(LAMBDA sum, blk : sum + Len(blk.code), 0, SubSeq(G, 1, j - 1))

flat(G) == FlattenSeq([j \in DOMAIN G |-> G[j].code])

\* getConstantID: the position of a constant among those met before, or a new one.
constantsOf(code) ==
  FoldLeft(LAMBDA cs, i :
             FoldLeft(LAMBDA ds, x : IF ~ x.const \/ x.v \in Range(ds) THEN ds ELSE Append(ds, x.v), cs, i.a),
           <<>>, code)

constantID(cs, c) == (CHOOSE i \in DOMAIN cs : cs[i] = c) - 1

\* getOperandNum: the first register is the argument's.
getOperandNum(x, code, cs) ==
  IF x.const THEN -(constantID(cs, x.v) + 2)
  ELSE IF x.v = 1 THEN 0
  ELSE CHOOSE r \in DOMAIN code : code[r].d = x.v

KFunction(G) ==
  LET code == flat(G)
      cs == constantsOf(code)
  IN [instructions |-> [i \in DOMAIN code |->
                          [inst |-> code[i], dest |-> i,
                           operands |-> [k \in DOMAIN code[i].a |-> getOperandNum(code[i].a[k], code, cs)]]],
      basicBlockEntry |-> [n \in {G[j].name : j \in DOMAIN G} |-> entryOf(G, position(G, n)) + 1],
      parent |-> [i \in DOMAIN code |-> G[Max({j \in DOMAIN G : entryOf(G, j) < i})].name],
      constantTable |-> cs]

-----------------------------------------------------------------------------
\* What an instruction computes; a division by zero or an overshift is undefined.

undefined(op, a) == (op = "udiv" /\ a[2] = 0) \/ (op = "shl" /\ a[2] >= Width)

compute(op, a) ==
  CASE op = "add" -> (a[1] + a[2]) % 2^Width
    [] op = "sub" -> (a[1] - a[2]) % 2^Width
    [] op = "mul" -> (a[1] * a[2]) % 2^Width
    [] op = "udiv" -> a[1] \div a[2]
    [] op = "shl" -> (a[1] * 2^(a[2])) % 2^Width
    [] op = "ult" -> IF a[1] < a[2] THEN 1 ELSE 0
    [] op = "eq" -> IF a[1] = a[2] THEN 1 ELSE 0
    [] op = "cast" -> a[1]
    [] op = "pair" -> <<a[1], a[2]>>
    [] op = "extract" -> a[1][a[2] + 1]
    [] op = "uadd_with_overflow" -> <<(a[1] + a[2]) % 2^Width, IF a[1] + a[2] >= 2^Width THEN 1 ELSE 0>>
    [] op = "umul_with_overflow" -> <<(a[1] * a[2]) % 2^Width, IF a[1] * a[2] >= 2^Width THEN 1 ELSE 0>>

\* The block a branch or a switch takes.
taken(i, a) ==
  IF i.op = "switch"
  THEN LET hit == {k \in 2..Len(a) : a[k] = a[1]} IN IF hit = {} THEN i.b[1] ELSE i.b[Min(hit)]
  ELSE IF i.a = <<>> \/ a[1] = 1 THEN i.b[1] ELSE i.b[2]

\* LLVM's meaning of the function: the phi nodes of a block take their values all at once.
RECURSIVE meaning(_, _, _, _, _)
meaning(G, name, prev, i, env) ==
  LET code == codeOf(G, name)
      I == code[i]
      val(x) == IF x.const THEN x.v ELSE env[x.v]
      a == [k \in DOMAIN I.a |-> val(I.a[k])]
      chosen(k) == val(code[k].a[indexOf(code[k], prev)])
      after == [n \in DOMAIN env |->
                  IF \E k \in phis(code) : code[k].d = n
                  THEN chosen(CHOOSE k \in phis(code) : code[k].d = n) ELSE env[n]]
  IN CASE I.op = "phi" -> meaning(G, name, prev, Cardinality(phis(code)) + 1, after)
       [] I.op = "ret" -> [status |-> "returned", result |-> a[1]]
       [] I.op \in {"br", "switch"} -> meaning(G, taken(I, a), name, 1, env)
       [] undefined(I.op, a) -> [status |-> "error", result |-> 0]
       [] OTHER -> meaning(G, name, prev, i + 1, [env EXCEPT ![I.d] = compute(I.op, a)])

-----------------------------------------------------------------------------
\* The executor.

operandValue(o) == IF o < 0 THEN kf.constantTable[-o - 1] ELSE machine.locals[o]

values(ki) == [k \in DOMAIN ki.operands |-> operandValue(ki.operands[k])]

\* transferToBasicBlock: the index of the incoming block, from the first phi node only.
transferToBasicBlock(dst, src) ==
  LET entry == kf.basicBlockEntry[dst]
      first == kf.instructions[entry].inst
  IN machine' = [machine EXCEPT !.pc = entry,
                                !.incomingBBIndex = IF first.op = "phi" THEN indexOf(first, src) ELSE @]

bind(ki, v) == machine' = [machine EXCEPT !.pc = @ + 1, !.locals[ki.dest] = v]

finish(status, v) == machine' = [machine EXCEPT !.status = status, !.result = v]

\* klee_div_zero_check and klee_overshift_check report an error, or do nothing.
check(failed) == IF failed THEN finish("error", 0) ELSE machine' = [machine EXCEPT !.pc = @ + 1]

ExecuteInstruction ==
  LET ki == kf.instructions[machine.pc]
      op == ki.inst.op
      a == values(ki)
  IN /\ phase = "run"
     /\ machine.status = "running"
     /\ CASE op = "phi" -> bind(ki, operandValue(ki.operands[machine.incomingBBIndex]))
          [] op = "ret" -> finish("returned", a[1])
          [] op \in {"br", "switch"} -> transferToBasicBlock(taken(ki.inst, a), kf.parent[machine.pc])
          [] op = "klee_div_zero_check" -> check(a[1] = 0)
          [] op = "klee_overshift_check" -> check(a[2] >= a[1])
          [] undefined(op, a) -> finish("undefined", 0)
          [] OTHER -> bind(ki, compute(op, a))
     /\ UNCHANGED <<source, argument, switchType, phase, F, kf>>

-----------------------------------------------------------------------------
\* KModule::prepare: the passes in their order.

pass(from, to, G) ==
  /\ phase = from
  /\ phase' = to
  /\ F' = G
  /\ UNCHANGED <<source, argument, switchType, kf, machine>>

Checks == pass("checks", "intrinsics", checkPass(F))

CleanIntrinsics == pass("intrinsics", "switch", intrinsicPass(F))

LowerSwitch == pass("switch", "phis", IF switchType = "simple" THEN switchPass(F) ELSE F)

CleanPhis == pass("phis", "number", phiPass(F))

Number ==
  /\ phase = "number"
  /\ phase' = "run"
  /\ kf' = KFunction(F)
  /\ machine' = [pc |-> 1, locals |-> [r \in 0..Len(flat(F)) |-> IF r = 0 THEN argument ELSE 0],
                 incomingBBIndex |-> 1, status |-> "running", result |-> 0]
  /\ UNCHANGED <<source, argument, switchType, F>>

PassInit ==
  /\ source \in Sources
  /\ argument \in Arguments
  /\ switchType \in SwitchTypes
  /\ phase = "checks"
  /\ F = source
  /\ kf = [constantTable |-> <<>>]
  /\ machine = [status |-> "idle", result |-> 0]

PassNext == Checks \/ CleanIntrinsics \/ LowerSwitch \/ CleanPhis \/ Number \/ ExecuteInstruction

PassSpec == PassInit /\ [][PassNext]_passVars

-----------------------------------------------------------------------------
\* The code that is run ends as the LLVM function does, with its result or with the error of
\* a division or shift: the phi nodes the executor evaluates one after the other, with the
\* index of the first, take the values they would take all at once, after every lowering;
\* no undefined operation is run without its check.
MeaningKept ==
  LET start == [n \in names(source) \cup {1} |-> IF n = 1 THEN argument ELSE 0]
      expected == meaning(source, source[1].name, 0, 1, start)
  IN machine.status \in {"returned", "error", "undefined"} =>
       /\ machine.status = expected.status
       /\ machine.result = expected.result

\* Between the passes and the executor: the phi nodes of a block have their entries in one
\* order, none uses an earlier one of its block, and every entry is for a predecessor.
PhisClean ==
  phase \in {"number", "run"} =>
    \A j \in DOMAIN F : \A k \in phis(F[j].code) :
      LET code == F[j].code
          preds == [n \in {F[p].name : p \in DOMAIN F} |-> Range(terminator(F, n).b)]
      IN /\ code[k].b = code[1].b
         /\ \A i \in DOMAIN code[k].a : code[k].a[i].const \/ code[k].a[i].v \notin {code[h].d : h \in 1..(k - 1)}
         /\ \A p \in Range(code[k].b) : F[j].name \in preds[p]
====
