---------------------------- MODULE Instructions ----------------------------
(* What an instruction puts in its register (Executor.cpp                    *)
(* executeInstruction, executeCall, evalConstant, computeOffsets;            *)
(* ExecutorUtil.cpp evalConstantExpr): arithmetic, comparisons, casts,       *)
(* addresses of elements, parts of aggregates, constants of the module, and  *)
(* arguments, variable arguments and results of calls.                       *)
(*                                                                           *)
(* A register keeps, beside its expression x, the value v that LLVM's        *)
(* semantics gives it under each assignment of the symbolic array.  The      *)
(* value of an aggregate is the sequence of the values of its fields.  A     *)
(* behaviour runs any instructions, one by one; each may use the registers   *)
(* of the current frame and the constants of the module.  Loads, stores and  *)
(* branches are in ObjectMemory and StateForks; floating point is a number   *)
(* or NaN and only compared.                                                 *)
EXTENDS CanonicalExprs, SequencesExt

CONSTANTS Env,           \* assignments of the symbolic array
          PointerWidth,  \* in bits; also the word of the variable arguments
          Constants,     \* the constants of the module, a sequence
          Functions,     \* the functions: widths of parameters, vararg
          Kinds,         \* binary instructions that are run
          MaxSteps       \* bound: instructions that are run

VARIABLES constantTable,  \* the module's constants, evaluated
          stack,          \* frames of the thread, the current one last
          status,         \* "running", "exited" or the error that ended the state
          steps           \* number of instructions run

instrVars == <<constantTable, stack, status, steps>>

-----------------------------------------------------------------------------
\* Types and their layout (DataLayout of LLVM): ints, and aggregates of two fields.

roundUp(m, a) == ((m + a - 1) \div a) * a

bytes(w) == (w + ElemWidth - 1) \div ElemWidth

int(w) == [k |-> "int", w |-> w, of |-> <<>>]

\* Offset of the second field and size of the whole, in bytes: fields are aligned to their size.
secondOffset(a, b) == roundUp(bytes(a.w), bytes(b.w))

structSize(a, b) ==
  LET end == secondOffset(a, b) + bytes(b.w)
  IN roundUp(end, IF bytes(a.w) > bytes(b.w) THEN bytes(a.w) ELSE bytes(b.w))

struct(a, b) == [k |-> "struct", w |-> ElemWidth * structSize(a, b), of |-> <<a, b>>]

array(a) == [k |-> "array", w |-> 2 * ElemWidth * bytes(a.w), of |-> <<a, a>>]

fieldOffset(t, i) == IF i = 1 THEN 0 ELSE secondOffset(t.of[1], t.of[2])

-----------------------------------------------------------------------------
\* Constants.  An operand below zero is a constant of the module, another one a register.

\* ConstantExpr: GEP has, for each index, its constant and the size of the element; an index
\* of a struct is the offset of the field, with size 1.
evalConstantExpr(op, w, a, sizes) ==
  CASE op = "Trunc" -> foldExtract(a[1], 0, w)
    [] op \in {"ZExt", "IntToPtr", "PtrToInt"} -> foldExt("ZExt", a[1], w)
    [] op = "SExt" -> foldExt("SExt", a[1], w)
    [] op = "BitCast" -> a[1]
    [] op = "Select" -> IF a[1] = True THEN a[2] ELSE a[3]
    [] op = "GEP" ->
         FoldLeftDomain(LAMBDA base, i :
                          foldBinary("Add", base,
                                     foldBinary("Mul", foldExt("ZExt", a[i + 1], PointerWidth),
                                                Const(sizes[i], PointerWidth))),
                        foldExt("ZExt", a[1], PointerWidth), sizes)
    [] OTHER -> foldBinary(op, a[1], a[2])

\* The fields of a struct, the last one first, each below the padding that follows it.
padded(t, kids) ==
  LET next(i) == IF i = 2 THEN t.w ELSE ElemWidth * fieldOffset(t, 2)
      gap(i) == next(i) - ElemWidth * fieldOffset(t, i) - kids[i].w
      part(i) == (IF gap(i) > 0 THEN <<Const(0, gap(i))>> ELSE <<>>) \o <<kids[i]>>
  IN part(2) \o part(1)

RECURSIVE evalConstant(_)
evalConstant(c) ==
  LET kids == [i \in DOMAIN c.of |-> evalConstant(c.of[i])]
  IN CASE c.k \in {"int", "global"} -> Const(c.v, c.t.w)
       [] c.k = "null" -> Const(0, PointerWidth)
       [] c.k \in {"undef", "zero"} -> Const(0, c.t.w)
       [] c.k = "data" -> createN(kids)
       [] c.k = "array" -> createN(Reverse(kids))
       [] c.k = "struct" -> createN(padded(c.t, kids))
       [] c.k = "expr" -> evalConstantExpr(c.op, c.t.w, kids, c.sizes)

\* What LLVM means by a constant.
RECURSIVE meaning(_)
meaning(c) ==
  LET val(i) == meaning(c.of[i])
      w == c.of[1].t.w
  IN CASE c.k \in {"int", "global"} -> c.v
       [] c.k \in {"null", "undef", "zero"} -> IF c.t.k = "int" THEN 0 ELSE <<0, 0>>
       [] c.k \in {"data", "array", "struct"} -> <<val(1), val(2)>>
       [] c.op \in {"Trunc", "IntToPtr", "PtrToInt", "ZExt", "SExt"} -> extend(val(1), w, c.t.w, c.op)
       [] c.op = "BitCast" -> val(1)
       [] c.op = "Select" -> IF val(1) = 1 THEN val(2) ELSE val(3)
       [] c.op = "GEP" ->
            FoldLeftDomain(LAMBDA base, i :
                             (base + signed(val(i + 1), c.of[i + 1].t.w) * c.sizes[i]) % 2^PointerWidth,
                           val(1), c.sizes)
       [] OTHER -> apply(c.op, val(1), val(2), w)

bindModuleConstants ==
  [i \in DOMAIN Constants |-> [t |-> Constants[i].t, x |-> evalConstant(Constants[i]),
                               v |-> [env \in Env |-> meaning(Constants[i])]]]

top == Last(stack)

\* Executor::eval.
operand(o) == IF o < 0 THEN constantTable[-o - 1] ELSE top.locals[o + 1]

constantOperands == {-i - 1 : i \in DOMAIN Constants}

Operands == {i - 1 : i \in DOMAIN top.locals} \cup constantOperands

Ints == {o \in Operands : operand(o).t.k = "int"}

Aggregates == {o \in Operands : operand(o).t.k \in {"struct", "array"}}

\* The result of the last instruction is used, so that every chain of instructions is met.
newest(a, b) == Len(top.locals) - 1 \in {a, b}

-----------------------------------------------------------------------------
\* Instructions that put a value in their register.

\* bindLocal, and the step to the next instruction.
bindLocal(t, x, v) ==
  /\ stack' = Front(stack) \o <<[top EXCEPT !.locals = Append(@, [t |-> t, x |-> x, v |-> v])]>>
  /\ UNCHANGED status

\* A division by zero or too large a shift was stopped before.
defined(k, l, r, env) ==
  /\ k \in DivKinds => r.v[env] # 0
  /\ k \in {"Shl", "LShr", "AShr"} => r.v[env] < r.t.w

\* Add .. AShr.
Arithmetic ==
  \E k \in Kinds \ CmpKinds, a \in Ints, b \in Ints :
    LET l == operand(a)
        r == operand(b)
    IN /\ newest(a, b)
       /\ l.t.w = r.t.w
       /\ \A env \in Env : defined(k, l, r, env)
       /\ bindLocal(l.t, create(k, l.x, r.x), [env \in Env |-> apply(k, l.v[env], r.v[env], l.t.w)])

ICmp ==
  \E k \in Kinds \cap CmpKinds, a \in Ints, b \in Ints :
    LET l == operand(a)
        r == operand(b)
    IN /\ newest(a, b)
       /\ l.t.w = r.t.w
       /\ bindLocal(int(1), create(k, l.x, r.x), [env \in Env |-> apply(k, l.v[env], r.v[env], l.t.w)])

Select ==
  \E c \in Ints, a \in Operands, b \in Operands :
    /\ operand(c).t.w = 1
    /\ newest(a, b) \/ newest(c, c)
    /\ operand(a).t = operand(b).t
    /\ bindLocal(operand(a).t, createSelect(operand(c).x, operand(a).x, operand(b).x),
                 [env \in Env |-> IF operand(c).v[env] = 1 THEN operand(a).v[env] ELSE operand(b).v[env]])

\* Trunc, ZExt, SExt, IntToPtr, PtrToInt and BitCast of an int.
Cast ==
  \E k \in {"Trunc", "ZExt", "SExt", "IntToPtr", "PtrToInt", "BitCast"}, a \in Ints, w \in {1, ElemWidth, PointerWidth} :
    LET r == operand(a)
        x == CASE k = "Trunc" -> createExtract(r.x, 0, w)
               [] k \in {"ZExt", "IntToPtr", "PtrToInt"} -> createExt("ZExt", r.x, w)
               [] k = "SExt" -> createExt("SExt", r.x, w)
               [] k = "BitCast" -> r.x
    IN /\ newest(a, a)
       /\ CASE k = "Trunc" -> w < r.t.w
            [] k \in {"ZExt", "SExt"} -> w > r.t.w
            [] k = "IntToPtr" -> w = PointerWidth
            [] k = "PtrToInt" -> r.t.w = PointerWidth
            [] k = "BitCast" -> w = r.t.w
       /\ bindLocal(int(w), x, [env \in Env |-> extend(r.v[env], r.t.w, w, k)])

\* computeOffsets: the constant part of an address, and the indices that are not constant.
\* Each step of the path is the offset of a field (no operand) or an element's size and index.
noOperand == -1

addend(p) ==
  IF p.o = noOperand THEN p.size
  ELSE foldBinary("Mul", foldExt("SExt", operand(p.o).x, PointerWidth), Const(p.size, PointerWidth)).v

computeOffsets(path) ==
  [offset |-> FoldLeft(LAMBDA sum, p : IF p.o < 0 THEN (sum + addend(p)) % 2^PointerWidth ELSE sum, 0, path),
   indices |-> SelectSeq(path, LAMBDA p : p.o >= 0)]

\* Mutant: the index is extended with zeros.
unsignedIndex(base, kgepi) ==
  LET moved == FoldLeft(LAMBDA x, p :
                          create("Add", x, create("Mul", createExt("ZExt", operand(p.o).x, PointerWidth),
                                                  Const(p.size, PointerWidth))),
                        base, kgepi.indices)
  IN IF kgepi.offset = 0 THEN moved ELSE create("Add", moved, Const(kgepi.offset, PointerWidth))

elementAddress(base, kgepi) ==
  LET moved == FoldLeft(LAMBDA x, p :
                          create("Add", x, create("Mul", createExt("SExt", operand(p.o).x, PointerWidth),
                                                  Const(p.size, PointerWidth))),
                        base, kgepi.indices)
  IN IF kgepi.offset = 0 THEN moved ELSE create("Add", moved, Const(kgepi.offset, PointerWidth))

\* Where LLVM puts the element.
reference(base, path, env) ==
  FoldLeft(LAMBDA sum, p :
             IF p.o = noOperand THEN sum + p.size
             ELSE sum + signed(operand(p.o).v[env], operand(p.o).t.w) * p.size,
           base.v[env], path) % 2^PointerWidth

\* An array of structs {byte, word}: the index of the struct, and one of its fields.
GetElementPtr ==
  \E a \in Ints, i \in Ints, f \in 1..2 :
    LET t == struct(int(ElemWidth), int(PointerWidth))
        path == <<[o |-> i, size |-> bytes(t.w)], [o |-> noOperand, size |-> fieldOffset(t, f)]>>
    IN /\ newest(a, i)
       /\ operand(a).t.w = PointerWidth
       /\ bindLocal(int(PointerWidth), elementAddress(operand(a).x, computeOffsets(path)),
                    [env \in Env |-> reference(operand(a), path, env)])

insert(agg, val, off) ==
  LET l == createExtract(agg, 0, off)
      r == createExtract(agg, off + val.w, agg.w - val.w - off)
  IN CASE off > 0 /\ off + val.w < agg.w -> createConcat(r, createConcat(val, l))
       [] off > 0 -> createConcat(val, l)
       [] val.w < agg.w -> createConcat(r, val)
       [] OTHER -> val

InsertValue ==
  \E a \in Aggregates, b \in Ints, f \in 1..2 :
    LET agg == operand(a)
        val == operand(b)
    IN /\ newest(a, b)
       /\ agg.t.of[f] = val.t
       /\ bindLocal(agg.t, insert(agg.x, val.x, ElemWidth * fieldOffset(agg.t, f)),
                    [env \in Env |-> [agg.v[env] EXCEPT ![f] = val.v[env]]])

ExtractValue ==
  \E a \in Aggregates, f \in 1..2 :
    LET agg == operand(a)
    IN bindLocal(agg.t.of[f], createExtract(agg.x, ElemWidth * fieldOffset(agg.t, f), agg.t.of[f].w),
                 [env \in Env |-> agg.v[env][f]])

-----------------------------------------------------------------------------
\* FCmp.  A float is its signed value; the smallest one stands for NaN.

Predicates == {"ORD", "UNO", "UEQ", "OEQ", "UGT", "OGT", "UGE", "OGE", "ULT", "OLT", "ULE", "OLE", "UNE", "ONE", "FALSE", "TRUE"}

NaN == 2^(ElemWidth - 1)

compare(l, r) ==
  IF NaN \in {l, r} THEN "unordered"
  ELSE IF l = r THEN "equal"
  ELSE IF signed(l, ElemWidth) < signed(r, ElemWidth) THEN "less" ELSE "greater"

\* The result for two constants.
fcmpConstant(p, cmp) ==
  CASE p = "ORD" -> cmp # "unordered"
    [] p = "UNO" -> cmp = "unordered"
    [] p \in {"UEQ", "UGT", "UGE", "ULT", "ULE"} /\ cmp = "unordered" -> TRUE
    [] p \in {"UEQ", "OEQ"} -> cmp = "equal"
    [] p \in {"UGT", "OGT"} -> cmp = "greater"
    [] p \in {"UGE", "OGE"} -> cmp \in {"greater", "equal"}
    [] p \in {"ULT", "OLT"} -> cmp = "less"
    [] p \in {"ULE", "OLE"} -> cmp \in {"less", "equal"}
    [] p = "UNE" -> cmp = "unordered" \/ cmp # "equal"
    [] p = "ONE" -> cmp # "unordered" /\ cmp # "equal"
    [] p = "FALSE" -> FALSE
    [] p = "TRUE" -> TRUE

\* The expression when an operand is symbolic.  ORD and UNO bind nothing; FALSE falls
\* through to TRUE.
fcmpSymbolic(p, l, r) ==
  CASE p \in {"ORD", "UNO"} -> [k |-> "unbound", w |-> 1]
    [] p \in {"UEQ", "OEQ"} -> alloc("Eq", l, r)
    [] p \in {"UGT", "OGT"} -> alloc("Slt", r, l)
    [] p \in {"UGE", "OGE"} -> alloc("Sle", r, l)
    [] p \in {"ULT", "OLT"} -> alloc("Slt", l, r)
    [] p \in {"ULE", "OLE"} -> alloc("Sle", l, r)
    [] p \in {"UNE", "ONE"} -> alloc("Ne", l, r)
    [] p \in {"FALSE", "TRUE"} -> Const(1, 1)

\* The numbers an ordered or unordered predicate relates, as LLVM names them.
relates(p) ==
  CASE p \in {"UEQ", "OEQ"} -> {"equal"} [] p \in {"UGT", "OGT"} -> {"greater"}
    [] p \in {"UGE", "OGE"} -> {"greater", "equal"} [] p \in {"ULT", "OLT"} -> {"less"}
    [] p \in {"ULE", "OLE"} -> {"less", "equal"} [] p \in {"UNE", "ONE"} -> {"less", "greater"}
    [] p \in {"ORD", "TRUE"} -> {"less", "equal", "greater"} [] OTHER -> {}

\* The encoding of symbolic floats has no NaN, and FALSE is not met by it: no value is expected.
FCmp ==
  \E p \in Predicates, a \in Ints, b \in Ints :
    LET l == operand(a)
        r == operand(b)
        both == isConst(l.x) /\ isConst(r.x)
        cmp(env) == compare(l.v[env], r.v[env])
        expected(env) ==
          IF ~ both /\ (cmp(env) = "unordered" \/ p = "FALSE") THEN Undef
          ELSE bool(cmp(env) \in relates(p)
                    \/ (cmp(env) = "unordered" /\ p \in {"UNO", "UEQ", "UGT", "UGE", "ULT", "ULE", "UNE", "TRUE"}))
    IN /\ newest(a, b)
       /\ l.t.w = ElemWidth
       /\ r.t.w = ElemWidth
       /\ bindLocal([k |-> "flag", w |-> 1, of |-> <<>>],
                    IF both THEN Const(bool(fcmpConstant(p, compare(l.x.v, r.x.v))), 1)
                    ELSE fcmpSymbolic(p, l.x, r.x),
                    [env \in Env |-> expected(env)])

-----------------------------------------------------------------------------
\* Calls.

\* The conversion of an argument or a result when the call is through a bitcast.
coerce(r, sext, w) ==
  LET k == IF sext THEN "SExt" ELSE "ZExt"
  IN [t |-> int(w), x |-> createExt(k, r.x, w), v |-> [env \in Env |-> extend(r.v[env], r.t.w, w, k)]]

\* The bytes the variable arguments take, each rounded up to words, up to argument i.
extent(args, i) ==
  FoldLeft(LAMBDA sum, r : sum + roundUp(r.t.w, PointerWidth) \div ElemWidth, 0, SubSeq(args, 1, i))

fail(error) == status' = error

\* executeCall of a function with a body: the new frame, its variable arguments, its arguments.
executeCall(f, args, want, sext) ==
  LET formals == Len(f.params)
      enough == Len(args) >= formals
      extra == IF enough /\ f.vararg THEN SubSeq(args, formals + 1, Len(args)) ELSE <<>>
      frame == [locals |-> IF enough THEN SubSeq(args, 1, formals) ELSE <<>>, want |-> want, sext |-> sext,
                varargs |-> [i \in DOMAIN extra |-> [offset |-> extent(extra, i - 1), arg |-> extra[i]]],
                size |-> extent(extra, Len(extra)), next |-> -1, taken |-> 0, vararg |-> f.vararg]
  IN /\ stack' = Append(stack, frame)
     /\ IF enough THEN UNCHANGED status ELSE fail("calling function with too few arguments")

\* A call: through the function itself, or through a bitcast of it to any other type.
Call ==
  \E f \in Functions, cast \in BOOLEAN, sext \in BOOLEAN, want \in {0, ElemWidth, PointerWidth}, m \in 0..2 :
    \E os \in [1..m -> Ints] :
      LET args == [i \in 1..m |-> operand(os[i])]
          formal(i) == i <= Len(f.params)
          fits(i) == formal(i) => args[i].t.w = f.params[i]
      IN /\ Len(stack) = 1
         /\ m > 0 => \E i \in 1..m : newest(os[i], os[i])
         /\ cast \/ (/\ m = Len(f.params) \/ (f.vararg /\ m > Len(f.params))
                     /\ \A i \in 1..m : fits(i)
                     /\ ~ sext)
         /\ executeCall(f, [i \in 1..m |-> IF cast /\ ~ fits(i) THEN coerce(args[i], sext, f.params[i]) ELSE args[i]],
                        want, sext)

\* llvm.va_start: the list starts at the object, with the registers used up.
VAStart ==
  /\ top.vararg
  /\ stack' = Front(stack) \o <<[top EXCEPT !.next = 0, !.taken = 0]>>
  /\ UNCHANGED status

\* The compiled va_arg: it reads at the list's offset and moves it on by whole words.
VAArg ==
  /\ top.next >= 0
  /\ top.taken < Len(top.varargs)
  /\ LET arg == top.varargs[top.taken + 1].arg
         found == {i \in DOMAIN top.varargs : top.varargs[i].offset = top.next}
         read == IF found = {} THEN Const(0, arg.t.w) ELSE top.varargs[CHOOSE i \in found : TRUE].arg.x
     IN stack' = Front(stack) \o
                 <<[top EXCEPT !.next = @ + roundUp(arg.t.w, PointerWidth) \div ElemWidth, !.taken = @ + 1,
                               !.locals = Append(@, [t |-> arg.t, x |-> read, v |-> arg.v])]>>
  /\ UNCHANGED status

\* Ret: the frame is popped and the result, converted, is bound in the caller.
Ret ==
  \E o \in Ints \cup {noOperand} :
    LET caller == stack[Len(stack) - 1]
        result == coerce(operand(o), top.sext, top.want)
        same == operand(o).t.w = top.want
    IN /\ o # noOperand => (newest(o, o) \/ top.locals = <<>>)
       /\ IF Len(stack) = 1 THEN fail("exited") /\ UNCHANGED stack
          ELSE IF o = noOperand /\ top.want # 0
          THEN fail("return void when caller expected a result") /\ stack' = Front(stack)
          ELSE IF o = noOperand \/ top.want = 0 THEN stack' = Front(stack) /\ UNCHANGED status
          ELSE /\ stack' = SubSeq(stack, 1, Len(stack) - 2) \o
                           <<[caller EXCEPT !.locals = Append(@, IF same THEN operand(o) ELSE result)]>>
               /\ UNCHANGED status

-----------------------------------------------------------------------------

symbolicByte == [t |-> int(ElemWidth), x |-> x0, v |-> [env \in Env |-> env[0]]]

\* main starts with a symbolic byte in its first register.
InstrInit ==
  /\ constantTable = bindModuleConstants
  /\ stack = <<[locals |-> <<symbolicByte>>, want |-> 0, sext |-> FALSE, varargs |-> <<>>, size |-> 0,
                next |-> -1, taken |-> 0, vararg |-> FALSE]>>
  /\ status = "running"
  /\ steps = 0

InstrNext ==
  /\ status = "running"
  /\ steps < MaxSteps
  /\ \/ Arithmetic \/ ICmp \/ Select \/ Cast \/ GetElementPtr \/ InsertValue \/ ExtractValue \/ FCmp
     \/ Call \/ VAStart \/ VAArg \/ Ret
  /\ steps' = steps + 1
  /\ UNCHANGED constantTable

InstrSpec == InstrInit /\ [][InstrNext]_instrVars

-----------------------------------------------------------------------------
\* Every register of every frame holds the value LLVM gives it, under every assignment, with
\* the width of its type: whatever conversions, offsets, parts, arguments, variable arguments
\* and results it came through.  Each field of an aggregate is where its layout says.
RegistersRight ==
  \A d \in DOMAIN stack : \A i \in DOMAIN stack[d].locals :
    LET r == stack[d].locals[i]
        field(f, env) == (eval(r.x, env) \div 2^(ElemWidth * fieldOffset(r.t, f))) % 2^(r.t.of[f].w)
    IN /\ r.x.w = r.t.w
       /\ \A env \in Env :
            CASE r.t.k = "int" -> eval(r.x, env) = r.v[env]
              [] r.t.k = "flag" -> r.x.k = "unbound" \/ r.v[env] = Undef \/ eval(r.x, env) = r.v[env]
              [] OTHER -> \A f \in 1..2 : field(f, env) = r.v[env][f]

\* The variable arguments lie in their object one after the other, none over another, each at
\* the beginning of a word: the pass that measures them and the one that writes them agree.
VarargsFit ==
  \A d \in DOMAIN stack : \A i \in DOMAIN stack[d].varargs :
    LET at1 == stack[d].varargs[i]
        end == at1.offset + bytes(at1.arg.t.w)
    IN /\ end <= stack[d].size
       /\ i < Len(stack[d].varargs) => end <= stack[d].varargs[i + 1].offset
====
