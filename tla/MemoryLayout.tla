---------------------------- MODULE MemoryLayout ----------------------------
(***************************************************************************)
(* The interpreter learns where the mutexes of a global variable, a local  *)
(* variable or an allocation are by walking its type, and the recorder     *)
(* learns the initial values of shared variables by walking initializers.  *)
(* Both compute addresses on their own; memory is laid out by DataLayout.  *)
(*                                                                         *)
(* A type is [kind |-> "char" | "word" | "string" | "mutex"], an array     *)
(* or a struct; "string" is a pointer whose initializer is the address of  *)
(* a constant.                                                             *)
(***************************************************************************)
EXTENDS Naturals, Sequences, FiniteSetsExt, SequencesExt

CONSTANTS
  Types,                \* types of the variables
  Start                 \* address of a variable: aligned for every type

VARIABLES
  type,                 \* type of the variable
  mutexes,              \* mutexManager: addresses given to addMutex
  initializers          \* Trace::globalVariableInitializer: addresses
layoutVars == <<type, mutexes, initializers>>

\* DataLayout::getABITypeAlignment.
RECURSIVE alignment(_)
alignment(t) ==
  CASE t.kind = "char" -> 1
    [] t.kind = "array" -> alignment(t.element)
    [] t.kind = "struct" -> Max({alignment(t.fields[i]) : i \in 1..Len(t.fields)})
    [] OTHER -> 4

\* if (startAddress % alignment != 0) ...
align(address, a) ==
  IF address % a = 0 THEN address ELSE (address \div a + 1) * a

\* DataLayout::getTypeSizeInBits / 8: the size of a struct is a multiple of its
\* alignment.
RECURSIVE size(_)
size(t) ==
  CASE t.kind = "char" -> 1
    [] t.kind = "mutex" -> 8
    [] t.kind = "array" -> t.count * size(t.element)
    [] t.kind = "struct" ->
         align(FoldLeft(LAMBDA n, f : align(n, alignment(f)) + size(f), 0, t.fields),
               alignment(t))
    [] OTHER -> 4

\* Where the scalars of kinds K are, by DataLayout.
RECURSIVE place(_, _, _)
place(t, address, K) ==
  CASE t.kind = "array" ->
         UNION {place(t.element, address + i * size(t.element), K) : i \in 0..t.count - 1}
    [] t.kind = "struct" ->
         FoldLeft(LAMBDA acc, f :
                    LET a == align(acc[1], alignment(f)) IN
                      <<a + size(f), acc[2] \union place(f, a, K)>>,
                  <<address, {}>>, t.fields)[2]
    [] OTHER -> IF t.kind \in K THEN {address} ELSE {}

-----------------------------------------------------------------------------
\* Mutant: a mutex is registered where the field before it ends.
RECURSIVE createWithoutAlignment(_, _)
createWithoutAlignment(t, acc) ==
  LET a == IF t.kind = "mutex" THEN acc[1] ELSE align(acc[1], alignment(t)) IN
    CASE t.kind = "array" ->
           FoldLeft(LAMBDA b, i : createWithoutAlignment(t.element, b), acc,
                    [i \in 1..t.count |-> i])
      [] t.kind = "struct" ->
           FoldLeft(LAMBDA b, f : createWithoutAlignment(f, b), acc, t.fields)
      [] t.kind = "mutex" -> <<a + size(t), acc[2] \union {a}>>
      [] OTHER -> <<a + size(t), acc[2]>>

\* Executor::createSpecialElement: the address after the type, and the mutexes.
RECURSIVE createSpecialElement(_, _)
createSpecialElement(t, acc) ==
  LET a == align(acc[1], alignment(t)) IN
    CASE t.kind = "array" ->
           FoldLeft(LAMBDA b, i : createSpecialElement(t.element, b), acc,
                    [i \in 1..t.count |-> i])
      [] t.kind = "struct" ->
           FoldLeft(LAMBDA b, f : createSpecialElement(f, b), <<a, acc[2]>>, t.fields)
      [] t.kind = "mutex" -> <<a + size(t), acc[2] \union {a}>>
      [] OTHER -> <<a + size(t), acc[2]>>

\* PSOListener::handleInitializer: the address after the initializer, and the
\* addresses of initial values.  A constant expression is followed to the
\* constant it points to, and takes no room here.
RECURSIVE handleInitializer(_, _)
handleInitializer(t, acc) ==
  LET a == align(acc[1], alignment(t)) IN
    CASE t.kind = "array" ->
           FoldLeft(LAMBDA b, i : handleInitializer(t.element, b), acc,
                    [i \in 1..t.count |-> i])
      [] t.kind = "struct" ->
           FoldLeft(LAMBDA b, f : handleInitializer(f, b), acc, t.fields)
      [] t.kind = "string" -> acc
      [] t.kind = "mutex" -> <<a + size(t), acc[2]>>
      [] OTHER -> <<a + size(t), acc[2] \union {a}>>

\* Executor::handleInitializers, and the allocations at run time.
handleInitializers ==
  mutexes' = createSpecialElement(type, <<Start, {}>>)[2]

\* PSOListener::beforeRunMethodAsMain
beforeRunMethodAsMain ==
  initializers' = handleInitializer(type, <<Start, {}>>)[2]

LayoutInit == type \in Types /\ mutexes = {} /\ initializers = {}

LayoutNext ==
  /\ mutexes = {} /\ initializers = {}
  /\ handleInitializers
  /\ beforeRunMethodAsMain
  /\ UNCHANGED type

LayoutSpec == LayoutInit /\ [][LayoutNext]_layoutVars

-----------------------------------------------------------------------------
\* The types inside a type.
RECURSIVE parts(_)
parts(t) ==
  {t} \union CASE t.kind = "array" -> parts(t.element)
               [] t.kind = "struct" -> UNION {parts(t.fields[i]) : i \in 1..Len(t.fields)}
               [] OTHER -> {}

\* The fields of a struct end where the struct ends.
noTailPadding(t) ==
  FoldLeft(LAMBDA n, f : align(n, alignment(f)) + size(f), 0, t.fields) = size(t)

structsWithin(t) == {s \in parts(t) : s.kind = "struct"} \ {t}

\* Every mutex of a variable is known under its address when no struct inside
\* the variable's type has padding at its end (createSpecialElement).
SpecialAddressesUnpadded ==
  (mutexes # {} /\ \A s \in structsWithin(type) : noTailPadding(s)) =>
    mutexes = place(type, Start, {"mutex"})

\* Every initial value is recorded under its address when the type has no
\* pointer to a constant, and structs inside it begin and end on their fields'
\* addresses (handleInitializer).
InitialValuesUnpadded ==
  (/\ initializers # {}
   /\ \A s \in parts(type) : s.kind # "string"
   /\ \A s \in structsWithin(type) :
        noTailPadding(s) /\ alignment(s.fields[1]) = alignment(s)) =>
    initializers = place(type, Start, {"char", "word"})

=============================================================================
