----------------------------- MODULE MCProgram -----------------------------
(* What the program under test meets below its threads: its files            *)
(* (FileDescriptors), its memory (ObjectMemory), the paths its states take    *)
(* (StateForks), its instructions (Instructions) and the functions they were  *)
(* lowered from (ModulePasses).  subject says which of them a behaviour is    *)
(* of, with two sorts of programs on files; the variables of the others are   *)
(* NULL, and the files those of a program that makes no call.                 *)
EXTENDS FileDescriptors, TLC

CONSTANT NULL

VARIABLE subject

VARIABLES heap, spaces, memory

VARIABLES program, options, engine, searcher

VARIABLES constantTable, stack, status

VARIABLE steps

VARIABLES source, argument, switchType, phase, F, kf, machine

memoryVars == <<heap, spaces, memory>>

pathVars == <<program, options, engine, searcher>>

frameVars == <<constantTable, stack, status>>

stepVars == <<steps>>

functionVars == <<source, argument, switchType, phase, F, kf, machine>>

-----------------------------------------------------------------------------
\* Programs of MaxCalls calls that move data, and of fewer calls of every kind, on a table of
\* MaxFds descriptors, one symbolic file "A", a symbolic stdin and the files of the host.

\* The symbolic stdin, a descriptor of the host, the two that are free at the start, and one
\* outside the table.
TestFds == {0, 1, 3, 4, MaxFds}

TestBuffers == {<<"x">>, <<"x", "y">>}

TestFlags == {{}, {"O_WRONLY"}, {"O_RDWR"}, {"O_TRUNC"}, {"O_CREAT", "O_EXCL"},
              {"O_EXCL", "O_WRONLY"}}

TestPerms == {{}, {"r", "w"}}

TestOffsets == {-1, 0, 1}

\* Calls that move data, on one descriptor of the host and two of "A".
FewNext ==
  \/ open("A", {}, {"r", "w"}) \/ open("c", {"O_RDWR"}, {})
  \/ unlink("A")
  \/ select({0, 3})
  \/ \E fd \in {0, 3, 4} :
       \/ close(fd)
       \/ read(fd, MaxCount)
       \/ \E buf \in Buffers : write(fd, buf)
       \/ \E offset \in {-1, 1} : __fd_lseek(fd, offset, "SEEK_CUR")
       \/ dup(fd)
       \/ \E newfd \in {0, 3} : dup2(fd, newfd)

StdinMode == [type |-> "chr", perm |-> {}]

ModeOf(a) == [f \in SymFiles |-> IF f = "A" THEN a ELSE StdinMode]

AllModes == {ModeOf(a) : a \in [type : {"reg", "dir", "chr", "lnk"}, perm : {{}, {"r", "w"}}]}

RegularMode == ModeOf([type |-> "reg", perm |-> {"r", "w"}])

-----------------------------------------------------------------------------
\* Objects of two bytes, one symbolic offset and one symbolic value, two states.

TwoInputs == {0, 1} \X {0, 1}

Mem == INSTANCE ObjectMemory WITH
  Inputs <- TwoInputs, Size <- 2, Bytes <- {0, 1}, Random <- 2,
  ArrayContents <- [o \in 0 .. 1 |-> [i \in TwoInputs |-> i[o + 1]]],
  SymbolicOffsets <- {[i \in TwoInputs |-> i[1]]}, SymbolicValues <- {[i \in TwoInputs |-> i[2]]},
  Addresses <- {1, 2}, UseConstantArrays <- TRUE, LittleEndian <- TRUE, FlushedToo <- FALSE,
  MaxStates <- 2, MaxSteps <- 4

-----------------------------------------------------------------------------
\* Programs of two instructions on an input of four values, with what each makes of it.

input(a, b, c, d) == [i \in 0 .. 3 |-> <<a, b, c, d>>[i + 1]]

access(x, size, writes) == [op |-> "access", e |-> x, bytes |-> size, write |-> writes]

Operations ==
  {[op |-> "br", e |-> input(1, 1, 0, 0)],
   [op |-> "switch", e |-> input(0, 1, 2, 3), cases |-> << <<0, "a">>, <<2, "b">>, <<5, "c">> >>, default |-> "d"],
   [op |-> "call", e |-> input(1, 2, 1, 2)], [op |-> "call", e |-> input(1, 2, 9, 9)],
   access(input(4, 4, 4, 4), 2, TRUE), access(input(2, 5, 4, 5), 1, FALSE),
   access(input(4, 5, 2, 8), 1, TRUE), access(input(2, 4, 7, 7), 1, FALSE),
   access(input(4, 5, 4, 4), 2, FALSE),
   [op |-> "free", e |-> input(0, 4, 4, 2)], [op |-> "alloc", e |-> input(1, 4, 8, 8)],
   [op |-> "alloc", e |-> input(4, 9, 4, 9)],
   [op |-> "external", e |-> input(1, 1, 2, 2)], [op |-> "setForking", on |-> FALSE]}

object(b, s, r, k) == [base |-> b, size |-> s, readOnly |-> r, kind |-> k]

defaults == [MaxForks |-> 99, MaxDepth |-> 0, atMemoryLimit |-> FALSE, RandomizeFork |-> FALSE,
             staticLimit |-> FALSE, timeouts |-> FALSE, MaxSymArraySize |-> 0]

configuration(c, b, d) == [cores |-> c, batching |-> b, deepening |-> d]

Forks == INSTANCE StateForks WITH
  Inputs <- 0 .. 3, Programs <- {<<a, b>> : a \in Operations, b \in Operations},
  Objects <- {object(2, 1, FALSE, "heap"), object(4, 2, FALSE, "heap"), object(7, 0, FALSE, "heap"),
              object(8, 1, TRUE, "global")},
  legalFunctions <- {1, 2},
  Options <- {defaults, [defaults EXCEPT !.MaxForks = 1],
              [defaults EXCEPT !.MaxDepth = 2, !.RandomizeFork = TRUE],
              [defaults EXCEPT !.atMemoryLimit = TRUE], [defaults EXCEPT !.staticLimit = TRUE],
              [defaults EXCEPT !.timeouts = TRUE], [defaults EXCEPT !.MaxSymArraySize = 2]},
  Configs <- {configuration(<<"DFS">>, FALSE, FALSE), configuration(<<"BFS", "Round">>, TRUE, FALSE),
              configuration(<<"NURS">>, TRUE, TRUE)},
  SmallSize <- 4, HugeSize <- 8

-----------------------------------------------------------------------------
\* Instructions over bytes of two bits and words of four, with constants of every sort.

int(w) == [k |-> "int", w |-> w, of |-> <<>>]

byteWord == [k |-> "struct", w |-> 8, of |-> <<int(2), int(4)>>]

byteFlag == [k |-> "struct", w |-> 4, of |-> <<int(2), int(1)>>]

twoWords == [k |-> "array", w |-> 8, of |-> <<int(4), int(4)>>]

constant(k, t, v, of, op, sizes) == [k |-> k, t |-> t, v |-> v, of |-> of, op |-> op, sizes |-> sizes]

number(v, w) == constant("int", int(w), v, <<>>, "", <<>>)

global == constant("global", int(4), 5, <<>>, "", <<>>)

null == constant("null", int(4), 0, <<>>, "", <<>>)

less == constant("expr", int(1), 0, <<number(1, 2), number(3, 2)>>, "Ult", <<>>)

wide == constant("expr", int(4), 0, <<number(2, 2)>>, "SExt", <<>>)

ModuleConstants ==
  << number(3, 2), global, constant("struct", byteWord, 0, <<number(3, 2), global>>, "", <<>>),
     constant("array", twoWords, 0, <<global, null>>, "", <<>>),
     constant("undef", byteFlag, 0, <<>>, "", <<>>),
     constant("expr", int(4), 0, <<global, number(14, 4), number(2, 4)>>, "GEP", <<4, 1>>),
     constant("expr", int(4), 0, <<less, wide, global>>, "Select", <<>>) >>

Instr == INSTANCE Instructions WITH
  ElemWidth <- 2, ConstantValues <- <<1, 3, 1, 0>>, Env <- {[i \in 0 .. 3 |-> <<a, 1, 2, 3>>[i + 1]] : a \in 0 .. 3},
  ConstArrayOpt <- TRUE, MaxMatches <- 2, PointerWidth <- 4, Constants <- ModuleConstants,
  Functions <- {[params |-> <<2>>, vararg |-> FALSE], [params |-> <<4>>, vararg |-> TRUE]},
  Kinds <- {"AShr", "Sle"}, MaxSteps <- 3

-----------------------------------------------------------------------------
\* Functions with a switch (block 2) to a side block (3) or the head of a loop (4), whose phi
\* nodes 11, 12 and 13 take values round the loop (5) in any way, and an end (6).

K(v) == [const |-> TRUE, v |-> v]

V(m) == [const |-> FALSE, v |-> m]

instr(op, d, a, b) == [op |-> op, d |-> d, a |-> a, b |-> b]

block(name, code) == [name |-> name, code |-> code]

loop(first, second, other, u, v, rot, end) ==
  LET edges == <<other, first, second>>
      direct == Len(SelectSeq(edges, LAMBDA t : t = 4))
      preds == [i \in 1 .. direct |-> 2] \o <<3, 5>>
      phi(d, early, side, back, r) ==
        LET vals == [i \in 1 .. direct |-> early] \o <<side, back>>
            turn(i) == ((i - 1 + r) % (direct + 2)) + 1
        IN instr("phi", d, [i \in 1 .. (direct + 2) |-> vals[turn(i)]], [i \in 1 .. (direct + 2) |-> preds[turn(i)]])
  IN <<block(2, <<instr("switch", 0, <<V(1), K(0), K(2)>>, edges)>>),
       block(3, <<instr("add", 10, <<V(1), K(1)>>, <<>>), instr("br", 0, <<>>, <<4>>)>>),
       block(4, <<phi(11, V(1), V(10), V(u), 0), phi(12, K(3), K(2), V(v), rot), phi(13, K(0), K(0), V(15), rot),
                  instr("ult", 14, <<V(13), K(2)>>, <<>>), instr("br", 0, <<V(14)>>, <<5, 6>>)>>),
       block(5, <<instr("add", 15, <<V(13), K(1)>>, <<>>), instr("br", 0, <<>>, <<4>>)>>),
       block(6, end)>>

\* The result: an operation on both values of the loop, or the overflow of their sum.
Ends ==
  {<<instr(op, 16, <<V(11), V(12)>>, <<>>), instr("ret", 0, <<V(16)>>, <<>>)>> : op \in {"sub", "udiv", "shl"}}
  \cup {<<instr("uadd_with_overflow", 16, <<V(11), V(12)>>, <<>>),
          instr("extract", 17, <<V(16), K(1)>>, <<>>), instr("ret", 0, <<V(17)>>, <<>>)>>}

Loops ==
  {loop(a, b, c, u, v, r, l) : a \in {3, 4}, b \in {3, 4}, c \in {3, 4}, u \in {11, 12, 13}, v \in {11, 12, 15},
                               r \in 0 .. 1, l \in Ends}

Pass == INSTANCE ModulePasses WITH
  Sources <- Loops, Arguments <- 0 .. 3, Width <- 2, SwitchTypes <- {"internal", "simple"}

-----------------------------------------------------------------------------
\* Bound of the programs of any calls: an open, and two more.
AnyCalls == 3

DataStep == subject = "data" /\ FewNext

AnyStep ==
  /\ subject = "any" /\ calls < AnyCalls
  /\ \/ calls = 0 /\ (dup(1) \/ open("A", {}, {"r", "w"}))
     \/ calls > 0 /\ FdNext

FilesStep ==
  /\ DataStep \/ AnyStep
  /\ UNCHANGED <<subject, memoryVars, pathVars, frameVars, stepVars, functionVars>>

NoFiles == FdInit /\ mode = RegularMode

NoMemory ==
  /\ heap = NULL /\ spaces = NULL /\ memory = NULL

NoPaths ==
  /\ program = NULL /\ options = NULL /\ engine = NULL /\ searcher = NULL

NoFrames ==
  /\ constantTable = NULL /\ stack = NULL /\ status = NULL

NoSteps == steps = NULL

NoFunction ==
  /\ source = NULL /\ argument = NULL /\ switchType = NULL /\ phase = NULL /\ F = NULL
  /\ kf = NULL /\ machine = NULL

Init ==
  \/ /\ subject \in {"data", "any"} /\ FdInit /\ (subject = "data" => mode = RegularMode)
     /\ NoMemory /\ NoPaths /\ NoFrames /\ NoSteps /\ NoFunction
  \/ subject = "memory" /\ Mem!MemoryInit /\ NoFiles /\ NoPaths /\ NoFrames /\ NoFunction
  \/ subject = "forks" /\ Forks!ForksInit /\ NoFiles /\ NoMemory /\ NoFrames /\ NoSteps /\ NoFunction
  \/ subject = "instructions" /\ Instr!InstrInit /\ NoFiles /\ NoMemory /\ NoPaths /\ NoFunction
  \/ subject = "passes" /\ Pass!PassInit /\ NoFiles /\ NoMemory /\ NoPaths /\ NoFrames /\ NoSteps

MemoryStep ==
  /\ subject = "memory" /\ Mem!MemoryNext
  /\ UNCHANGED <<subject, vars, pathVars, frameVars, functionVars>>

ForksStep ==
  /\ subject = "forks" /\ Forks!ForksNext
  /\ UNCHANGED <<subject, vars, memoryVars, frameVars, stepVars, functionVars>>

InstructionsStep ==
  /\ subject = "instructions" /\ Instr!InstrNext
  /\ UNCHANGED <<subject, vars, memoryVars, pathVars, functionVars>>

PassesStep ==
  /\ subject = "passes" /\ Pass!PassNext
  /\ UNCHANGED <<subject, vars, memoryVars, pathVars, frameVars, stepVars>>

Next == FilesStep \/ MemoryStep \/ ForksStep \/ InstructionsStep \/ PassesStep

Spec == Init /\ [][Next]_<<subject, vars, memoryVars, pathVars, frameVars, stepVars, functionVars>>

-----------------------------------------------------------------------------
\* A read gives what was written last, whatever is cached, flushed or symbolic; no state sees
\* the writes of another one (ObjectState, AddressSpace).
MemoryRight == subject = "memory" => Mem!ReadsLast /\ Mem!CacheInvariants /\ Mem!OwnedOnce

\* Every state has exactly the inputs that follow its path, the paths part the inputs, each
\* reported error has an input, and the searcher holds the live states (fork, branch,
\* executeMemoryOperation, Searcher.cpp).
PathsRight ==
  subject = "forks" => Forks!PathsExact /\ Forks!InputsPartitioned /\ Forks!ErrorsReal /\ Forks!SearcherHolds

\* Registers hold the values LLVM's semantics give (executeInstruction), and a function
\* computes after the passes that lower it what it computed before (KModule::prepare).
ComputesRight ==
  /\ subject = "instructions" => Instr!RegistersRight /\ Instr!VarargsFit
  /\ subject = "passes" => Pass!MeaningKept /\ Pass!PhisClean

=============================================================================
