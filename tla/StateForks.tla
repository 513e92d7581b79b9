----------------------------- MODULE StateForks -----------------------------
(***************************************************************************)
(* How Executor.cpp runs one program on all inputs at once: fork, branch,  *)
(* the instructions that fork (branches, switches, calls through pointers, *)
(* accesses through symbolic addresses, allocations of symbolic size,      *)
(* free, external calls), the resolution of addresses in AddressSpace.cpp, *)
(* the ends of states, updateStates and the loop of run, with the          *)
(* searchers of Searchers.tla choosing the state to step.                  *)
(*                                                                         *)
(* The path condition of a state is the set of inputs that satisfy it, an  *)
(* expression is a function of the input, and a program is a sequence of   *)
(* instructions.  A state logs the outcome of each instruction, so that it *)
(* can be compared with what the program does on one input.  Operators     *)
(* return the SET of their outcomes: solver examples, timeouts, and the    *)
(* random number generator are what the outcomes differ in.  Seeds are     *)
(* left out: seedMap is always empty, as the seeding in run is commented   *)
(* out.  Path streams and statistics are left out as well.                 *)
(***************************************************************************)
EXTENDS Searchers, FiniteSetsExt

CONSTANTS Inputs,       \* the values of the program's symbolic input
          Programs,     \* sequences of instructions
          Objects,      \* the memory objects at the start
          legalFunctions,
          Options,      \* command line: limits and solver timeouts
          Configs,      \* searchers: [cores, batching, deepening]
          SmallSize,    \* 128: executeAlloc tries sizes up to it first
          HugeSize      \* 1 << 31: malloc is taken to fail above it

VARIABLES program,   \* chosen at the start
          options,   \* chosen at the start
          engine,    \* the executor: see InitialEngine
          searcher   \* of Searchers.tla

forksVars == <<program, options, engine, searcher>>

-----------------------------------------------------------------------------
(* Objects are [base, size, readOnly, kind].                               *)

\* MemoryObject::getBoundsCheckPointer, without and with a number of bytes.
getBoundsCheckPointer(o, a) ==
    IF o.size = 0 THEN a = o.base ELSE o.base <= a /\ a < o.base + o.size

getBoundsCheckBytes(o, a, bytes) ==
    bytes <= o.size /\ o.base <= a /\ a < o.base + o.size - bytes + 1

sorted(objects) == SetToSortSeq(objects, LAMBDA o, p : o.base < p.base)

\* MemoryMap::lookup_previous: the set of the last object that starts at or
\* before the address.
lookup_previous(objects, a) ==
    {o \in objects : /\ o.base <= a
                     /\ \A p \in objects : p.base <= a => p.base <= o.base}

resolveConstant(objects, a) ==
    {o \in lookup_previous(objects, a) : getBoundsCheckPointer(o, a)}

-----------------------------------------------------------------------------
(* The reference: what the program does on one input.                      *)

\* The outcome of an instruction on input i: an event, or error.
error == <<"error">>

concreteAccess(ins, objects, i) ==
    LET hit == {o \in objects : getBoundsCheckBytes(o, ins.e[i], ins.bytes)}
    IN  IF hit = {} \/ (ins.write /\ \E o \in hit : o.readOnly) THEN error
        ELSE <<"access", (CHOOSE o \in hit : TRUE).base>>

concreteSwitch(ins, i) ==
    IF \E k \in DOMAIN ins.cases : ins.cases[k][1] = ins.e[i]
    THEN ins.cases[CHOOSE k \in DOMAIN ins.cases : ins.cases[k][1] = ins.e[i]][2]
    ELSE ins.default

concreteFree(ins, objects, i) ==
    IF ins.e[i] = 0 \/ \E o \in objects : o.base = ins.e[i] /\ o.kind = "heap"
    THEN <<"free", ins.e[i]>> ELSE error

concrete(ins, objects, i) ==
    CASE ins.op = "br"         -> <<"br", ins.e[i]>>
      [] ins.op = "switch"     -> <<"switch", concreteSwitch(ins, i)>>
      [] ins.op = "call"       -> IF ins.e[i] \in legalFunctions
                                  THEN <<"call", ins.e[i]>> ELSE error
      [] ins.op = "access"     -> concreteAccess(ins, objects, i)
      [] ins.op = "free"       -> concreteFree(ins, objects, i)
      [] ins.op = "alloc"      -> <<"alloc", IF ins.e[i] > HugeSize THEN 0 ELSE ins.e[i]>>
      [] ins.op = "external"   -> <<"external", ins.e[i]>>
      [] ins.op = "setForking" -> <<"setForking">>

\* The objects that are left after an event.
freed(objects, event) ==
    IF event[1] = "free" THEN {o \in objects : o.base # event[2]} ELSE objects

\* The log and the objects of the first n instructions on input i.
concreteRun(n, i) ==
    FoldLeft(LAMBDA r, ins : LET event == concrete(ins, r.objects, i)
                             IN [log |-> Append(r.log, event),
                                 objects |-> freed(r.objects, event)],
             [log |-> <<>>, objects |-> Objects],
             SubSeq(program, 1, n))

-----------------------------------------------------------------------------
(* The executor: all states ever made, the sets of live, added and removed *)
(* ones (by number), the number of forks and execStatus.  For the          *)
(* properties: the inputs that are explored no more for an admitted        *)
(* reason, those that ran to the end, those on which the instruction just  *)
(* executed fails, and whether the executor gave up on a symbolic value.   *)

InitialState == [inputs |-> Inputs, objects |-> Objects, log |-> <<>>,
                 depth |-> 0, forkDisabled |-> FALSE]

InitialEngine ==
    [st |-> <<InitialState>>, states |-> {1}, added |-> {}, removed |-> {},
     forks |-> 0, execStatus |-> "SUCCESS", halted |-> FALSE,
     cut |-> {}, ended |-> {}, failing |-> {}, gaveUp |-> FALSE]

values(G, s, e) == {e[i] : i \in G.st[s].inputs}
isConstant(e) == \A i, j \in Inputs : e[i] = e[j]
where(e, v) == {i \in Inputs : e[i] = v}
mayBeTrue(G, s, cond) == G.st[s].inputs \cap cond # {}
mustBeTrue(G, s, cond) == G.st[s].inputs \subseteq cond

\* Executor::addConstraint.  The condition is satisfiable in the state.
addConstraint(G, s, cond) == [G EXCEPT !.st[s].inputs = @ \cap cond]

\* A constraint that drops inputs nobody else explores.
concretize(G, s, cond) ==
    addConstraint([G EXCEPT !.cut = @ \cup (G.st[s].inputs \ cond)], s, cond)

\* An added state is deleted at once; another one is removed by updateStates.
terminateState(G, s) ==
    IF s \in G.added THEN [G EXCEPT !.added = @ \ {s}]
    ELSE [G EXCEPT !.removed = @ \cup {s}]

terminateStateEarly(G, s) ==
    terminateState([G EXCEPT !.cut = @ \cup G.st[s].inputs], s)

\* terminateStateOnError also ends the run, whatever other states there are.
terminateStateOnError(G, s) ==
    [terminateState(G, s) EXCEPT !.execStatus = "RUNTIMEERROR"]

\* An error that is the executor's own: it will not follow a symbolic value.
giveUp(G, s) == [terminateStateOnError(G, s) EXCEPT !.gaveUp = TRUE]

logged(G, s, event) ==
    [G EXCEPT !.st[s].log = Append(@, event), !.st[s].objects = freed(@, event)]

-----------------------------------------------------------------------------
(* fork(current, condition): outcomes are [g, first, second], 0 for null.  *)

\* ExecutionState::branch: the copy is the next state.
branchOff(G, s) ==
    LET deeper == [G.st[s] EXCEPT !.depth = @ + 1]
    IN [G EXCEPT !.st = Append([@ EXCEPT ![s] = deeper], deeper),
                 !.added = @ \cup {Len(G.st) + 1}]

onlyTrue(G, s)  == [g |-> G, first |-> s, second |-> 0]
onlyFalse(G, s) == [g |-> G, first |-> 0, second |-> s]
neither(G)      == [g |-> G, first |-> 0, second |-> 0]

\* Forking is inhibited: one side is taken at random.
inhibited(G, s) ==
    \/ options.atMemoryLimit
    \/ G.st[s].forkDisabled
    \/ G.forks >= options.MaxForks

\* Both sides are possible and forking is allowed; RandomizeFork may swap the
\* two states, and MaxDepth ends both of them.
forkBoth(G, s, cond) ==
    LET n == Len(G.st) + 1
        B == [branchOff(G, s) EXCEPT !.forks = @ + 1]
        split(t, f) == addConstraint(addConstraint(B, t, cond), f, Inputs \ cond)
        checked(t, f) ==
            IF 0 < options.MaxDepth /\ options.MaxDepth <= split(t, f).st[t].depth
            THEN neither(terminateStateEarly(terminateStateEarly(split(t, f), t), f))
            ELSE [g |-> split(t, f), first |-> t, second |-> f]
    IN  {checked(s, n)} \cup (IF options.RandomizeFork THEN {checked(n, s)} ELSE {})

\* Mutant: a skipped fork takes one side and adds no constraint.
forkUnconstrained(G, s, cond) ==
    CASE mustBeTrue(G, s, cond)           -> {onlyTrue(G, s)}
      [] mustBeTrue(G, s, Inputs \ cond)  -> {onlyFalse(G, s)}
      [] OTHER -> IF inhibited(G, s) THEN {onlyTrue(G, s), onlyFalse(G, s)}
                  ELSE forkBoth(G, s, cond)

\* The answer of the solver decides.
forkEvaluated(G, s, cond) ==
    CASE mustBeTrue(G, s, cond)           -> {onlyTrue(G, s)}
      [] mustBeTrue(G, s, Inputs \ cond)  -> {onlyFalse(G, s)}
      [] OTHER -> IF inhibited(G, s)
                  THEN {onlyTrue(concretize(G, s, cond), s),
                        onlyFalse(concretize(G, s, Inputs \ cond), s)}
                  ELSE forkBoth(G, s, cond)

\* A condition is not a constant unless it is the same for all inputs.  With
\* the static limits exceeded the condition is fixed to one of its values
\* first; the solver may run out of time on a condition that is not.
fork(G, s, cond) ==
    LET symbolic == cond \notin {{}, Inputs}
        sides == {c \in {cond, Inputs \ cond} : mayBeTrue(G, s, c)}
    IN  IF symbolic /\ options.staticLimit
        THEN UNION {forkEvaluated(concretize(G, s, c), s, cond) : c \in sides}
        ELSE forkEvaluated(G, s, cond)
               \cup (IF symbolic /\ options.timeouts
                     THEN {neither(terminateStateEarly(G, s))} ELSE {})

-----------------------------------------------------------------------------
(* branch(state, conditions): outcomes are [g, result], result[k] the      *)
(* state that takes conditions[k].                                         *)

\* Each new state is copied from one of those made so far.
RECURSIVE branchOut(_, _, _)
branchOut(G, result, n) ==
    IF Len(result) = n THEN {[g |-> G, result |-> result]}
    ELSE UNION {branchOut(branchOff(G, result[k]), Append(result, Len(G.st) + 1), n)
                  : k \in DOMAIN result}

RECURSIVE constrainEach(_, _, _, _)
constrainEach(G, result, conditions, k) ==
    IF k > Len(result) THEN G
    ELSE constrainEach(addConstraint(G, result[k], conditions[k]),
                       result, conditions, k + 1)

branch(G, s, conditions) ==
    LET N == Len(conditions)
    IN  IF G.forks >= options.MaxForks
        THEN {[g |-> concretize(G, s, conditions[next]),
               result |-> [k \in 1..N |-> IF k = next THEN s ELSE 0]] : next \in 1..N}
        ELSE {[r EXCEPT !.g = constrainEach(r.g, r.result, conditions, 1)]
                : r \in branchOut([G EXCEPT !.forks = @ + N - 1], <<s>>, N)}

-----------------------------------------------------------------------------
(* Values.                                                                 *)

\* toUnique: outcomes are TRUE when the expression is replaced by its value.
toUnique(G, s, e) ==
    {isConstant(e) \/ Cardinality(values(G, s, e)) = 1}
      \cup (IF options.timeouts /\ ~isConstant(e) THEN {FALSE} ELSE {})

\* toConstant: outcomes are [g, value].
toConstant(G, s, e) ==
    {[g |-> concretize(G, s, where(e, v)), value |-> v] : v \in values(G, s, e)}

-----------------------------------------------------------------------------
(* AddressSpace: resolveOne and resolve on a symbolic address.             *)

\* The search of resolveOne: the first object the address may be in, going
\* back from the example's place and then forward.
RECURSIVE searchBack(_, _, _, _, _)
searchBack(G, s, e, order, k) ==
    IF k = 0 THEN {}
    ELSE LET o == order[k]
         IN  IF mayBeTrue(G, s, {i \in Inputs : getBoundsCheckPointer(o, e[i])}) THEN {o}
             ELSE IF mustBeTrue(G, s, {i \in Inputs : e[i] >= o.base}) THEN {}
             ELSE searchBack(G, s, e, order, k - 1)

RECURSIVE searchForward(_, _, _, _, _)
searchForward(G, s, e, order, k) ==
    IF k > Len(order) THEN {}
    ELSE LET o == order[k]
         IN  IF mustBeTrue(G, s, {i \in Inputs : e[i] < o.base}) THEN {}
             ELSE IF mayBeTrue(G, s, {i \in Inputs : getBoundsCheckPointer(o, e[i])}) THEN {o}
             ELSE searchForward(G, s, e, order, k + 1)

\* upper_bound: how many objects start at or before the address.
upper_bound(order, a) == Cardinality({k \in DOMAIN order : order[k].base <= a})

\* Outcomes are sets of at most one object.
resolveOne(G, s, e) ==
    LET objects == G.st[s].objects
        order == sorted(objects)
        from(a) ==
            LET cheap == {o \in lookup_previous(objects, a) : a - o.base < o.size}
                back == searchBack(G, s, e, order, upper_bound(order, a))
            IN  IF cheap # {} THEN cheap
                ELSE IF back # {} THEN back
                ELSE searchForward(G, s, e, order, upper_bound(order, a) + 1)
    IN  IF isConstant(e) THEN {resolveConstant(objects, e[CHOOSE i \in Inputs : TRUE])}
        ELSE {from(a) : a \in values(G, s, e)}

\* resolve collects every object the address may be in: [rl, done], done when
\* the first one found holds the address for sure.
found(G, s, e, o, rl) ==
    LET inBounds == {i \in Inputs : getBoundsCheckPointer(o, e[i])}
    IN  IF mayBeTrue(G, s, inBounds)
        THEN [rl |-> Append(rl, o), done |-> rl = <<>> /\ mustBeTrue(G, s, inBounds)]
        ELSE [rl |-> rl, done |-> FALSE]

RECURSIVE resolveBack(_, _, _, _, _, _)
resolveBack(G, s, e, order, k, rl) ==
    IF k = 0 THEN [rl |-> rl, done |-> FALSE]
    ELSE LET r == found(G, s, e, order[k], rl)
         IN  IF r.done \/ mustBeTrue(G, s, {i \in Inputs : e[i] >= order[k].base}) THEN r
             ELSE resolveBack(G, s, e, order, k - 1, r.rl)

RECURSIVE resolveForward(_, _, _, _, _, _)
resolveForward(G, s, e, order, k, rl) ==
    IF k > Len(order) \/ mustBeTrue(G, s, {i \in Inputs : e[i] < order[k].base}) THEN rl
    ELSE LET r == found(G, s, e, order[k], rl)
         IN  IF r.done THEN r.rl
             ELSE resolveForward(G, s, e, order, k + 1, r.rl)

\* Mutant: the search does not look at the objects after the example.
resolveBackOnly(G, s, e, timed) ==
    LET objects == G.st[s].objects
        order == sorted(objects)
        from(a) == resolveBack(G, s, e, order, upper_bound(order, a), <<>>).rl
    IN  {[rl |-> from(a), incomplete |-> FALSE] : a \in values(G, s, e)}

\* Outcomes are [rl, incomplete]; a query that times out ends the search with
\* what it has found.
resolve(G, s, e, timed) ==
    LET objects == G.st[s].objects
        order == sorted(objects)
        from(a) == LET back == resolveBack(G, s, e, order, upper_bound(order, a), <<>>)
                   IN  IF back.done THEN back.rl
                       ELSE resolveForward(G, s, e, order, upper_bound(order, a) + 1, back.rl)
        complete == {from(a) : a \in values(G, s, e)}
    IN  IF isConstant(e)
        THEN {[rl |-> SetToSeq(resolveConstant(objects, e[CHOOSE i \in Inputs : TRUE])),
               incomplete |-> FALSE]}
        ELSE {[rl |-> rl, incomplete |-> FALSE] : rl \in complete}
               \cup (IF timed /\ options.timeouts
                     THEN UNION {{[rl |-> SubSeq(rl, 1, k), incomplete |-> TRUE]
                                    : k \in 0..Len(rl)} : rl \in complete}
                     ELSE {})

-----------------------------------------------------------------------------
(* The instructions.  Each returns the set of executors it may leave.      *)

\* Br: each side goes to its block.
executeBr(G, s, ins) ==
    {LET yes == IF r.first = 0 THEN r.g ELSE logged(r.g, r.first, <<"br", 1>>)
     IN IF r.second = 0 THEN yes ELSE logged(yes, r.second, <<"br", 0>>)
       : r \in fork(G, s, where(ins.e, 1))}

\* The blocks a switch may go to, with their conditions.  A case adds its
\* match to its block's condition; the default block is inserted last, which
\* does nothing when it is the block of a possible case as well.
targets(G, s, ins) ==
    LET possible == {k \in DOMAIN ins.cases : mayBeTrue(G, s, where(ins.e, ins.cases[k][1]))}
        blocks == {ins.cases[k][2] : k \in possible}
        isDefault == {i \in Inputs : \A k \in DOMAIN ins.cases : ins.e[i] # ins.cases[k][1]}
        ofCases(b) == UNION {where(ins.e, ins.cases[k][1])
                               : k \in {j \in possible : ins.cases[j][2] = b}}
    IN  {[block |-> b, cond |-> ofCases(b)] : b \in blocks}
          \cup (IF mayBeTrue(G, s, isDefault) /\ ins.default \notin blocks
                THEN {[block |-> ins.default, cond |-> isDefault]} ELSE {})

RECURSIVE transferEach(_, _, _, _)
transferEach(G, result, order, k) ==
    IF k > Len(result) THEN G
    ELSE transferEach(IF result[k] = 0 THEN G
                      ELSE logged(G, result[k], <<"switch", order[k].block>>),
                      result, order, k + 1)

\* Switch: one state for each block, in the order of the blocks' addresses.
executeSwitch(G, s, ins) ==
    UNION {IF unique
           THEN {logged(G, s, <<"switch", concreteSwitch(ins, i)>>)
                   : i \in {CHOOSE j \in G.st[s].inputs : TRUE}}
           ELSE UNION {{transferEach(r.g, r.result, order, 1)
                          : r \in branch(G, s, [k \in DOMAIN order |-> order[k].cond])}
                         : order \in SetToSeqs(targets(G, s, ins))}
             : unique \in toUnique(G, s, ins.e)}

\* Call through a pointer: one state for each value, as the solver gives
\* them.  It is the calling state that is ended when a value is no function.
RECURSIVE callEach(_, _, _, _, _)
callEach(G, s, free, ins, hasInvalid) ==
    LET called(g, t, v) ==
            IF t = 0 THEN g
            ELSE IF v \in legalFunctions THEN logged(g, t, <<"call", v>>)
            ELSE IF hasInvalid THEN g
            ELSE terminateStateOnError(g, s)
        invalid(t, v) == hasInvalid \/ (t # 0 /\ v \notin legalFunctions)
    IN  UNION {UNION {IF r.second = 0 THEN {called(r.g, r.first, v)}
                      ELSE callEach(called(r.g, r.first, v), s, r.second, ins,
                                    invalid(r.first, v))
                        : r \in fork(G, free, where(ins.e, v))}
                 : v \in values(G, free, ins.e)}

\* callExternalFunction without AllowExternalSymCalls: the argument must have
\* one value.
executeExternal(G, s, ins) ==
    {IF unique THEN logged(G, s, <<"external", ins.e[CHOOSE i \in G.st[s].inputs : TRUE]>>)
     ELSE giveUp(G, s) : unique \in toUnique(G, s, ins.e)}

\* executeAlloc of a size with one value.  Whether malloc gives memory for a
\* huge size is the host's affair: the log has 0 for it in either case.
allocated(G, s, size) ==
    logged(G, s, <<"alloc", IF size > HugeSize THEN 0 ELSE size>>)

\* The example is halved while it is large and its half is possible too.
RECURSIVE smallExample(_, _, _, _)
smallExample(G, s, e, v) ==
    IF v > SmallSize /\ mayBeTrue(G, s, where(e, v \div 2))
    THEN smallExample(G, s, e, v \div 2) ELSE v

\* The states that do not have the example's size: with one other value they
\* allocate it, else the huge sizes get null and the others are given up.
allocOther(G, s, e) ==
    IF s = 0 THEN {G}
    ELSE IF Cardinality(values(G, s, e)) = 1
    THEN {allocated(G, s, v) : v \in values(G, s, e)}
    ELSE {LET huge == IF r.first = 0 THEN r.g ELSE logged(r.g, r.first, <<"alloc", 0>>)
          IN IF r.second = 0 THEN huge ELSE giveUp(huge, r.second)
            : r \in fork(G, s, {i \in Inputs : HugeSize < e[i]})}

allocSymbolic(G, s, e, example) ==
    UNION {{IF r.first = 0 THEN g ELSE allocated(g, r.first, example)
              : g \in allocOther(r.g, r.second, e)}
             : r \in fork(G, s, where(e, example))}

executeAlloc(G, s, ins) ==
    UNION {IF unique THEN {allocated(G, s, v) : v \in values(G, s, ins.e)}
           ELSE UNION {allocSymbolic(G, s, ins.e, smallExample(G, s, ins.e, v))
                         : v \in values(G, s, ins.e)}
             : unique \in toUnique(G, s, ins.e)}

\* resolveExact: [g, unbound, results], results pairs of an object and the
\* state in which the pointer is its address.
RECURSIVE resolveExact(_, _, _, _, _)
resolveExact(G, unbound, e, rl, results) ==
    IF rl = <<>> THEN {[g |-> terminateStateOnError(G, unbound), results |-> results]}
    ELSE UNION {LET more == IF r.first = 0 THEN results
                            ELSE Append(results, <<Head(rl), r.first>>)
                IN  IF r.second = 0 THEN {[g |-> r.g, results |-> more]}
                    ELSE resolveExact(r.g, r.second, e, Tail(rl), more)
                  : r \in fork(G, unbound, where(e, Head(rl).base))}

freeEach(G, results) ==
    FoldLeft(LAMBDA g, r : IF r[1].kind # "heap" THEN terminateStateOnError(g, r[2])
                           ELSE logged(g, r[2], <<"free", r[1].base>>),
             G, results)

executeFree(G, s, ins) ==
    UNION {LET null == IF z.first = 0 THEN z.g ELSE logged(z.g, z.first, <<"free", 0>>)
           IN  IF z.second = 0 THEN {null}
               ELSE UNION {{freeEach(x.g, x.results)
                              : x \in resolveExact(null, z.second, ins.e, r.rl, <<>>)}
                             : r \in resolve(null, z.second, ins.e, FALSE)}
             : z \in fork(G, s, where(ins.e, 0))}

\* A state whose address is in the object reads or writes it.
access(G, s, ins, o) ==
    IF ins.write /\ o.readOnly THEN terminateStateOnError(G, s)
    ELSE logged(G, s, <<"access", o.base>>)

\* One state for each object found; what is left is out of bounds.
RECURSIVE accessEach(_, _, _, _, _, _)
accessEach(G, unbound, ins, e, rl, incomplete) ==
    IF rl = <<>>
    THEN {IF incomplete THEN terminateStateEarly(G, unbound)
          ELSE terminateStateOnError(G, unbound)}
    ELSE LET o == Head(rl)
         IN  UNION {LET bound == IF r.first = 0 THEN r.g ELSE access(r.g, r.first, ins, o)
                    IN  IF r.second = 0 THEN {bound}
                        ELSE accessEach(bound, r.second, ins, e, Tail(rl), incomplete)
                      : r \in fork(G, unbound,
                                   {i \in Inputs : getBoundsCheckBytes(o, e[i], ins.bytes)})}

accessResolved(G, s, ins, e) ==
    UNION {accessEach(G, s, ins, e, r.rl, r.incomplete) : r \in resolve(G, s, e, TRUE)}

\* With one object found by resolveOne the bounds are checked at once; a
\* large object is read and written at one address only.
accessOne(G, s, ins, e, o) ==
    LET large == options.MaxSymArraySize > 0 /\ o.size >= options.MaxSymArraySize
        fixed == IF large /\ ~isConstant(e)
                 THEN {[g |-> c.g, e |-> [i \in Inputs |-> c.value]] : c \in toConstant(G, s, e)}
                 ELSE {[g |-> G, e |-> e]}
        inBounds(e2) == {i \in Inputs : getBoundsCheckBytes(o, e2[i], ins.bytes)}
        checked(g, e2) == IF mustBeTrue(g, s, inBounds(e2)) THEN {access(g, s, ins, o)}
                          ELSE accessResolved(g, s, ins, e2)
    IN  UNION {checked(f.g, f.e)
                 \cup (IF options.timeouts /\ ~isConstant(f.e)
                       THEN {terminateStateEarly(f.g, s)} ELSE {}) : f \in fixed}

accessAt(G, s, ins, e, op) ==
    IF op = {} THEN accessResolved(G, s, ins, e)
    ELSE UNION {accessOne(G, s, ins, e, o) : o \in op}

\* When resolveOne itself times out the address is fixed to one value.
executeMemoryOperation(G, s, ins) ==
    LET constant(v) == [i \in Inputs |-> v]
    IN  UNION {accessAt(G, s, ins, ins.e, op) : op \in resolveOne(G, s, ins.e)}
          \cup (IF options.timeouts /\ ~isConstant(ins.e)
                THEN UNION {accessAt(c.g, s, ins, constant(c.value),
                                     resolveConstant(c.g.st[s].objects, c.value))
                              : c \in toConstant(G, s, ins.e)}
                ELSE {})

\* klee_set_forking.
setForking(G, s, ins) ==
    {logged([G EXCEPT !.st[s].forkDisabled = ~ins.on], s, <<"setForking">>)}

executeInstruction(G, s, ins) ==
    CASE ins.op = "br"         -> executeBr(G, s, ins)
      [] ins.op = "switch"     -> executeSwitch(G, s, ins)
      [] ins.op = "call"       -> callEach(G, s, s, ins, FALSE)
      [] ins.op = "access"     -> executeMemoryOperation(G, s, ins)
      [] ins.op = "free"       -> executeFree(G, s, ins)
      [] ins.op = "alloc"      -> executeAlloc(G, s, ins)
      [] ins.op = "external"   -> executeExternal(G, s, ins)
      [] ins.op = "setForking" -> setForking(G, s, ins)

-----------------------------------------------------------------------------
(* The loop of run.                                                        *)

\* updateStates for the executor's own sets.
updateStates(G) ==
    [G EXCEPT !.states = (@ \cup G.added) \ G.removed, !.added = {}, !.removed = {}]

\* The inputs of a state on which its next instruction fails.
failingInputs(G, s) ==
    LET S == G.st[s]
    IN  {i \in S.inputs : concrete(program[Len(S.log) + 1], S.objects, i) = error}

ForksInit ==
    /\ program \in Programs
    /\ options \in Options
    /\ engine = InitialEngine
    /\ \E c \in Configs :
         searcher \in update(constructUserSearcher(c.cores, c.batching, c.deepening),
                             0, {1}, {})

\* One turn of the loop with the state the searcher selects: an instruction,
\* or the return from main, after which no thread is left to schedule.
Step ==
    /\ ~engine.halted
    /\ engine.execStatus = "SUCCESS"
    /\ engine.states # {}
    /\ \E r \in selectState(searcher) :
         LET s == r.state
             returns == Len(engine.st[s].log) = Len(program)
             after == IF returns
                      THEN {terminateState([engine EXCEPT !.ended = @ \cup engine.st[s].inputs], s)}
                      ELSE executeInstruction([engine EXCEPT !.failing = failingInputs(engine, s)],
                                              s, program[Len(engine.st[s].log) + 1])
         IN  \E G \in after :
               /\ engine' = updateStates(G)
               /\ searcher' \in update(r.searcher, s, G.added, G.removed)
    /\ UNCHANGED <<program, options>>

\* The loop is left when an error was met, and the states that are left are
\* dumped.
Halt ==
    /\ ~engine.halted
    /\ \/ engine.execStatus # "SUCCESS"
       \/ engine.states = {}
    /\ engine' = [engine EXCEPT !.halted = TRUE, !.states = {},
                                !.cut = @ \cup UNION {engine.st[s].inputs : s \in engine.states}]
    /\ searcher' = <<>>
    /\ UNCHANGED <<program, options>>

ForksNext == Step \/ Halt

ForksSpec == ForksInit /\ [][ForksNext]_forksVars

-----------------------------------------------------------------------------
(* Properties.                                                             *)

running == ~engine.halted /\ engine.execStatus = "SUCCESS"

\* A live state has done exactly what the program does on each input of its
\* path condition: fork, branch, the resolution of pointers and the choice
\* of sizes add the constraints that belong to the side they take
\* (Executor.cpp, executeInstruction and executeMemoryOperation).
PathsExact ==
    running => \A s \in engine.states : \A i \in engine.st[s].inputs :
        LET r == concreteRun(Len(engine.st[s].log), i)
        IN r.log = engine.st[s].log /\ r.objects = engine.st[s].objects

\* No input is explored twice and none is forgotten: it is in one live state,
\* or it ran to the end, or it was given up at a place where the executor
\* says so (a timeout, a limit or a concretization).
InputsPartitioned ==
    running =>
        /\ \A s, t \in engine.states : s # t => engine.st[s].inputs \cap engine.st[t].inputs = {}
        /\ \A s \in engine.states :
             /\ engine.st[s].inputs # {}
             /\ engine.st[s].inputs \cap (engine.ended \cup engine.cut) = {}
        /\ Inputs = engine.ended \cup engine.cut \cup UNION {engine.st[s].inputs : s \in engine.states}

\* An error is reported only when the instruction fails on an input of the
\* state that executes it, or the executor gives up on a symbolic value; and
\* when it fails on an input that is not cut, the error is reported.
ErrorsReal ==
    /\ engine.execStatus = "RUNTIMEERROR" => engine.failing # {} \/ engine.gaveUp
    /\ ~(engine.failing \subseteq engine.cut) => engine.execStatus = "RUNTIMEERROR"

\* After each update the searchers hold the executor's states: none is lost,
\* none is selected after its end (Searcher.cpp).
SearcherHolds ==
    ~engine.halted => holdsExactly(searcher, engine.states)
=============================================================================
