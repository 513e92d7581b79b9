----------------------------- MODULE Reexecution -----------------------------
(***************************************************************************)
(* A recorded execution is executed again twice: SymbolicListener collects *)
(* the constraints that Encode solves, TaintListener the taint that DTAM   *)
(* spreads.  Both replace the value of a shared load by a fresh symbol and *)
(* put the recorded values back where the execution needs constants, so    *)
(* one model stands for both; each step is one instruction of the recorded *)
(* execution together with its second execution.                           *)
(*                                                                         *)
(* Values are bits and the only operation is exclusive or: an expression   *)
(* is a constant c and a set of symbols.  A symbol is <<x, n, "L">> for    *)
(* the n-th load of x or <<x, n, "S">> for the n-th store.                 *)
(***************************************************************************)
EXTENDS Naturals, Sequences, FiniteSets

CONSTANTS
  Threads, Globals,
  MaxSteps,             \* bound: instructions executed
  MaxAccesses           \* bound: loads, and stores, of one variable

VARIABLES
  global, local,        \* recorded execution: shared memory, one local per thread
  register,             \* recorded execution: a register of each thread
  loadRecord,           \* PSOListener::loadRecord, storeRecord
  storeRecord,
  symGlobal, symLocal, symRegister,  \* the same in the second execution
  symbolicMap,          \* SymbolicListener::symbolicMap: recorded value of a load
  stored,               \* recorded value of a store
  constraints,          \* storeSymbolicExpr, brSymbolicExpr and rwSymbolicExpr
  taintedAddress,       \* ObjectState::isTaint
  taintedSymbol,        \* loads whose expression has isTaint
  DTAMSerial,           \* Trace::DTAMSerial
  taintSymbolicExpr, unTaintSymbolicExpr,
  related,              \* Event::relatedSymbolicExpr of each store
  kleeBr,               \* SymbolicListener::kleeBr
  inCheck,              \* threads between the call and the branch of a check
  uncollected,          \* branches without a constraint: thread, and the other
                        \* threads that were in a check
  truth,                \* what really is tainted, in shared and local memory
                        \* and registers
  steps

recordedVars == <<global, local, register, loadRecord, storeRecord>>
collected == <<symbolicMap, stored, constraints, taintedSymbol, DTAMSerial,
               taintSymbolicExpr, unTaintSymbolicExpr, related, kleeBr, inCheck,
               uncollected>>
reexecVars == <<recordedVars, symGlobal, symLocal, symRegister, collected,
                taintedAddress, truth, steps>>

-----------------------------------------------------------------------------
Bits == {0, 1}

\* An expression, and isTaint of its root.  "lost" says that a value it was
\* computed from had its symbols replaced by constants, or that they cancelled.
value(c, syms, taint, lost) == [c |-> c, syms |-> syms, taint |-> taint, lost |-> lost]

constant(c) == value(c, {}, FALSE, FALSE)

isConstant(v) == v.syms = {}

\* DealWithSymbolicExpr::resolveTaintExpr
isTaint(v) == v.taint \/ v.syms \intersect taintedSymbol # {}

\* Expr::create of a binary operation: a new node, which has no taint itself.
combine(v, w) ==
  LET common == v.syms \intersect w.syms
      dropped(u) == u.lost \/ (isConstant(u) /\ u.taint)
  IN  value((v.c + w.c) % 2, (v.syms \union w.syms) \ common, FALSE,
            dropped(v) \/ dropped(w) \/ common # {})

\* Executor::evalAgainst with the recorded value.
concretize(v, recordedValue) ==
  IF isConstant(v) THEN v ELSE value(recordedValue, {}, isTaint(v), TRUE)

\* The bit of an expression when its symbols have their recorded values.
eval(v) == (v.c + Cardinality({s \in v.syms : symbolicMap[s] = 1})) % 2

step == steps < MaxSteps /\ steps' = steps + 1

-----------------------------------------------------------------------------
\* A constant, or the sum with the thread's local variable.
compute(t) ==
  /\ step
  /\ \/ \E b \in Bits :
          /\ register' = [register EXCEPT ![t] = b]
          /\ symRegister' = [symRegister EXCEPT ![t] = constant(b)]
          /\ truth' = [truth EXCEPT !.register[t] = FALSE]
     \/ /\ register' = [register EXCEPT ![t] = (@ + local[t]) % 2]
        /\ symRegister' = [symRegister EXCEPT ![t] = combine(@, symLocal[t])]
        /\ truth' = [truth EXCEPT !.register[t] = @ \/ truth.local[t]]
  /\ UNCHANGED <<global, local, loadRecord, storeRecord, symGlobal, symLocal, collected,
                 taintedAddress>>

loadName(x) == <<x, loadRecord[x] + 1, "L">>

\* SymbolicListener after a load of a shared variable: a fresh symbol.
symbolicLoad(t, x) ==
  /\ symbolicMap' = [s \in DOMAIN symbolicMap \union {<<x, loadRecord[x] + 1, "L">>} |->
                       IF s \in DOMAIN symbolicMap THEN symbolicMap[s] ELSE symGlobal[x]]
  /\ constraints' = constraints \union
       {[left |-> constant(symGlobal[x]), right |-> <<x, loadRecord[x] + 1, "L">>]}
  /\ UNCHANGED <<symGlobal, symLocal, stored, kleeBr, inCheck, uncollected>>

\* TaintListener after a load of a shared variable: the symbol is tainted if
\* the address is.
taintLoad(t, x) ==
  LET tainted == x \in taintedAddress IN
    /\ symRegister' = [symRegister EXCEPT ![t] = value(0, {loadName(x)}, tainted, FALSE)]
    /\ taintedSymbol' = IF tainted THEN taintedSymbol \union {loadName(x)} ELSE taintedSymbol
    /\ DTAMSerial' = IF tainted THEN DTAMSerial \union {loadName(x)} ELSE DTAMSerial
    /\ UNCHANGED <<taintSymbolicExpr, unTaintSymbolicExpr, related, taintedAddress>>

loadGlobal(t, x) ==
  /\ step /\ loadRecord[x] < MaxAccesses
  /\ loadRecord' = [loadRecord EXCEPT ![x] = @ + 1]
  /\ register' = [register EXCEPT ![t] = global[x]]
  /\ truth' = [truth EXCEPT !.register[t] = truth.global[x]]
  /\ symbolicLoad(t, x)
  /\ taintLoad(t, x)
  /\ UNCHANGED <<global, local, storeRecord>>

\* Load of a local variable: what is there, and the taint of its address.
loadLocal(t) ==
  /\ step
  /\ register' = [register EXCEPT ![t] = local[t]]
  /\ symRegister' = [symRegister EXCEPT ![t] = [symLocal[t] EXCEPT
                                                  !.taint = t \in taintedAddress]]
  /\ truth' = [truth EXCEPT !.register[t] = truth.local[t]]
  /\ UNCHANGED <<global, local, loadRecord, storeRecord, symGlobal, symLocal, collected,
                 taintedAddress>>

\* Mutant: a store of an untainted value leaves the taint of the address.
taintStays(addresses, a, tainted) == IF tainted THEN addresses \union {a} ELSE addresses

\* insertTaint or eraseTaint
storeTaint(addresses, a, tainted) ==
  IF tainted THEN addresses \union {a} ELSE addresses \ {a}

\* The value a store to shared memory leaves in the register.
storedValue(v, recordedValue) == concretize(v, recordedValue)

\* SymbolicListener at a store to a shared variable: the constraint, and the
\* recorded value in the place of the expression.
symbolicStore(t, x) ==
  LET name == <<x, storeRecord[x] + 1, "S">>
      v == symRegister[t]
  IN  /\ stored' = [s \in DOMAIN stored \union {name} |->
                      IF s = name THEN register[t] ELSE stored[s]]
      /\ constraints' = constraints \union {[left |-> v, right |-> name]}
      /\ symRegister' = [symRegister EXCEPT ![t] = storedValue(v, register[t])]
      /\ symGlobal' = [symGlobal EXCEPT ![x] = storedValue(v, register[t]).c]
      /\ UNCHANGED <<symLocal, symbolicMap, kleeBr, inCheck, uncollected>>

\* unTaintSymbolicExpr after a store of an untainted value
stillUntainted(x) ==
  IF x \in taintSymbolicExpr THEN unTaintSymbolicExpr ELSE unTaintSymbolicExpr \union {x}

\* TaintListener at a store to a shared variable.
taintStore(t, x) ==
  LET name == <<x, storeRecord[x] + 1, "S">>
      v == symRegister[t]
  IN  /\ taintedAddress' = storeTaint(taintedAddress, x, isTaint(v))
      /\ related' = [s \in DOMAIN related \union {name} |->
           IF s = name THEN [syms |-> v.syms, lost |-> v.lost, truth |-> truth.register[t]]
           ELSE related[s]]
      /\ IF isTaint(v)
         THEN /\ DTAMSerial' = DTAMSerial \union {name}
              /\ taintSymbolicExpr' = taintSymbolicExpr \union {x}
              /\ unTaintSymbolicExpr' = unTaintSymbolicExpr \ {x}
         ELSE /\ unTaintSymbolicExpr' = stillUntainted(x)
              /\ UNCHANGED <<DTAMSerial, taintSymbolicExpr>>
      /\ UNCHANGED taintedSymbol

storeGlobal(t, x) ==
  /\ step /\ storeRecord[x] < MaxAccesses
  /\ storeRecord' = [storeRecord EXCEPT ![x] = @ + 1]
  /\ global' = [global EXCEPT ![x] = register[t]]
  /\ truth' = [truth EXCEPT !.global[x] = truth.register[t]]
  /\ symbolicStore(t, x)
  /\ taintStore(t, x)
  /\ UNCHANGED <<local, register, loadRecord>>

\* Local memory may hold expressions.
storeLocal(t) ==
  /\ step
  /\ local' = [local EXCEPT ![t] = register[t]]
  /\ symLocal' = [symLocal EXCEPT ![t] = symRegister[t]]
  /\ taintedAddress' = storeTaint(taintedAddress, t, isTaint(symRegister[t]))
  /\ truth' = [truth EXCEPT !.local[t] = truth.register[t]]
  /\ UNCHANGED <<global, register, loadRecord, storeRecord, symGlobal, symRegister,
                 collected>>

\* Mutant: the constraint has the value of the other branch.
otherBranch(v, recordedValue) == [left |-> v, right |-> <<1 - recordedValue>>]

\* EqExpr of a condition, a switch value or an index, and its recorded value.
branchConstraint(v, recordedValue) == [left |-> v, right |-> <<recordedValue>>]

\* Mutant: kleeBr stays set after the branch of the check.
flagStays(flag) == flag

\* kleeBr after a conditional branch
flagAfterBranch(flag) == FALSE

\* A conditional branch.  The one that follows a check inserted by KLEE has no
\* constraint, and kleeBr is all that tells it.
branch(t) ==
  /\ step
  /\ IF isConstant(symRegister[t])
     THEN UNCHANGED <<symRegister, constraints, uncollected>>
     ELSE /\ symRegister' = [symRegister EXCEPT ![t] = [concretize(@, register[t]) EXCEPT
                                                         !.taint = FALSE]]
          /\ IF kleeBr
             THEN /\ uncollected' = IF t \in inCheck THEN uncollected
                                    ELSE uncollected \union {<<t, inCheck>>}
                  /\ UNCHANGED constraints
             ELSE /\ constraints' = constraints \union
                                      {branchConstraint(symRegister[t], register[t])}
                  /\ UNCHANGED uncollected
  /\ kleeBr' = flagAfterBranch(kleeBr)
  /\ inCheck' = inCheck \ {t}
  /\ UNCHANGED <<recordedVars, symGlobal, symLocal, symbolicMap, stored, taintedSymbol,
                 DTAMSerial, taintSymbolicExpr, unTaintSymbolicExpr, related,
                 taintedAddress, truth>>

\* A switch, or an index of getelementptr.
choose(t) ==
  /\ step
  /\ ~ isConstant(symRegister[t])
  /\ constraints' = constraints \union {branchConstraint(symRegister[t], register[t])}
  /\ symRegister' = [symRegister EXCEPT ![t] = [concretize(@, register[t]) EXCEPT
                                                  !.taint = FALSE]]
  /\ UNCHANGED <<recordedVars, symGlobal, symLocal, symbolicMap, stored, taintedSymbol,
                 DTAMSerial, taintSymbolicExpr, unTaintSymbolicExpr, related, kleeBr,
                 inCheck, uncollected, taintedAddress, truth>>

\* A call of klee_div_zero_check or klee_overshift_check.
callCheck(t) ==
  /\ step
  /\ t \notin inCheck
  /\ kleeBr' = TRUE
  /\ inCheck' = inCheck \union {t}
  /\ UNCHANGED <<recordedVars, symGlobal, symLocal, symRegister, symbolicMap, stored,
                 constraints, taintedSymbol, DTAMSerial, taintSymbolicExpr,
                 unTaintSymbolicExpr, related, uncollected, taintedAddress, truth>>

\* TaintListener at and after a call of a function without source: the argument
\* is made constant, the result is tainted if the argument is.
taintCall(t) ==
  symRegister' = [symRegister EXCEPT ![t] =
                       value(register[t], {}, isTaint(@),
                             @.lost \/ ~ isConstant(@) \/ @.taint)]

\* The result depends on the argument.
callExternal(t) ==
  /\ step
  /\ taintCall(t)
  /\ UNCHANGED <<recordedVars, symGlobal, symLocal, collected, taintedAddress, truth>>

\* A call of make_taint.
makeTaint(x) ==
  /\ step
  /\ taintedAddress' = taintedAddress \union {x}
  /\ truth' = [truth EXCEPT !.global[x] = TRUE]
  /\ UNCHANGED <<recordedVars, symGlobal, symLocal, symRegister, collected>>

ReexecInit ==
  /\ global = [x \in Globals |-> 0] /\ symGlobal = global
  /\ local = [t \in Threads |-> 0]
  /\ symLocal = [t \in Threads |-> constant(0)]
  /\ register = [t \in Threads |-> 0]
  /\ symRegister = [t \in Threads |-> constant(0)]
  /\ loadRecord = [x \in Globals |-> 0]
  /\ storeRecord = [x \in Globals |-> 0]
  /\ symbolicMap = << >> /\ stored = << >> /\ related = << >>
  /\ constraints = {} /\ uncollected = {}
  /\ kleeBr = FALSE /\ inCheck = {}
  /\ taintedAddress = {} /\ taintedSymbol = {} /\ DTAMSerial = {}
  /\ taintSymbolicExpr = {} /\ unTaintSymbolicExpr = {}
  /\ truth = [global |-> [x \in Globals |-> FALSE],
              local |-> [t \in Threads |-> FALSE],
              register |-> [t \in Threads |-> FALSE]]
  /\ steps = 0

ReexecNext ==
  \/ \E t \in Threads : \/ compute(t) \/ loadLocal(t) \/ storeLocal(t)
                        \/ branch(t) \/ choose(t) \/ callCheck(t) \/ callExternal(t)
                        \/ \E x \in Globals : loadGlobal(t, x) \/ storeGlobal(t, x)
  \/ \E x \in Globals : makeTaint(x)

ReexecSpec == ReexecInit /\ [][ReexecNext]_reexecVars

-----------------------------------------------------------------------------
\* The second execution computes what was recorded: registers and memory have
\* their recorded values when the symbols have theirs.
FollowsRecorded ==
  /\ symGlobal = global
  /\ \A t \in Threads : /\ eval(symRegister[t]) = register[t]
                        /\ eval(symLocal[t]) = local[t]

\* The recorded execution satisfies every collected constraint, so buildAll-
\* Formula has at least this solution for the values.
RecordedSatisfies ==
  \A k \in constraints :
    eval(k.left) = CASE Len(k.right) = 1 -> k.right[1]
                     [] k.right \in DOMAIN symbolicMap -> symbolicMap[k.right]
                     [] k.right \in DOMAIN stored -> stored[k.right]

\* What TaintListener takes to be tainted really is, and it first misses taint
\* where a register is used again after its symbols were replaced by constants.
TaintExact ==
  LET missed == {s \in DOMAIN related : related[s].truth /\ s \notin DTAMSerial} IN
    /\ \A s \in DOMAIN related : s \in DTAMSerial => related[s].truth
    /\ missed # {} => \E s \in missed : related[s].lost

\* Every read a stored value was computed from is recorded: DTAM finds an entry
\* for it, and a tainted store has a tainted read among them or came from a
\* constant that was tainted.
RelatedRecorded ==
  \A s \in DOMAIN related :
    /\ related[s].syms \subseteq DOMAIN symbolicMap
    /\ s \in DTAMSerial => related[s].lost \/ related[s].syms \intersect DTAMSerial # {}

\* A variable with a tainted store is in taintSymbolicExpr and no longer in
\* unTaintSymbolicExpr, whatever is stored to it later.
TaintSets ==
  \A x \in Globals :
    LET stores == {s \in DOMAIN related : s[1] = x} IN
      /\ x \in taintSymbolicExpr <=> stores \intersect DTAMSerial # {}
      /\ x \in unTaintSymbolicExpr <=> stores # {} /\ stores \intersect DTAMSerial = {}

\* A symbolic branch of the program has a constraint, unless it runs while
\* another thread is between the call and the branch of a check.
BranchesCollected == \A u \in uncollected : u[2] # {}
=============================================================================
