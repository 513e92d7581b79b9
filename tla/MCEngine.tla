------------------------------ MODULE MCEngine ------------------------------
(* Expressions and queries: how expressions are built (Expressions),         *)
(* rewritten and bounded (ExprRewriting, ValueRanges) and translated for the *)
(* solvers (QueryTerms), and what the chain of solvers answers               *)
(* (SolverChain).  subject says which of them a behaviour is of; the         *)
(* variables of the others are NULL.                                         *)
EXTENDS Integers, Sequences, TLC

CONSTANT NULL

VARIABLE subject

VARIABLES builder, e, value, n

VARIABLES constraints, held

VARIABLES options, caches, asked, answer

exprVars == <<builder, e, value, n>>

pathVars == <<constraints, held>>

solverVars == <<options, caches, asked, answer>>

vars == <<subject, exprVars, pathVars, solverVars>>

-----------------------------------------------------------------------------
\* Expressions over two bits: an array with two free elements, equal or next to each other,
\* and one of constants.

Close == {p \in (0 .. 3) \X {1, 2} : p[1] - p[2] \in -1 .. 1}

TwoBits == {[i \in 0 .. 3 |-> <<p[1], p[2], 0, 3>>[i + 1]] : p \in Close}

Table == <<1, 3, 1, 0>>

Build == INSTANCE Expressions WITH
  ElemWidth <- 2, ConstantValues <- Table, Env <- TwoBits, ConstArrayOpt <- TRUE,
  MaxMatches <- 2, Widths <- {1, 2, 3}, MaxCalls <- 2

AllPairs == {[i \in 0 .. 3 |-> <<a, b, 2, IF b = 3 THEN 3 ELSE 0>>[i + 1]] : a \in 0 .. 3, b \in 0 .. 3}

Rewrite == INSTANCE ValueRanges WITH
  ElemWidth <- 2, ConstantValues <- Table, Env <- AllPairs, ConstArrayOpt <- TRUE,
  MaxMatches <- 2, Widths <- {1, 3}, MaxCalls <- 2, ArraySize <- 3, MaxConstraints <- 2,
  WordBits <- 8

\* Four bits, so that divisions by constants have something to get wrong.
FourBits == {[i \in 0 .. 15 |-> IF i = 0 THEN a ELSE IF i = 1 THEN 14 ELSE 9] : a \in 0 .. 15}

Terms == INSTANCE QueryTerms WITH
  ElemWidth <- 4, ConstantValues <- [i \in 1 .. 16 |-> (5 * i) % 16], Env <- FourBits,
  ConstArrayOpt <- TRUE, MaxMatches <- 2, Widths <- {1, 3}, MaxCalls <- 2, Int32 <- 4,
  Divisors <- {1, 2, 3, 5, 6, 7, 8, 11, 15}, SecondKinds <- {"Sub", "SDiv"}

-----------------------------------------------------------------------------
\* Queries over array a of two elements and b of one: p is a[0], q is b[0], r is a[b[0]].

Values == [a : {<<0, 0>>, <<0, 1>>, <<1, 0>>, <<1, 1>>}, b : {<<0>>, <<1>>}]

where(c) ==
  CASE c = "p" -> {x \in Values : x.a[1] = 1}
    [] c = "q" -> {x \in Values : x.b[1] = 1}
    [] c = "r" -> {x \in Values : x.a[x.b[1] + 1] = 1}
    [] c = "true" -> Values

opposite == [np |-> "p", nq |-> "q", nr |-> "r", false |-> "true",
             p |-> "np", q |-> "nq", r |-> "nr", true |-> "false"]

holds == [c \in DOMAIN opposite |-> IF c \in {"p", "q", "r", "true"} THEN where(c) ELSE Values \ where(opposite[c])]

elementOf == [c \in DOMAIN opposite |->
                CASE c \in {"p", "np"} -> {<<"a", 0>>} [] c \in {"q", "nq", "r", "nr"} -> {<<"b", 0>>} [] OTHER -> {}]

arrayOf == [c \in DOMAIN opposite |-> IF c \in {"r", "nr"} THEN {"a"} ELSE {}]

Chain == INSTANCE SolverChain WITH
  Exprs <- <<"p", "nr", "nq", "false", "true", "q", "r", "np">>, Holds <- holds,
  Negated <- opposite, ReadsElement <- elementOf, ReadsWhole <- arrayOf, Assignments <- Values,
  Zero <- [a |-> <<0, 0>>, b |-> <<0>>], Paths <- {{}, {"p"}, {"r"}, {"p", "nr"}},
  RangeBits <- 3, MaxAsked <- 2

-----------------------------------------------------------------------------
NoExprs ==
  /\ builder = NULL /\ e = NULL /\ value = NULL /\ n = NULL

NoPath ==
  /\ constraints = NULL /\ held = NULL

NoSolver ==
  /\ options = NULL /\ caches = NULL /\ asked = NULL /\ answer = NULL

Init ==
  \/ subject = "build" /\ Build!ExprInit /\ NoPath /\ NoSolver
  \/ subject = "rewrite" /\ Rewrite!RewriteInit /\ NoSolver
  \/ subject = "terms" /\ Terms!TermsInit /\ NoPath /\ NoSolver
  \/ subject = "solver" /\ Chain!SolverInit /\ NoExprs /\ NoPath

BuildStep ==
  /\ subject = "build" /\ Build!ExprNext
  /\ UNCHANGED <<subject, pathVars, solverVars>>

RewriteStep ==
  /\ subject = "rewrite" /\ Rewrite!RewriteNext
  /\ UNCHANGED <<subject, solverVars>>

TermsStep ==
  /\ subject = "terms" /\ Terms!TermsNext
  /\ UNCHANGED <<subject, pathVars, solverVars>>

SolverStep ==
  /\ subject = "solver" /\ Chain!SolverNext
  /\ UNCHANGED <<subject, exprVars, pathVars>>

Next == BuildStep \/ RewriteStep \/ TermsStep \/ SolverStep

Spec == Init /\ [][Next]_vars

-----------------------------------------------------------------------------
\* What the create functions and the builders fold, cancel and move keeps its value and is in
\* canonical form (Expr.cpp, ExprBuilder.cpp).  Conditions added to a path, which rewrite
\* each other (ConstraintManager), hold of exactly the assignments they were added for; what is
\* simplified, evaluated, implied or read under them is right.
ExpressionsRight ==
  /\ subject = "build" => Build!BuiltRight /\ Build!CanonicalForm
  /\ subject = "rewrite" =>
       Rewrite!ConstraintsExact /\ Rewrite!SimplifiedRight /\ Rewrite!EvaluatedRight
       /\ Rewrite!ImpliedRight /\ Rewrite!ReadsDetermine

\* Through caches, slices of the constraints, counterexamples, ranges and timeouts, a query is
\* answered as its constraints entail or fails with the core solver; no cache holds a wrong
\* entry (the layers of constructSolverChain, FastCexSolver).  The terms given to STP, metaSMT
\* and Z3 mean the expression, with shifts and divisions by constants rewritten; those of
\* KQuery2Z3 as long as values stay in the signed range.
QueriesAnswered ==
  /\ subject = "solver" => Chain!SolverRight /\ Chain!FailsWithCore /\ Chain!CachesSound
  /\ subject = "rewrite" => Rewrite!BoundsTight /\ Rewrite!RangeHolds /\ Rewrite!AnswersRight
  /\ subject = "terms" => Terms!TermsRight /\ Terms!SignedExact

=============================================================================
