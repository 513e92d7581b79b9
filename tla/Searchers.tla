------------------------------ MODULE Searchers ------------------------------
(***************************************************************************)
(* The searchers of lib/Core/Searcher.cpp as UserSearcher.cpp puts them    *)
(* together: core searchers over the same states, interleaved when there   *)
(* are several, then batched, then deepened by time.  A searcher is one    *)
(* record; selectState and update return the SET of their outcomes, the    *)
(* random number generator, the clock and the order of pointers in a       *)
(* std::set being what the outcomes differ in.  States are numbers; 0 is   *)
(* the null pointer.                                                       *)
(***************************************************************************)
EXTENDS Integers, Sequences, SequencesExt, FiniteSets

\* The core searchers.  The six weighted ones differ in the weight they give
\* a state, which is positive, so that any state of theirs may be chosen.
CoreSearchType == {"DFS", "BFS", "RandomState", "NURS", "Round"}

\* One core searcher: its states in the order it keeps them, RoundSearch's
\* index (an unsigned that starts at the largest value, here -1), and whether
\* an assertion on its states has failed.
getNewSearcher(type) ==
    [type |-> type, states |-> <<>>, index |-> -1, ok |-> TRUE]

\* cores: the -search options, DFS when there is none.
constructUserSearcher(cores, batching, deepening) ==
    [searchers |-> [k \in 1..Len(cores) |-> getNewSearcher(cores[k])],
     index     |-> 1,
     batching  |-> batching,
     lastState |-> 0,
     deepening |-> deepening,
     paused    |-> {}]

-----------------------------------------------------------------------------
(* selectState: outcomes are [state, searcher].                            *)

\* RoundSearch goes round its states.
selectRound(c) ==
    LET k == IF c.index + 1 >= Len(c.states) THEN 0 ELSE c.index + 1
    IN {[state |-> c.states[k + 1], core |-> [c EXCEPT !.index = k]]}

\* RandomSearcher and, all weights being positive, DiscretePDF::choose.
choose(c) == {[state |-> s, core |-> c] : s \in ToSet(c.states)}

\* The selectState of one core searcher.
selectCore(c) ==
    CASE c.type = "DFS" -> {[state |-> Last(c.states), core |-> c]}
      [] c.type = "BFS" -> {[state |-> Head(c.states), core |-> c]}
      [] c.type = "Round" -> selectRound(c)
      [] OTHER -> choose(c)

\* InterleavedSearcher counts its searchers down and starts again at the last.
selectInterleaved(S) ==
    LET k == S.index
    IN {[state    |-> r.state,
         searcher |-> [S EXCEPT !.searchers[k] = r.core,
                                !.index = IF k = 1 THEN Len(S.searchers) ELSE k - 1]]
          : r \in selectCore(S.searchers[k])}

\* BatchingSearcher keeps its state until one of its budgets is used up.
selectState(S) ==
    LET chosen == {[r EXCEPT !.searcher.lastState = IF S.batching THEN r.state ELSE 0]
                     : r \in selectInterleaved(S)}
    IN  IF S.lastState = 0 THEN chosen
        ELSE chosen \cup {[state |-> S.lastState, searcher |-> S]}

-----------------------------------------------------------------------------
(* update(current, addedStates, removedStates).                            *)

\* A list of states: the added ones are appended in the order of the set, and
\* each of the removed ones is asserted to be there.
updateList(c, order, removed) ==
    LET all == c.states \o order
    IN [c EXCEPT !.states = SelectSeq(all, LAMBDA s : s \notin removed),
                 !.ok = c.ok /\ removed \subseteq ToSet(all)]

\* WeightedRandomSearcher: the current state gets a new weight unless it is
\* removed, and DiscretePDF asserts that it is there and the added are not.
updateWeighted(c, current, order, removed) ==
    [updateList(c, order, removed) EXCEPT
        !.ok = /\ @
               /\ current \in {0} \cup removed \cup ToSet(c.states)
               /\ ToSet(order) \cap ToSet(c.states) = {}]

updateCore(c, current, order, removed) ==
    IF c.type = "NURS" THEN updateWeighted(c, current, order, removed)
    ELSE updateList(c, order, removed)

\* Mutant: the batched state is kept although it was removed.
keepLast(S, current, order, removed) ==
    [S EXCEPT !.searchers = [k \in DOMAIN S.searchers |->
                                updateCore(S.searchers[k], current, order, removed)]]

\* InterleavedSearcher and BatchingSearcher pass the sets on.
updateBase(S, current, order, removed) ==
    [S EXCEPT !.searchers = [k \in DOMAIN S.searchers |->
                                updateCore(S.searchers[k], current, order, removed)],
              !.lastState = IF @ \in removed THEN 0 ELSE @]

empty(S) == S.searchers[1].states = <<>>

\* IterativeDeepeningTimeSearcher: what is paused is not in the base searcher;
\* a state that ran for longer than the budget is paused, and when all are
\* paused all go on.
update(S, current, added, removed) ==
    LET base == {updateBase(S, current, order, removed \ S.paused)
                   : order \in SetToSeqs(added)}
        pause(B) == {[updateBase(B, 0, <<>>, {current}) EXCEPT !.paused = @ \cup {current}]}
        paused == UNION {{B} \cup (IF current # 0 /\ current \notin removed
                                   THEN pause(B) ELSE {}) : B \in base}
        resume(B) == IF empty(B)
                     THEN {[updateBase(B, 0, order, {}) EXCEPT !.paused = {}]
                             : order \in SetToSeqs(B.paused)}
                     ELSE {B}
    IN  IF S.deepening THEN UNION {resume(B) : B \in paused} ELSE base

-----------------------------------------------------------------------------
\* Every core searcher holds exactly the states that are not paused, each of
\* them once, and the batched state is one of them.
holdsExactly(S, states) ==
    /\ \A k \in DOMAIN S.searchers :
         LET c == S.searchers[k]
         IN  /\ c.ok
             /\ ToSet(c.states) = states \ S.paused
             /\ Len(c.states) = Cardinality(states \ S.paused)
    /\ S.paused \subseteq states
    /\ S.lastState \in {0} \cup (states \ S.paused)
    /\ states # {} => ~empty(S)
=============================================================================
