---------------------------- MODULE BarrierManager ----------------------------
(***************************************************************************)
(* lib/Core/Barrier.cpp and BarrierManager.cpp: the barriers with their    *)
(* count, the number of threads that have arrived and their list.          *)
(***************************************************************************)
EXTENDS ThreadScheduler

CONSTANTS
  Barriers,             \* addresses of the global pthread_barrier_t objects
  BarrierCounts         \* the counts programs pass to pthread_barrier_init

ASSUME BarriersAssumption == BarrierCounts \subseteq Nat

VARIABLE barrier        \* count, current and blockedList of each barrier

DEFAULTCOUNT == 2147483647

BarrierRecord == [count : Nat, current : Nat, blockedList : Seq(Tid)]

\* BarrierManager::init sets the count and leaves the arrivals alone.
init(b, n) == barrier' = [barrier EXCEPT ![b].count = n]

\* Mutant: the arriving thread is not counted.
isFullBefore(b) == barrier[b].current = barrier[b].count

\* Barrier::isFull after one more arrival; equality, not >=.
isFull(b) == barrier[b].current + 1 = barrier[b].count

barrierWait(b, t) ==
  barrier' = [barrier EXCEPT ![b] =
    IF isFull(b)
    THEN [count |-> @.count, current |-> 0, blockedList |-> <<>>]
    ELSE [count |-> @.count, current |-> @.current + 1,
          blockedList |-> Append(@.blockedList, t)]]

BarrierManagerInit ==
  barrier = [b \in Barriers |->
               [count |-> DEFAULTCOUNT, current |-> 0, blockedList |-> <<>>]]
=============================================================================
