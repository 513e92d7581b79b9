----------------------------- MODULE MutexManager -----------------------------
(***************************************************************************)
(* lib/Core/Mutex.cpp and MutexManager.cpp: the mutexes of the analysed    *)
(* program and the pool of threads that wait for one.  Nothing is handed   *)
(* over on unlock: a blocked thread tries again when the executor selects  *)
(* it.                                                                     *)
(***************************************************************************)
EXTENDS ThreadScheduler

CONSTANTS
  Mutexes,              \* addresses of the global pthread_mutex_t objects
  NoObject              \* an address at which no object was registered;
                        \* also marks a missing entry of a map

ASSUME MutexesAssumption == NoObject \notin Mutexes

VARIABLES
  lockedThreadId,       \* Mutex::lockedThreadId by mutex, 0 when not locked
  blockedThreadPool     \* the mutex each blocked thread waits for

mutexVars == <<lockedThreadId, blockedThreadPool>>

isMutexLocked(m) == lockedThreadId[m] # 0

isThreadOwnMutex(m, t) == lockedThreadId[m] = t

\* map::insert keeps an entry that is already there.
insertBlocked(pool, t, m) ==
  IF pool[t] = NoObject THEN [pool EXCEPT ![t] = m] ELSE pool

\* Mutant: the entry of a thread that gets its mutex is not erased.
lockKeepsEntry(m, t) ==
  IF isMutexLocked(m)
  THEN /\ blockedThreadPool' = insertBlocked(blockedThreadPool, t, m)
       /\ UNCHANGED lockedThreadId
  ELSE /\ lockedThreadId' = [lockedThreadId EXCEPT ![m] = t]
       /\ UNCHANGED blockedThreadPool

\* MutexManager::lock reports isBlocked = isMutexLocked(m).
lock(m, t) ==
  IF isMutexLocked(m)
  THEN /\ blockedThreadPool' = insertBlocked(blockedThreadPool, t, m)
       /\ UNCHANGED lockedThreadId
  ELSE /\ lockedThreadId' = [lockedThreadId EXCEPT ![m] = t]
       /\ blockedThreadPool' = [blockedThreadPool EXCEPT ![t] = NoObject]

\* No owner is checked, and unlocking a free mutex only prints a warning.
unlock(m) == lockedThreadId' = [lockedThreadId EXCEPT ![m] = 0]

MutexManagerInit ==
  /\ lockedThreadId = [m \in Mutexes |-> 0]
  /\ blockedThreadPool = [t \in Tid |-> NoObject]
=============================================================================
