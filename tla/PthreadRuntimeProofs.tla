------------------------- MODULE PthreadRuntimeProofs -------------------------
(***************************************************************************)
(* The steps at conditions and barriers preserve the invariant of          *)
(* PthreadInvariant, so every step does; the theorems follow.              *)
(***************************************************************************)
EXTENDS PthreadInvariant

-----------------------------------------------------------------------------
\* Appending a WaitParam of the running thread keeps the lists exact.
LEMMA CondWaitInv ==
  ASSUME Inv, NEW t \in Tid, NEW c, NEW m, executePThreadCondWait(t, c, m)
  PROVE  Inv'
<1>0. running(t) /\ control = "run" /\ threadState[t] = "RUNNABLE"
  BY DEF executePThreadCondWait, running, selected
<1>1. CASE ~ canWait(c, m, t)
  BY <1>1, StatusOnly DEF executePThreadCondWait, assertFails, Inv, TypeOK
<1>2. CASE canWait(c, m, t)
  <2> DEFINE w == [threadId |-> t, mutexName |-> m]
  <2>0. /\ waiting' = [waiting EXCEPT ![c] = Append(@, w)]
        /\ lockedThreadId' = [lockedThreadId EXCEPT ![m] = 0]
        /\ threadState' = [threadState EXCEPT ![t] = "COND_BLOCKED"]
        /\ queue' = removeItem(queue, t)
        /\ nextThreadId' = nextThreadId
        /\ UNCHANGED <<blockedThreadPool, barrier, joinRecord>>
        /\ finishIteration
    BY <1>2 DEF executePThreadCondWait, wait, unlock
  <2>1. m \in Mutexes /\ c \in Conds /\ w \in WaitParam
        /\ w.threadId = t /\ w.mutexName = m
    BY <1>2 DEF canWait, WaitParam
  <2> HIDE DEF w
  <2>2. /\ threadState' \in [Tid -> ThreadStates] /\ queue' \in Seq(Tid)
        /\ \A x \in Tid : threadState'[x] =
             IF x = t THEN "COND_BLOCKED" ELSE threadState[x]
        /\ IdsExact' /\ QueueExact'
    BY Zenon, <1>0, <2>0, SwapOut
  <2>3. \A d \in Conds : waiting[d] \in Seq(WaitParam)
    BY DEF Inv, TypeOK
  <2>4. /\ waiting' \in [Conds -> Seq(WaitParam)]
        /\ waiting'[c] = Append(waiting[c], w)
        /\ \A d \in Conds \ {c} : waiting'[d] = waiting[d]
    BY <2>0, <2>1, <2>3 DEF Inv, TypeOK
  <2>5. /\ lockedThreadId' \in [Mutexes -> Tid \cup {0}]
        /\ \A n \in Mutexes : lockedThreadId'[n] = IF n = m THEN 0 ELSE lockedThreadId[n]
    BY <2>0, <2>1 DEF Inv, TypeOK
  <2>6. TypeOK'
    BY <1>0, <2>0, <2>2, <2>4, <2>5, FinishIteration DEF Inv, TypeOK
  <2>7. PoolExact'
    BY <1>0, <2>0, <2>2 DEF Inv, PoolExact
  <2>8. BarrierExact' /\ JoinExact'
    BY <1>0, <2>0, <2>2, BarrierFrame, JoinFrame
  <2>9. CondExact'
    <3>1. /\ Len(waiting[c]) \in Nat
          /\ Len(waiting'[c]) = Len(waiting[c]) + 1
          /\ \A i \in 1 .. Len(waiting[c]) : waiting'[c][i] = waiting[c][i]
          /\ waiting'[c][Len(waiting[c]) + 1] = w
      BY <2>1, <2>3, <2>4
    <3>2. ASSUME NEW d \in Conds, NEW i \in 1 .. Len(waiting'[d])
          PROVE  \/ i \in 1 .. Len(waiting[d]) /\ waiting'[d][i] = waiting[d][i]
                 \/ d = c /\ i = Len(waiting[c]) + 1 /\ waiting'[d][i] = w
      BY <2>4, <3>1
    <3>3. \A d \in Conds : \A i \in 1 .. Len(waiting[d]) :
            i \in 1 .. Len(waiting'[d]) /\ waiting'[d][i] = waiting[d][i]
      BY SMTT(30), <2>4, <3>1
    <3>4. /\ \A d \in Conds : \A x : x \in Range(threadsOf(waiting[d])) <=>
                \E i \in 1 .. Len(waiting[d]) : waiting[d][i].threadId = x
          /\ \A d \in Conds : \A x : x \in Range(threadsOf(waiting'[d])) <=>
                \E i \in 1 .. Len(waiting'[d]) : waiting'[d][i].threadId = x
      BY Zenon, <2>3, <2>4, ThreadsOf
    <3>5. ASSUME NEW d \in Conds, NEW i \in 1 .. Len(waiting[d])
          PROVE  waiting[d][i].threadId # t
      BY <1>0, <3>4 DEF Inv, CondExact
    <3>6. ASSUME NEW x \in Tid
          PROVE  threadState'[x] = "COND_BLOCKED" <=>
                   \E d \in Conds : x \in Range(threadsOf(waiting'[d]))
      <4>1. CASE x = t
        <5>1. Len(waiting[c]) + 1 \in 1 .. Len(waiting'[c])
          BY <3>1
        <5>2. QED BY Zenon, <2>1, <2>2, <3>1, <3>4, <4>1, <5>1
      <4>2. CASE x # t
        <5>1. threadState[x] = "COND_BLOCKED" <=>
                \E d \in Conds : \E i \in 1 .. Len(waiting[d]) : waiting[d][i].threadId = x
          <6>1. threadState[x] = "COND_BLOCKED" <=>
                  \E d \in Conds : x \in Range(threadsOf(waiting[d]))
            BY DEF Inv, CondExact
          <6>2. QED BY ONLY Zenon, <3>4, <6>1
        <5>2. \A d \in Conds : (\E i \in 1 .. Len(waiting[d]) : waiting[d][i].threadId = x)
                <=> (\E i \in 1 .. Len(waiting'[d]) : waiting'[d][i].threadId = x)
          BY SMTT(30), <2>1, <3>2, <3>3, <4>2
        <5>3. threadState'[x] = threadState[x]
          BY <2>2, <4>2
        <5>4. QED BY ONLY Zenon, <3>4, <5>1, <5>2, <5>3
      <4>3. QED BY <4>1, <4>2
    <3>7. ASSUME NEW d \in Conds, NEW e \in Conds,
                 NEW i \in 1 .. Len(waiting'[d]), NEW j \in 1 .. Len(waiting'[e]),
                 waiting'[d][i].threadId = waiting'[e][j].threadId
          PROVE  d = e /\ i = j
      <4>1. CASE i \in 1 .. Len(waiting[d]) /\ waiting'[d][i] = waiting[d][i]
        <5>1. j \in 1 .. Len(waiting[e]) /\ waiting'[e][j] = waiting[e][j]
          BY <2>1, <3>2, <3>5, <3>7, <4>1
        <5>2. waiting[d][i].threadId = waiting[e][j].threadId
          BY <3>7, <4>1, <5>1
        <5>3. QED BY <4>1, <5>1, <5>2 DEF Inv, CondExact
      <4>2. CASE d = c /\ i = Len(waiting[c]) + 1 /\ waiting'[d][i] = w
        BY SMTT(30), <2>1, <3>2, <3>5, <3>7, <4>2
      <4>3. QED BY <3>2, <4>1, <4>2
    <3>8. ASSUME NEW d \in Conds, NEW i \in 1 .. Len(waiting'[d])
          PROVE  lockedThreadId'[waiting'[d][i].mutexName] # waiting'[d][i].threadId
      <4>1. waiting'[d][i] \in WaitParam
        BY <2>4
      <4>2. /\ waiting'[d][i].mutexName \in Mutexes /\ waiting'[d][i].threadId \in Tid
            /\ waiting'[d][i].threadId # 0
        BY <4>1 DEF WaitParam, Tid
      <4>3. CASE i \in 1 .. Len(waiting[d]) /\ waiting'[d][i] = waiting[d][i]
        <5>1. lockedThreadId[waiting[d][i].mutexName] # waiting[d][i].threadId
          BY <4>3 DEF Inv, CondExact
        <5>2. QED BY <2>5, <4>2, <4>3, <5>1
      <4>4. CASE waiting'[d][i] = w
        BY <2>1, <2>5, <4>2, <4>4
      <4>5. QED BY <3>2, <4>3, <4>4
    <3>9. QED BY <3>6, <3>7, <3>8 DEF CondExact
  <2>10. NeverBroken'
    BY <1>0, <2>0, FinishIteration DEF NeverBroken
  <2>11. QED BY <2>2, <2>6, <2>7, <2>8, <2>9, <2>10 DEF Inv
<1>3. QED BY <1>1, <1>2

-----------------------------------------------------------------------------
\* Signal and broadcast: the first WaitParams of one condition's list leave
\* it, and their threads wait for their mutexes, queued.
LEMMA ReleaseInv ==
  ASSUME Inv, NEW t \in Tid, running(t), finishIteration, NEW c \in Conds,
         NEW wps \in Seq(WaitParam), NEW rest \in Seq(WaitParam),
         Len(waiting[c]) = Len(wps) + Len(rest),
         \A i \in 1 .. Len(wps) : wps[i] = waiting[c][i],
         \A i \in 1 .. Len(rest) : rest[i] = waiting[c][i + Len(wps)],
         waiting' = [waiting EXCEPT ![c] = rest],
         blockedThreadPool' = addBlockedThreads(blockedThreadPool, wps),
         threadState' = enter(threadState, threadsOf(wps), "MUTEX_BLOCKED"),
         queue' = swapIn(queue, threadsOf(wps)),
         nextThreadId' = nextThreadId,
         UNCHANGED <<lockedThreadId, barrier, joinRecord>>
  PROVE  Inv'
<1> DEFINE ts == threadsOf(wps)
           off(d) == IF d = c THEN Len(wps) ELSE 0
<1>0. Len(wps) \in Nat /\ Len(rest) \in Nat /\ control = "run"
  BY DEF running, selected
<1>1. \A d \in Conds : waiting[d] \in Seq(WaitParam) /\ Len(waiting[d]) \in Nat
  BY DEF Inv, TypeOK
<1>2. /\ ts \in Seq(Tid) /\ Len(ts) = Len(wps)
      /\ \A i \in 1 .. Len(wps) : ts[i] = wps[i].threadId
      /\ \A x : x \in Range(ts) <=> \E i \in 1 .. Len(wps) : wps[i].threadId = x
  BY ThreadsOf
<1> HIDE DEF ts
<1>3. \A i \in 1 .. Len(wps) : i \in 1 .. Len(waiting[c])
  BY <1>0
<1>4. Distinct(ts)
  <2>1. ASSUME NEW i \in 1 .. Len(wps), NEW j \in 1 .. Len(wps), ts[i] = ts[j]
        PROVE  i = j
    <3>1. waiting[c][i].threadId = waiting[c][j].threadId
      BY <1>2, <2>1
    <3>2. i \in 1 .. Len(waiting[c]) /\ j \in 1 .. Len(waiting[c])
      BY <1>3
    <3>3. QED BY <3>1, <3>2 DEF Inv, CondExact
  <2>2. QED BY <1>2, <2>1 DEF Distinct
<1>5. \A d \in Conds : \A x : x \in Range(threadsOf(waiting[d])) <=>
        \E i \in 1 .. Len(waiting[d]) : waiting[d][i].threadId = x
  BY Zenon, <1>1, ThreadsOf
<1>6. \A x \in Tid : threadState[x] = "COND_BLOCKED" <=>
        \E d \in Conds : \E i \in 1 .. Len(waiting[d]) : waiting[d][i].threadId = x
  <2>1. \A x \in Tid : threadState[x] = "COND_BLOCKED" <=>
          \E d \in Conds : x \in Range(threadsOf(waiting[d]))
    BY DEF Inv, CondExact
  <2>2. QED BY ONLY Zenon, <1>5, <2>1
<1>7. \A x \in Range(ts) : x \in Tid /\ threadState[x] = "COND_BLOCKED"
  <2>1. ASSUME NEW i \in 1 .. Len(wps)
        PROVE  wps[i].threadId \in Tid /\ threadState[wps[i].threadId] = "COND_BLOCKED"
    <3>1. wps[i].threadId \in Tid
      <4>1. wps[i] \in WaitParam
        OBVIOUS
      <4>2. QED BY <4>1 DEF WaitParam
    <3>2. QED BY <1>3, <1>6, <3>1
  <2>2. QED BY <1>2, <2>1
<1>8. /\ threadState' \in [Tid -> ThreadStates]
      /\ queue' \in Seq(Tid)
      /\ \A x \in Tid : threadState'[x] =
           IF x \in Range(ts) THEN "MUTEX_BLOCKED" ELSE threadState[x]
      /\ IdsExact' /\ QueueExact'
  BY Zenon, <1>2, <1>4, <1>7, SwapInThreads DEF ts
<1>9. /\ waiting' \in [Conds -> Seq(WaitParam)]
      /\ waiting'[c] = rest
      /\ \A d \in Conds \ {c} : waiting'[d] = waiting[d]
  BY DEF Inv, TypeOK
<1>10. \A x \in Tid :
         /\ x \notin Range(ts) \/ blockedThreadPool[x] # NoObject
              => blockedThreadPool'[x] = blockedThreadPool[x]
         /\ x \in Range(ts) /\ blockedThreadPool[x] = NoObject
              => blockedThreadPool'[x] \in Mutexes
  <2> SUFFICES ASSUME NEW x \in Tid
               PROVE  /\ x \notin Range(ts) \/ blockedThreadPool[x] # NoObject
                           => blockedThreadPool'[x] = blockedThreadPool[x]
                      /\ x \in Range(ts) /\ blockedThreadPool[x] = NoObject
                           => blockedThreadPool'[x] \in Mutexes
    OBVIOUS
  <2> DEFINE k == CHOOSE i \in 1 .. Len(wps) : wps[i].threadId = x
  <2>1. blockedThreadPool'[x] =
          IF blockedThreadPool[x] = NoObject
             /\ \E i \in 1 .. Len(wps) : wps[i].threadId = x
          THEN wps[k].mutexName ELSE blockedThreadPool[x]
    BY DEF addBlockedThreads
  <2>2. ASSUME x \in Range(ts)  PROVE wps[k].mutexName \in Mutexes
    <3>1. k \in 1 .. Len(wps)
      BY Zenon, <1>2, <2>2
    <3>2. wps[k] \in WaitParam
      BY <3>1
    <3>3. QED BY <3>2 DEF WaitParam
  <2> HIDE DEF k
  <2>3. QED BY <1>2, <2>1, <2>2
<1>11. TypeOK'
  <2>1. blockedThreadPool' \in [Tid -> Mutexes \cup {NoObject}]
    <3>1. blockedThreadPool' = [x \in Tid |-> blockedThreadPool'[x]]
      BY DEF addBlockedThreads
    <3>2. QED BY Zenon, <1>10, <3>1 DEF Inv, TypeOK
  <2>2. QED BY <1>0, <1>8, <1>9, <2>1, FinishIteration DEF Inv, TypeOK
<1>12. PoolExact'
  BY <1>7, <1>8, <1>10, MutexesAssumption DEF Inv, PoolExact
<1>13. BarrierExact' /\ JoinExact'
  BY SMTT(30), <1>7, <1>8, BarrierFrame, JoinFrame
<1>14. CondExact'
  <2>0. ASSUME NEW d \in Conds, NEW e \in Conds,
               NEW i \in 1 .. Len(waiting[d]), NEW j \in 1 .. Len(waiting[e]),
               waiting[d][i].threadId = waiting[e][j].threadId
        PROVE  d = e /\ i = j
    BY <2>0 DEF Inv, CondExact
  <2>1. ASSUME NEW d \in Conds
        PROVE  /\ off(d) \in Nat
               /\ Len(waiting'[d]) \in Nat
               /\ Len(waiting[d]) = Len(waiting'[d]) + off(d)
               /\ \A i \in 1 .. Len(waiting'[d]) :
                    waiting'[d][i] = waiting[d][i + off(d)]
    <3>1. CASE d = c
      BY <1>0, <1>9, <3>1
    <3>2. CASE d # c
      BY <1>1, <1>9, <3>2
    <3>3. QED BY Zenon, <3>1, <3>2
  <2> HIDE DEF off
  <2>2. ASSUME NEW d \in Conds, NEW i \in 1 .. Len(waiting'[d])
        PROVE  /\ i + off(d) \in 1 .. Len(waiting[d])
               /\ waiting'[d][i] = waiting[d][i + off(d)]
    BY SMTT(30), <2>1
  <2>3. ASSUME NEW d \in Conds, NEW i \in 1 .. Len(waiting'[d]), NEW x \in Range(ts)
        PROVE  waiting'[d][i].threadId # x
    <3>1. PICK j \in 1 .. Len(wps) : wps[j].threadId = x
      BY <1>2
    <3>2. j \in 1 .. Len(waiting[c]) /\ waiting[c][j].threadId = x
      BY <1>3, <3>1
    <3>3. SUFFICES ASSUME waiting[d][i + off(d)].threadId = x  PROVE FALSE
      BY SMTT(30), <2>2
    <3>4. d = c /\ i + off(d) = j
      <4>1. ASSUME NEW k \in 1 .. Len(waiting[d]), waiting[d][k].threadId = x
            PROVE  d = c /\ k = j
        BY SMTT(30), <2>0, <3>2, <4>1
      <4>2. i + off(d) \in 1 .. Len(waiting[d])
        BY <2>2
      <4>3. QED BY ONLY <3>3, <4>1, <4>2
    <3>5. QED BY <1>0, <3>1, <3>4 DEF off
  <2>4. ASSUME NEW d \in Conds, NEW i \in 1 .. Len(waiting[d]),
               waiting[d][i].threadId \notin Range(ts)
        PROVE  \E j \in 1 .. Len(waiting'[d]) :
                 waiting'[d][j].threadId = waiting[d][i].threadId
    <3>1. i > off(d)
      BY SMTT(30), <1>0, <1>2, <2>4 DEF off
    <3>2. i - off(d) \in 1 .. Len(waiting'[d]) /\ (i - off(d)) + off(d) = i
      BY SMTT(30), <2>1, <3>1
    <3>3. QED BY SMTT(30), <2>2, <3>2
  <2>5. \A d \in Conds : \A x : x \in Range(threadsOf(waiting'[d])) <=>
          \E i \in 1 .. Len(waiting'[d]) : waiting'[d][i].threadId = x
    BY Zenon, <1>9, ThreadsOf
  <2>6. ASSUME NEW x \in Tid
        PROVE  threadState'[x] = "COND_BLOCKED" <=>
                 \E d \in Conds : x \in Range(threadsOf(waiting'[d]))
    <3>1. threadState'[x] = "COND_BLOCKED" <=>
            threadState[x] = "COND_BLOCKED" /\ x \notin Range(ts)
      BY <1>8
    <3>2. (\E d \in Conds : \E i \in 1 .. Len(waiting'[d]) : waiting'[d][i].threadId = x)
            => threadState[x] = "COND_BLOCKED" /\ x \notin Range(ts)
      <4> SUFFICES ASSUME NEW d \in Conds, NEW i \in 1 .. Len(waiting'[d]),
                          waiting'[d][i].threadId = x
                   PROVE  threadState[x] = "COND_BLOCKED" /\ x \notin Range(ts)
        BY Zenon
      <4>1. x \notin Range(ts)
        BY Zenon, <2>3
      <4>2. PICK k \in 1 .. Len(waiting[d]) : waiting'[d][i] = waiting[d][k]
        BY Zenon, <2>2
      <4>3. threadState[x] = "COND_BLOCKED"
        BY Zenon, <1>6, <4>2
      <4>4. QED BY Zenon, <4>1, <4>3
    <3>3. threadState[x] = "COND_BLOCKED" /\ x \notin Range(ts) =>
            \E d \in Conds : \E i \in 1 .. Len(waiting'[d]) : waiting'[d][i].threadId = x
      <4> SUFFICES ASSUME threadState[x] = "COND_BLOCKED", x \notin Range(ts)
                   PROVE  \E d \in Conds : \E i \in 1 .. Len(waiting'[d]) :
                            waiting'[d][i].threadId = x
        OBVIOUS
      <4>1. PICK d \in Conds : \E i \in 1 .. Len(waiting[d]) : waiting[d][i].threadId = x
        BY Zenon, <1>6
      <4>2. PICK i \in 1 .. Len(waiting[d]) : waiting[d][i].threadId = x
        BY <4>1
      <4>3. QED BY Zenon, <2>4, <4>2
    <3>4. QED BY ONLY Zenon, <2>5, <3>1, <3>2, <3>3
  <2>7. ASSUME NEW d \in Conds, NEW e \in Conds,
               NEW i \in 1 .. Len(waiting'[d]), NEW j \in 1 .. Len(waiting'[e]),
               waiting'[d][i].threadId = waiting'[e][j].threadId
        PROVE  d = e /\ i = j
    <3>1. d = e /\ i + off(d) = j + off(e)
      <4>1. ASSUME NEW k \in 1 .. Len(waiting[d]), NEW l \in 1 .. Len(waiting[e]),
                   waiting[d][k].threadId = waiting[e][l].threadId
            PROVE  d = e /\ k = l
        BY <2>0, <4>1
      <4>2. i + off(d) \in 1 .. Len(waiting[d]) /\ j + off(e) \in 1 .. Len(waiting[e])
        BY <2>2
      <4>3. waiting[d][i + off(d)].threadId = waiting[e][j + off(e)].threadId
        BY Zenon, <2>2, <2>7
      <4>4. QED BY ONLY SMTT(30), <4>1, <4>2, <4>3
    <3>2. QED BY <2>1, <3>1
  <2>8. ASSUME NEW d \in Conds, NEW i \in 1 .. Len(waiting'[d])
        PROVE  lockedThreadId'[waiting'[d][i].mutexName] # waiting'[d][i].threadId
    <3>1. \A k \in 1 .. Len(waiting[d]) :
            lockedThreadId[waiting[d][k].mutexName] # waiting[d][k].threadId
      BY DEF Inv, CondExact
    <3>2. PICK k \in 1 .. Len(waiting[d]) : waiting'[d][i] = waiting[d][k]
      BY Zenon, <2>2
    <3>3. QED BY Zenon, <3>1, <3>2
  <2>9. QED BY <2>6, <2>7, <2>8 DEF CondExact
<1>15. NeverBroken'
  BY <1>0, FinishIteration DEF NeverBroken
<1>16. QED BY <1>8, <1>11, <1>12, <1>13, <1>14, <1>15 DEF Inv

\* pthread_cond_signal: the first waiter is released, by ReleaseInv.
LEMMA CondSignalInv ==
  ASSUME Inv, NEW t \in Tid, NEW c, executePThreadCondSignal(t, c)
  PROVE  Inv'
<1>1. CASE c \notin Conds
  BY <1>1, StatusOnly DEF executePThreadCondSignal, assertFails, Inv, TypeOK
<1>2. CASE c \in Conds
  <2>1. waiting[c] \in Seq(WaitParam) /\ waiting \in [Conds -> Seq(WaitParam)]
    BY <1>2 DEF Inv, TypeOK
  <2>2. CASE waiting[c] = <<>>
    <3> DEFINE e == <<>>
    <3>1. signalled(c) = e
      BY <2>2 DEF signalled
    <3>2. /\ e \in Seq(WaitParam)
          /\ Len(waiting[c]) = Len(e) + Len(e)
          /\ \A i \in 1 .. Len(e) : e[i] = waiting[c][i]
          /\ \A i \in 1 .. Len(e) : e[i] = waiting[c][i + Len(e)]
      BY <2>2
    <3>3. waiting' = [waiting EXCEPT ![c] = e]
      BY <1>2, <2>2 DEF executePThreadCondSignal, signal
    <3> HIDE DEF e
    <3>4. /\ running(t) /\ finishIteration /\ nextThreadId' = nextThreadId
          /\ waiting' = [waiting EXCEPT ![c] = e]
          /\ blockedThreadPool' = addBlockedThreads(blockedThreadPool, e)
          /\ threadState' = enter(threadState, threadsOf(e), "MUTEX_BLOCKED")
          /\ queue' = swapIn(queue, threadsOf(e))
          /\ UNCHANGED <<lockedThreadId, barrier, joinRecord>>
      BY <1>2, <3>1, <3>3 DEF executePThreadCondSignal, signal
    <3>5. QED BY ONLY Zenon, <1>2, <3>2, <3>4, Inv, t \in Tid, ReleaseInv
  <2>3. CASE waiting[c] # <<>>
    <3> DEFINE wps == <<Head(waiting[c])>>
               rest == Tail(waiting[c])
    <3>1. signalled(c) = wps /\ waiting' = [waiting EXCEPT ![c] = rest]
      BY <1>2, <2>1, <2>3 DEF signalled, executePThreadCondSignal, signal
    <3>2. /\ wps \in Seq(WaitParam) /\ rest \in Seq(WaitParam)
          /\ Len(wps) = 1 /\ Len(waiting[c]) = Len(wps) + Len(rest)
          /\ wps[1] = waiting[c][1]
          /\ \A i \in 1 .. Len(rest) : rest[i] = waiting[c][i + Len(wps)]
      BY <2>1, <2>3
    <3> HIDE DEF wps, rest
    <3>3. \A i \in 1 .. Len(wps) : wps[i] = waiting[c][i]
      BY <3>2
    <3>4. /\ running(t) /\ finishIteration /\ nextThreadId' = nextThreadId
          /\ waiting' = [waiting EXCEPT ![c] = rest]
          /\ blockedThreadPool' = addBlockedThreads(blockedThreadPool, wps)
          /\ threadState' = enter(threadState, threadsOf(wps), "MUTEX_BLOCKED")
          /\ queue' = swapIn(queue, threadsOf(wps))
          /\ UNCHANGED <<lockedThreadId, barrier, joinRecord>>
      BY <1>2, <3>1 DEF executePThreadCondSignal, signal
    <3>5. QED BY ONLY Zenon, <1>2, <3>2, <3>3, <3>4, Inv, t \in Tid, ReleaseInv
  <2>4. QED BY <2>2, <2>3
<1>3. QED BY <1>1, <1>2

\* pthread_cond_broadcast: all waiters are released, by ReleaseInv.
LEMMA CondBroadcastInv ==
  ASSUME Inv, NEW t \in Tid, NEW c, executePThreadCondBroadcast(t, c)
  PROVE  Inv'
<1>1. CASE c \notin Conds
  BY <1>1, StatusOnly DEF executePThreadCondBroadcast, assertFails, Inv, TypeOK
<1>2. CASE c \in Conds
  <2>1. waiting[c] \in Seq(WaitParam)
    BY <1>2 DEF Inv, TypeOK
  <2> DEFINE e == <<>>
  <2>2. /\ e \in Seq(WaitParam)
        /\ Len(waiting[c]) = Len(waiting[c]) + Len(e)
        /\ \A i \in 1 .. Len(waiting[c]) : waiting[c][i] = waiting[c][i]
        /\ \A i \in 1 .. Len(e) : e[i] = waiting[c][i + Len(waiting[c])]
    BY <2>1
  <2>3. /\ running(t) /\ finishIteration /\ nextThreadId' = nextThreadId
        /\ waiting' = [waiting EXCEPT ![c] = e]
        /\ blockedThreadPool' = addBlockedThreads(blockedThreadPool, waiting[c])
        /\ threadState' = enter(threadState, threadsOf(waiting[c]), "MUTEX_BLOCKED")
        /\ queue' = swapIn(queue, threadsOf(waiting[c]))
        /\ UNCHANGED <<lockedThreadId, barrier, joinRecord>>
    BY <1>2 DEF executePThreadCondBroadcast, broadcast, broadcasted
  <2> HIDE DEF e
  <2>4. QED BY ONLY Zenon, <1>2, <2>1, <2>2, <2>3, Inv, t \in Tid, ReleaseInv
<1>3. QED BY <1>1, <1>2

-----------------------------------------------------------------------------
\* pthread_barrier_init changes the count and leaves the arrivals alone.
LEMMA BarrierInitInv ==
  ASSUME Inv, NEW t \in Tid, NEW b, NEW n \in BarrierCounts,
         executePThreadBarrierInit(t, b, n)
  PROVE  Inv'
<1>0. control = "run"
  BY DEF executePThreadBarrierInit, running, selected
<1>1. CASE b \notin Barriers
  BY <1>1, StatusOnly DEF executePThreadBarrierInit, assertFails, Inv, TypeOK
<1>2. CASE b \in Barriers
  <2>0. /\ barrier' = [barrier EXCEPT ![b].count = n] /\ finishIteration
        /\ UNCHANGED <<schedulerVars, mutexVars, waiting, joinRecord>>
    BY <1>2 DEF executePThreadBarrierInit, init
  <2>1. barrier \in [Barriers -> BarrierRecord] /\ n \in Nat
    BY BarriersAssumption DEF Inv, TypeOK
  <2>2. /\ barrier' \in [Barriers -> BarrierRecord]
        /\ \A a \in Barriers : /\ barrier'[a].blockedList = barrier[a].blockedList
                               /\ barrier'[a].current = barrier[a].current
    BY Zenon, <1>2, <2>0, <2>1 DEF BarrierRecord
  <2>3. TypeOK'
    BY <1>0, <2>0, <2>2, FinishIteration DEF Inv, TypeOK, schedulerVars, mutexVars
  <2>4. IdsExact' /\ QueueExact' /\ PoolExact'
    BY <2>0 DEF Inv, IdsExact, QueueExact, PoolExact, exists, isSchedulable,
                schedulerVars, mutexVars
  <2>5. CondExact' /\ JoinExact'
    BY <2>0, CondFrame, JoinFrame DEF schedulerVars, mutexVars
  <2>6. BarrierExact'
    BY <2>0, <2>2, BarrierFrame DEF schedulerVars
  <2>7. NeverBroken'
    BY <1>0, <2>0, FinishIteration DEF NeverBroken
  <2>8. QED BY <2>3, <2>4, <2>5, <2>6, <2>7 DEF Inv
<1>3. QED BY <1>1, <1>2

\* A thread arrives at a barrier that stays closed.
LEMMA BarrierBlockInv ==
  ASSUME Inv, NEW t \in Tid, running(t), NEW b \in Barriers, finishIteration,
         barrier' = [barrier EXCEPT ![b] =
           [count |-> barrier[b].count, current |-> barrier[b].current + 1,
            blockedList |-> Append(barrier[b].blockedList, t)]],
         threadState' = [threadState EXCEPT ![t] = "BARRIER_BLOCKED"],
         queue' = removeItem(queue, t),
         nextThreadId' = nextThreadId,
         UNCHANGED <<mutexVars, waiting, joinRecord>>
  PROVE  Inv'
<1> DEFINE list(a) == barrier[a].blockedList
<1>0. control = "run" /\ threadState[t] = "RUNNABLE"
  BY DEF running, selected
<1>1. /\ threadState' \in [Tid -> ThreadStates] /\ queue' \in Seq(Tid)
      /\ \A x \in Tid : threadState'[x] =
           IF x = t THEN "BARRIER_BLOCKED" ELSE threadState[x]
      /\ IdsExact' /\ QueueExact'
  BY Zenon, SwapOut
<1>2. barrier \in [Barriers -> BarrierRecord]
  BY DEF Inv, TypeOK
<1>3. \A a \in Barriers : list(a) \in Seq(Tid) /\ barrier[a].current \in Nat
  BY SMTT(30), <1>2 DEF BarrierRecord
<1>4. /\ barrier' \in [Barriers -> BarrierRecord]
      /\ list(b)' = Append(list(b), t)
      /\ barrier'[b].current = barrier[b].current + 1
      /\ \A a \in Barriers \ {b} : barrier'[a] = barrier[a]
  BY <1>2, <1>3 DEF BarrierRecord
<1>5. TypeOK'
  BY SMTT(30), <1>0, <1>1, <1>4, FinishIteration DEF Inv, TypeOK, mutexVars
<1>6. PoolExact'
  BY <1>0, <1>1 DEF Inv, PoolExact, mutexVars
<1>7. CondExact' /\ JoinExact'
  BY <1>0, <1>1, CondFrame, JoinFrame DEF mutexVars
<1>8. BarrierExact'
  <2>1. /\ \A x \in Tid : threadState[x] = "BARRIER_BLOCKED" <=>
             \E a \in Barriers : x \in Range(list(a))
        /\ \A a \in Barriers : barrier[a].current = Len(list(a))
    BY DEF Inv, BarrierExact
  <2>2. ASSUME NEW a \in Barriers, NEW d \in Barriers,
               NEW i \in 1 .. Len(list(a)), NEW j \in 1 .. Len(list(d)),
               list(a)[i] = list(d)[j]
        PROVE  a = d /\ i = j
    BY <2>2 DEF Inv, BarrierExact
  <2>3. /\ Len(list(b)) \in Nat /\ Len(list(b)') = Len(list(b)) + 1
        /\ \A i \in 1 .. Len(list(b)) : list(b)'[i] = list(b)[i]
        /\ list(b)'[Len(list(b)) + 1] = t
    BY <1>3, <1>4
  <2>4. \A a \in Barriers : a # b => list(a)' = list(a)
    BY <1>4
  <2>5. \A a \in Barriers : \A x : x \in Range(list(a)') <=>
          x \in Range(list(a)) \/ (a = b /\ x = t)
    BY <1>3, <1>4, <2>4, AddItem DEF addItem
  <2>6. \A a \in Barriers : barrier'[a].current = Len(list(a)')
    BY <1>3, <1>4, <2>1, <2>3
  <2>7. ASSUME NEW a \in Barriers, NEW i \in 1 .. Len(list(a))
        PROVE  list(a)[i] # t
    BY <1>0, <1>3, <2>1, InList
  <2> HIDE DEF list
  <2>8. ASSUME NEW a \in Barriers, NEW i \in 1 .. Len(list(a)')
        PROVE  \/ i \in 1 .. Len(list(a)) /\ list(a)'[i] = list(a)[i]
               \/ a = b /\ i = Len(list(b)) + 1 /\ list(a)'[i] = t
    BY <2>3, <2>4
  <2>9. ASSUME NEW a \in Barriers, NEW d \in Barriers,
               NEW i \in 1 .. Len(list(a)'), NEW j \in 1 .. Len(list(d)'),
               list(a)'[i] = list(d)'[j]
        PROVE  a = d /\ i = j
    <3>1. CASE i \in 1 .. Len(list(a)) /\ list(a)'[i] = list(a)[i]
      <4>1. j \in 1 .. Len(list(d)) /\ list(d)'[j] = list(d)[j]
        BY Zenon, <2>7, <2>8, <2>9, <3>1
      <4>2. list(a)[i] = list(d)[j]
        BY Zenon, <2>9, <3>1, <4>1
      <4>3. QED BY <2>2, <3>1, <4>1, <4>2
    <3>2. CASE a = b /\ i = Len(list(b)) + 1 /\ list(a)'[i] = t
      BY <2>7, <2>8, <2>9, <3>2
    <3>3. QED BY <2>8, <3>1, <3>2
  <2>10. \A x \in Tid : threadState'[x] = "BARRIER_BLOCKED" <=>
           \E a \in Barriers : x \in Range(list(a)')
    BY <1>0, <1>1, <2>1, <2>5
  <2>11. QED BY SMTT(30), <2>6, <2>9, <2>10 DEF BarrierExact, list
<1>9. NeverBroken'
  BY <1>0, FinishIteration DEF NeverBroken
<1>10. QED BY <1>1, <1>5, <1>6, <1>7, <1>8, <1>9 DEF Inv

\* The last thread arrives: the barrier opens and is empty again.
LEMMA BarrierOpenInv ==
  ASSUME Inv, NEW t \in Tid, running(t), NEW b \in Barriers, finishIteration,
         barrier' = [barrier EXCEPT ![b] =
           [count |-> barrier[b].count, current |-> 0, blockedList |-> <<>>]],
         threadState' = enter(threadState, barrier[b].blockedList, "RUNNABLE"),
         queue' = swapIn(queue, barrier[b].blockedList),
         nextThreadId' = nextThreadId,
         UNCHANGED <<mutexVars, waiting, joinRecord>>
  PROVE  Inv'
<1> DEFINE list(a) == barrier[a].blockedList
<1>0. control = "run"
  BY DEF running, selected
<1>1. barrier \in [Barriers -> BarrierRecord]
  BY DEF Inv, TypeOK
<1>2. \A a \in Barriers : list(a) \in Seq(Tid)
  BY SMTT(30), <1>1 DEF BarrierRecord
<1>3. /\ barrier' \in [Barriers -> BarrierRecord]
      /\ list(b)' = <<>> /\ barrier'[b].current = 0
      /\ \A a \in Barriers \ {b} : barrier'[a] = barrier[a]
  BY <1>1 DEF BarrierRecord
<1>4. /\ \A x \in Tid : threadState[x] = "BARRIER_BLOCKED" <=>
           \E a \in Barriers : x \in Range(list(a))
      /\ \A a \in Barriers : barrier[a].current = Len(list(a))
  BY DEF Inv, BarrierExact
<1>5. ASSUME NEW a \in Barriers, NEW d \in Barriers,
             NEW i \in 1 .. Len(list(a)), NEW j \in 1 .. Len(list(d)),
             list(a)[i] = list(d)[j]
      PROVE  a = d /\ i = j
  BY <1>5 DEF Inv, BarrierExact
<1>6. Distinct(list(b))
  BY <1>5 DEF Distinct
<1>7. \A a \in Barriers : \A x : x \in Range(list(a)) <=>
        \E i \in 1 .. Len(list(a)) : list(a)[i] = x
  BY <1>2, InList
<1>8. \A x \in Range(list(b)) : x \in Tid /\ threadState[x] = "BARRIER_BLOCKED"
  BY SMTT(30), <1>2, <1>4, <1>7
<1>9. /\ threadState' \in [Tid -> ThreadStates] /\ queue' \in Seq(Tid)
      /\ \A x \in Tid : threadState'[x] =
           IF x \in Range(list(b)) THEN "RUNNABLE" ELSE threadState[x]
      /\ IdsExact' /\ QueueExact'
  BY <1>2, <1>6, <1>8, SwapInThreads
<1>10. TypeOK'
  BY SMTT(30), <1>0, <1>3, <1>9, FinishIteration DEF Inv, TypeOK, mutexVars
<1>11. PoolExact'
  BY <1>8, <1>9 DEF Inv, PoolExact, mutexVars
<1>12. CondExact' /\ JoinExact'
  BY <1>8, <1>9, CondFrame, JoinFrame DEF mutexVars
<1>13. BarrierExact'
  <2>1. \A a \in Barriers : a # b => list(a)' = list(a)
    BY <1>3
  <2>2. /\ Len(list(b)') = 0
        /\ \A x : x \notin Range(list(b)')
    BY <1>3 DEF Range
  <2>3. \A a \in Barriers : barrier'[a].current = Len(list(a)')
    BY <1>3, <1>4, <2>2
  <2> HIDE DEF list
  <2>4. ASSUME NEW x \in Tid, NEW a \in Barriers, a # b,
               x \in Range(list(a)), x \in Range(list(b))
        PROVE  FALSE
    BY <1>5, <1>7, <2>4
  <2>5. \A x \in Tid : threadState'[x] = "BARRIER_BLOCKED" <=>
          \E a \in Barriers : x \in Range(list(a)')
    BY <1>4, <1>9, <2>1, <2>2, <2>4
  <2>6. ASSUME NEW a \in Barriers, NEW d \in Barriers,
               NEW i \in 1 .. Len(list(a)'), NEW j \in 1 .. Len(list(d)'),
               list(a)'[i] = list(d)'[j]
        PROVE  a = d /\ i = j
    BY <1>5, <2>1, <2>2, <2>6
  <2>7. QED BY <2>3, <2>5, <2>6 DEF BarrierExact, list
<1>14. NeverBroken'
  BY <1>0, FinishIteration DEF NeverBroken
<1>15. QED BY <1>9, <1>10, <1>11, <1>12, <1>13, <1>14 DEF Inv

\* pthread_barrier_wait: the barrier is unknown, opens, or stays closed.
LEMMA BarrierWaitInv ==
  ASSUME Inv, NEW t \in Tid, NEW b, executePThreadBarrierWait(t, b)
  PROVE  Inv'
<1>0. running(t) /\ control = "run" /\ finishIteration /\ joinRecord' = joinRecord
  BY DEF executePThreadBarrierWait, running, selected
<1>1. CASE b \notin Barriers
  <2>1. UNCHANGED <<schedulerVars, managerVars>>
    BY <1>1 DEF executePThreadBarrierWait
  <2>2. QED BY <1>0, <2>1, StatusOnly, FinishIteration
<1>2. CASE b \in Barriers /\ isFull(b)
  <2>1. /\ barrier' = [barrier EXCEPT ![b] =
             [count |-> barrier[b].count, current |-> 0, blockedList |-> <<>>]]
        /\ threadState' = enter(threadState, barrier[b].blockedList, "RUNNABLE")
        /\ queue' = swapIn(queue, barrier[b].blockedList)
        /\ nextThreadId' = nextThreadId /\ UNCHANGED <<mutexVars, waiting>>
    BY <1>2 DEF executePThreadBarrierWait, barrierWait
  <2>2. QED BY Zenon, <1>0, <1>2, <2>1, BarrierOpenInv
<1>3. CASE b \in Barriers /\ ~ isFull(b)
  <2>1. /\ barrier' = [barrier EXCEPT ![b] =
             [count |-> barrier[b].count, current |-> barrier[b].current + 1,
              blockedList |-> Append(barrier[b].blockedList, t)]]
        /\ threadState' = [threadState EXCEPT ![t] = "BARRIER_BLOCKED"]
        /\ queue' = removeItem(queue, t)
        /\ nextThreadId' = nextThreadId /\ UNCHANGED <<mutexVars, waiting>>
    BY <1>3 DEF executePThreadBarrierWait, barrierWait
  <2>2. QED BY Zenon, <1>0, <1>3, <2>1, BarrierBlockInv
<1>4. QED BY <1>1, <1>2, <1>3

-----------------------------------------------------------------------------
\* Every step preserves the invariant.
LEMMA NextInv == Inv /\ [Next]_vars => Inv'
<1> SUFFICES ASSUME Inv, [Next]_vars  PROVE Inv'
  OBVIOUS
<1>1. ASSUME NEW t \in Tid, pthreadCall(t)  PROVE Inv'
  BY <1>1, CreateInv, JoinInv, MutexLockInv, MutexUnlockInv, CondWaitInv,
     CondSignalInv, CondBroadcastInv, BarrierWaitInv, BarrierInitInv
     DEF pthreadCall
<1>2. ASSUME NEW t \in Tid, terminates(t)  PROVE Inv'
  <2>1. CASE threadEnd(t)
    BY <2>1, ThreadEndInv
  <2>2. CASE terminateStateOnExit(t)
    BY <2>2, StatusOnly DEF terminateStateOnExit, Inv, TypeOK
  <2>3. CASE terminateStateOnError(t)
    BY <2>3, StatusOnly DEF terminateStateOnError
  <2>4. QED BY <1>2, <2>1, <2>2, <2>3 DEF terminates
<1>3. CASE UNCHANGED vars
  BY SMTT(30), <1>3 DEF vars, Inv, TypeOK, IdsExact, QueueExact, PoolExact, CondExact,
     BarrierExact, JoinExact, NeverBroken, isSchedulable, exists
<1>4. QED BY <1>1, <1>2, <1>3, NotRunnableInv DEF Next, runOver

\* The inductive invariant holds in every state of every execution, whatever
\* the program calls and however many threads and objects it has.
THEOREM InvHolds == Spec => []Inv
BY InitInv, NextInv, PTL DEF Spec

\* Every value the run loop and the managers keep has its type; in particular
\* no more thread ids are handed out than the assert in getNextThreadId allows.
THEOREM TypeCorrect == Spec => []TypeOK
<1>1. Inv => TypeOK
  BY DEF Inv
<1>2. QED BY <1>1, InvHolds, PTL

\* However the program's threads interleave their calls, the run queue holds
\* exactly the threads the executor may select, each once.
THEOREM QueueCorrect == Spec => []QueueExact
<1>1. Inv => QueueExact
  BY DEF Inv
<1>2. QED BY <1>1, InvHolds, PTL

\* No wake-up is lost and none is delivered twice: a blocked thread is
\* registered once, with the manager that its state names.
THEOREM RegistrationCorrect == Spec => []RegisteredWhereBlocked
<1>1. Inv => RegisteredWhereBlocked
  BY DEF Inv, RegisteredWhereBlocked
<1>2. QED BY <1>1, InvHolds, PTL

\* The asserts of the retry loop on the executor's own state never fail.
THEOREM AssertsHold == Spec => []NeverBroken
<1>1. Inv => NeverBroken
  BY DEF Inv
<1>2. QED BY <1>1, InvHolds, PTL
=============================================================================
