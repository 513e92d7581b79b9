------------------------ MODULE ThreadSchedulerProofs ------------------------
(***************************************************************************)
(* What the operations on the run queue do to its members and to their     *)
(* being there once, for lists of any length.                              *)
(***************************************************************************)
EXTENDS ThreadScheduler, TLAPS

\* No element of s occurs twice.
Distinct(s) == \A i, j \in 1 .. Len(s) : s[i] = s[j] => i = j

\* Membership in a list, by position.
LEMMA InList ==
  ASSUME NEW S, NEW s \in Seq(S)
  PROVE  \A x : x \in Range(s) <=> \E i \in 1 .. Len(s) : s[i] = x
BY DOMAIN s = 1 .. Len(s) DEF Range

\* The community operator and positions.
LEMMA InjectiveList ==
  ASSUME NEW S, NEW s \in Seq(S)
  PROVE  IsInjective(s) <=> Distinct(s)
BY DOMAIN s = 1 .. Len(s) DEF IsInjective, Distinct

\* Appending one new element.
LEMMA AddItem ==
  ASSUME NEW S, NEW s \in Seq(S), NEW e \in S
  PROVE  /\ addItem(s, e) \in Seq(S)
         /\ \A x : x \in Range(addItem(s, e)) <=> x \in Range(s) \/ x = e
         /\ Distinct(s) /\ e \notin Range(s) => Distinct(addItem(s, e))
         /\ addItem(s, e) # <<>>
<1>1. /\ addItem(s, e) \in Seq(S)
      /\ Len(addItem(s, e)) = Len(s) + 1
      /\ \A i \in 1 .. Len(s) : addItem(s, e)[i] = s[i]
      /\ addItem(s, e)[Len(s) + 1] = e
  BY DEF addItem
<1>2. \A i : i \in 1 .. Len(s) + 1 <=> i \in 1 .. Len(s) \/ i = Len(s) + 1
  OBVIOUS
<1>3. \A x : x \in Range(addItem(s, e)) <=> x \in Range(s) \/ x = e
  BY <1>1, <1>2, InList
<1>4. ASSUME Distinct(s), e \notin Range(s)  PROVE Distinct(addItem(s, e))
  BY <1>1, <1>2, <1>4, InList DEF Distinct
<1>5. QED BY <1>1, <1>3, <1>4

\* The elements of a concatenation, by position.
LEMMA Concat ==
  ASSUME NEW S, NEW a \in Seq(S), NEW b \in Seq(S)
  PROVE  /\ a \o b \in Seq(S)
         /\ Len(a \o b) = Len(a) + Len(b)
         /\ \A i \in 1 .. Len(a) : (a \o b)[i] = a[i]
         /\ \A i \in 1 .. Len(b) : (a \o b)[i + Len(a)] = b[i]
OBVIOUS

\* Appending a list of new elements.
LEMMA SwapIn ==
  ASSUME NEW S, NEW s \in Seq(S), NEW ts \in Seq(S)
  PROVE  /\ swapIn(s, ts) \in Seq(S)
         /\ \A x : x \in Range(swapIn(s, ts)) <=> x \in Range(s) \/ x \in Range(ts)
         /\ Distinct(s) /\ Distinct(ts) /\ (\A x \in Range(ts) : x \notin Range(s))
              => Distinct(swapIn(s, ts))
<1> DEFINE q == swapIn(s, ts)
<1>1. /\ q \in Seq(S)
      /\ Len(q) = Len(s) + Len(ts)
      /\ Len(s) \in Nat
      /\ Len(ts) \in Nat
  BY Concat DEF swapIn
<1>2. \A i \in 1 .. Len(s) : q[i] = s[i]
  BY Concat DEF swapIn
<1>3. \A i \in 1 .. Len(ts) : q[i + Len(s)] = ts[i]
  BY Concat DEF swapIn
<1>4. ASSUME NEW i \in 1 .. Len(q)
      PROVE  \/ i \in 1 .. Len(s) /\ q[i] = s[i]
             \/ i - Len(s) \in 1 .. Len(ts) /\ q[i] = ts[i - Len(s)]
  <2>1. CASE i <= Len(s)  BY <1>1, <1>2, <2>1
  <2>2. CASE i > Len(s)
    <3>1. i - Len(s) \in 1 .. Len(ts) /\ (i - Len(s)) + Len(s) = i
      BY <1>1, <2>2
    <3>2. QED BY <1>3, <3>1
  <2>3. QED BY <1>1, <2>1, <2>2
<1> HIDE DEF q
<1>5. /\ \A x : x \in Range(q) <=> \E i \in 1 .. Len(q) : q[i] = x
      /\ \A x : x \in Range(s) <=> \E i \in 1 .. Len(s) : s[i] = x
      /\ \A x : x \in Range(ts) <=> \E i \in 1 .. Len(ts) : ts[i] = x
  BY SMTT(30), <1>1, InList
<1>6. ASSUME NEW x  PROVE x \in Range(q) <=> x \in Range(s) \/ x \in Range(ts)
  <2>1. ASSUME x \in Range(q)  PROVE x \in Range(s) \/ x \in Range(ts)
    BY <1>4, <1>5, <2>1
  <2>2. ASSUME x \in Range(s)  PROVE x \in Range(q)
    <3>1. PICK i \in 1 .. Len(s) : s[i] = x  BY <1>5, <2>2
    <3>2. i \in 1 .. Len(q)  BY <1>1
    <3>3. QED BY <1>2, <1>5, <3>1, <3>2
  <2>3. ASSUME x \in Range(ts)  PROVE x \in Range(q)
    <3>1. PICK i \in 1 .. Len(ts) : ts[i] = x  BY <1>5, <2>3
    <3>2. i + Len(s) \in 1 .. Len(q)  BY <1>1
    <3>3. QED BY <1>3, <1>5, <3>1, <3>2
  <2>4. QED BY <2>1, <2>2, <2>3
<1>7. ASSUME Distinct(s), Distinct(ts), \A x \in Range(ts) : x \notin Range(s)
      PROVE  Distinct(q)
  <2> SUFFICES ASSUME NEW i \in 1 .. Len(q), NEW j \in 1 .. Len(q), q[i] = q[j]
               PROVE  i = j
    BY DEF Distinct
  <2>1. CASE i \in 1 .. Len(s) /\ q[i] = s[i] /\ j \in 1 .. Len(s) /\ q[j] = s[j]
    BY Zenon, <1>7, <2>1 DEF Distinct
  <2>2. CASE /\ i - Len(s) \in 1 .. Len(ts) /\ q[i] = ts[i - Len(s)]
             /\ j - Len(s) \in 1 .. Len(ts) /\ q[j] = ts[j - Len(s)]
    <3>1. i - Len(s) = j - Len(s)  BY Zenon, <1>7, <2>2 DEF Distinct
    <3>2. QED BY <1>1, <3>1
  <2>3. ASSUME NEW k \in 1 .. Len(s), NEW l \in 1 .. Len(ts), s[k] = ts[l]
        PROVE  FALSE
    BY <1>5, <1>7, <2>3
  <2>4. QED BY <1>4, <2>1, <2>2, <2>3
<1>8. QED BY <1>1, <1>6, <1>7 DEF q

\* Moving the first element to the end.
LEMMA ReSchedule ==
  ASSUME NEW S, NEW s \in Seq(S), s # <<>>
  PROVE  /\ reSchedule(s) \in Seq(S)
         /\ \A x : x \in Range(reSchedule(s)) <=> x \in Range(s)
         /\ Distinct(s) => Distinct(reSchedule(s))
<1> DEFINE q == reSchedule(s)
<1>1. /\ q \in Seq(S)
      /\ Len(q) = Len(s)
      /\ Len(s) \in Nat \ {0}
      /\ \A i \in 1 .. Len(s) : q[i] = IF i < Len(s) THEN s[i + 1] ELSE s[1]
  BY DEF reSchedule
<1> HIDE DEF q
<1>2. /\ \A x : x \in Range(q) <=> \E i \in 1 .. Len(q) : q[i] = x
      /\ \A x : x \in Range(s) <=> \E i \in 1 .. Len(s) : s[i] = x
  BY <1>1, InList
<1>3. ASSUME NEW x  PROVE x \in Range(q) <=> x \in Range(s)
  <2>1. ASSUME x \in Range(q)  PROVE x \in Range(s)
    <3>1. PICK i \in 1 .. Len(s) : q[i] = x  BY <1>1, <1>2, <2>1
    <3>2. CASE i < Len(s)
      BY <1>1, <1>2, <3>1, <3>2, i + 1 \in 1 .. Len(s)
    <3>3. CASE i = Len(s)
      BY <1>1, <1>2, <3>1, <3>3, 1 \in 1 .. Len(s)
    <3>4. QED BY <1>1, <3>2, <3>3
  <2>2. ASSUME x \in Range(s)  PROVE x \in Range(q)
    <3>1. PICK i \in 1 .. Len(s) : s[i] = x  BY <1>2, <2>2
    <3>2. CASE i = 1
      <4>1. Len(s) \in 1 .. Len(s) /\ q[Len(s)] = s[1]  BY <1>1
      <4>2. QED BY <1>1, <1>2, <3>1, <3>2, <4>1
    <3>3. CASE i > 1
      <4>1. i - 1 \in 1 .. Len(s) /\ i - 1 < Len(s) /\ (i - 1) + 1 = i
        BY <1>1, <3>3
      <4>2. q[i - 1] = s[i]  BY <1>1, <4>1
      <4>3. QED BY <1>1, <1>2, <3>1, <4>1, <4>2
    <3>4. QED BY <1>1, <3>2, <3>3
  <2>3. QED BY <2>1, <2>2
<1>4. ASSUME Distinct(s)  PROVE Distinct(q)
  <2> SUFFICES ASSUME NEW i \in 1 .. Len(s), NEW j \in 1 .. Len(s), q[i] = q[j]
               PROVE  i = j
    BY <1>1 DEF Distinct
  <2>1. CASE i < Len(s) /\ j < Len(s)
    <3>1. i + 1 \in 1 .. Len(s) /\ j + 1 \in 1 .. Len(s)  BY <1>1, <2>1
    <3>2. s[i + 1] = s[j + 1]  BY <1>1, <2>1
    <3>3. QED BY <1>1, <1>4, <3>1, <3>2 DEF Distinct
  <2>2. ASSUME NEW k \in 1 .. Len(s), NEW l \in 1 .. Len(s),
               k < Len(s), l = Len(s), q[k] = q[l]
        PROVE  FALSE
    <3>1. k + 1 \in 1 .. Len(s) /\ 1 \in 1 .. Len(s)  BY <1>1, <2>2
    <3>2. s[k + 1] = s[1]  BY <1>1, <2>2
    <3>3. QED BY <1>1, <1>4, <3>1, <3>2 DEF Distinct
  <2>3. QED BY <1>1, <2>1, <2>2
<1>5. QED BY <1>1, <1>3, <1>4 DEF q

\* Removing an element that occurs once.
LEMMA RemoveItem ==
  ASSUME NEW S, NEW s \in Seq(S), NEW e \in Range(s), Distinct(s)
  PROVE  /\ removeItem(s, e) \in Seq(S)
         /\ \A x : x \in Range(removeItem(s, e)) <=> x \in Range(s) /\ x # e
         /\ Distinct(removeItem(s, e))
<1> DEFINE q == removeItem(s, e)
<1>1. PICK k \in 1 .. Len(s) : s[k] = e
  BY InList
<1>2. \A i \in DOMAIN s : s[i] = e /\ (\A j \in 1 .. i - 1 : s[j] # e) <=> i = k
  BY <1>1, DOMAIN s = 1 .. Len(s) DEF Distinct
<1>3. firstAt(s, e) = k
  BY SMTT(30), <1>1, <1>2, DOMAIN s = 1 .. Len(s) DEF firstAt
<1>4. q = SubSeq(s, 1, k - 1) \o SubSeq(s, k + 1, Len(s))
  BY Zenon, <1>3 DEF removeItem
<1>5. /\ Len(s) \in Nat
      /\ SubSeq(s, 1, k - 1) \in Seq(S)
      /\ Len(SubSeq(s, 1, k - 1)) = k - 1
      /\ \A i \in 1 .. k - 1 : SubSeq(s, 1, k - 1)[i] = s[i]
      /\ SubSeq(s, k + 1, Len(s)) \in Seq(S)
      /\ Len(SubSeq(s, k + 1, Len(s))) = Len(s) - k
      /\ \A i \in 1 .. Len(s) - k : SubSeq(s, k + 1, Len(s))[i] = s[i + k]
  OBVIOUS
<1>6. /\ q \in Seq(S)
      /\ Len(q) = Len(s) - 1
      /\ \A i \in 1 .. Len(s) - 1 : q[i] = IF i < k THEN s[i] ELSE s[i + 1]
  <2> DEFINE a == SubSeq(s, 1, k - 1)
             b == SubSeq(s, k + 1, Len(s))
             c == a \o b
  <2>1. a \in Seq(S) /\ b \in Seq(S)
    BY <1>5
  <2>2. /\ Len(a) = k - 1
        /\ Len(b) = Len(s) - k
        /\ \A i \in 1 .. k - 1 : a[i] = s[i]
        /\ \A i \in 1 .. Len(s) - k : b[i] = s[i + k]
    BY <1>5
  <2>3. q = c
    BY <1>4
  <2> HIDE DEF a, b, q
  <2>4. /\ c \in Seq(S)
        /\ Len(c) = Len(a) + Len(b)
        /\ \A i \in 1 .. Len(a) : c[i] = a[i]
        /\ \A i \in 1 .. Len(b) : c[i + Len(a)] = b[i]
    BY <2>1, Concat
  <2> HIDE DEF c
  <2>5. Len(c) = Len(s) - 1
    BY <1>5, <2>2, <2>4
  <2>6. ASSUME NEW i \in 1 .. Len(s) - 1
        PROVE  c[i] = IF i < k THEN s[i] ELSE s[i + 1]
    <3>1. CASE i < k
      <4>1. i \in 1 .. k - 1  BY <1>5, <3>1
      <4>2. QED BY <2>2, <2>4, <3>1, <4>1
    <3>2. CASE i >= k
      <4> DEFINE j == i - (k - 1)
      <4>1. j \in 1 .. Len(s) - k /\ j + (k - 1) = i /\ j + k = i + 1
        BY <1>5, <3>2
      <4> HIDE DEF j
      <4>2. c[i] = b[j] /\ b[j] = s[i + 1]  BY Zenon, <2>2, <2>4, <4>1
      <4>3. QED BY <1>5, <3>2, <4>2
    <3>3. QED BY <1>5, <3>1, <3>2
  <2>7. QED BY <2>3, <2>4, <2>5, <2>6
<1>7. \A i \in 1 .. Len(s) - 1 : q[i] = IF i < k THEN s[i] ELSE s[i + 1]
  BY <1>6
<1> HIDE DEF q
<1>8. /\ \A x : x \in Range(q) <=> \E i \in 1 .. Len(q) : q[i] = x
      /\ \A x : x \in Range(s) <=> \E i \in 1 .. Len(s) : s[i] = x
  BY <1>6, InList
<1>9. ASSUME NEW x  PROVE x \in Range(q) <=> x \in Range(s) /\ x # e
  <2>1. ASSUME x \in Range(q)  PROVE x \in Range(s) /\ x # e
    <3>1. PICK i \in 1 .. Len(s) - 1 : q[i] = x  BY <1>6, <1>8, <2>1
    <3>2. PICK j \in 1 .. Len(s) : s[j] = x /\ j # k
      <4>1. CASE i < k  BY <1>5, <1>7, <3>1, <4>1
      <4>2. CASE i >= k  BY <1>5, <1>7, <3>1, <4>2, i + 1 \in 1 .. Len(s)
      <4>3. QED BY <1>5, <3>1, <4>1, <4>2
    <3>3. QED BY <1>1, <1>8, <3>2 DEF Distinct
  <2>2. ASSUME x \in Range(s), x # e  PROVE x \in Range(q)
    <3>1. PICK i \in 1 .. Len(s) : s[i] = x /\ i # k  BY <1>1, <1>8, <2>2
    <3>2. CASE i < k
      <4>1. i \in 1 .. Len(s) - 1  BY <1>5, <3>2
      <4>2. QED BY <1>6, <1>7, <1>8, <3>1, <3>2, <4>1
    <3>3. CASE i > k
      <4>1. /\ i - 1 \in 1 .. Len(s) - 1 /\ ~ (i - 1 < k) /\ (i - 1) + 1 = i
        BY <1>5, <3>3
      <4>2. q[i - 1] = s[i]  BY <1>7, <4>1
      <4>3. QED BY <1>6, <1>8, <3>1, <4>1, <4>2
    <3>4. QED BY <1>5, <3>1, <3>2, <3>3
  <2>3. QED BY <2>1, <2>2
<1>10. Distinct(q)
  <2> SUFFICES ASSUME NEW i \in 1 .. Len(s) - 1, NEW j \in 1 .. Len(s) - 1,
                      q[i] = q[j]
               PROVE  i = j
    BY <1>6 DEF Distinct
  <2> DEFINE at(n) == IF n < k THEN n ELSE n + 1
  <2>1. /\ at(i) \in 1 .. Len(s) /\ q[i] = s[at(i)]
        /\ at(j) \in 1 .. Len(s) /\ q[j] = s[at(j)]
    BY <1>5, <1>7
  <2>2. at(i) = at(j)  BY Zenon, <2>1 DEF Distinct
  <2>3. QED BY <1>5, <2>2
<1>11. QED BY <1>6, <1>9, <1>10 DEF q
=============================================================================
