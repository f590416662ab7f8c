----------------------------- MODULE TimerProofs -----------------------------
(***************************************************************************)
(* The timers, for any sets of hard and soft timers, any range of the tick *)
(* and any times: the lists stay in order though the tick wraps around, no *)
(* timer fires early, and the timer thread sleeps no longer than it may.   *)
(***************************************************************************)
EXTENDS Timer, SequenceTheorems, FiniteSetTheorems, WellFoundedInduction, TLAPS

(***************************************************************************)
(* Lists.                                                                  *)
(***************************************************************************)
(* What taking one element out of a sequence leaves.                       *)
LEMMA RemoveAtElements ==
  ASSUME NEW S, NEW s \in Seq(S), NEW i \in 1 .. Len(s)
  PROVE  /\ RemoveAt(s, i) \in Seq(S)
         /\ Len(RemoveAt(s, i)) = Len(s) - 1
         /\ \A j \in 1 .. Len(s) - 1 :
              RemoveAt(s, i)[j] = IF j < i THEN s[j] ELSE s[j + 1]
<1> DEFINE a == SubSeq(s, 1, i - 1)
           b == SubSeq(s, i + 1, Len(s))
<1>1. Len(s) \in Nat /\ \A j \in 1 .. Len(s) : s[j] \in S
  BY LenProperties, ElementOfSeq
<1>2. /\ a \in Seq(S) /\ Len(a) = i - 1
      /\ \A j \in 1 .. i - 1 : a[j] = s[j]
  <2>1. 1 \in Int /\ i - 1 \in Int /\ \A j \in 1 .. i - 1 : s[j] \in S
    BY <1>1
  <2>2. /\ SubSeq(s, 1, i - 1) \in Seq(S)
        /\ Len(SubSeq(s, 1, i - 1)) = IF 1 <= i - 1 THEN (i - 1) - 1 + 1 ELSE 0
        /\ \A j \in 1 .. (i - 1) - 1 + 1 : SubSeq(s, 1, i - 1)[j] = s[1 + j - 1]
    BY <2>1, SubSeqProperties
  <2> QED BY <2>2, <1>1
<1>3. /\ b \in Seq(S) /\ Len(b) = Len(s) - i
      /\ \A j \in 1 .. Len(s) - i : b[j] = s[i + j]
  <2>1. i + 1 \in Int /\ Len(s) \in Int /\ \A j \in i + 1 .. Len(s) : s[j] \in S
    BY <1>1
  <2>2. /\ SubSeq(s, i + 1, Len(s)) \in Seq(S)
        /\ Len(SubSeq(s, i + 1, Len(s))) = IF i + 1 <= Len(s) THEN Len(s) - (i + 1) + 1 ELSE 0
        /\ \A j \in 1 .. Len(s) - (i + 1) + 1 : SubSeq(s, i + 1, Len(s))[j] = s[(i + 1) + j - 1]
    BY <2>1, SubSeqProperties
  <2> QED BY <2>2, <1>1
<1>4. /\ a \o b \in Seq(S)
      /\ Len(a \o b) = Len(a) + Len(b)
      /\ \A j \in 1 .. Len(a) + Len(b) :
           (a \o b)[j] = IF j <= Len(a) THEN a[j] ELSE b[j - Len(a)]
  BY <1>2, <1>3, ConcatProperties
<1>5. RemoveAt(s, i) = a \o b
  BY DEF RemoveAt
<1> HIDE DEF a, b
<1>6. Len(a) + Len(b) = Len(s) - 1
  BY <1>1, <1>2, <1>3
<1>7. ASSUME NEW j \in 1 .. Len(s) - 1
      PROVE  (a \o b)[j] = IF j < i THEN s[j] ELSE s[j + 1]
  <2>1. CASE j < i
    BY <1>1, <1>2, <1>4, <1>6, <2>1
  <2>2. CASE ~ (j < i)
    <3>1. (a \o b)[j] = b[j - (i - 1)]
      BY <1>1, <1>2, <1>4, <1>6, <2>2
    <3>2. j - (i - 1) \in 1 .. Len(s) - i /\ i + (j - (i - 1)) = j + 1
      BY <1>1, <2>2
    <3> QED BY <1>3, <2>2, <3>1, <3>2
  <2> QED BY <2>1, <2>2
<1> QED BY <1>4, <1>5, <1>6, <1>7

(* And what linking one at place i makes of it.                            *)
LEMMA InsertAtElements ==
  ASSUME NEW S, NEW s \in Seq(S), NEW t \in S, NEW i \in 1 .. Len(s) + 1
  PROVE  /\ InsertAt(s, i, t) \in Seq(S)
         /\ Len(InsertAt(s, i, t)) = Len(s) + 1
         /\ \A j \in 1 .. Len(s) + 1 :
              InsertAt(s, i, t)[j] = IF j < i THEN s[j] ELSE IF j = i THEN t ELSE s[j - 1]
<1> DEFINE a == SubSeq(s, 1, i - 1)
           b == SubSeq(s, i, Len(s))
           r == InsertAt(s, i, t)
<1>1. Len(s) \in Nat /\ DOMAIN s = 1 .. Len(s) /\ \A j \in 1 .. Len(s) : s[j] \in S
  BY LenProperties, ElementOfSeq
<1>2. /\ a \in Seq(S) /\ Len(a) = i - 1
      /\ \A j \in 1 .. i - 1 : a[j] = s[j]
  <2>1. 1 \in Int /\ i - 1 \in Int /\ \A j \in 1 .. i - 1 : s[j] \in S
    BY <1>1
  <2>2. /\ SubSeq(s, 1, i - 1) \in Seq(S)
        /\ Len(SubSeq(s, 1, i - 1)) = IF 1 <= i - 1 THEN (i - 1) - 1 + 1 ELSE 0
        /\ \A j \in 1 .. (i - 1) - 1 + 1 : SubSeq(s, 1, i - 1)[j] = s[1 + j - 1]
    BY <2>1, SubSeqProperties
  <2> QED BY <2>2, <1>1
<1>3. /\ b \in Seq(S) /\ Len(b) = Len(s) - i + 1
      /\ \A j \in 1 .. Len(s) - i + 1 : b[j] = s[i + j - 1]
  <2>1. i \in Int /\ Len(s) \in Int /\ \A j \in i .. Len(s) : s[j] \in S
    BY <1>1
  <2>2. /\ SubSeq(s, i, Len(s)) \in Seq(S)
        /\ Len(SubSeq(s, i, Len(s))) = IF i <= Len(s) THEN Len(s) - i + 1 ELSE 0
        /\ \A j \in 1 .. Len(s) - i + 1 : SubSeq(s, i, Len(s))[j] = s[i + j - 1]
    BY <2>1, SubSeqProperties
  <2> QED BY <2>2, <1>1
<1>4. <<t>> \in Seq(S) /\ Len(<<t>>) = 1 /\ <<t>>[1] = t
  OBVIOUS
<1> HIDE DEF a, b
<1> DEFINE c == a \o <<t>>
<1>5. /\ c \in Seq(S) /\ Len(c) = i
      /\ \A j \in 1 .. i : c[j] = IF j <= i - 1 THEN s[j] ELSE t
  <2>1. /\ c \in Seq(S) /\ Len(c) = Len(a) + Len(<<t>>)
        /\ \A j \in 1 .. Len(a) + Len(<<t>>) :
             c[j] = IF j <= Len(a) THEN a[j] ELSE <<t>>[j - Len(a)]
    BY <1>2, <1>4, ConcatProperties
  <2>2. ASSUME NEW j \in 1 .. i  PROVE c[j] = IF j <= i - 1 THEN s[j] ELSE t
    <3>1. CASE j <= i - 1
      BY <1>1, <1>2, <1>4, <2>1, <3>1
    <3>2. CASE j = i
      <4>1. c[j] = <<t>>[j - Len(a)] /\ j - Len(a) = 1
        BY <1>1, <1>2, <1>4, <2>1, <3>2
      <4> QED BY <1>1, <1>4, <3>2, <4>1
    <3>3. j <= i - 1 \/ j = i
      BY <1>1
    <3> QED BY <3>1, <3>2, <3>3
  <2>3. Len(a) + Len(<<t>>) = i
    BY <1>1, <1>2, <1>4
  <2> QED BY <2>1, <2>2, <2>3
<1> HIDE DEF c
<1>6. /\ r \in Seq(S) /\ Len(r) = Len(s) + 1
      /\ \A j \in 1 .. Len(s) + 1 :
           r[j] = IF j < i THEN s[j] ELSE IF j = i THEN t ELSE s[j - 1]
  <2>1. r = c \o b
    BY DEF InsertAt, a, b, c
  <2>2. /\ c \o b \in Seq(S) /\ Len(c \o b) = Len(c) + Len(b)
        /\ \A j \in 1 .. Len(c) + Len(b) :
             (c \o b)[j] = IF j <= Len(c) THEN c[j] ELSE b[j - Len(c)]
    BY <1>3, <1>5, ConcatProperties
  <2>3. Len(c) + Len(b) = Len(s) + 1
    BY <1>1, <1>3, <1>5
  <2>4. ASSUME NEW j \in 1 .. Len(s) + 1
        PROVE  (c \o b)[j] = IF j < i THEN s[j] ELSE IF j = i THEN t ELSE s[j - 1]
    <3>1. CASE j <= i
      BY <1>1, <1>5, <2>2, <2>3, <3>1
    <3>2. CASE ~ (j <= i)
      <4>1. (c \o b)[j] = b[j - i]
        BY <1>1, <1>5, <2>2, <2>3, <3>2
      <4>2. j - i \in 1 .. Len(s) - i + 1 /\ i + (j - i) - 1 = j - 1
        BY <1>1, <3>2
      <4> QED BY <1>1, <1>3, <3>2, <4>1, <4>2
    <3> QED BY <3>1, <3>2
  <2> QED BY <2>1, <2>2, <2>3, <2>4
<1> QED BY <1>6 DEF r

(* The least element of a set of numbers.                                  *)
LEMMA LeastElement ==
  ASSUME NEW T \in SUBSET Nat, T # {}
  PROVE  \E m \in T : \A n \in T : m <= n
<1> DEFINE R == {ss \in Nat \X Nat : ss[1] < ss[2]}
<1>1. IsWellFoundedOn(R, Nat)
  BY NatLessThanWellFounded DEF OpToRel
<1> HIDE DEF R
<1>2. PICK m \in T : \A n \in T : ~ (<<n, m>> \in R)
  BY <1>1, WFMin
<1>3. \A n \in T : ~ (n < m)
  BY <1>2 DEF R
<1> QED BY <1>3

(* A list: no timer is linked twice.                                       *)
Line(s, S) == s \in Seq(S) /\ IsInjective(s)

(* In the order of the numbers lf.                                         *)
Sorted(s, lf) == \A i, j \in 1 .. Len(s) : i < j => lf[s[i]] <= lf[s[j]]

(* The elements of r come in the order of s.                               *)
Within(r, s) ==
  \A i, j \in 1 .. Len(r) : i < j =>
     \E m, n \in 1 .. Len(s) : m < n /\ r[i] = s[m] /\ r[j] = s[n]

LEMMA WithinSorted ==
  ASSUME NEW r, NEW s, Within(r, s), NEW lf, Sorted(s, lf)
  PROVE  Sorted(r, lf)
<1> SUFFICES ASSUME NEW i \in 1 .. Len(r), NEW j \in 1 .. Len(r), i < j
             PROVE  lf[r[i]] <= lf[r[j]]
  BY DEF Sorted
<1>1. PICK m, n \in 1 .. Len(s) : m < n /\ r[i] = s[m] /\ r[j] = s[n]
  BY DEF Within
<1> QED BY <1>1 DEF Sorted

(* rt_list_remove: a list loses x and nothing else.                        *)
LEMMA RemovedLine ==
  ASSUME NEW S, NEW s, Line(s, S), NEW x, NEW r, r = RemoveFirst(s, x)
  PROVE  /\ Line(r, S) /\ Within(r, s)
         /\ \A y : y \in Range(r) <=> y \in Range(s) /\ y # x
<1>1. s \in Seq(S) /\ IsInjective(s) /\ Len(s) \in Nat /\ DOMAIN s = 1 .. Len(s)
  BY LenProperties DEF Line
<1>2. CASE \A i \in 1 .. Len(s) : s[i] # x
  <2>1. r = s
    BY <1>2 DEF RemoveFirst
  <2>2. Within(s, s)
    BY DEF Within
  <2>3. \A y : y \in Range(s) => y # x
    BY <1>1, <1>2 DEF Range
  <2> QED BY <2>1, <2>2, <2>3
<1>3. CASE \E i \in 1 .. Len(s) : s[i] = x
  <2>1. PICK i \in 1 .. Len(s) : s[i] = x
    BY <1>3
  <2>2. {n \in 1 .. Len(s) : s[n] = x} = {i}
    BY <1>1, <2>1 DEF IsInjective
  <2>3. Min({i}) = i
    BY <1>1 DEF Min
  <2>4. SelectInSeq(s, LAMBDA v : v = x) = i
    BY <2>2, <2>3 DEF SelectInSeq
  <2>5. r = RemoveAt(s, i)
    BY <1>3, <2>4 DEF RemoveFirst
  <2>6. /\ r \in Seq(S) /\ Len(r) = Len(s) - 1
        /\ \A j \in 1 .. Len(s) - 1 : r[j] = IF j < i THEN s[j] ELSE s[j + 1]
    <3>1. /\ RemoveAt(s, i) \in Seq(S)
          /\ Len(RemoveAt(s, i)) = Len(s) - 1
          /\ \A j \in 1 .. Len(s) - 1 :
               RemoveAt(s, i)[j] = IF j < i THEN s[j] ELSE s[j + 1]
      <4>1. s \in Seq(S) /\ i \in 1 .. Len(s)
        BY <1>1
      <4> QED BY <4>1, RemoveAtElements
    <3> QED BY <2>5, <3>1
  <2>7. DOMAIN r = 1 .. Len(s) - 1
    BY <2>6, LenProperties
  <2> DEFINE old(j) == IF j < i THEN j ELSE j + 1
  <2>8. \A j \in DOMAIN r : old(j) \in DOMAIN s /\ r[j] = s[old(j)] /\ old(j) # i /\ j \in Int /\ old(j) \in Int
    BY <1>1, <2>6, <2>7
  <2>9. \A j, n \in DOMAIN r : (old(j) = old(n) => j = n) /\ (j < n => old(j) < old(n))
    BY <1>1, <2>7
  <2>10. \A n \in DOMAIN s : n # i => \E j \in DOMAIN r : old(j) = n
    <3> SUFFICES ASSUME NEW n \in DOMAIN s, n # i  PROVE \E j \in DOMAIN r : old(j) = n
      OBVIOUS
    <3>1. CASE n < i
      <4>1. n \in DOMAIN r /\ old(n) = n
        BY <1>1, <2>7, <3>1
      <4> QED BY <4>1
    <3>2. CASE ~ (n < i)
      <4>1. n - 1 \in DOMAIN r /\ old(n - 1) = n
        BY <1>1, <2>7, <3>2
      <4> QED BY <4>1
    <3> QED BY <3>1, <3>2
  <2> HIDE DEF old
  <2>11. IsInjective(r)
    BY <1>1, <2>8, <2>9 DEF IsInjective
  <2>12. Within(r, s)
    BY <1>1, <2>6, <2>7, <2>8, <2>9 DEF Within
  <2>13. ASSUME NEW y
         PROVE  y \in Range(r) <=> y \in Range(s) /\ y # x
    <3>1. ASSUME y \in Range(r)  PROVE y \in Range(s) /\ y # x
      <4>1. PICK j \in DOMAIN r : r[j] = y
        BY <3>1 DEF Range
      <4>2. s[old(j)] = y /\ old(j) \in DOMAIN s /\ old(j) # i
        BY <2>8, <4>1
      <4>3. y # x
        BY <1>1, <2>1, <4>2 DEF IsInjective
      <4> QED BY <4>2, <4>3 DEF Range
    <3>2. ASSUME y \in Range(s), y # x  PROVE y \in Range(r)
      <4>1. PICK n \in DOMAIN s : s[n] = y
        BY <3>2 DEF Range
      <4>2. n # i
        BY <2>1, <3>2, <4>1
      <4>3. PICK j \in DOMAIN r : old(j) = n
        BY <2>10, <4>2
      <4>4. r[j] = y
        BY <2>8, <4>1, <4>3
      <4> QED BY <4>4 DEF Range
    <3> QED BY <3>1, <3>2
  <2> QED BY <2>6, <2>11, <2>12, <2>13 DEF Line
<1> QED BY <1>2, <1>3

(* r is s with t at place i.                                               *)
InsertedAt(r, s, i, t, S) ==
  /\ r \in Seq(S) /\ Len(r) = Len(s) + 1
  /\ \A j \in 1 .. Len(s) + 1 : r[j] = IF j < i THEN s[j] ELSE IF j = i THEN t ELSE s[j - 1]

LEMMA AppendInserts ==
  ASSUME NEW S, NEW s \in Seq(S), NEW t \in S
  PROVE  InsertedAt(Append(s, t), s, Len(s) + 1, t, S)
<1> DEFINE r == Append(s, t)
<1>1. Len(s) \in Nat
  BY LenProperties
<1>2. /\ r \in Seq(S) /\ Len(r) = Len(s) + 1
      /\ \A j \in 1 .. Len(s) : r[j] = s[j]
      /\ r[Len(s) + 1] = t
  BY AppendProperties
<1> HIDE DEF r
<1>3. InsertedAt(r, s, Len(s) + 1, t, S)
  BY <1>1, <1>2 DEF InsertedAt
<1> QED BY <1>3 DEF r

LEMMA InsertAtInserts ==
  ASSUME NEW S, NEW s \in Seq(S), NEW t \in S, NEW i \in 1 .. Len(s) + 1
  PROVE  InsertedAt(InsertAt(s, i, t), s, i, t, S)
BY InsertAtElements DEF InsertedAt

(* Place i is where t belongs.                                             *)
Fits(s, lf, i, t) ==
  /\ \A j \in 1 .. Len(s) : j < i => lf[s[j]] <= lf[t]
  /\ \A j \in 1 .. Len(s) : j >= i => lf[t] <= lf[s[j]]

(* rt_list_insert_after: t is in the list now, where the numbers want it.  *)
LEMMA InsertedLine ==
  ASSUME NEW S, NEW s, Line(s, S), NEW t \in S, t \notin Range(s), NEW i \in 1 .. Len(s) + 1,
         NEW r, InsertedAt(r, s, i, t, S)
  PROVE  /\ Line(r, S)
         /\ \A y : y \in Range(r) <=> y \in Range(s) \/ y = t
<1>1. /\ s \in Seq(S) /\ IsInjective(s) /\ Len(s) \in Nat /\ DOMAIN s = 1 .. Len(s)
      /\ r \in Seq(S) /\ DOMAIN r = 1 .. Len(s) + 1 /\ i \in Nat
  BY LenProperties DEF Line, InsertedAt
<1> DEFINE new(j) == IF j < i THEN j ELSE j + 1
<1>2. r[i] = t /\ i \in DOMAIN r
  BY <1>1 DEF InsertedAt
<1>3. \A j \in DOMAIN s : new(j) \in DOMAIN r /\ r[new(j)] = s[j] /\ new(j) # i
  <2> SUFFICES ASSUME NEW j \in 1 .. Len(s)
               PROVE  new(j) \in 1 .. Len(s) + 1 /\ r[new(j)] = s[j] /\ new(j) # i
    BY <1>1
  <2>1. CASE j < i
    BY <1>1, <2>1 DEF InsertedAt
  <2>2. CASE ~ (j < i)
    <3>1. j + 1 \in 1 .. Len(s) + 1 /\ ~ (j + 1 < i) /\ j + 1 # i /\ (j + 1) - 1 = j
      BY <1>1, <2>2
    <3> QED BY <1>1, <2>2, <3>1 DEF InsertedAt
  <2> QED BY <2>1, <2>2
<1>4. \A n \in DOMAIN r : n # i => \E j \in DOMAIN s : new(j) = n
  <2> SUFFICES ASSUME NEW n \in DOMAIN r, n # i  PROVE \E j \in DOMAIN s : new(j) = n
    OBVIOUS
  <2>1. CASE n < i
    <3>1. n \in DOMAIN s /\ new(n) = n
      BY <1>1, <2>1
    <3> QED BY <3>1
  <2>2. CASE ~ (n < i)
    <3>1. n - 1 \in DOMAIN s /\ new(n - 1) = n
      BY <1>1, <2>2
    <3> QED BY <3>1
  <2> QED BY <2>1, <2>2
<1> HIDE DEF new
<1>5. \A n \in DOMAIN r : n = i \/ \E j \in DOMAIN s : new(j) = n /\ r[n] = s[j]
  BY <1>3, <1>4
<1>6. \A n \in DOMAIN r : n # i => r[n] \in Range(s)
  BY <1>5 DEF Range
<1>7. IsInjective(r)
  <2> SUFFICES ASSUME NEW m \in DOMAIN r, NEW n \in DOMAIN r, r[m] = r[n]  PROVE m = n
    BY DEF IsInjective
  <2>1. CASE m = i \/ n = i
    BY <1>2, <1>6, <2>1
  <2>2. CASE m # i /\ n # i
    <3>1. PICK j \in DOMAIN s : new(j) = m /\ r[m] = s[j]
      BY <1>5, <2>2
    <3>2. PICK l \in DOMAIN s : new(l) = n /\ r[n] = s[l]
      BY <1>5, <2>2
    <3>3. j = l
      BY <1>1, <3>1, <3>2 DEF IsInjective
    <3> QED BY <3>1, <3>2, <3>3
  <2> QED BY <2>1, <2>2
<1>8. ASSUME NEW y  PROVE y \in Range(r) <=> y \in Range(s) \/ y = t
  <2>1. y \in Range(r) => y \in Range(s) \/ y = t
    BY <1>2, <1>6 DEF Range
  <2>2. y \in Range(s) => y \in Range(r)
    BY <1>3 DEF Range
  <2>3. t \in Range(r)
    BY <1>2 DEF Range
  <2> QED BY <2>1, <2>2, <2>3
<1> QED BY <1>1, <1>7, <1>8 DEF Line

LEMMA InsertedSorted ==
  ASSUME NEW S, NEW s \in Seq(S), NEW t \in S, NEW i \in 1 .. Len(s) + 1, NEW r, InsertedAt(r, s, i, t, S),
         NEW lf \in [S -> Int], Sorted(s, lf), Fits(s, lf, i, t)
  PROVE  Sorted(r, lf)
<1> USE DEF Fits
<1>1. Len(s) \in Nat /\ i \in Nat /\ Len(r) = Len(s) + 1
  BY LenProperties DEF InsertedAt
<1> SUFFICES ASSUME NEW m \in 1 .. Len(r), NEW n \in 1 .. Len(r), m < n
             PROVE  lf[r[m]] <= lf[r[n]]
  BY DEF Sorted
<1>2. /\ m \in Nat /\ n \in Nat /\ m \in 1 .. Len(s) + 1 /\ n \in 1 .. Len(s) + 1
      /\ m < n /\ 1 <= m /\ i <= Len(s) + 1
  BY <1>1
<1>3. CASE n < i
  <2>1. r[m] = s[m] /\ r[n] = s[n] /\ m \in 1 .. Len(s) /\ n \in 1 .. Len(s)
    <3>1. m \in 1 .. Len(s) /\ n \in 1 .. Len(s) /\ m < i /\ n < i
      <4>1. n \in 1 .. Len(s)
        BY <1>1, <1>2, <1>3
      <4>2. m \in 1 .. Len(s) /\ m < i
        BY <1>1, <1>2, <1>3
      <4> QED BY <1>3, <4>1, <4>2
    <3> QED BY <1>2, <3>1 DEF InsertedAt
  <2> QED BY <2>1 DEF Sorted
<1>4. CASE n = i
  <2>1. r[m] = s[m] /\ r[n] = t /\ m \in 1 .. Len(s) /\ m < i
    <3>1. m \in 1 .. Len(s) /\ m < i /\ ~ (i < i)
      BY <1>1, <1>2, <1>4
    <3> QED BY <1>2, <1>4, <3>1 DEF InsertedAt
  <2> QED BY <2>1
<1>5. CASE n > i /\ m < i
  <2>1. r[m] = s[m] /\ r[n] = s[n - 1] /\ m \in 1 .. Len(s) /\ n - 1 \in 1 .. Len(s) /\ n - 1 >= i /\ m < n - 1
    BY <1>1, <1>2, <1>5 DEF InsertedAt
  <2> QED BY <2>1 DEF Sorted
<1>6. CASE n > i /\ m = i
  <2>1. r[m] = t /\ r[n] = s[n - 1] /\ n - 1 \in 1 .. Len(s) /\ n - 1 >= i
    BY <1>1, <1>2, <1>6 DEF InsertedAt
  <2> QED BY <2>1
<1>7. CASE n > i /\ m > i
  <2>1. r[m] = s[m - 1] /\ r[n] = s[n - 1] /\ m - 1 \in 1 .. Len(s) /\ n - 1 \in 1 .. Len(s) /\ m - 1 < n - 1
    BY <1>1, <1>2, <1>7 DEF InsertedAt
  <2> QED BY <2>1 DEF Sorted
<1> QED BY <1>1, <1>2, <1>3, <1>4, <1>5, <1>6, <1>7

(***************************************************************************)
(* Ticks.                                                                  *)
(***************************************************************************)
(* The tick d ticks after (or before) t, for d of less than a whole round. *)
Shift(t, d) ==
  IF t + d >= TickMod THEN t + d - TickMod ELSE IF t + d < 0 THEN t + d + TickMod ELSE t + d

(* Less than a round of the tick, either way.                              *)
Turn == - (TickMod - 1) .. TickMod - 1

LEMMA TickFacts ==
  /\ TickMod \in Int /\ TickMod > 4 /\ Half \in Int /\ 2 * Half + 1 <= TickMod /\ TickMod <= 2 * Half + 2
  /\ Half >= 2 /\ RtTickMax = TickMod - 1 /\ Lag \in Nat
BY TimerAssumption DEF Half, RtTickMax

LEMMA MaxFacts == Longest \in Times /\ Longest \in 1 .. Half - 1 /\ \A n \in Times : n <= Longest
<1> DEFINE T == {Half - n : n \in Times}
<1>1. Times # {} /\ Times \subseteq 1 .. Half - 1 /\ Half \in Int
  BY TimerAssumption, TickFacts
<1>2. T \in SUBSET Nat /\ T # {}
  <2>1. \A n \in Times : Half - n \in Nat
    BY <1>1
  <2> QED BY <1>1, <2>1
<1>3. PICK m \in T : \A n \in T : m <= n
  BY <1>2, LeastElement
<1>4. PICK x \in Times : m = Half - x
  BY <1>3
<1>5. ASSUME NEW y \in Times
      PROVE  x >= y
  <2>1. Half - y \in T /\ x \in Int /\ y \in Int
    BY <1>1
  <2> QED BY <1>1, <1>3, <1>4, <2>1
<1>6. \E z \in Times : \A y \in Times : z >= y
  BY <1>5
<1>7. Longest \in Times /\ \A y \in Times : Longest >= y
  BY <1>6 DEF Longest, Max
<1> QED BY <1>1, <1>7

LEMMA ModTick ==
  ASSUME NEW n \in Int, 0 <= n, n < 2 * TickMod
  PROVE  n % TickMod = IF n < TickMod THEN n ELSE n - TickMod
<1>1. TickMod \in Int /\ TickMod > 0
  BY TickFacts
<1> QED BY <1>1

LEMMA MinusIs ==
  ASSUME NEW a \in Tick, NEW b \in Tick
  PROVE  Minus(a, b) = IF a >= b THEN a - b ELSE a - b + TickMod
<1> DEFINE n == a - b
<1>1. n \in Int /\ - TickMod < n /\ n < TickMod /\ TickMod \in Int /\ TickMod > 0 /\ a \in Int /\ b \in Int
  BY TickFacts DEF Tick
<1>2. (a >= b) <=> (n >= 0)
  BY <1>1
<1> HIDE DEF n
<1>3. n % TickMod = IF n >= 0 THEN n ELSE n + TickMod
  <2>1. CASE n >= 0
    BY <1>1, <2>1
  <2>2. CASE n < 0
    <3> DEFINE m == n + TickMod
    <3>1. m \in Int /\ 0 <= m /\ m < TickMod /\ m = n + TickMod
      BY <1>1, <2>2
    <3> HIDE DEF m
    <3>2. m % TickMod = m
      BY <1>1, <3>1
    <3>3. n % TickMod = m % TickMod
      BY <1>1, <2>2 DEF m
    <3>4. n % TickMod = n + TickMod
      BY <3>1, <3>2, <3>3
    <3> QED BY <1>1, <2>2, <3>4
  <2> QED BY <1>1, <2>1, <2>2
<1> QED BY <1>2, <1>3 DEF Minus, n

LEMMA ShiftTick ==
  ASSUME NEW t \in Tick, NEW d \in Turn
  PROVE  Shift(t, d) \in Tick
BY TickFacts DEF Shift, Tick, Turn

(* A clock interrupt.                                                      *)
LEMMA ShiftNext ==
  ASSUME NEW t \in Tick, NEW d \in Turn, d - 1 \in Turn
  PROVE  (t + 1) % TickMod \in Tick /\ Shift((t + 1) % TickMod, d - 1) = Shift(t, d)
<1> DEFINE u == t + 1
<1>1. u \in Int /\ 0 <= u /\ u < 2 * TickMod /\ TickMod \in Int /\ t \in Int /\ d \in Int /\ u = t + 1
      /\ 0 <= t /\ t < TickMod /\ - TickMod < d - 1 /\ d < TickMod
  BY TickFacts DEF Tick, Turn
<1> HIDE DEF u
<1>2. u % TickMod = IF u < TickMod THEN u ELSE u - TickMod
  BY <1>1, ModTick
<1> DEFINE v == u % TickMod
<1>3. v = IF u < TickMod THEN u ELSE u - TickMod
  BY <1>2
<1> HIDE DEF v
<1>4. v \in Tick /\ Shift(v, d - 1) = Shift(t, d)
  BY <1>1, <1>3 DEF Shift, Tick
<1> QED BY <1>4 DEF u, v

(* timer->timeout_tick = rt_tick_get() + timer->init_tick                  *)
LEMMA ShiftBy ==
  ASSUME NEW t \in Tick, NEW n \in 0 .. TickMod - 1
  PROVE  (t + n) % TickMod = Shift(t, n)
<1> DEFINE u == t + n
<1>1. u \in Int /\ 0 <= u /\ u < 2 * TickMod /\ TickMod \in Int
  BY TickFacts DEF Tick
<1> HIDE DEF u
<1>2. u % TickMod = IF u < TickMod THEN u ELSE u - TickMod
  BY <1>1, ModTick
<1>3. Shift(t, n) = IF u < TickMod THEN u ELSE u - TickMod
  BY <1>1, TickFacts DEF Shift, u, Tick
<1> QED BY <1>2, <1>3 DEF u

(* (t->timeout_tick - timer->timeout_tick) < RT_TICK_MAX / 2               *)
LEMMA LaterIs ==
  ASSUME NEW t \in Tick, NEW d \in Turn, NEW e \in Turn,
         d - e < Half, e - d < Half + 2
  PROVE  Later(Shift(t, d), Shift(t, e)) <=> d > e
<1> DEFINE a == Shift(t, d)
           b == Shift(t, e)
<1>1. a \in Tick /\ b \in Tick
  BY ShiftTick
<1>2. TickMod \in Int /\ Half \in Int /\ 2 * Half + 1 <= TickMod /\ TickMod <= 2 * Half + 2
      /\ t \in Int /\ 0 <= t /\ t < TickMod /\ d \in Int /\ e \in Int /\ Half >= 2 /\ TickMod > 4
      /\ - TickMod < d /\ d < TickMod /\ - TickMod < e /\ e < TickMod
  BY TickFacts DEF Tick, Turn
<1>3. /\ a = IF t + d >= TickMod THEN t + d - TickMod ELSE IF t + d < 0 THEN t + d + TickMod ELSE t + d
      /\ b = IF t + e >= TickMod THEN t + e - TickMod ELSE IF t + e < 0 THEN t + e + TickMod ELSE t + e
  BY DEF Shift
<1> HIDE DEF a, b
<1>4. Minus(a, b) = IF a >= b THEN a - b ELSE a - b + TickMod
  BY <1>1, MinusIs
<1>5. Minus(a, b) # 0 /\ Minus(a, b) < Half <=> d > e
  BY <1>1, <1>2, <1>3, <1>4 DEF Tick
<1> QED BY <1>5 DEF Later, a, b

(* (now - t->timeout_tick) < RT_TICK_MAX / 2, where now was read a ticks   *)
(* ago.                                                                    *)
LEMMA ExpiredIs ==
  ASSUME NEW t \in Tick, NEW d \in Turn, NEW a \in 0 .. TickMod - 1,
         - Half < d + a, d + a < Half
  PROVE  Minus(Shift(t, - a), Shift(t, d)) < Half <=> d + a <= 0
<1> DEFINE n == Shift(t, - a)
           b == Shift(t, d)
<1>1. n \in Tick /\ b \in Tick
  <2>1. - a \in Turn
    BY TickFacts DEF Turn
  <2> QED BY <2>1, ShiftTick
<1>2. TickMod \in Int /\ Half \in Int /\ 2 * Half + 1 <= TickMod /\ TickMod <= 2 * Half + 2
      /\ t \in Int /\ 0 <= t /\ t < TickMod /\ d \in Int /\ a \in Int /\ Half >= 2 /\ TickMod > 4
      /\ - TickMod < d /\ d < TickMod /\ 0 <= a /\ a < TickMod
  BY TickFacts DEF Tick, Turn
<1>3. /\ n = IF t + (- a) >= TickMod THEN t + (- a) - TickMod ELSE IF t + (- a) < 0 THEN t + (- a) + TickMod ELSE t + (- a)
      /\ b = IF t + d >= TickMod THEN t + d - TickMod ELSE IF t + d < 0 THEN t + d + TickMod ELSE t + d
  BY DEF Shift
<1> HIDE DEF n, b
<1>4. Minus(n, b) = IF n >= b THEN n - b ELSE n - b + TickMod
  BY <1>1, MinusIs
<1>5. Minus(n, b) < Half <=> d + a <= 0
  BY <1>1, <1>2, <1>3, <1>4 DEF Tick
<1> QED BY <1>5 DEF n, b

(* The time until a tick that is not far away.                             *)
LEMMA UntilIs ==
  ASSUME NEW t \in Tick, NEW d \in Turn, - Half < d, d < Half
  PROVE  /\ Minus(Shift(t, d), t) < Half <=> d >= 0
         /\ d >= 0 => Minus(Shift(t, d), t) = d
<1> DEFINE b == Shift(t, d)
<1>1. b \in Tick
  BY ShiftTick
<1>2. TickMod \in Int /\ Half \in Int /\ 2 * Half + 1 <= TickMod /\ TickMod <= 2 * Half + 2
      /\ t \in Int /\ 0 <= t /\ t < TickMod /\ d \in Int /\ Half >= 2 /\ TickMod > 4
      /\ - TickMod < d /\ d < TickMod
  BY TickFacts DEF Tick, Turn
<1>3. b = IF t + d >= TickMod THEN t + d - TickMod ELSE IF t + d < 0 THEN t + d + TickMod ELSE t + d
  BY DEF Shift
<1> HIDE DEF b
<1>4. Minus(b, t) = IF b >= t THEN b - t ELSE b - t + TickMod
  BY <1>1, MinusIs
<1>5. (Minus(b, t) < Half <=> d >= 0) /\ (d >= 0 => Minus(b, t) = d)
  BY <1>1, <1>2, <1>3, <1>4 DEF Tick
<1> QED BY <1>5 DEF b

(***************************************************************************)
(* The lists of a record like q, at the tick tk, where lf says what is left*)
(* of each timer.                                                          *)
(***************************************************************************)
Lists ==
  [hard : Seq(Hard), soft : Seq(Soft), due : [Timers -> Tick],
   init : [User -> Times], on : SUBSET Timers]

Dated(r, lf, tk, x) == lf[x] \in - (Lag + Longest) .. Longest /\ r.due[x] = Shift(tk, lf[x])

OfLists(r) == Range(r.hard) \cup Range(r.soft)

QSound(r, lf, tk) ==
  /\ r \in Lists /\ IsInjective(r.hard) /\ IsInjective(r.soft)
  /\ Sorted(r.hard, lf) /\ Sorted(r.soft, lf)
  /\ \A x \in OfLists(r) : Dated(r, lf, tk, x)

(* From r to u the timers of A have left the lists and then those of B were*)
(* linked; the others are as they were.                                    *)
Moved(u, r, A, B) ==
  /\ \A y : y \in Range(u.hard) <=> (y \in Range(r.hard) /\ y \notin A) \/ (y \in B /\ y \in Hard)
  /\ \A y : y \in Range(u.soft) <=> (y \in Range(r.soft) /\ y \notin A) \/ (y \in B /\ y \in Soft)
  /\ \A y \in Timers : y \notin A /\ y \notin B => u.due[y] = r.due[y]
  /\ (\A y \in A \cup B : y \in Hard) => u.soft = r.soft

LEMMA ListElements ==
  ASSUME NEW r \in Lists
  PROVE  Range(r.hard) \subseteq Hard /\ Range(r.soft) \subseteq Soft /\ OfLists(r) \subseteq Timers
<1>1. r.hard \in Seq(Hard) /\ r.soft \in Seq(Soft)
  BY DEF Lists
<1> QED BY <1>1, RangeOfSeq DEF OfLists, Timers

LEMMA OwnKind == Own \in Hard /\ Own \notin Soft /\ Own \in Timers /\ Own \notin User /\ End \notin Timers
                 /\ (\A x \in Timers : x \in Hard <=> x \notin Soft)
BY TimerAssumption DEF Timers, User

(* A list that keeps its elements keeps its order when others change.      *)
LEMMA SortedSame ==
  ASSUME NEW S, NEW s \in Seq(S), NEW lf, NEW lg, Sorted(s, lf), \A x \in Range(s) : lg[x] = lf[x]
  PROVE  Sorted(s, lg)
<1>1. DOMAIN s = 1 .. Len(s)
  BY LenProperties
<1>2. \A i \in 1 .. Len(s) : lg[s[i]] = lf[s[i]]
  BY <1>1 DEF Range
<1> QED BY <1>2 DEF Sorted

(* What is left of the timers other than x stays.                          *)
Elsewhere(lg, lf, x) == \A y \in Timers : y # x => lg[y] = lf[y]

SetTo(lg, lf, x, n) == Elsewhere(lg, lf, x) /\ lg[x] = n

(* _rt_timer_remove.                                                       *)
UnlinkedTo(u, r, lg, tk, x, n) ==
  /\ QSound(u, lg, tk) /\ Moved(u, r, {x}, {}) /\ u.init = r.init /\ u.on = r.on
  /\ x \notin OfLists(u) /\ (x = n => u.due = r.due)

LEMMA UnlinkedSound ==
  ASSUME NEW r, NEW lf, NEW tk, QSound(r, lf, tk), NEW x \in Timers, NEW n,
         NEW u, u = Unlinked(r, x, n), NEW lg, Elsewhere(lg, lf, x)
  PROVE  UnlinkedTo(u, r, lg, tk, x, n)
<1> USE DEF Elsewhere
<1>1. /\ r \in Lists /\ Line(r.hard, Hard) /\ Line(r.soft, Soft) /\ Sorted(r.hard, lf) /\ Sorted(r.soft, lf)
      /\ OfLists(r) \subseteq Timers
  BY ListElements DEF QSound, Line, Lists
<1> DEFINE a == RemoveFirst(r.hard, x)
           b == RemoveFirst(r.soft, x)
           d == [r.due EXCEPT ![x] = IF x = n THEN @ ELSE 0]
<1>2. /\ u.hard = a /\ u.soft = b /\ u.due = d /\ u.init = r.init /\ u.on = r.on
      /\ u = [hard |-> a, soft |-> b, due |-> d, init |-> r.init, on |-> r.on]
  BY <1>1 DEF Unlinked, Lists
<1>3. d \in [Timers -> Tick] /\ (x = n => d = r.due) /\ \A y \in Timers : y # x => d[y] = r.due[y]
  BY <1>1, TickFacts DEF Lists, Tick
<1>4. a = RemoveFirst(r.hard, x) /\ b = RemoveFirst(r.soft, x)
  OBVIOUS
<1>5. /\ x \notin Range(r.hard) => a = r.hard
      /\ x \notin Range(r.soft) => b = r.soft
  <2>1. DOMAIN r.hard = 1 .. Len(r.hard) /\ DOMAIN r.soft = 1 .. Len(r.soft)
    BY <1>1, LenProperties DEF Line
  <2> QED BY <2>1 DEF RemoveFirst, Range
<1> HIDE DEF a, b, d
<1>6. Line(a, Hard) /\ Within(a, r.hard) /\ \A y : y \in Range(a) <=> y \in Range(r.hard) /\ y # x
  BY <1>1, <1>4, RemovedLine
<1>7. Line(b, Soft) /\ Within(b, r.soft) /\ \A y : y \in Range(b) <=> y \in Range(r.soft) /\ y # x
  BY <1>1, <1>4, RemovedLine
<1>8. u \in Lists
  BY <1>1, <1>2, <1>3, <1>6, <1>7 DEF Lists, Line
<1>9. Sorted(a, lf) /\ Sorted(b, lf)
  BY <1>1, <1>6, <1>7, WithinSorted
<1>10. Sorted(a, lg) /\ Sorted(b, lg)
  <2>1. \A y \in Range(a) : lg[y] = lf[y]
    BY <1>1, <1>6 DEF OfLists
  <2>2. \A y \in Range(b) : lg[y] = lf[y]
    BY <1>1, <1>7 DEF OfLists
  <2>3. a \in Seq(Hard) /\ b \in Seq(Soft)
    BY <1>6, <1>7 DEF Line
  <2>4. Sorted(a, lg)
    BY <1>9, <2>1, <2>3, SortedSame
  <2>5. Sorted(b, lg)
    BY <1>9, <2>2, <2>3, SortedSame
  <2> QED BY <2>4, <2>5
<1>11. ASSUME NEW y \in OfLists(u)
       PROVE  Dated(u, lg, tk, y) /\ y # x
  <2>1. y \in OfLists(r) /\ y # x /\ y \in Timers
    BY <1>1, <1>2, <1>6, <1>7 DEF OfLists
  <2>2. Dated(r, lf, tk, y)
    BY <2>1 DEF QSound
  <2>3. lg[y] = lf[y] /\ u.due[y] = r.due[y]
    BY <1>2, <1>3, <2>1
  <2> QED BY <2>1, <2>2, <2>3 DEF Dated
<1>12. QSound(u, lg, tk)
  BY <1>2, <1>6, <1>7, <1>8, <1>10, <1>11 DEF QSound, Line
<1>13. Moved(u, r, {x}, {})
  <2>1. x \in Hard => x \notin Range(r.soft)
    BY <1>1, ListElements, OwnKind
  <2> QED BY <1>2, <1>3, <1>5, <1>6, <1>7, <2>1 DEF Moved
<1> QED BY <1>2, <1>3, <1>11, <1>12, <1>13 DEF UnlinkedTo

(* The place rt_timer_start finds is the one the time left wants.          *)
LEMMA PlacedAt ==
  ASSUME Short, NEW S \in SUBSET Timers, NEW s, Line(s, S), NEW r, NEW lf \in [Timers -> Int], NEW tk \in Tick,
         Sorted(s, lf), \A y \in Range(s) : Dated(r, lf, tk, y),
         NEW x \in S, Dated(r, lf, tk, x), lf[x] >= - Lag
  PROVE  \E i \in 1 .. Len(s) + 1 :
           InsertedAt(Placed(r, s, x), s, i, x, S) /\ Fits(s, lf, i, x)
<1> USE DEF Fits
<1> DEFINE I == {i \in 1 .. Len(s) : Later(r.due[s[i]], r.due[x])}
<1>1. s \in Seq(S) /\ Len(s) \in Nat /\ DOMAIN s = 1 .. Len(s)
  BY LenProperties DEF Line
<1>2. ASSUME NEW i \in 1 .. Len(s)
      PROVE  /\ s[i] \in Timers /\ lf[s[i]] \in Int /\ lf[x] \in Int
             /\ i \in I <=> lf[s[i]] > lf[x]
  <2>1. s[i] \in Range(s) /\ s[i] \in S
    BY <1>1, ElementOfSeq DEF Range
  <2> DEFINE d == lf[s[i]]
             e == lf[x]
  <2>2. /\ d \in - (Lag + Longest) .. Longest /\ r.due[s[i]] = Shift(tk, d)
        /\ e \in - (Lag + Longest) .. Longest /\ r.due[x] = Shift(tk, e) /\ e >= - Lag
    BY <2>1 DEF Dated
  <2> HIDE DEF d, e
  <2>3. /\ d \in Int /\ e \in Int /\ d - e < Half /\ e - d < Half + 2
        /\ d \in Turn /\ e \in Turn
    <3>1. Longest \in Int /\ Lag \in Int /\ Longest >= 1 /\ Lag >= 0
      BY MaxFacts, TickFacts
    <3>2. Longest + Lag < Half /\ 2 * Longest + Lag < Half + 2
      BY DEF Short
    <3> QED BY <2>2, <3>1, <3>2, TickFacts DEF Turn
  <2>4. Later(Shift(tk, d), Shift(tk, e)) <=> d > e
    BY <2>3, LaterIs
  <2>5. i \in I <=> d > e
    BY <2>2, <2>4
  <2> QED BY <2>1, <2>3, <2>5 DEF d, e
<1>3. Place(r, s, x) = IF I # {} THEN Min(I) ELSE 0
  BY DEF Place, SelectInSeq
<1>4. CASE I = {}
  <2>1. Placed(r, s, x) = Append(s, x)
    BY <1>3, <1>4 DEF Placed
  <2>2. InsertedAt(Append(s, x), s, Len(s) + 1, x, S)
    BY <1>1, AppendInserts
  <2>3. \A j \in 1 .. Len(s) : lf[s[j]] <= lf[x]
    BY <1>2, <1>4
  <2>4. Len(s) + 1 \in 1 .. Len(s) + 1 /\ \A j \in 1 .. Len(s) : ~ (j >= Len(s) + 1)
    BY <1>1
  <2> QED BY <2>1, <2>2, <2>3, <2>4
<1>5. CASE I # {}
  <2> DEFINE i == Min(I)
  <2>1. i \in I /\ \A n \in I : i <= n
    <3>1. I \in SUBSET Nat
      OBVIOUS
    <3>2. \E n \in I : \A o \in I : n <= o
      BY <1>5, <3>1, LeastElement
    <3> QED BY <3>2 DEF Min
  <2>2. i \in 1 .. Len(s)
    BY <2>1
  <2>3. Place(r, s, x) = i /\ i # 0
    BY <1>3, <1>5, <2>2
  <2> HIDE DEF i
  <2>4. Placed(r, s, x) = InsertAt(s, i, x)
    BY <2>3 DEF Placed
  <2>5. i \in 1 .. Len(s) + 1
    BY <1>1, <2>2
  <2>6. InsertedAt(InsertAt(s, i, x), s, i, x, S)
    <3>1. s \in Seq(S)
      BY <1>1
    <3> QED BY <2>5, <3>1, InsertAtInserts
  <2>7. ASSUME NEW j \in 1 .. Len(s), j < i
        PROVE  lf[s[j]] <= lf[x]
    <3>1. j \notin I
      BY <2>1, <2>2, <2>7
    <3> QED BY <1>2, <3>1
  <2>8. ASSUME NEW j \in 1 .. Len(s), j >= i
        PROVE  lf[x] <= lf[s[j]]
    <3>1. lf[s[i]] > lf[x] /\ lf[s[i]] \in Int /\ lf[s[j]] \in Int /\ lf[x] \in Int
      BY <1>2, <2>1, <2>2
    <3>2. lf[s[i]] <= lf[s[j]]
      <4>1. CASE i = j
        BY <3>1, <4>1
      <4>2. CASE i # j
        BY <2>2, <2>8, <4>2 DEF Sorted
      <4> QED BY <4>1, <4>2
    <3> QED BY <3>1, <3>2
  <2> QED BY <2>4, <2>5, <2>6, <2>7, <2>8
<1> QED BY <1>4, <1>5

(* One list with a timer put in its place.                                 *)
LEMMA PlacedLine ==
  ASSUME Short, NEW S \in SUBSET Timers, NEW s, Line(s, S), NEW r, NEW lf \in [Timers -> Int], NEW tk \in Tick,
         Sorted(s, lf), \A y \in Range(s) : Dated(r, lf, tk, y),
         NEW x \in S, x \notin Range(s), Dated(r, lf, tk, x), lf[x] >= - Lag,
         NEW z, z = Placed(r, s, x)
  PROVE  /\ Line(z, S) /\ Sorted(z, lf)
         /\ \A y : y \in Range(z) <=> y \in Range(s) \/ y = x
<1>1. PICK i \in 1 .. Len(s) + 1 :
           InsertedAt(z, s, i, x, S) /\ Fits(s, lf, i, x)
  BY PlacedAt
<1>2. /\ Line(z, S)
      /\ \A y : y \in Range(z) <=> y \in Range(s) \/ y = x
  BY <1>1, InsertedLine
<1> DEFINE lg == [y \in S |-> lf[y]]
<1>3. lg \in [S -> Int] /\ \A y \in S : lg[y] = lf[y]
  OBVIOUS
<1> HIDE DEF lg
<1>4. s \in Seq(S) /\ z \in Seq(S)
  BY <1>2 DEF Line
<1>5. Sorted(s, lg)
  <2>1. \A y \in Range(s) : lg[y] = lf[y]
    BY <1>3, <1>4, RangeOfSeq
  <2> QED BY <1>4, <2>1, SortedSame
<1>6. Fits(s, lg, i, x)
  <2>1. \A j \in 1 .. Len(s) : s[j] \in S
    BY <1>4, ElementOfSeq
  <2> QED BY <1>1, <1>3, <2>1 DEF Fits
<1>7. Sorted(z, lg)
  BY <1>1, <1>3, <1>4, <1>5, <1>6, InsertedSorted
<1>8. Sorted(z, lf)
  <2>1. \A y \in Range(z) : lf[y] = lg[y]
    BY <1>3, <1>4, RangeOfSeq
  <2> QED BY <1>4, <1>7, <2>1, SortedSame
<1> QED BY <1>2, <1>8

(* rt_list_insert_after at the place that was found; the lists stay sound. *)
InsertedTo(u, r, lf, tk, x) ==
  QSound(u, lf, tk) /\ Moved(u, r, {}, {x}) /\ u.init = r.init /\ u.due = r.due

LEMMA InsertedSound ==
  ASSUME Short, NEW r, NEW lf \in [Timers -> Int], NEW tk \in Tick, QSound(r, lf, tk),
         NEW x \in Timers, x \notin OfLists(r), Dated(r, lf, tk, x), lf[x] >= - Lag,
         NEW u, u = Inserted(r, x)
  PROVE  InsertedTo(u, r, lf, tk, x)
<1> USE DEF InsertedTo
<1>1. /\ r \in Lists /\ Line(r.hard, Hard) /\ Line(r.soft, Soft) /\ Sorted(r.hard, lf) /\ Sorted(r.soft, lf)
      /\ Hard \in SUBSET Timers /\ Soft \in SUBSET Timers
      /\ \A y \in Range(r.hard) : Dated(r, lf, tk, y)
      /\ \A y \in Range(r.soft) : Dated(r, lf, tk, y)
      /\ x \notin Range(r.hard) /\ x \notin Range(r.soft)
  BY DEF QSound, Line, Lists, Timers, OfLists
<1>2. CASE x \in Soft
  <2> DEFINE z == Placed(r, r.soft, x)
  <2>1. /\ u.hard = r.hard /\ u.soft = z /\ u.due = r.due /\ u.init = r.init /\ u.on = r.on \cup {x}
        /\ u = [hard |-> r.hard, soft |-> z, due |-> r.due, init |-> r.init, on |-> r.on \cup {x}]
    BY <1>1, <1>2 DEF Inserted, Lists
  <2>2. z = Placed(r, r.soft, x)
    OBVIOUS
  <2> HIDE DEF z
  <2>3. /\ Line(z, Soft) /\ Sorted(z, lf)
        /\ \A y : y \in Range(z) <=> y \in Range(r.soft) \/ y = x
    BY <1>1, <1>2, <2>2, PlacedLine
  <2>4. u \in Lists
    BY <1>1, <2>1, <2>3 DEF Lists, Line
  <2>5. \A y \in OfLists(u) : Dated(u, lf, tk, y)
    BY <1>1, <2>1, <2>3 DEF OfLists, Dated
  <2>6. QSound(u, lf, tk)
    BY <1>1, <2>1, <2>3, <2>4, <2>5 DEF QSound, Line
  <2>7. Moved(u, r, {}, {x})
    BY <1>2, <2>1, <2>3, OwnKind DEF Moved
  <2> QED BY <2>1, <2>6, <2>7
<1>3. CASE x \notin Soft
  <2> DEFINE z == Placed(r, r.hard, x)
  <2>1. /\ u.hard = z /\ u.soft = r.soft /\ u.due = r.due /\ u.init = r.init /\ u.on = r.on \cup {x}
        /\ u = [hard |-> z, soft |-> r.soft, due |-> r.due, init |-> r.init, on |-> r.on \cup {x}]
    BY <1>1, <1>3 DEF Inserted, Lists
  <2>2. z = Placed(r, r.hard, x) /\ x \in Hard
    BY <1>3, OwnKind
  <2> HIDE DEF z
  <2>3. /\ Line(z, Hard) /\ Sorted(z, lf)
        /\ \A y : y \in Range(z) <=> y \in Range(r.hard) \/ y = x
    BY <1>1, <2>2, PlacedLine
  <2>4. u \in Lists
    BY <1>1, <2>1, <2>3 DEF Lists, Line
  <2>5. \A y \in OfLists(u) : Dated(u, lf, tk, y)
    BY <1>1, <2>1, <2>3 DEF OfLists, Dated
  <2>6. QSound(u, lf, tk)
    BY <1>1, <2>1, <2>3, <2>4, <2>5 DEF QSound, Line
  <2>7. Moved(u, r, {}, {x})
    BY <1>3, <2>1, <2>2, <2>3 DEF Moved
  <2> QED BY <2>1, <2>6, <2>7
<1> QED BY <1>2, <1>3

(* The tick and the time of a timer that is in no list.                    *)
StampedTo(u, r, lg, x, n) ==
  /\ QSound(u, lg, tick) /\ Moved(u, r, {x}, {}) /\ u.init = r.init /\ OfLists(u) = OfLists(r)
  /\ Dated(u, lg, tick, x) /\ u.due[x] = (tick + n) % TickMod

LEMMA StampedSound ==
  ASSUME NEW r, NEW lf, NEW x \in Timers, NEW n \in 0 .. Longest, tick \in Tick, QSound(r, lf, tick), x \notin OfLists(r),
         NEW lg, SetTo(lg, lf, x, n),
         NEW u, u = Stamped(r, x, n)
  PROVE  StampedTo(u, r, lg, x, n)
<1> USE DEF Elsewhere, SetTo
<1>1. /\ r \in Lists /\ OfLists(r) \subseteq Timers
  BY ListElements DEF QSound
<1> DEFINE e == (tick + n) % TickMod
           d == [r.due EXCEPT ![x] = e]
<1>2. /\ u.hard = r.hard /\ u.soft = r.soft /\ u.due = d /\ u.init = r.init /\ u.on = r.on
      /\ u = [hard |-> r.hard, soft |-> r.soft, due |-> d, init |-> r.init, on |-> r.on]
  BY <1>1 DEF Stamped, Lists
<1>3. e = Shift(tick, n) /\ e \in Tick
  <2>1. n \in 0 .. TickMod - 1 /\ n \in Turn
    BY MaxFacts, TickFacts DEF Turn
  <2> QED BY <2>1, ShiftBy, ShiftTick
<1>4. u.due[x] = e
  BY <1>1, <1>2 DEF Lists
<1> HIDE DEF e
<1>5. d \in [Timers -> Tick] /\ d[x] = e /\ \A y \in Timers : y # x => d[y] = r.due[y]
  BY <1>1, <1>3 DEF Lists
<1> HIDE DEF d
<1>6. u \in Lists
  BY <1>1, <1>2, <1>5 DEF Lists
<1>7. Dated(u, lg, tick, x)
  <2>1. n \in - (Lag + Longest) .. Longest /\ lg[x] = n
    BY MaxFacts, TickFacts
  <2> QED BY <1>2, <1>3, <1>5, <2>1 DEF Dated
<1>8. OfLists(u) = OfLists(r)
  BY <1>2 DEF OfLists
<1>9. \A y \in OfLists(r) : lg[y] = lf[y] /\ u.due[y] = r.due[y] /\ y # x
  BY <1>1, <1>2, <1>5
<1>10. \A y \in OfLists(u) : Dated(u, lg, tick, y)
  BY <1>8, <1>9 DEF QSound, Dated
<1>11. Sorted(u.hard, lg) /\ Sorted(u.soft, lg)
  <2>1. r.hard \in Seq(Hard) /\ r.soft \in Seq(Soft) /\ Sorted(r.hard, lf) /\ Sorted(r.soft, lf)
    BY <1>1 DEF Lists, QSound
  <2>2. (\A y \in Range(r.hard) : lg[y] = lf[y]) /\ (\A y \in Range(r.soft) : lg[y] = lf[y])
    BY <1>9 DEF OfLists
  <2>3. Sorted(r.hard, lg)
    BY <2>1, <2>2, SortedSame
  <2>4. Sorted(r.soft, lg)
    BY <2>1, <2>2, SortedSame
  <2> QED BY <1>2, <2>3, <2>4
<1>12. QSound(u, lg, tick)
  BY <1>2, <1>6, <1>10, <1>11 DEF QSound
<1>13. Moved(u, r, {x}, {})
  BY <1>2, <1>5, <1>9 DEF Moved, OfLists
<1> QED BY <1>2, <1>4, <1>7, <1>8, <1>12, <1>13 DEF e, StampedTo

(* One after the other.                                                    *)
LEMMA MovedTwice ==
  ASSUME NEW r, NEW u, NEW v, NEW A, NEW B, NEW C, NEW D, Moved(u, r, A, B), Moved(v, u, C, D)
  PROVE  Moved(v, r, A \cup C, (B \ C) \cup D)
BY DEF Moved

DeactivatedTo(u, r, lf, tk) ==
  /\ QSound(u, lf, tk) /\ Moved(u, r, {}, {})
  /\ u.init = r.init /\ u.due = r.due /\ u.hard = r.hard /\ u.soft = r.soft

LEMMA DeactivatedSound ==
  ASSUME NEW r, NEW lf, NEW tk, QSound(r, lf, tk), NEW x, NEW u, u = Deactivated(r, x)
  PROVE  DeactivatedTo(u, r, lf, tk)
<1> USE DEF DeactivatedTo
<1>1. r \in Lists
  BY DEF QSound
<1> DEFINE o == r.on \ {x}
<1>2. /\ u = [hard |-> r.hard, soft |-> r.soft, due |-> r.due, init |-> r.init, on |-> o]
      /\ u.hard = r.hard /\ u.soft = r.soft /\ u.due = r.due /\ u.init = r.init
  BY <1>1 DEF Deactivated, Lists
<1>3. o \in SUBSET Timers
  BY <1>1 DEF Lists
<1> HIDE DEF o
<1>4. u \in Lists
  BY <1>1, <1>2, <1>3 DEF Lists
<1> QED BY <1>2, <1>4 DEF QSound, Moved, Dated, OfLists

(* rt_timer_stop and the first half of rt_timer_start.                     *)
StoppedTo(u, r, lg, tk, x) ==
  QSound(u, lg, tk) /\ Moved(u, r, {x}, {}) /\ u.init = r.init /\ x \notin OfLists(u)

LEMMA StoppedSound ==
  ASSUME NEW r, NEW lf, NEW tk, QSound(r, lf, tk), NEW x \in Timers, NEW n,
         NEW u, u = Deactivated(Unlinked(r, x, n), x), NEW lg, Elsewhere(lg, lf, x)
  PROVE  StoppedTo(u, r, lg, tk, x)
<1> DEFINE v == Unlinked(r, x, n)
<1>1. v = Unlinked(r, x, n) /\ u = Deactivated(v, x)
  OBVIOUS
<1> HIDE DEF v
<1>2. UnlinkedTo(v, r, lg, tk, x, n)
  BY <1>1, UnlinkedSound
<1>3. DeactivatedTo(u, v, lg, tk)
  <2>1. QSound(v, lg, tk)
    BY <1>2 DEF UnlinkedTo
  <2> QED BY <1>1, <2>1, DeactivatedSound
<1>4. Moved(u, r, {x}, {})
  BY <1>2, <1>3 DEF Moved, UnlinkedTo, DeactivatedTo
<1> QED BY <1>2, <1>3, <1>4 DEF OfLists, UnlinkedTo, DeactivatedTo, StoppedTo

(* rt_timer_start as a whole.                                              *)
StartedTo(u, r, lg, x, n) ==
  /\ QSound(u, lg, tick) /\ Moved(u, r, {x}, {x}) /\ u.init = r.init
  /\ u.due[x] = (tick + n) % TickMod

LEMMA StartedSound ==
  ASSUME Short, NEW r, tick \in Tick, NEW lf \in [Timers -> Int], QSound(r, lf, tick), NEW x \in Timers, NEW n \in 0 .. Longest,
         NEW lg \in [Timers -> Int], SetTo(lg, lf, x, n),
         NEW u, u = Started(r, x, n)
  PROVE  StartedTo(u, r, lg, x, n)
<1> DEFINE v == Deactivated(Removed(r, x), x)
           w == Stamped(v, x, n)
<1>1. v = Deactivated(Unlinked(r, x, tt.n), x) /\ w = Stamped(v, x, n) /\ u = Inserted(w, x)
  BY DEF Started, Removed
<1> HIDE DEF v, w
<1>2. StoppedTo(v, r, lf, tick, x)
  <2>1. Elsewhere(lf, lf, x)
    BY DEF Elsewhere
  <2> QED BY <1>1, <2>1, StoppedSound
<1>3. StampedTo(w, v, lg, x, n)
  <2>1. w = Stamped(v, x, n) /\ QSound(v, lf, tick) /\ x \notin OfLists(v)
    BY <1>1, <1>2 DEF StoppedTo
  <2> QED BY <2>1, StampedSound
<1>4. lg[x] >= - Lag
  BY TickFacts, MaxFacts DEF SetTo
<1>5. InsertedTo(u, w, lg, tick, x)
  <2>1. QSound(w, lg, tick) /\ x \notin OfLists(w) /\ u = Inserted(w, x) /\ Dated(w, lg, tick, x)
    BY <1>1, <1>2, <1>3 DEF StoppedTo, StampedTo
  <2> QED BY <1>4, <2>1, InsertedSound
<1>6. Moved(u, r, {x}, {x})
  BY <1>2, <1>3, <1>5 DEF Moved, StoppedTo, StampedTo, InsertedTo
<1> QED BY <1>2, <1>3, <1>5, <1>6 DEF StoppedTo, StampedTo, InsertedTo, StartedTo

(***************************************************************************)
(* The invariant.                                                          *)
(***************************************************************************)
Placing == {"stamp", "insert"}

Inserting(x) == \E p \in Proc : call[p].at = "insert" /\ call[p].x = x

Starting(x) == \E p \in Proc : call[p].at \in Placing /\ call[p].x = x

(* A timer that may be linked now.                                         *)
Ready(r, lf, tk, x) ==
  Dated(r, lf, tk, x) /\ lf[x] >= - Lag /\ (x \in Soft => r.due[x] # RtTickMax)

(* How late a hard timer in the list can be.                               *)
Fresh(c) == IF c.at = "off" THEN - Lag ELSE - Lag - 1

CtlTyped ==
  /\ clk \in [at : {"off", "check", "call"}, t : Hard \cup {End}]
  /\ tt \in [at : {"scan", "none", "some", "nap", "asleep", "delayed", "begin",
                   "enter", "check", "fire", "again"},
             n : Soft \cup {End}, t : Soft \cup {End}, now : Tick]
  /\ call \in [Proc -> [at : {"idle", "stamp", "insert", "wake", "unlink", "clear"}, x : User \cup {End}]]

(* The lists are in the order of the time left, and the tick of a timer is *)
(* as far from now as that says; so is that of a timer about to be linked. *)
ListsSound ==
  /\ tick \in Tick /\ left \in [Timers -> Int] /\ QSound(q, left, tick)
  /\ \A x \in Timers : Inserting(x) => Ready(q, left, tick, x)
  /\ \A x \in Range(q.hard) : left[x] >= Fresh(clk)
  /\ \A x \in Range(q.soft) : q.due[x] # RtTickMax

(* A timer that is being started is in no list, and nobody else starts it. *)
CallsSound ==
  /\ \A p \in Proc : call[p].at # "idle" => call[p].x \in User
  /\ \A p \in Proc : call[p].at = "wake" => call[p].x \in Soft
  /\ \A x \in Timers : Starting(x) => x \notin OfLists(q) /\ x \notin FromIsr
  /\ call["caller"].at \in Placing =>
       /\ call["caller"].x \in FromThread /\ call["caller"].x # tt.t
       /\ call["tt"].at \in Placing => call["tt"].x # call["caller"].x
  /\ clk.at = "call" => clk.t \in Hard /\ ~ Starting(clk.t)
  /\ call["tt"].at # "idle" => tt.at \in {"fire", "check"}
  /\ call["tt"].at \in {"unlink", "clear"} => tt.at = "fire" /\ call["tt"].x = tt.t

(* The node that rt_soft_timer_check keeps while it calls back is in the   *)
(* list, unless the callback is just starting that very timer again.       *)
NodesSound ==
  /\ tt.at \notin {"check", "fire", "again"} => tt.n = End
  /\ tt.at \notin {"fire", "again"} => tt.t = End
  /\ tt.at \in {"fire", "again"} => tt.t \in Soft /\ tt.n # tt.t
  /\ tt.n # End =>
       \/ tt.n \in Range(q.soft)
       \/ tt.at = "fire" /\ call["tt"].at \in Placing /\ call["tt"].x = tt.n
  /\ tt.at = "check" /\ call["tt"].at # "idle" => call["tt"].x # tt.n

(* The tick that the timer thread has read is e ticks old, and the timer   *)
(* was not set later than that.                                            *)
Aged(lf, tk, now, x) ==
  \E e \in 0 .. TickMod - 1 : now = Shift(tk, - e) /\ lf[x] + e <= Longest

(* The timer thread sleeps no longer than the soft timers allow.           *)
InTime(x) ==
  /\ left[x] >= left[Own] - (Lag + Longest)
  /\ left[Own] < 0 => left[x] >= - Lag - 1
  /\ left[Own] = 0 /\ clk.at = "off" => left[x] >= - Lag

TtSound ==
  /\ tt.at = "none" => q.soft = << >>
  /\ tt.at = "some" => q.soft # << >> /\ tt.now = q.due[Head(q.soft)]
  /\ tt.at = "nap" => tt.now \in 0 .. Longest /\ \A x \in Range(q.soft) : left[x] >= - Lag
  /\ tt.at = "enter" => \A x \in Range(q.soft) : Aged(left, tick, tt.now, x)
  /\ tt.at \in {"check", "again"} /\ tt.n # End => Aged(left, tick, tt.now, tt.n)
  /\ tt.at = "asleep" => \A x \in Range(q.soft) : call["caller"].at = "wake" /\ call["caller"].x = x
  /\ tt.at = "delayed" =>
       /\ Own \in Range(q.hard)
       /\ left[Own] >= IF clk.at = "off" THEN 0 ELSE - 1
       /\ \A x \in Range(q.soft) : InTime(x)

TInductive == CtlTyped /\ ListsSound /\ CallsSound /\ NodesSound /\ TtSound

(***************************************************************************)
(* Steps that move timers at one tick: those of A leave the lists, those of*)
(* B are linked.                                                           *)
(***************************************************************************)
Moves(A, B) ==
  /\ tick' = tick /\ left' \in [Timers -> Int] /\ QSound(q', left', tick)
  /\ Moved(q', q, A, B)
  /\ \A y \in Timers : y \notin A /\ y \notin B => left'[y] = left[y]
  /\ \A y \in B : left'[y] >= - Lag /\ (y \in Soft => q'.due[y] # RtTickMax)

(* Interrupts are not enabled by it.                                       *)
NotEnabled == clk'.at = "off" => clk.at = "off"

(* Who inserts a timer now did so before, or has just set it.              *)
InsertsOn(A, B) ==
  \A x \in Timers : Inserting(x)' =>
     \/ Inserting(x) /\ x \notin A /\ x \notin B
     \/ Ready(q', left', tick', x)

LEMMA QElements ==
  ASSUME ListsSound
  PROVE  /\ Range(q.hard) \subseteq Hard /\ Range(q.soft) \subseteq Soft /\ OfLists(q) \subseteq Timers
         /\ q.hard \in Seq(Hard) /\ q.soft \in Seq(Soft) /\ q.due \in [Timers -> Tick]
         /\ q.init \in [User -> Times] /\ q.on \in SUBSET Timers
BY ListElements DEF ListsSound, QSound, Lists

LEMMA QElementsNext ==
  ASSUME NEW A, NEW B, Moves(A, B)
  PROVE  Range(q'.hard) \subseteq Hard /\ Range(q'.soft) \subseteq Soft /\ OfLists(q') \subseteq Timers
<1>1. q' \in Lists
  BY DEF Moves, QSound
<1> QED BY <1>1, ListElements

(* The tick is the only one that a timer can be early or late by.          *)
LEMMA FreshFacts == Fresh(clk) \in Int /\ Fresh(clk) <= - Lag /\ - Lag - 1 <= Fresh(clk)
BY TickFacts DEF Fresh

LEMMA ListsMove ==
  ASSUME ListsSound, NEW A, NEW B, Moves(A, B), NotEnabled, InsertsOn(A, B)
  PROVE  ListsSound'
<1>1. /\ tick \in Tick /\ tick' = tick /\ left' \in [Timers -> Int] /\ QSound(q', left', tick') /\ left \in [Timers -> Int]
      /\ Moved(q', q, A, B) /\ Lag \in Nat /\ q' \in Lists
  BY TickFacts DEF ListsSound, Moves, QSound
<1>2. ASSUME NEW x \in Timers, Inserting(x)'
      PROVE  Ready(q', left', tick', x)
  <2>1. CASE Inserting(x) /\ x \notin A /\ x \notin B
    <3>1. Ready(q, left, tick, x)
      BY <2>1 DEF ListsSound
    <3>2. left'[x] = left[x] /\ q'.due[x] = q.due[x]
      BY <2>1 DEF Moves, Moved
    <3> QED BY <1>1, <3>1, <3>2 DEF Ready, Dated
  <2> QED BY <1>2, <2>1 DEF InsertsOn
<1>3. ASSUME NEW x \in Range(q'.hard)
      PROVE  left'[x] >= Fresh(clk')
  <2>1. x \in Timers
    BY QElementsNext DEF OfLists
  <2>2. CASE x \in B
    <3>1. left'[x] >= - Lag /\ left'[x] \in Int
      BY <1>1, <2>1, <2>2 DEF Moves
    <3> QED BY <1>1, <3>1 DEF Fresh
  <2>3. CASE x \notin B
    <3>1. x \in Range(q.hard) /\ x \notin A
      BY <1>1, <2>3 DEF Moved
    <3>2. left'[x] = left[x] /\ left[x] >= Fresh(clk) /\ left[x] \in Int
      BY <1>1, <2>1, <2>3, <3>1 DEF Moves, ListsSound
    <3> QED BY <1>1, <3>2 DEF Fresh, NotEnabled
  <2> QED BY <2>2, <2>3
<1>4. ASSUME NEW x \in Range(q'.soft)
      PROVE  q'.due[x] # RtTickMax
  <2>1. x \in Timers /\ x \in Soft
    BY QElementsNext DEF OfLists
  <2>2. CASE x \in B
    BY <2>1, <2>2 DEF Moves
  <2>3. CASE x \notin B
    <3>1. x \in Range(q.soft) /\ x \notin A
      BY <1>1, <2>3 DEF Moved
    <3>2. q'.due[x] = q.due[x]
      BY <2>1, <2>3, <3>1 DEF Moves, Moved
    <3> QED BY <3>1, <3>2 DEF ListsSound
  <2> QED BY <2>2, <2>3
<1> QED BY <1>1, <1>2, <1>3, <1>4 DEF ListsSound

(***************************************************************************)
(* What handlers, the clock interrupt and its callbacks do: they move hard *)
(* timers that no thread is starting.                                      *)
(***************************************************************************)
HardStep(A, B) ==
  /\ Moves(A, B) /\ A \subseteq Hard /\ B \subseteq Hard
  /\ tt.at = "delayed" => Own \notin A /\ Own \notin B
  /\ \A x \in Timers : x \in A \/ x \in B => ~ Starting(x)
  /\ call' = call /\ tt' = tt
  /\ NotEnabled
  /\ clk' \in [at : {"off", "check", "call"}, t : Hard \cup {End}]
  /\ clk'.at = "call" => clk'.t \in Hard /\ ~ Starting(clk'.t)

LEMMA StartsInserting == \A x : Inserting(x) => Starting(x)
BY DEF Inserting, Starting, Placing

LEMMA HardCalls ==
  ASSUME CallsSound, ListsSound, NEW A, NEW B, HardStep(A, B)
  PROVE  CallsSound'
<1>1. ASSUME NEW x \in Timers, Starting(x)'
      PROVE  x \notin OfLists(q') /\ x \notin FromIsr
  <2>1. Starting(x) /\ x \notin OfLists(q) /\ x \notin FromIsr /\ x \notin B
    BY <1>1 DEF HardStep, CallsSound, Starting
  <2> QED BY <2>1 DEF HardStep, Moves, Moved, OfLists
<1>2. clk'.at = "call" => clk'.t \in Hard /\ ~ Starting(clk.t)'
  BY DEF HardStep, Starting
<1>3. call' = call /\ tt' = tt
  BY DEF HardStep
<1> QED BY <1>1, <1>2, <1>3 DEF CallsSound

LEMMA HardLists ==
  ASSUME ListsSound, NEW A, NEW B, HardStep(A, B)
  PROVE  ListsSound' /\ q'.soft = q.soft /\ \A x \in Range(q.soft) : left'[x] = left[x] /\ q'.due[x] = q.due[x]
<1>1. InsertsOn(A, B)
  BY StartsInserting DEF HardStep, InsertsOn, Inserting
<1>2. ListsSound'
  BY <1>1, ListsMove DEF HardStep
<1>3. q'.soft = q.soft
  BY DEF HardStep, Moves, Moved
<1>4. ASSUME NEW x \in Range(q.soft)
      PROVE  left'[x] = left[x] /\ q'.due[x] = q.due[x]
  <2>1. x \in Timers /\ x \notin A /\ x \notin B
    BY QElements, OwnKind DEF HardStep, OfLists
  <2> QED BY <2>1 DEF HardStep, Moves, Moved
<1> QED BY <1>2, <1>3, <1>4

LEMMA HardTt ==
  ASSUME ListsSound, NodesSound, TtSound, NEW A, NEW B, HardStep(A, B)
  PROVE  NodesSound' /\ TtSound'
<1>1. /\ q'.soft = q.soft /\ tt' = tt /\ call' = call /\ tick' = tick
      /\ \A x \in Range(q.soft) : left'[x] = left[x] /\ q'.due[x] = q.due[x]
  BY HardLists DEF HardStep, Moves
<1>2. NodesSound'
  BY <1>1 DEF NodesSound
<1>3. left[Own] \in Int /\ (tt.at = "delayed" => left'[Own] = left[Own])
  BY OwnKind DEF HardStep, Moves, ListsSound
<1>4. tt.at = "some" => q.soft # << >> /\ tt.now = q'.due[Head(q.soft)]
  <2>1. q.soft # << >> => Head(q.soft) \in Range(q.soft)
    <3>1. q.soft # << >> => Head(q.soft) = q.soft[1] /\ 1 \in DOMAIN q.soft
      BY QElements, LenProperties, EmptySeq
    <3> QED BY <3>1 DEF Range
  <2> QED BY <1>1, <2>1 DEF TtSound
<1>5. tt.at = "nap" => tt.now \in 0 .. Longest /\ \A x \in Range(q.soft) : left'[x] >= - Lag
  BY <1>1 DEF TtSound
<1>6. tt.at = "enter" => \A x \in Range(q.soft) : Aged(left', tick, tt.now, x)
  BY <1>1 DEF TtSound, Aged
<1>7. tt.at \in {"check", "again"} /\ tt.n # End => Aged(left', tick, tt.now, tt.n)
  BY <1>1 DEF TtSound, Aged, NodesSound
<1>8. tt.at = "delayed" =>
       /\ Own \in Range(q'.hard)
       /\ left'[Own] >= IF clk'.at = "off" THEN 0 ELSE - 1
       /\ \A x \in Range(q.soft) : InTime(x)'
  <2> SUFFICES ASSUME tt.at = "delayed"
               PROVE  /\ Own \in Range(q'.hard)
                      /\ left'[Own] >= IF clk'.at = "off" THEN 0 ELSE - 1
                      /\ \A x \in Range(q.soft) : InTime(x)'
    OBVIOUS
  <2>1. Own \in Range(q'.hard)
    BY OwnKind DEF TtSound, HardStep, Moves, Moved
  <2>2. left'[Own] >= IF clk'.at = "off" THEN 0 ELSE - 1
    BY <1>3 DEF TtSound, HardStep, NotEnabled
  <2>3. ASSUME NEW x \in Range(q.soft)
        PROVE  InTime(x)'
    BY <1>1, <1>3 DEF TtSound, InTime, HardStep, NotEnabled
  <2> QED BY <2>1, <2>2, <2>3
<1> QED BY <1>1, <1>2, <1>4, <1>5, <1>6, <1>7, <1>8 DEF TtSound

LEMMA HardKeeps ==
  ASSUME TInductive, NEW A, NEW B, HardStep(A, B)
  PROVE  TInductive'
<1>1. CtlTyped'
  BY DEF TInductive, CtlTyped, HardStep
<1> QED BY <1>1, HardCalls, HardLists, HardTt DEF TInductive

LEMMA TimesFacts ==
  ASSUME ListsSound, NEW x \in User
  PROVE  q.init[x] \in 0 .. Longest /\ q.init[x] \in Times /\ x \in Timers
<1>1. q.init[x] \in Times /\ x \in Timers
  BY QElements DEF User
<1>2. Times \subseteq 1 .. Half - 1
  BY TimerAssumption
<1> DEFINE n == q.init[x]
<1>3. n \in 1 .. Half - 1 /\ n <= Longest
  BY <1>1, <1>2, MaxFacts
<1> HIDE DEF n
<1>4. n \in 0 .. Longest
  BY <1>3, MaxFacts, TickFacts
<1> QED BY <1>1, <1>4 DEF n

(* One timer's ghost is set.                                               *)
LEMMA LeftSet ==
  ASSUME ListsSound, NEW x \in Timers, NEW n \in Int, left' = [left EXCEPT ![x] = n]
  PROVE  left' \in [Timers -> Int] /\ SetTo(left', left, x, n) /\ Elsewhere(left', left, x)
BY DEF ListsSound, SetTo, Elsewhere

(* rt_timer_start of a hard timer, in one go.                              *)
LEMMA HardStarts ==
  ASSUME Short, ListsSound, NEW x \in Hard, x \in User, StartNow(x), tick' = tick
  PROVE  Moves({x}, {x}) /\ tt' = tt
<1>1. /\ q' = Started(q, x, q.init[x]) /\ left' = [left EXCEPT ![x] = q.init[x]] /\ tt' = tt
  BY OwnKind DEF StartNow, Timers
<1> DEFINE n == q.init[x]
<1>2. n \in 0 .. Longest /\ x \in Timers /\ n \in Int
  BY TimesFacts, MaxFacts
<1>3. q' = Started(q, x, n) /\ left' = [left EXCEPT ![x] = n]
  BY <1>1
<1> HIDE DEF n
<1>4. left' \in [Timers -> Int] /\ SetTo(left', left, x, n) /\ Elsewhere(left', left, x)
  BY <1>2, <1>3, LeftSet
<1>5. tick \in Tick /\ left \in [Timers -> Int] /\ QSound(q, left, tick)
  BY DEF ListsSound
<1> DEFINE u == q'
           lg == left'
<1>6. /\ u = Started(q, x, n)
      /\ lg \in [Timers -> Int] /\ SetTo(lg, left, x, n)
  BY <1>3, <1>4
<1> HIDE DEF u, lg
<1>7. StartedTo(u, q, lg, x, n)
  BY <1>2, <1>5, <1>6, StartedSound
<1>8. lg[x] >= - Lag /\ x \notin Soft
  BY <1>2, <1>6, OwnKind, TickFacts, MaxFacts DEF SetTo
<1>9. StartedTo(q', q, left', x, n) /\ left'[x] >= - Lag
  BY <1>7, <1>8 DEF u, lg
<1> QED BY <1>1, <1>4, <1>8, <1>9 DEF Moves, StartedTo, Elsewhere

(* A timer is taken out of its list, and perhaps made inactive.            *)
LEMMA Leaves ==
  ASSUME ListsSound, NEW x \in Timers, NEW n, tick' = tick,
         q' = Unlinked(q, x, n) \/ q' = Deactivated(Unlinked(q, x, n), x),
         left' \in [Timers -> Int], Elsewhere(left', left, x)
  PROVE  Moves({x}, {}) /\ x \notin OfLists(q') /\ q'.init = q.init
<1> DEFINE u == q'
           lg == left'
<1>1. /\ QSound(q, left, tick) /\ Elsewhere(lg, left, x)
      /\ u = Unlinked(q, x, n) \/ u = Deactivated(Unlinked(q, x, n), x)
  BY DEF ListsSound
<1> HIDE DEF u, lg
<1>2. CASE u = Unlinked(q, x, n)
  <2>1. UnlinkedTo(u, q, lg, tick, x, n)
    BY <1>1, <1>2, UnlinkedSound
  <2> QED BY <2>1 DEF u, lg, Moves, UnlinkedTo, Elsewhere
<1>3. CASE u = Deactivated(Unlinked(q, x, n), x)
  <2>1. StoppedTo(u, q, lg, tick, x)
    BY <1>1, <1>3, StoppedSound
  <2> QED BY <2>1 DEF u, lg, Moves, StoppedTo, Elsewhere
<1> QED BY <1>1, <1>2, <1>3

LEMMA StopsNow ==
  ASSUME ListsSound, NEW x \in Timers, StopNow(x), tick' = tick
  PROVE  Moves({x}, {}) /\ tt' = tt
<1>1. q' = Deactivated(Unlinked(q, x, tt.n), x) /\ left' = [left EXCEPT ![x] = 0] /\ tt' = tt
  BY DEF StopNow, Stopped, Removed
<1>2. left' \in [Timers -> Int] /\ SetTo(left', left, x, 0) /\ Elsewhere(left', left, x)
  <2>1. 0 \in Int
    OBVIOUS
  <2> QED BY <1>1, <2>1, LeftSet
<1> QED BY <1>1, <1>2, Leaves

(* No timer moves.                                                         *)
LEMMA NoneMoves ==
  ASSUME ListsSound, UNCHANGED <<tick, left>>, NEW x, q' = q \/ q' = Deactivated(q, x)
  PROVE  Moves({}, {}) /\ q'.soft = q.soft /\ q'.due = q.due /\ q'.hard = q.hard
<1> DEFINE u == q'
<1>1. QSound(q, left, tick) /\ left \in [Timers -> Int] /\ (u = q \/ u = Deactivated(q, x))
  BY DEF ListsSound
<1> HIDE DEF u
<1>2. CASE u = q
  BY <1>1, <1>2 DEF u, Moves, Moved
<1>3. CASE u = Deactivated(q, x)
  <2>1. DeactivatedTo(u, q, left, tick)
    BY <1>1, <1>3, DeactivatedSound
  <2> QED BY <1>1, <2>1 DEF u, Moves, DeactivatedTo
<1> QED BY <1>1, <1>2, <1>3

(* Handlers, and the callbacks of hard timers.                             *)
LEMMA HandlersKeep ==
  ASSUME TInductive, Short, Disciplined, NEW x \in User,
         CallbackStarts(x) \/ CallbackStopsNow(x) \/ IsrStarts(x) \/ IsrStops(x)
  PROVE  TInductive'
<1>1. /\ tick' = tick /\ clk' = clk /\ call' = call
      /\ x \in FromIsr \/ (clk.at = "call" /\ x = clk.t)
      /\ StartNow(x) \/ StopNow(x)
  BY DEF CallbackStarts, CallbackStopsNow, IsrStarts, IsrStops
<1>2. x \in Hard /\ x \in Timers /\ x # Own /\ ~ Starting(x) /\ ListsSound
  BY <1>1, OwnKind DEF TInductive, CallsSound, Disciplined, User
<1>3. clk \in [at : {"off", "check", "call"}, t : Hard \cup {End}] /\ (clk.at = "call" => clk.t \in Hard /\ ~ Starting(clk.t))
  BY DEF TInductive, CtlTyped, CallsSound
<1>4. CASE StartNow(x)
  <2>1. Moves({x}, {x}) /\ tt' = tt
    BY <1>1, <1>2, <1>4, HardStarts
  <2>2. HardStep({x}, {x})
    BY <1>1, <1>2, <1>3, <2>1 DEF HardStep, NotEnabled
  <2> QED BY <2>2, HardKeeps
<1>5. CASE StopNow(x)
  <2>1. Moves({x}, {}) /\ tt' = tt
    BY <1>1, <1>2, <1>5, StopsNow
  <2>2. HardStep({x}, {})
    BY <1>1, <1>2, <1>3, <2>1 DEF HardStep, NotEnabled
  <2> QED BY <2>2, HardKeeps
<1> QED BY <1>1, <1>4, <1>5

(* The first hard timer is the one with the least time left.               *)
LEMMA FirstIsLeast ==
  ASSUME NEW S, NEW s \in Seq(S), s # << >>, NEW lf, Sorted(s, lf), \A x \in Range(s) : lf[x] \in Int
  PROVE  Head(s) \in Range(s) /\ \A x \in Range(s) : lf[Head(s)] <= lf[x]
<1>1. Len(s) \in Nat /\ Len(s) >= 1 /\ DOMAIN s = 1 .. Len(s) /\ Head(s) = s[1]
  BY LenProperties, EmptySeq
<1>2. 1 \in DOMAIN s /\ s[1] \in Range(s)
  BY <1>1 DEF Range
<1>3. ASSUME NEW x \in Range(s)
      PROVE  lf[s[1]] <= lf[x]
  <2>1. PICK i \in DOMAIN s : x = s[i]
    BY DEF Range
  <2>2. CASE i = 1
    BY <1>2, <2>1, <2>2
  <2>3. CASE i # 1
    <3>1. 1 < i
      BY <1>1, <2>3
    <3> QED BY <1>1, <1>2, <2>1, <3>1 DEF Sorted
  <2> QED BY <2>2, <2>3
<1> QED BY <1>1, <1>2, <1>3

(* The list ends when its first timer has.                                 *)
LEMMA HardDueIs ==
  ASSUME Short, ListsSound
  PROVE  /\ HardDue => Head(q.hard) \in Range(q.hard) /\ left[Head(q.hard)] <= 0
         /\ ~ HardDue => \A x \in Range(q.hard) : left[x] > 0
<1> DEFINE h == Head(q.hard)
<1>1. /\ q.hard \in Seq(Hard) /\ Sorted(q.hard, left) /\ tick \in Tick
      /\ \A x \in Range(q.hard) : x \in Timers /\ Dated(q, left, tick, x) /\ left[x] \in Int
  BY QElements DEF ListsSound, QSound, OfLists, Dated
<1>2. CASE q.hard = << >>
  BY <1>2, EmptySeq, LenProperties DEF HardDue, Range
<1>3. CASE q.hard # << >>
  <2>1. h \in Range(q.hard) /\ \A x \in Range(q.hard) : left[h] <= left[x]
    BY <1>1, <1>3, FirstIsLeast
  <2> DEFINE d == left[h]
  <2>2. d \in - (Lag + Longest) .. Longest /\ q.due[h] = Shift(tick, d) /\ (Expired(q, h, tick) <=> Minus(tick, q.due[h]) < Half)
    BY <1>1, <2>1 DEF Dated, Expired
  <2>3. (HardDue <=> Expired(q, h, tick)) /\ \A x \in Range(q.hard) : d <= left[x]
    BY <1>3, <2>1 DEF HardDue
  <2> HIDE DEF d, h
  <2>4. d \in Int /\ d \in Turn /\ - Half < d + 0 /\ d + 0 < Half /\ 0 \in 0 .. TickMod - 1
    <3>1. Longest \in Int /\ Lag \in Int /\ Half \in Int /\ TickMod \in Int /\ Longest + Lag < Half /\ 2 * Half + 1 <= TickMod /\ Half >= 2
          /\ Longest >= 1 /\ Lag >= 0
      BY MaxFacts, TickFacts DEF Short
    <3>2. d \in Int /\ - (Lag + Longest) <= d /\ d <= Longest
      BY <2>2, <3>1
    <3> QED BY <3>1, <3>2 DEF Turn
  <2>5. Shift(tick, - 0) = tick
    BY <1>1, TickFacts DEF Shift, Tick
  <2>6. Minus(Shift(tick, - 0), Shift(tick, d)) < Half <=> d + 0 <= 0
    BY <1>1, <2>4, ExpiredIs
  <2>7. HardDue <=> d <= 0
    BY <1>1, <1>3, <2>1, <2>2, <2>3, <2>4, <2>5, <2>6 DEF Dated, Expired, d
  <2>8. ~ HardDue => \A x \in Range(q.hard) : left[x] > 0
    BY <1>1, <2>3, <2>4, <2>7
  <2> QED BY <2>1, <2>7, <2>8 DEF d, h
<1> QED BY <1>2, <1>3

(* rt_timer_check fires a hard timer that is not the timer thread's own.   *)
LEMMA CheckFiresKeeps ==
  ASSUME TInductive, Short, CheckFires, clk'.t # Own
  PROVE  TInductive'
<1> DEFINE x == Head(q.hard)
<1>1. /\ HardDue /\ q' = Unlinked(q, x, tt.n) /\ left' = [left EXCEPT ![x] = 0] /\ clk' = [at |-> "call", t |-> x]
      /\ tick' = tick /\ call' = call /\ ListsSound
  BY DEF CheckFires, TInductive, Removed
<1>2. x \in Range(q.hard)
  BY <1>1, HardDueIs
<1>3. x \in Hard /\ x \in Timers /\ x \in OfLists(q) /\ x # Own
  BY <1>1, <1>2, QElements, OwnKind DEF OfLists
<1>4. tt' = tt
  BY <1>3 DEF CheckFires
<1> HIDE DEF x
<1>5. left' \in [Timers -> Int] /\ SetTo(left', left, x, 0) /\ Elsewhere(left', left, x)
  <2>1. 0 \in Int
    OBVIOUS
  <2> QED BY <1>1, <1>3, <2>1, LeftSet
<1>6. Moves({x}, {})
  BY <1>1, <1>3, <1>5, Leaves
<1>7. ~ Starting(x)
  BY <1>3 DEF TInductive, CallsSound
<1>8. HardStep({x}, {})
  BY <1>1, <1>3, <1>4, <1>6, <1>7 DEF HardStep, NotEnabled
<1> QED BY <1>8, HardKeeps

(* The callback of a hard timer returns.                                   *)
LEMMA CallbackReturnsKeeps ==
  ASSUME TInductive, Short, CallbackReturns
  PROVE  TInductive'
<1> DEFINE x == clk.t
<1>1. /\ clk.at = "call" /\ clk' = [at |-> "check", t |-> End] /\ tick' = tick /\ call' = call
      /\ x \in Hard /\ x \in Timers /\ ~ Starting(x) /\ ListsSound
  BY OwnKind DEF CallbackReturns, TInductive, CallsSound, Timers
<1>2. CASE x \in Periodic \cap q.on
  <2>1. StartNow(x)
    BY <1>2 DEF CallbackReturns
  <2>2. x \in User /\ x # Own
    BY <1>2, TimerAssumption, OwnKind
  <2> HIDE DEF x
  <2>3. Moves({x}, {x}) /\ tt' = tt
    BY <1>1, <2>1, <2>2, HardStarts
  <2>4. HardStep({x}, {x})
    BY <1>1, <2>2, <2>3 DEF HardStep, NotEnabled
  <2> QED BY <2>4, HardKeeps
<1>3. CASE x \notin Periodic \cap q.on
  <2>1. q' = Deactivated(q, x) /\ UNCHANGED <<tt, left>>
    BY <1>3 DEF CallbackReturns
  <2> HIDE DEF x
  <2>2. Moves({}, {})
    BY <1>1, <2>1, NoneMoves
  <2>3. HardStep({}, {})
    BY <1>1, <2>1, <2>2 DEF HardStep, NotEnabled
  <2> QED BY <2>3, HardKeeps
<1> QED BY <1>2, <1>3

(* The check ends when no hard timer is due.                               *)
LEMMA CheckEndsKeeps ==
  ASSUME TInductive, Short, CheckEnds
  PROVE  TInductive'
<1>1. /\ ~ HardDue /\ clk' = [at |-> "off", t |-> End] /\ UNCHANGED <<tick, q, tt, call, left>>
      /\ ListsSound /\ CallsSound /\ NodesSound /\ TtSound /\ CtlTyped
  BY DEF CheckEnds, TInductive
<1>2. \A x \in Range(q.hard) : left[x] > 0 /\ left[x] \in Int
  <2>1. \A x \in Range(q.hard) : left[x] \in Int
    BY <1>1, QElements DEF ListsSound, OfLists
  <2> QED BY <1>1, <2>1, HardDueIs
<1>3. CtlTyped'
  BY <1>1 DEF CtlTyped
<1>4. \A x \in Timers : Ready(q, left, tick, x)' <=> Ready(q, left, tick, x)
  BY <1>1 DEF Ready, Dated
<1>5. ListsSound'
  <2>1. \A x \in Range(q.hard) : left[x] >= - Lag
    BY <1>2, TickFacts
  <2>2. Fresh(clk)' = - Lag
    BY <1>1 DEF Fresh
  <2>3. QSound(q, left, tick)'
    BY <1>1 DEF ListsSound
  <2>4. \A x \in Timers : Inserting(x)' => Ready(q, left, tick, x)'
    BY <1>1, <1>4 DEF ListsSound, Inserting
  <2> QED BY <1>1, <2>1, <2>2, <2>3, <2>4 DEF ListsSound
<1>6. CallsSound'
  BY <1>1 DEF CallsSound, Starting
<1>7. NodesSound'
  BY <1>1 DEF NodesSound
<1>8. tt.at = "delayed" =>
       /\ Own \in Range(q.hard)
       /\ left[Own] >= 0 /\ left[Own] # 0
       /\ \A x \in Range(q.soft) : InTime(x)'
  <2> SUFFICES ASSUME tt.at = "delayed"
               PROVE  /\ Own \in Range(q.hard)
                      /\ left[Own] >= 0 /\ left[Own] # 0
                      /\ \A x \in Range(q.soft) : InTime(x)'
    OBVIOUS
  <2>1. Own \in Range(q.hard) /\ \A x \in Range(q.soft) : InTime(x)
    BY <1>1 DEF TtSound
  <2>2. left[Own] >= 0 /\ left[Own] # 0
    BY <1>2, <2>1
  <2> QED BY <1>1, <2>1, <2>2 DEF InTime
<1>9. TtSound'
  BY <1>1, <1>8 DEF TtSound, Aged
<1> QED BY <1>3, <1>5, <1>6, <1>7, <1>9 DEF TInductive

(* The timer thread is woken, by a caller or by its own timer.             *)
LEMMA AwakeKeeps ==
  ASSUME TInductive, NEW A, NEW B, Moves(A, B), A \subseteq Hard, B \subseteq Hard,
         \A x \in Timers : x \in A \/ x \in B => ~ Starting(x),
         tt.at \in Blocked, tt' = [tt EXCEPT !.at = "begin"], NotEnabled,
         clk' \in [at : {"off", "check", "call"}, t : Hard \cup {End}],
         clk'.at = "call" => clk'.t \in Hard /\ ~ Starting(clk'.t),
         \/ call' = call
         \/ call["caller"].at = "wake" /\ call' = [call EXCEPT !["caller"] = [at |-> "idle", x |-> End]]
  PROVE  TInductive'
<1>1. ListsSound /\ CallsSound /\ NodesSound /\ TtSound /\ CtlTyped
  BY DEF TInductive
<1>2. /\ tt'.at = "begin" /\ tt'.n = tt.n /\ tt'.t = tt.t /\ tt'.now = tt.now
      /\ tt.at \in {"asleep", "delayed"}
  BY <1>1 DEF CtlTyped, Blocked
<1>3. CtlTyped'
  BY <1>1 DEF CtlTyped
<1>4. \A p \in Proc : call'[p] = call[p] \/ call'[p] = [at |-> "idle", x |-> End]
  BY <1>1 DEF CtlTyped
<1>5. call'["tt"] = call["tt"] /\ call["tt"].at = "idle"
  BY <1>1, <1>2 DEF CtlTyped, CallsSound, Proc
<1>6. \A x : (Starting(x)' => Starting(x)) /\ (Inserting(x)' => Inserting(x))
  BY <1>4 DEF Starting, Inserting, Placing
<1>7. ListsSound'
  <2>1. InsertsOn(A, B)
    BY <1>6, StartsInserting DEF InsertsOn
  <2> QED BY <1>1, <2>1, ListsMove
<1>8. CallsSound'
  <2>1. ASSUME NEW x \in Timers, Starting(x)'
        PROVE  x \notin OfLists(q') /\ x \notin FromIsr
    <3>1. Starting(x) /\ x \notin OfLists(q) /\ x \notin FromIsr /\ x \notin B
      BY <1>1, <1>6, <2>1 DEF CallsSound
    <3> QED BY <3>1 DEF Moves, Moved, OfLists
  <2>2. \A p \in Proc : (call'[p].at # "idle" => call'[p].x \in User) /\ (call'[p].at = "wake" => call'[p].x \in Soft)
    BY <1>1, <1>4 DEF CallsSound
  <2>3. call'["caller"].at \in Placing => call'["caller"].x \in FromThread /\ call'["caller"].x # tt'.t
    BY <1>1, <1>2, <1>4 DEF CallsSound, Proc, Placing
  <2>4. clk'.at = "call" => clk'.t \in Hard /\ ~ Starting(clk.t)'
    BY <1>6
  <2> QED BY <1>5, <2>1, <2>2, <2>3, <2>4 DEF CallsSound, Placing
<1>9. NodesSound'
  BY <1>1, <1>2, <1>5 DEF NodesSound
<1>10. TtSound'
  BY <1>2 DEF TtSound
<1> QED BY <1>3, <1>7, <1>8, <1>9, <1>10 DEF TInductive

(* The timer thread's own timer fires: rt_thread_timeout.                  *)
LEMMA OwnFiresKeeps ==
  ASSUME TInductive, Short, CheckFires, clk'.t = Own
  PROVE  TInductive'
<1> DEFINE x == Head(q.hard)
<1>1. /\ HardDue /\ q' = Unlinked(q, x, tt.n) /\ left' = [left EXCEPT ![x] = 0] /\ clk' = [at |-> "call", t |-> x]
      /\ tick' = tick /\ call' = call /\ ListsSound /\ x = Own /\ Wake
  BY DEF CheckFires, TInductive, Removed
<1> HIDE DEF x
<1>2. x \in Hard /\ x \in Timers /\ x \notin User
  BY <1>1, OwnKind
<1>3. left' \in [Timers -> Int] /\ SetTo(left', left, x, 0) /\ Elsewhere(left', left, x)
  <2>1. 0 \in Int
    OBVIOUS
  <2> QED BY <1>1, <1>2, <2>1, LeftSet
<1>4. Moves({x}, {})
  BY <1>1, <1>2, <1>3, Leaves
<1>5. ~ Starting(x)
  BY <1>2 DEF TInductive, CallsSound, Starting, Placing
<1>6. clk' \in [at : {"off", "check", "call"}, t : Hard \cup {End}] /\ clk'.t \in Hard /\ ~ Starting(clk'.t) /\ clk'.at = "call"
  BY <1>1, <1>2, <1>5
<1>7. CASE tt.at \in Blocked
  <2>1. tt' = [tt EXCEPT !.at = "begin"] /\ NotEnabled
    BY <1>1, <1>6, <1>7 DEF Wake, NotEnabled
  <2>2. \A y \in Timers : y \in {x} \/ y \in {} => ~ Starting(y)
    BY <1>5
  <2> QED BY <1>1, <1>2, <1>4, <1>6, <1>7, <2>1, <2>2, AwakeKeeps
<1>8. CASE tt.at \notin Blocked
  <2>1. HardStep({x}, {})
    BY <1>1, <1>2, <1>4, <1>5, <1>6, <1>8 DEF HardStep, NotEnabled, Wake, Blocked
  <2> QED BY <2>1, HardKeeps
<1> QED BY <1>7, <1>8

(***************************************************************************)
(* The clock interrupt: rt_tick_increase.                                  *)
(***************************************************************************)
Waited == \A x \in Timers : Waits(x) => left[x] > - Lag

(* No timer in a list, or on its way into one, is as late as can be.       *)
LEMMA NotYetLate ==
  ASSUME TInductive, Short, Interruptible, Waited, NEW x \in Timers, Pending(x)
  PROVE  /\ left[x] \in Int /\ left[x] <= Longest /\ left[x] > - (Lag + Longest) /\ q.due[x] = Shift(tick, left[x])
         /\ x \in Range(q.soft) /\ tt.at \notin Blocked => left[x] > - Lag
         /\ x \in Range(q.hard) => left[x] >= - Lag
         /\ Inserting(x) => left[x] > - Lag
<1>1. /\ Lag \in Int /\ Lag >= 0 /\ Longest \in Int /\ Longest >= 1 /\ ListsSound /\ TtSound /\ CtlTyped /\ CallsSound /\ clk.at = "off"
      /\ left \in [Timers -> Int]
  BY TickFacts, MaxFacts DEF TInductive, Interruptible, ListsSound
<1>2. Dated(q, left, tick, x)
  <2>1. x \in OfLists(q) \/ Inserting(x)
    BY DEF Pending, Linked, OfLists, Inserting
  <2> QED BY <1>1, <2>1 DEF ListsSound, QSound, Ready
<1>3. /\ left[x] \in Int /\ left[x] <= Longest /\ q.due[x] = Shift(tick, left[x])
  BY <1>1, <1>2 DEF Dated
<1>4. x \in Range(q.soft) /\ tt.at \notin Blocked => left[x] > - Lag
  BY DEF Waits, Waited
<1>5. x \in Range(q.hard) => left[x] >= - Lag
  BY <1>1 DEF ListsSound, Fresh
<1>6. Inserting(x) => left[x] > - Lag
  BY DEF Waits, Waited, Inserting
<1>7. CASE left[x] >= - Lag
  BY <1>1, <1>3, <1>4, <1>5, <1>6, <1>7
<1>8. CASE ~ (left[x] >= - Lag)
  <2>1. x \in Range(q.soft) /\ tt.at \in Blocked
    BY <1>1, <1>3, <1>4, <1>5, <1>6, <1>8 DEF Pending, Linked, Inserting
  <2>2. tt.at # "asleep"
    <3> SUFFICES ASSUME tt.at = "asleep"
                 PROVE  FALSE
      OBVIOUS
    <3>1. call["caller"].at = "wake" /\ call["caller"].x = x
      BY <1>1, <2>1 DEF TtSound
    <3>2. Waits(x)
      BY <3>1 DEF Waits, Proc
    <3>3. left[x] > - Lag
      BY <3>2 DEF Waited
    <3> QED BY <1>1, <1>3, <1>8, <3>3
  <2>3. tt.at = "delayed"
    BY <2>1, <2>2 DEF Blocked
  <2>4. left[Own] >= 0 /\ InTime(x) /\ left[Own] \in Int
    BY <1>1, <2>1, <2>3, OwnKind DEF TtSound
  <2>5. left[x] >= left[Own] - (Lag + Longest) /\ left[Own] # 0
    BY <1>1, <1>3, <1>8, <2>4 DEF InTime
  <2>6. left[x] > - (Lag + Longest)
    BY <1>1, <1>3, <2>4, <2>5
  <2> QED BY <1>3, <1>4, <1>5, <1>6, <2>6
<1> QED BY <1>7, <1>8

(* The tick and what is left go on together.                               *)
LEMMA TicksOn ==
  ASSUME TInductive, Short, TickIncrease
  PROVE  /\ Waited /\ Interruptible /\ tick \in Tick /\ tick' = (tick + 1) % TickMod /\ tick' \in Tick
         /\ left' \in [Timers -> Int]
         /\ \A x \in Timers : Pending(x) => left'[x] = left[x] - 1 /\ Dated(q, left', tick', x)
<1>1. /\ tick \in Tick /\ left \in [Timers -> Int] /\ Waited /\ Interruptible
      /\ left' = [x \in Timers |-> IF Pending(x) THEN left[x] - 1 ELSE left[x]]
      /\ tick' = (tick + 1) % TickMod
  BY DEF TInductive, ListsSound, TickIncrease, Waited
<1>2. left' \in [Timers -> Int]
  <2>1. \A x \in Timers : (IF Pending(x) THEN left[x] - 1 ELSE left[x]) \in Int
    BY <1>1
  <2> QED BY <1>1, <2>1
<1>3. tick' \in Tick
  <2>1. 0 \in Turn /\ 0 - 1 \in Turn
    BY TickFacts DEF Turn
  <2> QED BY <1>1, <2>1, ShiftNext
<1>4. ASSUME NEW x \in Timers, Pending(x)
      PROVE  left'[x] = left[x] - 1 /\ Dated(q, left', tick', x)
  <2> DEFINE d == left[x]
  <2>1. left'[x] = d - 1
    BY <1>1, <1>4
  <2>2. d \in Int /\ d <= Longest /\ d > - (Lag + Longest) /\ q.due[x] = Shift(tick, d)
    BY <1>1, <1>4, NotYetLate
  <2> HIDE DEF d
  <2>3. Longest \in Int /\ Lag \in Int /\ Half \in Int /\ TickMod \in Int /\ Longest + Lag < Half /\ 2 * Half + 1 <= TickMod
        /\ Lag >= 0 /\ Longest >= 1
    BY MaxFacts, TickFacts DEF Short
  <2>4. d \in Turn /\ d - 1 \in Turn /\ d - 1 \in - (Lag + Longest) .. Longest
    BY <2>2, <2>3 DEF Turn
  <2>5. Shift((tick + 1) % TickMod, d - 1) = Shift(tick, d)
    BY <1>1, <2>4, ShiftNext
  <2>6. Shift(tick', d - 1) = Shift(tick, d)
    BY <1>1, <2>5
  <2> QED BY <2>1, <2>2, <2>4, <2>6 DEF Dated, d
<1> QED BY <1>1, <1>2, <1>3, <1>4

LEMMA SortedOn ==
  ASSUME NEW S, NEW s \in Seq(S), NEW lf, NEW lg, Sorted(s, lf),
         \A x \in Range(s) : lf[x] \in Int /\ lg[x] = lf[x] - 1
  PROVE  Sorted(s, lg)
<1>1. DOMAIN s = 1 .. Len(s)
  BY LenProperties
<1>2. ASSUME NEW i \in 1 .. Len(s), NEW j \in 1 .. Len(s), i < j
      PROVE  lg[s[i]] <= lg[s[j]]
  <2>1. s[i] \in Range(s) /\ s[j] \in Range(s) /\ lf[s[i]] <= lf[s[j]]
    BY <1>1, <1>2 DEF Range, Sorted
  <2> DEFINE a == lf[s[i]]
             b == lf[s[j]]
  <2>2. a \in Int /\ b \in Int /\ a <= b /\ lg[s[i]] = a - 1 /\ lg[s[j]] = b - 1
    BY <2>1
  <2> HIDE DEF a, b
  <2> QED BY <2>2
<1> QED BY <1>2 DEF Sorted

(* A tick that was read becomes older.                                     *)
LEMMA AgesOn ==
  ASSUME TInductive, Short, TickIncrease, NEW x \in Range(q.soft), tt.at \notin Blocked, Aged(left, tick, tt.now, x)
  PROVE  Aged(left', tick', tt.now, x)
<1>1. x \in Timers /\ Pending(x)
  BY QElements DEF TInductive, OfLists, Pending, Linked
<1>2. tick \in Tick /\ tick' = (tick + 1) % TickMod /\ left'[x] = left[x] - 1
  BY <1>1, TicksOn
<1>3. PICK e \in 0 .. TickMod - 1 : tt.now = Shift(tick, - e) /\ left[x] + e <= Longest
  BY DEF Aged
<1>4. left[x] \in Int /\ left[x] > - Lag
  BY <1>1, TicksOn, NotYetLate
<1>5. Longest \in Int /\ Lag \in Int /\ Half \in Int /\ TickMod \in Int /\ Longest + Lag < Half /\ 2 * Half + 1 <= TickMod
      /\ Lag >= 0 /\ Longest >= 1
  BY MaxFacts, TickFacts DEF Short
<1>6. e + 1 \in 0 .. TickMod - 1 /\ - e \in Turn /\ (- e) - 1 \in Turn /\ (- e) - 1 = - (e + 1)
  BY <1>3, <1>4, <1>5 DEF Turn
<1>7. Shift((tick + 1) % TickMod, (- e) - 1) = Shift(tick, - e)
  BY <1>2, <1>6, ShiftNext
<1>8. tt.now = Shift(tick', - (e + 1))
  BY <1>2, <1>3, <1>6, <1>7
<1>9. left'[x] + (e + 1) <= Longest
  BY <1>2, <1>3, <1>4, <1>5
<1> QED BY <1>6, <1>8, <1>9 DEF Aged

LEMMA TickIncreaseKeeps ==
  ASSUME TInductive, Short, TickIncrease
  PROVE  TInductive'
<1>1. /\ clk.at = "off" /\ clk' = [clk EXCEPT !.at = "check"] /\ UNCHANGED <<q, tt, call>>
      /\ ListsSound /\ CallsSound /\ NodesSound /\ TtSound /\ CtlTyped
  BY DEF TickIncrease, TInductive, Interruptible
<1>2. /\ Waited /\ Interruptible /\ tick' \in Tick /\ left' \in [Timers -> Int]
      /\ \A x \in Timers : Pending(x) => left'[x] = left[x] - 1 /\ Dated(q, left', tick', x)
  BY TicksOn
<1>3. clk'.at = "check" /\ clk' \in [at : {"off", "check", "call"}, t : Hard \cup {End}]
  BY <1>1 DEF CtlTyped
<1>4. /\ Lag \in Int /\ Lag >= 0 /\ Longest \in Int /\ Longest >= 1
  BY TickFacts, MaxFacts
<1>5. /\ \A x \in OfLists(q) : x \in Timers /\ Pending(x)
      /\ \A x \in Timers : Inserting(x) => Pending(x)
  BY <1>1, QElements DEF OfLists, Pending, Linked, Inserting
<1>6. \A x \in Timers : Pending(x) =>
        /\ left[x] \in Int /\ left'[x] = left[x] - 1
        /\ x \in Range(q.soft) /\ tt.at \notin Blocked => left[x] > - Lag
        /\ x \in Range(q.hard) => left[x] >= - Lag
        /\ Inserting(x) => left[x] > - Lag
  BY <1>2, NotYetLate
<1>7. CtlTyped'
  BY <1>1, <1>3 DEF CtlTyped
<1>8. ListsSound'
  <2>1. QSound(q, left', tick')
    <3>1. /\ q \in Lists /\ q.hard \in Seq(Hard) /\ q.soft \in Seq(Soft) /\ Sorted(q.hard, left) /\ Sorted(q.soft, left)
          /\ IsInjective(q.hard) /\ IsInjective(q.soft)
      BY <1>1 DEF ListsSound, QSound, Lists
    <3>2. \A y \in OfLists(q) : left[y] \in Int /\ left'[y] = left[y] - 1
      BY <1>5, <1>6
    <3> DEFINE lg == left'
    <3>3. /\ \A y \in Range(q.hard) : left[y] \in Int /\ lg[y] = left[y] - 1
          /\ \A y \in Range(q.soft) : left[y] \in Int /\ lg[y] = left[y] - 1
      BY <3>2 DEF OfLists
    <3> HIDE DEF lg
    <3>4. Sorted(q.hard, lg)
      BY <3>1, <3>3, SortedOn
    <3>5. Sorted(q.soft, lg)
      BY <3>1, <3>3, SortedOn
    <3> QED BY <1>2, <1>5, <3>1, <3>4, <3>5 DEF QSound, lg
  <2>2. ASSUME NEW x \in Timers, Inserting(x)
        PROVE  Ready(q, left', tick', x)
    <3>1. left'[x] >= - Lag
      BY <1>4, <1>5, <1>6, <2>2
    <3>2. x \in Soft => q.due[x] # RtTickMax
      BY <1>1, <2>2 DEF ListsSound, Ready
    <3> QED BY <1>2, <1>5, <2>2, <3>1, <3>2 DEF Ready
  <2>3. \A x \in Range(q.hard) : left'[x] >= - Lag - 1
    <3>1. ASSUME NEW x \in Range(q.hard)
          PROVE  left'[x] >= - Lag - 1
      <4>1. left[x] \in Int /\ left'[x] = left[x] - 1 /\ left[x] >= - Lag
        BY <1>5, <1>6 DEF OfLists
      <4> QED BY <1>4, <4>1
    <3> QED BY <3>1
  <2>4. Fresh(clk') = - Lag - 1
    BY <1>3 DEF Fresh
  <2>5. \A x \in Timers : Inserting(x)' => Inserting(x)
    BY <1>1 DEF Inserting
  <2>6. \A x \in Range(q.soft) : q.due[x] # RtTickMax
    BY <1>1 DEF ListsSound
  <2> QED BY <1>1, <1>2, <2>1, <2>2, <2>3, <2>4, <2>5, <2>6 DEF ListsSound
<1>9. CallsSound'
  BY <1>1, <1>3 DEF CallsSound, Starting
<1>10. NodesSound'
  BY <1>1 DEF NodesSound
<1>11. ASSUME tt.at \notin Blocked, NEW x \in Range(q.soft)
       PROVE  left'[x] >= - Lag /\ (Aged(left, tick, tt.now, x) => Aged(left', tick', tt.now, x))
  <2>1. left[x] \in Int /\ left'[x] = left[x] - 1 /\ left[x] > - Lag
    BY <1>5, <1>6, <1>11 DEF OfLists
  <2> QED BY <1>4, <1>11, <2>1, AgesOn
<1>12. tt.at = "delayed" =>
       /\ Own \in Range(q.hard)
       /\ left'[Own] >= - 1
       /\ \A x \in Range(q.soft) : InTime(x)'
  <2> SUFFICES ASSUME tt.at = "delayed"
               PROVE  /\ Own \in Range(q.hard)
                      /\ left'[Own] >= - 1
                      /\ \A x \in Range(q.soft) : InTime(x)'
    OBVIOUS
  <2>1. Own \in Range(q.hard) /\ left[Own] >= 0 /\ \A x \in Range(q.soft) : InTime(x)
    BY <1>1 DEF TtSound
  <2>2. left[Own] \in Int /\ left'[Own] = left[Own] - 1
    BY <1>5, <1>6, <2>1 DEF OfLists
  <2>3. ASSUME NEW x \in Range(q.soft)
        PROVE  InTime(x)'
    <3>1. left[x] \in Int /\ left'[x] = left[x] - 1
      BY <1>5, <1>6 DEF OfLists
    <3>2. left[x] >= left[Own] - (Lag + Longest) /\ (left[Own] = 0 => left[x] >= - Lag)
      BY <1>1, <2>1 DEF InTime
    <3> DEFINE a == left'[x]
               b == left'[Own]
    <3>3. a = left[x] - 1 /\ b = left[Own] - 1
      BY <2>2, <3>1
    <3> HIDE DEF a, b
    <3>4. a >= b - (Lag + Longest) /\ (b < 0 => a >= - Lag - 1)
      BY <1>4, <2>1, <2>2, <3>1, <3>2, <3>3
    <3> QED BY <1>3, <3>4 DEF InTime, a, b
  <2> QED BY <1>4, <2>1, <2>2, <2>3
<1>13. TtSound'
  <2>1. tt.at = "nap" => tt.now \in 0 .. Longest /\ \A x \in Range(q.soft) : left'[x] >= - Lag
    BY <1>1, <1>11 DEF TtSound, Blocked
  <2>2. tt.at = "enter" => \A x \in Range(q.soft) : Aged(left', tick', tt.now, x)
    BY <1>1, <1>11 DEF TtSound, Blocked
  <2>3. tt.at \in {"check", "again"} /\ tt.n # End => Aged(left', tick', tt.now, tt.n)
    BY <1>1, <1>11 DEF TtSound, NodesSound, Blocked
  <2> QED BY <1>1, <1>3, <1>12, <2>1, <2>2, <2>3 DEF TtSound
<1> QED BY <1>7, <1>8, <1>9, <1>10, <1>13 DEF TInductive

(***************************************************************************)
(* The calls.                                                              *)
(***************************************************************************)
CallRecords == [at : {"idle", "stamp", "insert", "wake", "unlink", "clear"}, x : User \cup {End}]

(* What the state of a call must be like, whoever makes it.                *)
CallSound(c) ==
  /\ c \in CallRecords
  /\ c.at # "idle" => c.x \in User
  /\ c.at = "wake" => c.x \in Soft
  /\ c.at \in Placing => c.x \notin OfLists(q') /\ c.x \notin FromIsr
  /\ c.at = "insert" => Ready(q', left', tick', c.x)

GoesTo(p, c) == call' = [call EXCEPT ![p] = c]

LEMMA Goes ==
  ASSUME CtlTyped, NEW p \in Proc, NEW c, GoesTo(p, c)
  PROVE  call'[p] = c /\ \A o \in Proc : o # p => call'[o] = call[o]
BY DEF CtlTyped, GoesTo

LEMMA GotoGoes ==
  ASSUME CtlTyped, NEW p \in Proc, NEW l \in {"idle", "insert", "wake", "clear"}, Goto(p, l)
  PROVE  GoesTo(p, [at |-> l, x |-> IF l = "idle" THEN End ELSE call[p].x])
<1>1. call[p] \in CallRecords
  BY DEF CtlTyped, CallRecords
<1> DEFINE r == call[p]
<1>2. [r EXCEPT !.at = l] = [at |-> l, x |-> r.x]
  BY <1>1 DEF CallRecords
<1>3. call' = [call EXCEPT ![p] = IF l = "idle" THEN [at |-> l, x |-> End] ELSE [r EXCEPT !.at = l]]
  BY DEF Goto
<1>4. CASE l = "idle"
  BY <1>3, <1>4 DEF GoesTo
<1>5. CASE l # "idle"
  <2>1. call' = [call EXCEPT ![p] = [r EXCEPT !.at = l]]
    BY <1>3, <1>5
  <2>2. call' = [call EXCEPT ![p] = [at |-> l, x |-> r.x]]
    BY <1>2, <2>1
  <2> QED BY <1>5, <2>2 DEF GoesTo
<1> QED BY <1>4, <1>5

(* A call of the thread of lower priority.                                 *)
LEMMA CallerMoves ==
  ASSUME TInductive, NEW A, NEW B, Moves(A, B), A \subseteq User, B \subseteq User,
         Runs("caller"), UNCHANGED <<clk, tt>>,
         NEW c, GoesTo("caller", c), CallSound(c), c.at \in Placing => c.x \in FromThread,
         tt.at = "asleep" => \A x \in Range(q'.soft) : c.at = "wake" /\ c.x = x
  PROVE  TInductive'
<1>1. ListsSound /\ CallsSound /\ NodesSound /\ TtSound /\ CtlTyped
  BY DEF TInductive
<1>2. /\ tt.at \in {"asleep", "delayed"} /\ clk.at = "off" /\ tt.n = End /\ tt.t = End
      /\ call["tt"].at = "idle"
  BY <1>1 DEF Runs, Interruptible, Blocked, NodesSound, CallsSound
<1>3. call'["caller"] = c /\ call'["tt"] = call["tt"] /\ call["caller"] \in CallRecords
  BY <1>1, Goes DEF Proc, CtlTyped, CallRecords
<1>4. CtlTyped'
  BY <1>1 DEF CtlTyped, GoesTo, CallSound, CallRecords
<1>5. \A x : (Inserting(x)' => c.at = "insert" /\ c.x = x) /\ (Starting(x)' => c.at \in Placing /\ c.x = x)
  BY <1>2, <1>3 DEF Inserting, Starting, Proc, Placing
<1>6. ListsSound'
  <2>1. InsertsOn(A, B) /\ NotEnabled
    BY <1>2, <1>5 DEF InsertsOn, NotEnabled, CallSound
  <2> QED BY <1>1, <2>1, ListsMove
<1>7. CallsSound'
  <2>1. \A p \in Proc : (call'[p].at # "idle" => call'[p].x \in User) /\ (call'[p].at = "wake" => call'[p].x \in Soft)
    BY <1>2, <1>3 DEF CallSound, Proc
  <2>2. \A x \in Timers : Starting(x)' => x \notin OfLists(q') /\ x \notin FromIsr
    BY <1>5 DEF CallSound
  <2>3. call'["caller"].at \in Placing => call'["caller"].x \in FromThread /\ call'["caller"].x # tt'.t
    BY <1>2, <1>3, OwnKind DEF CallSound, Placing, User
  <2> QED BY <1>2, <1>3, <2>1, <2>2, <2>3 DEF CallsSound, Placing
<1>8. NodesSound'
  BY <1>2, <1>3 DEF NodesSound
<1>9. tt.at = "delayed" =>
       /\ Own \in Range(q'.hard)
       /\ left'[Own] >= 0
       /\ \A x \in Range(q'.soft) : InTime(x)'
  <2> SUFFICES ASSUME tt.at = "delayed"
               PROVE  /\ Own \in Range(q'.hard)
                      /\ left'[Own] >= 0
                      /\ \A x \in Range(q'.soft) : InTime(x)'
    OBVIOUS
  <2>1. Own \in Range(q.hard) /\ left[Own] >= 0 /\ \A x \in Range(q.soft) : InTime(x)
    BY <1>1, <1>2 DEF TtSound
  <2>2. Own \notin A /\ Own \notin B /\ Own \in Timers
    BY OwnKind
  <2>3. Own \in Range(q'.hard) /\ left'[Own] = left[Own]
    BY <2>1, <2>2 DEF Moves, Moved
  <2>4. left[Own] \in Int /\ left[Own] <= Longest
    <3>1. Dated(q, left, tick, Own)
      BY <1>1, <2>1 DEF ListsSound, QSound, OfLists
    <3> QED BY <3>1, TickFacts, MaxFacts DEF Dated
  <2>5. ASSUME NEW x \in Range(q'.soft)
        PROVE  InTime(x)'
    <3>1. x \in Timers /\ left'[x] \in Int /\ Lag \in Int /\ Lag >= 0 /\ Longest \in Int
      BY QElementsNext, TickFacts, MaxFacts DEF OfLists, Moves
    <3>2. CASE x \in B
      <4>1. left'[x] >= - Lag
        BY <3>2 DEF Moves
      <4> DEFINE a == left'[x]
                 b == left'[Own]
      <4>2. a \in Int /\ b = left[Own] /\ a >= - Lag
        BY <2>3, <3>1, <4>1
      <4> HIDE DEF a, b
      <4>3. a >= b - (Lag + Longest) /\ a >= - Lag - 1 /\ a >= - Lag
        BY <2>4, <3>1, <4>2
      <4> QED BY <4>3 DEF InTime, a, b
    <3>3. CASE x \notin B
      <4>1. x \in Range(q.soft) /\ x \notin A
        BY <3>3 DEF Moves, Moved
      <4>2. left'[x] = left[x] /\ InTime(x)
        BY <2>1, <3>1, <3>3, <4>1 DEF Moves
      <4> QED BY <2>3, <4>2 DEF InTime
    <3> QED BY <3>2, <3>3
  <2> QED BY <2>1, <2>3, <2>5
<1>10. TtSound'
  BY <1>2, <1>3, <1>9 DEF TtSound
<1> QED BY <1>4, <1>6, <1>7, <1>8, <1>10 DEF TInductive

(* The three parts of rt_timer_start.                                      *)
LEMMA BegunMoves ==
  ASSUME TInductive, NEW p \in Proc, NEW x \in User, Begun(p, x), tick' = tick
  PROVE  Moves({x}, {}) /\ x \notin OfLists(q') /\ GoesTo(p, [at |-> "stamp", x |-> x])
<1>1. /\ q' = Deactivated(Unlinked(q, x, tt.n), x) /\ left' = [left EXCEPT ![x] = 0]
      /\ GoesTo(p, [at |-> "stamp", x |-> x]) /\ ListsSound /\ x \in Timers
  BY DEF Begun, Removed, GoesTo, TInductive, User
<1>2. left' \in [Timers -> Int] /\ SetTo(left', left, x, 0) /\ Elsewhere(left', left, x)
  <2>1. 0 \in Int
    OBVIOUS
  <2> QED BY <1>1, <2>1, LeftSet
<1> QED BY <1>1, <1>2, Leaves

LEMMA StampMoves ==
  ASSUME TInductive, Short, Disciplined, NEW p \in Proc, StartStamp(p), NEW x, x = call[p].x
  PROVE  /\ Moves({x}, {}) /\ x \in User /\ x \notin OfLists(q') /\ Ready(q', left', tick', x)
         /\ Starting(x) /\ GoesTo(p, [at |-> "insert", x |-> x])
<1>1. /\ call[p].at = "stamp" /\ ~ Avoided(x) /\ q' = Stamped(q, x, q.init[x])
      /\ left' = [left EXCEPT ![x] = q.init[x]] /\ tick' = tick /\ Goto(p, "insert")
      /\ ListsSound /\ CallsSound /\ CtlTyped
  BY DEF StartStamp, At, TInductive
<1>2. x \in User /\ x \in Timers /\ Starting(x)
  BY <1>1 DEF CallsSound, Starting, Placing, User
<1>3. x \notin OfLists(q)
  BY <1>1, <1>2 DEF CallsSound
<1> DEFINE n == q.init[x]
<1>4. n \in 0 .. Longest /\ n \in Int
  BY <1>1, <1>2, TimesFacts, MaxFacts
<1>5. q' = Stamped(q, x, n) /\ left' = [left EXCEPT ![x] = n]
  BY <1>1
<1>6. AvoidsMax /\ (x \in Soft => (tick + n) % TickMod # RtTickMax)
  BY <1>1 DEF Avoided, Disciplined
<1> HIDE DEF n
<1>7. left' \in [Timers -> Int] /\ SetTo(left', left, x, n) /\ Elsewhere(left', left, x)
  BY <1>1, <1>2, <1>4, <1>5, LeftSet
<1> DEFINE u == q'
           lg == left'
<1>8. tick \in Tick /\ QSound(q, left, tick) /\ u = Stamped(q, x, n) /\ SetTo(lg, left, x, n)
  BY <1>1, <1>5, <1>7 DEF ListsSound
<1> HIDE DEF u, lg
<1>9. StampedTo(u, q, lg, x, n)
  BY <1>2, <1>3, <1>4, <1>8, StampedSound
<1>10. StampedTo(q', q, left', x, n)
  BY <1>9 DEF u, lg
<1>11. Moves({x}, {}) /\ x \notin OfLists(q')
  BY <1>1, <1>3, <1>7, <1>10 DEF Moves, StampedTo, Elsewhere
<1>12. left'[x] >= - Lag
  BY <1>4, <1>7, TickFacts, MaxFacts DEF SetTo
<1>13. Ready(q', left', tick', x)
  BY <1>1, <1>6, <1>10, <1>12 DEF Ready, StampedTo
<1>14. GoesTo(p, [at |-> "insert", x |-> x])
  BY <1>1, GotoGoes
<1> QED BY <1>2, <1>11, <1>13, <1>14

LEMMA InsertMoves ==
  ASSUME TInductive, Short, NEW p \in Proc, StartInsert(p), NEW x, x = call[p].x
  PROVE  /\ Moves({}, {x}) /\ x \in User /\ Starting(x)
         /\ GoesTo(p, IF x \in Soft THEN [at |-> "wake", x |-> x] ELSE [at |-> "idle", x |-> End])
<1>1. /\ call[p].at = "insert" /\ q' = Inserted(q, x)
      /\ left' = left /\ tick' = tick /\ Goto(p, IF x \in Soft THEN "wake" ELSE "idle")
      /\ ListsSound /\ CallsSound /\ CtlTyped
  BY DEF StartInsert, At, TInductive
<1>2. x \in User /\ x \in Timers /\ Starting(x) /\ Inserting(x)
  BY <1>1 DEF CallsSound, Starting, Inserting, Placing, User
<1>3. x \notin OfLists(q) /\ Ready(q, left, tick, x)
  BY <1>1, <1>2 DEF CallsSound, ListsSound
<1>4. left \in [Timers -> Int] /\ tick \in Tick /\ QSound(q, left, tick)
  BY <1>1 DEF ListsSound
<1> DEFINE u == q'
<1>5. u = Inserted(q, x) /\ Dated(q, left, tick, x) /\ left[x] >= - Lag
  BY <1>1, <1>3 DEF Ready
<1> HIDE DEF u
<1>6. InsertedTo(u, q, left, tick, x)
  BY <1>2, <1>3, <1>4, <1>5, InsertedSound
<1>7. Moves({}, {x})
  BY <1>1, <1>3, <1>4, <1>6 DEF Moves, InsertedTo, Ready, u
<1>8. GoesTo(p, IF x \in Soft THEN [at |-> "wake", x |-> x] ELSE [at |-> "idle", x |-> End])
  <2>1. CASE x \in Soft
    <3>1. Goto(p, "wake")
      BY <1>1, <2>1
    <3>2. GoesTo(p, [at |-> "wake", x |-> IF "wake" = "idle" THEN End ELSE call[p].x])
      BY <1>1, <3>1, GotoGoes
    <3> QED BY <2>1, <3>2
  <2>2. CASE x \notin Soft
    <3>1. Goto(p, "idle")
      BY <1>1, <2>2
    <3>2. GoesTo(p, [at |-> "idle", x |-> IF "idle" = "idle" THEN End ELSE call[p].x])
      BY <1>1, <3>1, GotoGoes
    <3> QED BY <2>2, <3>2
  <2> QED BY <2>1, <2>2
<1> QED BY <1>2, <1>7, <1>8

(* The three parts of rt_timer_stop.                                       *)
LEMMA UnlinkMoves ==
  ASSUME TInductive, NEW p \in Proc, StopUnlink(p), NEW x, x = call[p].x
  PROVE  Moves({x}, {}) /\ x \in User /\ GoesTo(p, [at |-> "clear", x |-> x])
<1>1. /\ call[p].at = "unlink" /\ q' = Unlinked(q, x, tt.n) /\ left' = [left EXCEPT ![x] = 0]
      /\ tick' = tick /\ Goto(p, "clear") /\ ListsSound /\ CallsSound /\ CtlTyped
  BY DEF StopUnlink, At, TInductive, Removed
<1>2. x \in User /\ x \in Timers
  BY <1>1 DEF CallsSound, User
<1>3. left' \in [Timers -> Int] /\ SetTo(left', left, x, 0) /\ Elsewhere(left', left, x)
  <2>1. 0 \in Int
    OBVIOUS
  <2> QED BY <1>1, <1>2, <2>1, LeftSet
<1>4. Moves({x}, {})
  BY <1>1, <1>2, <1>3, Leaves
<1>5. GoesTo(p, [at |-> "clear", x |-> x])
  BY <1>1, GotoGoes
<1> QED BY <1>2, <1>4, <1>5

LEMMA StopMoves ==
  ASSUME TInductive, NEW p \in Proc, NEW x \in User, StopBegin(p, x)
  PROVE  Moves({}, {}) /\ GoesTo(p, [at |-> "unlink", x |-> x]) /\ q' = q
BY NoneMoves DEF StopBegin, GoesTo, TInductive

LEMMA ClearMoves ==
  ASSUME TInductive, NEW p \in Proc, StopClear(p)
  PROVE  /\ Moves({}, {}) /\ GoesTo(p, [at |-> "idle", x |-> End])
         /\ q'.soft = q.soft /\ q'.due = q.due /\ q'.hard = q.hard
<1>1. /\ q' = Deactivated(q, call[p].x) /\ UNCHANGED <<tick, left>> /\ Goto(p, "idle") /\ ListsSound /\ CtlTyped
  BY DEF StopClear, TInductive
<1>2. Moves({}, {}) /\ q'.soft = q.soft /\ q'.due = q.due /\ q'.hard = q.hard
  BY <1>1, NoneMoves
<1>3. GoesTo(p, [at |-> "idle", x |-> End])
  BY <1>1, GotoGoes
<1> QED BY <1>2, <1>3

(* While the timer thread sleeps without a timeout, the thread that links  *)
(* a soft timer is the one that wakes it.                                  *)
LEMMA OnlyLinked ==
  ASSUME TInductive, NEW A, NEW B, Moves(A, B), tt.at = "asleep", call["caller"].at # "wake", NEW x \in Range(q'.soft)
  PROVE  x \in B
BY DEF TInductive, TtSound, Moves, Moved

LEMMA CallerStepsKeep ==
  ASSUME TInductive, Short, Disciplined,
         NEW x \in User, \/ StartBegin("caller", x) \/ StopBegin("caller", x) \/ Renew(x)
                         \/ StartStamp("caller") \/ StartInsert("caller")
                         \/ StopUnlink("caller") \/ StopClear("caller")
  PROVE  TInductive'
<1> DEFINE p == "caller"
           y == call[p].x
<1>1. p \in Proc /\ call[p] \in CallRecords /\ CallsSound /\ ListsSound /\ NodesSound
  BY DEF Proc, TInductive, CtlTyped, CallRecords
<1>2. \A z \in User : z \in FromThread => z \notin FromIsr
  BY DEF Disciplined
<1>3. Starting(y) /\ call[p].at \in Placing => y \in FromThread
  BY <1>1 DEF CallsSound
<1>4. CASE StartBegin(p, x)
  <2> DEFINE c == [at |-> "stamp", x |-> x]
  <2>1. Begun(p, x) /\ Runs(p) /\ UNCHANGED <<tick, clk, tt>> /\ x \in FromThread /\ call[p].at = "idle"
    BY <1>4 DEF StartBegin, Free
  <2>2. Moves({x}, {}) /\ x \notin OfLists(q') /\ GoesTo(p, c)
    BY <1>1, <2>1, BegunMoves
  <2>3. CallSound(c) /\ (c.at \in Placing => c.x \in FromThread)
    BY <1>2, <2>1, <2>2 DEF CallSound, CallRecords
  <2>4. tt.at = "asleep" => \A z \in Range(q'.soft) : c.at = "wake" /\ c.x = z
    BY <2>1, <2>2, OnlyLinked
  <2>5. {x} \subseteq User /\ {} \subseteq User
    OBVIOUS
  <2> HIDE DEF c
  <2> QED BY <2>1, <2>2, <2>3, <2>4, <2>5, CallerMoves
<1>5. CASE StopBegin(p, x)
  <2> DEFINE c == [at |-> "unlink", x |-> x]
  <2>1. Runs(p) /\ UNCHANGED <<clk, tt>> /\ call[p].at = "idle"
    BY <1>5 DEF StopBegin, Free
  <2>2. Moves({}, {}) /\ GoesTo(p, c)
    BY <1>1, <1>5, StopMoves
  <2>3. CallSound(c) /\ (c.at \in Placing => c.x \in FromThread)
    BY DEF CallSound, CallRecords, Placing
  <2>4. tt.at = "asleep" => \A z \in Range(q'.soft) : c.at = "wake" /\ c.x = z
    BY <2>1, <2>2, OnlyLinked
  <2>5. {} \subseteq User
    OBVIOUS
  <2> HIDE DEF c
  <2> QED BY <2>1, <2>2, <2>3, <2>4, <2>5, CallerMoves
<1>6. CASE Renew(x)
  <2> DEFINE c == [at |-> "idle", x |-> End]
             r == Deactivated(Unlinked(q, x, tt.n), x)
  <2>1. /\ Runs(p) /\ UNCHANGED <<tick, clk, tt, call>> /\ call[p].at = "idle" /\ x \in Timers
        /\ q' = [r EXCEPT !.due[x] = 0] /\ left' = [left EXCEPT ![x] = 0]
    BY <1>6 DEF Renew, Free, Removed, User
  <2>2. left' \in [Timers -> Int] /\ SetTo(left', left, x, 0) /\ Elsewhere(left', left, x)
    <3>1. 0 \in Int
      OBVIOUS
    <3> QED BY <1>1, <2>1, <3>1, LeftSet
  <2>3. q' = r
    <3>1. QSound(q, left, tick) /\ Elsewhere(left', left, x)
      BY <1>1, <2>2 DEF ListsSound
    <3>2. StoppedTo(r, q, left', tick, x)
      <4> DEFINE lg == left'
      <4>1. r = Deactivated(Unlinked(q, x, tt.n), x) /\ Elsewhere(lg, left, x)
        BY <3>1
      <4> HIDE DEF r, lg
      <4>2. StoppedTo(r, q, lg, tick, x)
        BY <2>1, <3>1, <4>1, StoppedSound
      <4> QED BY <4>2 DEF lg
    <3>3. r \in Lists
      BY <3>2 DEF StoppedTo, QSound
    <3>4. tt.n = End /\ x # End
      BY <1>1, <2>1, OwnKind DEF NodesSound, Runs, Blocked
    <3>5. r.due[x] = 0
      BY <1>1, <2>1, <3>1, <3>4 DEF Deactivated, Unlinked, QSound, Lists
    <3> HIDE DEF r
    <3>6. [r.due EXCEPT ![x] = 0] = r.due
      BY <2>1, <3>3, <3>5 DEF Lists
    <3> QED BY <2>1, <3>3, <3>6 DEF Lists
  <2> HIDE DEF r
  <2>4. Moves({x}, {})
    <3>1. q' = Deactivated(Unlinked(q, x, tt.n), x)
      BY <2>3 DEF r
    <3> QED BY <1>1, <2>1, <2>2, <3>1, Leaves
  <2>5. GoesTo(p, call[p])
    BY <1>1, <2>1 DEF GoesTo, TInductive, CtlTyped
  <2>6. CallSound(call[p]) /\ (call[p].at \in Placing => call[p].x \in FromThread)
    BY <1>1, <2>1 DEF CallSound, Placing
  <2>7. tt.at = "asleep" => \A z \in Range(q'.soft) : call[p].at = "wake" /\ call[p].x = z
    BY <2>1, <2>4, OnlyLinked
  <2>8. {x} \subseteq User /\ {} \subseteq User
    OBVIOUS
  <2> QED BY <2>1, <2>4, <2>5, <2>6, <2>7, <2>8, CallerMoves
<1>7. CASE StartStamp(p)
  <2> DEFINE c == [at |-> "insert", x |-> y]
  <2>1. Runs(p) /\ UNCHANGED <<clk, tt>> /\ call[p].at = "stamp"
    BY <1>7 DEF StartStamp, At
  <2>2. Moves({y}, {}) /\ y \in User /\ y \notin OfLists(q') /\ Ready(q', left', tick', y) /\ Starting(y) /\ GoesTo(p, c)
    BY <1>1, <1>7, StampMoves
  <2>3. CallSound(c) /\ (c.at \in Placing => c.x \in FromThread)
    BY <1>2, <1>3, <2>1, <2>2 DEF CallSound, CallRecords, Placing
  <2>4. tt.at = "asleep" => \A z \in Range(q'.soft) : c.at = "wake" /\ c.x = z
    BY <2>1, <2>2, OnlyLinked
  <2>5. {y} \subseteq User /\ {} \subseteq User
    BY <2>2
  <2> HIDE DEF c
  <2> QED BY <2>1, <2>2, <2>3, <2>4, <2>5, CallerMoves
<1>8. CASE StartInsert(p)
  <2> DEFINE c == IF y \in Soft THEN [at |-> "wake", x |-> y] ELSE [at |-> "idle", x |-> End]
  <2>1. Runs(p) /\ UNCHANGED <<clk, tt>> /\ call[p].at = "insert"
    BY <1>8 DEF StartInsert, At
  <2>2. Moves({}, {y}) /\ y \in User /\ GoesTo(p, c)
    BY <1>1, <1>8, InsertMoves
  <2>3. CallSound(c) /\ (c.at \in Placing => c.x \in FromThread)
    BY <2>2 DEF CallSound, CallRecords, Placing
  <2>4. tt.at = "asleep" => \A z \in Range(q'.soft) : c.at = "wake" /\ c.x = z
    <3> SUFFICES ASSUME tt.at = "asleep", NEW z \in Range(q'.soft)
                 PROVE  c.at = "wake" /\ c.x = z
      OBVIOUS
    <3>1. z = y
      BY <2>1, <2>2, OnlyLinked
    <3>2. z \in Soft
      BY <2>2, QElementsNext
    <3> QED BY <3>1, <3>2
  <2>5. {y} \subseteq User /\ {} \subseteq User
    BY <2>2
  <2> HIDE DEF c
  <2> QED BY <2>1, <2>2, <2>3, <2>4, <2>5, CallerMoves
<1>9. CASE StopUnlink(p)
  <2> DEFINE c == [at |-> "clear", x |-> y]
  <2>1. Runs(p) /\ UNCHANGED <<clk, tt>> /\ call[p].at = "unlink"
    BY <1>9 DEF StopUnlink, At
  <2>2. Moves({y}, {}) /\ y \in User /\ GoesTo(p, c)
    BY <1>1, <1>9, UnlinkMoves
  <2>3. CallSound(c) /\ (c.at \in Placing => c.x \in FromThread)
    BY <2>2 DEF CallSound, CallRecords, Placing
  <2>4. tt.at = "asleep" => \A z \in Range(q'.soft) : c.at = "wake" /\ c.x = z
    BY <2>1, <2>2, OnlyLinked
  <2>5. {y} \subseteq User /\ {} \subseteq User
    BY <2>2
  <2> HIDE DEF c
  <2> QED BY <2>1, <2>2, <2>3, <2>4, <2>5, CallerMoves
<1>10. CASE StopClear(p)
  <2> DEFINE c == [at |-> "idle", x |-> End]
  <2>1. Runs(p) /\ UNCHANGED <<clk, tt>> /\ call[p].at = "clear"
    BY <1>10 DEF StopClear, At
  <2>2. Moves({}, {}) /\ GoesTo(p, c)
    BY <1>1, <1>10, ClearMoves
  <2>3. CallSound(c) /\ (c.at \in Placing => c.x \in FromThread)
    BY DEF CallSound, CallRecords, Placing
  <2>4. tt.at = "asleep" => \A z \in Range(q'.soft) : c.at = "wake" /\ c.x = z
    BY <2>1, <2>2, OnlyLinked
  <2>5. {} \subseteq User
    OBVIOUS
  <2> HIDE DEF c
  <2> QED BY <2>1, <2>2, <2>3, <2>4, <2>5, CallerMoves
<1> QED BY <1>4, <1>5, <1>6, <1>7, <1>8, <1>9, <1>10

(* The thread of lower priority wakes the timer thread: its own timer, if  *)
(* it runs, is stopped.                                                    *)
LEMMA CallerWakesKeeps ==
  ASSUME TInductive, StartWake("caller")
  PROVE  TInductive'
<1> DEFINE p == "caller"
<1>1. /\ tt.at \in Blocked /\ q' = Woken(q) /\ Wake /\ UNCHANGED <<tick, clk, left>> /\ call[p].at = "wake"
      /\ Goto(p, "idle") /\ p \in Proc /\ ListsSound /\ CtlTyped /\ CallsSound
  BY DEF StartWake, At, Runs, Proc, TInductive
<1>2. tt' = [tt EXCEPT !.at = "begin"] /\ NotEnabled /\ clk' = clk
  BY <1>1 DEF Wake, NotEnabled
<1>3. GoesTo(p, [at |-> "idle", x |-> IF "idle" = "idle" THEN End ELSE call[p].x])
  BY <1>1, GotoGoes
<1>4. call' = [call EXCEPT ![p] = [at |-> "idle", x |-> End]]
  BY <1>3 DEF GoesTo
<1>5. /\ clk' \in [at : {"off", "check", "call"}, t : Hard \cup {End}]
      /\ clk'.at = "call" => clk'.t \in Hard /\ ~ Starting(clk'.t)
  BY <1>1, <1>2 DEF CtlTyped, CallsSound
<1>6. Own \in Hard /\ Own \in Timers /\ ~ Starting(Own)
  BY <1>1, OwnKind DEF CallsSound, Starting, Placing
<1>7. Moves({Own}, {}) \/ Moves({}, {})
  <2>1. CASE Own \in q.on
    <3>1. q' = Deactivated(Unlinked(q, Own, tt.n), Own)
      BY <1>1, <2>1 DEF Woken, Stopped, Removed
    <3>2. left' \in [Timers -> Int] /\ Elsewhere(left', left, Own)
      BY <1>1 DEF ListsSound, Elsewhere
    <3> QED BY <1>1, <1>6, <3>1, <3>2, Leaves
  <2>2. CASE Own \notin q.on
    BY <1>1, <2>2, NoneMoves DEF Woken
  <2> QED BY <2>1, <2>2
<1>8. CASE Moves({Own}, {})
  <2>1. {Own} \subseteq Hard /\ {} \subseteq Hard /\ \A x \in Timers : x \in {Own} \/ x \in {} => ~ Starting(x)
    BY <1>6
  <2> QED BY <1>1, <1>2, <1>4, <1>5, <1>8, <2>1, AwakeKeeps
<1>9. CASE Moves({}, {})
  <2>1. {} \subseteq Hard /\ \A x \in Timers : x \in {} \/ x \in {} => ~ Starting(x)
    OBVIOUS
  <2> QED BY <1>1, <1>2, <1>4, <1>5, <1>9, <2>1, AwakeKeeps
<1> QED BY <1>7, <1>8, <1>9

(* A call of the timer thread for a callback, or for a periodic timer.     *)
LEMMA ThreadLists ==
  ASSUME TInductive, NEW A, NEW B, Moves(A, B), Runs("tt"), clk' = clk,
         NEW c, GoesTo("tt", c), CallSound(c),
         call["caller"].at \in Placing => call["caller"].x \notin A /\ call["caller"].x \notin B
                                          /\ (c.at \in Placing => c.x # call["caller"].x)
                                          /\ call["caller"].x # tt'.t,
         c.at # "idle" => tt'.at \in {"fire", "check"},
         c.at \in {"unlink", "clear"} => tt'.at = "fire" /\ c.x = tt'.t
  PROVE  ListsSound' /\ CallsSound' /\ call' \in [Proc -> CallRecords] /\ call'["tt"] = c
<1>1. ListsSound /\ CallsSound /\ CtlTyped /\ clk.at = "off"
  BY DEF TInductive, Runs, Interruptible
<1>2. call'["tt"] = c /\ call'["caller"] = call["caller"] /\ call["caller"] \in CallRecords
  BY <1>1, Goes DEF Proc, CtlTyped, CallRecords
<1>3. call' \in [Proc -> CallRecords]
  BY <1>1 DEF CtlTyped, GoesTo, CallSound, CallRecords
<1>4. \A x : /\ Inserting(x)' => (c.at = "insert" /\ c.x = x) \/ (call["caller"].at = "insert" /\ call["caller"].x = x)
             /\ Starting(x)' => (c.at \in Placing /\ c.x = x) \/ (call["caller"].at \in Placing /\ call["caller"].x = x)
             /\ call["caller"].at = "insert" /\ call["caller"].x = x => Inserting(x)
             /\ call["caller"].at \in Placing /\ call["caller"].x = x => Starting(x)
  BY <1>2 DEF Inserting, Starting, Proc
<1>5. ListsSound'
  <2>1. InsertsOn(A, B) /\ NotEnabled
    BY <1>1, <1>4 DEF InsertsOn, NotEnabled, CallSound, Placing
  <2> QED BY <1>1, <2>1, ListsMove
<1>6. CallsSound'
  <2>1. \A p \in Proc : (call'[p].at # "idle" => call'[p].x \in User) /\ (call'[p].at = "wake" => call'[p].x \in Soft)
    BY <1>1, <1>2 DEF CallSound, Proc, CallsSound
  <2>2. ASSUME NEW x \in Timers, Starting(x)'
        PROVE  x \notin OfLists(q') /\ x \notin FromIsr
    <3>1. CASE c.at \in Placing /\ c.x = x
      BY <3>1 DEF CallSound
    <3>2. CASE call["caller"].at \in Placing /\ call["caller"].x = x
      <4>1. x \notin OfLists(q) /\ x \notin FromIsr /\ x \notin B
        BY <1>1, <1>4, <3>2 DEF CallsSound
      <4> QED BY <4>1 DEF Moves, Moved, OfLists
    <3> QED BY <1>4, <2>2, <3>1, <3>2
  <2>3. call["caller"].at \in Placing => call["caller"].x \in FromThread
    BY <1>1 DEF CallsSound
  <2> QED BY <1>1, <1>2, <2>1, <2>2, <2>3 DEF CallsSound
<1> QED BY <1>2, <1>3, <1>5, <1>6

LEMMA ThreadMoves ==
  ASSUME TInductive, NEW x, NEW A \in {{}, {x}}, NEW B \in {{}, {x}}, Moves(A, B),
         Runs("tt"), UNCHANGED <<clk, tt>>, tt.at \in {"fire", "check"},
         NEW c, GoesTo("tt", c), CallSound(c),
         call["caller"].at \in Placing => call["caller"].x # x,
         call["tt"].at \in Placing => call["tt"].x = x, c.at # "idle" => c.x = x, tt.at = "check" => x # tt.n,
         c.at \in {"unlink", "clear"} => tt.at = "fire" /\ c.x = tt.t,
         tt.at = "fire" /\ x = tt.n /\ tt.n # End => c.at \in Placing \/ x \in Range(q'.soft)
  PROVE  TInductive'
<1>1. NodesSound /\ TtSound /\ CallsSound /\ ListsSound /\ CtlTyped /\ tt' = tt /\ tick' = tick
  BY DEF TInductive, Moves
<1>2. call["caller"].at \in Placing => call["caller"].x \notin A /\ call["caller"].x \notin B
                                       /\ (c.at \in Placing => c.x # call["caller"].x)
                                       /\ call["caller"].x # tt'.t
  BY <1>1 DEF CallsSound, Placing
<1>3. ListsSound' /\ CallsSound' /\ call' \in [Proc -> CallRecords] /\ call'["tt"] = c
  BY <1>1, <1>2, ThreadLists
<1>4. CtlTyped'
  BY <1>1, <1>3 DEF CtlTyped, CallRecords
<1>5. tt.n \in Range(q.soft) /\ tt.n # x => tt.n \in Range(q'.soft) /\ left'[tt.n] = left[tt.n]
  BY <1>1, QElements DEF Moves, Moved, OfLists
<1>6. NodesSound'
  <2>1. tt.n # End =>
          \/ tt.n \in Range(q'.soft)
          \/ tt.at = "fire" /\ c.at \in Placing /\ c.x = tt.n
    <3>1. CASE tt.n = x
      BY <1>1, <3>1 DEF Placing
    <3>2. CASE tt.n # x
      <4>1. tt.n # End => tt.n \in Range(q.soft) \/ (tt.at = "fire" /\ call["tt"].at \in Placing /\ call["tt"].x = tt.n)
        BY <1>1 DEF NodesSound
      <4> QED BY <1>5, <3>2, <4>1
    <3> QED BY <3>1, <3>2
  <2> QED BY <1>1, <1>3, <2>1 DEF NodesSound
<1>7. TtSound'
  <2>1. tt.at = "check" /\ tt.n # End => Aged(left', tick', tt.now, tt.n)
    <3> SUFFICES ASSUME tt.at = "check", tt.n # End
                 PROVE  Aged(left', tick', tt.now, tt.n)
      OBVIOUS
    <3>1. tt.n \in Range(q.soft) /\ tt.n # x /\ Aged(left, tick, tt.now, tt.n)
      BY <1>1 DEF NodesSound, TtSound
    <3> QED BY <1>1, <1>5, <3>1 DEF Aged
  <2> QED BY <1>1, <2>1 DEF TtSound
<1> QED BY <1>3, <1>4, <1>6, <1>7 DEF TInductive

LEMMA ThreadStepsKeep ==
  ASSUME TInductive, Short, Disciplined,
         NEW x \in User, \/ StartBegin("tt", x) \/ StopBegin("tt", x)
                         \/ StartStamp("tt") \/ StartInsert("tt") \/ StartWake("tt")
                         \/ StopUnlink("tt") \/ StopClear("tt")
  PROVE  TInductive'
<1> DEFINE p == "tt"
           y == call[p].x
<1>1. p \in Proc /\ "caller" \in Proc /\ call[p] \in CallRecords /\ CallsSound /\ ListsSound /\ NodesSound /\ CtlTyped
  BY DEF Proc, TInductive, CtlTyped, CallRecords
<1>2. /\ tt.n \in Soft \cup {End} /\ (tt.at = "fire" => tt.t \in Soft /\ tt.n # tt.t)
      /\ Own \notin User /\ Own \notin Soft /\ Own # End
  BY <1>1, OwnKind DEF CtlTyped, NodesSound
<1>3. call[p].at # "idle" => tt.at \in {"fire", "check"}
  BY <1>1 DEF CallsSound
<1>4. /\ call["caller"].at \in Placing => call["caller"].x \in FromThread /\ call["caller"].x # tt.t /\ call["caller"].x # Own
      /\ call["caller"].at \in Placing /\ call[p].at \in Placing => call["caller"].x # y
  BY <1>1, <1>2 DEF CallsSound, Placing
<1>5. tt.at = "check" /\ call[p].at # "idle" => y # tt.n
  BY <1>1 DEF NodesSound
<1>6. CASE StartBegin(p, x)
  <2> DEFINE c == [at |-> "stamp", x |-> x]
  <2>1. /\ Begun(p, x) /\ Runs(p) /\ UNCHANGED <<tick, clk, tt>> /\ x \in FromCallback \cup {tt.t} /\ call[p].at = "idle"
        /\ tt.at = "fire"
    BY <1>6 DEF StartBegin, Free
  <2>2. Moves({x}, {}) /\ x \notin OfLists(q') /\ GoesTo(p, c)
    BY <1>1, <2>1, BegunMoves
  <2>3. x \notin FromIsr /\ (call["caller"].at \in Placing => call["caller"].x # x)
    BY <1>2, <1>4, <2>1 DEF Disciplined
  <2>4. CallSound(c)
    BY <2>2, <2>3 DEF CallSound, CallRecords
  <2>5. {x} \in {{}, {x}} /\ {} \in {{}, {x}} /\ (c.at # "idle" => c.x = x) /\ c.at \in Placing /\ c.at \notin {"unlink", "clear"}
        /\ (call["tt"].at \in Placing => call["tt"].x = x)
    BY <2>1 DEF Placing
  <2> HIDE DEF c
  <2> QED BY <2>1, <2>2, <2>3, <2>4, <2>5, ThreadMoves
<1>7. CASE StopBegin(p, x)
  <2> DEFINE c == [at |-> "unlink", x |-> x]
  <2>1. /\ Runs(p) /\ UNCHANGED <<clk, tt>> /\ call[p].at = "idle" /\ tt.at = "fire" /\ x = tt.t
    BY <1>7 DEF StopBegin, Free, Disciplined
  <2>2. Moves({}, {}) /\ GoesTo(p, c)
    BY <1>1, <1>7, StopMoves
  <2>3. CallSound(c)
    BY DEF CallSound, CallRecords, Placing
  <2>4. {} \in {{}, {x}} /\ (c.at # "idle" => c.x = x) /\ c.x = tt.t /\ (call["tt"].at \in Placing => call["tt"].x = x)
        /\ tt.n # x /\ (call["caller"].at \in Placing => call["caller"].x # x)
    BY <1>2, <1>4, <2>1 DEF Placing
  <2> HIDE DEF c
  <2> QED BY <2>1, <2>2, <2>3, <2>4, ThreadMoves
<1>8. CASE StartStamp(p)
  <2> DEFINE c == [at |-> "insert", x |-> y]
  <2>1. Runs(p) /\ UNCHANGED <<clk, tt>> /\ call[p].at = "stamp"
    BY <1>8 DEF StartStamp, At
  <2>2. Moves({y}, {}) /\ y \in User /\ y \notin OfLists(q') /\ Ready(q', left', tick', y) /\ Starting(y) /\ GoesTo(p, c)
    BY <1>1, <1>8, StampMoves
  <2>3. CallSound(c)
    <3>1. y \notin FromIsr
      BY <1>1, <2>2 DEF CallsSound, User
    <3> QED BY <2>2, <3>1 DEF CallSound, CallRecords
  <2>4. {y} \in {{}, {y}} /\ {} \in {{}, {y}} /\ (c.at # "idle" => c.x = y) /\ c.at \in Placing /\ c.at \notin {"unlink", "clear"}
        /\ (call["caller"].at \in Placing => call["caller"].x # y) /\ tt.at \in {"fire", "check"}
        /\ (tt.at = "check" => y # tt.n) /\ call["tt"].x = y
    BY <1>3, <1>4, <1>5, <2>1 DEF Placing
  <2> HIDE DEF c, y
  <2> QED BY <2>1, <2>2, <2>3, <2>4, ThreadMoves
<1>9. CASE StartInsert(p)
  <2> DEFINE c == IF y \in Soft THEN [at |-> "wake", x |-> y] ELSE [at |-> "idle", x |-> End]
  <2>1. Runs(p) /\ UNCHANGED <<clk, tt>> /\ call[p].at = "insert"
    BY <1>9 DEF StartInsert, At
  <2>2. Moves({}, {y}) /\ y \in User /\ GoesTo(p, c)
    BY <1>1, <1>9, InsertMoves
  <2>3. CallSound(c)
    BY <2>2 DEF CallSound, CallRecords, Placing
  <2>4. y = tt.n /\ tt.n # End => y \in Range(q'.soft)
    BY <1>2, <2>2 DEF Moves, Moved
  <2>5. {y} \in {{}, {y}} /\ {} \in {{}, {y}} /\ (c.at # "idle" => c.x = y) /\ c.at \notin {"unlink", "clear"}
        /\ (call["caller"].at \in Placing => call["caller"].x # y) /\ tt.at \in {"fire", "check"}
        /\ (tt.at = "check" => y # tt.n) /\ call["tt"].x = y
    BY <1>3, <1>4, <1>5, <2>1 DEF Placing
  <2> HIDE DEF c, y
  <2> QED BY <2>1, <2>2, <2>3, <2>4, <2>5, ThreadMoves
<1>10. CASE StopUnlink(p)
  <2> DEFINE c == [at |-> "clear", x |-> y]
  <2>1. Runs(p) /\ UNCHANGED <<clk, tt>> /\ call[p].at = "unlink"
    BY <1>10 DEF StopUnlink, At
  <2>2. Moves({y}, {}) /\ y \in User /\ GoesTo(p, c)
    BY <1>1, <1>10, UnlinkMoves
  <2>3. CallSound(c)
    BY <2>2 DEF CallSound, CallRecords, Placing
  <2>4. tt.at = "fire" /\ y = tt.t /\ y # tt.n
    BY <1>1, <1>2, <2>1 DEF CallsSound
  <2>5. {y} \in {{}, {y}} /\ {} \in {{}, {y}} /\ (c.at # "idle" => c.x = y) /\ c.x = tt.t
        /\ (call["caller"].at \in Placing => call["caller"].x # y) /\ call["tt"].x = y
    BY <1>4, <2>1, <2>4 DEF Placing
  <2> HIDE DEF c, y
  <2> QED BY <2>1, <2>2, <2>3, <2>4, <2>5, ThreadMoves
<1>11. CASE StartWake(p) \/ StopClear(p)
  <2> DEFINE c == [at |-> "idle", x |-> End]
  <2>1. Runs(p) /\ UNCHANGED <<clk, tt>> /\ call[p].at \in {"wake", "clear"} /\ Moves({}, {}) /\ GoesTo(p, c)
    <3>1. CASE StartWake(p)
      <4>1. Runs(p) /\ UNCHANGED <<tick, clk, left, q, tt>> /\ call[p].at = "wake" /\ Goto(p, "idle")
        BY <3>1 DEF StartWake, At, Runs
      <4>2. GoesTo(p, [at |-> "idle", x |-> IF "idle" = "idle" THEN End ELSE call[p].x])
        BY <1>1, <4>1, GotoGoes
      <4>3. Moves({}, {})
        BY <1>1, <4>1, NoneMoves
      <4> QED BY <4>1, <4>2, <4>3
    <3>2. CASE StopClear(p)
      BY <1>1, <3>2, ClearMoves DEF StopClear, At
    <3> QED BY <1>11, <3>1, <3>2
  <2>2. CallSound(c)
    BY DEF CallSound, CallRecords, Placing
  <2>3. {} \in {{}, {Own}} /\ c.at = "idle" /\ (call["caller"].at \in Placing => call["caller"].x # Own)
        /\ tt.at \in {"fire", "check"} /\ call["tt"].at \notin Placing /\ tt.n # Own
    BY <1>2, <1>3, <1>4, <2>1 DEF Placing
  <2> HIDE DEF c
  <2> QED BY <2>1, <2>2, <2>3, ThreadMoves
<1> QED BY <1>6, <1>7, <1>8, <1>9, <1>10, <1>11

(* rt_timer_control changes the time a timer is started with next.         *)
LEMMA SetTimeKeeps ==
  ASSUME TInductive, NEW p \in Proc, NEW x \in User, NEW n \in Times, SetTime(p, x, n)
  PROVE  TInductive'
<1>1. /\ q' = [q EXCEPT !.init[x] = n] /\ UNCHANGED <<tick, clk, tt, call, left>>
      /\ ListsSound /\ CtlTyped /\ CallsSound /\ clk.at = "off"
  BY DEF SetTime, TInductive, Free, Runs, Interruptible
<1>2. q \in Lists /\ QSound(q, left, tick)
  BY <1>1 DEF ListsSound, QSound
<1> DEFINE i == [q.init EXCEPT ![x] = n]
           u == q'
<1>3. i \in [User -> Times]
  BY <1>2 DEF Lists
<1>4. u = [hard |-> q.hard, soft |-> q.soft, due |-> q.due, init |-> i, on |-> q.on]
  BY <1>1, <1>2 DEF Lists
<1> HIDE DEF i, u
<1>5. /\ u \in Lists /\ u.hard = q.hard /\ u.soft = q.soft /\ u.due = q.due
  BY <1>2, <1>3, <1>4 DEF Lists
<1>6. QSound(u, left, tick) /\ Moved(u, q, {}, {})
  BY <1>2, <1>5 DEF QSound, Moved, OfLists, Dated
<1>7. Moves({}, {})
  BY <1>1, <1>6 DEF Moves, u, ListsSound
<1>8. HardStep({}, {})
  BY <1>1, <1>7 DEF HardStep, NotEnabled, CtlTyped, CallsSound
<1> QED BY <1>8, HardKeeps

(***************************************************************************)
(* The timer thread.                                                       *)
(***************************************************************************)
TtRecords ==
  [at : {"scan", "none", "some", "nap", "asleep", "delayed", "begin", "enter", "check", "fire", "again"},
   n : Soft \cup {End}, t : Soft \cup {End}, now : Tick]

(* It goes on from one place to the next and touches no timer.             *)
LEMMA ThreadGoesOn ==
  ASSUME TInductive, UNCHANGED <<tick, q, clk, call, left>>, call["tt"].at = "idle",
         tt' \in TtRecords, tt'.t \in {tt.t, End}, NodesSound', TtSound'
  PROVE  TInductive'
<1>1. /\ ListsSound /\ CallsSound /\ CtlTyped
  BY DEF TInductive
<1>2. CtlTyped'
  BY <1>1 DEF CtlTyped, TtRecords
<1>3. ListsSound'
  BY <1>1 DEF ListsSound, Inserting, Ready, Dated, Fresh
<1>4. CallsSound'
  <2>1. call["caller"].at \in Placing => call["caller"].x # End
    BY <1>1, OwnKind DEF CallsSound, Placing, Proc, User
  <2> QED BY <1>1, <2>1 DEF CallsSound, Starting
<1> QED BY <1>2, <1>3, <1>4 DEF TInductive

(* The first soft timer and what is left of it.                            *)
LEMMA FirstSoft ==
  ASSUME TInductive, Short, q.soft # << >>
  PROVE  LET h == Head(q.soft) IN
         /\ h \in Range(q.soft) /\ h \in Soft /\ q.due[h] \in Tick /\ q.due[h] # RtTickMax
         /\ left[h] \in Int /\ left[h] <= Longest /\ (\A x \in Range(q.soft) : left[x] \in Int /\ left[h] <= left[x])
         /\ Minus(q.due[h], tick) < Half <=> left[h] >= 0
         /\ left[h] >= 0 => Minus(q.due[h], tick) = left[h]
<1> DEFINE h == Head(q.soft)
<1>1. /\ q.soft \in Seq(Soft) /\ Sorted(q.soft, left) /\ tick \in Tick
      /\ \A x \in Range(q.soft) : x \in Timers /\ Dated(q, left, tick, x) /\ left[x] \in Int
  BY QElements DEF TInductive, ListsSound, QSound, OfLists, Dated
<1>2. h \in Range(q.soft) /\ \A x \in Range(q.soft) : left[h] <= left[x]
  BY <1>1, FirstIsLeast
<1>3. h \in Soft /\ h \in Timers /\ q.due[h] \in Tick /\ q.due[h] # RtTickMax
  BY <1>1, <1>2, QElements DEF TInductive, ListsSound
<1> DEFINE d == left[h]
<1>4. d \in - (Lag + Longest) .. Longest /\ q.due[h] = Shift(tick, d)
  BY <1>1, <1>2 DEF Dated
<1> HIDE DEF d
<1>5. d \in Int /\ d <= Longest /\ d \in Turn /\ - Half < d /\ d < Half
  <2>1. Longest \in Int /\ Lag \in Int /\ Half \in Int /\ TickMod \in Int /\ Longest + Lag < Half /\ 2 * Half + 1 <= TickMod /\ Half >= 2
        /\ Longest >= 1 /\ Lag >= 0
    BY MaxFacts, TickFacts DEF Short
  <2>2. d \in Int /\ - (Lag + Longest) <= d /\ d <= Longest
    BY <1>4, <2>1
  <2> QED BY <2>1, <2>2 DEF Turn
<1>6. (Minus(Shift(tick, d), tick) < Half <=> d >= 0) /\ (d >= 0 => Minus(Shift(tick, d), tick) = d)
  BY <1>1, <1>5, UntilIs
<1>7. (Minus(q.due[h], tick) < Half <=> d >= 0) /\ (d >= 0 => Minus(q.due[h], tick) = d)
  BY <1>4, <1>6
<1> QED BY <1>1, <1>2, <1>3, <1>5, <1>7 DEF d

(* Looking for the next timeout, and how long it is until then.            *)
LEMMA LooksKeep ==
  ASSUME TInductive, Short, LookForNext \/ SleepOn \/ HowLong
  PROVE  TInductive'
<1>1. /\ UNCHANGED <<tick, q, clk, call, left>> /\ call["tt"].at = "idle" /\ clk.at = "off"
      /\ tt \in TtRecords /\ NodesSound /\ TtSound
  BY DEF LookForNext, SleepOn, HowLong, TtAt, Interruptible, TInductive, CtlTyped, TtRecords
<1>2. tt.at \in {"scan", "none", "some"} /\ tt.n = End /\ tt.t = End
  BY <1>1 DEF LookForNext, SleepOn, HowLong, TtAt, NodesSound
<1>3. CASE LookForNext
  <2>1. CASE q.soft = << >>
    <3>1. tt' = [tt EXCEPT !.at = "none"]
      BY <1>3, <2>1 DEF LookForNext, NextTimeout
    <3>2. tt'.at = "none" /\ tt'.n = End /\ tt'.t = End /\ tt' \in TtRecords
      BY <1>1, <1>2, <3>1 DEF TtRecords
    <3>3. NodesSound' /\ TtSound'
      BY <1>1, <2>1, <3>2 DEF NodesSound, TtSound
    <3> QED BY <1>1, <3>2, <3>3, ThreadGoesOn
  <2>2. CASE q.soft # << >>
    <3>1. NextTimeout = q.due[Head(q.soft)] /\ q.due[Head(q.soft)] # RtTickMax /\ q.due[Head(q.soft)] \in Tick
      BY <2>2, FirstSoft DEF NextTimeout
    <3>2. tt' = [tt EXCEPT !.at = "some", !.now = q.due[Head(q.soft)]]
      BY <1>3, <3>1 DEF LookForNext
    <3>3. tt'.at = "some" /\ tt'.n = End /\ tt'.t = End /\ tt'.now = q.due[Head(q.soft)] /\ tt' \in TtRecords
      BY <1>1, <1>2, <3>1, <3>2 DEF TtRecords
    <3>4. NodesSound' /\ TtSound'
      BY <1>1, <2>2, <3>3 DEF NodesSound, TtSound
    <3> QED BY <1>1, <3>3, <3>4, ThreadGoesOn
  <2> QED BY <2>1, <2>2
<1>4. CASE SleepOn
  <2>1. tt' = [tt EXCEPT !.at = "asleep"] /\ q.soft = << >>
    BY <1>1, <1>4 DEF SleepOn, TtAt, TtSound
  <2>2. tt'.at = "asleep" /\ tt'.n = End /\ tt'.t = End /\ tt' \in TtRecords
    BY <1>1, <1>2, <2>1 DEF TtRecords
  <2>3. Range(q.soft) = {}
    BY <2>1, EmptySeq, LenProperties DEF Range
  <2>4. NodesSound' /\ TtSound'
    BY <1>1, <2>2, <2>3 DEF NodesSound, TtSound
  <2> QED BY <1>1, <2>2, <2>4, ThreadGoesOn
<1>5. CASE HowLong
  <2> DEFINE d == left[Head(q.soft)]
             m == Minus(tt.now, tick)
  <2>1. q.soft # << >> /\ tt.now = q.due[Head(q.soft)]
    BY <1>1, <1>5 DEF HowLong, TtAt, TtSound
  <2>2. /\ d \in Int /\ d <= Longest /\ (m < Half <=> d >= 0) /\ (d >= 0 => m = d)
        /\ \A x \in Range(q.soft) : left[x] \in Int /\ d <= left[x]
    BY <2>1, FirstSoft
  <2>3. tt' = IF m < Half THEN [tt EXCEPT !.at = "nap", !.now = m] ELSE [tt EXCEPT !.at = "begin", !.now = 0]
    BY <1>5 DEF HowLong
  <2> HIDE DEF d, m
  <2>4. CASE m < Half
    <3>1. d >= 0 /\ m = d /\ tt' = [tt EXCEPT !.at = "nap", !.now = m]
      BY <2>2, <2>3, <2>4
    <3>2. m \in 0 .. Longest /\ m \in Tick /\ \A x \in Range(q.soft) : left[x] >= - Lag
      BY <2>2, <3>1, MaxFacts, TickFacts DEF Tick
    <3>3. tt'.at = "nap" /\ tt'.n = End /\ tt'.t = End /\ tt'.now = m /\ tt' \in TtRecords
      BY <1>1, <1>2, <3>1, <3>2 DEF TtRecords
    <3>4. NodesSound' /\ TtSound'
      BY <1>1, <3>2, <3>3 DEF NodesSound, TtSound
    <3> QED BY <1>1, <3>3, <3>4, ThreadGoesOn
  <2>5. CASE ~ (m < Half)
    <3>1. tt' = [tt EXCEPT !.at = "begin", !.now = 0] /\ 0 \in Tick
      BY <2>3, <2>5, TickFacts DEF Tick
    <3>2. tt'.at = "begin" /\ tt'.n = End /\ tt'.t = End /\ tt' \in TtRecords
      BY <1>1, <1>2, <3>1 DEF TtRecords
    <3>3. NodesSound' /\ TtSound'
      BY <1>1, <3>2 DEF NodesSound, TtSound
    <3> QED BY <1>1, <3>2, <3>3, ThreadGoesOn
  <2> QED BY <2>4, <2>5
<1> QED BY <1>3, <1>4, <1>5

(* A tick that has just been read is not old.                              *)
LEMMA JustRead ==
  ASSUME TInductive, NEW x \in Range(q.soft)
  PROVE  Aged(left, tick, tick, x)
<1>1. tick \in Tick /\ Dated(q, left, tick, x)
  BY DEF TInductive, ListsSound, QSound, OfLists
<1>2. Shift(tick, - 0) = tick
  BY <1>1, TickFacts DEF Shift, Tick
<1>3. left[x] + 0 <= Longest /\ 0 \in 0 .. TickMod - 1
  BY <1>1, TickFacts, MaxFacts DEF Dated
<1> QED BY <1>2, <1>3 DEF Aged

(* rt_thread_delay: the timer thread's own timer is started.               *)
LEMMA DelayKeeps ==
  ASSUME TInductive, Short, Delay
  PROVE  TInductive'
<1> DEFINE n == tt.now
<1>1. /\ q' = Started(q, Own, n) /\ left' = [left EXCEPT ![Own] = n] /\ UNCHANGED <<tick, clk, call>>
      /\ tt' = [tt EXCEPT !.at = "delayed", !.now = 0] /\ call["tt"].at = "idle" /\ clk.at = "off" /\ tt.at = "nap"
      /\ ListsSound /\ CallsSound /\ NodesSound /\ TtSound /\ CtlTyped
  BY DEF Delay, TtAt, Interruptible, TInductive
<1>2. n \in 0 .. Longest /\ n \in Int /\ \A x \in Range(q.soft) : left[x] >= - Lag
  BY <1>1, MaxFacts DEF TtSound
<1>3. /\ tt' \in TtRecords /\ tt'.at = "delayed" /\ tt'.n = End /\ tt'.t = End /\ tt.n = End /\ tt.t = End
  <2>1. 0 \in Tick
    BY TickFacts DEF Tick
  <2>2. tt \in TtRecords /\ tt.n = End /\ tt.t = End
    BY <1>1 DEF CtlTyped, TtRecords, NodesSound
  <2> QED BY <1>1, <2>1, <2>2 DEF TtRecords
<1> HIDE DEF n
<1>4. left' \in [Timers -> Int] /\ SetTo(left', left, Own, n)
  BY <1>1, <1>2, OwnKind, LeftSet
<1> DEFINE u == q'
           lg == left'
<1>5. tick \in Tick /\ left \in [Timers -> Int] /\ QSound(q, left, tick) /\ u = Started(q, Own, n)
      /\ lg \in [Timers -> Int] /\ SetTo(lg, left, Own, n)
  BY <1>1, <1>4 DEF ListsSound
<1> HIDE DEF u, lg
<1>6. StartedTo(u, q, lg, Own, n)
  BY <1>2, <1>5, OwnKind, StartedSound
<1>7. StartedTo(q', q, left', Own, n)
  BY <1>6 DEF u, lg
<1>8. left'[Own] = n /\ n >= 0 /\ n >= - Lag /\ n <= Longest
  BY <1>2, <1>4, TickFacts, MaxFacts DEF SetTo
<1>9. Moves({Own}, {Own})
  BY <1>1, <1>4, <1>7, <1>8, OwnKind DEF Moves, StartedTo, SetTo, Elsewhere
<1>10. Own \notin User /\ Own \notin Soft /\ Own \in Hard
  BY OwnKind
<1>11. ~ Starting(Own)
  BY <1>1, <1>10 DEF CallsSound, Starting, Placing
<1>12. CtlTyped'
  BY <1>1, <1>3 DEF CtlTyped, TtRecords
<1>13. ListsSound'
  <2>1. InsertsOn({Own}, {Own}) /\ NotEnabled
    BY <1>1, <1>11, StartsInserting DEF InsertsOn, NotEnabled, Inserting
  <2> QED BY <1>1, <1>9, <2>1, ListsMove
<1>14. CallsSound'
  <2>1. ASSUME NEW x \in Timers, Starting(x)'
        PROVE  x \notin OfLists(q') /\ x \notin FromIsr
    <3>1. Starting(x)
      BY <1>1, <2>1 DEF Starting
    <3>2. x # Own /\ x \notin OfLists(q) /\ x \notin FromIsr
      BY <1>1, <1>11, <3>1 DEF CallsSound
    <3> QED BY <1>9, <3>2 DEF Moves, Moved, OfLists
  <2> QED BY <1>1, <1>3, <2>1 DEF CallsSound, Placing
<1>15. NodesSound'
  BY <1>1, <1>3 DEF NodesSound
<1>16. TtSound'
  <2>1. Own \in Range(q'.hard) /\ q'.soft = q.soft
    BY <1>9, <1>10 DEF Moves, Moved
  <2>2. ASSUME NEW x \in Range(q.soft)
        PROVE  InTime(x)'
    <3>1. x \in Timers /\ x # Own
      BY <1>1, <1>10, QElements DEF OfLists
    <3>2. left'[x] = left[x] /\ left[x] >= - Lag /\ left[x] \in Int
      BY <1>1, <1>2, <1>9, <3>1 DEF Moves, ListsSound
    <3> DEFINE a == left'[x]
               b == left'[Own]
    <3>3. a \in Int /\ a >= - Lag /\ b = n
      BY <1>8, <3>2
    <3> HIDE DEF a, b
    <3>4. a >= b - (Lag + Longest) /\ a >= - Lag - 1 /\ a >= - Lag
      BY <1>2, <1>8, <3>3, TickFacts, MaxFacts
    <3> QED BY <3>4 DEF InTime, a, b
  <2> QED BY <1>1, <1>3, <1>8, <2>1, <2>2 DEF TtSound
<1> QED BY <1>12, <1>13, <1>14, <1>15, <1>16 DEF TInductive

(* The tick is read, before the list is looked at and after a callback.    *)
LEMMA ReadsKeep ==
  ASSUME TInductive, Short, ReadTick \/ Enter \/ SoftCheckEnds \/ SoftReturns
  PROVE  TInductive'
<1>1. /\ UNCHANGED <<tick, q, clk, call, left>> /\ call["tt"].at = "idle"
      /\ tt \in TtRecords /\ NodesSound /\ TtSound /\ tick \in Tick
  BY DEF ReadTick, Enter, SoftCheckEnds, SoftReturns, TtAt, TInductive, CtlTyped, TtRecords, ListsSound
<1>2. CASE ReadTick
  <2>1. tt' = [tt EXCEPT !.at = "enter", !.now = tick] /\ tt.at = "begin"
    BY <1>2 DEF ReadTick, TtAt
  <2>2. tt'.at = "enter" /\ tt'.n = End /\ tt'.t = End /\ tt.t = End /\ tt'.now = tick /\ tt' \in TtRecords
    BY <1>1, <2>1 DEF TtRecords, NodesSound
  <2>3. \A x \in Range(q.soft) : Aged(left, tick, tick, x)
    BY JustRead
  <2>4. NodesSound' /\ TtSound'
    BY <1>1, <2>2, <2>3 DEF NodesSound, TtSound, Aged
  <2> QED BY <1>1, <2>2, <2>4, ThreadGoesOn
<1>3. CASE Enter
  <2>1. tt' = [tt EXCEPT !.at = "check", !.n = FirstNode] /\ tt.at = "enter"
    BY <1>3 DEF Enter, TtAt
  <2>2. FirstNode = End \/ (FirstNode \in Range(q.soft) /\ FirstNode \in Soft)
    BY FirstSoft DEF FirstNode
  <2>3. tt'.at = "check" /\ tt'.n = FirstNode /\ tt'.t = End /\ tt.t = End /\ tt'.now = tt.now /\ tt' \in TtRecords
    BY <1>1, <2>1, <2>2 DEF TtRecords, NodesSound
  <2>4. \A x \in Range(q.soft) : Aged(left, tick, tt.now, x)
    BY <1>1, <2>1 DEF TtSound
  <2>5. NodesSound' /\ TtSound'
    BY <1>1, <2>2, <2>3, <2>4 DEF NodesSound, TtSound, Aged
  <2> QED BY <1>1, <2>3, <2>5, ThreadGoesOn
<1>4. CASE SoftCheckEnds
  <2>1. tt' = [at |-> "scan", n |-> End, t |-> End, now |-> 0] /\ 0 \in Tick
    BY <1>4, TickFacts DEF SoftCheckEnds, Tick
  <2>2. tt'.at = "scan" /\ tt'.n = End /\ tt'.t = End /\ tt' \in TtRecords
    BY <2>1 DEF TtRecords
  <2>3. NodesSound' /\ TtSound'
    BY <1>1, <2>2 DEF NodesSound, TtSound
  <2> QED BY <1>1, <2>2, <2>3, ThreadGoesOn
<1>5. CASE SoftReturns
  <2>1. tt' = [tt EXCEPT !.at = "again", !.now = tick] /\ tt.at = "fire"
    BY <1>5 DEF SoftReturns, TtAt
  <2>2. tt'.at = "again" /\ tt'.n = tt.n /\ tt'.t = tt.t /\ tt'.now = tick /\ tt' \in TtRecords
    BY <1>1, <2>1 DEF TtRecords
  <2>3. tt.n # End => tt.n \in Range(q.soft)
    BY <1>1 DEF NodesSound, Placing
  <2>4. \A x \in Range(q.soft) : Aged(left, tick, tick, x)
    BY JustRead
  <2>5. NodesSound' /\ TtSound'
    BY <1>1, <2>1, <2>2, <2>3, <2>4 DEF NodesSound, TtSound, Aged
  <2> QED BY <1>1, <2>2, <2>5, ThreadGoesOn
<1> QED BY <1>2, <1>3, <1>4, <1>5

(* The node that rt_soft_timer_check keeps: another timer of the list, or  *)
(* its end.                                                                *)
LEMMA NodeAfterIs ==
  ASSUME ListsSound, NEW x \in Range(q.soft)
  PROVE  NodeAfter(x) # x /\ (NodeAfter(x) = End \/ NodeAfter(x) \in Range(q.soft))
<1>1. q.soft \in Seq(Soft) /\ IsInjective(q.soft) /\ x \in Timers
  BY QElements DEF ListsSound, QSound, OfLists
<1>2. DOMAIN q.soft = 1 .. Len(q.soft) /\ Len(q.soft) \in Nat
  BY <1>1, LenProperties
<1> DEFINE I == {i \in 1 .. Len(q.soft) : q.soft[i] = x}
           j == Min(I)
<1>3. j \in 1 .. Len(q.soft) /\ q.soft[j] = x
  <2>1. I # {} /\ I \in SUBSET Nat
    BY <1>2 DEF Range
  <2>2. \E n \in I : \A o \in I : n <= o
    BY <2>1, LeastElement
  <2> QED BY <2>2 DEF Min
<1>4. NodeAfter(x) = IF j = Len(q.soft) THEN End ELSE q.soft[j + 1]
  <2>1. I # {}
    BY <1>3
  <2> QED BY <2>1 DEF NodeAfter, SelectInSeq
<1> HIDE DEF j, I
<1>5. CASE j = Len(q.soft)
  BY <1>1, <1>4, <1>5, OwnKind
<1>6. CASE j # Len(q.soft)
  <2>1. j + 1 \in 1 .. Len(q.soft) /\ j + 1 # j
    BY <1>2, <1>3, <1>6
  <2>2. q.soft[j + 1] # q.soft[j] /\ q.soft[j + 1] \in Range(q.soft)
    BY <1>1, <1>2, <1>3, <2>1 DEF IsInjective, Range
  <2> QED BY <1>3, <1>4, <1>6, <2>2
<1> QED BY <1>5, <1>6

(* A soft timer expires: it is taken out of the list and called back.      *)
LEMMA SoftFiresKeeps ==
  ASSUME TInductive, SoftFires
  PROVE  TInductive'
<1> DEFINE x == tt.n
           m == NodeAfter(x)
<1>1. /\ q' = Unlinked(q, x, m) /\ left' = [left EXCEPT ![x] = 0] /\ UNCHANGED <<tick, clk, call>>
      /\ tt' = [at |-> "fire", n |-> m, t |-> x, now |-> 0]
      /\ call["tt"].at = "idle" /\ clk.at = "off" /\ tt.at = "check" /\ x # End
      /\ ListsSound /\ CallsSound /\ NodesSound /\ TtSound /\ CtlTyped
  BY DEF SoftFires, SoftDue, TtAt, Interruptible, TInductive
<1>2. x \in Range(q.soft)
  BY <1>1 DEF NodesSound
<1>3. x \in Soft /\ x \in Timers /\ x \in OfLists(q)
  BY <1>1, <1>2, QElements DEF OfLists
<1>4. m # x /\ (m = End \/ m \in Range(q.soft)) /\ m \in Soft \cup {End}
  BY <1>1, <1>2, NodeAfterIs, QElements
<1> HIDE DEF x, m
<1>5. left' \in [Timers -> Int] /\ Elsewhere(left', left, x)
  <2>1. 0 \in Int
    OBVIOUS
  <2> QED BY <1>1, <1>3, <2>1, LeftSet
<1>6. Moves({x}, {})
  BY <1>1, <1>3, <1>5, Leaves
<1>7. ~ Starting(x)
  BY <1>1, <1>3 DEF CallsSound
<1>8. CtlTyped'
  BY <1>1, <1>3, <1>4, TickFacts DEF CtlTyped, Tick
<1>9. ListsSound'
  <2>1. InsertsOn({x}, {}) /\ NotEnabled
    BY <1>1, <1>7, StartsInserting DEF InsertsOn, NotEnabled, Inserting
  <2> QED BY <1>1, <1>6, <2>1, ListsMove
<1>10. CallsSound'
  <2>1. ASSUME NEW y \in Timers, Starting(y)'
        PROVE  y \notin OfLists(q') /\ y \notin FromIsr
    <3>1. Starting(y)
      BY <1>1, <2>1 DEF Starting
    <3>2. y \notin OfLists(q) /\ y \notin FromIsr
      BY <1>1, <3>1 DEF CallsSound
    <3> QED BY <1>6, <3>2 DEF Moves, Moved, OfLists
  <2>2. call["caller"].at \in Placing => call["caller"].x # x
    BY <1>7 DEF Starting, Proc
  <2>3. tt'.t = x
    BY <1>1
  <2> QED BY <1>1, <2>1, <2>2, <2>3 DEF CallsSound, Placing
<1>11. NodesSound'
  <2>1. m # End => m \in Range(q'.soft)
    BY <1>4, <1>6 DEF Moves, Moved
  <2> QED BY <1>1, <1>3, <1>4, <2>1 DEF NodesSound
<1>12. TtSound'
  BY <1>1 DEF TtSound
<1> QED BY <1>8, <1>9, <1>10, <1>11, <1>12 DEF TInductive

(* A periodic timer is started again after its callback, unless that has   *)
(* stopped it.                                                             *)
LEMMA SoftAgainKeeps ==
  ASSUME TInductive, Disciplined, SoftAgain
  PROVE  TInductive'
<1> DEFINE x == tt.t
<1>1. /\ UNCHANGED <<tick, clk>> /\ tt' = [tt EXCEPT !.at = "check", !.t = End] /\ Runs("tt")
      /\ call["tt"].at = "idle" /\ clk.at = "off" /\ tt.at = "again"
      /\ ListsSound /\ CallsSound /\ NodesSound /\ TtSound /\ CtlTyped /\ tt \in TtRecords /\ "tt" \in Proc
  BY DEF SoftAgain, TtAt, Interruptible, TInductive, Runs, Blocked, CtlTyped, TtRecords, Proc
<1>2. x \in Soft /\ tt.n # x /\ (tt.n # End => tt.n \in Range(q.soft) /\ Aged(left, tick, tt.now, tt.n))
  BY <1>1 DEF NodesSound, TtSound
<1>3. /\ tt' \in TtRecords /\ tt'.at = "check" /\ tt'.n = tt.n /\ tt'.t = End /\ tt'.now = tt.now
  BY <1>1 DEF TtRecords
<1>4. x \in User /\ x \notin FromIsr
  BY <1>2, OwnKind DEF Disciplined, User, Timers
<1>5. call["caller"].at \in Placing => call["caller"].x \in User /\ call["caller"].x # x /\ call["caller"].x # End
  BY <1>1, OwnKind DEF CallsSound, Placing, Proc, User
<1>6. ASSUME NEW A \in {{}, {x}}, Moves(A, {}), NEW c, GoesTo("tt", c), CallSound(c),
             c.at \in {"stamp", "idle"}, c.at # "idle" => c.x = x
      PROVE  TInductive'
  <2>1. call["caller"].at \in Placing => call["caller"].x \notin A /\ call["caller"].x \notin {}
                                         /\ (c.at \in Placing => c.x # call["caller"].x)
                                         /\ call["caller"].x # tt'.t
    BY <1>3, <1>5, <1>6 DEF Placing
  <2>2. ListsSound' /\ CallsSound' /\ call' \in [Proc -> CallRecords] /\ call'["tt"] = c
    BY <1>1, <1>3, <1>6, <2>1, ThreadLists
  <2>3. CtlTyped'
    BY <1>1, <1>3, <2>2 DEF CtlTyped, TtRecords, CallRecords
  <2>4. tt.n # End => tt.n \in Range(q'.soft) /\ left'[tt.n] = left[tt.n]
    BY <1>1, <1>2, <1>6, QElements DEF Moves, Moved, OfLists
  <2>5. NodesSound'
    BY <1>2, <1>3, <1>6, <2>2, <2>4 DEF NodesSound
  <2>6. TtSound'
    BY <1>1, <1>2, <1>3, <2>4 DEF TtSound, Aged
  <2> QED BY <2>2, <2>3, <2>5, <2>6 DEF TInductive
<1>7. CASE x \in Periodic \cap q.on
  <2> DEFINE c == [at |-> "stamp", x |-> x]
  <2>1. Begun("tt", x)
    BY <1>7 DEF SoftAgain
  <2>2. Moves({x}, {}) /\ x \notin OfLists(q') /\ GoesTo("tt", c)
    BY <1>1, <1>4, <2>1, BegunMoves
  <2>3. CallSound(c) /\ c.at \in {"stamp", "idle"} /\ (c.at # "idle" => c.x = x) /\ {x} \in {{}, {x}}
    BY <1>4, <2>2 DEF CallSound, CallRecords
  <2> HIDE DEF c, x
  <2> QED BY <1>6, <2>2, <2>3
<1>8. CASE x \notin Periodic \cap q.on
  <2>1. q' = Deactivated(q, x) /\ UNCHANGED <<call, left>>
    BY <1>8 DEF SoftAgain
  <2>2. Moves({}, {})
    BY <1>1, <2>1, NoneMoves
  <2>3. GoesTo("tt", call["tt"]) /\ call["tt"] \in CallRecords
    BY <1>1, <2>1 DEF GoesTo, CtlTyped, CallRecords
  <2>4. CallSound(call["tt"]) /\ call["tt"].at \in {"stamp", "idle"} /\ {} \in {{}, {x}}
    BY <1>1, <2>3 DEF CallSound, Placing
  <2> HIDE DEF x
  <2> QED BY <1>1, <1>6, <2>2, <2>3, <2>4
<1> QED BY <1>7, <1>8

(***************************************************************************)
(* The invariant holds.                                                    *)
(***************************************************************************)
LEMMA InitSound == Init => TInductive
<1> SUFFICES ASSUME Init
             PROVE  TInductive
  OBVIOUS
<1>1. /\ tick = 0 /\ clk = [at |-> "off", t |-> End] /\ tt = [at |-> "scan", n |-> End, t |-> End, now |-> 0]
      /\ call = [p \in Proc |-> [at |-> "idle", x |-> End]] /\ left = [x \in Timers |-> 0]
      /\ q = [hard |-> << >>, soft |-> << >>, due |-> [x \in Timers |-> 0], init |-> InitTime, on |-> {}]
  BY DEF Init
<1>2. 0 \in Tick
  BY TickFacts DEF Tick
<1>3. Range(<< >>) = {} /\ IsInjective(<< >>) /\ Len(<< >>) = 0 /\ << >> \in Seq(Hard) /\ << >> \in Seq(Soft)
  BY DEF Range, IsInjective
<1>4. q \in Lists
  BY <1>1, <1>2, <1>3, TimerAssumption DEF Lists
<1>5. QSound(q, left, tick) /\ OfLists(q) = {} /\ Range(q.soft) = {} /\ Range(q.hard) = {}
  BY <1>1, <1>3, <1>4 DEF QSound, OfLists, Sorted
<1>6. \A p \in Proc : call[p].at = "idle"
  BY <1>1
<1>7. \A x : ~ Starting(x) /\ ~ Inserting(x)
  BY <1>6 DEF Starting, Inserting, Placing
<1>8. CtlTyped
  BY <1>1, <1>2 DEF CtlTyped
<1>9. ListsSound
  BY <1>1, <1>2, <1>5, <1>7 DEF ListsSound
<1>10. CallsSound
  BY <1>1, <1>6, <1>7 DEF CallsSound, Proc, Placing
<1>11. NodesSound
  BY <1>1, <1>6 DEF NodesSound
<1>12. TtSound
  BY <1>1 DEF TtSound
<1> QED BY <1>8, <1>9, <1>10, <1>11, <1>12 DEF TInductive

LEMMA StutterSound ==
  ASSUME TInductive, UNCHANGED vars
  PROVE  TInductive'
<1>1. UNCHANGED <<tick, q, clk, tt, call, left>>
  BY DEF vars
<1>2. CtlTyped'
  BY <1>1 DEF TInductive, CtlTyped
<1>3. ListsSound'
  BY <1>1 DEF TInductive, ListsSound, Inserting, Ready, Dated, Fresh
<1>4. CallsSound'
  BY <1>1 DEF TInductive, CallsSound, Starting
<1>5. NodesSound'
  BY <1>1 DEF TInductive, NodesSound
<1>6. TtSound'
  BY <1>1 DEF TInductive, TtSound, Aged, InTime
<1> QED BY <1>2, <1>3, <1>4, <1>5, <1>6 DEF TInductive

LEMMA NextKeeps ==
  ASSUME TInductive, Short, Disciplined, [Next]_vars
  PROVE  TInductive'
<1>1. CASE Clock
  <2>1. CASE TickIncrease
    BY <2>1, TickIncreaseKeeps
  <2>2. CASE CheckFires
    <3>1. CASE clk'.t = Own
      BY <2>2, <3>1, OwnFiresKeeps
    <3>2. CASE clk'.t # Own
      BY <2>2, <3>2, CheckFiresKeeps
    <3> QED BY <3>1, <3>2
  <2>3. CASE CheckEnds
    BY <2>3, CheckEndsKeeps
  <2>4. CASE CallbackReturns
    BY <2>4, CallbackReturnsKeeps
  <2> QED BY <1>1, <2>1, <2>2, <2>3, <2>4 DEF Clock
<1>2. CASE TimerThread
  <2>1. CASE LookForNext \/ SleepOn \/ HowLong
    BY <2>1, LooksKeep
  <2>2. CASE Delay
    BY <2>2, DelayKeeps
  <2>3. CASE ReadTick \/ Enter \/ SoftCheckEnds \/ SoftReturns
    BY <2>3, ReadsKeep
  <2>4. CASE SoftFires
    BY <2>4, SoftFiresKeeps
  <2>5. CASE SoftAgain
    BY <2>5, SoftAgainKeeps
  <2> QED BY <1>2, <2>1, <2>2, <2>3, <2>4, <2>5 DEF TimerThread
<1>3. CASE Environment
  <2>1. PICK x \in User :
          \/ CallbackStarts(x) \/ CallbackStopsNow(x) \/ IsrStarts(x) \/ IsrStops(x) \/ Renew(x)
          \/ \E p \in Proc : StartBegin(p, x) \/ StopBegin(p, x) \/ \E n \in Times : SetTime(p, x, n)
    BY <1>3 DEF Environment
  <2>2. CASE CallbackStarts(x) \/ CallbackStopsNow(x) \/ IsrStarts(x) \/ IsrStops(x)
    BY <2>2, HandlersKeep
  <2>3. CASE Renew(x) \/ StartBegin("caller", x) \/ StopBegin("caller", x)
    BY <2>3, CallerStepsKeep
  <2>4. CASE StartBegin("tt", x) \/ StopBegin("tt", x)
    BY <2>4, ThreadStepsKeep
  <2>5. CASE \E p \in Proc, n \in Times : SetTime(p, x, n)
    BY <2>5, SetTimeKeeps
  <2> QED BY <2>1, <2>2, <2>3, <2>4, <2>5 DEF Proc
<1>4. CASE \E p \in Proc : CallSteps(p)
  <2>1. User # {} => TInductive'
    <3> SUFFICES ASSUME NEW x \in User
                 PROVE  TInductive'
      OBVIOUS
    <3>1. PICK p \in Proc : CallSteps(p)
      BY <1>4
    <3>2. CASE p = "tt"
      BY <3>1, <3>2, ThreadStepsKeep DEF CallSteps
    <3>3. CASE p = "caller"
      <4>1. CASE StartWake("caller")
        BY <4>1, CallerWakesKeeps
      <4>2. CASE ~ StartWake("caller")
        BY <3>1, <3>3, <4>2, CallerStepsKeep DEF CallSteps
      <4> QED BY <4>1, <4>2
    <3> QED BY <3>2, <3>3 DEF Proc
  <2>2. User # {}
    <3>1. PICK p \in Proc : CallSteps(p)
      BY <1>4
    <3>2. call[p].at # "idle"
      BY <3>1 DEF CallSteps, StartStamp, StartInsert, StartWake, StopUnlink, StopClear, At
    <3> QED BY <3>2 DEF TInductive, CallsSound
  <2> QED BY <2>1, <2>2
<1>5. CASE UNCHANGED vars
  BY <1>5, StutterSound
<1> QED BY <1>1, <1>2, <1>3, <1>4, <1>5 DEF Next

(* The invariant of timer.c: the lists are in the order of the time left,  *)
(* which the ticks agree with, and the timer thread sleeps in time.        *)
THEOREM TInductiveHolds ==
  ASSUME Short, Disciplined
  PROVE  Spec => []TInductive
<1>1. Init => TInductive
  BY InitSound
<1>2. TInductive /\ [Next]_vars => TInductive'
  BY NextKeeps
<1> QED BY <1>1, <1>2, PTL DEF Spec

(* The variables keep their types: no tick leaves its range.               *)
THEOREM TypesHold ==
  ASSUME Short, Disciplined
  PROVE  Spec => []TypeOK
<1>1. TInductive => TypeOK
  BY DEF TInductive, CtlTyped, ListsSound, QSound, Lists, TypeOK
<1> QED BY <1>1, TInductiveHolds, PTL

LEMMA OrderedIs ==
  ASSUME NEW S, NEW s \in Seq(S), IsInjective(s), Sorted(s, left)
  PROVE  Ordered(s)
<1>1. DOMAIN s = 1 .. Len(s)
  BY LenProperties
<1>2. \A i, j \in DOMAIN s : s[i] = s[j] => i = j
  BY DEF IsInjective
<1>3. ASSUME NEW i \in 1 .. Len(s), NEW j \in 1 .. Len(s), i < j
      PROVE  s[i] # s[j] /\ left[s[i]] <= left[s[j]]
  <2>1. i # j
    BY <1>3
  <2> QED BY <1>1, <1>2, <1>3, <2>1 DEF Sorted
<1> QED BY <1>3 DEF Ordered

(* rt_timer_start keeps each list in the order of the time that is left,   *)
(* though the ticks wrap around, and links no timer twice.                 *)
THEOREM AlwaysInOrder ==
  ASSUME Short, Disciplined
  PROVE  Spec => []InOrder
<1>1. TInductive => InOrder
  <2> SUFFICES ASSUME TInductive
               PROVE  InOrder
    OBVIOUS
  <2>1. /\ q.hard \in Seq(Hard) /\ q.soft \in Seq(Soft) /\ IsInjective(q.hard) /\ IsInjective(q.soft)
        /\ Sorted(q.hard, left) /\ Sorted(q.soft, left)
    BY DEF TInductive, ListsSound, QSound, Lists
  <2>2. Ordered(q.hard)
    BY <2>1, OrderedIs
  <2>3. Ordered(q.soft)
    BY <2>1, OrderedIs
  <2> QED BY <2>2, <2>3 DEF InOrder
<1> QED BY <1>1, TInductiveHolds, PTL

(* A soft timer is never later than threads are slow, before it is served  *)
(* and while the timer thread sleeps.                                      *)
THEOREM AlwaysPunctual ==
  ASSUME Short, Disciplined
  PROVE  Spec => []Punctual
<1>1. TInductive => Punctual
  <2> SUFFICES ASSUME TInductive, NEW x \in Range(q.soft)
               PROVE  left[x] >= - (Lag + Longest)
    BY DEF Punctual, Longest
  <2>1. Dated(q, left, tick, x)
    BY DEF TInductive, ListsSound, QSound, OfLists
  <2> QED BY <2>1, TickFacts, MaxFacts DEF Dated
<1> QED BY <1>1, TInductiveHolds, PTL

(* Which steps call a timer back, and which ends the check.                *)
LEMMA WhoFires ==
  ASSUME CtlTyped, [Next]_vars
  PROVE  /\ clk.at = "check" /\ clk'.at = "call" => CheckFires
         /\ clk.at = "check" /\ clk'.at = "off" => CheckEnds
         /\ tt.at = "check" /\ tt'.at = "fire" => SoftFires
<1> USE DEF Wake, StartNow, StopNow
<1>1. CASE Clock
  BY <1>1 DEF Clock, TickIncrease, CheckFires, CheckEnds, CallbackReturns, Blocked, Interruptible
<1>2. CASE TimerThread
  BY <1>2 DEF TimerThread, LookForNext, SleepOn, HowLong, Delay, ReadTick, Enter, SoftFires, SoftCheckEnds,
              SoftReturns, SoftAgain, TtAt, Interruptible, CtlTyped
<1>3. CASE Environment
  BY <1>3 DEF Environment, CallbackStarts, CallbackStopsNow, IsrStarts, IsrStops, Renew, StartBegin, StopBegin, SetTime,
              Blocked
<1>4. CASE \E p \in Proc : CallSteps(p)
  BY <1>4 DEF CallSteps, StartStamp, StartInsert, StartWake, StopUnlink, StopClear, Blocked
<1>5. CASE UNCHANGED vars
  BY <1>5 DEF vars
<1> QED BY <1>1, <1>2, <1>3, <1>4, <1>5 DEF Next

(* The first timer's tick is compared with one that was read some time ago.*)
LEMMA SoftDueIs ==
  ASSUME TInductive, Short, tt.at = "check", SoftDue
  PROVE  tt.n \in Range(q.soft) /\ left[tt.n] <= 0
<1> DEFINE x == tt.n
           d == left[x]
<1>1. x \in Range(q.soft) /\ Aged(left, tick, tt.now, x) /\ Minus(tt.now, q.due[x]) < Half
  BY DEF SoftDue, Expired, TInductive, NodesSound, TtSound
<1>2. tick \in Tick /\ Dated(q, left, tick, x)
  BY <1>1 DEF TInductive, ListsSound, QSound, OfLists
<1>3. PICK e \in 0 .. TickMod - 1 : tt.now = Shift(tick, - e) /\ d + e <= Longest
  BY <1>1 DEF Aged
<1>4. d \in - (Lag + Longest) .. Longest /\ q.due[x] = Shift(tick, d)
  BY <1>2 DEF Dated
<1> HIDE DEF d, x
<1>5. d \in Int /\ d \in Turn /\ - Half < d + e /\ d + e < Half
  <2>1. Longest \in Int /\ Lag \in Int /\ Half \in Int /\ TickMod \in Int /\ Longest + Lag < Half /\ 2 * Half + 1 <= TickMod /\ Half >= 2
        /\ Longest >= 1 /\ Lag >= 0
    BY MaxFacts, TickFacts DEF Short
  <2>2. d \in Int /\ - (Lag + Longest) <= d /\ d <= Longest
    BY <1>4, <2>1
  <2> QED BY <1>3, <2>1, <2>2 DEF Turn
<1>6. Minus(Shift(tick, - e), Shift(tick, d)) < Half <=> d + e <= 0
  BY <1>2, <1>5, ExpiredIs
<1>7. d + e <= 0
  BY <1>1, <1>3, <1>4, <1>6
<1>8. d <= 0
  BY <1>3, <1>5, <1>7
<1> QED BY <1>1, <1>8 DEF d, x

LEMMA FiresInTime ==
  ASSUME TInductive, Short, [Next]_vars, NEW x \in Timers, Fires(x)
  PROVE  left[x] <= 0
<1>1. CtlTyped /\ ListsSound
  BY DEF TInductive
<1>2. CASE clk.at = "check" /\ clk'.at = "call" /\ clk'.t = x
  <2>1. CheckFires
    BY <1>1, <1>2, WhoFires
  <2>2. HardDue /\ x = Head(q.hard)
    BY <1>2, <2>1 DEF CheckFires
  <2> QED BY <1>1, <2>2, HardDueIs
<1>3. CASE tt.at = "check" /\ tt'.at = "fire" /\ tt'.t = x
  <2>1. SoftFires
    BY <1>1, <1>3, WhoFires
  <2>2. SoftDue /\ x = tt.n
    BY <1>3, <2>1 DEF SoftFires
  <2> QED BY <1>3, <2>2, SoftDueIs
<1> QED BY <1>2, <1>3 DEF Fires

(* No timer fires early, and rt_timer_check leaves no hard timer that has  *)
(* come to its time.                                                       *)
THEOREM FiresOnTime ==
  ASSUME Short, Disciplined
  PROVE  Spec => OnTime
<1>1. TInductive /\ [Next]_vars =>
        [/\ \A x \in Timers : Fires(x) => left[x] <= 0
         /\ clk.at = "check" /\ clk'.at = "off" => \A x \in Range(q.hard) : left[x] > 0]_vars
  <2> SUFFICES ASSUME TInductive, [Next]_vars
               PROVE  /\ \A x \in Timers : Fires(x) => left[x] <= 0
                      /\ clk.at = "check" /\ clk'.at = "off" => \A x \in Range(q.hard) : left[x] > 0
    OBVIOUS
  <2>1. \A x \in Timers : Fires(x) => left[x] <= 0
    BY FiresInTime
  <2>2. clk.at = "check" /\ clk'.at = "off" => ~ HardDue
    BY WhoFires DEF CheckEnds, TInductive
  <2>3. ~ HardDue => \A x \in Range(q.hard) : left[x] > 0
    BY HardDueIs DEF TInductive
  <2> QED BY <2>1, <2>2, <2>3
<1> QED BY <1>1, TInductiveHolds, PTL DEF Spec, OnTime
=============================================================================
