---------------------------- MODULE KernelProofs ----------------------------
(***************************************************************************)
(* What the primitives of Kernel do to the queues, for any set of threads, *)
(* any number of priorities and any wait lists.                            *)
(***************************************************************************)
EXTENDS Kernel, SequenceTheorems, FiniteSetTheorems, WellFoundedInduction, TLAPS

(***************************************************************************)
(* Lists.                                                                  *)
(***************************************************************************)
(* What taking one element out of a sequence leaves.                       *)
LEMMA RemoveAtElements ==
  ASSUME NEW S, NEW s \in Seq(S), NEW i \in 1 .. Len(s)
  PROVE  /\ RemoveAt(s, i) \in Seq(S)
         /\ Len(RemoveAt(s, i)) = Len(s) - 1
         /\ \A j \in 1 .. Len(s) - 1 :
              RemoveAt(s, i)[j] = IF j < i THEN s[j] ELSE s[j + 1]
<1> DEFINE a == SubSeq(s, 1, i - 1)
           b == SubSeq(s, i + 1, Len(s))
<1>1. Len(s) \in Nat /\ \A j \in 1 .. Len(s) : s[j] \in S
  BY LenProperties, ElementOfSeq
<1>2. /\ a \in Seq(S) /\ Len(a) = i - 1
      /\ \A j \in 1 .. i - 1 : a[j] = s[j]
  <2>1. 1 \in Int /\ i - 1 \in Int /\ \A j \in 1 .. i - 1 : s[j] \in S
    BY <1>1
  <2>2. /\ SubSeq(s, 1, i - 1) \in Seq(S)
        /\ Len(SubSeq(s, 1, i - 1)) = IF 1 <= i - 1 THEN (i - 1) - 1 + 1 ELSE 0
        /\ \A j \in 1 .. (i - 1) - 1 + 1 : SubSeq(s, 1, i - 1)[j] = s[1 + j - 1]
    BY <2>1, SubSeqProperties
  <2> QED BY <2>2, <1>1
<1>3. /\ b \in Seq(S) /\ Len(b) = Len(s) - i
      /\ \A j \in 1 .. Len(s) - i : b[j] = s[i + j]
  <2>1. i + 1 \in Int /\ Len(s) \in Int /\ \A j \in i + 1 .. Len(s) : s[j] \in S
    BY <1>1
  <2>2. /\ SubSeq(s, i + 1, Len(s)) \in Seq(S)
        /\ Len(SubSeq(s, i + 1, Len(s))) = IF i + 1 <= Len(s) THEN Len(s) - (i + 1) + 1 ELSE 0
        /\ \A j \in 1 .. Len(s) - (i + 1) + 1 : SubSeq(s, i + 1, Len(s))[j] = s[(i + 1) + j - 1]
    BY <2>1, SubSeqProperties
  <2> QED BY <2>2, <1>1
<1>4. /\ a \o b \in Seq(S)
      /\ Len(a \o b) = Len(a) + Len(b)
      /\ \A j \in 1 .. Len(a) + Len(b) :
           (a \o b)[j] = IF j <= Len(a) THEN a[j] ELSE b[j - Len(a)]
  BY <1>2, <1>3, ConcatProperties
<1>5. RemoveAt(s, i) = a \o b
  BY DEF RemoveAt
<1> HIDE DEF a, b
<1>6. Len(a) + Len(b) = Len(s) - 1
  BY <1>1, <1>2, <1>3
<1>7. ASSUME NEW j \in 1 .. Len(s) - 1
      PROVE  (a \o b)[j] = IF j < i THEN s[j] ELSE s[j + 1]
  <2>1. CASE j < i
    BY <1>1, <1>2, <1>4, <1>6, <2>1
  <2>2. CASE ~ (j < i)
    <3>1. (a \o b)[j] = b[j - (i - 1)]
      BY <1>1, <1>2, <1>4, <1>6, <2>2
    <3>2. j - (i - 1) \in 1 .. Len(s) - i /\ i + (j - (i - 1)) = j + 1
      BY <1>1, <2>2
    <3> QED BY <1>3, <2>2, <3>1, <3>2
  <2> QED BY <2>1, <2>2
<1> QED BY <1>4, <1>5, <1>6, <1>7

(* A sequence without repetition loses t and nothing else.                 *)
LEMMA UnlinkedFacts ==
  ASSUME NEW s \in Seq(Thread), NEW t \in Thread
  PROVE  /\ Unlinked(s, t) \in Seq(Thread)
         /\ t \notin Range(s) => Unlinked(s, t) = s
         /\ IsInjective(s) => /\ IsInjective(Unlinked(s, t))
                              /\ \A x : x \in Range(Unlinked(s, t)) <=> x \in Range(s) /\ x # t
<1>1. Len(s) \in Nat /\ DOMAIN s = 1 .. Len(s)
  BY LenProperties
<1>2. CASE t \notin Range(s)
  <2>1. Unlinked(s, t) = s
    BY <1>2 DEF Unlinked, Range
  <2> QED BY <1>2, <2>1
<1>3. CASE t \in Range(s)
  <2> DEFINE i == CHOOSE i \in DOMAIN s : s[i] = t
             r == RemoveAt(s, i)
  <2>1. i \in 1 .. Len(s) /\ s[i] = t
    BY <1>1, <1>3 DEF Range
  <2>2. Unlinked(s, t) = r
    BY <1>3 DEF Unlinked, Range
  <2> HIDE DEF i
  <2>3. /\ r \in Seq(Thread) /\ Len(r) = Len(s) - 1
        /\ \A j \in 1 .. Len(s) - 1 : r[j] = IF j < i THEN s[j] ELSE s[j + 1]
    BY <2>1, RemoveAtElements
  <2>4. DOMAIN r = 1 .. Len(s) - 1
    BY <2>3, LenProperties
  <2> HIDE DEF r
  <2>5. ASSUME IsInjective(s)  PROVE IsInjective(r)
    <3> SUFFICES ASSUME NEW x \in DOMAIN r, NEW y \in DOMAIN r, r[x] = r[y]  PROVE x = y
      BY DEF IsInjective
    <3> DEFINE old(j) == IF j < i THEN j ELSE j + 1
    <3>1. \A j \in DOMAIN r : old(j) \in DOMAIN s /\ r[j] = s[old(j)]
      BY <1>1, <2>1, <2>3, <2>4
    <3>2. old(x) = old(y)
      BY <2>5, <3>1 DEF IsInjective
    <3> QED BY <1>1, <2>1, <2>4, <3>2
  <2>6. ASSUME IsInjective(s)  PROVE Range(r) = Range(s) \ {t}
    <3>1. ASSUME NEW j \in DOMAIN r  PROVE r[j] \in Range(s) \ {t}
      BY <1>1, <2>1, <2>3, <2>4, <2>6, <3>1, SMTT(40) DEF IsInjective, Range
    <3>2. ASSUME NEW j \in DOMAIN s, s[j] # t  PROVE s[j] \in Range(r)
      <4>1. CASE j < i
        <5>1. j \in 1 .. Len(s) - 1 /\ r[j] = s[j]
          BY <1>1, <2>1, <2>3, <4>1
        <5> QED BY <5>1, <2>4 DEF Range
      <4>2. CASE ~ (j < i)
        <5>1. j - 1 \in 1 .. Len(s) - 1 /\ r[j - 1] = s[j]
          BY <1>1, <2>1, <2>3, <3>2, <4>2
        <5> QED BY <5>1, <2>4 DEF Range
      <4> QED BY <4>1, <4>2
    <3> QED BY <3>1, <3>2 DEF Range
  <2> QED BY <1>3, <2>2, <2>3, <2>5, <2>6
<1> QED BY <1>2, <1>3

(* What linking an element at a place of a sequence makes of it.           *)
LEMMA InsertAtElements ==
  ASSUME NEW S, NEW s \in Seq(S), NEW t \in S, NEW i \in 1 .. Len(s) + 1
  PROVE  /\ InsertAt(s, i, t) \in Seq(S)
         /\ Len(InsertAt(s, i, t)) = Len(s) + 1
         /\ \A j \in 1 .. Len(s) + 1 :
              InsertAt(s, i, t)[j] = IF j < i THEN s[j] ELSE IF j = i THEN t ELSE s[j - 1]
<1> DEFINE a == SubSeq(s, 1, i - 1)
           b == SubSeq(s, i, Len(s))
<1>1. Len(s) \in Nat /\ DOMAIN s = 1 .. Len(s) /\ \A j \in 1 .. Len(s) : s[j] \in S
  BY LenProperties, ElementOfSeq
<1>2. /\ a \in Seq(S) /\ Len(a) = i - 1
      /\ \A j \in 1 .. i - 1 : a[j] = s[j]
  <2>1. 1 \in Int /\ i - 1 \in Int /\ \A j \in 1 .. i - 1 : s[j] \in S
    BY <1>1
  <2>2. /\ SubSeq(s, 1, i - 1) \in Seq(S)
        /\ Len(SubSeq(s, 1, i - 1)) = IF 1 <= i - 1 THEN (i - 1) - 1 + 1 ELSE 0
        /\ \A j \in 1 .. (i - 1) - 1 + 1 : SubSeq(s, 1, i - 1)[j] = s[1 + j - 1]
    BY <2>1, SubSeqProperties
  <2> QED BY <2>2, <1>1
<1>3. /\ b \in Seq(S) /\ Len(b) = Len(s) - i + 1
      /\ \A j \in 1 .. Len(s) - i + 1 : b[j] = s[i + j - 1]
  <2>1. i \in Int /\ Len(s) \in Int /\ \A j \in i .. Len(s) : s[j] \in S
    BY <1>1
  <2>2. /\ SubSeq(s, i, Len(s)) \in Seq(S)
        /\ Len(SubSeq(s, i, Len(s))) = IF i <= Len(s) THEN Len(s) - i + 1 ELSE 0
        /\ \A j \in 1 .. Len(s) - i + 1 : SubSeq(s, i, Len(s))[j] = s[i + j - 1]
    BY <2>1, SubSeqProperties
  <2> QED BY <2>2, <1>1
<1>4. <<t>> \in Seq(S) /\ Len(<<t>>) = 1 /\ <<t>>[1] = t
  OBVIOUS
<1> HIDE DEF a, b
<1> DEFINE c == a \o <<t>>
<1>5. /\ c \in Seq(S) /\ Len(c) = i
      /\ \A j \in 1 .. i : c[j] = IF j <= i - 1 THEN s[j] ELSE t
  <2>1. /\ c \in Seq(S) /\ Len(c) = Len(a) + Len(<<t>>)
        /\ \A j \in 1 .. Len(a) + Len(<<t>>) :
             c[j] = IF j <= Len(a) THEN a[j] ELSE <<t>>[j - Len(a)]
    BY <1>2, <1>4, ConcatProperties
  <2>2. ASSUME NEW j \in 1 .. i  PROVE c[j] = IF j <= i - 1 THEN s[j] ELSE t
    <3>1. CASE j <= i - 1
      BY <1>1, <1>2, <1>4, <2>1, <3>1
    <3>2. CASE j = i
      <4>1. c[j] = <<t>>[j - Len(a)] /\ j - Len(a) = 1
        BY <1>1, <1>2, <1>4, <2>1, <3>2
      <4> QED BY <1>1, <1>4, <3>2, <4>1
    <3>3. j <= i - 1 \/ j = i
      BY <1>1
    <3> QED BY <3>1, <3>2, <3>3
  <2>3. Len(a) + Len(<<t>>) = i
    BY <1>1, <1>2, <1>4
  <2> QED BY <2>1, <2>2, <2>3
<1> HIDE DEF c
<1>6. /\ InsertAt(s, i, t) \in Seq(S) /\ Len(InsertAt(s, i, t)) = Len(s) + 1
      /\ \A j \in 1 .. Len(s) + 1 :
           InsertAt(s, i, t)[j] = IF j < i THEN s[j] ELSE IF j = i THEN t ELSE s[j - 1]
  <2>1. InsertAt(s, i, t) = c \o b
    BY DEF InsertAt, a, b, c
  <2>2. /\ c \o b \in Seq(S) /\ Len(c \o b) = Len(c) + Len(b)
        /\ \A j \in 1 .. Len(c) + Len(b) :
             (c \o b)[j] = IF j <= Len(c) THEN c[j] ELSE b[j - Len(c)]
    BY <1>3, <1>5, ConcatProperties
  <2>3. Len(c) + Len(b) = Len(s) + 1
    BY <1>1, <1>3, <1>5
  <2>4. ASSUME NEW j \in 1 .. Len(s) + 1
        PROVE  (c \o b)[j] = IF j < i THEN s[j] ELSE IF j = i THEN t ELSE s[j - 1]
    <3>1. CASE j <= i
      BY <1>1, <1>5, <2>2, <2>3, <3>1
    <3>2. CASE ~ (j <= i)
      <4>1. (c \o b)[j] = b[j - i]
        BY <1>1, <1>5, <2>2, <2>3, <3>2
      <4>2. j - i \in 1 .. Len(s) - i + 1 /\ i + (j - i) - 1 = j - 1
        BY <1>1, <3>2
      <4> QED BY <1>1, <1>3, <3>2, <4>1, <4>2
    <3> QED BY <3>1, <3>2
  <2> QED BY <2>1, <2>2, <2>3, <2>4
<1> QED BY <1>6

(* A thread that is not in a list yet is linked at some place of it.       *)
LEMMA InsertAtFacts ==
  ASSUME NEW s \in Seq(Thread), NEW t \in Thread, NEW i \in 1 .. Len(s) + 1
  PROVE  /\ InsertAt(s, i, t) \in Seq(Thread)
         /\ \A x : x \in Range(InsertAt(s, i, t)) <=> x \in Range(s) \/ x = t
         /\ IsInjective(s) /\ t \notin Range(s) => IsInjective(InsertAt(s, i, t))
<1> DEFINE r == InsertAt(s, i, t)
<1>1. Len(s) \in Nat /\ DOMAIN s = 1 .. Len(s) /\ \A j \in 1 .. Len(s) : s[j] \in Thread
  BY LenProperties, ElementOfSeq
<1>2. /\ r \in Seq(Thread) /\ Len(r) = Len(s) + 1
      /\ \A j \in 1 .. Len(s) + 1 :
           r[j] = IF j < i THEN s[j] ELSE IF j = i THEN t ELSE s[j - 1]
  BY InsertAtElements
<1>3. DOMAIN r = 1 .. Len(s) + 1
  BY <1>2, LenProperties
<1> HIDE DEF r
<1>4. Range(r) = Range(s) \cup {t}
  <2>1. ASSUME NEW j \in DOMAIN r  PROVE r[j] \in Range(s) \cup {t}
    BY <1>1, <1>2, <1>3, SMTT(40) DEF Range
  <2>2. ASSUME NEW j \in DOMAIN s  PROVE s[j] \in Range(r)
    <3>1. CASE j < i
      <4>1. j \in DOMAIN r /\ r[j] = s[j]
        BY <1>1, <1>2, <1>3, <3>1
      <4> QED BY <4>1 DEF Range
    <3>2. CASE ~ (j < i)
      <4>1. j + 1 \in DOMAIN r /\ r[j + 1] = s[j]
        BY <1>1, <1>2, <1>3, <3>2
      <4> QED BY <4>1 DEF Range
    <3> QED BY <3>1, <3>2
  <2>3. t \in Range(r)
    <3>1. i \in DOMAIN r /\ r[i] = t
      BY <1>1, <1>2, <1>3
    <3> QED BY <3>1 DEF Range
  <2> QED BY <2>1, <2>2, <2>3 DEF Range
<1>5. ASSUME IsInjective(s), t \notin Range(s)  PROVE IsInjective(r)
  <2> SUFFICES ASSUME NEW x \in DOMAIN r, NEW y \in DOMAIN r, r[x] = r[y]  PROVE x = y
    BY DEF IsInjective
  <2> DEFINE old(j) == IF j < i THEN j ELSE j - 1
  <2>1. \A j \in DOMAIN r : j # i => old(j) \in DOMAIN s /\ r[j] = s[old(j)]
    BY <1>1, <1>2, <1>3
  <2>2. \A j \in DOMAIN r : j # i => r[j] # t
    BY <1>5, <2>1 DEF Range
  <2>3. r[i] = t
    BY <1>1, <1>2
  <2>4. CASE x = i \/ y = i
    BY <2>2, <2>3, <2>4
  <2>5. CASE x # i /\ y # i
    <3>1. old(x) = old(y)
      BY <1>5, <2>1, <2>5 DEF IsInjective
    <3> QED BY <1>1, <1>3, <2>5, <3>1
  <2> QED BY <2>4, <2>5
<1> QED BY <1>2, <1>4, <1>5 DEF r

(* The same at the end and at the head.                                    *)
LEMMA AppendFacts ==
  ASSUME NEW s \in Seq(Thread), NEW t \in Thread
  PROVE  /\ Append(s, t) \in Seq(Thread) /\ Append(s, t) # << >>
         /\ \A x : x \in Range(Append(s, t)) <=> x \in Range(s) \/ x = t
         /\ IsInjective(s) /\ t \notin Range(s) => IsInjective(Append(s, t))
<1> DEFINE r == Append(s, t)
<1>1. Len(s) \in Nat /\ DOMAIN s = 1 .. Len(s)
  BY LenProperties
<1>2. /\ r \in Seq(Thread) /\ r # << >> /\ Len(r) = Len(s) + 1
      /\ \A j \in 1 .. Len(s) : r[j] = s[j]
      /\ r[Len(s) + 1] = t
  BY AppendProperties
<1>3. DOMAIN r = 1 .. Len(s) + 1
  BY <1>2, LenProperties
<1> HIDE DEF r
<1>4. Range(r) = Range(s) \cup {t}
  <2>1. ASSUME NEW j \in DOMAIN r  PROVE r[j] \in Range(s) \cup {t}
    BY <1>1, <1>2, <1>3 DEF Range
  <2>2. ASSUME NEW j \in DOMAIN s  PROVE j \in DOMAIN r /\ r[j] = s[j]
    BY <1>1, <1>2, <1>3
  <2>3. Len(s) + 1 \in DOMAIN r
    BY <1>1, <1>3
  <2> QED BY <1>2, <2>1, <2>2, <2>3 DEF Range
<1>5. IsInjective(s) /\ t \notin Range(s) => IsInjective(r)
  BY <1>1, <1>2, <1>3 DEF IsInjective, Range
<1> QED BY <1>2, <1>4, <1>5 DEF r

(* rt_list_insert_after puts the defunct thread at the front, once.        *)
LEMMA PushFacts ==
  ASSUME NEW s \in Seq(Thread), NEW t \in Thread
  PROVE  /\ <<t>> \o s \in Seq(Thread)
         /\ \A x : x \in Range(<<t>> \o s) <=> x \in Range(s) \/ x = t
         /\ IsInjective(s) /\ t \notin Range(s) => IsInjective(<<t>> \o s)
<1> DEFINE r == <<t>> \o s
<1>1. Len(s) \in Nat /\ DOMAIN s = 1 .. Len(s)
  BY LenProperties
<1>2. <<t>> \in Seq(Thread) /\ Len(<<t>>) = 1 /\ <<t>>[1] = t
  OBVIOUS
<1>3. /\ r \in Seq(Thread) /\ Len(r) = 1 + Len(s)
      /\ \A j \in 1 .. 1 + Len(s) : r[j] = IF j <= 1 THEN <<t>>[j] ELSE s[j - 1]
  BY <1>2, ConcatProperties
<1>4. r[1] = t /\ \A j \in 1 .. Len(s) : r[j + 1] = s[j]
  BY <1>1, <1>2, <1>3
<1>5. DOMAIN r = 1 .. Len(s) + 1
  BY <1>1, <1>3, LenProperties
<1> HIDE DEF r
<1>6. ASSUME NEW j \in DOMAIN r  PROVE (j = 1 /\ r[j] = t) \/ (j - 1 \in DOMAIN s /\ r[j] = s[j - 1])
  <2>1. CASE j = 1
    BY <1>4, <2>1
  <2>2. CASE j # 1
    <3>1. j - 1 \in 1 .. Len(s) /\ (j - 1) + 1 = j
      BY <1>1, <1>5, <2>2
    <3> QED BY <1>1, <1>4, <3>1
  <2> QED BY <2>1, <2>2
<1>7. Range(r) = Range(s) \cup {t}
  <2>1. ASSUME NEW j \in DOMAIN s  PROVE j + 1 \in DOMAIN r /\ r[j + 1] = s[j]
    BY <1>1, <1>4, <1>5
  <2>2. 1 \in DOMAIN r
    BY <1>1, <1>5
  <2> QED BY <1>4, <1>6, <2>1, <2>2 DEF Range
<1>8. IsInjective(s) /\ t \notin Range(s) => IsInjective(r)
  BY <1>1, <1>4, <1>5, <1>6 DEF IsInjective, Range
<1> QED BY <1>3, <1>7, <1>8 DEF r

(* The head of a list that is not empty is in it.                          *)
LEMMA HeadFacts ==
  ASSUME NEW s \in Seq(Thread), s # << >>
  PROVE  Head(s) \in Thread /\ Head(s) \in Range(s)
<1>1. Len(s) \in Nat \ {0} /\ DOMAIN s = 1 .. Len(s)
  BY LenProperties, EmptySeq
<1>2. Head(s) = s[1]
  BY <1>1
<1>3. 1 \in DOMAIN s
  BY <1>1
<1> QED BY <1>2, <1>3, RangeOfSeq DEF Range

(* rt_list_isempty: no thread is linked.                                   *)
LEMMA EmptyRange ==
  ASSUME NEW s \in Seq(Thread)
  PROVE  s = << >> <=> Range(s) = {}
<1>1. s # << >> => Range(s) # {}
  BY HeadFacts
<1>2. s = << >> => Range(s) = {}
  BY EmptySeq, LenProperties DEF Range
<1> QED BY <1>1, <1>2

(* The least element of a set of numbers.                                  *)
LEMMA LeastElement ==
  ASSUME NEW T \in SUBSET Nat, T # {}
  PROVE  \E m \in T : \A n \in T : m <= n
<1> DEFINE R == {ss \in Nat \X Nat : ss[1] < ss[2]}
<1>1. IsWellFoundedOn(R, Nat)
  BY NatLessThanWellFounded DEF OpToRel
<1> HIDE DEF R
<1>2. PICK m \in T : \A n \in T : ~ (<<n, m>> \in R)
  BY <1>1, WFMin
<1>3. \A n \in T : ~ (n < m)
  BY <1>2 DEF R
<1> QED BY <1>3

(***************************************************************************)
(* The well-formed kernel states: Wf(q, S) where every thread of S that is *)
(* ready is queued.  A thread between two lists is loose.                  *)
(***************************************************************************)
Wf(q, S) ==
  /\ q \in KernelState
  /\ QueuesExact(q) /\ ReadyQueued(q, S) /\ OneList(q) /\ TimersOfSuspended(q)

Loose(q, t) ==
  /\ \A p \in Prio : t \notin Range(q.rq[p])
  /\ \A l \in WaitList : t \notin Range(q.wl[l])
  /\ t \notin Range(q.defunct)

(* The operator that made r of q has touched lists and the bitmap only.    *)
SameThreads(r, q) ==
  /\ r.stat = q.stat /\ r.prio = q.prio /\ r.err = q.err /\ r.yield = q.yield
  /\ r.tmr = q.tmr /\ r.cur = q.cur /\ r.nest = q.nest

(* Nobody has been linked into a wait list or the defunct list.            *)
Fewer(r, q) ==
  /\ \A l \in WaitList : Range(r.wl[l]) \subseteq Range(q.wl[l])
  /\ Range(r.defunct) \subseteq Range(q.defunct)

(* A thread that is not ready is in no queue; one that is, in its own only.*)
LEMMA QueueOf ==
  ASSUME NEW q, NEW S \in SUBSET Thread, Wf(q, S), NEW t \in Thread, NEW p \in Prio, t \in Range(q.rq[p])
  PROVE  q.stat[t] = "ready" /\ p = q.prio[t]
BY DEF Wf, QueuesExact

(* The node of a running or initialized thread is in no list at all.       *)
LEMMA NoListOf ==
  ASSUME NEW q, NEW S \in SUBSET Thread, Wf(q, S), NEW t \in Thread, q.stat[t] \notin {"ready", "suspend", "close"}
  PROVE  Loose(q, t)
BY DEF Wf, QueuesExact, OneList, Loose

(* Every list of q less t, and nothing else.                               *)
LEMMA UnlinkFacts ==
  ASSUME NEW q, NEW S \in SUBSET Thread, Wf(q, S), NEW t \in Thread, NEW r, r = Unlink(q, t)
  PROVE  /\ r \in KernelState /\ SameThreads(r, q) /\ Loose(r, t) /\ r.group = q.group
         /\ OneList(r)
         /\ \A p \in Prio : /\ IsInjective(r.rq[p])
                            /\ \A x : x \in Range(r.rq[p]) <=> x \in Range(q.rq[p]) /\ x # t
                            /\ t \notin Range(q.rq[p]) => r.rq[p] = q.rq[p]
         /\ \A l \in WaitList : \A x : x \in Range(r.wl[l]) <=> x \in Range(q.wl[l]) /\ x # t
         /\ \A x : x \in Range(r.defunct) <=> x \in Range(q.defunct) /\ x # t
<1>1. q \in KernelState /\ QueuesExact(q) /\ OneList(q)
  BY DEF Wf
<1>2. /\ r.rq = [p \in Prio |-> Unlinked(q.rq[p], t)]
      /\ r.wl = [l \in WaitList |-> Unlinked(q.wl[l], t)]
      /\ r.defunct = Unlinked(q.defunct, t)
      /\ r.group = q.group /\ SameThreads(r, q)
  BY <1>1 DEF Unlink, KernelState, SameThreads
<1>3. \A p \in Prio : /\ r.rq[p] \in Seq(Thread) /\ IsInjective(r.rq[p])
                      /\ \A x : x \in Range(r.rq[p]) <=> x \in Range(q.rq[p]) /\ x # t
                      /\ t \notin Range(q.rq[p]) => r.rq[p] = q.rq[p]
  <2> TAKE p \in Prio
  <2>1. q.rq[p] \in Seq(Thread) /\ IsInjective(q.rq[p])
    BY <1>1 DEF KernelState, QueuesExact
  <2>2. r.rq[p] = Unlinked(q.rq[p], t)
    BY <1>2
  <2> QED BY <2>1, <2>2, UnlinkedFacts
<1>4. \A l \in WaitList : /\ r.wl[l] \in Seq(Thread) /\ IsInjective(r.wl[l])
                          /\ \A x : x \in Range(r.wl[l]) <=> x \in Range(q.wl[l]) /\ x # t
  <2> TAKE l \in WaitList
  <2>1. q.wl[l] \in Seq(Thread) /\ IsInjective(q.wl[l])
    BY <1>1 DEF KernelState, OneList
  <2>2. r.wl[l] = Unlinked(q.wl[l], t)
    BY <1>2
  <2> QED BY <2>1, <2>2, UnlinkedFacts
<1>5. /\ r.defunct \in Seq(Thread) /\ IsInjective(r.defunct)
      /\ \A x : x \in Range(r.defunct) <=> x \in Range(q.defunct) /\ x # t
  <2>1. q.defunct \in Seq(Thread) /\ IsInjective(q.defunct)
    BY <1>1 DEF KernelState, OneList
  <2> QED BY <1>2, <2>1, UnlinkedFacts
<1>6. r \in KernelState
  <2>1. r.rq \in [Prio -> Seq(Thread)] /\ r.wl \in [WaitList -> Seq(Thread)]
    BY <1>2, <1>3, <1>4
  <2>2. r = [q EXCEPT !.rq = r.rq, !.wl = r.wl, !.defunct = r.defunct]
    BY <1>1, <1>2 DEF Unlink, KernelState
  <2> QED BY <1>1, <1>5, <2>1, <2>2 DEF KernelState
<1>7. Loose(r, t)
  BY <1>3, <1>4, <1>5 DEF Loose
<1>8. OneList(r)
  <2>1. r.stat = q.stat
    BY <1>2 DEF SameThreads
  <2>2. \A l \in WaitList : IsInjective(r.wl[l]) /\ Range(r.wl[l]) \subseteq Range(q.wl[l])
    BY <1>4
  <2>3. IsInjective(r.defunct) /\ Range(r.defunct) \subseteq Range(q.defunct)
    BY <1>5
  <2> QED BY <1>1, <2>1, <2>2, <2>3 DEF OneList
<1> QED BY <1>2, <1>3, <1>4, <1>5, <1>6, <1>7, <1>8

(* rt_list_remove of a thread that is not ready keeps the bitmap exact;    *)
(* with rt_schedule_remove_thread it may be any thread.                    *)
LEMMA UnlinkWf ==
  ASSUME NEW q, NEW S \in SUBSET Thread, Wf(q, S), NEW t \in Thread, q.stat[t] # "ready", NEW r, r = Unlink(q, t)
  PROVE  Wf(r, S) /\ Loose(r, t) /\ SameThreads(r, q) /\ Fewer(r, q)
<1>1. /\ r \in KernelState /\ SameThreads(r, q) /\ Loose(r, t) /\ r.group = q.group
      /\ OneList(r)
  BY UnlinkFacts
<1>2. \A p \in Prio : r.rq[p] = q.rq[p]
  BY UnlinkFacts, QueueOf
<1>3. {p \in Prio : r.rq[p] # << >>} = {p \in Prio : q.rq[p] # << >>}
  BY <1>2
<1>4. QueuesExact(r)
  BY <1>1, <1>2, <1>3 DEF Wf, QueuesExact, SameThreads
<1>5. ReadyQueued(r, S) /\ TimersOfSuspended(r)
  BY <1>1, <1>2 DEF Wf, ReadyQueued, TimersOfSuspended, SameThreads, KernelState
<1>6. Fewer(r, q)
  BY UnlinkFacts, SMTT(40) DEF Fewer
<1> QED BY <1>1, <1>4, <1>5, <1>6 DEF Wf

(* rt_schedule_remove_thread of any thread: its queue may become empty, and*)
(* then the bit is cleared, so the bitmap stays exact.                     *)
LEMMA RemoveThreadWf ==
  ASSUME NEW q, NEW S \in SUBSET Thread, Wf(q, S), NEW t \in Thread, NEW r, r = RemoveThread(q, t)
  PROVE  Wf(r, S \ {t}) /\ Loose(r, t) /\ SameThreads(r, q) /\ Fewer(r, q)
<1> DEFINE u == Unlink(q, t)
<1>1. q \in KernelState /\ QueuesExact(q) /\ ReadyQueued(q, S) /\ TimersOfSuspended(q)
  BY DEF Wf
<1>2. /\ u \in KernelState /\ SameThreads(u, q) /\ Loose(u, t) /\ u.group = q.group
      /\ OneList(u)
  BY UnlinkFacts
<1>3. \A p \in Prio : /\ IsInjective(u.rq[p])
                      /\ \A x : x \in Range(u.rq[p]) <=> x \in Range(q.rq[p]) /\ x # t
                      /\ t \notin Range(q.rq[p]) => u.rq[p] = q.rq[p]
  BY UnlinkFacts
<1>4. r = IF u.rq[q.prio[t]] = << >> THEN [u EXCEPT !.group = @ \ {q.prio[t]}] ELSE u
  BY DEF RemoveThread
<1> HIDE DEF u
<1>5. /\ r \in KernelState /\ SameThreads(r, q)
      /\ r.rq = u.rq /\ r.wl = u.wl /\ r.defunct = u.defunct
      /\ r.group = IF u.rq[q.prio[t]] = << >> THEN q.group \ {q.prio[t]} ELSE q.group
  <2>1. CASE u.rq[q.prio[t]] = << >>
    <3>1. r = [u EXCEPT !.group = @ \ {q.prio[t]}]
      BY <1>4, <2>1
    <3>2. /\ r.stat = u.stat /\ r.prio = u.prio /\ r.err = u.err /\ r.yield = u.yield
          /\ r.tmr = u.tmr /\ r.cur = u.cur /\ r.nest = u.nest
          /\ r.rq = u.rq /\ r.wl = u.wl /\ r.defunct = u.defunct
          /\ r.group = u.group \ {q.prio[t]}
      BY <1>2, <3>1 DEF KernelState
    <3>3. r \in KernelState
      BY <1>2, <3>1, ZenonT(40) DEF KernelState
    <3> QED BY <1>2, <2>1, <3>2, <3>3 DEF SameThreads
  <2>2. CASE u.rq[q.prio[t]] # << >>
    BY <1>2, <1>4, <2>2
  <2> QED BY <2>1, <2>2
<1>6. r.group = {p \in Prio : r.rq[p] # << >>}
  <2>1. q.group = {p \in Prio : q.rq[p] # << >>} /\ q.prio[t] \in Prio
    BY <1>1 DEF QueuesExact, KernelState
  <2>2. \A p \in Prio : p # q.prio[t] => r.rq[p] = q.rq[p]
    BY <1>3, <1>5, QueueOf
  <2>3. r.rq[q.prio[t]] # << >> => q.rq[q.prio[t]] # << >>
    <3>1. r.rq[q.prio[t]] \in Seq(Thread) /\ q.rq[q.prio[t]] \in Seq(Thread)
      BY <1>1, <1>5, <2>1 DEF KernelState
    <3> QED BY <1>3, <1>5, <2>1, <3>1, EmptyRange
  <2> QED BY <1>5, <2>1, <2>2, <2>3
<1>7. QueuesExact(r)
  BY <1>1, <1>3, <1>5, <1>6 DEF QueuesExact, SameThreads
<1>8. ReadyQueued(r, S \ {t})
  <2> SUFFICES ASSUME NEW x \in S, x # t, r.stat[x] = "ready"  PROVE x \in Range(r.rq[r.prio[x]])
    BY DEF ReadyQueued
  <2>1. x \in Range(q.rq[q.prio[x]])
    BY <1>1, <1>5 DEF ReadyQueued, SameThreads
  <2>2. q.prio[x] \in Prio
    BY <1>1 DEF KernelState
  <2> QED BY <1>3, <1>5, <2>1, <2>2 DEF SameThreads
<1>9. OneList(r)
  BY <1>2, <1>5 DEF OneList, SameThreads
<1>10. TimersOfSuspended(r) /\ Loose(r, t)
  BY <1>1, <1>2, <1>5 DEF TimersOfSuspended, Loose, SameThreads
<1>11. Fewer(r, q)
  <2>1. u = Unlink(q, t)
    BY DEF u
  <2>2. Fewer(u, q)
    BY <2>1, UnlinkFacts, ZenonT(40) DEF Fewer
  <2> QED BY <1>5, <2>2 DEF Fewer
<1> QED BY <1>5, <1>7, <1>8, <1>9, <1>10, <1>11 DEF Wf

(* A change of the other fields changes nothing of this.                   *)
LEMMA SameListsWf ==
  ASSUME NEW q, NEW S \in SUBSET Thread, Wf(q, S), NEW r \in KernelState,
         r.stat = q.stat, r.prio = q.prio, r.rq = q.rq, r.group = q.group,
         r.wl = q.wl, r.defunct = q.defunct, r.tmr \subseteq q.tmr
  PROVE  Wf(r, S)
BY DEF Wf, QueuesExact, ReadyQueued, OneList, TimersOfSuspended

(* A loose thread with no timer may take any state but "ready".            *)
SetStat(q, t, v) == [q EXCEPT !.stat[t] = v]

(* An assignment to thread->stat while the node is in no list.             *)
LEMMA SetStatWf ==
  ASSUME NEW q, NEW S \in SUBSET Thread, Wf(q, S), NEW t \in Thread, Loose(q, t), t \notin q.tmr,
         NEW v \in Stat, v # "ready", NEW r, r = SetStat(q, t, v)
  PROVE  /\ Wf(r, S \cup {t}) /\ Loose(r, t)
         /\ r.stat = [q.stat EXCEPT ![t] = v]
         /\ r.prio = q.prio /\ r.err = q.err /\ r.yield = q.yield /\ r.tmr = q.tmr
         /\ r.cur = q.cur /\ r.nest = q.nest /\ r.wl = q.wl /\ r.defunct = q.defunct
<1>1. q \in KernelState /\ QueuesExact(q) /\ ReadyQueued(q, S) /\ OneList(q) /\ TimersOfSuspended(q)
  BY DEF Wf
<1>2. /\ r \in KernelState
      /\ r.stat = [q.stat EXCEPT ![t] = v]
      /\ r.prio = q.prio /\ r.err = q.err /\ r.yield = q.yield /\ r.tmr = q.tmr
      /\ r.cur = q.cur /\ r.nest = q.nest /\ r.wl = q.wl /\ r.defunct = q.defunct
      /\ r.rq = q.rq /\ r.group = q.group
  BY <1>1 DEF KernelState, SetStat
<1>3. \A x \in Thread : x # t => r.stat[x] = q.stat[x]
  BY <1>1, <1>2 DEF KernelState
<1>4. r.stat[t] = v
  BY <1>1, <1>2 DEF KernelState
<1>5. Loose(r, t)
  BY <1>2 DEF Loose
<1>6. QueuesExact(r)
  <2> SUFFICES ASSUME NEW p \in Prio, NEW x \in Range(q.rq[p])
               PROVE  r.stat[x] = q.stat[x]
    BY <1>1, <1>2 DEF QueuesExact
  <2>1. x \in Thread
    BY <1>1, RangeOfSeq DEF KernelState
  <2>2. x # t
    BY DEF Loose
  <2> QED BY <1>3, <2>1, <2>2
<1>7. ReadyQueued(r, S \cup {t})
  BY <1>1, <1>2, <1>3, <1>4 DEF ReadyQueued
<1>8. OneList(r)
  <2>1. \A l \in WaitList : \A x \in Range(q.wl[l]) : r.stat[x] = q.stat[x]
    <3> SUFFICES ASSUME NEW l \in WaitList, NEW x \in Range(q.wl[l])  PROVE r.stat[x] = q.stat[x]
      OBVIOUS
    <3>1. x \in Thread
      BY <1>1, RangeOfSeq DEF KernelState
    <3>2. x # t
      BY DEF Loose
    <3> QED BY <1>3, <3>1, <3>2
  <2>2. \A x \in Range(q.defunct) : r.stat[x] = q.stat[x]
    BY <1>1, <1>3, RangeOfSeq DEF KernelState, Loose
  <2> QED BY <1>1, <1>2, <2>1, <2>2 DEF OneList
<1>9. TimersOfSuspended(r)
  BY <1>1, <1>2, <1>3 DEF TimersOfSuspended, KernelState
<1> QED BY <1>2, <1>5, <1>6, <1>7, <1>8, <1>9 DEF Wf

(* A loose thread that is made ready is queued, and the bitmap tells.      *)
Queue(q, t) ==
  [q EXCEPT !.stat[t] = "ready", !.rq[q.prio[t]] = Append(@, t), !.group = @ \cup {q.prio[t]}]

(* The two lists of rt_schedule_insert_thread stay exact: the bit is set   *)
(* for the queue the thread is appended to.                                *)
LEMMA QueueWf ==
  ASSUME NEW q, NEW S \in SUBSET Thread, Wf(q, S), NEW t \in Thread, Loose(q, t), t \notin q.tmr,
         NEW r, r = Queue(q, t)
  PROVE  /\ Wf(r, S \cup {t})
         /\ r.stat = [q.stat EXCEPT ![t] = "ready"]
         /\ r.prio = q.prio /\ r.err = q.err /\ r.yield = q.yield /\ r.tmr = q.tmr
         /\ r.cur = q.cur /\ r.nest = q.nest /\ r.wl = q.wl /\ r.defunct = q.defunct
<1> DEFINE P == q.prio[t]
<1>1. q \in KernelState /\ QueuesExact(q) /\ ReadyQueued(q, S) /\ OneList(q) /\ TimersOfSuspended(q)
  BY DEF Wf
<1>2. P \in Prio /\ q.rq[P] \in Seq(Thread) /\ IsInjective(q.rq[P]) /\ t \notin Range(q.rq[P])
  BY <1>1 DEF KernelState, QueuesExact, Loose
<1>3. /\ Append(q.rq[P], t) \in Seq(Thread) /\ Append(q.rq[P], t) # << >>
      /\ \A x : x \in Range(Append(q.rq[P], t)) <=> x \in Range(q.rq[P]) \/ x = t
      /\ IsInjective(Append(q.rq[P], t))
  BY <1>2, AppendFacts
<1>4. /\ r \in KernelState
      /\ r.stat = [q.stat EXCEPT ![t] = "ready"]
      /\ r.rq = [q.rq EXCEPT ![P] = Append(q.rq[P], t)]
      /\ r.group = q.group \cup {P}
      /\ r.prio = q.prio /\ r.err = q.err /\ r.yield = q.yield /\ r.tmr = q.tmr
      /\ r.cur = q.cur /\ r.nest = q.nest /\ r.wl = q.wl /\ r.defunct = q.defunct
  <2>1. "ready" \in Stat
    BY DEF Stat
  <2> QED BY <1>1, <1>2, <1>3, <2>1 DEF KernelState, Queue
<1> HIDE DEF P
<1>5. /\ \A x \in Thread : x # t => r.stat[x] = q.stat[x]
      /\ r.stat[t] = "ready"
  BY <1>1, <1>4 DEF KernelState
<1>6. /\ r.rq[P] = Append(q.rq[P], t)
      /\ \A p \in Prio : p # P => r.rq[p] = q.rq[p]
  BY <1>1, <1>2, <1>4, SMTT(40) DEF KernelState
<1>7. QueuesExact(r)
  <2>1. r.group = {p \in Prio : r.rq[p] # << >>}
    <3>1. q.group = {p \in Prio : q.rq[p] # << >>}
      BY <1>1 DEF QueuesExact
    <3> QED BY <1>2, <1>3, <1>4, <1>6, <3>1
  <2>2. \A p \in Prio : IsInjective(r.rq[p])
    BY <1>1, <1>3, <1>6 DEF QueuesExact
  <2>3. ASSUME NEW p \in Prio, NEW x \in Range(r.rq[p])
        PROVE  r.stat[x] = "ready" /\ r.prio[x] = p
    <3>1. CASE x = t /\ p = P
      BY <1>4, <1>5, <3>1 DEF P
    <3>2. CASE x \in Range(q.rq[p])
      <4>1. q.stat[x] = "ready" /\ q.prio[x] = p
        BY <1>1, <3>2 DEF QueuesExact
      <4>2. x \in Thread
        BY <1>1, <3>2, RangeOfSeq DEF KernelState
      <4>3. x # t
        BY <3>2 DEF Loose
      <4> QED BY <1>4, <1>5, <4>1, <4>2, <4>3
    <3> QED BY <1>3, <1>6, <3>1, <3>2
  <2> QED BY <2>1, <2>2, <2>3 DEF QueuesExact
<1>8. ReadyQueued(r, S \cup {t})
  <2> SUFFICES ASSUME NEW x \in S \cup {t}, r.stat[x] = "ready"
               PROVE  x \in Range(r.rq[r.prio[x]])
    BY SMTT(40) DEF ReadyQueued
  <2>1. CASE x = t
    BY <1>3, <1>4, <1>6, <2>1 DEF P
  <2>2. CASE x # t
    <3>1. x \in Range(q.rq[q.prio[x]]) /\ q.prio[x] \in Prio
      BY <1>1, <1>5, <2>2 DEF ReadyQueued, KernelState
    <3> QED BY <1>3, <1>4, <1>6, <3>1
  <2> QED BY <2>1, <2>2
<1>9. OneList(r)
  <2>1. \A l \in WaitList : \A x \in Range(q.wl[l]) : r.stat[x] = q.stat[x]
    <3> SUFFICES ASSUME NEW l \in WaitList, NEW x \in Range(q.wl[l])  PROVE r.stat[x] = q.stat[x]
      OBVIOUS
    <3>1. x \in Thread
      BY <1>1, RangeOfSeq DEF KernelState
    <3>2. x # t
      BY DEF Loose
    <3> QED BY <1>5, <3>1, <3>2
  <2>2. \A x \in Range(q.defunct) : r.stat[x] = q.stat[x]
    BY <1>1, <1>5, RangeOfSeq DEF KernelState, Loose
  <2> QED BY <1>1, <1>4, <2>1, <2>2 DEF OneList
<1>10. TimersOfSuspended(r)
  BY <1>1, <1>4, <1>5 DEF TimersOfSuspended, KernelState
<1> QED BY <1>4, <1>7, <1>8, <1>9, <1>10 DEF Wf

(***************************************************************************)
(* The primitives.                                                         *)
(***************************************************************************)
LEMMA InsertThreadWf ==
  ASSUME NEW q, NEW S \in SUBSET Thread, Wf(q, S), NEW t \in Thread, Loose(q, t), t \notin q.tmr,
         NEW r, r = InsertThread(q, t)
  PROVE  /\ Wf(r, S \cup {t})
         /\ r.stat = [q.stat EXCEPT ![t] = IF t = q.cur THEN "running" ELSE "ready"]
         /\ r.prio = q.prio /\ r.err = q.err /\ r.yield = q.yield /\ r.tmr = q.tmr
         /\ r.cur = q.cur /\ r.nest = q.nest /\ Fewer(r, q)
<1>1. CASE t = q.cur
  <2>1. "running" \in Stat /\ "running" # "ready"
    BY DEF Stat
  <2>2. r = [q EXCEPT !.stat[t] = "running"]
    BY <1>1 DEF InsertThread
  <2>3. r = SetStat(q, t, "running")
    BY <2>2 DEF SetStat
  <2>4. /\ Wf(r, S \cup {t}) /\ r.stat = [q.stat EXCEPT ![t] = "running"]
        /\ r.prio = q.prio /\ r.err = q.err /\ r.yield = q.yield /\ r.tmr = q.tmr
        /\ r.cur = q.cur /\ r.nest = q.nest /\ r.wl = q.wl /\ r.defunct = q.defunct
    BY <2>1, <2>3, SetStatWf, SMTT(40)
  <2> QED BY <1>1, <2>4 DEF Fewer
<1>2. CASE t # q.cur
  <2>1. r = Queue(q, t)
    BY <1>2 DEF InsertThread, Queue
  <2> QED BY <1>2, <2>1, QueueWf DEF Fewer
<1> QED BY <1>1, <1>2

(* The thread that leaves the processor.                                   *)
LEMMA PutBackWf ==
  ASSUME NEW q, Wf(q, Thread), NEW r, r = PutBack(q)
  PROVE  /\ Wf(r, Thread)
         /\ r.stat = IF q.stat[q.cur] = "running" THEN [q.stat EXCEPT ![q.cur] = "ready"] ELSE q.stat
         /\ r.prio = q.prio /\ r.err = q.err /\ r.tmr = q.tmr
         /\ r.cur = q.cur /\ r.nest = q.nest /\ Fewer(r, q)
<1>1. q \in KernelState /\ q.cur \in Thread
  BY DEF Wf, KernelState
<1>2. CASE q.stat[q.cur] = "running"
  <2> DEFINE u == [q EXCEPT !.yield = @ \ {q.cur}]
  <2>1. /\ u \in KernelState /\ u.stat = q.stat /\ u.prio = q.prio /\ u.rq = q.rq /\ u.group = q.group
        /\ u.wl = q.wl /\ u.defunct = q.defunct /\ u.tmr = q.tmr
        /\ u.err = q.err /\ u.cur = q.cur /\ u.nest = q.nest
    BY <1>1 DEF KernelState
  <2>2. Loose(q, q.cur) /\ q.cur \notin q.tmr
    <3>1. q.stat[q.cur] \notin {"ready", "suspend", "close"}
      BY <1>2
    <3>2. Loose(q, q.cur)
      BY <1>1, <3>1, NoListOf
    <3> QED BY <1>2, <3>2 DEF Wf, TimersOfSuspended
  <2>3. r = Queue(u, q.cur)
    BY <1>1, <1>2 DEF PutBack, KernelState, Queue
  <2> HIDE DEF u
  <2>4. Wf(u, Thread) /\ Loose(u, q.cur) /\ q.cur \notin u.tmr
    BY <2>1, <2>2, SameListsWf DEF Loose
  <2>5. /\ Wf(r, Thread \cup {q.cur})
        /\ r.stat = [u.stat EXCEPT ![q.cur] = "ready"]
        /\ r.prio = u.prio /\ r.err = u.err /\ r.tmr = u.tmr
        /\ r.cur = u.cur /\ r.nest = u.nest /\ r.wl = u.wl /\ r.defunct = u.defunct
    BY <1>1, <2>3, <2>4, QueueWf
  <2>6. Thread \cup {q.cur} = Thread
    BY <1>1
  <2> QED BY <1>2, <2>1, <2>5, <2>6 DEF Fewer
<1>3. CASE q.stat[q.cur] # "running"
  BY <1>3 DEF PutBack, Fewer
<1> QED BY <1>2, <1>3

(* The thread that gets the processor.                                     *)
LEMMA SetRunningWf ==
  ASSUME NEW q, Wf(q, Thread), NEW t \in Thread, t \notin q.tmr, NEW r, r = SetRunning(q, t)
  PROVE  /\ Wf(r, Thread)
         /\ r.stat = [q.stat EXCEPT ![t] = "running"]
         /\ r.prio = q.prio /\ r.err = q.err /\ r.yield = q.yield /\ r.tmr = q.tmr
         /\ r.cur = q.cur /\ r.nest = q.nest /\ Fewer(r, q)
<1> DEFINE u == RemoveThread(q, t)
           S == Thread \ {t}
<1>1. Wf(u, S) /\ Loose(u, t) /\ SameThreads(u, q) /\ Fewer(u, q)
  BY RemoveThreadWf
<1>2. r = SetStat(u, t, "running")
  BY DEF SetRunning, SetStat
<1> HIDE DEF u
<1>3. "running" \in Stat /\ "running" # "ready" /\ t \notin u.tmr
  BY <1>1 DEF Stat, SameThreads
<1>4. S \in SUBSET Thread /\ S \cup {t} = Thread
  OBVIOUS
<1> HIDE DEF S
<1>5. Wf(u, S)
  BY <1>1
<1>6. Loose(u, t)
  BY <1>1
<1>7. /\ Wf(r, S \cup {t})
      /\ r.stat = [u.stat EXCEPT ![t] = "running"]
      /\ r.prio = u.prio /\ r.err = u.err /\ r.yield = u.yield /\ r.tmr = u.tmr
      /\ r.cur = u.cur /\ r.nest = u.nest /\ r.wl = u.wl /\ r.defunct = u.defunct
  BY <1>2, <1>3, <1>4, <1>5, <1>6, SetStatWf
<1> QED BY <1>1, <1>4, <1>7 DEF SameThreads, Fewer

(* The bitmap is looked into only when it is not empty; it then names a    *)
(* queue that has a head.                                                  *)
LEMMA HighestThreadReady ==
  ASSUME NEW q, Wf(q, Thread), q.group # {}
  PROVE  /\ HighestPrio(q) \in q.group /\ \A o \in q.group : HighestPrio(q) <= o
         /\ HighestThread(q) \in Thread /\ q.stat[HighestThread(q)] = "ready"
<1>1. q \in KernelState /\ QueuesExact(q)
  BY DEF Wf
<1>2. q.group \in SUBSET Nat
  BY <1>1, KernelAssumption DEF KernelState, Prio
<1>3. \E p \in q.group : \A o \in q.group : p <= o
  BY <1>2, LeastElement
<1>4. HighestPrio(q) \in q.group /\ \A o \in q.group : HighestPrio(q) <= o
  BY <1>3 DEF HighestPrio
<1>5. /\ HighestPrio(q) \in Prio /\ q.rq[HighestPrio(q)] # << >>
      /\ q.rq[HighestPrio(q)] \in Seq(Thread)
  BY <1>1, <1>4 DEF QueuesExact, KernelState
<1>6. HighestThread(q) \in Thread /\ HighestThread(q) \in Range(q.rq[HighestPrio(q)])
  BY <1>5, HeadFacts DEF HighestThread
<1>7. q.stat[HighestThread(q)] = "ready"
  BY <1>1, <1>5, <1>6 DEF QueuesExact
<1> QED BY <1>4, <1>6, <1>7

(* Only the current thread may be running, and the idle thread never       *)
(* blocks.                                                                 *)
OneRuns(q) ==
  /\ \A u \in Thread : q.stat[u] = "running" => u = q.cur
  /\ q.stat[Idle] \in {"ready", "running"}

(* What rt_schedule finds: a current thread that is suspended or closed    *)
(* calls it only with the scheduler unlocked.                              *)
MaySchedule(q) ==
  Wf(q, Thread) /\ OneRuns(q) /\ (q.stat[q.cur] # "running" => q.nest = 0)

(* And what it leaves: it changes nobody's state but between ready and     *)
(* running.                                                                *)
Rescheduled(r, q) ==
  /\ r.prio = q.prio /\ r.err = q.err /\ r.tmr = q.tmr /\ r.nest = q.nest
  /\ Fewer(r, q)
  /\ \A x \in Thread : IF q.stat[x] \in {"ready", "running"}
                         THEN r.stat[x] \in {"ready", "running"}
                         ELSE r.stat[x] = q.stat[x]

(* rt_schedule keeps the queues exact, leaves a running current thread, and*)
(* is never left without a thread to run.                                  *)
LEMMA ScheduleWf ==
  ASSUME NEW q, MaySchedule(q), NEW r, r = Schedule(q)
  PROVE  Wf(r, Thread) /\ OneRuns(r) /\ r.stat[r.cur] = "running" /\ Rescheduled(r, q)
<1>1. /\ q \in KernelState /\ QueuesExact(q) /\ ReadyQueued(q, Thread) /\ TimersOfSuspended(q)
      /\ Wf(q, Thread) /\ q.cur \in Thread /\ OneRuns(q)
  BY DEF MaySchedule, Wf, KernelState
<1>2. Rescheduled(q, q)
  BY DEF Rescheduled, Fewer
<1>3. CASE q.nest # 0
  BY <1>1, <1>2, <1>3 DEF Schedule, MaySchedule
<1>4. CASE q.nest = 0 /\ q.group = {}
  <2>1. r = q
    BY <1>4 DEF Schedule
  <2>2. q.stat[Idle] # "ready"
    <3>1. q.prio[Idle] \in Prio /\ q.rq[q.prio[Idle]] = << >>
      BY <1>1, <1>4, KernelAssumption DEF QueuesExact, KernelState
    <3> QED BY <1>1, <3>1, EmptyRange, KernelAssumption DEF ReadyQueued, KernelState
  <2>3. q.stat[q.cur] = "running"
    BY <1>1, <2>2, KernelAssumption DEF OneRuns
  <2> QED BY <1>1, <1>2, <2>1, <2>3
<1>5. CASE q.nest = 0 /\ q.group # {} /\ KeepsCpu(q)
  <2>1. r = SetRunning(q, q.cur) /\ q.stat[q.cur] = "running"
    BY <1>5 DEF Schedule, SwitchTo, KeepsCpu
  <2>2. q.cur \notin q.tmr
    BY <1>1, <2>1 DEF TimersOfSuspended
  <2>3. /\ Wf(r, Thread)
        /\ r.stat = [q.stat EXCEPT ![q.cur] = "running"]
        /\ r.prio = q.prio /\ r.err = q.err /\ r.tmr = q.tmr
        /\ r.cur = q.cur /\ r.nest = q.nest /\ Fewer(r, q)
    BY <1>1, <2>1, <2>2, SetRunningWf
  <2>4. r.stat = q.stat
    BY <1>1, <2>1, <2>3 DEF KernelState
  <2> QED BY <1>1, <1>2, <2>1, <2>3, <2>4 DEF OneRuns, Rescheduled
<1>6. CASE q.nest = 0 /\ q.group # {} /\ ~ KeepsCpu(q)
  <2> DEFINE h == HighestThread(q)
             u == PutBack(q)
             v == SetRunning(u, h)
  <2>1. h \in Thread /\ q.stat[h] = "ready"
    BY <1>1, <1>6, HighestThreadReady
  <2>2. CASE h = q.cur
    <3>1. r = SetRunning(q, h)
      BY <1>6, <2>2 DEF Schedule, SwitchTo
    <3>2. h \notin q.tmr
      BY <1>1, <2>1 DEF TimersOfSuspended
    <3>3. /\ Wf(r, Thread)
          /\ r.stat = [q.stat EXCEPT ![h] = "running"]
          /\ r.prio = q.prio /\ r.err = q.err /\ r.tmr = q.tmr
          /\ r.cur = q.cur /\ r.nest = q.nest /\ Fewer(r, q)
      BY <1>1, <2>1, <3>1, <3>2, SetRunningWf
    <3> HIDE DEF h
    <3> QED BY <1>1, <2>1, <2>2, <3>3 DEF OneRuns, Rescheduled, KernelState
  <2>3. CASE h # q.cur
    <3>1. r = [v EXCEPT !.cur = h]
      BY <1>6, <2>3 DEF Schedule, SwitchTo
    <3>2. /\ Wf(u, Thread)
          /\ u.stat = IF q.stat[q.cur] = "running" THEN [q.stat EXCEPT ![q.cur] = "ready"] ELSE q.stat
          /\ u.prio = q.prio /\ u.err = q.err /\ u.tmr = q.tmr
          /\ u.cur = q.cur /\ u.nest = q.nest /\ Fewer(u, q)
      BY <1>1, PutBackWf
    <3>3. h \notin u.tmr
      BY <1>1, <2>1, <3>2 DEF TimersOfSuspended
    <3>4. /\ Wf(v, Thread)
          /\ v.stat = [u.stat EXCEPT ![h] = "running"]
          /\ v.prio = u.prio /\ v.err = u.err /\ v.tmr = u.tmr
          /\ v.nest = u.nest /\ Fewer(v, u)
      BY <2>1, <3>2, <3>3, SetRunningWf
    <3> HIDE DEF h, u, v
    <3>5. /\ r \in KernelState /\ r.cur = h /\ r.stat = v.stat /\ r.prio = v.prio /\ r.err = v.err
          /\ r.tmr = v.tmr /\ r.nest = v.nest /\ r.wl = v.wl /\ r.defunct = v.defunct
          /\ r.rq = v.rq /\ r.group = v.group
      <4>1. v \in KernelState
        BY <3>4 DEF Wf
      <4> QED BY <2>1, <3>1, <4>1 DEF KernelState
    <3>6. Wf(r, Thread)
      BY <3>4, <3>5, SameListsWf
    <3>7. \A x \in Thread :
            r.stat[x] = IF x = h THEN "running"
                        ELSE IF x = q.cur /\ q.stat[x] = "running" THEN "ready" ELSE q.stat[x]
      BY <1>1, <2>1, <3>2, <3>4, <3>5 DEF KernelState
    <3>8. OneRuns(r) /\ r.stat[r.cur] = "running"
      BY <1>1, <2>1, <3>5, <3>7, KernelAssumption DEF OneRuns
    <3>9. Rescheduled(r, q)
      BY <2>1, <3>2, <3>4, <3>5, <3>7 DEF Rescheduled, Fewer
    <3> QED BY <3>6, <3>8, <3>9
  <2> QED BY <2>2, <2>3
<1> QED BY <1>3, <1>4, <1>5, <1>6

(* rt_thread_suspend of a ready or running thread leaves it loose.         *)
LEMMA SuspendWf ==
  ASSUME NEW q, Wf(q, Thread), NEW t \in Thread, q.stat[t] \in {"ready", "running"},
         NEW r, r = Suspend(q, t)
  PROVE  /\ Wf(r, Thread) /\ Loose(r, t)
         /\ r.stat = [q.stat EXCEPT ![t] = "suspend"]
         /\ r.prio = q.prio /\ r.err = q.err /\ r.yield = q.yield /\ r.tmr = q.tmr
         /\ r.cur = q.cur /\ r.nest = q.nest /\ Fewer(r, q)
<1> DEFINE u == RemoveThread(q, t)
           v == SetStat(u, t, "suspend")
<1>1. t \notin q.tmr
  BY DEF Wf, TimersOfSuspended
<1>2. Wf(u, Thread \ {t}) /\ Loose(u, t) /\ SameThreads(u, q) /\ Fewer(u, q)
  BY RemoveThreadWf
<1>3. r = StopTimer(v, t)
  BY DEF Suspend, SuspendBody, SetStat
<1> HIDE DEF u
<1>4. /\ Wf(v, (Thread \ {t}) \cup {t}) /\ Loose(v, t)
      /\ v.stat = [u.stat EXCEPT ![t] = "suspend"]
      /\ v.prio = u.prio /\ v.err = u.err /\ v.yield = u.yield /\ v.tmr = u.tmr
      /\ v.cur = u.cur /\ v.nest = u.nest /\ v.wl = u.wl /\ v.defunct = u.defunct
  <2>1. "suspend" \in Stat /\ "suspend" # "ready" /\ t \notin u.tmr
    BY <1>1, <1>2 DEF Stat, SameThreads
  <2> QED BY <1>2, <2>1, SetStatWf
<1> HIDE DEF v
<1>5. (Thread \ {t}) \cup {t} = Thread
  OBVIOUS
<1>6. r = v
  <2>1. v \in KernelState /\ v.tmr \ {t} = v.tmr
    BY <1>1, <1>2, <1>4 DEF Wf, SameThreads
  <2> QED BY <1>3, <2>1 DEF StopTimer, KernelState
<1> QED BY <1>2, <1>4, <1>5, <1>6 DEF SameThreads, Fewer

(* A thread timer may be started for a suspended thread only.              *)
LEMMA StartTimerWf ==
  ASSUME NEW q, Wf(q, Thread), NEW t \in Thread, q.stat[t] = "suspend", NEW r, r = StartTimer(q, t)
  PROVE  /\ Wf(r, Thread) /\ r.tmr = q.tmr \cup {t}
         /\ r.stat = q.stat /\ r.prio = q.prio /\ r.err = q.err /\ r.yield = q.yield
         /\ r.cur = q.cur /\ r.nest = q.nest /\ r.wl = q.wl /\ r.defunct = q.defunct
<1>1. /\ q \in KernelState /\ QueuesExact(q) /\ ReadyQueued(q, Thread) /\ OneList(q)
      /\ TimersOfSuspended(q)
  BY DEF Wf
<1>2. /\ r \in KernelState /\ r.tmr = q.tmr \cup {t}
      /\ r.stat = q.stat /\ r.prio = q.prio /\ r.err = q.err /\ r.yield = q.yield
      /\ r.cur = q.cur /\ r.nest = q.nest /\ r.wl = q.wl /\ r.defunct = q.defunct
      /\ r.rq = q.rq /\ r.group = q.group
  BY <1>1 DEF StartTimer, KernelState
<1>3. QueuesExact(r) /\ ReadyQueued(r, Thread) /\ OneList(r) /\ TimersOfSuspended(r)
  BY <1>1, <1>2 DEF QueuesExact, ReadyQueued, OneList, TimersOfSuspended
<1> QED BY <1>2, <1>3 DEF Wf

(* The first region of rt_thread_resume, for a suspended thread.           *)
LEMMA ResumeUnlinkWf ==
  ASSUME NEW q, Wf(q, Thread), NEW t \in Thread, q.stat[t] # "ready", NEW r, r = ResumeUnlink(q, t)
  PROVE  /\ Wf(r, Thread) /\ Loose(r, t) /\ r.tmr = q.tmr \ {t}
         /\ r.stat = q.stat /\ r.prio = q.prio /\ r.err = q.err /\ r.yield = q.yield
         /\ r.cur = q.cur /\ r.nest = q.nest /\ Fewer(r, q)
<1> DEFINE u == Unlink(q, t)
<1>1. Wf(u, Thread) /\ Loose(u, t) /\ SameThreads(u, q) /\ Fewer(u, q)
  BY UnlinkWf
<1>2. r = StopTimer(u, t)
  BY DEF ResumeUnlink
<1> HIDE DEF u
<1>3. /\ r \in KernelState /\ r.tmr = u.tmr \ {t}
      /\ r.stat = u.stat /\ r.prio = u.prio /\ r.err = u.err /\ r.yield = u.yield
      /\ r.cur = u.cur /\ r.nest = u.nest /\ r.wl = u.wl /\ r.defunct = u.defunct
      /\ r.rq = u.rq /\ r.group = u.group
  <2>1. u \in KernelState
    BY <1>1 DEF Wf
  <2> QED BY <1>2, <2>1 DEF StopTimer, KernelState
<1>4. Wf(r, Thread)
  BY <1>1, <1>3, SameListsWf
<1> QED BY <1>1, <1>3, <1>4 DEF Loose, SameThreads, Fewer

(* Both regions together, as the IPC objects call rt_thread_resume.        *)
LEMMA ResumeWf ==
  ASSUME NEW q, Wf(q, Thread), NEW t \in Thread, q.stat[t] = "suspend", NEW r, r = Resume(q, t)
  PROVE  /\ Wf(r, Thread) /\ r.tmr = q.tmr \ {t}
         /\ r.stat = [q.stat EXCEPT ![t] = IF t = q.cur THEN "running" ELSE "ready"]
         /\ r.prio = q.prio /\ r.err = q.err /\ r.yield = q.yield
         /\ r.cur = q.cur /\ r.nest = q.nest /\ Fewer(r, q)
<1> DEFINE u == ResumeUnlink(q, t)
<1>1. /\ Wf(u, Thread) /\ Loose(u, t) /\ u.tmr = q.tmr \ {t}
      /\ u.stat = q.stat /\ u.prio = q.prio /\ u.err = q.err /\ u.yield = q.yield
      /\ u.cur = q.cur /\ u.nest = q.nest /\ Fewer(u, q)
  BY ResumeUnlinkWf
<1>2. r = InsertThread(u, t)
  BY DEF Resume
<1> HIDE DEF u
<1>3. Thread \cup {t} = Thread /\ t \notin u.tmr
  BY <1>1
<1>4. /\ Wf(r, Thread \cup {t})
      /\ r.stat = [u.stat EXCEPT ![t] = IF t = u.cur THEN "running" ELSE "ready"]
      /\ r.prio = u.prio /\ r.err = u.err /\ r.yield = u.yield /\ r.tmr = u.tmr
      /\ r.cur = u.cur /\ r.nest = u.nest /\ Fewer(r, u)
  BY <1>1, <1>2, <1>3, InsertThreadWf
<1> QED BY <1>1, <1>3, <1>4 DEF Fewer

(* rt_ipc_list_suspend always finds a place in the list.                   *)
LEMMA WaitPosInList ==
  ASSUME NEW q \in KernelState, NEW t \in Thread, NEW s \in Seq(Thread), NEW flag
  PROVE  WaitPos(q, t, s, flag) \in 1 .. Len(s) + 1
<1> DEFINE lower == {i \in DOMAIN s : q.prio[t] < q.prio[s[i]]}
<1>1. Len(s) \in Nat /\ DOMAIN s = 1 .. Len(s) /\ \A i \in 1 .. Len(s) : s[i] \in Thread
  BY LenProperties, ElementOfSeq
<1>2. \A x \in Thread : q.prio[x] \in Nat
  BY KernelAssumption DEF KernelState, Prio
<1>3. CASE flag = "prio" /\ \E i \in DOMAIN s : q.prio[t] < q.prio[s[i]]
  <2>1. lower \in SUBSET Nat /\ lower # {}
    BY <1>1, <1>3
  <2>2. PICK m \in lower : \A n \in lower : m <= n
    BY <2>1, LeastElement
  <2>3. \A j \in 1 .. m - 1 : j \in DOMAIN s /\ j \notin lower
    BY <1>1, <2>2
  <2>4. \A j \in 1 .. m - 1 : q.prio[s[j]] <= q.prio[t]
    BY <1>1, <1>2, <2>3
  <2>5. \E i \in DOMAIN s : /\ q.prio[t] < q.prio[s[i]]
                           /\ \A j \in 1 .. i - 1 : q.prio[s[j]] <= q.prio[t]
    BY <2>2, <2>4
  <2>6. WaitPos(q, t, s, flag) \in DOMAIN s
    BY <1>3, <2>5 DEF WaitPos
  <2> QED BY <1>1, <2>6
<1>4. CASE ~ (flag = "prio" /\ \E i \in DOMAIN s : q.prio[t] < q.prio[s[i]])
  BY <1>1, <1>4 DEF WaitPos
<1> QED BY <1>3, <1>4

(* Nobody but t has been linked into a wait list, and t into that of l.    *)
OnlyJoins(r, q, t, l) ==
  \A m \in WaitList : \A x \in Range(r.wl[m]) : (x = t /\ m = l) \/ x \in Range(q.wl[m])

(* A suspended thread in no list is linked into a wait list.               *)
OneMore(s, w, t) == \A x : x \in Range(s) <=> x \in Range(w) \/ x = t

WithList(q, l, s) == [q EXCEPT !.wl[l] = s]

LEMMA LinkWf ==
  ASSUME NEW u, Wf(u, Thread), NEW t \in Thread, Loose(u, t), u.stat[t] = "suspend",
         NEW l \in WaitList, NEW s \in Seq(Thread), IsInjective(s), OneMore(s, u.wl[l], t),
         NEW r, r = WithList(u, l, s)
  PROVE  /\ Wf(r, Thread)
         /\ r.wl = [u.wl EXCEPT ![l] = s]
         /\ r.stat = u.stat /\ r.prio = u.prio /\ r.err = u.err /\ r.yield = u.yield /\ r.tmr = u.tmr
         /\ r.cur = u.cur /\ r.nest = u.nest /\ r.defunct = u.defunct
<1>1. /\ u \in KernelState /\ QueuesExact(u) /\ ReadyQueued(u, Thread) /\ OneList(u)
      /\ TimersOfSuspended(u)
  BY DEF Wf
<1>2. /\ r \in KernelState /\ r.wl = [u.wl EXCEPT ![l] = s]
      /\ r.stat = u.stat /\ r.prio = u.prio /\ r.err = u.err /\ r.yield = u.yield /\ r.tmr = u.tmr
      /\ r.cur = u.cur /\ r.nest = u.nest /\ r.defunct = u.defunct
      /\ r.rq = u.rq /\ r.group = u.group
  <2> DEFINE w == [u.wl EXCEPT ![l] = s]
  <2>1. w \in [WaitList -> Seq(Thread)]
    BY <1>1 DEF KernelState
  <2>2. r = [u EXCEPT !.wl = w]
    BY DEF WithList
  <2> HIDE DEF w
  <2>3. /\ r \in KernelState /\ r.wl = w
        /\ r.stat = u.stat /\ r.prio = u.prio /\ r.err = u.err /\ r.yield = u.yield /\ r.tmr = u.tmr
        /\ r.cur = u.cur /\ r.nest = u.nest /\ r.defunct = u.defunct
        /\ r.rq = u.rq /\ r.group = u.group
    BY <1>1, <2>1, <2>2 DEF KernelState
  <2> QED BY <2>3 DEF w
<1>3. r.wl[l] = s /\ \A m \in WaitList : m # l => r.wl[m] = u.wl[m]
  BY <1>1, <1>2 DEF KernelState
<1>4. OneList(r)
  <2>1. ASSUME NEW m \in WaitList  PROVE IsInjective(r.wl[m])
    BY <1>1, <1>3 DEF OneList
  <2>2. ASSUME NEW m \in WaitList, NEW x \in Range(r.wl[m])
        PROVE  r.stat[x] = "suspend" /\ \A n \in WaitList \ {m} : x \notin Range(r.wl[n])
    <3>1. CASE x = t
      <4>1. m = l
        BY <1>3, <3>1 DEF Loose, OneMore
      <4> QED BY <1>2, <1>3, <3>1, <4>1 DEF Loose, OneMore
    <3>2. CASE x # t
      BY <1>1, <1>2, <1>3, <3>2 DEF OneList, OneMore
    <3> QED BY <3>1, <3>2
  <2> QED BY <1>1, <1>2, <2>1, <2>2 DEF OneList
<1>5. QueuesExact(r) /\ ReadyQueued(r, Thread) /\ TimersOfSuspended(r)
  BY <1>1, <1>2 DEF QueuesExact, ReadyQueued, TimersOfSuspended
<1> QED BY <1>2, <1>4, <1>5 DEF Wf

(* A thread blocks on an IPC object.                                       *)
LEMMA SuspendOnWf ==
  ASSUME NEW q, Wf(q, Thread), NEW t \in Thread, q.stat[t] \in {"ready", "running"},
         NEW l \in WaitList, NEW flag, NEW r, r = SuspendOn(q, t, l, flag)
  PROVE  /\ Wf(r, Thread)
         /\ r.stat = [q.stat EXCEPT ![t] = "suspend"]
         /\ r.prio = q.prio /\ r.err = q.err /\ r.yield = q.yield /\ r.tmr = q.tmr
         /\ r.cur = q.cur /\ r.nest = q.nest
         /\ OnlyJoins(r, q, t, l)
         /\ Range(r.defunct) \subseteq Range(q.defunct)
<1> DEFINE u == Suspend(q, t)
           pos == WaitPos(u, t, u.wl[l], flag)
           s == InsertAt(u.wl[l], pos, t)
<1>1. /\ Wf(u, Thread) /\ Loose(u, t)
      /\ u.stat = [q.stat EXCEPT ![t] = "suspend"]
      /\ u.prio = q.prio /\ u.err = q.err /\ u.yield = q.yield /\ u.tmr = q.tmr
      /\ u.cur = q.cur /\ u.nest = q.nest /\ Fewer(u, q)
  BY SuspendWf
<1>2. r = WithList(u, l, s)
  BY DEF SuspendOn, WithList
<1> HIDE DEF u
<1>3. /\ u.wl \in [WaitList -> Seq(Thread)] /\ u.wl[l] \in Seq(Thread) /\ IsInjective(u.wl[l])
      /\ t \notin Range(u.wl[l]) /\ u \in KernelState /\ u.stat[t] = "suspend"
  <2>1. q \in KernelState /\ u \in KernelState /\ OneList(u)
    BY <1>1 DEF Wf
  <2> QED BY <1>1, <2>1 DEF KernelState, OneList, Loose
<1>4. pos \in 1 .. Len(u.wl[l]) + 1
  BY <1>3, WaitPosInList
<1> HIDE DEF pos
<1>5. /\ s \in Seq(Thread) /\ IsInjective(s)
      /\ OneMore(s, u.wl[l], t)
  BY <1>3, <1>4, InsertAtFacts DEF OneMore
<1> HIDE DEF s
<1>6. /\ Wf(r, Thread)
      /\ r.wl = [u.wl EXCEPT ![l] = s]
      /\ r.stat = u.stat /\ r.prio = u.prio /\ r.err = u.err /\ r.yield = u.yield /\ r.tmr = u.tmr
      /\ r.cur = u.cur /\ r.nest = u.nest /\ r.defunct = u.defunct
  <2>1. /\ Wf(u, Thread) /\ Loose(u, t) /\ u.stat[t] = "suspend"
        /\ s \in Seq(Thread) /\ IsInjective(s) /\ OneMore(s, u.wl[l], t)
        /\ r = WithList(u, l, s)
    BY <1>1, <1>2, <1>3, <1>5
  <2> QED BY <2>1, LinkWf
<1>7. OnlyJoins(r, q, t, l)
  BY <1>1, <1>3, <1>5, <1>6 DEF Fewer, OnlyJoins, OneMore
<1> QED BY <1>1, <1>6, <1>7 DEF Fewer

(* The timer of a waiting thread expires: up to its call of rt_schedule.   *)
Expired(q, t) == InsertThread([Unlink(StopTimer(q, t), t) EXCEPT !.err[t] = "ETIMEOUT"], t)

LEMMA ExpiredWf ==
  ASSUME NEW q, Wf(q, Thread), NEW t \in Thread, t \in q.tmr, NEW r, r = Expired(q, t)
  PROVE  /\ q.stat[t] = "suspend" /\ Wf(r, Thread)
         /\ r.stat = [q.stat EXCEPT ![t] = IF t = q.cur THEN "running" ELSE "ready"]
         /\ r.err = [q.err EXCEPT ![t] = "ETIMEOUT"] /\ r.prio = q.prio
         /\ r.tmr = q.tmr \ {t} /\ r.cur = q.cur /\ r.nest = q.nest /\ Fewer(r, q)
<1> DEFINE a == StopTimer(q, t)
           b == Unlink(a, t)
           c == [b EXCEPT !.err[t] = "ETIMEOUT"]
<1>1. r = InsertThread(c, t)
  BY DEF Expired
<1>2. q \in KernelState /\ q.stat[t] = "suspend"
  BY DEF Wf, TimersOfSuspended
<1>3. /\ a \in KernelState /\ a.stat = q.stat /\ a.prio = q.prio /\ a.rq = q.rq /\ a.group = q.group
      /\ a.wl = q.wl /\ a.defunct = q.defunct /\ a.tmr = q.tmr \ {t} /\ a.cur = q.cur /\ a.nest = q.nest
      /\ a.err = q.err
  BY <1>2 DEF StopTimer, KernelState
<1> HIDE DEF a
<1>4. Wf(a, Thread)
  BY <1>3, SameListsWf
<1>5. Wf(b, Thread) /\ Loose(b, t) /\ SameThreads(b, a) /\ Fewer(b, a)
  <2>1. a.stat[t] # "ready"
    BY <1>2, <1>3
  <2> QED BY <1>4, <2>1, UnlinkWf
<1> HIDE DEF b
<1>6. /\ c \in KernelState /\ c.stat = b.stat /\ c.prio = b.prio /\ c.rq = b.rq /\ c.group = b.group
      /\ c.wl = b.wl /\ c.defunct = b.defunct /\ c.tmr = b.tmr /\ c.cur = b.cur /\ c.nest = b.nest
      /\ c.err = [b.err EXCEPT ![t] = "ETIMEOUT"]
  <2>1. b \in KernelState /\ "ETIMEOUT" \in Err
    BY <1>5 DEF Wf, Err
  <2> QED BY <2>1 DEF KernelState
<1> HIDE DEF c
<1>7. Wf(c, Thread) /\ Loose(c, t) /\ t \notin c.tmr
  <2>1. Wf(c, Thread)
    BY <1>5, <1>6, SameListsWf
  <2> QED BY <1>3, <1>5, <1>6, <2>1 DEF Loose, SameThreads
<1>8. /\ Wf(r, Thread \cup {t})
      /\ r.stat = [c.stat EXCEPT ![t] = IF t = c.cur THEN "running" ELSE "ready"]
      /\ r.err = c.err /\ r.tmr = c.tmr /\ r.cur = c.cur /\ r.nest = c.nest /\ Fewer(r, c)
      /\ r.prio = c.prio
  BY <1>1, <1>7, InsertThreadWf
<1>9. c.stat = q.stat /\ c.prio = q.prio /\ c.cur = q.cur /\ c.nest = q.nest /\ c.tmr = q.tmr \ {t}
      /\ c.err = [q.err EXCEPT ![t] = "ETIMEOUT"]
  BY <1>3, <1>5, <1>6 DEF SameThreads
<1>10. Fewer(r, q)
  BY <1>3, <1>5, <1>6, <1>8 DEF Fewer
<1>11. Thread \cup {t} = Thread
  OBVIOUS
<1> QED BY <1>2, <1>8, <1>9, <1>10, <1>11

(* The priority of a thread that is in no ready queue is free to change.   *)
LEMMA NewPrioWf ==
  ASSUME NEW q, NEW S \in SUBSET Thread, Wf(q, S), NEW t \in Thread, NEW p \in Prio,
         \A o \in Prio : t \notin Range(q.rq[o]), t \notin S \/ q.stat[t] # "ready",
         NEW r, r = [q EXCEPT !.prio[t] = p]
  PROVE  /\ Wf(r, S)
         /\ r.stat = q.stat /\ r.err = q.err /\ r.yield = q.yield /\ r.tmr = q.tmr
         /\ r.cur = q.cur /\ r.nest = q.nest /\ r.rq = q.rq /\ r.wl = q.wl /\ r.defunct = q.defunct
<1>1. /\ q \in KernelState /\ QueuesExact(q) /\ ReadyQueued(q, S) /\ OneList(q)
      /\ TimersOfSuspended(q)
  BY DEF Wf
<1>2. /\ r \in KernelState
      /\ r.stat = q.stat /\ r.err = q.err /\ r.yield = q.yield /\ r.tmr = q.tmr
      /\ r.cur = q.cur /\ r.nest = q.nest /\ r.rq = q.rq /\ r.wl = q.wl /\ r.defunct = q.defunct
      /\ r.group = q.group /\ \A x \in Thread : x # t => r.prio[x] = q.prio[x]
  BY <1>1 DEF KernelState
<1>3. QueuesExact(r)
  <2> SUFFICES ASSUME NEW o \in Prio, NEW x \in Range(q.rq[o])
               PROVE  r.prio[x] = q.prio[x]
    BY <1>1, <1>2 DEF QueuesExact
  <2>1. x \in Thread /\ x # t
    BY <1>1, RangeOfSeq DEF KernelState
  <2> QED BY <1>2, <2>1
<1>4. ReadyQueued(r, S) /\ OneList(r) /\ TimersOfSuspended(r)
  BY <1>1, <1>2 DEF ReadyQueued, OneList, TimersOfSuspended
<1> QED BY <1>2, <1>3, <1>4 DEF Wf

(* RT_THREAD_CTRL_CHANGE_PRIORITY moves a ready thread to the queue of its *)
(* new priority and leaves every other where it is.                        *)
LEMMA SetPriorityWf ==
  ASSUME NEW q, Wf(q, Thread), NEW t \in Thread, NEW p \in Prio, q.stat[q.cur] # "ready",
         NEW r, r = SetPriority(q, t, p)
  PROVE  /\ Wf(r, Thread) /\ r.stat = q.stat /\ r.err = q.err /\ r.yield = q.yield
         /\ r.tmr = q.tmr /\ r.cur = q.cur /\ r.nest = q.nest /\ Fewer(r, q)
         /\ r.prio = [q.prio EXCEPT ![t] = p]
<1>1. q \in KernelState
  BY DEF Wf
<1>2. CASE q.stat[t] # "ready"
  <2>1. r = [q EXCEPT !.prio[t] = p]
    BY <1>2 DEF SetPriority
  <2>2. \A o \in Prio : t \notin Range(q.rq[o])
    BY <1>2, QueueOf
  <2>3. /\ Wf(r, Thread)
        /\ r.stat = q.stat /\ r.err = q.err /\ r.yield = q.yield /\ r.tmr = q.tmr
        /\ r.cur = q.cur /\ r.nest = q.nest /\ r.wl = q.wl /\ r.defunct = q.defunct
    BY <1>2, <2>1, <2>2, NewPrioWf
  <2>4. r.prio = [q.prio EXCEPT ![t] = p]
    BY <1>1, <2>1 DEF KernelState
  <2> QED BY <2>3, <2>4 DEF Fewer
<1>3. CASE q.stat[t] = "ready"
  <2> DEFINE u == RemoveThread(q, t)
             v == [u EXCEPT !.prio[t] = p]
  <2>1. Wf(u, Thread \ {t}) /\ Loose(u, t) /\ SameThreads(u, q) /\ Fewer(u, q)
    BY RemoveThreadWf
  <2>2. r = InsertThread(v, t)
    BY <1>3 DEF SetPriority
  <2> HIDE DEF u
  <2>3. /\ Wf(v, Thread \ {t})
        /\ v.stat = u.stat /\ v.err = u.err /\ v.yield = u.yield /\ v.tmr = u.tmr
        /\ v.cur = u.cur /\ v.nest = u.nest /\ v.rq = u.rq /\ v.wl = u.wl /\ v.defunct = u.defunct
    <3>1. \A o \in Prio : t \notin Range(u.rq[o])
      BY <2>1 DEF Loose
    <3>2. Thread \ {t} \in SUBSET Thread /\ t \notin Thread \ {t}
      OBVIOUS
    <3> QED BY <2>1, <3>1, <3>2, NewPrioWf
  <2> HIDE DEF v
  <2>4. t \notin v.tmr /\ Loose(v, t) /\ t # v.cur
    BY <1>3, <2>1, <2>3 DEF Wf, TimersOfSuspended, SameThreads, Loose
  <2>5. /\ Wf(r, (Thread \ {t}) \cup {t})
        /\ r.stat = [v.stat EXCEPT ![t] = IF t = v.cur THEN "running" ELSE "ready"]
        /\ r.err = v.err /\ r.yield = v.yield /\ r.tmr = v.tmr
        /\ r.cur = v.cur /\ r.nest = v.nest /\ Fewer(r, v) /\ r.prio = v.prio
    BY <2>2, <2>3, <2>4, InsertThreadWf
  <2>6. (Thread \ {t}) \cup {t} = Thread
    OBVIOUS
  <2>7. r.stat = q.stat
    BY <1>1, <1>3, <2>1, <2>3, <2>4, <2>5 DEF SameThreads, KernelState
  <2>8. v.prio = [q.prio EXCEPT ![t] = p]
    BY <2>1 DEF v, Wf, KernelState, SameThreads
  <2> QED BY <2>1, <2>3, <2>5, <2>6, <2>7, <2>8 DEF SameThreads, Fewer
<1> QED BY <1>2, <1>3

(***************************************************************************)
(* The start of the scheduler.                                             *)
(***************************************************************************)
(* The queues rt_system_scheduler_start finds: the threads that have been  *)
(* started, each once, in the queue of its priority.                       *)
LEMMA BootQueueFacts ==
  ASSUME NEW up \in SUBSET Thread, IsFiniteSet(up), NEW r \in BootQueues(up), NEW p \in Prio
  PROVE  /\ r[p] \in Seq(Thread) /\ IsInjective(r[p])
         /\ \A x : x \in Range(r[p]) <=> x \in up /\ InitPrio[x] = p
<1> DEFINE U == UpAt(up, p)
           n == Cardinality(U)
<1>1. U \in SUBSET up /\ U \subseteq Thread /\ \A x : x \in U <=> x \in up /\ InitPrio[x] = p
  BY DEF UpAt
<1>2. n \in Nat
  BY <1>1, FS_Subset, FS_CardinalityType
<1>3. r[p] \in Bijection(1 .. n, U)
  BY DEF BootQueues, Orders
<1> HIDE DEF U, n
<1>4. /\ r[p] \in [1 .. n -> U] /\ IsInjective(r[p])
      /\ \A x \in U : \E i \in 1 .. n : r[p][i] = x
  BY <1>3 DEF Bijection, Injection, Surjection
<1>5. r[p] \in Seq(Thread)
  <2>1. r[p] \in [1 .. n -> Thread]
    BY <1>1, <1>4
  <2> QED BY <1>2, <2>1, SeqDef
<1>6. \A x : x \in Range(r[p]) <=> x \in U
  BY <1>4 DEF Range
<1> QED BY <1>1, <1>4, <1>5, <1>6

(* The first switch leaves exact queues, one running thread, and nobody    *)
(* waiting.                                                                *)
LEMMA BootWf ==
  ASSUME NEW up \in SUBSET Thread, Idle \in up, IsFiniteSet(up), NEW r \in BootQueues(up),
         NEW s, s = FirstSwitch(Started(up, r))
  PROVE  /\ Wf(s, Thread) /\ OneRuns(s) /\ s.stat[s.cur] = "running"
         /\ s.nest = 0 /\ s.tmr = {} /\ s.err = [t \in Thread |-> "EOK"]
         /\ \A l \in WaitList : s.wl[l] = << >>
<1>1. /\ r \in [Prio -> Seq(Thread)] /\ \A p \in Prio : IsInjective(r[p])
      /\ \A p \in Prio : \A x : x \in Range(r[p]) <=> x \in up /\ InitPrio[x] = p
  <2>1. \A p \in Prio : /\ r[p] \in Seq(Thread) /\ IsInjective(r[p])
                        /\ \A x : x \in Range(r[p]) <=> x \in up /\ InitPrio[x] = p
    BY BootQueueFacts
  <2>2. DOMAIN r = Prio /\ r = [p \in Prio |-> r[p]]
    BY DEF BootQueues
  <2> QED BY <2>1, <2>2
<1> DEFINE q == Started(up, r)
<1>2. /\ q.stat = [t \in Thread |-> IF t \in up THEN "ready" ELSE "init"]
      /\ q.prio = InitPrio /\ q.rq = r /\ q.group = {InitPrio[t] : t \in up}
      /\ q.wl = [l \in WaitList |-> << >>] /\ q.defunct = << >> /\ q.tmr = {}
      /\ q.cur = Idle /\ q.nest = 0 /\ q.err = [t \in Thread |-> "EOK"]
  BY DEF Started
<1>3. q \in KernelState
  <2>1. /\ q.stat \in [Thread -> Stat] /\ InitPrio \in [Thread -> Prio]
        /\ [t \in Thread |-> "EOK"] \in [Thread -> Err]
        /\ {InitPrio[t] : t \in up} \in SUBSET Prio
        /\ [l \in WaitList |-> << >>] \in [WaitList -> Seq(Thread)] /\ << >> \in Seq(Thread)
    BY <1>2, KernelAssumption DEF Stat, Err
  <2> QED BY <1>1, <2>1, KernelAssumption DEF Started, KernelState
<1> HIDE DEF q
<1>4. Wf(q, Thread)
  <2>1. q.group = {p \in Prio : q.rq[p] # << >>}
    <3>1. ASSUME NEW p \in Prio  PROVE r[p] # << >> <=> \E t \in up : InitPrio[t] = p
      <4>1. r[p] \in Seq(Thread)
        BY <1>1
      <4>2. r[p] # << >> <=> \E x : x \in Range(r[p])
        BY <4>1, EmptyRange, HeadFacts
      <4> QED BY <1>1, <4>2
    <3>2. \A t \in up : InitPrio[t] \in Prio
      BY KernelAssumption
    <3> QED BY <1>2, <3>1, <3>2
  <2>2. ASSUME NEW p \in Prio, NEW x \in Range(q.rq[p])  PROVE q.stat[x] = "ready" /\ q.prio[x] = p
    BY <1>1, <1>2
  <2>3. QueuesExact(q)
    BY <1>1, <1>2, <2>1, <2>2 DEF QueuesExact
  <2>4. ReadyQueued(q, Thread)
    BY <1>1, <1>2, KernelAssumption DEF ReadyQueued
  <2>5. OneList(q) /\ TimersOfSuspended(q)
    BY <1>2 DEF OneList, TimersOfSuspended, IsInjective, Range
  <2> QED BY <1>3, <2>3, <2>4, <2>5 DEF Wf
<1> DEFINE h == HighestThread(q)
           u == [q EXCEPT !.cur = h]
<1>5. h \in Thread
  <2>1. InitPrio[Idle] \in q.group
    BY <1>2
  <2> QED BY <1>4, <2>1, HighestThreadReady
<1>6. s = SetRunning(u, h)
  BY DEF FirstSwitch, q
<1> HIDE DEF h
<1>7. /\ u \in KernelState /\ u.stat = q.stat /\ u.prio = q.prio /\ u.rq = q.rq /\ u.group = q.group
      /\ u.wl = q.wl /\ u.defunct = q.defunct /\ u.tmr = q.tmr /\ u.cur = h /\ u.nest = q.nest /\ u.err = q.err
  BY <1>3, <1>5 DEF KernelState
<1> HIDE DEF u
<1>8. /\ Wf(s, Thread) /\ s.stat = [q.stat EXCEPT ![h] = "running"] /\ s.err = u.err /\ s.tmr = u.tmr
      /\ s.cur = h /\ s.nest = u.nest /\ Fewer(s, u)
  <2>1. Wf(u, Thread) /\ h \notin u.tmr
    BY <1>2, <1>4, <1>7, SameListsWf
  <2> QED BY <1>5, <1>6, <1>7, <2>1, SetRunningWf
<1>9. s.stat[h] = "running" /\ \A x \in Thread : x # h => s.stat[x] = IF x \in up THEN "ready" ELSE "init"
  BY <1>2, <1>5, <1>8
<1>10. \A l \in WaitList : s.wl[l] = << >>
  <2> SUFFICES ASSUME NEW l \in WaitList  PROVE s.wl[l] = << >>
    OBVIOUS
  <2>1. Range(u.wl[l]) = {}
    <3>1. u.wl[l] = << >> /\ << >> \in Seq(Thread)
      BY <1>2, <1>7
    <3> QED BY <3>1, EmptyRange
  <2>2. s.wl[l] \in Seq(Thread) /\ Range(s.wl[l]) = {}
    BY <1>8, <2>1 DEF Wf, KernelState, Fewer
  <2> QED BY <2>2, EmptyRange
<1> QED BY <1>2, <1>5, <1>7, <1>8, <1>9, <1>10, KernelAssumption DEF OneRuns
(***************************************************************************)
(* Who has the processor, and whom a primitive leaves as it was.           *)
(***************************************************************************)
(* No ready thread has a higher priority than the current one.             *)
Top(q) == \A t \in Thread : q.stat[t] = "ready" => q.prio[q.cur] <= q.prio[t]

(* Outside D nobody has been started, blocked, woken or ended, and nobody  *)
(* has entered or left a wait list or got or lost a timeout.               *)
Untouched(r, q, D) ==
  \A x \in Thread \ D :
    /\ \/ r.stat[x] = q.stat[x]
       \/ r.stat[x] \in {"ready", "running"} /\ q.stat[x] \in {"ready", "running"}
    /\ x \in r.tmr <=> x \in q.tmr
    /\ \A l \in WaitList : x \in Range(r.wl[l]) <=> x \in Range(q.wl[l])

(* Two primitives one after the other.                                     *)
LEMMA UntouchedTwice ==
  ASSUME NEW q, NEW r, NEW s, NEW D, NEW E, Untouched(r, q, D), Untouched(s, r, E)
  PROVE  Untouched(s, q, D \cup E)
BY DEF Untouched

(* The wait lists of a record are those of another.                        *)
SameWaiters(r, q) == \A l \in WaitList : \A x : x \in Range(r.wl[l]) <=> x \in Range(q.wl[l])

(* The thread that is switched to is in no wait list.                      *)
LEMMA SetRunningWaiters ==
  ASSUME NEW q, Wf(q, Thread), NEW t \in Thread, q.stat[t] # "suspend", NEW r, r = SetRunning(q, t)
  PROVE  SameWaiters(r, q)
<1> DEFINE u == Unlink(q, t)
<1>1. Thread \in SUBSET Thread /\ OneList(q)
  BY DEF Wf
<1>2. u \in KernelState /\ \A l \in WaitList : \A x : x \in Range(u.wl[l]) <=> x \in Range(q.wl[l]) /\ x # t
  BY <1>1, UnlinkFacts
<1>3. \A l \in WaitList : t \notin Range(q.wl[l])
  BY <1>1 DEF OneList
<1>4. r.wl = u.wl
  BY <1>2 DEF SetRunning, RemoveThread, KernelState
<1> HIDE DEF u
<1> QED BY <1>2, <1>3, <1>4 DEF SameWaiters

(* Nor is the thread that is put back moved.                               *)
LEMMA PutBackWaiters ==
  ASSUME NEW q \in KernelState, NEW r, r = PutBack(q)
  PROVE  SameWaiters(r, q)
<1>1. r.wl = q.wl
  BY DEF PutBack, KernelState
<1> QED BY <1>1 DEF SameWaiters

(* rt_schedule leaves the wait lists alone; unless the scheduler is locked,*)
(* a thread of the highest ready priority has the processor afterwards.    *)
LEMMA ScheduleChoice ==
  ASSUME NEW q, MaySchedule(q), NEW r, r = Schedule(q)
  PROVE  SameWaiters(r, q) /\ (q.nest = 0 => Top(r))
<1>1. /\ q \in KernelState /\ QueuesExact(q) /\ ReadyQueued(q, Thread) /\ TimersOfSuspended(q)
      /\ Wf(q, Thread) /\ q.cur \in Thread /\ OneRuns(q)
  BY DEF MaySchedule, Wf, KernelState
<1>2. SameWaiters(q, q)
  BY DEF SameWaiters
<1>3. ASSUME NEW x \in Thread, q.stat[x] = "ready"  PROVE q.prio[x] \in q.group
  <2>1. q.prio[x] \in Prio /\ q.rq[q.prio[x]] \in Seq(Thread) /\ x \in Range(q.rq[q.prio[x]])
    BY <1>1, <1>3 DEF ReadyQueued, KernelState
  <2> QED BY <1>1, <2>1, EmptyRange DEF QueuesExact
<1>4. CASE q.nest # 0
  BY <1>2, <1>4 DEF Schedule
<1>5. CASE q.nest = 0 /\ q.group = {}
  BY <1>2, <1>3, <1>5 DEF Schedule, Top
<1>6. ASSUME q.nest = 0, q.group # {}  PROVE SameWaiters(r, q) /\ Top(r)
  <2> DEFINE h == HighestThread(q)
             p == HighestPrio(q)
             u == PutBack(q)
             v == SetRunning(u, h)
  <2>1. p \in q.group /\ (\A o \in q.group : p <= o) /\ h \in Thread /\ q.stat[h] = "ready"
    BY <1>1, <1>6, HighestThreadReady
  <2>2. p \in Prio /\ q.prio \in [Thread -> Prio] /\ Prio \subseteq Nat /\ q.prio[h] = p
    <3>1. p \in Prio /\ q.rq[p] \in Seq(Thread) /\ q.rq[p] # << >>
      BY <1>1, <2>1 DEF QueuesExact, KernelState
    <3>2. h \in Range(q.rq[p])
      BY <3>1, HeadFacts DEF HighestThread
    <3> HIDE DEF p, h
    <3>3. q.prio[h] = p /\ q.prio \in [Thread -> Prio]
      BY <1>1, <3>1, <3>2 DEF QueuesExact, KernelState
    <3>4. Prio \subseteq Nat
      BY KernelAssumption DEF Prio
    <3> QED BY <3>1, <3>3, <3>4
  <2>3. \A x \in Thread : q.stat[x] = "ready" => p <= q.prio[x]
    BY <1>3, <2>1
  <2>4. r = SwitchTo(q, IF KeepsCpu(q) THEN q.cur ELSE h)
    BY <1>6 DEF Schedule
  <2>5. KeepsCpu(q) <=> /\ q.stat[q.cur] = "running"
                        /\ q.prio[q.cur] < p \/ (q.prio[q.cur] = p /\ q.cur \notin q.yield)
    BY DEF KeepsCpu
  <2> HIDE DEF p, h
  <2>6. q.prio[q.cur] \in Nat /\ p \in Nat /\ \A x \in Thread : q.prio[x] \in Nat
    BY <1>1, <2>2
  <2>7. CASE KeepsCpu(q) \/ h = q.cur
    <3>1. r = SetRunning(q, q.cur) /\ q.stat[q.cur] # "suspend" /\ q.prio[q.cur] <= p
      <4>1. q.stat[q.cur] # "suspend" /\ q.prio[q.cur] <= p
        BY <2>1, <2>2, <2>5, <2>6, <2>7
      <4>2. r = SwitchTo(q, q.cur)
        BY <2>4, <2>7
      <4> QED BY <4>1, <4>2 DEF SwitchTo
    <3>2. q.cur \notin q.tmr
      BY <1>1, <3>1 DEF TimersOfSuspended
    <3>3. r.stat = [q.stat EXCEPT ![q.cur] = "running"] /\ r.prio = q.prio /\ r.cur = q.cur
      BY <1>1, <3>1, <3>2, SetRunningWf
    <3>4. SameWaiters(r, q)
      BY <1>1, <3>1, SetRunningWaiters
    <3>5. \A x \in Thread : r.stat[x] = "ready" => q.stat[x] = "ready"
      BY <1>1, <3>3 DEF KernelState
    <3>6. Top(r)
      <4> SUFFICES ASSUME NEW x \in Thread, q.stat[x] = "ready"  PROVE q.prio[q.cur] <= q.prio[x]
        BY <3>3, <3>5 DEF Top
      <4> QED BY <1>1, <2>3, <2>6, <3>1
    <3> QED BY <3>4, <3>6
  <2>8. CASE ~ KeepsCpu(q) /\ h # q.cur
    <3>1. r = [v EXCEPT !.cur = h]
      BY <2>4, <2>8 DEF SwitchTo
    <3>2. /\ Wf(u, Thread)
          /\ u.stat = IF q.stat[q.cur] = "running" THEN [q.stat EXCEPT ![q.cur] = "ready"] ELSE q.stat
          /\ u.prio = q.prio /\ u.tmr = q.tmr /\ SameWaiters(u, q)
      BY <1>1, PutBackWf, PutBackWaiters
    <3> HIDE DEF u
    <3>3. h \notin u.tmr /\ u.stat[h] # "suspend"
      BY <1>1, <2>1, <2>8, <3>2 DEF TimersOfSuspended, KernelState
    <3>4. /\ Wf(v, Thread) /\ v.stat = [u.stat EXCEPT ![h] = "running"] /\ v.prio = u.prio
          /\ SameWaiters(v, u)
      <4>1. v = SetRunning(u, h)
        OBVIOUS
      <4> HIDE DEF v
      <4>2. Wf(v, Thread) /\ v.stat = [u.stat EXCEPT ![h] = "running"] /\ v.prio = u.prio
        BY <2>1, <3>2, <3>3, <4>1, SetRunningWf
      <4>3. SameWaiters(v, u)
        BY <2>1, <3>2, <3>3, <4>1, SetRunningWaiters
      <4> QED BY <4>2, <4>3
    <3> HIDE DEF v
    <3>5. r.cur = h /\ r.stat = v.stat /\ r.prio = v.prio /\ r.wl = v.wl
      BY <3>1, <3>4 DEF Wf, KernelState
    <3>6. SameWaiters(r, q)
      BY <3>2, <3>4, <3>5 DEF SameWaiters
    <3>7. ASSUME NEW x \in Thread, r.stat[x] = "ready"  PROVE p <= q.prio[x]
      <4>1. q.stat[x] = "ready" \/ (x = q.cur /\ q.stat[x] = "running")
        BY <1>1, <2>1, <3>2, <3>4, <3>5, <3>7 DEF KernelState
      <4> QED BY <2>3, <2>5, <2>6, <2>8, <4>1
    <3>8. Top(r)
      BY <2>2, <3>2, <3>4, <3>5, <3>7 DEF Top
    <3> QED BY <3>6, <3>8
  <2> QED BY <2>7, <2>8
<1> QED BY <1>4, <1>5, <1>6

LEMMA ScheduleUntouched ==
  ASSUME NEW q, MaySchedule(q), NEW r, r = Schedule(q)
  PROVE  Untouched(r, q, {})
<1>1. Rescheduled(r, q) /\ SameWaiters(r, q)
  BY ScheduleWf, ScheduleChoice
<1> QED BY <1>1 DEF Rescheduled, SameWaiters, Untouched
(* The other waiters of every list wait on.                                *)
OthersWait(r, q, t) ==
  \A l \in WaitList : \A x : x # t => (x \in Range(r.wl[l]) <=> x \in Range(q.wl[l]))

(* rt_list_remove, and what follows it in the suspend and resume functions.*)
LEMMA UnlinkOthersWait ==
  ASSUME NEW q, NEW S \in SUBSET Thread, Wf(q, S), NEW t \in Thread, NEW r, r.wl = Unlink(q, t).wl
  PROVE  OthersWait(r, q, t)
<1> DEFINE u == Unlink(q, t)
<1>1. \A l \in WaitList : \A x : x \in Range(u.wl[l]) <=> x \in Range(q.wl[l]) /\ x # t
  BY UnlinkFacts
<1> HIDE DEF u
<1>2. r.wl = u.wl
  BY DEF u
<1> QED BY <1>1, <1>2 DEF OthersWait

LEMMA RemoveThreadOthersWait ==
  ASSUME NEW q, NEW S \in SUBSET Thread, Wf(q, S), NEW t \in Thread, NEW r, r.wl = RemoveThread(q, t).wl
  PROVE  OthersWait(r, q, t)
<1>1. Unlink(q, t) \in KernelState
  BY UnlinkFacts
<1>2. RemoveThread(q, t).wl = Unlink(q, t).wl
  BY <1>1 DEF RemoveThread, KernelState
<1> QED BY <1>2, UnlinkOthersWait

(* rt_thread_suspend, alone and into a wait list.                          *)
LEMMA SuspendUntouched ==
  ASSUME NEW q, Wf(q, Thread), NEW t \in Thread, q.stat[t] \in {"ready", "running"},
         NEW r, r = Suspend(q, t)
  PROVE  Untouched(r, q, {t}) /\ OthersWait(r, q, t)
<1>1. r.stat = [q.stat EXCEPT ![t] = "suspend"] /\ r.tmr = q.tmr
  BY SuspendWf
<1>2. OthersWait(r, q, t)
  <2> DEFINE u == RemoveThread(q, t)
  <2>1. Thread \in SUBSET Thread /\ u \in KernelState
    BY RemoveThreadWf DEF Wf
  <2>2. r.wl = u.wl
    BY <2>1 DEF Suspend, SuspendBody, StopTimer, KernelState
  <2> QED BY <2>1, <2>2, RemoveThreadOthersWait
<1> QED BY <1>1, <1>2 DEF Untouched, OthersWait, Wf, KernelState

LEMMA SuspendOnUntouched ==
  ASSUME NEW q, Wf(q, Thread), NEW t \in Thread, q.stat[t] \in {"ready", "running"},
         NEW l \in WaitList, NEW flag, NEW r, r = SuspendOn(q, t, l, flag)
  PROVE  Untouched(r, q, {t}) /\ t \in Range(r.wl[l])
<1> DEFINE u == Suspend(q, t)
           pos == WaitPos(u, t, u.wl[l], flag)
           s == InsertAt(u.wl[l], pos, t)
<1>1. Wf(u, Thread) /\ OthersWait(u, q, t)
  BY SuspendWf, SuspendUntouched
<1>2. r = [u EXCEPT !.wl[l] = s]
  BY DEF SuspendOn
<1>3. u \in KernelState /\ u.wl \in [WaitList -> Seq(Thread)] /\ u.wl[l] \in Seq(Thread)
  BY <1>1 DEF Wf, KernelState
<1> HIDE DEF u
<1>4. pos \in 1 .. Len(u.wl[l]) + 1
  BY <1>3, WaitPosInList
<1> HIDE DEF pos
<1>5. \A x : x \in Range(s) <=> x \in Range(u.wl[l]) \/ x = t
  BY <1>3, <1>4, InsertAtFacts
<1> HIDE DEF s
<1>6. r.wl = [u.wl EXCEPT ![l] = s]
  BY <1>2, <1>3 DEF KernelState
<1>7. t \in Range(r.wl[l]) /\ OthersWait(r, q, t)
  BY <1>1, <1>3, <1>5, <1>6 DEF OthersWait
<1>8. r.stat = [q.stat EXCEPT ![t] = "suspend"] /\ r.tmr = q.tmr
  BY SuspendOnWf
<1> QED BY <1>7, <1>8 DEF Untouched, OthersWait, Wf, KernelState

(* rt_thread_resume and the timeout.                                       *)
LEMMA ResumeUntouched ==
  ASSUME NEW q, Wf(q, Thread), NEW t \in Thread, q.stat[t] = "suspend", NEW r, r = Resume(q, t)
  PROVE  Untouched(r, q, {t})
<1> DEFINE u == Unlink(q, t)
<1>1. /\ r.stat = [q.stat EXCEPT ![t] = IF t = q.cur THEN "running" ELSE "ready"]
      /\ r.tmr = q.tmr \ {t}
  BY ResumeWf
<1>2. OthersWait(r, q, t)
  <2>1. Thread \in SUBSET Thread /\ u \in KernelState
    BY UnlinkFacts
  <2>2. r.wl = u.wl
    <3> DEFINE v == StopTimer(u, t)
    <3>1. v.wl = u.wl /\ v \in KernelState
      BY <2>1 DEF StopTimer, KernelState
    <3>2. r = InsertThread(v, t)
      BY DEF Resume, ResumeUnlink
    <3> HIDE DEF v
    <3> QED BY <3>1, <3>2 DEF InsertThread, KernelState
  <2> QED BY <2>1, <2>2, UnlinkOthersWait
<1> QED BY <1>1, <1>2 DEF Untouched, OthersWait, Wf, KernelState

LEMMA ExpiredUntouched ==
  ASSUME NEW q, Wf(q, Thread), NEW t \in Thread, t \in q.tmr, NEW r, r = Expired(q, t)
  PROVE  Untouched(r, q, {t})
<1> DEFINE a == StopTimer(q, t)
           u == Unlink(a, t)
<1>1. /\ r.stat = [q.stat EXCEPT ![t] = IF t = q.cur THEN "running" ELSE "ready"]
      /\ r.tmr = q.tmr \ {t}
  <2>1. /\ q.stat[t] = "suspend" /\ Wf(r, Thread)
        /\ r.stat = [q.stat EXCEPT ![t] = IF t = q.cur THEN "running" ELSE "ready"]
        /\ r.err = [q.err EXCEPT ![t] = "ETIMEOUT"]
        /\ r.tmr = q.tmr \ {t} /\ r.cur = q.cur /\ r.nest = q.nest /\ Fewer(r, q)
    BY ExpiredWf
  <2> QED BY <2>1
<1>2. Wf(a, Thread) /\ a.wl = q.wl
  <2>1. q \in KernelState
    BY DEF Wf
  <2>2. /\ a \in KernelState /\ a.stat = q.stat /\ a.prio = q.prio /\ a.rq = q.rq /\ a.group = q.group
        /\ a.wl = q.wl /\ a.defunct = q.defunct /\ a.tmr \subseteq q.tmr
    BY <2>1 DEF StopTimer, KernelState
  <2> HIDE DEF a
  <2>3. Thread \in SUBSET Thread
    OBVIOUS
  <2> QED BY <2>2, <2>3, SameListsWf
<1> HIDE DEF a
<1>3. OthersWait(r, a, t)
  <2>1. Thread \in SUBSET Thread /\ u \in KernelState
    BY <1>2, UnlinkFacts
  <2>2. r.wl = u.wl
    <3> DEFINE v == [u EXCEPT !.err[t] = "ETIMEOUT"]
    <3>1. v.wl = u.wl /\ v.stat = u.stat /\ v.rq = u.rq /\ v.group = u.group /\ DOMAIN v = DOMAIN u
      BY <2>1 DEF KernelState
    <3>2. r = InsertThread(v, t)
      BY DEF Expired, a
    <3>3. DOMAIN u = {"stat", "prio", "err", "yield", "rq", "group", "wl", "defunct", "tmr", "cur", "nest"}
      BY <2>1 DEF KernelState
    <3> HIDE DEF v
    <3> QED BY <3>1, <3>2, <3>3 DEF InsertThread
  <2> QED BY <1>2, <2>1, <2>2, UnlinkOthersWait
<1> QED BY <1>1, <1>2, <1>3 DEF Untouched, OthersWait, Wf, KernelState
(* A thread put into its ready queue was in no wait list.                  *)
LEMMA InsertThreadUntouched ==
  ASSUME NEW q, Wf(q, Thread), NEW t \in Thread, Loose(q, t), t \notin q.tmr,
         NEW r, r = InsertThread(q, t)
  PROVE  Untouched(r, q, {t})
<1>1. Thread \in SUBSET Thread /\ q \in KernelState
  BY DEF Wf
<1>2. r.stat = [q.stat EXCEPT ![t] = IF t = q.cur THEN "running" ELSE "ready"] /\ r.tmr = q.tmr
  BY <1>1, InsertThreadWf
<1>3. r.wl = q.wl
  BY <1>1 DEF InsertThread, KernelState
<1> QED BY <1>1, <1>2, <1>3 DEF Untouched, KernelState

(* A change of priority moves a ready thread only.                         *)
LEMMA SetPriorityUntouched ==
  ASSUME NEW q, Wf(q, Thread), NEW t \in Thread, NEW p \in Prio, q.stat[q.cur] # "ready",
         NEW r, r = SetPriority(q, t, p)
  PROVE  Untouched(r, q, {})
<1>1. /\ Wf(r, Thread) /\ r.stat = q.stat /\ r.err = q.err /\ r.yield = q.yield
      /\ r.tmr = q.tmr /\ r.cur = q.cur /\ r.nest = q.nest /\ Fewer(r, q)
      /\ r.prio = [q.prio EXCEPT ![t] = p]
  BY SetPriorityWf
<1>2. SameWaiters(r, q)
  <2>1. CASE q.stat[t] = "ready"
    <3> DEFINE u == RemoveThread(q, t)
               v == [u EXCEPT !.prio[t] = p]
    <3>1. Thread \in SUBSET Thread /\ u \in KernelState
      BY RemoveThreadWf DEF Wf
    <3>2. v.wl = u.wl /\ DOMAIN v = DOMAIN u
      BY <3>1 DEF KernelState
    <3>3. r = InsertThread(v, t)
      BY <2>1 DEF SetPriority
    <3>4. DOMAIN u = {"stat", "prio", "err", "yield", "rq", "group", "wl", "defunct", "tmr", "cur", "nest"}
      BY <3>1 DEF KernelState
    <3>5. r.wl = v.wl
      <4> HIDE DEF v
      <4> QED BY <3>2, <3>3, <3>4 DEF InsertThread
    <3>6. OthersWait(r, q, t)
      BY <3>1, <3>2, <3>5, RemoveThreadOthersWait
    <3>7. \A l \in WaitList : t \notin Range(q.wl[l])
      BY <2>1 DEF Wf, OneList
    <3>8. \A l \in WaitList : t \notin Range(r.wl[l])
      BY <1>1, <2>1 DEF Wf, OneList
    <3> QED BY <3>6, <3>7, <3>8 DEF OthersWait, SameWaiters
  <2>2. CASE q.stat[t] # "ready"
    BY <2>2 DEF SetPriority, SameWaiters, Wf, KernelState
  <2> QED BY <2>1, <2>2
<1> QED BY <1>1, <1>2 DEF Untouched, SameWaiters

(* The first thread to run has the highest priority of those started.      *)
LEMMA BootTop ==
  ASSUME NEW up \in SUBSET Thread, Idle \in up, IsFiniteSet(up), NEW r \in BootQueues(up),
         NEW s, s = FirstSwitch(Started(up, r))
  PROVE  Top(s) /\ s.prio = InitPrio
<1> DEFINE q == Started(up, r)
           h == HighestThread(q)
           u == [q EXCEPT !.cur = h]
<1>1. /\ q.stat = [t \in Thread |-> IF t \in up THEN "ready" ELSE "init"]
      /\ q.prio = InitPrio /\ q.rq = r /\ q.group = {InitPrio[t] : t \in up}
  BY DEF Started
<1>2. q.group \in SUBSET Nat /\ q.group # {} /\ q.group \subseteq Prio
  BY <1>1, KernelAssumption DEF Prio
<1>3. \E p \in q.group : \A o \in q.group : p <= o
  BY <1>2, LeastElement
<1>4. HighestPrio(q) \in q.group /\ \A o \in q.group : HighestPrio(q) <= o
  BY <1>3 DEF HighestPrio
<1>5. PICK t0 \in up : InitPrio[t0] = HighestPrio(q)
  BY <1>1, <1>4
<1>6. h \in up /\ InitPrio[h] = HighestPrio(q)
  <2> DEFINE p == HighestPrio(q)
  <2>1. p \in Prio
    BY <1>2, <1>4
  <2>2. r[p] \in Seq(Thread) /\ \A x : x \in Range(r[p]) <=> x \in up /\ InitPrio[x] = p
    BY <2>1, BootQueueFacts
  <2>3. r[p] # << >>
    BY <1>5, <2>2, EmptyRange
  <2>4. h = Head(r[p])
    BY <1>1 DEF HighestThread
  <2> HIDE DEF p, h, q
  <2>5. h \in Range(r[p])
    BY <2>2, <2>3, <2>4, HeadFacts
  <2> QED BY <2>2, <2>5 DEF p
<1>7. s.prio = InitPrio /\ s.cur = h /\ \A x \in Thread : s.stat[x] = "ready" => x \in up
  <2>1. s = [RemoveThread(u, h) EXCEPT !.stat[h] = "running"]
    BY DEF FirstSwitch, SetRunning
  <2>2. /\ u.stat = q.stat /\ u.prio = InitPrio /\ u.cur = h
        /\ DOMAIN u = {"stat", "prio", "err", "yield", "rq", "group", "wl", "defunct", "tmr", "cur", "nest"}
    BY DEF Started
  <2> HIDE DEF u, h
  <2> DEFINE v == RemoveThread(u, h)
  <2>3. v.stat = u.stat /\ v.prio = u.prio /\ v.cur = u.cur /\ DOMAIN v = DOMAIN u
    <3> DEFINE w == Unlink(u, h)
    <3>1. w.stat = u.stat /\ w.prio = u.prio /\ w.cur = u.cur /\ DOMAIN w = DOMAIN u
      BY <2>2 DEF Unlink
    <3>2. v = w \/ v = [w EXCEPT !.group = @ \ {u.prio[h]}]
      BY DEF RemoveThread
    <3> HIDE DEF v, w
    <3> QED BY <2>2, <3>1, <3>2
  <2> HIDE DEF v
  <2>4. s.prio = v.prio /\ s.cur = v.cur /\ s.stat = [v.stat EXCEPT ![h] = "running"]
    BY <2>1, <2>2, <2>3 DEF v
  <2> QED BY <1>1, <1>6, <2>2, <2>3, <2>4
<1>8. \A x \in up : InitPrio[x] \in q.group
  BY <1>1
<1> QED BY <1>4, <1>6, <1>7, <1>8 DEF Top

(* Nobody is suspended when the scheduler starts.                          *)
LEMMA BootStat ==
  ASSUME NEW up \in SUBSET Thread, NEW r \in BootQueues(up),
         NEW s, s = FirstSwitch(Started(up, r)), NEW x \in Thread
  PROVE  s.stat[x] \in {"ready", "init", "running"}
<1> DEFINE q == Started(up, r)
           h == HighestThread(q)
           u == [q EXCEPT !.cur = h]
           v == RemoveThread(u, h)
<1>1. s = [v EXCEPT !.stat[h] = "running"]
  BY DEF FirstSwitch, SetRunning
<1>2. /\ u.stat = [t \in Thread |-> IF t \in up THEN "ready" ELSE "init"]
      /\ DOMAIN u = {"stat", "prio", "err", "yield", "rq", "group", "wl", "defunct", "tmr", "cur", "nest"}
  BY DEF Started
<1> HIDE DEF u, h
<1>3. v.stat = u.stat /\ DOMAIN v = DOMAIN u
  <2> DEFINE w == Unlink(u, h)
  <2>1. w.stat = u.stat /\ DOMAIN w = DOMAIN u
    BY <1>2 DEF Unlink
  <2>2. v = w \/ v = [w EXCEPT !.group = @ \ {u.prio[h]}]
    BY DEF RemoveThread
  <2> HIDE DEF v, w
  <2> QED BY <1>2, <2>1, <2>2
<1> HIDE DEF v
<1>4. s.stat = [v.stat EXCEPT ![h] = "running"]
  BY <1>1, <1>2, <1>3
<1> QED BY <1>2, <1>3, <1>4

(***************************************************************************)
(* The order of the wait lists.                                            *)
(***************************************************************************)
(* In a list by priority nobody stands behind a thread created with a      *)
(* lower priority.                                                         *)
Ordered(s) == \A i, j \in DOMAIN s : i < j => InitPrio[s[i]] <= InitPrio[s[j]]

(* No priority has changed, nobody has joined a wait list, and a list that *)
(* was in order still is.                                                  *)
Calm(r, q) ==
  /\ r.prio = q.prio
  /\ \A l \in WaitList : /\ Range(r.wl[l]) \subseteq Range(q.wl[l])
                         /\ Ordered(q.wl[l]) => Ordered(r.wl[l])

LEMMA CalmTwice ==
  ASSUME NEW q, NEW r, NEW s, Calm(r, q), Calm(s, r)
  PROVE  Calm(s, q)
BY DEF Calm

(* rt_list_remove keeps the order of the others.                           *)
LEMMA UnlinkedOrdered ==
  ASSUME NEW s \in Seq(Thread), NEW t \in Thread, Ordered(s)
  PROVE  Ordered(Unlinked(s, t))
<1>1. Len(s) \in Nat /\ DOMAIN s = 1 .. Len(s)
  BY LenProperties
<1>2. CASE ~ \E i \in DOMAIN s : s[i] = t
  BY <1>2 DEF Unlinked
<1>3. CASE \E i \in DOMAIN s : s[i] = t
  <2> DEFINE i == CHOOSE i \in DOMAIN s : s[i] = t
             r == RemoveAt(s, i)
  <2>1. i \in 1 .. Len(s) /\ Unlinked(s, t) = r
    BY <1>1, <1>3 DEF Unlinked
  <2> HIDE DEF i
  <2>2. /\ r \in Seq(Thread) /\ Len(r) = Len(s) - 1
        /\ \A j \in 1 .. Len(s) - 1 : r[j] = IF j < i THEN s[j] ELSE s[j + 1]
    BY <2>1, RemoveAtElements
  <2>3. DOMAIN r = 1 .. Len(s) - 1
    BY <2>2, LenProperties
  <2> HIDE DEF r
  <2>4. ASSUME NEW x \in DOMAIN r, NEW y \in DOMAIN r, x < y
        PROVE  InitPrio[r[x]] <= InitPrio[r[y]]
    <3> DEFINE old(j) == IF j < i THEN j ELSE j + 1
    <3>1. \A j \in DOMAIN r : old(j) \in DOMAIN s /\ r[j] = s[old(j)]
      BY <1>1, <2>1, <2>2, <2>3
    <3>2. old(x) < old(y)
      BY <1>1, <2>1, <2>3, <2>4
    <3> QED BY <3>1, <3>2 DEF Ordered
  <2> QED BY <2>1, <2>4 DEF Ordered
<1> QED BY <1>2, <1>3

(* A thread of its own priority among such threads is linked in order.     *)
LEMMA InsertOrdered ==
  ASSUME NEW q \in KernelState, NEW t \in Thread, NEW s \in Seq(Thread), Ordered(s),
         q.prio[t] = InitPrio[t], \A x \in Range(s) : q.prio[x] = InitPrio[x],
         NEW r, r = InsertAt(s, WaitPos(q, t, s, "prio"), t)
  PROVE  Ordered(r)
<1> DEFINE i == WaitPos(q, t, s, "prio")
<1>1. Len(s) \in Nat /\ DOMAIN s = 1 .. Len(s) /\ \A j \in 1 .. Len(s) : s[j] \in Thread
  BY LenProperties, ElementOfSeq
<1>2. \A x \in Thread : InitPrio[x] \in Nat
  BY KernelAssumption DEF Prio
<1>3. \A j \in 1 .. Len(s) : q.prio[s[j]] = InitPrio[s[j]]
  BY <1>1 DEF Range
<1>4. i \in 1 .. Len(s) + 1
  BY WaitPosInList
<1>5. /\ \A j \in 1 .. i - 1 : InitPrio[s[j]] <= InitPrio[t]
      /\ \A j \in i .. Len(s) : InitPrio[t] <= InitPrio[s[j]]
  <2> DEFINE lower == {j \in DOMAIN s : q.prio[t] < q.prio[s[j]]}
  <2>1. CASE lower = {}
    <3>1. i = Len(s) + 1
      BY <2>1 DEF WaitPos
    <3>2. \A j \in 1 .. Len(s) : InitPrio[s[j]] <= InitPrio[t]
      BY <1>1, <1>2, <1>3, <2>1
    <3> HIDE DEF i
    <3> QED BY <1>1, <3>1, <3>2
  <2>2. CASE lower # {}
    <3>1. lower \in SUBSET Nat
      BY <1>1
    <3>2. PICK m \in lower : \A n \in lower : m <= n
      BY <2>2, <3>1, LeastElement
    <3>3. \A j \in 1 .. m - 1 : q.prio[s[j]] <= q.prio[t]
      BY <1>1, <1>2, <1>3, <3>2
    <3>4. \E j \in DOMAIN s : /\ q.prio[t] < q.prio[s[j]]
                              /\ \A n \in 1 .. j - 1 : q.prio[s[n]] <= q.prio[t]
      BY <3>2, <3>3
    <3>5. i = CHOOSE j \in DOMAIN s : /\ q.prio[t] < q.prio[s[j]]
                                     /\ \A n \in 1 .. j - 1 : q.prio[s[n]] <= q.prio[t]
      BY <2>2 DEF WaitPos
    <3> HIDE DEF i
    <3>6. /\ i \in DOMAIN s /\ q.prio[t] < q.prio[s[i]]
          /\ \A n \in 1 .. i - 1 : q.prio[s[n]] <= q.prio[t]
      BY <3>4, <3>5
    <3>7. \A j \in 1 .. i - 1 : InitPrio[s[j]] <= InitPrio[t]
      BY <1>1, <1>3, <3>6
    <3>8. ASSUME NEW j \in i .. Len(s)  PROVE InitPrio[t] <= InitPrio[s[j]]
      <4>1. InitPrio[t] < InitPrio[s[i]] /\ InitPrio[s[i]] <= InitPrio[s[j]]
        BY <1>1, <1>2, <1>3, <3>6 DEF Ordered
      <4> QED BY <1>1, <1>2, <3>6, <4>1
    <3> QED BY <3>7, <3>8
  <2> QED BY <2>1, <2>2
<1> HIDE DEF i
<1>6. /\ r \in Seq(Thread) /\ Len(r) = Len(s) + 1
      /\ \A j \in 1 .. Len(s) + 1 :
           r[j] = IF j < i THEN s[j] ELSE IF j = i THEN t ELSE s[j - 1]
  <2>1. r = InsertAt(s, i, t)
    BY DEF i
  <2>2. /\ InsertAt(s, i, t) \in Seq(Thread)
        /\ Len(InsertAt(s, i, t)) = Len(s) + 1
        /\ \A j \in 1 .. Len(s) + 1 :
             InsertAt(s, i, t)[j] = IF j < i THEN s[j] ELSE IF j = i THEN t ELSE s[j - 1]
    BY <1>4, InsertAtElements
  <2> QED BY <2>1, <2>2
<1>7. DOMAIN r = 1 .. Len(s) + 1
  BY <1>6, LenProperties
<1>8. ASSUME NEW x \in DOMAIN r, NEW y \in DOMAIN r, x < y
      PROVE  InitPrio[r[x]] <= InitPrio[r[y]]
  <2> DEFINE old(j) == IF j < i THEN j ELSE j - 1
  <2>1. r[i] = t /\ \A j \in DOMAIN r : j # i => old(j) \in DOMAIN s /\ r[j] = s[old(j)]
    BY <1>1, <1>4, <1>6, <1>7
  <2>2. CASE x = i
    <3>1. old(y) \in i .. Len(s) /\ r[y] = s[old(y)]
      BY <1>1, <1>4, <1>7, <1>8, <2>1, <2>2
    <3> QED BY <1>5, <2>1, <2>2, <3>1
  <2>3. CASE y = i
    <3>1. old(x) \in 1 .. i - 1 /\ r[x] = s[old(x)]
      BY <1>1, <1>4, <1>7, <1>8, <2>1, <2>3
    <3> QED BY <1>5, <2>1, <2>3, <3>1
  <2>4. CASE x # i /\ y # i
    <3>1. old(x) < old(y) /\ old(x) \in DOMAIN s /\ old(y) \in DOMAIN s
      BY <1>1, <1>4, <1>7, <1>8, <2>1, <2>4
    <3> QED BY <2>1, <2>4, <3>1 DEF Ordered
  <2> QED BY <2>2, <2>3, <2>4
<1> QED BY <1>8 DEF Ordered

(* The primitives that take a thread out of the lists.                     *)
LEMMA UnlinkOrdered ==
  ASSUME NEW q \in KernelState, NEW t \in Thread, NEW r, r.wl = Unlink(q, t).wl
  PROVE  \A l \in WaitList : Ordered(q.wl[l]) => Ordered(r.wl[l])
<1> SUFFICES ASSUME NEW l \in WaitList, Ordered(q.wl[l])  PROVE Ordered(r.wl[l])
  OBVIOUS
<1>1. Unlink(q, t).wl = [m \in WaitList |-> Unlinked(q.wl[m], t)]
  BY DEF Unlink, KernelState
<1>2. r.wl[l] = Unlinked(q.wl[l], t) /\ q.wl[l] \in Seq(Thread)
  BY <1>1 DEF KernelState
<1> QED BY <1>2, UnlinkedOrdered

LEMMA RemoveThreadOrdered ==
  ASSUME NEW q, NEW S \in SUBSET Thread, Wf(q, S), NEW t \in Thread, NEW r, r.wl = RemoveThread(q, t).wl
  PROVE  \A l \in WaitList : Ordered(q.wl[l]) => Ordered(r.wl[l])
<1>1. Unlink(q, t) \in KernelState /\ q \in KernelState
  BY UnlinkFacts DEF Wf
<1>2. RemoveThread(q, t).wl = Unlink(q, t).wl
  BY <1>1 DEF RemoveThread, KernelState
<1> QED BY <1>1, <1>2, UnlinkOrdered

LEMMA SuspendCalm ==
  ASSUME NEW q, Wf(q, Thread), NEW t \in Thread, q.stat[t] \in {"ready", "running"},
         NEW r, r = Suspend(q, t)
  PROVE  Calm(r, q)
<1> DEFINE u == RemoveThread(q, t)
<1>1. /\ Wf(r, Thread) /\ Loose(r, t)
      /\ r.stat = [q.stat EXCEPT ![t] = "suspend"]
      /\ r.prio = q.prio /\ r.err = q.err /\ r.yield = q.yield /\ r.tmr = q.tmr
      /\ r.cur = q.cur /\ r.nest = q.nest /\ Fewer(r, q)
  BY SuspendWf
<1>2. Thread \in SUBSET Thread /\ u \in KernelState
  BY RemoveThreadWf DEF Wf
<1>3. r.wl = u.wl
  BY <1>2 DEF Suspend, SuspendBody, StopTimer, KernelState
<1>4. \A l \in WaitList : Ordered(q.wl[l]) => Ordered(r.wl[l])
  BY <1>2, <1>3, RemoveThreadOrdered
<1> QED BY <1>1, <1>4 DEF Calm, Fewer

LEMMA ResumeCalm ==
  ASSUME NEW q, Wf(q, Thread), NEW t \in Thread, q.stat[t] = "suspend", NEW r, r = Resume(q, t)
  PROVE  Calm(r, q)
<1> DEFINE u == Unlink(q, t)
           v == StopTimer(u, t)
<1>1. /\ Wf(r, Thread) /\ r.tmr = q.tmr \ {t}
      /\ r.stat = [q.stat EXCEPT ![t] = IF t = q.cur THEN "running" ELSE "ready"]
      /\ r.prio = q.prio /\ r.err = q.err /\ r.yield = q.yield
      /\ r.cur = q.cur /\ r.nest = q.nest /\ Fewer(r, q)
  BY ResumeWf
<1>2. Thread \in SUBSET Thread /\ u \in KernelState /\ q \in KernelState
  BY UnlinkFacts DEF Wf
<1>3. r = InsertThread(v, t)
  BY DEF Resume, ResumeUnlink
<1>4. r.wl = u.wl
  <2> HIDE DEF u
  <2>1. v.wl = u.wl /\ v \in KernelState
    BY <1>2 DEF StopTimer, KernelState
  <2> HIDE DEF v
  <2> QED BY <1>3, <2>1 DEF InsertThread, KernelState
<1>5. \A l \in WaitList : Ordered(q.wl[l]) => Ordered(r.wl[l])
  BY <1>2, <1>4, UnlinkOrdered
<1> QED BY <1>1, <1>5 DEF Calm, Fewer

LEMMA ExpiredCalm ==
  ASSUME NEW q, Wf(q, Thread), NEW t \in Thread, t \in q.tmr, NEW r, r = Expired(q, t)
  PROVE  Calm(r, q)
<1> DEFINE a == StopTimer(q, t)
           u == Unlink(a, t)
           v == [u EXCEPT !.err[t] = "ETIMEOUT"]
<1>1. r.prio = q.prio /\ Fewer(r, q)
  <2>1. /\ q.stat[t] = "suspend" /\ Wf(r, Thread)
        /\ r.stat = [q.stat EXCEPT ![t] = IF t = q.cur THEN "running" ELSE "ready"]
        /\ r.err = [q.err EXCEPT ![t] = "ETIMEOUT"] /\ r.prio = q.prio
        /\ r.tmr = q.tmr \ {t} /\ r.cur = q.cur /\ r.nest = q.nest /\ Fewer(r, q)
    BY ExpiredWf
  <2> QED BY <2>1
<1>2. a \in KernelState /\ a.wl = q.wl
  BY DEF Wf, StopTimer, KernelState
<1>3. u.wl = [l \in WaitList |-> Unlinked(q.wl[l], t)]
      /\ DOMAIN u = {"stat", "prio", "err", "yield", "rq", "group", "wl", "defunct", "tmr", "cur", "nest"}
  <2> HIDE DEF a
  <2> QED BY <1>2 DEF Unlink, KernelState
<1>4. r = InsertThread(v, t)
  BY DEF Expired
<1>5. r.wl = u.wl
  <2> HIDE DEF u
  <2>1. v.wl = u.wl /\ DOMAIN v = DOMAIN u
    BY <1>3
  <2> HIDE DEF v
  <2> QED BY <1>3, <1>4, <2>1 DEF InsertThread
<1>6. \A l \in WaitList : Ordered(q.wl[l]) => Ordered(r.wl[l])
  <2> HIDE DEF a
  <2> QED BY <1>2, <1>5, UnlinkOrdered
<1> QED BY <1>1, <1>6 DEF Calm, Fewer

(* rt_schedule.                                                            *)
LEMMA ScheduleCalm ==
  ASSUME NEW q, MaySchedule(q), NEW r, r = Schedule(q)
  PROVE  Calm(r, q)
<1>1. Wf(q, Thread) /\ q \in KernelState /\ q.cur \in Thread /\ Thread \in SUBSET Thread
  BY DEF MaySchedule, Wf, KernelState
<1>2. r.prio = q.prio /\ \A l \in WaitList : Range(r.wl[l]) \subseteq Range(q.wl[l])
  BY ScheduleWf DEF Rescheduled, Fewer
<1>3. CASE r = q
  BY <1>3 DEF Calm
<1>4. CASE q.nest = 0 /\ q.group # {}
  <2>1. PICK h \in Thread : r = SwitchTo(q, h)
    BY <1>1, <1>4, HighestThreadReady DEF Schedule
  <2> DEFINE u == IF h = q.cur THEN q ELSE PutBack(q)
             v == RemoveThread(u, h)
  <2>2. Wf(u, Thread) /\ u.wl = q.wl
    <3>1. PutBack(q).wl = q.wl
      BY <1>1 DEF PutBack, KernelState
    <3> QED BY <1>1, <3>1, PutBackWf
  <2>3. r = [v EXCEPT !.stat[h] = "running"] \/ r = [[v EXCEPT !.stat[h] = "running"] EXCEPT !.cur = h]
    BY <2>1 DEF SwitchTo, SetRunning
  <2> HIDE DEF u
  <2>4. v \in KernelState
    BY <1>1, <2>2, RemoveThreadWf DEF Wf
  <2>5. r.wl = v.wl
    <3> HIDE DEF v
    <3> QED BY <2>3, <2>4 DEF KernelState
  <2>6. \A l \in WaitList : Ordered(q.wl[l]) => Ordered(r.wl[l])
    BY <1>1, <2>2, <2>5, RemoveThreadOrdered
  <2> QED BY <1>2, <2>6 DEF Calm
<1> QED BY <1>3, <1>4 DEF Schedule

(* A change of priority keeps the lists in order as well.                  *)
LEMMA SetPriorityOrdered ==
  ASSUME NEW q, Wf(q, Thread), NEW t \in Thread, NEW p \in Prio, NEW r, r = SetPriority(q, t, p)
  PROVE  \A l \in WaitList : Ordered(q.wl[l]) => Ordered(r.wl[l])
<1>1. q \in KernelState /\ Thread \in SUBSET Thread
  BY DEF Wf
<1>2. CASE q.stat[t] = "ready"
  <2> DEFINE u == RemoveThread(q, t)
             v == [u EXCEPT !.prio[t] = p]
  <2>1. u \in KernelState
    BY <1>1, RemoveThreadWf DEF Wf
  <2>2. v.wl = u.wl /\ DOMAIN v = DOMAIN u
    BY <2>1 DEF KernelState
  <2>3. r = InsertThread(v, t)
    BY <1>2 DEF SetPriority
  <2>4. DOMAIN u = {"stat", "prio", "err", "yield", "rq", "group", "wl", "defunct", "tmr", "cur", "nest"}
    BY <2>1 DEF KernelState
  <2>5. r.wl = u.wl
    <3> HIDE DEF v
    <3> QED BY <2>2, <2>3, <2>4 DEF InsertThread
  <2> QED BY <1>1, <2>5, RemoveThreadOrdered
<1>3. CASE q.stat[t] # "ready"
  BY <1>1, <1>3 DEF SetPriority, KernelState
<1> QED BY <1>2, <1>3

(* rt_ipc_list_suspend by priority.                                        *)
LEMMA SuspendOnOrdered ==
  ASSUME NEW q, Wf(q, Thread), NEW t \in Thread, q.stat[t] \in {"ready", "running"},
         NEW l \in WaitList, q.prio[t] = InitPrio[t],
         \A x \in Range(q.wl[l]) : q.prio[x] = InitPrio[x],
         \A m \in WaitList : Ordered(q.wl[m]),
         NEW r, r = SuspendOn(q, t, l, "prio")
  PROVE  \A m \in WaitList : Ordered(r.wl[m])
<1> DEFINE u == Suspend(q, t)
           s == InsertAt(u.wl[l], WaitPos(u, t, u.wl[l], "prio"), t)
<1>1. Wf(u, Thread) /\ Calm(u, q)
  BY SuspendWf, SuspendCalm
<1>2. r = [u EXCEPT !.wl[l] = s]
  BY DEF SuspendOn
<1> HIDE DEF u
<1>3. u \in KernelState /\ u.wl \in [WaitList -> Seq(Thread)] /\ u.wl[l] \in Seq(Thread)
  BY <1>1 DEF Wf, KernelState
<1>4. Ordered(s)
  <2>1. /\ u.prio[t] = InitPrio[t] /\ Ordered(u.wl[l])
        /\ \A x \in Range(u.wl[l]) : u.prio[x] = InitPrio[x]
    BY <1>1 DEF Calm
  <2> QED BY <1>3, <2>1, InsertOrdered
<1> HIDE DEF s
<1>5. r.wl = [u.wl EXCEPT ![l] = s]
  BY <1>2, <1>3 DEF KernelState
<1> QED BY <1>1, <1>3, <1>4, <1>5 DEF Calm

(***************************************************************************)
(* What the callers do to the kernel: they let the waiting threads of D    *)
(* go, or they make a thread wait.                                         *)
(***************************************************************************)
OnCpu(q) == q.stat[q.cur] = "running"

Releases(r, q, D) ==
  /\ Wf(r, Thread) /\ OneRuns(r) /\ r.nest = q.nest
  /\ Untouched(r, q, D)
  /\ \A x \in Thread \ D : r.err[x] = q.err[x]
  /\ \A x \in D : r.stat[x] # "suspend"

(* It is still the same thread's turn.                                     *)
SameTurn(r, q) == r.cur = q.cur /\ (OnCpu(q) => OnCpu(r))

(* Nothing has happened yet.                                               *)
LEMMA NothingReleased ==
  ASSUME NEW q, Wf(q, Thread), OneRuns(q)
  PROVE  Releases(q, q, {}) /\ SameTurn(q, q)
BY DEF Releases, SameTurn, Untouched

(* One thing after the other.                                              *)
LEMMA ReleasesTwice ==
  ASSUME NEW q, NEW r, NEW s, NEW D \in SUBSET Thread, NEW E \in SUBSET Thread,
         Releases(r, q, D), Releases(s, r, E)
  PROVE  Releases(s, q, D \cup E)
<1>1. Untouched(s, q, D \cup E)
  BY UntouchedTwice DEF Releases
<1>2. ASSUME NEW x \in D \cup E
      PROVE  s.stat[x] # "suspend"
  BY <1>2 DEF Releases, Untouched
<1> QED BY <1>1, <1>2 DEF Releases

(* A thread that is not suspended is in no wait list.                      *)
LEMMA OnlySuspendedWait ==
  ASSUME NEW q, Wf(q, Thread), NEW x \in Thread, q.stat[x] # "suspend", NEW l \in WaitList
  PROVE  x \notin Range(q.wl[l])
BY DEF Wf, OneList

(* rt_thread_resume.                                                       *)
LEMMA ResumeReleases ==
  ASSUME NEW q, Wf(q, Thread), OneRuns(q), NEW t \in Thread, q.stat[t] = "suspend",
         NEW r, r = Resume(q, t)
  PROVE  Releases(r, q, {t}) /\ SameTurn(r, q) /\ r.err = q.err
<1>1. /\ Wf(r, Thread) /\ r.tmr = q.tmr \ {t}
      /\ r.stat = [q.stat EXCEPT ![t] = IF t = q.cur THEN "running" ELSE "ready"]
      /\ r.prio = q.prio /\ r.err = q.err /\ r.yield = q.yield
      /\ r.cur = q.cur /\ r.nest = q.nest /\ Fewer(r, q)
  BY ResumeWf
<1>2. Untouched(r, q, {t})
  BY ResumeUntouched
<1>3. q.stat \in [Thread -> Stat] /\ q.cur \in Thread
  BY DEF Wf, KernelState
<1>4. OneRuns(r)
  BY <1>1, <1>3, KernelAssumption DEF OneRuns
<1>5. SameTurn(r, q) /\ r.stat[t] # "suspend"
  BY <1>1, <1>3 DEF SameTurn, OnCpu
<1> QED BY <1>1, <1>2, <1>4, <1>5 DEF Releases

(* rt_schedule.                                                            *)
LEMMA ScheduleReleases ==
  ASSUME NEW q, Wf(q, Thread), OneRuns(q), q.nest = 0, NEW r, r = Schedule(q)
  PROVE  Releases(r, q, {}) /\ OnCpu(r) /\ r.err = q.err
<1>1. MaySchedule(q)
  BY DEF MaySchedule
<1>2. Wf(r, Thread) /\ OneRuns(r) /\ r.stat[r.cur] = "running" /\ Rescheduled(r, q)
  BY <1>1, ScheduleWf
<1>3. Untouched(r, q, {})
  BY <1>1, ScheduleUntouched
<1> QED BY <1>2, <1>3 DEF Releases, OnCpu, Rescheduled

(* A thread that waits gets its error, and is resumed.                     *)
SetError(q, t, e) == [q EXCEPT !.err[t] = e]

LEMMA SetErrorWf ==
  ASSUME NEW q, Wf(q, Thread), NEW t \in Thread, NEW e \in Err, NEW r, r = SetError(q, t, e)
  PROVE  /\ Wf(r, Thread) /\ r.err = [q.err EXCEPT ![t] = e]
         /\ r.stat = q.stat /\ r.prio = q.prio /\ r.tmr = q.tmr /\ r.wl = q.wl
         /\ r.defunct = q.defunct /\ r.cur = q.cur /\ r.nest = q.nest
<1>1. q \in KernelState
  BY DEF Wf
<1>2. /\ r \in KernelState /\ r.err = [q.err EXCEPT ![t] = e]
      /\ r.stat = q.stat /\ r.prio = q.prio /\ r.rq = q.rq /\ r.group = q.group
      /\ r.wl = q.wl /\ r.defunct = q.defunct /\ r.tmr = q.tmr /\ r.cur = q.cur /\ r.nest = q.nest
  BY <1>1 DEF SetError, KernelState
<1>3. Thread \in SUBSET Thread /\ r.tmr \subseteq q.tmr
  BY <1>2
<1>4. Wf(r, Thread)
  BY <1>2, <1>3, SameListsWf
<1> QED BY <1>2, <1>4

LEMMA FailingReleases ==
  ASSUME NEW q, Wf(q, Thread), OneRuns(q), NEW t \in Thread, q.stat[t] = "suspend",
         NEW r, r = Failing(q, t)
  PROVE  Releases(r, q, {t}) /\ SameTurn(r, q) /\ r.err[t] = "ERROR"
<1> DEFINE u == SetError(q, t, "ERROR")
<1>1. /\ Wf(u, Thread) /\ u.err = [q.err EXCEPT ![t] = "ERROR"]
      /\ u.stat = q.stat /\ u.tmr = q.tmr /\ u.wl = q.wl /\ u.cur = q.cur /\ u.nest = q.nest
  <2>1. "ERROR" \in Err
    BY DEF Err
  <2> HIDE DEF u
  <2>2. u = SetError(q, t, "ERROR")
    BY DEF u
  <2> QED BY <2>1, <2>2, SetErrorWf
<1>2. r = Resume(u, t)
  BY DEF Failing, SetError
<1> HIDE DEF u
<1>3. OneRuns(u) /\ u.stat[t] = "suspend"
  BY <1>1 DEF OneRuns
<1>4. Releases(r, u, {t}) /\ SameTurn(r, u) /\ r.err = u.err
  BY <1>1, <1>2, <1>3, ResumeReleases
<1>5. q.err \in [Thread -> Err]
  BY DEF Wf, KernelState
<1> QED BY <1>1, <1>4, <1>5 DEF Releases, SameTurn, Untouched, OnCpu

(* The timer of a waiting thread expires.                                  *)
LEMMA TimeoutReleases ==
  ASSUME NEW q, Wf(q, Thread), OneRuns(q), q.nest = 0, NEW t \in Thread, t \in q.tmr,
         NEW r, r = Timeout(q, t)
  PROVE  Releases(r, q, {t}) /\ OnCpu(r) /\ r.err[t] = "ETIMEOUT"
<1> DEFINE u == Expired(q, t)
<1>1. /\ q.stat[t] = "suspend" /\ Wf(u, Thread)
      /\ u.stat = [q.stat EXCEPT ![t] = IF t = q.cur THEN "running" ELSE "ready"]
      /\ u.err = [q.err EXCEPT ![t] = "ETIMEOUT"]
      /\ u.tmr = q.tmr \ {t} /\ u.cur = q.cur /\ u.nest = q.nest /\ Fewer(u, q)
  <2> HIDE DEF u
  <2>1. u = Expired(q, t)
    BY DEF u
  <2> QED BY <2>1, ExpiredWf
<1>2. Untouched(u, q, {t})
  <2> HIDE DEF u
  <2>1. u = Expired(q, t)
    BY DEF u
  <2> QED BY <2>1, ExpiredUntouched
<1>3. r = Schedule(u)
  BY DEF Timeout, Expired
<1> HIDE DEF u
<1>4. q.stat \in [Thread -> Stat] /\ q.err \in [Thread -> Err] /\ q.cur \in Thread
  BY DEF Wf, KernelState
<1>5. OneRuns(u) /\ u.stat[t] # "suspend" /\ u.err[t] = "ETIMEOUT"
  BY <1>1, <1>4, KernelAssumption DEF OneRuns
<1>6. Releases(u, q, {t})
  BY <1>1, <1>2, <1>4, <1>5 DEF Releases
<1>7. Releases(r, u, {}) /\ OnCpu(r) /\ r.err = u.err
  BY <1>1, <1>3, <1>5, ScheduleReleases
<1>8. Releases(r, q, {t} \cup {})
  BY <1>6, <1>7, ReleasesTwice
<1> QED BY <1>5, <1>7, <1>8

(* The clock takes the processor.                                          *)
LEMMA SliceOverReleases ==
  ASSUME NEW q, Wf(q, Thread), OneRuns(q), q.nest = 0, NEW r, r = SliceOver(q)
  PROVE  Releases(r, q, {}) /\ OnCpu(r) /\ r.err = q.err
<1> DEFINE u == [q EXCEPT !.yield = @ \cup {q.cur}]
<1>1. /\ u \in KernelState /\ u.stat = q.stat /\ u.prio = q.prio /\ u.rq = q.rq /\ u.group = q.group
      /\ u.wl = q.wl /\ u.defunct = q.defunct /\ u.tmr = q.tmr /\ u.err = q.err
      /\ u.nest = q.nest /\ u.cur = q.cur
  BY DEF Wf, KernelState
<1>2. r = Schedule(u)
  BY DEF SliceOver
<1> HIDE DEF u
<1>3. Wf(u, Thread)
  <2>1. Thread \in SUBSET Thread /\ u.tmr \subseteq q.tmr
    BY <1>1
  <2> QED BY <1>1, <2>1, SameListsWf
<1>4. OneRuns(u) /\ u.nest = 0
  BY <1>1 DEF OneRuns
<1>5. Releases(u, q, {})
  BY <1>1, <1>3, <1>4 DEF Releases, Untouched
<1>6. Releases(r, u, {}) /\ OnCpu(r) /\ r.err = u.err
  BY <1>2, <1>3, <1>4, ScheduleReleases
<1>7. Releases(r, q, {} \cup {})
  BY <1>5, <1>6, ReleasesTwice
<1> QED BY <1>1, <1>6, <1>7

(***************************************************************************)
(* A thread makes itself wait.                                             *)
(***************************************************************************)
Suspends(r, q, t) ==
  /\ Wf(r, Thread) /\ OneRuns(r) /\ r.nest = q.nest /\ r.cur = q.cur
  /\ Untouched(r, q, {t})
  /\ \A x \in Thread \ {t} : r.err[x] = q.err[x]
  /\ r.stat[t] = "suspend"

MayWait(q, t) ==
  Wf(q, Thread) /\ OneRuns(q) /\ t \in Thread /\ t # Idle /\ q.stat[t] = "running"

(* The thread is in the list l and in no other.                            *)
In(r, t, l) == \A m \in WaitList : t \in Range(r.wl[m]) <=> m = l

(* A timeout is set for a thread that waits.                               *)
LEMMA TimedSuspends ==
  ASSUME NEW q, NEW u, NEW t \in Thread, Suspends(u, q, t), NEW r, r = StartTimer(u, t)
  PROVE  Suspends(r, q, t) /\ r.err = u.err /\ r.wl = u.wl
<1>1. /\ Wf(r, Thread) /\ r.tmr = u.tmr \cup {t}
      /\ r.stat = u.stat /\ r.prio = u.prio /\ r.err = u.err /\ r.yield = u.yield
      /\ r.cur = u.cur /\ r.nest = u.nest /\ r.wl = u.wl /\ r.defunct = u.defunct
  BY StartTimerWf DEF Suspends
<1> QED BY <1>1 DEF Suspends, OneRuns, Untouched

(* rt_thread_suspend of the running thread itself.                         *)
LEMMA SuspendSuspends ==
  ASSUME NEW q, NEW t, MayWait(q, t), NEW r, r = Suspend(q, t)
  PROVE  Suspends(r, q, t) /\ Loose(r, t) /\ r.err = q.err /\ r.tmr = q.tmr
<1>1. /\ Wf(r, Thread) /\ Loose(r, t)
      /\ r.stat = [q.stat EXCEPT ![t] = "suspend"]
      /\ r.prio = q.prio /\ r.err = q.err /\ r.yield = q.yield /\ r.tmr = q.tmr
      /\ r.cur = q.cur /\ r.nest = q.nest /\ Fewer(r, q)
  BY SuspendWf DEF MayWait
<1>2. Untouched(r, q, {t})
  BY SuspendUntouched DEF MayWait
<1>3. q.stat \in [Thread -> Stat]
  BY DEF MayWait, Wf, KernelState
<1>4. OneRuns(r) /\ r.stat[t] = "suspend"
  BY <1>1, <1>3, KernelAssumption DEF OneRuns, MayWait
<1> QED BY <1>1, <1>2, <1>4 DEF Suspends

(* And it is linked into a wait list.                                      *)
LEMMA LinkSuspends ==
  ASSUME NEW q, NEW t \in Thread, NEW u, Suspends(u, q, t), Loose(u, t),
         NEW l \in WaitList, NEW s \in Seq(Thread), IsInjective(s), OneMore(s, u.wl[l], t),
         NEW r, r = WithList(u, l, s)
  PROVE  Suspends(r, q, t) /\ In(r, t, l) /\ r.err = u.err /\ r.tmr = u.tmr
<1>1. /\ Wf(r, Thread)
      /\ r.wl = [u.wl EXCEPT ![l] = s]
      /\ r.stat = u.stat /\ r.prio = u.prio /\ r.err = u.err /\ r.yield = u.yield /\ r.tmr = u.tmr
      /\ r.cur = u.cur /\ r.nest = u.nest /\ r.defunct = u.defunct
  BY LinkWf DEF Suspends
<1>2. u.wl \in [WaitList -> Seq(Thread)]
  BY DEF Suspends, Wf, KernelState
<1>3. \A m \in WaitList : m # l => r.wl[m] = u.wl[m]
  BY <1>1, <1>2
<1>4. r.wl[l] = s
  BY <1>1, <1>2
<1>5. In(r, t, l)
  BY <1>3, <1>4 DEF In, Loose, OneMore
<1>6. Untouched(r, q, {t})
  BY <1>1, <1>3, <1>4 DEF Suspends, Untouched, OneMore
<1> QED BY <1>1, <1>5, <1>6 DEF Suspends, OneRuns

(* thread->error is cleared first.                                         *)
LEMMA ClearedMayWait ==
  ASSUME NEW q, NEW t, MayWait(q, t), NEW u, u = ClearError(q, t)
  PROVE  /\ MayWait(u, t) /\ u.err[t] = "EOK"
         /\ \A r : Suspends(r, u, t) => Suspends(r, q, t)
<1>1. /\ Wf(u, Thread) /\ u.err = [q.err EXCEPT ![t] = "EOK"]
      /\ u.stat = q.stat /\ u.tmr = q.tmr /\ u.wl = q.wl /\ u.cur = q.cur /\ u.nest = q.nest
  <2>1. "EOK" \in Err /\ u = SetError(q, t, "EOK")
    BY DEF Err, ClearError, SetError
  <2>2. Wf(q, Thread) /\ t \in Thread
    BY DEF MayWait
  <2> QED BY <2>1, <2>2, SetErrorWf
<1>2. q.err \in [Thread -> Err]
  BY DEF MayWait, Wf, KernelState
<1>3. MayWait(u, t) /\ u.err[t] = "EOK"
  BY <1>1, <1>2 DEF MayWait, OneRuns
<1>4. ASSUME NEW r, Suspends(r, u, t)
      PROVE  Suspends(r, q, t)
  BY <1>1, <1>2, <1>4 DEF Suspends, Untouched
<1> QED BY <1>3, <1>4

(* rt_ipc_list_suspend.                                                    *)
LEMMA SuspendOnSuspends ==
  ASSUME NEW q, NEW t, MayWait(q, t), NEW l \in WaitList, NEW flag, NEW r, r = SuspendOn(q, t, l, flag)
  PROVE  Suspends(r, q, t) /\ In(r, t, l) /\ r.err = q.err /\ r.tmr = q.tmr
<1> DEFINE b == Suspend(q, t)
           pos == WaitPos(b, t, b.wl[l], flag)
           s == InsertAt(b.wl[l], pos, t)
<1>1. r = WithList(b, l, s)
  BY DEF SuspendOn, WithList
<1>2. Suspends(b, q, t) /\ Loose(b, t) /\ b.err = q.err /\ b.tmr = q.tmr
  <2> HIDE DEF b
  <2>1. b = Suspend(q, t)
    BY DEF b
  <2> QED BY <2>1, SuspendSuspends
<1> HIDE DEF b
<1>3. /\ t \in Thread /\ b \in KernelState /\ b.wl[l] \in Seq(Thread)
      /\ IsInjective(b.wl[l]) /\ t \notin Range(b.wl[l])
  <2>1. t \in Thread /\ b \in KernelState /\ OneList(b) /\ Loose(b, t)
    BY <1>2 DEF MayWait, Suspends, Wf
  <2>2. b.wl \in [WaitList -> Seq(Thread)]
    BY <2>1 DEF KernelState
  <2> QED BY <2>1, <2>2 DEF OneList, Loose
<1>4. pos \in 1 .. Len(b.wl[l]) + 1
  BY <1>3, WaitPosInList
<1> HIDE DEF pos
<1>5. s \in Seq(Thread) /\ IsInjective(s) /\ OneMore(s, b.wl[l], t)
  BY <1>3, <1>4, InsertAtFacts DEF OneMore
<1> HIDE DEF s
<1>6. Suspends(r, q, t) /\ In(r, t, l) /\ r.err = b.err /\ r.tmr = b.tmr
  BY <1>1, <1>2, <1>3, <1>5, LinkSuspends
<1> QED BY <1>2, <1>6
=============================================================================
