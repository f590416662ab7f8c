----------------------------- MODULE IpcProofs ------------------------------
(***************************************************************************)
(* What mailboxes, message queues and memory pools promise, of any size,   *)
(* for any number of threads: no block and no slot is ever in two places,  *)
(* and each of them implements Store.                                      *)
(***************************************************************************)
EXTENDS MCIpc, SequenceTheorems, FiniteSetTheorems, TLAPS

(***************************************************************************)
(* Lists without repetition: what taking from the front, linking at either *)
(* end and splicing do to the set of their elements.                       *)
(***************************************************************************)
LEMMA FrontFacts ==
  ASSUME NEW S, NEW s \in Seq(S), s # << >>
  PROVE  /\ Head(s) \in S /\ Head(s) \in Range(s)
         /\ Tail(s) \in Seq(S) /\ Len(Tail(s)) = Len(s) - 1
         /\ IsInjective(s) => /\ IsInjective(Tail(s))
                              /\ \A x : x \in Range(Tail(s)) <=> x \in Range(s) /\ x # Head(s)
<1> DEFINE r == Tail(s)
<1>1. Len(s) \in Nat \ {0} /\ DOMAIN s = 1 .. Len(s)
  BY LenProperties, EmptySeq
<1>2. /\ Head(s) \in S /\ r \in Seq(S) /\ Len(r) = Len(s) - 1
      /\ \A i \in 1 .. Len(r) : r[i] = s[i + 1]
  BY HeadTailProperties
<1>3. Head(s) = s[1]
  BY <1>1
<1>4. DOMAIN r = 1 .. Len(s) - 1
  BY <1>2, LenProperties
<1> HIDE DEF r
<1>5. Head(s) \in Range(s)
  <2>1. 1 \in DOMAIN s
    BY <1>1
  <2> QED BY <1>3, <2>1 DEF Range
<1>6. \A i \in DOMAIN r : i + 1 \in DOMAIN s /\ i + 1 # 1 /\ r[i] = s[i + 1]
  BY <1>1, <1>2, <1>4
<1>7. \A j \in DOMAIN s : j # 1 => j - 1 \in DOMAIN r /\ r[j - 1] = s[j]
  BY <1>1, <1>2, <1>4
<1>8. ASSUME IsInjective(s)
      PROVE  IsInjective(r) /\ \A x : x \in Range(r) <=> x \in Range(s) /\ x # Head(s)
  <2>1. IsInjective(r)
    <3>1. ASSUME NEW i \in DOMAIN r, NEW j \in DOMAIN r, r[i] = r[j]  PROVE i = j
      <4>1. i + 1 = j + 1
        BY <1>6, <1>8, <3>1 DEF IsInjective
      <4> QED BY <1>4, <4>1
    <3> QED BY <3>1 DEF IsInjective
  <2>2. 1 \in DOMAIN s
    BY <1>1
  <2>3. \A i \in DOMAIN r : r[i] \in Range(s) /\ r[i] # Head(s)
    BY <1>3, <1>6, <1>8, <2>2 DEF IsInjective, Range
  <2>4. \A j \in DOMAIN s : s[j] # Head(s) => s[j] \in Range(r)
    <3>1. ASSUME NEW j \in DOMAIN s, s[j] # Head(s)  PROVE s[j] \in Range(r)
      <4>1. j # 1
        BY <1>3, <3>1
      <4> QED BY <1>7, <4>1 DEF Range
    <3> QED BY <3>1
  <2> QED BY <2>1, <2>3, <2>4 DEF Range
<1> QED BY <1>2, <1>5, <1>8 DEF r

(* The list with an element at its end, a name the provers do not open.    *)
Added(e, s) == Append(s, e)

LEMMA BackFacts ==
  ASSUME NEW S, NEW s \in Seq(S), IsInjective(s), NEW e \in S, e \notin Range(s), NEW r, r = Added(e, s)
  PROVE  /\ r \in Seq(S) /\ Len(r) = Len(s) + 1
         /\ IsInjective(r)
         /\ \A x : x \in Range(r) <=> x \in Range(s) \/ x = e
<1>1. Len(s) \in Nat /\ DOMAIN s = 1 .. Len(s)
  BY LenProperties
<1>2. /\ r \in Seq(S) /\ Len(r) = Len(s) + 1
      /\ \A j \in 1 .. Len(s) : r[j] = s[j]
      /\ r[Len(s) + 1] = e
  BY AppendProperties DEF Added
<1>3. DOMAIN r = 1 .. Len(s) + 1
  BY <1>2, LenProperties
<1>4. Range(r) = Range(s) \cup {e}
  <2>1. ASSUME NEW j \in DOMAIN r  PROVE r[j] \in Range(s) \cup {e}
    BY <1>1, <1>2, <1>3 DEF Range
  <2>2. ASSUME NEW j \in DOMAIN s  PROVE j \in DOMAIN r /\ r[j] = s[j]
    BY <1>1, <1>2, <1>3
  <2>3. Len(s) + 1 \in DOMAIN r
    BY <1>1, <1>3
  <2> QED BY <1>2, <2>1, <2>2, <2>3 DEF Range
<1>5. IsInjective(r)
  BY <1>1, <1>2, <1>3 DEF IsInjective, Range
<1> QED BY <1>2, <1>4, <1>5

(* Two lists that have nothing in common.                                  *)
Apart(s, u) == \A x \in Range(s) : x \notin Range(u)

LEMMA SpliceFacts ==
  ASSUME NEW S, NEW s \in Seq(S), NEW u \in Seq(S), IsInjective(s), IsInjective(u),
         Apart(s, u), NEW r, r = s \o u
  PROVE  /\ r \in Seq(S) /\ Len(r) = Len(s) + Len(u) /\ IsInjective(r)
         /\ \A x : x \in Range(r) <=> x \in Range(s) \/ x \in Range(u)
<1>1. /\ Len(s) \in Nat /\ DOMAIN s = 1 .. Len(s) /\ Len(u) \in Nat /\ DOMAIN u = 1 .. Len(u)
      /\ \A i \in 1 .. Len(s) : s[i] \in S
  BY LenProperties, ElementOfSeq
<1>2. /\ r \in Seq(S) /\ Len(r) = Len(s) + Len(u)
      /\ \A i \in 1 .. Len(s) + Len(u) : r[i] = IF i <= Len(s) THEN s[i] ELSE u[i - Len(s)]
  BY ConcatProperties
<1>3. Range(r) = Range(s) \cup Range(u)
  BY RangeConcatenation
<1>4. DOMAIN r = 1 .. Len(s) + Len(u)
  BY <1>2, LenProperties
<1>5. ASSUME NEW i \in DOMAIN r, i <= Len(s)
      PROVE  i \in DOMAIN s /\ r[i] = s[i]
  BY <1>1, <1>2, <1>4, <1>5
<1>6. ASSUME NEW i \in DOMAIN r, ~ (i <= Len(s))
      PROVE  i - Len(s) \in DOMAIN u /\ r[i] = u[i - Len(s)]
  BY <1>1, <1>2, <1>4, <1>6
<1>7. ASSUME NEW i \in DOMAIN r, NEW j \in DOMAIN r, r[i] = r[j]
      PROVE  i = j
  <2>1. CASE i <= Len(s) /\ j <= Len(s)
    BY <1>5, <1>7, <2>1 DEF IsInjective
  <2>2. CASE ~ (i <= Len(s)) /\ ~ (j <= Len(s))
    <3>1. i - Len(s) = j - Len(s)
      BY <1>6, <1>7, <2>2 DEF IsInjective
    <3> QED BY <1>1, <1>4, <3>1
  <2>3. CASE i <= Len(s) /\ ~ (j <= Len(s))
    <3>1. i \in DOMAIN s /\ r[i] = s[i] /\ j - Len(s) \in DOMAIN u /\ r[j] = u[j - Len(s)]
      BY <1>5, <1>6, <2>3
    <3>2. r[i] \in Range(s) /\ r[i] \in Range(u)
      BY <1>7, <3>1 DEF Range
    <3> QED BY <3>2 DEF Apart
  <2>4. CASE ~ (i <= Len(s)) /\ j <= Len(s)
    <3>1. j \in DOMAIN s /\ r[j] = s[j] /\ i - Len(s) \in DOMAIN u /\ r[i] = u[i - Len(s)]
      BY <1>5, <1>6, <2>4
    <3>2. r[j] \in Range(s) /\ r[j] \in Range(u)
      BY <1>7, <3>1 DEF Range
    <3> QED BY <3>2 DEF Apart
  <2> QED BY <2>1, <2>2, <2>3, <2>4
<1> QED BY <1>2, <1>3, <1>7 DEF IsInjective

Pushed(e, s) == <<e>> \o s

LEMMA LinkFirstFacts ==
  ASSUME NEW S, NEW s \in Seq(S), IsInjective(s), NEW e \in S, e \notin Range(s), NEW r, r = Pushed(e, s)
  PROVE  /\ r \in Seq(S) /\ Len(r) = Len(s) + 1 /\ IsInjective(r)
         /\ \A x : x \in Range(r) <=> x \in Range(s) \/ x = e
<1> DEFINE h == <<e>>
<1>1. h \in Seq(S) /\ Len(h) = 1 /\ DOMAIN h = 1 .. 1 /\ h[1] = e
  OBVIOUS
<1>2. r = h \o s
  BY DEF Pushed
<1> HIDE DEF h
<1>3. IsInjective(h) /\ \A x : x \in Range(h) <=> x = e
  BY <1>1 DEF IsInjective, Range
<1>4. /\ r \in Seq(S) /\ Len(r) = Len(h) + Len(s) /\ IsInjective(r)
      /\ \A x : x \in Range(r) <=> x \in Range(h) \/ x \in Range(s)
  <2>1. Apart(h, s)
    BY <1>3 DEF Apart
  <2>2. h \in Seq(S) /\ IsInjective(h)
    BY <1>1, <1>3
  <2> QED BY <1>2, <2>1, <2>2, SpliceFacts
<1>5. Len(s) \in Nat
  BY LenProperties
<1> QED BY <1>1, <1>3, <1>4, <1>5

LEMMA ReverseFacts ==
  ASSUME NEW S, NEW s \in Seq(S), IsInjective(s), NEW r, r = Reverse(s)
  PROVE  /\ r \in Seq(S) /\ IsInjective(r)
         /\ \A x : x \in Range(r) <=> x \in Range(s)
<1>1. Len(s) \in Nat /\ DOMAIN s = 1 .. Len(s) /\ \A i \in 1 .. Len(s) : s[i] \in S
  BY LenProperties, ElementOfSeq
<1>2. r = [i \in 1 .. Len(s) |-> s[(Len(s) - i) + 1]]
  BY DEF Reverse
<1>3. \A i \in 1 .. Len(s) : (Len(s) - i) + 1 \in 1 .. Len(s)
  BY <1>1
<1>4. r \in [1 .. Len(s) -> S]
  BY <1>1, <1>2, <1>3
<1>5. r \in Seq(S)
  BY <1>1, <1>4, SeqDef
<1>6. IsInjective(r)
  <2>1. ASSUME NEW i \in DOMAIN r, NEW j \in DOMAIN r, r[i] = r[j]  PROVE i = j
    <3>1. (Len(s) - i) + 1 = (Len(s) - j) + 1
      BY <1>1, <1>2, <1>3, <2>1 DEF IsInjective
    <3>2. i \in 1 .. Len(s) /\ j \in 1 .. Len(s)
      BY <1>2
    <3> QED BY <1>1, <3>1, <3>2
  <2> QED BY <2>1 DEF IsInjective
<1>7. ASSUME NEW i \in 1 .. Len(s)
      PROVE  r[i] \in Range(s) /\ s[i] \in Range(r)
  <2>1. r[i] = s[(Len(s) - i) + 1] /\ (Len(s) - i) + 1 \in DOMAIN s
    BY <1>1, <1>2, <1>3
  <2>2. (Len(s) - ((Len(s) - i) + 1)) + 1 = i
    BY <1>1
  <2>3. r[(Len(s) - i) + 1] = s[i] /\ (Len(s) - i) + 1 \in DOMAIN r
    BY <1>2, <1>3, <2>2
  <2> QED BY <2>1, <2>3 DEF Range
<1>8. DOMAIN r = 1 .. Len(s)
  BY <1>2
<1> QED BY <1>1, <1>5, <1>6, <1>7, <1>8 DEF Range

(* A finite set laid out as a list, as the free lists begin.               *)
LEMMA LaidOutFacts ==
  ASSUME NEW S, IsFiniteSet(S), NEW r, r = SetToSeq(S)
  PROVE  /\ r \in Seq(S) /\ IsInjective(r) /\ Len(r) = Cardinality(S)
         /\ \A x : x \in Range(r) <=> x \in S
<1> DEFINE n == Cardinality(S)
<1>1. n \in Nat /\ ExistsBijection(1 .. n, S)
  BY FS_CardinalityType
<1>2. PICK f \in [1 .. n -> S] : IsInjective(f)
  BY <1>1 DEF ExistsBijection, Bijection, Injection
<1>3. r \in [1 .. n -> S] /\ IsInjective(r)
  BY <1>2 DEF SetToSeq
<1>4. r \in Seq(S) /\ Len(r) = n
  BY <1>1, <1>3, SeqDef
<1>5. r \in Surjection(1 .. n, S)
  <2>1. IsFiniteSet(1 .. n) /\ Cardinality(1 .. n) = n
    BY <1>1, FS_Interval
  <2>2. r \in Injection(1 .. n, S)
    BY <1>3 DEF Injection
  <2> QED BY <2>1, <2>2, FS_Injection
<1>6. DOMAIN r = 1 .. n
  BY <1>3
<1> QED BY <1>3, <1>4, <1>5, <1>6 DEF Surjection, Range

(* A list without repetition that lacks an element is shorter.             *)
LEMMA RoomLeft ==
  ASSUME NEW S, IsFiniteSet(S), NEW s \in Seq(S), IsInjective(s), NEW e \in S, e \notin Range(s)
  PROVE  Len(s) \in Nat /\ Len(s) < Cardinality(S)
<1> DEFINE n == Len(s)
<1>1. n \in Nat /\ s \in [1 .. n -> S] /\ DOMAIN s = 1 .. n
  BY LenProperties
<1>2. s \in Injection(1 .. n, S)
  BY <1>1 DEF Injection
<1>3. s \notin Surjection(1 .. n, S)
  BY <1>1 DEF Surjection, Range
<1>4. /\ Cardinality(1 .. n) <= Cardinality(S)
      /\ Cardinality(1 .. n) = Cardinality(S) <=> s \in Surjection(1 .. n, S)
  BY <1>2, FS_Injection
<1>5. Cardinality(1 .. n) = n /\ Cardinality(S) \in Nat
  <2>1. Cardinality(1 .. n) = IF 1 > n THEN 0 ELSE n - 1 + 1
    BY <1>1, FS_Interval
  <2> QED BY <1>1, <2>1, FS_CardinalityType
<1> QED BY <1>1, <1>3, <1>4, <1>5

(***************************************************************************)
(* Memory pools.                                                           *)
(***************************************************************************)
PoolSound ==
  /\ mp.list \in Seq(Item) /\ IsInjective(mp.list) /\ mp.count = Len(mp.list)
  /\ holder \in [Item -> SUBSET Thread]
  /\ \A b \in Item : b \in Range(mp.list) <=> holder[b] = {}
  /\ \A b \in Item : holder[b] # {} => \E t \in Thread : holder[b] = {t}

LEMMA PoolInit ==
  ASSUME MpInit
  PROVE  PoolSound
<1> DEFINE r == SetToSeq(Item)
<1>1. /\ r \in Seq(Item) /\ IsInjective(r) /\ Len(r) = Cardinality(Item)
      /\ \A x : x \in Range(r) <=> x \in Item
  BY MpAssumption, LaidOutFacts DEF Blocks
<1>2. mp.list = r /\ mp.count = Cardinality(Item) /\ holder = [b \in Item |-> {}]
  BY DEF MpInit, Blocks
<1> HIDE DEF r
<1> QED BY <1>1, <1>2 DEF PoolSound

(* rt_mp_alloc tests the count only, and takes the head of the list.       *)
LEMMA PoolAlloc ==
  ASSUME PoolSound, NEW t \in Thread, NEW c, MpAlloc(t, c)
  PROVE  /\ PoolSound' /\ mp.list # << >>
         /\ last' = Head(mp.list) /\ mp'.list = Tail(mp.list) /\ epoch' = epoch
<1> DEFINE s == mp.list
           b == Head(s)
<1>1. s # << >>
  <2>1. Len(s) > 0
    BY DEF MpAlloc, PoolSound
  <2>2. Len(<< >>) = 0
    BY EmptySeq
  <2> QED BY <2>1, <2>2
<1>2. /\ s \in Seq(Item) /\ IsInjective(s) /\ mp.count = Len(s)
      /\ holder \in [Item -> SUBSET Thread]
  BY DEF PoolSound
<1>3. /\ mp'.list = Tail(s) /\ mp'.count = mp.count - 1
      /\ holder' = [holder EXCEPT ![b] = holder[b] \cup {t}]
      /\ last' = Head(s) /\ epoch' = epoch
  BY DEF MpAlloc
<1>4. /\ b \in Item /\ b \in Range(s)
      /\ Tail(s) \in Seq(Item) /\ Len(Tail(s)) = Len(s) - 1 /\ IsInjective(Tail(s))
      /\ \A x : x \in Range(Tail(s)) <=> x \in Range(s) /\ x # b
  BY <1>1, <1>2, FrontFacts
<1>5. holder[b] = {}
  BY <1>4 DEF PoolSound
<1>6. /\ holder' \in [Item -> SUBSET Thread] /\ holder'[b] = {t}
      /\ \A x \in Item : x # b => holder'[x] = holder[x]
  BY <1>2, <1>3, <1>4, <1>5
<1> HIDE DEF s, b
<1>7. \A x \in Item : x \in Range(mp'.list) <=> holder'[x] = {}
  BY <1>3, <1>4, <1>6 DEF PoolSound, s
<1>8. \A x \in Item : holder'[x] # {} => \E u \in Thread : holder'[x] = {u}
  BY <1>6 DEF PoolSound
<1> QED BY <1>1, <1>2, <1>3, <1>4, <1>6, <1>7, <1>8 DEF PoolSound, s

(* rt_mp_free, of a block that is held.                                    *)
LEMMA PoolFree ==
  ASSUME PoolSound, NEW b \in Item, holder[b] # {},
         mp' = [list |-> <<b>> \o mp.list, count |-> mp.count + 1],
         holder' = [holder EXCEPT ![b] = {}]
  PROVE  /\ PoolSound' /\ mp'.list = <<b>> \o mp.list
         /\ Len(mp.list) \in Nat /\ Len(mp.list) < Cardinality(Item)
<1> DEFINE s == mp.list
           r == Pushed(b, s)
<1>1. /\ s \in Seq(Item) /\ IsInjective(s) /\ mp.count = Len(s)
      /\ holder \in [Item -> SUBSET Thread] /\ b \notin Range(s)
  BY DEF PoolSound
<1>2. mp'.list = r /\ mp'.count = mp.count + 1 /\ r = Pushed(b, s)
  BY DEF Pushed
<1> HIDE DEF s, r
<1>3. /\ r \in Seq(Item) /\ Len(r) = Len(s) + 1 /\ IsInjective(r)
      /\ \A x : x \in Range(r) <=> x \in Range(s) \/ x = b
  <2>1. s \in Seq(Item) /\ IsInjective(s) /\ b \in Item /\ b \notin Range(s) /\ r = Pushed(b, s)
    BY <1>1, <1>2
  <2> QED BY <2>1, LinkFirstFacts
<1>4. Len(s) \in Nat /\ Len(s) < Cardinality(Item)
  BY <1>1, RoomLeft, MpAssumption DEF Blocks
<1>5. /\ holder' \in [Item -> SUBSET Thread] /\ holder'[b] = {}
      /\ \A x \in Item : x # b => holder'[x] = holder[x]
  BY <1>1
<1>6. \A x \in Item : x \in Range(mp'.list) <=> holder'[x] = {}
  BY <1>2, <1>3, <1>5 DEF PoolSound, s
<1>7. \A x \in Item : holder'[x] # {} => \E u \in Thread : holder'[x] = {u}
  BY <1>5 DEF PoolSound
<1>8. PoolSound'
  BY <1>1, <1>2, <1>3, <1>5, <1>6, <1>7 DEF PoolSound
<1> QED BY <1>2, <1>4, <1>8 DEF Pushed, r, s

(* The steps that do not touch the pool: all of the other services, and    *)
(* of this one those that only wait, give up or delete.                    *)
LEMMA PoolNext ==
  ASSUME PoolSound, MpNext
  PROVE  PoolSound'
<1>1. CASE UNCHANGED <<mp, holder>>
  BY <1>1 DEF PoolSound
<1>2. ASSUME NEW b \in Blocks, MpFreeIsr(b)
      PROVE  PoolSound'
  <2>1. /\ b \in Item /\ holder[b] # {}
        /\ mp' = [list |-> <<b>> \o mp.list, count |-> mp.count + 1]
        /\ holder' = [holder EXCEPT ![b] = {}]
    BY <1>2 DEF MpFreeIsr, Blocks
  <2> QED BY <2>1, PoolFree
<1>3. ASSUME NEW t \in Thread, NEW b \in Blocks, MpFree(t, b)
      PROVE  PoolSound'
  <2>1. /\ b \in Item /\ holder[b] # {}
        /\ mp' = [list |-> <<b>> \o mp.list, count |-> mp.count + 1]
        /\ holder' = [holder EXCEPT ![b] = {}]
    BY <1>3 DEF MpFree, Blocks
  <2> QED BY <2>1, PoolFree
<1>4. ASSUME NEW t \in Thread, NEW c, MpAlloc(t, c)
      PROVE  PoolSound'
  BY <1>4, PoolAlloc
<1>5. ASSUME NEW t \in Thread, NEW c, MpWaits(t, c) \/ MpFails(t, c)
      PROVE  UNCHANGED <<mp, holder>>
  BY <1>5 DEF MpWaits, MpFails
<1> QED BY <1>1, <1>2, <1>3, <1>4, <1>5 DEF MpNext

LEMMA PoolKept ==
  ASSUME PoolSound, [CNext]_cvars
  PROVE  PoolSound'
<1>1. CASE UNCHANGED cvars
  BY <1>1 DEF cvars, objects, PoolSound
<1>2. CASE CNext
  <2>1. MpNext \/ UNCHANGED <<mp, holder>>
    BY <1>2 DEF CNext
  <2>2. CASE UNCHANGED <<mp, holder>>
    BY <2>2 DEF PoolSound
  <2> QED BY <2>1, <2>2, PoolNext
<1> QED BY <1>1, <1>2

(* Every block of a memory pool is free or has one holder, and the count   *)
(* that rt_mp_alloc relies on when it takes the head is that of the list.  *)
THEOREM BlocksStayExact == CSpec => []BlocksExact
<1>1. CInit => PoolSound
  BY PoolInit DEF CInit
<1>2. PoolSound /\ [CNext]_cvars => PoolSound'
  BY PoolKept
<1>3. ASSUME PoolSound
      PROVE  BlocksExact
  <2>1. ASSUME NEW b \in Item
        PROVE  Cardinality(holder[b]) <= 1
    <3>1. CASE holder[b] = {}
      BY <3>1, FS_EmptySet
    <3>2. CASE holder[b] # {}
      <4>1. PICK t \in Thread : holder[b] = {t}
        BY <1>3, <3>2 DEF PoolSound
      <4>2. Cardinality({t}) = 1
        BY FS_Singleton
      <4> QED BY <4>1, <4>2
    <3> QED BY <3>1, <3>2
  <2> QED BY <1>3, <2>1 DEF BlocksExact, PoolSound, Blocks
<1> QED BY <1>1, <1>2, <1>3, PTL DEF CSpec

(***************************************************************************)
(* Message queues: where the slots are, f being free, q queued, and o[t]   *)
(* with the call of thread t.                                              *)
(***************************************************************************)
Line(s) == s \in Seq(Slot) /\ IsInjective(s)

Placed(f, q, o) ==
  /\ Line(f) /\ Line(q) /\ o \in [Thread -> SUBSET Slot]
  /\ \A s \in Slot : ~ (s \in Range(f) /\ s \in Range(q))
  /\ \A t \in Thread : \A s \in o[t] :
       /\ s \notin Range(f) /\ s \notin Range(q)
       /\ \A r \in o[t] : r = s
       /\ \A u \in Thread : s \in o[u] => u = t
  /\ \A s \in Slot : s \in Range(f) \/ s \in Range(q) \/ \E t \in Thread : s \in o[t]

Gives(o, t, v) == [o EXCEPT ![t] = v]

LEMMA PlacedSymmetric ==
  ASSUME NEW f, NEW q, NEW o, Placed(f, q, o)
  PROVE  Placed(q, f, o)
BY DEF Placed

(* The first region of a call: a slot leaves a list for the call.          *)
LEMMA PlacedTakes ==
  ASSUME NEW f, NEW q, NEW o, Placed(f, q, o), NEW t \in Thread, o[t] = {}, f # << >>,
         NEW g, g = Tail(f), NEW p, p = Gives(o, t, {Head(f)})
  PROVE  Placed(g, q, p) /\ Head(f) \in Slot /\ Head(f) \in Range(f) /\ Len(g) = Len(f) - 1
<1> DEFINE s == Head(f)
<1>1. /\ f \in Seq(Slot) /\ IsInjective(f) /\ o \in [Thread -> SUBSET Slot]
  BY DEF Placed, Line
<1>2. /\ s \in Slot /\ s \in Range(f) /\ Len(g) = Len(f) - 1 /\ g \in Seq(Slot) /\ IsInjective(g)
      /\ \A x : x \in Range(g) <=> x \in Range(f) /\ x # s
  BY <1>1, FrontFacts
<1>3. /\ p \in [Thread -> SUBSET Slot] /\ p[t] = {s}
      /\ \A u \in Thread : u # t => p[u] = o[u]
  BY <1>1, <1>2 DEF Gives
<1> HIDE DEF s
<1>4. Line(g) /\ Line(q) /\ \A x \in Slot : ~ (x \in Range(g) /\ x \in Range(q))
  BY <1>2 DEF Placed, Line
<1>5. ASSUME NEW u \in Thread, NEW x \in p[u]
      PROVE  /\ x \notin Range(g) /\ x \notin Range(q)
             /\ \A r \in p[u] : r = x
             /\ \A v \in Thread : x \in p[v] => v = u
  <2>1. CASE u = t
    <3>1. x = s /\ \A v \in Thread : s \notin o[v]
      BY <1>2, <1>3, <1>5, <2>1 DEF Placed
    <3> QED BY <1>2, <1>3, <2>1, <3>1 DEF Placed
  <2>2. CASE u # t
    <3>1. x \in o[u] /\ p[u] = o[u]
      BY <1>3, <1>5, <2>2
    <3>2. /\ x \notin Range(f) /\ x \notin Range(q)
          /\ \A r \in o[u] : r = x
          /\ \A v \in Thread : x \in o[v] => v = u
      BY <3>1 DEF Placed
    <3> QED BY <1>2, <1>3, <3>1, <3>2
  <2> QED BY <2>1, <2>2
<1>6. ASSUME NEW x \in Slot
      PROVE  x \in Range(g) \/ x \in Range(q) \/ \E u \in Thread : x \in p[u]
  BY <1>2, <1>3 DEF Placed
<1> QED BY <1>2, <1>3, <1>4, <1>5, <1>6 DEF Placed, s

(* The second region: the slot of the call goes to a list.                 *)
LEMMA PlacedPuts ==
  ASSUME NEW f, NEW q, NEW o, Placed(f, q, o), NEW t \in Thread, NEW s \in o[t],
         NEW g, Line(g), \A x : x \in Range(g) <=> x \in Range(f) \/ x = s,
         NEW p, p = Gives(o, t, {})
  PROVE  Placed(g, q, p)
<1>1. o \in [Thread -> SUBSET Slot] /\ s \in Slot /\ o[t] = {s}
  BY DEF Placed
<1>2. /\ p \in [Thread -> SUBSET Slot] /\ p[t] = {}
      /\ \A u \in Thread : u # t => p[u] = o[u]
  BY <1>1 DEF Gives
<1>3. \A x \in Slot : ~ (x \in Range(g) /\ x \in Range(q))
  BY DEF Placed
<1>4. ASSUME NEW u \in Thread, NEW x \in p[u]
      PROVE  /\ x \notin Range(g) /\ x \notin Range(q)
             /\ \A r \in p[u] : r = x
             /\ \A v \in Thread : x \in p[v] => v = u
  <2>1. u # t /\ p[u] = o[u] /\ x \in o[u] /\ x # s
    BY <1>1, <1>2, <1>4 DEF Placed
  <2> QED BY <1>2, <2>1 DEF Placed
<1>5. ASSUME NEW x \in Slot
      PROVE  x \in Range(g) \/ x \in Range(q) \/ \E u \in Thread : x \in p[u]
  BY <1>1, <1>2 DEF Placed
<1> QED BY <1>2, <1>3, <1>4, <1>5 DEF Placed

(* A send from a handler: a slot goes from the free list into the queue.   *)
LEMMA PlacedMoves ==
  ASSUME NEW f, NEW q, NEW o, Placed(f, q, o), f # << >>, NEW g, g = Tail(f),
         NEW r, Line(r), \A x : x \in Range(r) <=> x \in Range(q) \/ x = Head(f)
  PROVE  Placed(g, r, o)
<1>1. f \in Seq(Slot) /\ IsInjective(f)
  BY DEF Placed, Line
<1>2. /\ Head(f) \in Slot /\ Head(f) \in Range(f) /\ g \in Seq(Slot) /\ IsInjective(g)
      /\ \A x : x \in Range(g) <=> x \in Range(f) /\ x # Head(f)
  BY <1>1, FrontFacts
<1> QED BY <1>2 DEF Placed, Line

(* A reset: what was queued is free.                                       *)
LEMMA PlacedEmptied ==
  ASSUME NEW f, NEW q, NEW o, Placed(f, q, o), NEW g, g = Reverse(q) \o f
  PROVE  Placed(g, << >>, o)
<1> DEFINE r == Reverse(q)
<1>1. f \in Seq(Slot) /\ IsInjective(f) /\ q \in Seq(Slot) /\ IsInjective(q)
  BY DEF Placed, Line
<1>2. r \in Seq(Slot) /\ IsInjective(r) /\ \A x : x \in Range(r) <=> x \in Range(q)
  BY <1>1, ReverseFacts
<1>3. g = r \o f
  OBVIOUS
<1> HIDE DEF r
<1>4. Range(q) \subseteq Slot
  BY <1>1, RangeOfSeq
<1>5. Apart(r, f)
  BY <1>2, <1>4 DEF Apart, Placed
<1>6. /\ g \in Seq(Slot) /\ IsInjective(g)
      /\ \A x : x \in Range(g) <=> x \in Range(r) \/ x \in Range(f)
  BY <1>1, <1>2, <1>3, <1>5, SpliceFacts
<1>7. << >> \in Seq(Slot) /\ IsInjective(<< >>) /\ \A x : x \notin Range(<< >>)
  BY EmptySeq DEF IsInjective, Range
<1> QED BY <1>2, <1>6, <1>7 DEF Placed, Line

(***************************************************************************)
(* What every step but those of rt_mq_send, rt_mq_urgent and rt_mq_recv    *)
(* that move a slot has in common: it concerns a thread that is not        *)
(* between the two regions of such a call, or none.                        *)
(***************************************************************************)
Copying == {"copyIn", "copyOut"}

Elsewhere(t) ==
  /\ at[t] \notin Copying
  /\ at' = at \/ \E a \in IpcLabel \ Copying : Goto(t, a)
  /\ call' = call \/ \E c \in Call : call' = [call EXCEPT ![t] = c]

Aside == UNCHANGED <<at, call>> \/ \E t \in Thread : Elsewhere(t)

LEMMA WaitAside ==
  ASSUME NEW t \in Thread, NEW c \in Call, NEW l, Tries(t, c) \/ GivesUp(t, c),
         \/ Waits(t, l, c)
         \/ EndsWaking(t, l)
         \/ Ends(t, "run")
         \/ Goto(t, "wait") /\ call' = [call EXCEPT ![t] = c]
  PROVE  Elsewhere(t)
<1>1. at[t] \in {"run", "woken"}
  BY DEF Tries, GivesUp, Begins, GoesOn, MayBlock, At
<1>2. \E a \in {"wait", "run", "schedule"} : Goto(t, a)
  BY DEF Waits, EndsWaking, Ends
<1>3. \E d \in Call : call' = [call EXCEPT ![t] = d]
  <2>1. NoCall \in Call
    BY DEF NoCall, Call
  <2> QED BY <2>1 DEF Waits, EndsWaking, Ends
<1> QED BY <1>1, <1>2, <1>3 DEF Elsewhere, Copying, IpcLabel

LEMMA ResetAside ==
  ASSUME NEW t \in Thread, ResetWaiters(t)
  PROVE  Elsewhere(t)
BY DEF ResetWaiters, Begins, MayBlock, At, Elsewhere, Copying, IpcLabel

LEMMA FailsAside ==
  ASSUME NEW t \in Thread, WokenFails(t)
  PROVE  Elsewhere(t)
<1>1. NoCall \in Call
  BY DEF NoCall, Call
<1> QED BY <1>1 DEF WokenFails, Ends, At, Elsewhere, Copying, IpcLabel

LEMMA IpcStepAside ==
  ASSUME IpcStep
  PROVE  Aside
<1>1. CASE SliceEnd /\ UNCHANGED ivars
  BY <1>1 DEF SliceEnd, ivars, Aside
<1>2. ASSUME NEW t \in Thread, TimerExpires(t) /\ UNCHANGED ivars
      PROVE  Aside
  BY <1>2 DEF TimerExpires, ivars, Aside
<1>3. ASSUME NEW t \in Thread, (Sleep(t) \/ AsleepSchedule(t) \/ WakeUp(t)) /\ UNCHANGED ivars
      PROVE  Elsewhere(t)
  BY <1>3 DEF Sleep, AsleepSchedule, WakeUp, ScheduleStep, MayBlock, At, ivars, Elsewhere, Copying, IpcLabel
<1>4. ASSUME NEW t \in Thread, WaitSchedule(t) \/ EndSchedule(t)
      PROVE  Elsewhere(t)
  BY <1>4 DEF WaitSchedule, EndSchedule, ScheduleStep, At, ivars, Elsewhere, Copying, IpcLabel
<1>5. ASSUME NEW t \in Thread, Delete(t) \/ DeleteTest(t)
      PROVE  Elsewhere(t)
  BY <1>5 DEF Delete, DeleteTest, Begins, MayBlock, At, ivars, Elsewhere, Copying, IpcLabel
<1>6. ASSUME NEW t \in Thread, DeleteResume(t, "deleteRecv", "recv") \/ DeleteResume(t, "deleteSend", "send")
      PROVE  Elsewhere(t)
  BY <1>6 DEF DeleteResume, At, ivars, Elsewhere, Copying, IpcLabel
<1> QED BY <1>1, <1>2, <1>3, <1>4, <1>5, <1>6 DEF IpcStep, Aside

LEMMA SemAside ==
  ASSUME SemNext
  PROVE  Aside
<1>1. CASE IpcStep
  BY <1>1, IpcStepAside
<1>2. CASE SemReleaseIsr
  BY <1>2 DEF SemReleaseIsr, IsrWaking, ivars, Aside
<1>3. ASSUME NEW t \in Thread, WokenFails(t) \/ SemReset(t)
      PROVE  Elsewhere(t)
  BY <1>3, FailsAside, ResetAside DEF SemReset
<1>4. ASSUME NEW t \in Thread, SemTake(t)
      PROVE  Aside
  BY <1>4 DEF SemTake, Aside
<1>5. \A tmo \in BOOLEAN : TakeCall(tmo) \in Call
  BY DEF TakeCall, Call
<1>6. ASSUME NEW t \in Thread, SemTaken(t) \/ SemRelease(t) \/ \E tmo \in BOOLEAN : SemWaits(t, tmo)
      PROVE  Elsewhere(t)
  <2>1. CASE SemTaken(t)
    <3>1. PICK tmo \in BOOLEAN : GoesOn(t, TakeCall(tmo))
      BY <2>1 DEF SemTaken
    <3> QED BY <1>5, <2>1, <3>1, WaitAside DEF SemTaken, Tries
  <2>2. CASE SemRelease(t)
    <3>1. Tries(t, TakeCall(TRUE)) /\ EndsWaking(t, "recv")
      BY <2>2 DEF SemRelease, Tries
    <3> QED BY <1>5, <3>1, WaitAside
  <2>3. ASSUME NEW tmo \in BOOLEAN, SemWaits(t, tmo)
        PROVE  Elsewhere(t)
    <3>1. Tries(t, TakeCall(tmo)) /\ Waits(t, "recv", TakeCall(tmo))
      BY <2>3 DEF SemWaits, Tries
    <3> QED BY <1>5, <3>1, WaitAside
  <2> QED BY <1>6, <2>1, <2>2, <2>3
<1> QED BY <1>1, <1>2, <1>3, <1>4, <1>6 DEF SemNext, Aside

LEMMA MbAside ==
  ASSUME MbNext
  PROVE  Aside
<1>1. CASE IpcStep
  BY <1>1, IpcStepAside
<1>2. ASSUME NEW x \in Item, MbSendIsr(x)
      PROVE  Aside
  BY <1>2 DEF MbSendIsr, IsrWaking, ivars, Aside
<1>3. ASSUME NEW t \in Thread, WokenFails(t) \/ MbReset(t)
      PROVE  Elsewhere(t)
  BY <1>3, FailsAside, ResetAside DEF MbReset
<1>4. ASSUME NEW t \in Thread, NEW c \in Call, MbRecv(t, c) \/ MbRecvWaits(t, c) \/ MbRecvFails(t, c)
      PROVE  Elsewhere(t)
  <2>1. Tries(t, c) \/ GivesUp(t, c)
    BY <1>4 DEF MbRecv, MbRecvWaits, MbRecvFails
  <2>2. EndsWaking(t, "send") \/ Waits(t, "recv", c) \/ Ends(t, "run")
    BY <1>4 DEF MbRecv, MbRecvWaits, MbRecvFails
  <2> QED BY <2>1, <2>2, WaitAside
<1>5. ASSUME NEW t \in Thread, NEW c \in Call, MbSend(t, c) \/ MbSendWaits(t, c) \/ MbSendFails(t, c)
      PROVE  Elsewhere(t)
  <2>1. Tries(t, c) \/ GivesUp(t, c)
    BY <1>5 DEF MbSend, MbSendWaits, MbSendFails
  <2>2. EndsWaking(t, "recv") \/ Waits(t, "send", c) \/ Ends(t, "run")
    BY <1>5 DEF MbSend, MbSendWaits, MbSendFails
  <2> QED BY <2>1, <2>2, WaitAside
<1>6. \A tmo \in BOOLEAN : MbRecvCall(tmo) \in Call /\ \A x \in Item : MbSendCall(x, tmo) \in Call
  BY DEF MbRecvCall, MbSendCall, Call
<1> QED BY <1>1, <1>2, <1>3, <1>4, <1>5, <1>6 DEF MbNext, Aside

LEMMA MpAside ==
  ASSUME MpNext
  PROVE  Aside
<1>1. CASE IpcStep
  BY <1>1, IpcStepAside
<1>2. ASSUME NEW b \in Blocks, MpFreeIsr(b)
      PROVE  Aside
  BY <1>2 DEF MpFreeIsr, IsrWaking, ivars, Aside
<1>3. ASSUME NEW t \in Thread, WokenFails(t)
      PROVE  Elsewhere(t)
  BY <1>3, FailsAside
<1>4. \A tmo \in BOOLEAN : MpCall(tmo) \in Call
  BY DEF MpCall, Call
<1>5. ASSUME NEW t \in Thread, NEW b \in Blocks, MpFree(t, b)
      PROVE  Elsewhere(t)
  <2>1. Tries(t, MpCall(TRUE)) /\ EndsWaking(t, "recv")
    BY <1>5 DEF MpFree, Tries
  <2> QED BY <1>4, <2>1, WaitAside
<1>6. ASSUME NEW t \in Thread, NEW c \in Call, MpAlloc(t, c) \/ MpWaits(t, c) \/ MpFails(t, c)
      PROVE  Elsewhere(t)
  <2>1. Tries(t, c) \/ GivesUp(t, c)
    BY <1>6 DEF MpAlloc, MpWaits, MpFails
  <2>2. Ends(t, "run") \/ (Goto(t, "wait") /\ call' = [call EXCEPT ![t] = c])
    BY <1>6 DEF MpAlloc, MpWaits, MpFails
  <2> QED BY <2>1, <2>2, WaitAside
<1> QED BY <1>1, <1>2, <1>3, <1>4, <1>5, <1>6 DEF MpNext, Aside

LEMMA EvAside ==
  ASSUME EvNext
  PROVE  Aside
<1>1. CASE IpcStep
  BY <1>1, IpcStepAside
<1>2. ASSUME NEW bits, EvSendIsr(bits)
      PROVE  Aside
  BY <1>2 DEF EvSendIsr, Aside
<1>3. ASSUME NEW t \in Thread, NEW bits, EvSend(t, bits)
      PROVE  Elsewhere(t)
  <2>1. at[t] = "run" /\ call' = call
    BY <1>3 DEF EvSend, Begins, MayBlock, At, ivars
  <2>2. Goto(t, "run") \/ Goto(t, "schedule")
    BY <1>3 DEF EvSend
  <2> QED BY <2>1, <2>2 DEF Elsewhere, Copying, IpcLabel
<1>4. ASSUME NEW t \in Thread, EvFails(t) \/ EvReset(t)
      PROVE  Elsewhere(t)
  BY <1>4, FailsAside, ResetAside DEF EvFails, EvReset
<1>5. \A tmo \in BOOLEAN : EvCall(tmo) \in Call
  BY DEF EvCall, Call
<1>6. ASSUME NEW t \in Thread, EvReceived(t)
      PROVE  Elsewhere(t)
  <2>1. PICK tmo \in BOOLEAN : GoesOn(t, EvCall(tmo))
    BY <1>6 DEF EvReceived
  <2> QED BY <1>5, <1>6, <2>1, WaitAside DEF EvReceived, Tries
<1>7. ASSUME NEW t \in Thread, NEW w, EvRecv(t, w) \/ EvRecvFails(t, w)
      PROVE  Aside
  BY <1>7 DEF EvRecv, EvRecvFails, Aside
<1>8. ASSUME NEW t \in Thread, NEW w, NEW tmo \in BOOLEAN, EvRecvWaits(t, w, tmo)
      PROVE  Elsewhere(t)
  <2>1. Tries(t, EvCall(tmo)) /\ Waits(t, "recv", EvCall(tmo))
    BY <1>8 DEF EvRecvWaits, Tries
  <2> QED BY <1>5, <2>1, WaitAside
<1> QED BY <1>1, <1>2, <1>3, <1>4, <1>6, <1>7, <1>8 DEF EvNext, Aside

(***************************************************************************)
(* The invariant of the message queues.                                    *)
(***************************************************************************)
Message == Item \cup {NoItem}

MqState == [free : Seq(Slot), queue : Seq(Slot), entry : Nat, content : [Slot -> Message]]

(* Between its two regions a call is about its slot, and a send has what   *)
(* it sends.                                                               *)
CallSound(t) ==
  /\ own[t] # {} => at[t] \in Copying
  /\ at[t] = "copyIn" => call[t].item \in Item
  /\ at[t] = "copyOut" => \A s \in own[t] : mq.content[s] = call[t].item

SlotSound ==
  /\ at \in [Thread -> IpcLabel] /\ call \in [Thread -> Call] /\ mq \in MqState
  /\ Placed(mq.free, mq.queue, own) /\ mq.entry = Len(mq.queue)
  /\ \A t \in Thread : CallSound(t)
  /\ \A s \in Range(mq.queue) : mq.content[s] \in Item

LEMMA SlotInit ==
  ASSUME IpcInit, MqInit
  PROVE  SlotSound
<1> DEFINE r == SetToSeq(Slot)
<1>1. r \in Seq(Slot) /\ IsInjective(r) /\ \A x : x \in Range(r) <=> x \in Slot
  BY MqAssumption, LaidOutFacts
<1>2. << >> \in Seq(Slot) /\ IsInjective(<< >>) /\ Len(<< >>) = 0 /\ \A x : x \notin Range(<< >>)
  BY EmptySeq DEF IsInjective, Range
<1>3. /\ mq = [free |-> r, queue |-> << >>, entry |-> 0, content |-> [x \in Slot |-> NoItem]]
      /\ own = [t \in Thread |-> {}]
  BY DEF MqInit
<1> HIDE DEF r
<1>4. /\ mq.free = r /\ mq.queue = << >> /\ mq.entry = 0 /\ mq \in MqState
      /\ own \in [Thread -> SUBSET Slot] /\ \A t \in Thread : own[t] = {}
  BY <1>1, <1>2, <1>3 DEF MqState, Message
<1>5. Placed(r, << >>, own)
  BY <1>1, <1>2, <1>4 DEF Placed, Line
<1>6. at = [t \in Thread |-> "run"] /\ call = [t \in Thread |-> NoCall] /\ NoCall \in Call
  BY DEF IpcInit, KernelInit, NoCall, Call
<1>7. at \in [Thread -> IpcLabel] /\ call \in [Thread -> Call] /\ \A t \in Thread : at[t] = "run"
  BY <1>6 DEF IpcLabel
<1>8. \A t \in Thread : CallSound(t)
  BY <1>4, <1>7 DEF CallSound
<1> QED BY <1>2, <1>4, <1>5, <1>7, <1>8 DEF SlotSound

LEMMA AsideTyped ==
  ASSUME at \in [Thread -> IpcLabel], call \in [Thread -> Call], Aside
  PROVE  /\ at' \in [Thread -> IpcLabel] /\ call' \in [Thread -> Call]
         /\ \A t \in Thread : \/ at'[t] = at[t] /\ call'[t] = call[t]
                              \/ at[t] \notin Copying /\ at'[t] \notin Copying
<1>1. CASE UNCHANGED <<at, call>>
  BY <1>1
<1>2. ASSUME NEW t \in Thread, Elsewhere(t)
      PROVE  /\ at' \in [Thread -> IpcLabel] /\ call' \in [Thread -> Call]
             /\ at'[t] \notin Copying
             /\ \A u \in Thread : u # t => at'[u] = at[u] /\ call'[u] = call[u]
  <2>1. at' \in [Thread -> IpcLabel] /\ at'[t] \notin Copying /\ \A u \in Thread : u # t => at'[u] = at[u]
    BY <1>2 DEF Elsewhere, Goto
  <2>2. call' \in [Thread -> Call] /\ \A u \in Thread : u # t => call'[u] = call[u]
    BY <1>2 DEF Elsewhere
  <2> QED BY <2>1, <2>2
<1> QED BY <1>1, <1>2 DEF Aside, Elsewhere

LEMMA SlotAside ==
  ASSUME SlotSound, Aside, UNCHANGED <<mq, own>>
  PROVE  SlotSound'
<1>1. /\ at' \in [Thread -> IpcLabel] /\ call' \in [Thread -> Call]
      /\ \A t \in Thread : \/ at'[t] = at[t] /\ call'[t] = call[t]
                           \/ at[t] \notin Copying /\ at'[t] \notin Copying
  <2>1. at \in [Thread -> IpcLabel] /\ call \in [Thread -> Call] /\ Aside
    BY DEF SlotSound
  <2> QED BY <2>1, AsideTyped
<1>2. ASSUME NEW t \in Thread
      PROVE  CallSound(t)'
  <2>1. CallSound(t)
    BY DEF SlotSound
  <2>2. CASE at'[t] = at[t] /\ call'[t] = call[t]
    BY <2>1, <2>2 DEF CallSound
  <2>3. CASE at[t] \notin Copying /\ at'[t] \notin Copying
    BY <2>1, <2>3 DEF CallSound, Copying
  <2> QED BY <1>1, <2>2, <2>3
<1> QED BY <1>1, <1>2 DEF SlotSound

LEMMA LinkedFacts ==
  ASSUME mq \in MqState, NEW s \in Slot, NEW x \in Message, NEW op, NEW n, n = Linked(s, x, op)
  PROVE  /\ n \in MqState /\ n.free = mq.free /\ n.entry = mq.entry + 1
         /\ n.queue = IF op = "urgent" THEN Pushed(s, mq.queue) ELSE Append(mq.queue, s)
         /\ n.content = [mq.content EXCEPT ![s] = x]
<1>1. /\ n.free = mq.free /\ n.entry = mq.entry + 1
      /\ n.queue = IF op = "urgent" THEN Pushed(s, mq.queue) ELSE Append(mq.queue, s)
      /\ n.content = [mq.content EXCEPT ![s] = x]
      /\ n = [free |-> n.free, queue |-> n.queue, entry |-> n.entry, content |-> n.content]
  BY DEF Linked, MqState, Pushed
<1>2. n.queue \in Seq(Slot)
  <2>1. mq.queue \in Seq(Slot)
    BY DEF MqState
  <2> QED BY <1>1, <2>1 DEF Pushed
<1>3. n.free \in Seq(Slot) /\ n.entry \in Nat /\ n.content \in [Slot -> Message]
  BY <1>1 DEF MqState
<1> QED BY <1>1, <1>2, <1>3 DEF MqState

LEMMA AppendedLonger ==
  ASSUME NEW q, Line(q), NEW s \in Slot, s \notin Range(q), NEW r, r = Append(q, s)
  PROVE  /\ Line(r) /\ Len(r) = Len(q) + 1
         /\ \A x : x \in Range(r) <=> x \in Range(q) \/ x = s
<1> DEFINE a == r
<1>1. q \in Seq(Slot) /\ IsInjective(q) /\ a = Added(s, q)
  BY DEF Line, Added
<1> HIDE DEF a
<1>2. a \in Seq(Slot) /\ Len(a) = Len(q) + 1 /\ IsInjective(a) /\ \A x : x \in Range(a) <=> x \in Range(q) \/ x = s
  BY <1>1, BackFacts
<1> QED BY <1>2 DEF Line, a

(* At either end, the queue is longer by the slot.                         *)
LEMMA LinkedLonger ==
  ASSUME NEW q, Line(q), NEW s \in Slot, s \notin Range(q),
         NEW r, r = Pushed(s, q) \/ r = Append(q, s)
  PROVE  /\ Line(r) /\ Len(r) = Len(q) + 1
         /\ \A x : x \in Range(r) <=> x \in Range(q) \/ x = s
<1>1. q \in Seq(Slot) /\ IsInjective(q)
  BY DEF Line
<1>2. CASE r = Pushed(s, q)
  BY <1>1, <1>2, LinkFirstFacts DEF Line
<1>3. CASE r = Append(q, s)
  BY <1>3, AppendedLonger
<1> QED BY <1>2, <1>3

LEMMA SlotAllocated ==
  ASSUME SlotSound, NEW t \in Thread, at[t] \notin Copying, NEW c \in Call, c.item \in Item, Allocates(t, c)
  PROVE  SlotSound' /\ mq'.queue = mq.queue /\ mq'.content = mq.content
<1> DEFINE f == mq.free
           g == Tail(f)
           p == Gives(own, t, {Head(f)})
<1>1. /\ Placed(f, mq.queue, own) /\ own[t] = {} /\ f # << >> /\ mq \in MqState
      /\ at \in [Thread -> IpcLabel] /\ call \in [Thread -> Call] /\ own \in [Thread -> SUBSET Slot]
  BY DEF SlotSound, CallSound, Allocates, FreeSlot, Placed
<1>2. /\ mq' = [mq EXCEPT !.free = g] /\ own' = p /\ at' = [at EXCEPT ![t] = "copyIn"]
      /\ call' = [call EXCEPT ![t] = c]
  BY DEF Allocates, Goto, Gives
<1>3. p = Gives(own, t, {Head(f)}) /\ g = Tail(f)
  OBVIOUS
<1> HIDE DEF f, g, p
<1>4. Placed(g, mq.queue, p) /\ Head(f) \in Slot
  BY <1>1, <1>3, PlacedTakes
<1>5. /\ mq' \in MqState /\ mq'.free = g /\ mq'.queue = mq.queue /\ mq'.entry = mq.entry
      /\ mq'.content = mq.content
  BY <1>1, <1>2, <1>4 DEF MqState, Placed, Line
<1>6. /\ at' \in [Thread -> IpcLabel] /\ call' \in [Thread -> Call] /\ at'[t] = "copyIn" /\ call'[t] = c
      /\ \A u \in Thread : u # t => at'[u] = at[u] /\ call'[u] = call[u] /\ own'[u] = own[u]
  BY <1>1, <1>2, <1>3 DEF IpcLabel, Gives
<1>7. ASSUME NEW u \in Thread
      PROVE  CallSound(u)'
  <2>1. CASE u = t
    BY <1>6, <2>1 DEF CallSound, Copying
  <2>2. CASE u # t
    <3>1. CallSound(u)
      BY DEF SlotSound
    <3> QED BY <1>5, <1>6, <2>2, <3>1 DEF CallSound
  <2> QED BY <2>1, <2>2
<1> QED BY <1>2, <1>4, <1>5, <1>6, <1>7 DEF SlotSound

(* The message is in the queue, whoever has sent it.                       *)
Joins(r, q, s) == \A y : y \in Range(r) <=> y \in Range(q) \/ y = s

LEMMA ContentLinked ==
  ASSUME SlotSound, NEW s \in Slot, s \notin Range(mq.queue), NEW x \in Item, NEW n \in MqState,
         Joins(n.queue, mq.queue, s), n.content = Gives(mq.content, s, x)
  PROVE  /\ \A y \in Range(n.queue) : n.content[y] \in Item
         /\ \A y \in Slot : y # s => n.content[y] = mq.content[y]
<1>1. mq.content \in [Slot -> Message] /\ mq.queue \in Seq(Slot)
  BY DEF SlotSound, MqState
<1>2. \A y \in Range(mq.queue) : y \in Slot /\ mq.content[y] \in Item
  BY <1>1, RangeOfSeq DEF SlotSound
<1> QED BY <1>1, <1>2 DEF Joins, Gives

LEMMA SlotLinked ==
  ASSUME SlotSound, NEW t \in Thread, MqLink(t)
  PROVE  /\ SlotSound'
         /\ \E s \in own[t] : mq' = Linked(s, call[t].item, call[t].op)
<1>1. PICK s \in own[t] : mq' = Linked(s, call[t].item, call[t].op)
  BY DEF MqLink
<1> DEFINE x == call[t].item
           op == call[t].op
           q == mq.queue
           p == Gives(own, t, {})
<1>2. /\ at[t] = "copyIn" /\ own' = p /\ call' = [call EXCEPT ![t] = NoCall]
      /\ \E a \in {"run", "schedule"} : at' = [at EXCEPT ![t] = a]
  BY DEF MqLink, EndsWaking, Ends, Goto, At, Gives
<1>3. /\ Placed(mq.free, q, own) /\ mq \in MqState /\ x \in Item /\ mq.entry = Len(q)
      /\ at \in [Thread -> IpcLabel] /\ call \in [Thread -> Call] /\ own \in [Thread -> SUBSET Slot]
  BY <1>2 DEF SlotSound, CallSound, Placed
<1>4. s \in Slot /\ s \notin Range(q) /\ s \notin Range(mq.free) /\ Line(q) /\ \A u \in Thread : s \in own[u] => u = t
  BY <1>3 DEF Placed
<1>5. mq' = Linked(s, x, op) /\ p = Gives(own, t, {})
  BY <1>1
<1> HIDE DEF x, op, p
<1>6. /\ mq' \in MqState /\ mq'.free = mq.free /\ mq'.entry = mq.entry + 1
      /\ mq'.queue = IF op = "urgent" THEN Pushed(s, q) ELSE Append(q, s)
      /\ mq'.content = [mq.content EXCEPT ![s] = x]
  <2>1. mq \in MqState /\ s \in Slot /\ x \in Message
    BY <1>3, <1>4 DEF Message
  <2> QED BY <1>5, <2>1, LinkedFacts
<1> HIDE DEF q
<1>7. /\ Line(mq'.queue) /\ Len(mq'.queue) = Len(q) + 1
      /\ \A y : y \in Range(mq'.queue) <=> y \in Range(q) \/ y = s
  BY <1>4, <1>6, LinkedLonger
<1>8. Placed(mq'.free, mq'.queue, own')
  <2>1. Placed(q, mq.free, own)
    BY <1>3, PlacedSymmetric
  <2>2. Placed(mq'.queue, mq.free, p)
    BY <1>5, <1>7, <2>1, PlacedPuts
  <2> QED BY <1>2, <1>6, <2>2, PlacedSymmetric
<1>9. /\ \A y \in Range(mq'.queue) : mq'.content[y] \in Item
      /\ \A y \in Slot : y # s => mq'.content[y] = mq.content[y]
  <2>1. /\ s \in Slot /\ s \notin Range(mq.queue) /\ x \in Item /\ mq' \in MqState
        /\ Joins(mq'.queue, mq.queue, s) /\ mq'.content = Gives(mq.content, s, x)
    BY <1>3, <1>4, <1>6, <1>7 DEF q, Joins, Gives
  <2> QED BY <2>1, ContentLinked
<1>10. /\ at' \in [Thread -> IpcLabel] /\ call' \in [Thread -> Call] /\ at'[t] \notin Copying /\ own'[t] = {}
       /\ \A u \in Thread : u # t => at'[u] = at[u] /\ call'[u] = call[u] /\ own'[u] = own[u]
  <2>1. NoCall \in Call
    BY DEF NoCall, Call
  <2> QED BY <1>2, <1>3, <1>5, <2>1 DEF IpcLabel, Gives, Copying
<1>11. ASSUME NEW u \in Thread
       PROVE  CallSound(u)'
  <2>1. CASE u = t
    BY <1>10, <2>1 DEF CallSound, Copying
  <2>2. CASE u # t
    <3>1. CallSound(u) /\ own[u] \subseteq Slot /\ s \notin own[u]
      BY <1>3, <1>4, <2>2 DEF SlotSound
    <3> QED BY <1>9, <1>10, <2>2, <3>1 DEF CallSound
  <2> QED BY <2>1, <2>2
<1> QED BY <1>1, <1>3, <1>6, <1>7, <1>8, <1>9, <1>10, <1>11 DEF SlotSound

LEMMA SlotSentIsr ==
  ASSUME SlotSound, NEW x \in Item, NEW op, MqSendIsr(x, op)
  PROVE  /\ SlotSound' /\ mq.free # << >> /\ Head(mq.free) \in Slot /\ Head(mq.free) \notin Range(mq.queue)
         /\ mq'.queue = Linked(Head(mq.free), x, op).queue
         /\ mq'.content = Linked(Head(mq.free), x, op).content
<1> DEFINE f == mq.free
           q == mq.queue
           s == Head(f)
           n == Linked(s, x, op)
           g == Tail(f)
<1>1. /\ f # << >> /\ mq' = [n EXCEPT !.free = Tail(n.free)] /\ UNCHANGED <<at, call, own>>
  BY DEF MqSendIsr, FreeSlot, IsrWaking
<1>2. Placed(f, q, own) /\ mq \in MqState /\ mq.entry = Len(q) /\ Line(q) /\ f \in Seq(Slot)
  BY DEF SlotSound, Placed, Line
<1>3. s \in Slot /\ s \in Range(f)
  BY <1>1, <1>2, FrontFacts
<1>4. s \notin Range(q) /\ \A u \in Thread : s \notin own[u]
  BY <1>2, <1>3 DEF Placed
<1>5. n = Linked(s, x, op) /\ s = Head(f) /\ g = Tail(f)
  OBVIOUS
<1> HIDE DEF n, g
<1>6. /\ n \in MqState /\ n.free = mq.free /\ n.entry = mq.entry + 1
      /\ n.queue = IF op = "urgent" THEN Pushed(s, mq.queue) ELSE Append(mq.queue, s)
      /\ n.content = [mq.content EXCEPT ![s] = x]
  <2>1. mq \in MqState /\ s \in Slot /\ x \in Message
    BY <1>2, <1>3 DEF Message
  <2> QED BY <1>5, <2>1, LinkedFacts
<1>7. /\ Line(n.queue) /\ Len(n.queue) = Len(q) + 1
      /\ \A y : y \in Range(n.queue) <=> y \in Range(q) \/ y = s
  <2>1. Line(q) /\ s \in Slot /\ s \notin Range(q) /\ n.queue = IF op = "urgent" THEN Pushed(s, q) ELSE Append(q, s)
    BY <1>2, <1>3, <1>4, <1>6
  <2> DEFINE r == n.queue
  <2>2. r = Pushed(s, q) \/ r = Append(q, s)
    BY <2>1
  <2> HIDE DEF s, q, r
  <2>3. Line(q) /\ s \in Slot /\ s \notin Range(q)
    BY <2>1
  <2>4. Line(r) /\ Len(r) = Len(q) + 1 /\ \A y : y \in Range(r) <=> y \in Range(q) \/ y = s
    BY <2>2, <2>3, LinkedLonger
  <2> QED BY <2>4 DEF r
<1>8. Placed(g, n.queue, own)
  BY <1>1, <1>2, <1>5, <1>7, PlacedMoves
<1>9. /\ mq' \in MqState /\ mq'.free = g /\ mq'.queue = n.queue /\ mq'.entry = n.entry
      /\ mq'.content = n.content
  BY <1>1, <1>5, <1>6, <1>8 DEF MqState, Placed, Line
<1>10. /\ \A y \in Range(n.queue) : n.content[y] \in Item
       /\ \A y \in Slot : y # s => n.content[y] = mq.content[y]
  <2>1. /\ s \in Slot /\ s \notin Range(mq.queue) /\ n \in MqState
        /\ Joins(n.queue, mq.queue, s) /\ n.content = Gives(mq.content, s, x)
    BY <1>3, <1>4, <1>6, <1>7 DEF Joins, Gives
  <2> HIDE DEF s
  <2> QED BY <2>1, ContentLinked
<1> HIDE DEF s
<1>11. ASSUME NEW u \in Thread
       PROVE  CallSound(u)'
  <2>1. CallSound(u) /\ own[u] \subseteq Slot /\ s \notin own[u]
    BY <1>2, <1>4 DEF SlotSound, Placed
  <2> QED BY <1>1, <1>9, <1>10, <2>1 DEF CallSound
<1>12. mq'.entry = Len(mq'.queue)
  BY <1>2, <1>6, <1>7, <1>9
<1>13. SlotSound'
  BY <1>1, <1>8, <1>9, <1>10, <1>11, <1>12 DEF SlotSound
<1> QED BY <1>1, <1>3, <1>4, <1>9, <1>13 DEF n, s

LEMMA SlotReceived ==
  ASSUME SlotSound, NEW t \in Thread, NEW c \in Call, MqRecv(t, c)
  PROVE  /\ SlotSound' /\ mq.queue # << >>
         /\ mq'.queue = Tail(mq.queue) /\ mq'.content = mq.content
         /\ last' = mq.content[Head(mq.queue)] /\ epoch' = epoch
<1> DEFINE q == mq.queue
           g == Tail(q)
           s == Head(q)
           p == Gives(own, t, {s})
           d == [c EXCEPT !.item = last']
<1>1. /\ mq' = [mq EXCEPT !.queue = g, !.entry = mq.entry - 1] /\ own' = p
      /\ at' = [at EXCEPT ![t] = "copyOut"] /\ call' = [call EXCEPT ![t] = d]
      /\ last' = mq.content[s] /\ epoch' = epoch /\ mq.entry > 0
  BY DEF MqRecv, Goto, Gives
<1>2. at[t] \in {"run", "woken"}
  BY DEF MqRecv, Tries, Begins, GoesOn, MayBlock, At
<1>3. /\ Placed(q, mq.free, own) /\ own[t] = {} /\ mq \in MqState /\ mq.entry = Len(q)
      /\ at \in [Thread -> IpcLabel] /\ call \in [Thread -> Call] /\ own \in [Thread -> SUBSET Slot]
  BY <1>2, PlacedSymmetric DEF SlotSound, CallSound, Copying, Placed
<1>4. q # << >>
  <2>1. Len(<< >>) = 0
    BY EmptySeq
  <2> QED BY <1>1, <1>3, <2>1
<1>5. p = Gives(own, t, {Head(q)}) /\ g = Tail(q)
  OBVIOUS
<1> HIDE DEF p, g
<1>6. Placed(g, mq.free, p) /\ s \in Slot /\ s \in Range(q) /\ Len(g) = Len(q) - 1
  <2>1. /\ Placed(q, mq.free, own) /\ t \in Thread /\ own[t] = {} /\ q # << >>
        /\ g = Tail(q) /\ p = Gives(own, t, {Head(q)})
    BY <1>3, <1>4, <1>5
  <2> HIDE DEF q
  <2>2. Placed(g, mq.free, p)
    BY <2>1, PlacedTakes
  <2>3. Head(q) \in Slot /\ Head(q) \in Range(q)
    BY <2>1, PlacedTakes
  <2>4. Len(g) = Len(q) - 1
    BY <2>1, PlacedTakes
  <2> QED BY <2>2, <2>3, <2>4 DEF q
<1>7. last' \in Item
  BY <1>1, <1>6 DEF SlotSound
<1>8. d \in Call /\ d.item = last'
  BY <1>7 DEF Call
<1> HIDE DEF d
<1>9. /\ mq' \in MqState /\ mq'.queue = g /\ mq'.entry = Len(g) /\ mq'.free = mq.free
      /\ mq'.content = mq.content
  <2>1. Len(g) \in Nat /\ g \in Seq(Slot)
    BY <1>6, LenProperties DEF Placed, Line
  <2> QED BY <1>1, <1>3, <1>6, <2>1 DEF MqState
<1>10. /\ at' \in [Thread -> IpcLabel] /\ call' \in [Thread -> Call] /\ at'[t] = "copyOut" /\ call'[t] = d
       /\ own'[t] = {s}
       /\ \A u \in Thread : u # t => at'[u] = at[u] /\ call'[u] = call[u] /\ own'[u] = own[u]
  BY <1>1, <1>3, <1>5, <1>8 DEF IpcLabel, Gives
<1>11. ASSUME NEW u \in Thread
       PROVE  CallSound(u)'
  <2>1. CASE u = t
    BY <1>1, <1>8, <1>9, <1>10, <2>1 DEF CallSound, Copying
  <2>2. CASE u # t
    <3>1. CallSound(u)
      BY DEF SlotSound
    <3> QED BY <1>9, <1>10, <2>2, <3>1 DEF CallSound
  <2> QED BY <2>1, <2>2
<1>12. \A y \in Range(g) : y \in Range(q)
  <2>1. q \in Seq(Slot) /\ IsInjective(q)
    BY <1>3 DEF Placed, Line
  <2> QED BY <1>4, <1>5, <2>1, FrontFacts
<1>13. Placed(mq'.free, mq'.queue, own')
  BY <1>1, <1>6, <1>9, PlacedSymmetric
<1>14. SlotSound'
  BY <1>9, <1>10, <1>11, <1>12, <1>13 DEF SlotSound
<1> QED BY <1>1, <1>4, <1>5, <1>9, <1>14

LEMMA SlotFreed ==
  ASSUME SlotSound, NEW t \in Thread, MqFree(t)
  PROVE  SlotSound' /\ mq'.queue = mq.queue /\ mq'.content = mq.content
<1>1. PICK s \in own[t] : mq' = [mq EXCEPT !.free = Pushed(s, mq.free)]
  BY DEF MqFree, Pushed
<1> DEFINE f == mq.free
           g == Pushed(s, f)
           p == Gives(own, t, {})
<1>2. /\ at[t] = "copyOut" /\ own' = p /\ call' = [call EXCEPT ![t] = NoCall]
      /\ \E a \in {"run", "schedule"} : at' = [at EXCEPT ![t] = a]
  BY DEF MqFree, EndsWaking, Ends, Goto, At, Gives
<1>3. /\ Placed(f, mq.queue, own) /\ mq \in MqState /\ mq.entry = Len(mq.queue)
      /\ at \in [Thread -> IpcLabel] /\ call \in [Thread -> Call] /\ own \in [Thread -> SUBSET Slot]
  BY DEF SlotSound, Placed
<1>4. s \in Slot /\ s \notin Range(f) /\ f \in Seq(Slot) /\ IsInjective(f)
  BY <1>3 DEF Placed, Line
<1>5. g = Pushed(s, f) /\ p = Gives(own, t, {})
  OBVIOUS
<1> HIDE DEF g, p, f
<1>6. Line(g) /\ \A x : x \in Range(g) <=> x \in Range(f) \/ x = s
  BY <1>4, <1>5, LinkFirstFacts DEF Line
<1>7. Placed(g, mq.queue, p)
  BY <1>3, <1>5, <1>6, PlacedPuts
<1>8. /\ mq' \in MqState /\ mq'.free = g /\ mq'.queue = mq.queue /\ mq'.entry = mq.entry
      /\ mq'.content = mq.content
  BY <1>1, <1>3, <1>5, <1>6 DEF MqState, Line, f
<1>9. /\ at' \in [Thread -> IpcLabel] /\ call' \in [Thread -> Call] /\ at'[t] \notin Copying /\ own'[t] = {}
      /\ \A u \in Thread : u # t => at'[u] = at[u] /\ call'[u] = call[u] /\ own'[u] = own[u]
  <2>1. NoCall \in Call
    BY DEF NoCall, Call
  <2> QED BY <1>2, <1>3, <1>5, <2>1 DEF IpcLabel, Gives, Copying
<1>10. ASSUME NEW u \in Thread
       PROVE  CallSound(u)'
  <2>1. CASE u = t
    BY <1>9, <2>1 DEF CallSound, Copying
  <2>2. CASE u # t
    <3>1. CallSound(u)
      BY DEF SlotSound
    <3> QED BY <1>8, <1>9, <2>2, <3>1 DEF CallSound
  <2> QED BY <2>1, <2>2
<1> QED BY <1>2, <1>3, <1>7, <1>8, <1>9, <1>10 DEF SlotSound

(* A reset leaves the slots of calls in progress with them.                *)
LEMMA SlotReset ==
  ASSUME SlotSound, NEW t \in Thread, MqReset(t)
  PROVE  SlotSound' /\ mq'.queue = << >>
<1> DEFINE g == Reverse(mq.queue) \o mq.free
<1>1. mq' = [mq EXCEPT !.queue = << >>, !.entry = 0, !.free = g] /\ own' = own /\ Aside
  BY ResetAside DEF MqReset, Aside
<1>2. /\ Placed(mq.free, mq.queue, own) /\ mq \in MqState
      /\ at \in [Thread -> IpcLabel] /\ call \in [Thread -> Call]
  BY DEF SlotSound
<1>3. g = Reverse(mq.queue) \o mq.free
  OBVIOUS
<1> HIDE DEF g
<1>4. Placed(g, << >>, own)
  BY <1>2, <1>3, PlacedEmptied
<1>5. << >> \in Seq(Slot) /\ Len(<< >>) = 0 /\ \A x : x \notin Range(<< >>)
  BY EmptySeq DEF Range
<1>6. /\ mq' \in MqState /\ mq'.free = g /\ mq'.queue = << >> /\ mq'.entry = 0
      /\ mq'.content = mq.content
  BY <1>1, <1>2, <1>4, <1>5 DEF MqState, Placed, Line
<1>7. /\ at' \in [Thread -> IpcLabel] /\ call' \in [Thread -> Call]
      /\ \A u \in Thread : \/ at'[u] = at[u] /\ call'[u] = call[u]
                           \/ at[u] \notin Copying /\ at'[u] \notin Copying
  BY <1>1, <1>2, AsideTyped
<1>8. ASSUME NEW u \in Thread
      PROVE  CallSound(u)'
  <2>1. CallSound(u)
    BY DEF SlotSound
  <2>2. CASE at'[u] = at[u] /\ call'[u] = call[u]
    BY <1>1, <1>6, <2>1, <2>2 DEF CallSound
  <2>3. CASE at[u] \notin Copying /\ at'[u] \notin Copying
    BY <1>1, <2>1, <2>3 DEF CallSound, Copying
  <2> QED BY <1>7, <2>2, <2>3
<1> QED BY <1>1, <1>4, <1>5, <1>6, <1>7, <1>8 DEF SlotSound

LEMMA IpcStepSilent ==
  ASSUME IpcStep \/ \E t \in Thread : WokenFails(t)
  PROVE  last' = last /\ epoch' = epoch
BY DEF IpcStep, ivars, WaitSchedule, EndSchedule, Delete, DeleteTest, DeleteResume, WokenFails

(* The calls of a message queue that wait, fail or end there.              *)
LEMMA MqAside ==
  ASSUME NEW t \in Thread, NEW c \in Call,
         MqRecvWaits(t, c) \/ MqRecvFails(t, c) \/ MqSendWaits(t, c) \/ MqSendFails(t, c)
  PROVE  Elsewhere(t) /\ UNCHANGED <<mq, own, last, epoch>>
<1>1. Tries(t, c) \/ GivesUp(t, c)
  BY DEF MqRecvWaits, MqRecvFails, MqSendWaits, MqSendFails
<1>2. Waits(t, "recv", c) \/ Waits(t, "send", c) \/ Ends(t, "run")
  BY DEF MqRecvWaits, MqRecvFails, MqSendWaits, MqSendFails
<1>3. UNCHANGED <<mq, own, last, epoch>>
  BY DEF MqRecvWaits, MqRecvFails, MqSendWaits, MqSendFails
<1> QED BY <1>1, <1>2, <1>3, WaitAside

LEMMA MqCalls ==
  /\ \A tmo \in BOOLEAN : MqRecvCall(tmo) \in Call
  /\ \A x \in Item : MqUrgentCall(x) \in Call /\ MqUrgentCall(x).item = x
  /\ \A x \in Item, tmo \in BOOLEAN : MqSendCall(x, tmo) \in Call /\ MqSendCall(x, tmo).item = x
BY DEF MqRecvCall, MqUrgentCall, MqSendCall, Call

(* The steps of a message queue, sorted by what they do to the slots.      *)
Allocating == \E t \in Thread, c \in Call : at[t] \notin Copying /\ c.item \in Item /\ Allocates(t, c)
Linking    == \E t \in Thread : MqLink(t)
Sending    == \E x \in Item, op \in {"send", "urgent"} : MqSendIsr(x, op)
Receiving  == \E t \in Thread, c \in Call : MqRecv(t, c)
Freeing    == \E t \in Thread : MqFree(t)
Resetting  == \E t \in Thread : MqReset(t)

Quiet      == Aside /\ UNCHANGED <<mq, own, last, epoch>>

LEMMA MqSteps ==
  ASSUME MqNext
  PROVE  \/ Allocating \/ Linking \/ Sending \/ Receiving \/ Freeing \/ Resetting
         \/ Quiet
<1>1. CASE IpcStep /\ UNCHANGED <<mq, own>>
  BY <1>1, IpcStepAside, IpcStepSilent DEF Quiet
<1>2. ASSUME NEW t \in Thread, WokenFails(t) /\ UNCHANGED <<mq, own>>
      PROVE  Quiet
  BY <1>2, FailsAside, IpcStepSilent DEF Aside, Quiet
<1>3. ASSUME NEW t \in Thread, NEW tmo \in BOOLEAN, NEW c, c = MqRecvCall(tmo),
             MqRecv(t, c) \/ MqRecvWaits(t, c) \/ MqRecvFails(t, c)
      PROVE  Receiving \/ Quiet
  <2>1. c \in Call
    BY <1>3, MqCalls
  <2> QED BY <1>3, <2>1, MqAside DEF Receiving, Aside, Quiet
<1>4. ASSUME NEW t \in Thread, NEW x \in Item, NEW tmo \in BOOLEAN, NEW c, c = MqSendCall(x, tmo),
             MqSend(t, c) \/ MqSendWaits(t, c) \/ MqSendFails(t, c)
      PROVE  Allocating \/ Quiet
  <2>1. c \in Call /\ c.item = x
    BY <1>4, MqCalls
  <2>2. CASE MqSend(t, c)
    <3>1. at[t] \notin Copying /\ Allocates(t, c)
      BY <2>2 DEF MqSend, Tries, Begins, GoesOn, MayBlock, At, Copying
    <3> QED BY <2>1, <3>1 DEF Allocating
  <2>3. CASE MqSendWaits(t, c) \/ MqSendFails(t, c)
    BY <2>1, <2>3, MqAside DEF Aside, Quiet
  <2> QED BY <1>4, <2>2, <2>3
<1>5. ASSUME NEW t \in Thread, NEW x \in Item, NEW c, c = MqUrgentCall(x), MqUrgent(t, c)
      PROVE  Allocating
  <2>1. c \in Call /\ c.item = x
    BY <1>5, MqCalls
  <2>2. at[t] \notin Copying /\ Allocates(t, c)
    BY <1>5 DEF MqUrgent, Begins, MayBlock, At, Copying
  <2> QED BY <2>1, <2>2 DEF Allocating
<1> QED BY <1>1, <1>2, <1>3, <1>4, <1>5 DEF MqNext, Linking, Sending, Freeing, Resetting

LEMMA SlotNext ==
  ASSUME SlotSound, MqNext
  PROVE  SlotSound'
<1>1. CASE Allocating
  BY <1>1, SlotAllocated DEF Allocating
<1>2. CASE Linking
  BY <1>2, SlotLinked DEF Linking
<1>3. CASE Sending
  BY <1>3, SlotSentIsr DEF Sending
<1>4. CASE Receiving
  BY <1>4, SlotReceived DEF Receiving
<1>5. CASE Freeing
  BY <1>5, SlotFreed DEF Freeing
<1>6. CASE Resetting
  BY <1>6, SlotReset DEF Resetting
<1>7. CASE Quiet
  BY <1>7, SlotAside DEF Quiet
<1> QED BY <1>1, <1>2, <1>3, <1>4, <1>5, <1>6, <1>7, MqSteps

LEMMA SlotKept ==
  ASSUME SlotSound, [CNext]_cvars
  PROVE  SlotSound'
<1>1. CASE UNCHANGED cvars
  BY <1>1, SlotAside DEF cvars, objects, Aside
<1>2. CASE CNext
  <2>1. MqNext \/ (UNCHANGED <<mq, own>> /\ (SemNext \/ MbNext \/ MpNext \/ EvNext))
    BY <1>2 DEF CNext
  <2>2. CASE MqNext
    BY <2>2, SlotNext
  <2>3. CASE UNCHANGED <<mq, own>> /\ (SemNext \/ MbNext \/ MpNext \/ EvNext)
    BY <2>3, SemAside, MbAside, MpAside, EvAside, SlotAside
  <2> QED BY <2>1, <2>2, <2>3
<1> QED BY <1>1, <1>2

(* Every slot of a message queue is free, queued, or with exactly one call *)
(* between its two locked regions, a reset there included, and the message *)
(* that rt_mq_recv is copying out is still the one it has taken.           *)
THEOREM SlotsStayExact == CSpec => []SlotsExact
<1>1. CInit => SlotSound
  BY SlotInit DEF CInit
<1>2. SlotSound /\ [CNext]_cvars => SlotSound'
  BY SlotKept
<1>3. ASSUME SlotSound
      PROVE  SlotsExact
  <2>1. Placed(mq.free, mq.queue, own) /\ mq.entry = Len(mq.queue)
    BY <1>3 DEF SlotSound
  <2>2. ASSUME NEW s \in Slot
        PROVE  Places(s) = 1
    <3> DEFINE T == {t \in Thread : s \in own[t]}
    <3>1. CASE \E t \in Thread : s \in own[t]
      <4>1. PICK t \in Thread : s \in own[t]
        BY <3>1
      <4>2. /\ s \notin Range(mq.free) /\ s \notin Range(mq.queue)
            /\ \A u \in Thread : s \in own[u] => u = t
        BY <2>1, <4>1 DEF Placed
      <4>3. T = {t}
        BY <4>1, <4>2
      <4>4. Cardinality(T) = 1
        BY <4>3, FS_Singleton
      <4> HIDE DEF T
      <4>5. Places(s) = 0 + 0 + Cardinality(T)
        BY <4>2 DEF Places, T
      <4> QED BY <4>4, <4>5
    <3>2. CASE ~ \E t \in Thread : s \in own[t]
      <4>1. T = {}
        BY <3>2
      <4>2. Cardinality(T) = 0
        BY <4>1, FS_EmptySet
      <4>3. ~ (s \in Range(mq.free) /\ s \in Range(mq.queue)) /\ (s \in Range(mq.free) \/ s \in Range(mq.queue))
        BY <2>1, <3>2 DEF Placed
      <4> HIDE DEF T
      <4>4. Places(s) = (IF s \in Range(mq.free) THEN 1 ELSE 0)
                          + (IF s \in Range(mq.queue) THEN 1 ELSE 0) + Cardinality(T)
        BY DEF Places, T
      <4> QED BY <4>2, <4>3, <4>4
    <3> QED BY <3>1, <3>2
  <2>3. \A t \in Thread : at[t] = "copyOut" => \A s \in own[t] : mq.content[s] = call[t].item
    BY <1>3 DEF SlotSound, CallSound
  <2> QED BY <2>1, <2>2, <2>3 DEF SlotsExact, Placed, Line
<1> QED BY <1>1, <1>2, <1>3, PTL DEF CSpec

(***************************************************************************)
(* Mailboxes: the ring, read from out on.                                  *)
(***************************************************************************)
Place(o, i) == IF o + i < MbSize THEN o + i ELSE o + i - MbSize

RingSound ==
  /\ mb \in Mailbox
  /\ mb.in = Place(mb.out, mb.entry)
  /\ \A i \in 0 .. mb.entry - 1 : mb.pool[Place(mb.out, i)] \in Item

LEMMA SizePositive == MbSize \in Nat /\ MbSize > 0
BY MbAssumption

LEMMA PlaceInRing ==
  ASSUME NEW o \in Ring, NEW i \in 0 .. MbSize
  PROVE  Place(o, i) \in Ring /\ (o + i) % MbSize = Place(o, i)
<1>1. o \in Int /\ i \in Int /\ 0 <= o /\ o < MbSize /\ 0 <= i /\ i <= MbSize /\ MbSize \in Int /\ MbSize > 0
  BY SizePositive DEF Ring
<1>2. Place(o, i) \in Ring
  BY <1>1 DEF Place, Ring
<1> DEFINE a == o + i
<1>3. a \in Int /\ 0 <= a /\ a < 2 * MbSize
  BY <1>1
<1> HIDE DEF a
<1>4. a % MbSize = IF a < MbSize THEN a ELSE a - MbSize
  BY <1>1, <1>3
<1>5. (o + i) % MbSize = IF o + i < MbSize THEN o + i ELSE o + i - MbSize
  BY <1>1, <1>4 DEF a
<1>6. (o + i) % MbSize = Place(o, i)
  BY <1>1, <1>5 DEF Place
<1> QED BY <1>2, <1>6

LEMMA PlaceNext ==
  ASSUME NEW o \in Ring, NEW e \in 0 .. MbSize - 1
  PROVE  Place(Place(o, e), 1) = Place(o, e + 1) /\ Place(Place(o, 1), e) = Place(o, e + 1)
<1>1. o \in Int /\ e \in Int /\ 0 <= o /\ o < MbSize /\ 0 <= e /\ e < MbSize /\ MbSize \in Int
  BY SizePositive DEF Ring
<1> QED BY <1>1 DEF Place

LEMMA PlacesDiffer ==
  ASSUME NEW o \in Ring, NEW e \in 0 .. MbSize - 1, NEW i \in 0 .. e - 1
  PROVE  Place(o, i) # Place(o, e)
<1>1. o \in Int /\ e \in Int /\ i \in Int /\ MbSize \in Int
  BY SizePositive DEF Ring
<1>2. 0 <= o /\ o < MbSize /\ 0 <= i /\ i < e /\ e < MbSize
  BY SizePositive DEF Ring
<1> QED BY <1>1, <1>2 DEF Place

LEMMA AfterIsNext ==
  ASSUME NEW o \in Ring
  PROVE  After(o) = Place(o, 1) /\ Place(o, 0) = o
<1>1. o \in Int /\ 0 <= o /\ o < MbSize /\ MbSize \in Nat /\ 1 \in 0 .. MbSize
  BY SizePositive DEF Ring
<1>2. (o + 1) % MbSize = Place(o, 1)
  BY <1>1, PlaceInRing
<1> QED BY <1>1, <1>2 DEF After, Place

(* The mails are those in the places from out on.                          *)
LEMMA MailsFacts ==
  ASSUME RingSound
  PROVE  /\ Mails \in Seq(Item) /\ Len(Mails) = mb.entry
         /\ \A i \in 1 .. mb.entry : Mails[i] = mb.pool[Place(mb.out, i - 1)]
<1>1. mb.out \in Ring /\ mb.entry \in 0 .. MbSize /\ MbSize \in Nat
  BY SizePositive DEF RingSound, Mailbox
<1>2. ASSUME NEW i \in 1 .. mb.entry
      PROVE  /\ (mb.out + i - 1) % MbSize = Place(mb.out, i - 1)
             /\ mb.pool[Place(mb.out, i - 1)] \in Item
  <2>1. i - 1 \in 0 .. MbSize /\ i - 1 \in 0 .. mb.entry - 1 /\ mb.out + i - 1 = mb.out + (i - 1)
    BY <1>1 DEF Ring
  <2>2. (mb.out + (i - 1)) % MbSize = Place(mb.out, i - 1)
    BY <1>1, <2>1, PlaceInRing
  <2> QED BY <2>1, <2>2 DEF RingSound
<1>3. Mails = [i \in 1 .. mb.entry |-> mb.pool[Place(mb.out, i - 1)]]
  BY <1>2 DEF Mails
<1>4. Mails \in [1 .. mb.entry -> Item] /\ mb.entry \in Nat
  BY <1>1, <1>2, <1>3
<1>5. Mails \in Seq(Item) /\ Len(Mails) = mb.entry
  BY <1>4, SeqDef
<1> QED BY <1>3, <1>5

LEMMA RingSent ==
  ASSUME RingSound, mb.entry < MbSize, NEW x \in Item, mb' = Stored(x)
  PROVE  RingSound' /\ Mails' = Append(Mails, x)
<1>1. /\ mb \in Mailbox /\ mb.out \in Ring /\ mb.entry \in 0 .. MbSize /\ mb.in \in Ring
      /\ mb.in = Place(mb.out, mb.entry) /\ MbSize \in Nat /\ mb.pool \in [Ring -> Item \cup {NoItem}]
  BY SizePositive DEF RingSound, Mailbox
<1>2. /\ mb'.pool = [mb.pool EXCEPT ![mb.in] = x] /\ mb'.in = After(mb.in)
      /\ mb'.entry = mb.entry + 1 /\ mb'.out = mb.out
      /\ mb' = [pool |-> mb'.pool, entry |-> mb'.entry, in |-> mb'.in, out |-> mb'.out]
  BY <1>1 DEF Stored, Mailbox
<1>3. After(mb.in) = Place(mb.in, 1) /\ Place(mb.in, 1) \in Ring
  <2>1. 1 \in 0 .. MbSize
    BY SizePositive
  <2> QED BY <1>1, <2>1, AfterIsNext, PlaceInRing
<1>4. mb'.in = Place(mb'.out, mb'.entry)
  <2>1. mb.entry \in 0 .. MbSize - 1
    BY <1>1
  <2>2. Place(Place(mb.out, mb.entry), 1) = Place(mb.out, mb.entry + 1)
    BY <1>1, <2>1, PlaceNext
  <2> QED BY <1>1, <1>2, <1>3, <2>2
<1>5. mb' \in Mailbox
  BY <1>1, <1>2, <1>3 DEF Mailbox
<1>6. /\ mb'.pool[Place(mb.out, mb.entry)] = x
      /\ \A i \in 0 .. mb.entry - 1 : mb'.pool[Place(mb.out, i)] = mb.pool[Place(mb.out, i)]
  <2>1. ASSUME NEW i \in 0 .. mb.entry - 1
        PROVE  Place(mb.out, i) \in Ring /\ Place(mb.out, i) # mb.in
    <3>1. i \in 0 .. MbSize
      BY <1>1
    <3>2. Place(mb.out, i) # Place(mb.out, mb.entry)
      <4>1. mb.out \in Ring /\ mb.entry \in 0 .. MbSize - 1 /\ i \in 0 .. mb.entry - 1
        BY <1>1
      <4> QED BY <4>1, PlacesDiffer
    <3> QED BY <1>1, <3>1, <3>2, PlaceInRing
  <2> QED BY <1>1, <1>2, <2>1
<1>7. RingSound'
  <2>1. ASSUME NEW i \in 0 .. mb'.entry - 1
        PROVE  mb'.pool[Place(mb'.out, i)] \in Item
    <3>1. i = mb.entry \/ i \in 0 .. mb.entry - 1
      BY <1>1, <1>2
    <3> QED BY <1>2, <1>6, <3>1 DEF RingSound
  <2> QED BY <1>4, <1>5, <2>1 DEF RingSound, Place
<1>8. /\ Mails \in Seq(Item) /\ Len(Mails) = mb.entry
      /\ \A i \in 1 .. mb.entry : Mails[i] = mb.pool[Place(mb.out, i - 1)]
  BY MailsFacts
<1>9. /\ Mails' \in Seq(Item) /\ Len(Mails') = mb.entry + 1
      /\ \A i \in 1 .. mb.entry + 1 : Mails'[i] = mb'.pool[Place(mb.out, i - 1)]
  <2>1. (/\ Mails \in Seq(Item) /\ Len(Mails) = mb.entry
         /\ \A i \in 1 .. mb.entry : Mails[i] = mb.pool[Place(mb.out, i - 1)])'
    BY <1>7, MailsFacts, PTL
  <2> QED BY <1>2, <2>1
<1>10. /\ Append(Mails, x) \in Seq(Item) /\ Len(Append(Mails, x)) = mb.entry + 1
       /\ \A i \in 1 .. mb.entry : Append(Mails, x)[i] = Mails[i]
       /\ Append(Mails, x)[mb.entry + 1] = x
  BY <1>8, AppendProperties
<1>11. ASSUME NEW i \in 1 .. mb.entry + 1
       PROVE  Mails'[i] = Append(Mails, x)[i]
  <2>1. CASE i = mb.entry + 1
    <3>1. i - 1 = mb.entry
      BY <1>1, <2>1
    <3> QED BY <1>6, <1>9, <1>10, <2>1, <3>1
  <2>2. CASE i # mb.entry + 1
    <3>1. i \in 1 .. mb.entry /\ i - 1 \in 0 .. mb.entry - 1
      BY <1>1, <2>2
    <3> QED BY <1>6, <1>8, <1>9, <1>10, <3>1
  <2> QED BY <2>1, <2>2
<1>12. Mails' = Append(Mails, x)
  BY <1>9, <1>10, <1>11, SeqEqual
<1> QED BY <1>7, <1>12

LEMMA RingReceived ==
  ASSUME RingSound, mb.entry > 0, mb' = [mb EXCEPT !.out = After(mb.out), !.entry = mb.entry - 1]
  PROVE  /\ RingSound' /\ Mails # << >> /\ Mails' = Tail(Mails)
         /\ mb.pool[mb.out] = Head(Mails)
<1>1. /\ mb \in Mailbox /\ mb.out \in Ring /\ mb.entry \in 1 .. MbSize /\ MbSize \in Nat
      /\ mb.in = Place(mb.out, mb.entry)
  BY SizePositive DEF RingSound, Mailbox
<1>2. /\ mb'.pool = mb.pool /\ mb'.in = mb.in /\ mb'.entry = mb.entry - 1 /\ mb'.out = Place(mb.out, 1)
      /\ mb' = [pool |-> mb'.pool, entry |-> mb'.entry, in |-> mb'.in, out |-> mb'.out]
  BY <1>1, AfterIsNext DEF Mailbox
<1>3. /\ Place(mb.out, 1) \in Ring /\ Place(mb.out, 0) = mb.out
      /\ \A i \in 0 .. mb.entry - 1 : Place(Place(mb.out, 1), i) = Place(mb.out, i + 1)
  <2>1. 1 \in 0 .. MbSize
    BY SizePositive
  <2>2. \A i \in 0 .. mb.entry - 1 : i \in 0 .. MbSize - 1
    BY <1>1
  <2> QED BY <1>1, <2>1, <2>2, AfterIsNext, PlaceInRing, PlaceNext
<1>4. mb' \in Mailbox
  BY <1>1, <1>2, <1>3 DEF Mailbox
<1>5. mb'.in = Place(mb'.out, mb'.entry)
  <2>1. mb.entry - 1 \in 0 .. mb.entry - 1 /\ (mb.entry - 1) + 1 = mb.entry
    BY <1>1
  <2> QED BY <1>1, <1>2, <1>3, <2>1
<1>6. RingSound'
  <2>1. ASSUME NEW i \in 0 .. mb'.entry - 1
        PROVE  mb'.pool[Place(mb'.out, i)] \in Item
    <3>1. i \in 0 .. mb.entry - 1 /\ i + 1 \in 0 .. mb.entry - 1
      BY <1>1, <1>2
    <3> QED BY <1>2, <1>3, <3>1 DEF RingSound
  <2> QED BY <1>4, <1>5, <2>1 DEF RingSound, Place
<1>7. /\ Mails \in Seq(Item) /\ Len(Mails) = mb.entry
      /\ \A i \in 1 .. mb.entry : Mails[i] = mb.pool[Place(mb.out, i - 1)]
  BY MailsFacts
<1>8. /\ Mails' \in Seq(Item) /\ Len(Mails') = mb.entry - 1
      /\ \A i \in 1 .. mb.entry - 1 : Mails'[i] = mb.pool[Place(Place(mb.out, 1), i - 1)]
  <2>1. (/\ Mails \in Seq(Item) /\ Len(Mails) = mb.entry
         /\ \A i \in 1 .. mb.entry : Mails[i] = mb.pool[Place(mb.out, i - 1)])'
    BY <1>6, MailsFacts, PTL
  <2> QED BY <1>2, <2>1
<1>9. Mails # << >>
  <2>1. Len(<< >>) = 0
    BY EmptySeq
  <2> QED BY <1>1, <1>7, <2>1
<1>10. /\ Tail(Mails) \in Seq(Item) /\ Len(Tail(Mails)) = mb.entry - 1
       /\ \A i \in 1 .. mb.entry - 1 : Tail(Mails)[i] = Mails[i + 1]
  BY <1>7, <1>9, HeadTailProperties
<1>11. ASSUME NEW i \in 1 .. mb.entry - 1
       PROVE  Mails'[i] = Tail(Mails)[i]
  <2>1. i + 1 \in 1 .. mb.entry /\ i - 1 \in 0 .. mb.entry - 1 /\ (i - 1) + 1 = i /\ (i + 1) - 1 = i
    BY <1>1
  <2>2. Mails'[i] = mb.pool[Place(mb.out, i)]
    <3>1. Mails'[i] = mb.pool[Place(Place(mb.out, 1), i - 1)]
      BY <1>8
    <3>2. Place(Place(mb.out, 1), i - 1) = Place(mb.out, (i - 1) + 1)
      BY <1>3, <2>1
    <3> QED BY <2>1, <3>1, <3>2
  <2>3. Tail(Mails)[i] = Mails[i + 1]
    BY <1>10
  <2>4. Mails[i + 1] = mb.pool[Place(mb.out, (i + 1) - 1)]
    BY <1>7, <2>1
  <2> QED BY <2>1, <2>2, <2>3, <2>4
<1>12. Mails' = Tail(Mails)
  BY <1>8, <1>10, <1>11, SeqEqual
<1>13. mb.pool[mb.out] = Head(Mails)
  <2>1. Head(Mails) = Mails[1] /\ 1 \in 1 .. mb.entry
    BY <1>1, <1>7, <1>9
  <2>2. Mails[1] = mb.pool[Place(mb.out, 1 - 1)] /\ 1 - 1 = 0
    BY <1>7, <2>1
  <2> QED BY <1>3, <2>1, <2>2
<1> QED BY <1>6, <1>9, <1>12, <1>13

LEMMA RingEmptied ==
  ASSUME RingSound, mb' = [mb EXCEPT !.entry = 0, !.in = 0, !.out = 0]
  PROVE  RingSound' /\ Mails' = << >>
<1>1. /\ mb' \in Mailbox /\ mb'.entry = 0 /\ mb'.in = 0 /\ mb'.out = 0
  <2>1. 0 \in Ring /\ 0 \in 0 .. MbSize
    BY SizePositive DEF Ring
  <2> QED BY <2>1 DEF RingSound, Mailbox
<1>2. RingSound'
  <2>1. 0 = Place(0, 0)
    BY SizePositive DEF Place
  <2>2. 0 .. 0 - 1 = {}
    OBVIOUS
  <2> QED BY <1>1, <2>1, <2>2 DEF RingSound, Place
<1>3. (Mails \in Seq(Item) /\ Len(Mails) = mb.entry)'
  BY <1>2, MailsFacts, PTL
<1>4. Mails' \in Seq(Item) /\ Len(Mails') = 0
  BY <1>1, <1>3
<1>5. Mails' = << >>
  BY <1>4, EmptySeq
<1> QED BY <1>2, <1>5

LEMMA RingInit ==
  ASSUME MbInit
  PROVE  RingSound /\ Mails \in BoundedSeq(Item, MbSize)
<1>1. mb \in Mailbox /\ mb.entry = 0 /\ mb.in = 0 /\ mb.out = 0
  BY SizePositive DEF MbInit, EmptyMailbox, Mailbox, Ring
<1>2. RingSound
  <2>1. 0 = Place(0, 0)
    BY SizePositive DEF Place
  <2>2. 0 .. 0 - 1 = {}
    OBVIOUS
  <2> QED BY <1>1, <2>1, <2>2 DEF RingSound
<1>3. Mails \in Seq(Item) /\ Len(Mails) = 0
  BY <1>1, <1>2, MailsFacts
<1>4. Mails \in [1 .. 0 -> Item] /\ 0 \in 0 .. MbSize
  BY <1>3, LenProperties, SizePositive
<1> QED BY <1>2, <1>4 DEF BoundedSeq, SeqOf

(***************************************************************************)
(* The refinement.  What a step may do to the contents of a service, as    *)
(* Store says, s being the contents before and r those after it.           *)
(***************************************************************************)
StoreStep(s, r, cap) ==
  \/ r = s /\ last' = last /\ epoch' = epoch
  \/ s # << >> /\ last' = Head(s) /\ r = Tail(s) /\ epoch' = epoch
  \/ r = << >> /\ last' = last /\ epoch' = epoch + 1
  \/ /\ Len(s) # cap /\ last' = last /\ epoch' = epoch
     /\ \E x \in Item : r = Append(s, x) \/ r = Pushed(x, s)

LEMMA MbStore ==
  ASSUME RingSound, MbNext
  PROVE  RingSound' /\ StoreStep(Mails, Mails', MbSize)
<1>1. mb.entry \in 0 .. MbSize /\ Mails \in Seq(Item) /\ Len(Mails) = mb.entry
  BY MailsFacts DEF RingSound, Mailbox
<1>2. ASSUME mb' = mb, last' = last, epoch' = epoch
      PROVE  RingSound' /\ StoreStep(Mails, Mails', MbSize)
  BY <1>2 DEF RingSound, StoreStep, Mails, Place
<1>3. ASSUME NEW x \in Item, mb.entry < MbSize, mb' = Stored(x), last' = last, epoch' = epoch
      PROVE  RingSound' /\ StoreStep(Mails, Mails', MbSize)
  <2>1. RingSound' /\ Mails' = Append(Mails, x)
    BY <1>3, RingSent
  <2>2. Len(Mails) # MbSize
    BY <1>1, <1>3, SizePositive
  <2> QED BY <1>3, <2>1, <2>2 DEF StoreStep
<1>4. CASE (IpcStep \/ \E t \in Thread : WokenFails(t)) /\ UNCHANGED mb
  BY <1>2, <1>4, IpcStepSilent
<1>5. ASSUME NEW x \in Item, MbSendIsr(x)
      PROVE  RingSound' /\ StoreStep(Mails, Mails', MbSize)
  BY <1>3, <1>5 DEF MbSendIsr, Room, ivars
<1>6. ASSUME NEW t \in Thread, NEW x \in Item, NEW c, c.item = x, MbSend(t, c)
      PROVE  RingSound' /\ StoreStep(Mails, Mails', MbSize)
  BY <1>3, <1>6 DEF MbSend, Room
<1>7. ASSUME NEW t \in Thread, NEW c, MbSendWaits(t, c) \/ MbSendFails(t, c) \/ MbRecvWaits(t, c) \/ MbRecvFails(t, c)
      PROVE  RingSound' /\ StoreStep(Mails, Mails', MbSize)
  BY <1>2, <1>7 DEF MbSendWaits, MbSendFails, MbRecvWaits, MbRecvFails
<1>8. ASSUME NEW t \in Thread, NEW c, MbRecv(t, c)
      PROVE  RingSound' /\ StoreStep(Mails, Mails', MbSize)
  <2>1. /\ mb.entry > 0 /\ last' = mb.pool[mb.out] /\ epoch' = epoch
        /\ mb' = [mb EXCEPT !.out = After(mb.out), !.entry = mb.entry - 1]
    BY <1>8 DEF MbRecv
  <2>2. RingSound' /\ Mails # << >> /\ Mails' = Tail(Mails) /\ mb.pool[mb.out] = Head(Mails)
    BY <2>1, RingReceived
  <2> QED BY <2>1, <2>2 DEF StoreStep
<1>9. ASSUME NEW t \in Thread, MbReset(t)
      PROVE  RingSound' /\ StoreStep(Mails, Mails', MbSize)
  <2>1. /\ mb' = [mb EXCEPT !.entry = 0, !.in = 0, !.out = 0]
        /\ last' = last /\ epoch' = epoch + 1
    BY <1>9 DEF MbReset, ResetWaiters
  <2>2. RingSound' /\ Mails' = << >>
    BY <2>1, RingEmptied
  <2> QED BY <2>1, <2>2 DEF StoreStep
<1>10. \A x \in Item, tmo \in BOOLEAN : MbSendCall(x, tmo).item = x
  BY DEF MbSendCall
<1> QED BY <1>4, <1>5, <1>6, <1>7, <1>8, <1>9, <1>10 DEF MbNext

LEMMA MpStore ==
  ASSUME PoolSound, MpNext
  PROVE  StoreStep(mp.list, mp'.list, Cardinality(Item))
<1>1. ASSUME mp' = mp, last' = last, epoch' = epoch
      PROVE  StoreStep(mp.list, mp'.list, Cardinality(Item))
  BY <1>1 DEF StoreStep
<1>2. CASE (IpcStep \/ \E t \in Thread : WokenFails(t)) /\ UNCHANGED <<mp, holder>>
  BY <1>1, <1>2, IpcStepSilent
<1>3. ASSUME NEW b \in Item, holder[b] # {}, last' = last, epoch' = epoch,
             mp' = [list |-> <<b>> \o mp.list, count |-> mp.count + 1],
             holder' = [holder EXCEPT ![b] = {}]
      PROVE  StoreStep(mp.list, mp'.list, Cardinality(Item))
  <2>1. mp'.list = <<b>> \o mp.list /\ Len(mp.list) \in Nat /\ Len(mp.list) < Cardinality(Item)
    BY <1>3, PoolFree
  <2>2. Cardinality(Item) \in Nat
    BY MpAssumption, FS_CardinalityType DEF Blocks
  <2>3. Len(mp.list) # Cardinality(Item)
    BY <2>1, <2>2
  <2>4. mp'.list = Pushed(b, mp.list)
    BY <2>1 DEF Pushed
  <2> QED BY <1>3, <2>3, <2>4 DEF StoreStep
<1>4. ASSUME NEW b \in Blocks, MpFreeIsr(b) \/ \E t \in Thread : MpFree(t, b)
      PROVE  StoreStep(mp.list, mp'.list, Cardinality(Item))
  <2>1. /\ b \in Item /\ holder[b] # {} /\ last' = last /\ epoch' = epoch
        /\ mp' = [list |-> <<b>> \o mp.list, count |-> mp.count + 1]
        /\ holder' = [holder EXCEPT ![b] = {}]
    BY <1>4 DEF MpFreeIsr, MpFree, Blocks, ivars
  <2> QED BY <1>3, <2>1
<1>5. ASSUME NEW t \in Thread, NEW c, MpAlloc(t, c)
      PROVE  StoreStep(mp.list, mp'.list, Cardinality(Item))
  BY <1>5, PoolAlloc DEF StoreStep
<1>6. ASSUME NEW t \in Thread, NEW c, MpWaits(t, c) \/ MpFails(t, c)
      PROVE  StoreStep(mp.list, mp'.list, Cardinality(Item))
  BY <1>1, <1>6 DEF MpWaits, MpFails
<1> QED BY <1>2, <1>4, <1>5, <1>6 DEF MpNext

(* The messages, in the order of the queue.                                *)
LEMMA MessagesFacts ==
  ASSUME SlotSound
  PROVE  /\ Messages \in Seq(Item) /\ Len(Messages) = Len(mq.queue)
         /\ \A i \in 1 .. Len(mq.queue) : Messages[i] = mq.content[mq.queue[i]]
<1>1. mq.queue \in Seq(Slot) /\ Len(mq.queue) \in Nat /\ DOMAIN mq.queue = 1 .. Len(mq.queue)
  BY LenProperties DEF SlotSound, MqState
<1>2. \A i \in 1 .. Len(mq.queue) : mq.content[mq.queue[i]] \in Item
  BY <1>1 DEF SlotSound, Range
<1>3. Messages = [i \in 1 .. Len(mq.queue) |-> mq.content[mq.queue[i]]]
  BY <1>1 DEF Messages
<1>4. Messages \in [1 .. Len(mq.queue) -> Item]
  BY <1>2, <1>3
<1>5. Messages \in Seq(Item) /\ Len(Messages) = Len(mq.queue)
  BY <1>1, <1>4, SeqDef
<1> QED BY <1>3, <1>5

LEMMA MessagesSame ==
  ASSUME mq'.queue = mq.queue, mq'.content = mq.content
  PROVE  Messages' = Messages
BY DEF Messages

(* A slot linked at either end adds its message there.                     *)
LEMMA MessagesLinked ==
  ASSUME SlotSound, SlotSound', NEW s \in Slot, s \notin Range(mq.queue), NEW x \in Item, NEW op,
         mq'.queue = Linked(s, x, op).queue, mq'.content = Linked(s, x, op).content
  PROVE  /\ Messages' = Append(Messages, x) \/ Messages' = Pushed(x, Messages)
         /\ Len(Messages) # Cardinality(Slot)
<1> DEFINE q == mq.queue
           r == mq'.queue
<1>1. /\ mq \in MqState /\ q \in Seq(Slot) /\ IsInjective(q) /\ Len(q) \in Nat
      /\ DOMAIN q = 1 .. Len(q) /\ mq.content \in [Slot -> Message]
      /\ \A i \in 1 .. Len(q) : q[i] \in Slot
  BY LenProperties, ElementOfSeq DEF SlotSound, MqState, Placed, Line
<1>2. /\ r = IF op = "urgent" THEN Pushed(s, q) ELSE Append(q, s)
      /\ mq'.content = [mq.content EXCEPT ![s] = x]
  BY <1>1 DEF Linked, MqState, Pushed
<1>3. /\ Messages \in Seq(Item) /\ Len(Messages) = Len(q)
      /\ \A i \in 1 .. Len(q) : Messages[i] = mq.content[q[i]]
  BY MessagesFacts
<1>4. /\ Messages' \in Seq(Item) /\ Len(Messages') = Len(r)
      /\ \A i \in 1 .. Len(r) : Messages'[i] = mq'.content[r[i]]
  <2>1. SlotSound'
    OBVIOUS
  <2>2. (/\ Messages \in Seq(Item) /\ Len(Messages) = Len(mq.queue)
         /\ \A i \in 1 .. Len(mq.queue) : Messages[i] = mq.content[mq.queue[i]])'
    BY <2>1, MessagesFacts, PTL
  <2> QED BY <2>2
<1>5. \A i \in 1 .. Len(q) : mq'.content[q[i]] = mq.content[q[i]]
  <2>1. \A i \in 1 .. Len(q) : q[i] # s
    BY <1>1 DEF Range
  <2> QED BY <1>1, <1>2, <2>1
<1>6. mq'.content[s] = x
  BY <1>1, <1>2
<1> HIDE DEF q, r
<1>7. ASSUME op = "urgent"
      PROVE  Messages' = Pushed(x, Messages)
  <2>1. /\ Len(r) = 1 + Len(q)
        /\ \A i \in 1 .. 1 + Len(q) : r[i] = IF i <= 1 THEN s ELSE q[i - 1]
    <3>1. r = <<s>> \o q /\ <<s>> \in Seq(Slot) /\ Len(<<s>>) = 1 /\ <<s>>[1] = s
      BY <1>2, <1>7 DEF Pushed
    <3>2. /\ Len(<<s>> \o q) = 1 + Len(q)
          /\ \A i \in 1 .. 1 + Len(q) : (<<s>> \o q)[i] = IF i <= 1 THEN <<s>>[i] ELSE q[i - 1]
      BY <1>1, <3>1, ConcatProperties
    <3> QED BY <1>1, <3>1, <3>2
  <2> DEFINE m == Pushed(x, Messages)
  <2>2. /\ m \in Seq(Item) /\ Len(m) = 1 + Len(q)
        /\ \A i \in 1 .. 1 + Len(q) : m[i] = IF i <= 1 THEN x ELSE Messages[i - 1]
    <3>1. m = <<x>> \o Messages /\ <<x>> \in Seq(Item) /\ Len(<<x>>) = 1 /\ <<x>>[1] = x
      BY DEF Pushed
    <3>2. /\ <<x>> \o Messages \in Seq(Item) /\ Len(<<x>> \o Messages) = 1 + Len(Messages)
          /\ \A i \in 1 .. 1 + Len(Messages) : (<<x>> \o Messages)[i] = IF i <= 1 THEN <<x>>[i] ELSE Messages[i - 1]
      BY <1>3, <3>1, ConcatProperties
    <3> QED BY <1>1, <1>3, <3>1, <3>2
  <2> HIDE DEF m
  <2>3. ASSUME NEW i \in 1 .. 1 + Len(q)
        PROVE  Messages'[i] = m[i]
    <3>1. CASE i <= 1
      BY <1>4, <1>6, <2>1, <2>2, <3>1
    <3>2. CASE ~ (i <= 1)
      <4>1. i - 1 \in 1 .. Len(q)
        BY <1>1, <3>2
      <4>2. Messages'[i] = mq'.content[q[i - 1]]
        BY <1>4, <2>1, <3>2
      <4>3. m[i] = mq.content[q[i - 1]]
        BY <1>3, <2>2, <3>2, <4>1
      <4> QED BY <1>5, <4>1, <4>2, <4>3
    <3> QED BY <3>1, <3>2
  <2>4. Messages' = m
    BY <1>4, <2>1, <2>2, <2>3, SeqEqual
  <2> QED BY <2>4 DEF m
<1>8. ASSUME op # "urgent"
      PROVE  Messages' = Append(Messages, x)
  <2>1. /\ Len(r) = Len(q) + 1 /\ r[Len(q) + 1] = s
        /\ \A i \in 1 .. Len(q) : r[i] = q[i]
    <3>1. r = Append(q, s)
      BY <1>2, <1>8
    <3> QED BY <1>1, <3>1, AppendProperties
  <2> DEFINE m == Append(Messages, x)
  <2>2. /\ m \in Seq(Item) /\ Len(m) = Len(q) + 1 /\ m[Len(q) + 1] = x
        /\ \A i \in 1 .. Len(q) : m[i] = Messages[i]
    BY <1>3, AppendProperties
  <2> HIDE DEF m
  <2>3. ASSUME NEW i \in 1 .. Len(q) + 1
        PROVE  Messages'[i] = m[i]
    <3>1. CASE i = Len(q) + 1
      BY <1>4, <1>6, <2>1, <2>2, <3>1
    <3>2. CASE i # Len(q) + 1
      <4>1. i \in 1 .. Len(q)
        BY <1>1, <3>2
      <4>2. Messages'[i] = mq'.content[q[i]]
        BY <1>4, <2>1, <4>1
      <4>3. m[i] = mq.content[q[i]]
        BY <1>3, <2>2, <4>1
      <4> QED BY <1>5, <4>1, <4>2, <4>3
    <3> QED BY <3>1, <3>2
  <2>4. Messages' = m
    BY <1>4, <2>1, <2>2, <2>3, SeqEqual
  <2> QED BY <2>4 DEF m
<1>9. Len(Messages) # Cardinality(Slot)
  <2>1. s \notin Range(q) /\ IsFiniteSet(Slot)
    BY MqAssumption DEF q
  <2>2. Len(q) \in Nat /\ Len(q) < Cardinality(Slot)
    BY <1>1, <2>1, RoomLeft
  <2>3. Cardinality(Slot) \in Nat
    BY <2>1, FS_CardinalityType
  <2> QED BY <1>3, <2>2, <2>3
<1> QED BY <1>7, <1>8, <1>9

LEMMA MessagesReceived ==
  ASSUME SlotSound, SlotSound', mq.queue # << >>, mq'.queue = Tail(mq.queue), mq'.content = mq.content
  PROVE  /\ Messages # << >> /\ Messages' = Tail(Messages)
         /\ Head(Messages) = mq.content[Head(mq.queue)]
<1> DEFINE q == mq.queue
           r == mq'.queue
<1>1. q \in Seq(Slot) /\ Len(q) \in Nat \ {0}
  BY EmptySeq DEF SlotSound, MqState
<1>2. /\ Len(r) = Len(q) - 1 /\ \A i \in 1 .. Len(q) - 1 : r[i] = q[i + 1]
  <2>1. Len(Tail(q)) = Len(q) - 1 /\ \A i \in 1 .. Len(Tail(q)) : Tail(q)[i] = q[i + 1]
    BY <1>1, HeadTailProperties
  <2> QED BY <2>1
<1>3. /\ Messages \in Seq(Item) /\ Len(Messages) = Len(q)
      /\ \A i \in 1 .. Len(q) : Messages[i] = mq.content[q[i]]
  BY MessagesFacts
<1>4. /\ Messages' \in Seq(Item) /\ Len(Messages') = Len(r)
      /\ \A i \in 1 .. Len(r) : Messages'[i] = mq'.content[r[i]]
  <2>1. SlotSound'
    OBVIOUS
  <2>2. (/\ Messages \in Seq(Item) /\ Len(Messages) = Len(mq.queue)
         /\ \A i \in 1 .. Len(mq.queue) : Messages[i] = mq.content[mq.queue[i]])'
    BY <2>1, MessagesFacts, PTL
  <2> QED BY <2>2
<1>5. Head(q) = q[1]
  BY <1>1
<1> HIDE DEF q, r
<1>6. Messages # << >>
  <2>1. Len(<< >>) = 0
    BY EmptySeq
  <2> QED BY <1>1, <1>3, <2>1
<1> DEFINE m == Tail(Messages)
<1>7. /\ m \in Seq(Item) /\ Len(m) = Len(q) - 1
      /\ \A i \in 1 .. Len(q) - 1 : m[i] = Messages[i + 1]
  BY <1>3, <1>6, HeadTailProperties
<1> HIDE DEF m
<1>8. ASSUME NEW i \in 1 .. Len(q) - 1
      PROVE  Messages'[i] = m[i]
  <2>1. i + 1 \in 1 .. Len(q)
    BY <1>1
  <2>2. Messages'[i] = mq.content[q[i + 1]]
    BY <1>2, <1>4
  <2>3. m[i] = mq.content[q[i + 1]]
    BY <1>3, <1>7, <2>1
  <2> QED BY <2>2, <2>3
<1>9. Messages' = m
  BY <1>2, <1>4, <1>7, <1>8, SeqEqual
<1>10. Head(Messages) = mq.content[Head(q)]
  <2>1. Head(Messages) = Messages[1] /\ 1 \in 1 .. Len(q)
    BY <1>1, <1>3, <1>6
  <2> QED BY <1>3, <1>5, <2>1
<1> QED BY <1>6, <1>9, <1>10 DEF m, q

(* What a step of a message queue does to the messages.                    *)
LEMMA MqStore ==
  ASSUME SlotSound, MqNext
  PROVE  StoreStep(Messages, Messages', Cardinality(Slot))
<1>1. ASSUME mq'.queue = mq.queue, mq'.content = mq.content, last' = last, epoch' = epoch
      PROVE  StoreStep(Messages, Messages', Cardinality(Slot))
  BY <1>1, MessagesSame DEF StoreStep
<1>2. ASSUME NEW s \in Slot, s \notin Range(mq.queue), NEW x \in Item, NEW op, last' = last, epoch' = epoch,
             SlotSound', mq'.queue = Linked(s, x, op).queue, mq'.content = Linked(s, x, op).content
      PROVE  StoreStep(Messages, Messages', Cardinality(Slot))
  BY <1>2, MessagesLinked DEF StoreStep
<1>3. ASSUME NEW t \in Thread, NEW c \in Call, at[t] \notin Copying, c.item \in Item, Allocates(t, c)
      PROVE  StoreStep(Messages, Messages', Cardinality(Slot))
  <2>1. mq'.queue = mq.queue /\ mq'.content = mq.content
    BY <1>3, SlotAllocated
  <2>2. last' = last /\ epoch' = epoch
    BY <1>3 DEF Allocates
  <2> QED BY <1>1, <2>1, <2>2
<1>4. ASSUME NEW t \in Thread, MqLink(t)
      PROVE  StoreStep(Messages, Messages', Cardinality(Slot))
  <2>1. SlotSound'
    BY <1>4, SlotLinked
  <2>2. PICK s \in own[t] : mq' = Linked(s, call[t].item, call[t].op)
    BY <1>4, SlotLinked
  <2>3. s \in Slot /\ s \notin Range(mq.queue)
    BY DEF SlotSound, Placed
  <2>4. call[t].item \in Item /\ last' = last /\ epoch' = epoch
    BY <1>4 DEF MqLink, At, SlotSound, CallSound
  <2> QED BY <1>2, <2>1, <2>2, <2>3, <2>4
<1>5. ASSUME NEW x \in Item, NEW op, MqSendIsr(x, op)
      PROVE  StoreStep(Messages, Messages', Cardinality(Slot))
  <2>1. /\ SlotSound' /\ Head(mq.free) \in Slot /\ Head(mq.free) \notin Range(mq.queue)
        /\ mq'.queue = Linked(Head(mq.free), x, op).queue
        /\ mq'.content = Linked(Head(mq.free), x, op).content
    BY <1>5, SlotSentIsr
  <2>2. last' = last /\ epoch' = epoch
    BY <1>5 DEF MqSendIsr
  <2> QED BY <1>2, <2>1, <2>2
<1>6. ASSUME NEW t \in Thread, NEW c \in Call, MqRecv(t, c)
      PROVE  StoreStep(Messages, Messages', Cardinality(Slot))
  <2>1. /\ SlotSound' /\ mq.queue # << >>
        /\ mq'.queue = Tail(mq.queue) /\ mq'.content = mq.content
        /\ last' = mq.content[Head(mq.queue)] /\ epoch' = epoch
    BY <1>6, SlotReceived
  <2>2. Messages # << >> /\ Messages' = Tail(Messages) /\ Head(Messages) = mq.content[Head(mq.queue)]
    BY <2>1, MessagesReceived
  <2> QED BY <2>1, <2>2 DEF StoreStep
<1>7. ASSUME NEW t \in Thread, MqFree(t)
      PROVE  StoreStep(Messages, Messages', Cardinality(Slot))
  <2>1. mq'.queue = mq.queue /\ mq'.content = mq.content
    BY <1>7, SlotFreed
  <2>2. last' = last /\ epoch' = epoch
    BY <1>7 DEF MqFree
  <2> QED BY <1>1, <2>1, <2>2
<1>8. ASSUME NEW t \in Thread, MqReset(t)
      PROVE  StoreStep(Messages, Messages', Cardinality(Slot))
  <2>1. mq'.queue = << >>
    BY <1>8, SlotReset
  <2>2. last' = last /\ epoch' = epoch + 1
    BY <1>8 DEF MqReset, ResetWaiters
  <2>3. Messages' = << >>
    BY <2>1, EmptySeq DEF Messages
  <2> QED BY <2>2, <2>3 DEF StoreStep
<1>9. CASE Quiet
  BY <1>1, <1>9 DEF Quiet
<1> QED
  BY <1>3, <1>4, <1>5, <1>6, <1>7, <1>8, <1>9, MqSteps
  DEF Allocating, Linking, Sending, Receiving, Freeing, Resetting

LEMMA RingKept ==
  ASSUME RingSound, [CNext]_cvars
  PROVE  RingSound'
<1>1. CASE UNCHANGED mb
  BY <1>1 DEF RingSound, Place
<1>2. CASE MbNext
  BY <1>2, MbStore
<1> QED BY <1>1, <1>2 DEF CNext, cvars, objects

(***************************************************************************)
(* The services that keep their items in a list or a ring.                 *)
(***************************************************************************)
Stores == {"mb", "mq", "mp"}

StoreSound == kind \in Stores /\ RingSound /\ SlotSound /\ PoolSound

LEMMA ContentsAre ==
  /\ kind = "mb" => Contents = Mails /\ Limit = MbSize
  /\ kind = "mq" => Contents = Messages /\ Limit = Cardinality(Slot)
  /\ kind = "mp" => Contents = mp.list /\ Limit = Cardinality(Item)
BY DEF Contents, Limit, Blocks

LEMMA BoundedFacts ==
  ASSUME NEW n \in Nat, NEW s \in Seq(Item), Len(s) <= n
  PROVE  s \in BoundedSeq(Item, n)
<1>1. s \in [1 .. Len(s) -> Item] /\ Len(s) \in 0 .. n
  BY LenProperties
<1> QED BY <1>1 DEF BoundedSeq, SeqOf

LEMMA EmptyBounded ==
  ASSUME NEW n \in Nat
  PROVE  << >> \in BoundedSeq(Item, n)
<1>1. << >> \in Seq(Item) /\ Len(<< >>) = 0
  BY EmptySeq
<1>2. Len(<< >>) <= n
  BY <1>1
<1> QED BY <1>1, <1>2, BoundedFacts

LEMMA BoundedAlike == \A n : Abstract!BoundedSeq(Item, n) = BoundedSeq(Item, n)
BY DEF Abstract!BoundedSeq, Abstract!SeqOf, BoundedSeq, SeqOf

LEMMA LimitIsNat ==
  ASSUME kind \in Stores
  PROVE  Limit \in Nat
<1>1. MbSize \in Nat /\ Cardinality(Slot) \in Nat /\ Cardinality(Item) \in Nat
  BY SizePositive, MqAssumption, MpAssumption, FS_CardinalityType DEF Blocks
<1> QED BY <1>1, ContentsAre DEF Stores

LEMMA StoreInit ==
  ASSUME CInit, kind \in Stores
  PROVE  StoreSound /\ Abstract!Init
<1>1. StoreSound
  BY RingInit, SlotInit, PoolInit DEF CInit, StoreSound
<1>2. last = NoItem /\ epoch = 0
  BY DEF CInit, IpcInit
<1>3. Contents \in BoundedSeq(Item, Limit)
  <2>1. CASE kind = "mb"
    <3>1. Mails \in BoundedSeq(Item, MbSize)
      BY RingInit DEF CInit
    <3> QED BY <2>1, <3>1, ContentsAre
  <2>2. CASE kind = "mq"
    <3>1. mq.queue = << >>
      BY DEF CInit, MqInit
    <3>2. Messages = << >>
      BY <3>1, EmptySeq DEF Messages
    <3>3. << >> \in BoundedSeq(Item, Limit)
      BY LimitIsNat, EmptyBounded
    <3> QED BY <2>2, <3>2, <3>3, ContentsAre
  <2>3. CASE kind = "mp"
    <3> DEFINE r == SetToSeq(Item)
    <3>1. mp.list = r
      BY DEF CInit, MpInit, Blocks
    <3>2. r \in Seq(Item) /\ Len(r) = Cardinality(Item)
      BY MpAssumption, LaidOutFacts DEF Blocks
    <3> HIDE DEF r
    <3>3. Limit = Cardinality(Item) /\ Limit \in Nat /\ Contents = r
      BY <2>3, <3>1, ContentsAre, LimitIsNat
    <3> QED BY <3>2, <3>3, BoundedFacts
  <2> QED BY <2>1, <2>2, <2>3 DEF Stores
<1>4. Limit \in Nat
  BY LimitIsNat
<1> QED BY <1>1, <1>2, <1>3, <1>4, BoundedAlike DEF Abstract!Init

LEMMA StoreNext ==
  ASSUME StoreSound, [CNext]_cvars
  PROVE  StoreSound' /\ [Abstract!Next]_(Abstract!vars)
<1>1. StoreSound'
  <2>1. kind' = kind
    BY DEF CNext, cvars
  <2> QED BY <2>1, RingKept, SlotKept, PoolKept DEF StoreSound
<1>2. Limit' = Limit
  <2>1. kind' = kind
    BY DEF CNext, cvars
  <2> QED BY <2>1 DEF Limit, Blocks
<1>3. StoreStep(Contents, Contents', Limit)
  <2>1. CASE UNCHANGED cvars
    <3>1. Mails' = Mails /\ Messages' = Messages /\ mp'.list = mp.list
      BY <2>1 DEF cvars, objects, Mails, Messages
    <3>2. kind' = kind /\ last' = last /\ epoch' = epoch
      BY <2>1 DEF cvars
    <3>3. kind \in Stores
      BY DEF StoreSound
    <3>4. Contents' = Contents
      BY <3>1, <3>2, <3>3 DEF Contents, Stores
    <3> QED BY <3>2, <3>4 DEF StoreStep
  <2>2. CASE CNext
    <3>1. kind' = kind
      BY <2>2 DEF CNext
    <3>2. CASE kind = "mb"
      <4>1. MbNext
        BY <2>2, <3>2 DEF CNext
      <4>2. StoreStep(Mails, Mails', MbSize)
        BY <4>1, MbStore DEF StoreSound
      <4>3. Contents = Mails /\ Contents' = Mails' /\ Limit = MbSize
        BY <3>1, <3>2 DEF Contents, Limit
      <4> QED BY <4>2, <4>3
    <3>3. CASE kind = "mq"
      <4>1. MqNext
        BY <2>2, <3>3 DEF CNext
      <4>2. StoreStep(Messages, Messages', Cardinality(Slot))
        BY <4>1, MqStore DEF StoreSound
      <4>3. Contents = Messages /\ Contents' = Messages' /\ Limit = Cardinality(Slot)
        BY <3>1, <3>3 DEF Contents, Limit
      <4> QED BY <4>2, <4>3
    <3>4. CASE kind = "mp"
      <4>1. MpNext
        BY <2>2, <3>4 DEF CNext
      <4>2. StoreStep(mp.list, mp'.list, Cardinality(Item))
        BY <4>1, MpStore DEF StoreSound
      <4>3. Contents = mp.list /\ Contents' = mp'.list /\ Limit = Cardinality(Item)
        BY <3>1, <3>4 DEF Contents, Limit, Blocks
      <4> QED BY <4>2, <4>3
    <3> QED BY <3>2, <3>3, <3>4 DEF StoreSound, Stores
  <2> QED BY <2>1, <2>2
<1>4. << >> \in BoundedSeq(Item, Limit)
  BY LimitIsNat, EmptyBounded DEF StoreSound
<1>5. [Abstract!Next]_(Abstract!vars)
  <2>1. CASE Contents' = Contents /\ last' = last /\ epoch' = epoch
    BY <1>2, <2>1 DEF Abstract!vars
  <2>2. CASE Contents # << >> /\ last' = Head(Contents) /\ Contents' = Tail(Contents) /\ epoch' = epoch
    BY <1>2, <2>2 DEF Abstract!Next, Abstract!Get
  <2>3. CASE Contents' = << >> /\ last' = last /\ epoch' = epoch + 1
    <3>1. Contents' \in Abstract!BoundedSeq(Item, Limit)
      BY <1>4, <2>3, BoundedAlike
    <3> QED BY <1>2, <2>3, <3>1 DEF Abstract!Next, Abstract!Reset
  <2>4. ASSUME Len(Contents) # Limit, last' = last, epoch' = epoch, NEW x \in Item,
               Contents' = Append(Contents, x) \/ Contents' = Pushed(x, Contents)
        PROVE  Abstract!Next
    <3>1. ~ Abstract!Full /\ UNCHANGED <<last, epoch, Limit>>
      BY <1>2, <2>4 DEF Abstract!Full
    <3>2. Abstract!Put(x) \/ Abstract!PutFirst(x)
      BY <2>4, <3>1 DEF Abstract!Put, Abstract!PutFirst, Pushed
    <3> QED BY <3>2 DEF Abstract!Next
  <2> QED BY <1>3, <2>1, <2>2, <2>3, <2>4 DEF StoreStep
<1> QED BY <1>1, <1>5

(* A mailbox, a message queue and a memory pool are the store of Store,    *)
(* whatever threads, handlers, timeouts, resets and deletions do, and of   *)
(* whatever size: what rt_mb_recv, rt_mq_recv and rt_mp_alloc return was   *)
(* put in once, comes out once, and in order.                              *)
THEOREM ServicesAreStores ==
  ASSUME Kinds \subseteq Stores
  PROVE  CSpec => IsStore
<1>1. CInit => StoreSound /\ Abstract!Init
  BY StoreInit DEF CInit
<1>2. StoreSound /\ [CNext]_cvars => StoreSound' /\ [Abstract!Next]_(Abstract!vars)
  BY StoreNext
<1> QED BY <1>1, <1>2, PTL DEF CSpec, IsStore, Abstract!Spec
=============================================================================
