----------------------------- MODULE FoldSteps ------------------------------
(***************************************************************************)
(* What FoldLeft does, one element after the other, for any operator Op:   *)
(* the loops of the kernel over a list that must stay in one locked region *)
(* are folds, and so are the places of blocks.  A module that proves       *)
(* something about such a loop takes these facts with INSTANCE FoldSteps   *)
(* WITH Op <- its body.                                                    *)
(***************************************************************************)
EXTENDS Naturals, FiniteSets, SequencesExt, FiniteSetTheorems, SequenceTheorems, TLAPS

CONSTANT Op(_, _)

Folded(base, s) == FoldLeft(Op, base, s)

(* The values f[0], ..., f[n] the fold of the n elements of s runs through.*)
InSteps(f, base, s, n) ==
  f[0] = base /\ \A i \in 1 .. n : f[i] = Op(f[i - 1], s[i])

(* Induction over the numbers, of a set: if n were missing, the numbers    *)
(* missing up to n would be a finite set that m |-> m - 1 maps into itself *)
(* one to one, hence onto itself, but nothing is mapped to n.              *)
LEMMA SetInduction ==
  ASSUME NEW S, 0 \in S, \A n \in Nat : n \in S => n + 1 \in S
  PROVE  Nat \subseteq S
<1> SUFFICES ASSUME NEW n \in Nat, n \notin S PROVE FALSE
  OBVIOUS
<1> DEFINE T == {m \in 0 .. n : m \notin S}
           f == [m \in T |-> m - 1]
<1>1. ASSUME NEW m \in T
      PROVE  m - 1 \in T /\ m \in Nat
  <2>1. m \in Nat /\ m # 0 /\ m \notin S /\ m <= n
    OBVIOUS
  <2>2. m - 1 \in Nat /\ (m - 1) + 1 = m
    BY <2>1
  <2> QED BY <2>1, <2>2
<1>2. n \in T
  OBVIOUS
<1>3. IsFiniteSet(T)
  <2>1. IsFiniteSet(0 .. n)
    BY FS_Interval
  <2> QED BY <2>1, FS_Subset
<1>4. f \in [T -> T]
  BY <1>1
<1>5. f \in Injection(T, T)
  <2>1. \A x, y \in T : f[x] = f[y] => x = y
    BY <1>1
  <2> QED BY <1>4, <2>1 DEF Injection, IsInjective
<1>6. f \in Surjection(T, T)
  BY <1>3, <1>5, FS_Injection
<1>7. PICK m \in T : f[m] = n
  BY <1>2, <1>6 DEF Surjection
<1> QED BY <1>7

(* A fold over n elements is the last of n + 1 values, of which the first  *)
(* is base and each other comes from the one before it by Op.              *)
LEMMA FoldsInSteps ==
  ASSUME NEW base, NEW s, NEW n \in Nat, DOMAIN s = 1 .. n
  PROVE  \E f : InSteps(f, base, s, n) /\ Folded(base, s) = f[n]
<1> DEFINE Largest(T) == CHOOSE x \in T : \A y \in T : x >= y
           Iter(g, D) == g = [T \in SUBSET D |-> IF T = {} THEN base
                                              ELSE Op(g[T \ {Largest(T)}], s[Largest(T)])]
           M == {m \in Nat : \E g : Iter(g, 1 .. m)}
           it == CHOOSE g : Iter(g, 1 .. n)
           f == [i \in 0 .. n |-> it[1 .. i]]
<1>1. Folded(base, s) = it[1 .. n]
  BY DEF Folded, FoldLeft, MapThenFoldSet, Max
<1>2. \A m \in Nat : Largest(1 .. m + 1) = m + 1
  OBVIOUS
<1>3. 0 \in M
  <2>1. SUBSET (1 .. 0) = {{}}
    OBVIOUS
  <2> DEFINE g == [T \in SUBSET (1 .. 0) |-> base]
  <2>2. Iter(g, 1 .. 0)
    BY <2>1
  <2> QED BY <2>2
<1>4. ASSUME NEW m \in Nat, m \in M
      PROVE  m + 1 \in M
  <2>1. PICK g : Iter(g, 1 .. m)
    BY <1>4
  <2> DEFINE h == [T \in SUBSET (1 .. m + 1) |-> IF m + 1 \in T THEN Op(g[T \ {m + 1}], s[m + 1]) ELSE g[T]]
  <2>2. ASSUME NEW T \in SUBSET (1 .. m + 1)
        PROVE  h[T] = IF T = {} THEN base ELSE Op(h[T \ {Largest(T)}], s[Largest(T)])
    <3>1. CASE m + 1 \in T
      <4>1. Largest(T) = m + 1
        <5>1. \A y \in T : y \in Nat /\ m + 1 >= y
          OBVIOUS
        <5>2. \A x \in T : (\A y \in T : x >= y) => x = m + 1
          BY <3>1, <5>1
        <5> QED BY <3>1, <5>1, <5>2
      <4>2. T \ {m + 1} \in SUBSET (1 .. m + 1) /\ m + 1 \notin T \ {m + 1}
        OBVIOUS
      <4>3. h[T \ {m + 1}] = g[T \ {m + 1}]
        BY <4>2
      <4> HIDE DEF Largest
      <4> QED BY <3>1, <4>1, <4>3
    <3>2. CASE m + 1 \notin T
      <4>1. T \in SUBSET (1 .. m)
        BY <3>2
      <4>2. g[T] = IF T = {} THEN base ELSE Op(g[T \ {Largest(T)}], s[Largest(T)])
        <5> HIDE DEF Largest
        <5> QED BY <2>1, <4>1
      <4> HIDE DEF Largest
      <4> QED BY <3>2, <4>2
    <3> QED BY <3>1, <3>2
  <2> HIDE DEF Largest
  <2>3. Iter(h, 1 .. m + 1)
    <3> DEFINE r == [T \in SUBSET (1 .. m + 1) |-> IF T = {} THEN base ELSE Op(h[T \ {Largest(T)}], s[Largest(T)])]
    <3>1. DOMAIN h = SUBSET (1 .. m + 1) /\ h = [T \in SUBSET (1 .. m + 1) |-> h[T]]
      OBVIOUS
    <3> HIDE DEF h
    <3>2. h = r
      BY <2>2, <3>1
    <3> QED BY <3>2
  <2> HIDE DEF h, Iter
  <2> QED BY <2>3
<1> HIDE DEF Iter
<1>5. Iter(it, 1 .. n)
  <2>1. n \in M
    BY <1>3, <1>4, SetInduction
  <2> QED BY <2>1
<1> HIDE DEF it, M, Largest
<1>6. \A i \in 1 .. n : it[1 .. i] = Op(it[1 .. i - 1], s[i])
  <2> SUFFICES ASSUME NEW i \in 1 .. n
               PROVE  it[1 .. i] = Op(it[1 .. i - 1], s[i])
    OBVIOUS
  <2>1. 1 .. i \in SUBSET (1 .. n) /\ 1 .. i # {} /\ (1 .. i) \ {i} = 1 .. i - 1
    <3>1. 1 .. i \in SUBSET (1 .. n) /\ i \in 1 .. i
      OBVIOUS
    <3>2. (1 .. i) \ {i} = 1 .. i - 1
      OBVIOUS
    <3> QED BY <3>1, <3>2
  <2>2. Largest(1 .. i) = i
    <3>1. i - 1 \in Nat /\ (i - 1) + 1 = i
      OBVIOUS
    <3> QED BY <1>2, <3>1
  <2> QED BY <1>5, <2>1, <2>2 DEF Iter
<1>7. it[1 .. 0] = base
  <2>1. 1 .. 0 \in SUBSET (1 .. n) /\ 1 .. 0 = {}
    OBVIOUS
  <2> QED BY <1>5, <2>1 DEF Iter
<1>8. InSteps(f, base, s, n) /\ Folded(base, s) = f[n]
  BY <1>1, <1>6, <1>7 DEF InSteps
<1> HIDE DEF f
<1> QED BY <1>8
(* Two rows of values over the same elements are the same.                 *)
LEMMA SameSteps ==
  ASSUME NEW base, NEW s, NEW r, NEW n \in Nat, NEW f, NEW g,
         \A i \in 1 .. n : s[i] = r[i], InSteps(f, base, s, n), InSteps(g, base, r, n)
  PROVE  \A i \in 0 .. n : f[i] = g[i]
<1> DEFINE Same == {i \in Nat : i <= n => f[i] = g[i]}
<1>1. 0 \in Same
  BY DEF InSteps
<1>2. ASSUME NEW i \in Nat, i \in Same
      PROVE  i + 1 \in Same
  <2> SUFFICES ASSUME i + 1 <= n PROVE f[i + 1] = g[i + 1]
    OBVIOUS
  <2>1. f[i] = g[i] /\ i + 1 \in 1 .. n /\ (i + 1) - 1 = i
    BY <1>2
  <2>2. f[i + 1] = Op(f[i], s[i + 1]) /\ g[i + 1] = Op(g[i], r[i + 1]) /\ s[i + 1] = r[i + 1]
    BY <2>1 DEF InSteps
  <2> QED BY <2>1, <2>2
<1>3. Nat \subseteq Same
  <2> HIDE DEF Same
  <2> QED BY <1>1, <1>2, SetInduction
<1> QED BY <1>3

(* A fold over no element, and over one element more.                      *)
LEMMA FoldOfNone ==
  ASSUME NEW base, NEW s, DOMAIN s = 1 .. 0
  PROVE  Folded(base, s) = base
<1>1. PICK f : InSteps(f, base, s, 0) /\ Folded(base, s) = f[0]
  BY FoldsInSteps
<1> QED BY <1>1 DEF InSteps

LEMMA FoldOfOneMore ==
  ASSUME NEW base, NEW s, NEW r, NEW n \in Nat, DOMAIN s = 1 .. n, DOMAIN r = 1 .. n + 1,
         \A i \in 1 .. n : r[i] = s[i]
  PROVE  Folded(base, r) = Op(Folded(base, s), r[n + 1])
<1>1. PICK f : InSteps(f, base, s, n) /\ Folded(base, s) = f[n]
  BY FoldsInSteps
<1>2. PICK g : InSteps(g, base, r, n + 1) /\ Folded(base, r) = g[n + 1]
  <2>1. n + 1 \in Nat
    OBVIOUS
  <2> QED BY <2>1, FoldsInSteps
<1>3. InSteps(g, base, r, n) /\ g[n + 1] = Op(g[n], r[n + 1])
  <2>1. n + 1 \in 1 .. n + 1 /\ (n + 1) - 1 = n /\ 1 .. n \subseteq 1 .. n + 1
    OBVIOUS
  <2> QED BY <1>2, <2>1 DEF InSteps
<1>4. f[n] = g[n]
  <2>1. \A i \in 1 .. n : s[i] = r[i]
    OBVIOUS
  <2>2. \A i \in 0 .. n : f[i] = g[i]
    <3>1. InSteps(f, base, s, n)
      BY <1>1
    <3>2. InSteps(g, base, r, n)
      BY <1>3
    <3> HIDE DEF InSteps
    <3> QED BY <2>1, <3>1, <3>2, SameSteps
  <2> QED BY <2>2
<1> QED BY <1>1, <1>2, <1>3, <1>4
=============================================================================
