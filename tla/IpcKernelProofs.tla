-------------------------- MODULE IpcKernelProofs ---------------------------
(***************************************************************************)
(* The services over the kernel, for any finite set of threads, any        *)
(* priorities and both ways of queueing: whatever the threads, handlers,   *)
(* timeouts, resets and deletions do, the lists of the kernel stay exact,  *)
(* and nobody waits for something that is there.                           *)
(***************************************************************************)
EXTENDS IpcProofs, KernelProofs

(***************************************************************************)
(* rt_ipc_list_resume_all lets every thread of a list go, with an error.   *)
(***************************************************************************)
Fail == INSTANCE FoldSteps WITH Op <- Failing

LEMMA ResumeAllSteps ==
  ASSUME NEW q, NEW l, NEW n \in Nat, DOMAIN q.wl[l] = 1 .. n
  PROVE  \E f : /\ f[0] = q /\ ResumeAll(q, l) = f[n]
                /\ \A i \in 1 .. n : f[i] = Failing(f[i - 1], q.wl[l][i])
<1> DEFINE s == q.wl[l]
<1>1. ResumeAll(q, l) = Fail!Folded(q, s)
  BY DEF ResumeAll, Fail!Folded, FoldLeft, Fail!FoldLeft, MapThenFoldSet, Fail!MapThenFoldSet, Max, Fail!Max
<1> HIDE DEF s
<1>2. PICK f : Fail!InSteps(f, q, s, n) /\ Fail!Folded(q, s) = f[n]
  <2>1. DOMAIN s = 1 .. n
    BY DEF s
  <2> QED BY <2>1, Fail!FoldsInSteps
<1>3. /\ f[0] = q /\ ResumeAll(q, l) = f[n]
      /\ \A i \in 1 .. n : f[i] = Failing(f[i - 1], q.wl[l][i])
  BY <1>1, <1>2 DEF Fail!InSteps, s
<1> QED BY <1>3

(* After i of them.                                                        *)
FirstOf(s, i) == {s[j] : j \in 1 .. i}

LetGoSoFar(r, q, D) ==
  Releases(r, q, D) /\ SameTurn(r, q) /\ \A x \in D : r.err[x] = "ERROR"

LEMMA ResumeAllReleases ==
  ASSUME NEW q, Wf(q, Thread), OneRuns(q), NEW l \in WaitList, NEW r, r = ResumeAll(q, l)
  PROVE  LetGoSoFar(r, q, Range(q.wl[l])) /\ r.wl[l] = << >> /\ Range(q.wl[l]) \subseteq Thread
<1> DEFINE s == q.wl[l]
<1>1. /\ s \in Seq(Thread) /\ IsInjective(s)
      /\ \A x \in Range(s) : q.stat[x] = "suspend"
  BY DEF Wf, OneList, KernelState
<1> HIDE DEF s
<1>2. PICK n \in Nat : DOMAIN s = 1 .. n
  BY <1>1, LenProperties
<1>3. /\ \A i \in 1 .. n : s[i] \in Thread /\ q.stat[s[i]] = "suspend"
      /\ Range(s) = FirstOf(s, n)
  BY <1>1, <1>2, ElementOfSeq DEF Range, FirstOf
<1>4. PICK f : /\ f[0] = q /\ r = f[n]
               /\ \A i \in 1 .. n : f[i] = Failing(f[i - 1], s[i])
  BY <1>2, ResumeAllSteps DEF s
<1> DEFINE S == {i \in Nat : i <= n => LetGoSoFar(f[i], q, FirstOf(s, i))}
<1>5. 0 \in S
  <2>1. FirstOf(s, 0) = {}
    BY DEF FirstOf
  <2> QED BY <1>4, <2>1, NothingReleased DEF LetGoSoFar
<1>6. ASSUME NEW i \in Nat, i \in S
      PROVE  i + 1 \in S
  <2> SUFFICES ASSUME i + 1 <= n
               PROVE  LetGoSoFar(f[i + 1], q, FirstOf(s, i + 1))
    OBVIOUS
  <2> DEFINE D == FirstOf(s, i)
             t == s[i + 1]
             a == f[i]
             b == f[i + 1]
  <2>1. /\ i + 1 \in 1 .. n /\ (i + 1) - 1 = i /\ i <= n
        /\ \A j \in 1 .. i : j \in 1 .. n /\ j # i + 1
    OBVIOUS
  <2>2. LetGoSoFar(a, q, D) /\ b = Failing(a, t) /\ t \in Thread /\ q.stat[t] = "suspend"
    BY <1>3, <1>4, <1>6, <2>1
  <2>3. D \in SUBSET Thread /\ t \notin D /\ FirstOf(s, i + 1) = D \cup {t}
    <3>1. \A j \in 1 .. i : s[j] # t
      BY <1>1, <1>2, <2>1 DEF IsInjective
    <3>2. D \in SUBSET Thread /\ t \notin D
      BY <1>3, <2>1, <3>1 DEF FirstOf
    <3>3. 1 .. i + 1 = (1 .. i) \cup {i + 1}
      OBVIOUS
    <3>4. FirstOf(s, i + 1) = D \cup {t}
      BY <3>3 DEF FirstOf
    <3> QED BY <3>2, <3>4
  <2> HIDE DEF D, t, a, b
  <2>4. a.stat[t] = "suspend"
    BY <2>2, <2>3 DEF LetGoSoFar, Releases, Untouched
  <2>5. Wf(a, Thread) /\ OneRuns(a)
    BY <2>2 DEF LetGoSoFar, Releases
  <2>6. Releases(b, a, {t}) /\ SameTurn(b, a) /\ b.err[t] = "ERROR"
    BY <2>2, <2>4, <2>5, FailingReleases
  <2>7. Releases(b, q, D \cup {t})
    <3>1. Releases(a, q, D)
      BY <2>2 DEF LetGoSoFar
    <3> QED BY <2>2, <2>3, <2>6, <3>1, ReleasesTwice
  <2>8. \A x \in D \cup {t} : b.err[x] = "ERROR"
    BY <2>2, <2>3, <2>6 DEF LetGoSoFar, Releases
  <2>9. LetGoSoFar(b, q, FirstOf(s, i + 1))
    BY <2>2, <2>3, <2>6, <2>7, <2>8 DEF LetGoSoFar, SameTurn, OnCpu
  <2> QED BY <2>9 DEF b
<1>7. LetGoSoFar(r, q, Range(s))
  <2> HIDE DEF S
  <2>1. n \in S
    BY <1>5, <1>6, Fail!SetInduction
  <2> QED BY <1>3, <1>4, <2>1 DEF S
<1>8. r.wl[l] = << >>
  <2>1. Wf(r, Thread) /\ r.wl[l] \in Seq(Thread)
    BY <1>7 DEF LetGoSoFar, Releases, Wf, KernelState
  <2>2. ASSUME NEW x \in Range(r.wl[l])
        PROVE  FALSE
    <3>1. x \in Thread /\ r.stat[x] = "suspend"
      BY <2>1, RangeOfSeq DEF Wf, OneList
    <3>2. x \notin Range(s)
      BY <1>7, <3>1 DEF LetGoSoFar, Releases
    <3> QED BY <1>7, <3>1, <3>2 DEF LetGoSoFar, Releases, Untouched, s
  <2> QED BY <2>1, <2>2, EmptyRange
<1>9. Range(s) \subseteq Thread
  BY <1>3 DEF FirstOf
<1> QED BY <1>7, <1>8, <1>9 DEF s

(***************************************************************************)
(* A thread makes itself wait.                                             *)
(***************************************************************************)
(* rt_ipc_list_suspend and the timer.                                      *)
LEMMA WaitsInSuspends ==
  ASSUME NEW q, NEW t, MayWait(q, t), NEW l \in WaitList, NEW c, NEW r, r = WaitsIn(q, t, l, c)
  PROVE  Suspends(r, q, t) /\ In(r, t, l) /\ r.err[t] = "EOK"
<1> DEFINE a == ClearError(q, t)
           d == SuspendOn(a, t, l, IpcFlag)
<1>1. MayWait(a, t) /\ a.err[t] = "EOK" /\ \A x : Suspends(x, a, t) => Suspends(x, q, t)
  <2> HIDE DEF a
  <2>1. a = ClearError(q, t)
    BY DEF a
  <2> QED BY <2>1, ClearedMayWait
<1>2. r = IF c.timed THEN StartTimer(d, t) ELSE d
  BY DEF WaitsIn
<1> HIDE DEF a
<1>3. Suspends(d, a, t) /\ In(d, t, l) /\ d.err = a.err
  <2> HIDE DEF d
  <2>1. d = SuspendOn(a, t, l, IpcFlag)
    BY DEF d
  <2> QED BY <1>1, <2>1, SuspendOnSuspends
<1> HIDE DEF d
<1>4. t \in Thread
  BY <1>1 DEF MayWait
<1>5. Suspends(r, a, t) /\ In(r, t, l) /\ r.err = d.err
  <2>1. CASE c.timed
    <3>1. r = StartTimer(d, t)
      BY <1>2, <2>1
    <3>2. Suspends(r, a, t) /\ r.err = d.err /\ r.wl = d.wl
      BY <1>3, <1>4, <3>1, TimedSuspends
    <3> QED BY <1>3, <3>2 DEF In
  <2>2. CASE ~ c.timed
    BY <1>2, <1>3, <2>2
  <2> QED BY <2>1, <2>2
<1> QED BY <1>1, <1>3, <1>5

(* The wait of rt_mp_alloc, which links the thread at the head.            *)
PoolWaitsIn(q, t, l, c) ==
  LET u == Suspend(ClearError(q, t), t)
      d == WithList(u, l, Pushed(t, u.wl[l]))
  IN  IF c.timed THEN StartTimer(d, t) ELSE d

LEMMA PoolWaitSuspends ==
  ASSUME NEW q, NEW t, MayWait(q, t), NEW l \in WaitList, NEW c, NEW r, r = PoolWaitsIn(q, t, l, c)
  PROVE  Suspends(r, q, t) /\ In(r, t, l) /\ r.err[t] = "EOK"
<1> DEFINE a == ClearError(q, t)
           u == Suspend(a, t)
           s == Pushed(t, u.wl[l])
           d == WithList(u, l, s)
<1>1. MayWait(a, t) /\ a.err[t] = "EOK" /\ \A x : Suspends(x, a, t) => Suspends(x, q, t)
  <2> HIDE DEF a
  <2>1. a = ClearError(q, t)
    BY DEF a
  <2> QED BY <2>1, ClearedMayWait
<1>2. r = IF c.timed THEN StartTimer(d, t) ELSE d
  BY DEF PoolWaitsIn
<1> HIDE DEF a, d
<1>3. Suspends(u, a, t) /\ Loose(u, t) /\ u.err = a.err
  <2> HIDE DEF u
  <2>1. u = Suspend(a, t)
    BY DEF u
  <2> QED BY <1>1, <2>1, SuspendSuspends
<1> HIDE DEF u
<1>4. t \in Thread /\ u \in KernelState /\ OneList(u)
  BY <1>1, <1>3 DEF MayWait, Suspends, Wf
<1>5. u.wl[l] \in Seq(Thread) /\ IsInjective(u.wl[l]) /\ t \notin Range(u.wl[l])
  <2>1. u.wl \in [WaitList -> Seq(Thread)]
    BY <1>4 DEF KernelState
  <2> QED BY <1>3, <1>4, <2>1 DEF OneList, Loose
<1>6. s \in Seq(Thread) /\ IsInjective(s) /\ OneMore(s, u.wl[l], t)
  BY <1>4, <1>5, PushFacts DEF OneMore, Pushed
<1>7. d = WithList(u, l, s)
  BY DEF d
<1> HIDE DEF s
<1>8. Suspends(d, a, t) /\ In(d, t, l) /\ d.err = u.err
  <2>1. /\ t \in Thread /\ Suspends(u, a, t) /\ Loose(u, t) /\ s \in Seq(Thread)
        /\ IsInjective(s) /\ OneMore(s, u.wl[l], t) /\ d = WithList(u, l, s)
    BY <1>3, <1>4, <1>6, <1>7
  <2> QED BY <2>1, LinkSuspends
<1>9. Suspends(r, a, t) /\ In(r, t, l) /\ r.err = d.err
  <2>1. CASE c.timed
    <3>1. r = StartTimer(d, t)
      BY <1>2, <2>1
    <3>2. Suspends(r, a, t) /\ r.err = d.err /\ r.wl = d.wl
      BY <1>4, <1>8, <3>1, TimedSuspends
    <3> QED BY <1>8, <3>2 DEF In
  <2>2. CASE ~ c.timed
    <3>1. r = d
      BY <1>2, <2>2
    <3> QED BY <1>8, <3>1
  <2> QED BY <2>1, <2>2
<1> QED BY <1>1, <1>3, <1>8, <1>9

(***************************************************************************)
(* The inductive invariant, in parts.                                      *)
(***************************************************************************)
(* In a wait, from the region that queues the thread up to the one that    *)
(* looks at its error; and in a deletion.                                  *)
Waiting  == {"wait", "woken"}
Deleting == {"deleteTest", "deleteRecv", "deleteSend", "fault"}

KernelSound ==
  /\ Wf(k, Thread) /\ OneRuns(k) /\ k.nest = 0
  /\ OnCpu(k) \/ at[k.cur] \in {"wait", "asleep"}
  /\ at[Idle] = "run"

(* What the lists, the point in its call and the error of a thread say of  *)
(* each other.  After the deletion of the object, no call goes on.         *)
ThreadSound(x) ==
  /\ \A l \in WaitList : x \in Range(k.wl[l]) => at[x] \in Waiting /\ call[x].op = l /\ k.err[x] = "EOK"
  /\ k.stat[x] = "suspend" => at[x] \in Waiting \cup {"asleep", "awake"}
  /\ at[x] \in Waiting => call[x].op \in {"recv", "send"}
  /\ at[x] \in Copying => call[x].op # "none"
  /\ at[x] \notin Waiting \cup Copying => call[x] = NoCall
  /\ ~ alive /\ call[x].op # "none" =>
       at[x] \in Waiting /\ (k.stat[x] = "suspend" \/ k.err[x] # "EOK")
  /\ kind # "mq" => at[x] \notin Copying
  /\ kind \notin {"mb", "mq"} => call[x].op # "send"

(* A deleted object has waiters only as long as its deletion is going on.  *)
DeletedSound ==
  ~ alive /\ (\E l \in WaitList : k.wl[l] # << >>) => \E t \in Thread : at[t] \in Deleting

IpcSound ==
  /\ IpcTypeOK /\ KernelSound /\ DeletedSound
  /\ \A x \in Thread : ThreadSound(x)

(***************************************************************************)
(* A step moves the calls of the threads of M, one or none; for the others *)
(* rt_schedule may be called.                                              *)
(***************************************************************************)
Parked(x) ==
  /\ call'[x] = call[x]
  /\ \/ at'[x] = at[x]
     \/ at[x] = "wait" /\ at'[x] = "woken"
     \/ at[x] = "asleep" /\ at'[x] = "awake"

Steps(M) ==
  /\ at' \in [Thread -> IpcLabel] /\ call' \in [Thread -> Call]
  /\ \A x \in Thread \ M : Parked(x)
  /\ \A x \in M : ThreadSound(x)'
  /\ \A x \in M : at[x] \in Deleting =>
       at'[x] \in Deleting \/ \A l \in WaitList : k'.wl[l] = << >>
  /\ at'[Idle] = "run"
  /\ last' \in Item \cup {NoItem} /\ epoch' \in 0 .. Resets

(* A thread that is let go, or that nothing happens to, stays sound.       *)
LEMMA ParkedSound ==
  ASSUME IpcSound, NEW D \in SUBSET Thread, Releases(k', k, D), NEW x \in Thread, Parked(x),
         UNCHANGED <<alive, kind>>, alive \/ (x \in D => k'.err[x] # "EOK")
  PROVE  ThreadSound(x)'
<1>1. ThreadSound(x)
  BY DEF IpcSound
<1>2. CASE x \in D
  <2>1. \A l \in WaitList : x \notin Range(k'.wl[l])
    BY <1>2, OnlySuspendedWait DEF Releases
  <2>2. k'.stat[x] # "suspend"
    BY <1>2 DEF Releases
  <2> QED BY <1>1, <1>2, <2>1, <2>2 DEF ThreadSound, Parked, Waiting, Copying
<1>3. CASE x \notin D
  <2>1. /\ k'.err[x] = k.err[x] /\ (k'.stat[x] = "suspend" <=> k.stat[x] = "suspend")
        /\ \A l \in WaitList : x \in Range(k'.wl[l]) <=> x \in Range(k.wl[l])
    BY <1>3 DEF Releases, Untouched
  <2> QED BY <1>1, <2>1 DEF ThreadSound, Parked, Waiting, Copying
<1> QED BY <1>2, <1>3

(* The types, and the waiters of a deleted object.                         *)
LEMMA StepsTyped ==
  ASSUME IpcSound, Wf(k', Thread), NEW M \in SUBSET Thread, Steps(M), alive' \in BOOLEAN
  PROVE  IpcTypeOK'
BY DEF IpcSound, IpcTypeOK, Steps, Wf

Shrinks == \A l \in WaitList : Range(k'.wl[l]) \subseteq Range(k.wl[l])

LEMMA DeletedKept ==
  ASSUME IpcSound, Wf(k', Thread), Shrinks, NEW M \in SUBSET Thread, Steps(M), UNCHANGED alive
  PROVE  DeletedSound'
<1> SUFFICES ASSUME ~ alive, NEW l \in WaitList, k'.wl[l] # << >>
             PROVE  \E t \in Thread : at'[t] \in Deleting
  BY DEF DeletedSound
<1>1. k.wl[l] # << >>
  <2>1. k.wl[l] \in Seq(Thread) /\ k'.wl[l] \in Seq(Thread)
    BY DEF IpcSound, KernelSound, Wf, KernelState
  <2> QED BY <2>1, EmptyRange DEF Shrinks
<1>2. PICK t \in Thread : at[t] \in Deleting
  BY <1>1 DEF IpcSound, DeletedSound
<1>3. at'[t] \in Deleting
  <2>1. CASE t \in M
    BY <1>2, <2>1 DEF Steps
  <2>2. CASE t \notin M
    BY <1>2, <2>2 DEF Steps, Parked, Deleting
  <2> QED BY <2>1, <2>2
<1> QED BY <1>3

LEMMA ReleasedShrinks ==
  ASSUME IpcSound, NEW D \in SUBSET Thread, Releases(k', k, D)
  PROVE  Shrinks
<1> SUFFICES ASSUME NEW l \in WaitList, NEW x \in Range(k'.wl[l])
             PROVE  x \in Range(k.wl[l])
  BY DEF Shrinks
<1>1. k'.wl[l] \in Seq(Thread) /\ OneList(k')
  BY DEF Releases, Wf, KernelState
<1>2. x \in Thread /\ k'.stat[x] = "suspend"
  BY <1>1, RangeOfSeq DEF OneList
<1> QED BY <1>2 DEF Releases, Untouched

(* A step that lets threads go keeps the invariant.                        *)
LEMMA ReleaseKeeps ==
  ASSUME IpcSound, NEW D \in SUBSET Thread, Releases(k', k, D),
         OnCpu(k') \/ at'[k'.cur] \in {"wait", "asleep"},
         NEW M \in SUBSET Thread, Steps(M), alive \/ \A x \in D \ M : k'.err[x] # "EOK",
         UNCHANGED <<alive, kind>>
  PROVE  IpcSound'
<1>1. k.nest = 0 /\ alive \in BOOLEAN
  BY DEF IpcSound, KernelSound, IpcTypeOK
<1>2. KernelSound'
  BY <1>1 DEF KernelSound, Releases, Steps
<1>3. IpcTypeOK' /\ DeletedSound'
  BY <1>1, StepsTyped, DeletedKept, ReleasedShrinks DEF Releases
<1>4. ASSUME NEW x \in Thread
      PROVE  ThreadSound(x)'
  <2>1. CASE x \in M
    BY <2>1 DEF Steps
  <2>2. CASE x \notin M
    <3>1. Parked(x) /\ (alive \/ (x \in D => k'.err[x] # "EOK"))
      BY <2>2 DEF Steps
    <3> QED BY <3>1, ParkedSound
  <2> QED BY <2>1, <2>2
<1> QED BY <1>2, <1>3, <1>4 DEF IpcSound

(* So does one in which a thread makes itself wait.                        *)
LEMMA SuspendKeeps ==
  ASSUME IpcSound, NEW t \in Thread, Suspends(k', k, t), t = k.cur, at'[t] \in {"wait", "asleep"},
         Steps({t}), alive \/ \A l \in WaitList : t \notin Range(k'.wl[l]), UNCHANGED <<alive, kind>>
  PROVE  IpcSound'
<1>1. k.nest = 0 /\ alive \in BOOLEAN
  BY DEF IpcSound, KernelSound, IpcTypeOK
<1>2. KernelSound'
  BY <1>1 DEF KernelSound, Suspends, Steps
<1>3. IpcTypeOK' /\ DeletedSound'
  <2>1. {t} \in SUBSET Thread /\ Wf(k', Thread)
    BY DEF Suspends
  <2>2. IpcTypeOK'
    BY <1>1, <2>1, StepsTyped
  <2>3. CASE alive
    BY <2>2, <2>3 DEF DeletedSound
  <2>4. CASE \A l \in WaitList : t \notin Range(k'.wl[l])
    <3>1. k' \in KernelState /\ \A l \in WaitList : k'.wl[l] \in Seq(Thread)
      BY <2>1 DEF Wf, KernelState
    <3>2. \A l \in WaitList : Range(k'.wl[l]) \subseteq Thread
      BY <3>1, RangeOfSeq
    <3>3. Shrinks
      BY <2>4, <3>2 DEF Shrinks, Suspends, Untouched
    <3> QED BY <2>1, <2>2, <3>3, DeletedKept
  <2> QED BY <2>3, <2>4
<1>4. ASSUME NEW x \in Thread
      PROVE  ThreadSound(x)'
  <2>1. CASE x = t
    BY <2>1 DEF Steps
  <2>2. CASE x # t
    <3>1. Parked(x) /\ ThreadSound(x)
      BY <2>2 DEF Steps, IpcSound
    <3>2. /\ k'.err[x] = k.err[x] /\ (k'.stat[x] = "suspend" <=> k.stat[x] = "suspend")
          /\ \A l \in WaitList : x \in Range(k'.wl[l]) <=> x \in Range(k.wl[l])
      BY <2>2 DEF Suspends, Untouched
    <3> QED BY <3>1, <3>2 DEF ThreadSound, Parked, Waiting, Copying
  <2> QED BY <2>1, <2>2
<1> QED BY <1>2, <1>3, <1>4 DEF IpcSound

(***************************************************************************)
(* What a call may rely on.                                                *)
(***************************************************************************)
LEMMA IpcParts ==
  ASSUME IpcSound
  PROVE  /\ Wf(k, Thread) /\ k \in KernelState /\ OneRuns(k) /\ k.nest = 0 /\ k.cur \in Thread
         /\ at \in [Thread -> IpcLabel] /\ call \in [Thread -> Call] /\ at[Idle] = "run"
         /\ alive \in BOOLEAN /\ last \in Item \cup {NoItem} /\ epoch \in 0 .. Resets
         /\ \A x \in Thread : ThreadSound(x)
         /\ WaitList = {"recv", "send"} /\ Idle \in Thread
<1>1. k \in KernelState
  BY DEF IpcSound, KernelSound, Wf
<1> QED BY <1>1, IpcAssumption, KernelAssumption DEF IpcSound, KernelSound, IpcTypeOK, KernelState

(* A thread in its own code, or one that goes on after a wait.             *)
LEMMA CallerMayWait ==
  ASSUME IpcSound, NEW t \in Thread, NEW c, Tries(t, c)
  PROVE  /\ t = k.cur /\ MayWait(k, t) /\ alive
         /\ at[t] \in {"run", "woken"} /\ at[t] \notin Deleting
         /\ at[t] = "woken" => c = call[t]
<1>1. ThreadSound(t)
  BY DEF IpcSound
<1>2. CASE Begins(t)
  <2>1. t = k.cur /\ at[t] = "run" /\ t # Idle /\ alive
    BY <1>2 DEF Begins, MayBlock, At
  <2> QED BY <2>1, IpcParts DEF MayWait, IpcSound, KernelSound, OnCpu, Deleting
<1>3. CASE GoesOn(t, c)
  <2>1. t = k.cur /\ at[t] = "woken" /\ t # Idle /\ c = call[t] /\ k.err[t] = "EOK"
    BY <1>3, IpcParts DEF GoesOn, At
  <2>2. k.stat[t] = "running"
    BY <2>1 DEF IpcSound, KernelSound, OnCpu
  <2>3. alive
    BY <1>1, <2>1, <2>2 DEF ThreadSound, Waiting
  <2> QED BY <2>1, <2>2, <2>3, IpcParts DEF MayWait, Deleting
<1> QED BY <1>2, <1>3 DEF Tries

(* Code at another point than the calls of rt_schedule.                    *)
LEMMA AtRuns ==
  ASSUME IpcSound, NEW t \in Thread, NEW a, At(t, a), a \notin {"wait", "asleep"}
  PROVE  t = k.cur /\ k.stat[t] = "running" /\ at[t] = a
BY DEF At, IpcSound, KernelSound, OnCpu

(***************************************************************************)
(* Where a step leaves the call of its thread.                             *)
(***************************************************************************)
(* Out of every wait.                                                      *)
LEMMA AwaySound ==
  ASSUME NEW t \in Thread, Wf(k', Thread), k'.stat[t] # "suspend",
         at'[t] \notin Waiting \cup Copying, call'[t] = NoCall
  PROVE  ThreadSound(t)'
<1>1. \A l \in WaitList : t \notin Range(k'.wl[l])
  BY OnlySuspendedWait
<1> QED BY <1>1 DEF ThreadSound, NoCall

(* Moves(t, a, c): the thread t goes to a, its call being c now.           *)
Moves(t, a, c) ==
  /\ Goto(t, a) /\ a \in IpcLabel
  /\ call' \in [Thread -> Call] /\ call'[t] = c
  /\ \A x \in Thread \ {t} : call'[x] = call[x]
  /\ last' \in Item \cup {NoItem} /\ epoch' \in 0 .. Resets

LEMMA EndsMoves ==
  ASSUME IpcSound, NEW t \in Thread, NEW a \in IpcLabel, Goto(t, a),
         \/ call' = [call EXCEPT ![t] = NoCall]
         \/ UNCHANGED call /\ at[t] \notin Waiting \cup Copying,
         last' \in Item \cup {NoItem}, epoch' \in 0 .. Resets
  PROVE  Moves(t, a, NoCall)
<1>1. call \in [Thread -> Call] /\ ThreadSound(t)
  BY IpcParts
<1>2. NoCall \in Call
  BY DEF NoCall, Call
<1> QED BY <1>1, <1>2 DEF Moves, ThreadSound

LEMMA MovesSteps ==
  ASSUME IpcSound, NEW t \in Thread, NEW a, NEW c, Moves(t, a, c), t # Idle, ThreadSound(t)',
         at[t] \in Deleting => a \in Deleting \/ \A l \in WaitList : k'.wl[l] = << >>
  PROVE  Steps({t}) /\ at'[t] = a
<1>1. at \in [Thread -> IpcLabel] /\ at[Idle] = "run" /\ Idle \in Thread
  BY IpcParts
<1>2. /\ at' \in [Thread -> IpcLabel] /\ at'[t] = a
      /\ \A x \in Thread \ {t} : at'[x] = at[x]
  BY <1>1 DEF Moves, Goto
<1> QED BY <1>1, <1>2 DEF Moves, Steps, Parked

(* Nobody's call moves, or rt_schedule returns in another thread.          *)
LEMMA StaysSteps ==
  ASSUME IpcSound, UNCHANGED <<at, call, last, epoch>>
  PROVE  Steps({})
BY IpcParts DEF Steps, Parked

LEMMA SwitchSteps ==
  ASSUME IpcSound, NEW t \in Thread, NEW a, NEW b, at[t] = a, Goto(t, b), UNCHANGED ivars,
         <<a, b>> \in {<<"wait", "woken">>, <<"asleep", "awake">>}
  PROVE  Steps({})
<1>1. /\ at \in [Thread -> IpcLabel] /\ at[Idle] = "run" /\ Idle \in Thread
      /\ call \in [Thread -> Call] /\ last \in Item \cup {NoItem} /\ epoch \in 0 .. Resets
  BY IpcParts
<1>2. \/ a = "wait" /\ b = "woken"
      \/ a = "asleep" /\ b = "awake"
  OBVIOUS
<1>3. t # Idle /\ b \in IpcLabel
  BY <1>1, <1>2 DEF IpcLabel
<1>4. /\ at' \in [Thread -> IpcLabel] /\ at'[t] = b
      /\ \A x \in Thread \ {t} : at'[x] = at[x]
  BY <1>1, <1>3 DEF Goto
<1> QED BY <1>1, <1>2, <1>3, <1>4 DEF Steps, Parked, ivars

(***************************************************************************)
(* The steps all services share.                                           *)
(***************************************************************************)
(* rt_schedule, on the way into a wait or a sleep.                         *)
LEMMA SwitchKeeps ==
  ASSUME IpcSound, NEW t \in Thread, NEW a, NEW b, ScheduleStep(t, a, b), UNCHANGED ivars, UNCHANGED kind,
         <<a, b>> \in {<<"wait", "woken">>, <<"asleep", "awake">>}
  PROVE  IpcSound'
<1>1. Releases(k', k, {}) /\ OnCpu(k')
  BY IpcParts, ScheduleReleases DEF ScheduleStep
<1>2. Steps({})
  BY SwitchSteps DEF ScheduleStep, At
<1>3. {} \in SUBSET Thread /\ UNCHANGED <<alive, kind>>
  BY DEF ivars
<1>4. alive \/ \A x \in {} \ {} : k'.err[x] # "EOK"
  OBVIOUS
<1> QED BY <1>1, <1>2, <1>3, <1>4, ReleaseKeeps

(* rt_schedule, at the end of a call.                                      *)
LEMMA EndScheduleKeeps ==
  ASSUME IpcSound, NEW t \in Thread, EndSchedule(t), UNCHANGED kind
  PROVE  IpcSound'
<1>1. Releases(k', k, {}) /\ OnCpu(k') /\ Wf(k', Thread)
  BY IpcParts, ScheduleReleases DEF EndSchedule, ScheduleStep, Releases
<1>2. At(t, "schedule") /\ Goto(t, "run") /\ UNCHANGED ivars
  BY DEF EndSchedule, ScheduleStep
<1>3. at[t] = "schedule" /\ k.stat[t] = "running"
  BY <1>2, AtRuns
<1>4. Moves(t, "run", NoCall)
  BY <1>2, <1>3, EndsMoves, IpcParts DEF Waiting, Copying, IpcLabel, ivars
<1>5. at'[t] = "run" /\ call'[t] = NoCall /\ k'.stat[t] # "suspend"
  BY <1>1, <1>3, <1>4, IpcParts DEF Moves, Goto, Releases, Untouched
<1>6. ThreadSound(t)'
  BY <1>1, <1>5, AwaySound DEF Waiting, Copying
<1>7. Steps({t})
  BY <1>3, <1>4, <1>6, MovesSteps, IpcParts DEF Deleting
<1>8. {} \in SUBSET Thread /\ {t} \in SUBSET Thread /\ UNCHANGED <<alive, kind>>
  BY <1>2 DEF ivars
<1>9. alive \/ \A x \in {} \ {t} : k'.err[x] # "EOK"
  OBVIOUS
<1> QED BY <1>1, <1>7, <1>8, <1>9, ReleaseKeeps

(* The clock takes the processor.                                          *)
LEMMA SliceEndReleases ==
  ASSUME IpcSound, SliceEnd
  PROVE  Releases(k', k, {}) /\ OnCpu(k')
BY IpcParts, SliceOverReleases DEF SliceEnd

LEMMA SliceEndKeeps ==
  ASSUME IpcSound, SliceEnd, UNCHANGED ivars, UNCHANGED kind
  PROVE  IpcSound'
<1>1. Releases(k', k, {}) /\ OnCpu(k')
  BY SliceEndReleases
<1>2. Steps({})
  BY StaysSteps DEF SliceEnd, ivars
<1>3. /\ {} \in SUBSET Thread /\ UNCHANGED <<alive, kind>>
      /\ alive \/ \A x \in {} \ {} : k'.err[x] # "EOK"
  BY DEF ivars
<1> QED BY <1>1, <1>2, <1>3, ReleaseKeeps

(* A timeout.                                                              *)
LEMMA TimerExpiresKeeps ==
  ASSUME IpcSound, NEW x \in Thread, TimerExpires(x), UNCHANGED ivars, UNCHANGED kind
  PROVE  IpcSound'
<1>1. Releases(k', k, {x}) /\ OnCpu(k') /\ k'.err[x] = "ETIMEOUT"
  BY IpcParts, TimeoutReleases DEF TimerExpires
<1>2. Steps({})
  BY StaysSteps DEF TimerExpires, ivars
<1>3. /\ {} \in SUBSET Thread /\ {x} \in SUBSET Thread /\ UNCHANGED <<alive, kind>>
      /\ alive \/ \A y \in {x} \ {} : k'.err[y] # "EOK"
  BY <1>1 DEF ivars
<1> QED BY <1>1, <1>2, <1>3, ReleaseKeeps

(* rt_thread_sleep.                                                        *)
LEMMA SleepKeeps ==
  ASSUME IpcSound, NEW t \in Thread, Sleep(t), UNCHANGED ivars, UNCHANGED kind
  PROVE  IpcSound'
<1> DEFINE u == Suspend(k, t)
<1>1. At(t, "run") /\ t # Idle /\ k' = StartTimer(u, t) /\ Goto(t, "asleep")
  BY DEF Sleep, MayBlock
<1>2. t = k.cur /\ k.stat[t] = "running" /\ at[t] = "run" /\ MayWait(k, t)
  BY <1>1, AtRuns, IpcParts DEF MayWait
<1>3. Suspends(u, k, t) /\ Loose(u, t)
  <2> HIDE DEF u
  <2>1. u = Suspend(k, t)
    BY DEF u
  <2> QED BY <1>2, <2>1, SuspendSuspends
<1> HIDE DEF u
<1>4. Suspends(k', k, t) /\ k'.wl = u.wl
  BY <1>1, <1>3, TimedSuspends
<1>5. Moves(t, "asleep", NoCall)
  BY <1>1, <1>2, EndsMoves, IpcParts DEF Waiting, Copying, IpcLabel, ivars
<1>6. at'[t] = "asleep" /\ call'[t] = NoCall
  BY <1>5, IpcParts DEF Moves, Goto
<1>7. \A l \in WaitList : t \notin Range(k'.wl[l])
  BY <1>3, <1>4 DEF Loose
<1>8. ThreadSound(t)'
  BY <1>6, <1>7 DEF ThreadSound, NoCall, Waiting, Copying
<1>9. Steps({t})
  BY <1>1, <1>2, <1>5, <1>8, MovesSteps DEF Deleting
<1>10. UNCHANGED <<alive, kind>> /\ at'[t] \in {"wait", "asleep"}
  BY <1>6 DEF ivars
<1> QED BY <1>2, <1>4, <1>7, <1>9, <1>10, SuspendKeeps

(* The running thread changes its own error.                               *)
LEMMA SetErrorReleases ==
  ASSUME NEW q, Wf(q, Thread), OneRuns(q), NEW t \in Thread, q.stat[t] = "running", NEW e \in Err,
         NEW r, r = SetError(q, t, e)
  PROVE  Releases(r, q, {t}) /\ SameTurn(r, q) /\ r.stat = q.stat /\ r.wl = q.wl
<1>1. /\ Wf(r, Thread) /\ r.err = [q.err EXCEPT ![t] = e]
      /\ r.stat = q.stat /\ r.tmr = q.tmr /\ r.wl = q.wl /\ r.cur = q.cur /\ r.nest = q.nest
  BY SetErrorWf
<1>2. q.err \in [Thread -> Err]
  BY DEF Wf, KernelState
<1> QED BY <1>1, <1>2 DEF Releases, SameTurn, OnCpu, OneRuns, Untouched

(* A step of a running thread that lets the threads of D go, and leaves    *)
(* the thread out of every wait.                                           *)
LEMMA CallEnds ==
  ASSUME IpcSound, NEW t \in Thread, t # Idle, t = k.cur, k.stat[t] = "running",
         NEW D \in SUBSET Thread, Releases(k', k, D), SameTurn(k', k),
         alive \/ \A x \in D \ {t} : k'.err[x] # "EOK",
         NEW a, Moves(t, a, NoCall), a \notin Waiting \cup Copying,
         at[t] \in Deleting => a \in Deleting \/ \A l \in WaitList : k'.wl[l] = << >>,
         UNCHANGED <<alive, kind>>
  PROVE  IpcSound'
<1>1. OnCpu(k') /\ k'.stat[t] # "suspend" /\ Wf(k', Thread)
  BY DEF SameTurn, OnCpu, Releases
<1>2. at'[t] = a /\ call'[t] = NoCall
  BY IpcParts DEF Moves, Goto
<1>3. ThreadSound(t)'
  BY <1>1, <1>2, AwaySound
<1>4. Steps({t})
  BY <1>3, MovesSteps
<1>5. {t} \in SUBSET Thread
  OBVIOUS
<1> QED BY <1>1, <1>4, <1>5, ReleaseKeeps

(* rt_thread_sleep returns.                                                *)
LEMMA WakeUpKeeps ==
  ASSUME IpcSound, NEW t \in Thread, WakeUp(t), UNCHANGED ivars, UNCHANGED kind
  PROVE  IpcSound'
<1>1. At(t, "awake") /\ Goto(t, "run") /\ k' \in {k, SetError(k, t, "EOK")}
  BY DEF WakeUp, ClearError, SetError
<1>2. t = k.cur /\ k.stat[t] = "running" /\ at[t] = "awake" /\ t # Idle
  BY <1>1, AtRuns, IpcParts
<1>3. PICK D \in SUBSET Thread : D \subseteq {t} /\ Releases(k', k, D) /\ SameTurn(k', k)
  <2>1. CASE k' = k
    <3>1. Releases(k', k, {}) /\ SameTurn(k', k)
      BY <2>1, NothingReleased, IpcParts
    <3> QED BY <3>1
  <2>2. CASE k' = SetError(k, t, "EOK")
    <3>1. Releases(k', k, {t}) /\ SameTurn(k', k)
      BY <1>2, <2>2, SetErrorReleases, IpcParts DEF Err
    <3> QED BY <3>1
  <2> QED BY <1>1, <2>1, <2>2
<1>4. Moves(t, "run", NoCall)
  BY <1>1, <1>2, EndsMoves, IpcParts DEF Waiting, Copying, IpcLabel, ivars
<1>5. /\ "run" \notin Waiting \cup Copying /\ at[t] \notin Deleting
      /\ \A x \in D \ {t} : k'.err[x] # "EOK"
      /\ UNCHANGED <<alive, kind>>
  BY <1>2, <1>3 DEF Waiting, Copying, Deleting, ivars
<1> QED BY <1>2, <1>3, <1>4, <1>5, CallEnds

(* A wait that was ended by a timeout, a reset or a deletion.              *)
LEMMA WokenFailsKeeps ==
  ASSUME IpcSound, NEW t \in Thread, WokenFails(t), UNCHANGED kind
  PROVE  IpcSound'
<1>1. /\ At(t, "woken") /\ Goto(t, "run") /\ call' = [call EXCEPT ![t] = NoCall]
      /\ k' = k /\ alive' = alive /\ last' = last /\ epoch' = epoch
  BY DEF WokenFails, Ends
<1>2. t = k.cur /\ k.stat[t] = "running" /\ at[t] = "woken" /\ t # Idle
  BY <1>1, AtRuns, IpcParts
<1>3. Releases(k', k, {}) /\ SameTurn(k', k)
  BY <1>1, NothingReleased, IpcParts
<1>4. Moves(t, "run", NoCall)
  BY <1>1, <1>2, EndsMoves, IpcParts DEF IpcLabel
<1>5. /\ "run" \notin Waiting \cup Copying /\ at[t] \notin Deleting /\ {} \in SUBSET Thread
      /\ alive \/ \A x \in {} \ {t} : k'.err[x] # "EOK"
      /\ UNCHANGED <<alive, kind>>
  BY <1>1, <1>2 DEF Waiting, Copying, Deleting
<1> QED BY <1>2, <1>3, <1>4, <1>5, CallEnds

(***************************************************************************)
(* Waking and waiting.                                                     *)
(***************************************************************************)
(* Wakes(q, D, l): the first waiter of l, if any, is let go.               *)
Wakes(q, D, l) ==
  /\ Releases(q, k, D) /\ SameTurn(q, k) /\ q.err = k.err
  /\ D = IF k.wl[l] = << >> THEN {} ELSE {Head(k.wl[l])}

LEMMA HeadWaits ==
  ASSUME IpcSound, NEW l \in WaitList, k.wl[l] # << >>
  PROVE  /\ Head(k.wl[l]) \in Thread /\ Head(k.wl[l]) \in Range(k.wl[l])
         /\ k.stat[Head(k.wl[l])] = "suspend"
<1>1. k.wl[l] \in Seq(Thread) /\ OneList(k)
  BY IpcParts DEF KernelState, Wf
<1>2. Head(k.wl[l]) \in Thread /\ Head(k.wl[l]) \in Range(k.wl[l])
  BY <1>1, HeadFacts
<1> QED BY <1>1, <1>2 DEF OneList

LEMMA WokenWakes ==
  ASSUME IpcSound, NEW l \in WaitList, NEW q, q = Woken(k, l)
  PROVE  \E D \in SUBSET Thread : Wakes(q, D, l)
<1>1. CASE k.wl[l] = << >>
  <2>1. q = k
    BY <1>1 DEF Woken
  <2>2. Releases(q, k, {}) /\ SameTurn(q, k)
    BY <2>1, NothingReleased, IpcParts
  <2> QED BY <1>1, <2>1, <2>2 DEF Wakes
<1>2. CASE k.wl[l] # << >>
  <2> DEFINE h == Head(k.wl[l])
  <2>1. q = Resume(k, h)
    BY <1>2 DEF Woken, ResumeFirst
  <2>2. h \in Thread /\ k.stat[h] = "suspend"
    BY <1>2, HeadWaits
  <2> HIDE DEF h
  <2>3. Releases(q, k, {h}) /\ SameTurn(q, k) /\ q.err = k.err
    BY <2>1, <2>2, ResumeReleases, IpcParts
  <2> QED BY <1>2, <2>2, <2>3 DEF Wakes, h
<1> QED BY <1>1, <1>2

(* Before thread->error is looked at, nothing is said of a call that ends. *)
LEMMA EndsWakingKeeps ==
  ASSUME IpcSound, NEW t \in Thread, t # Idle, t = k.cur, k.stat[t] = "running", alive,
         at[t] \notin Deleting, NEW l \in WaitList, EndsWaking(t, l),
         last' \in Item \cup {NoItem}, UNCHANGED <<alive, epoch, kind>>
  PROVE  IpcSound'
<1> DEFINE a == IF k.wl[l] = << >> THEN "run" ELSE "schedule"
<1>1. k' = Woken(k, l) /\ Goto(t, a) /\ call' = [call EXCEPT ![t] = NoCall]
  BY DEF EndsWaking, Ends
<1>2. a \in IpcLabel /\ a \notin Waiting \cup Copying
  BY DEF IpcLabel, Waiting, Copying
<1> HIDE DEF a
<1>3. PICK D \in SUBSET Thread : Wakes(k', D, l)
  BY <1>1, WokenWakes
<1>4. epoch' \in 0 .. Resets
  BY IpcParts
<1>5. Moves(t, a, NoCall)
  BY <1>1, <1>2, <1>4, EndsMoves
<1>6. Releases(k', k, D) /\ SameTurn(k', k)
  BY <1>3 DEF Wakes
<1> QED BY <1>2, <1>5, <1>6, CallEnds

(* An interrupt handler wakes a thread.                                    *)
LEMMA IsrWakingReleases ==
  ASSUME IpcSound, NEW l \in WaitList, IsrWaking(l)
  PROVE  \E q, D : /\ D \in SUBSET Thread /\ Wakes(q, D, l) /\ Releases(k', k, D) /\ k'.err = k.err
                   /\ OnCpu(k') \/ (k'.cur = k.cur /\ k'.stat = k.stat)
<1>1. PICK D \in SUBSET Thread : Wakes(Woken(k, l), D, l)
  BY WokenWakes
<1> DEFINE u == Woken(k, l)
<1>2. CASE k.wl[l] = << >>
  <2>1. k' = k /\ u = k
    BY <1>2 DEF IsrWaking, Woken
  <2> QED BY <1>1, <2>1 DEF Wakes
<1>3. CASE k.wl[l] # << >>
  <2>1. k' = Schedule(u)
    BY <1>3 DEF IsrWaking
  <2> HIDE DEF u
  <2>2. Releases(u, k, D) /\ u.err = k.err
    BY <1>1 DEF Wakes, u
  <2>3. Wf(u, Thread) /\ OneRuns(u) /\ u.nest = 0
    BY <2>2, IpcParts DEF Releases
  <2>4. Releases(k', u, {}) /\ OnCpu(k') /\ k'.err = u.err
    BY <2>1, <2>3, ScheduleReleases
  <2>5. Releases(k', k, D \cup {})
    BY <2>2, <2>4, ReleasesTwice
  <2>6. D \cup {} = D
    OBVIOUS
  <2>7. Releases(k', k, D)
    BY <2>5, <2>6
  <2>8. Wakes(u, D, l)
    BY <1>1 DEF u
  <2>9. /\ D \in SUBSET Thread /\ Wakes(u, D, l) /\ Releases(k', k, D) /\ k'.err = k.err
        /\ OnCpu(k') \/ (k'.cur = k.cur /\ k'.stat = k.stat)
    BY <1>1, <2>2, <2>4, <2>7, <2>8
  <2> QED BY <2>9
<1> QED BY <1>2, <1>3

LEMMA IsrWakingKeeps ==
  ASSUME IpcSound, alive, NEW l \in WaitList, IsrWaking(l), UNCHANGED ivars, UNCHANGED kind
  PROVE  IpcSound'
<1>1. PICK D \in SUBSET Thread : /\ Releases(k', k, D)
                                 /\ OnCpu(k') \/ (k'.cur = k.cur /\ k'.stat = k.stat)
  BY IsrWakingReleases
<1>2. UNCHANGED <<at, call, last, epoch>> /\ UNCHANGED <<alive, kind>>
  BY DEF IsrWaking, ivars
<1>3. Steps({}) /\ {} \in SUBSET Thread
  BY <1>2, StaysSteps
<1>4. OnCpu(k') \/ at'[k'.cur] \in {"wait", "asleep"}
  BY <1>1, <1>2 DEF IpcSound, KernelSound, OnCpu
<1> QED BY <1>1, <1>2, <1>3, <1>4, ReleaseKeeps

(* A call waits.                                                           *)
LEMMA WaitingKeeps ==
  ASSUME IpcSound, NEW t \in Thread, NEW c \in Call, Tries(t, c), NEW l \in WaitList, c.op = l,
         Suspends(k', k, t), In(k', t, l), k'.err[t] = "EOK",
         Goto(t, "wait"), call' = [call EXCEPT ![t] = c],
         l = "send" => kind \in {"mb", "mq"}, UNCHANGED <<alive, last, epoch, kind>>
  PROVE  IpcSound'
<1>1. t = k.cur /\ MayWait(k, t) /\ alive /\ at[t] \notin Deleting
  BY CallerMayWait
<1>2. call \in [Thread -> Call] /\ at \in [Thread -> IpcLabel]
  BY IpcParts
<1>3. Moves(t, "wait", c)
  BY <1>2, IpcParts DEF Moves, IpcLabel
<1>4. at'[t] = "wait" /\ call'[t] = c
  BY <1>2 DEF Goto
<1>5. l \in {"recv", "send"}
  BY IpcParts
<1>6. ThreadSound(t)'
  BY <1>1, <1>4, <1>5 DEF ThreadSound, In, Waiting, Copying
<1>7. Steps({t})
  BY <1>1, <1>3, <1>6, MovesSteps DEF MayWait
<1>8. at'[t] \in {"wait", "asleep"} /\ (alive \/ \A m \in WaitList : t \notin Range(k'.wl[m]))
  BY <1>1, <1>4
<1> QED BY <1>1, <1>7, <1>8, SuspendKeeps

LEMMA WaitsKeeps ==
  ASSUME IpcSound, NEW t \in Thread, NEW c \in Call, Tries(t, c), NEW l \in WaitList, c.op = l,
         Waits(t, l, c), l = "send" => kind \in {"mb", "mq"}, UNCHANGED <<alive, last, epoch, kind>>
  PROVE  IpcSound'
<1>1. k' = WaitsIn(k, t, l, c) /\ Goto(t, "wait") /\ call' = [call EXCEPT ![t] = c]
  BY DEF Waits
<1>2. MayWait(k, t)
  BY CallerMayWait
<1>3. Suspends(k', k, t) /\ In(k', t, l) /\ k'.err[t] = "EOK"
  BY <1>1, <1>2, WaitsInSuspends
<1> QED BY <1>1, <1>3, WaitingKeeps

(***************************************************************************)
(* Reset and deletion.                                                     *)
(***************************************************************************)
(* Every waiter is let go, with an error.                                  *)
LEMMA ResetReleases ==
  ASSUME IpcSound, NEW r, r = ResumeAll(ResumeAll(k, "recv"), "send")
  PROVE  \E D \in SUBSET Thread :
           /\ Releases(r, k, D) /\ SameTurn(r, k)
           /\ \A x \in D : r.err[x] = "ERROR" /\ k.stat[x] = "suspend"
           /\ \A l \in WaitList : r.wl[l] = << >>
<1> DEFINE u == ResumeAll(k, "recv")
           D == Range(k.wl["recv"])
           E == Range(u.wl["send"])
<1>1. "recv" \in WaitList /\ "send" \in WaitList /\ Wf(k, Thread) /\ OneRuns(k)
  BY IpcParts
<1>2. LetGoSoFar(u, k, D) /\ u.wl["recv"] = << >> /\ D \subseteq Thread
  <2> HIDE DEF u
  <2>1. u = ResumeAll(k, "recv")
    BY DEF u
  <2> QED BY <1>1, <2>1, ResumeAllReleases
<1> HIDE DEF u, D
<1>3. Wf(u, Thread) /\ OneRuns(u) /\ r = ResumeAll(u, "send")
  BY <1>2 DEF LetGoSoFar, Releases, u
<1>4. LetGoSoFar(r, u, E) /\ r.wl["send"] = << >> /\ E \subseteq Thread
  BY <1>1, <1>3, ResumeAllReleases
<1> HIDE DEF E
<1>5. Releases(r, k, D \cup E)
  BY <1>2, <1>4, ReleasesTwice DEF LetGoSoFar
<1>6. \A x \in D \cup E : r.err[x] = "ERROR"
  BY <1>2, <1>4 DEF LetGoSoFar, Releases
<1>7. SameTurn(r, k)
  BY <1>2, <1>4 DEF LetGoSoFar, SameTurn, OnCpu
<1>8. r.wl["recv"] = << >>
  <2>1. r.wl["recv"] \in Seq(Thread) /\ OneList(r)
    BY <1>1, <1>4 DEF LetGoSoFar, Releases, Wf, KernelState
  <2>2. ASSUME NEW x \in Range(r.wl["recv"])
        PROVE  FALSE
    <3>1. x \in Thread /\ r.stat[x] = "suspend"
      BY <1>1, <2>1, RangeOfSeq DEF OneList
    <3>2. x \in Range(u.wl["recv"])
      BY <1>1, <1>4, <3>1 DEF LetGoSoFar, Releases, Untouched
    <3>3. Range(u.wl["recv"]) = {}
      <4>1. u.wl["recv"] \in Seq(Thread)
        BY <1>2
      <4> QED BY <1>2, <4>1, EmptyRange
    <3> QED BY <3>2, <3>3
  <2> QED BY <2>1, <2>2, EmptyRange
<1>9. \A l \in WaitList : r.wl[l] = << >>
  BY <1>4, <1>8, IpcParts
<1>10. D \cup E \in SUBSET Thread
  BY <1>2, <1>4
<1>11. ASSUME NEW x \in D \cup E
       PROVE  k.stat[x] = "suspend"
  <2>1. CASE x \in D
    BY <1>1, <2>1 DEF D, Wf, OneList
  <2>2. CASE x \in E
    <3>1. u.stat[x] = "suspend"
      BY <1>1, <1>3, <2>2 DEF E, Wf, OneList
    <3> QED BY <1>2, <1>4, <2>2, <3>1 DEF LetGoSoFar, Releases, Untouched
  <2> QED BY <2>1, <2>2
<1> QED BY <1>5, <1>6, <1>7, <1>9, <1>10, <1>11

LEMMA ResetWaitersKeeps ==
  ASSUME IpcSound, NEW t \in Thread, ResetWaiters(t), UNCHANGED kind
  PROVE  IpcSound'
<1>1. /\ Begins(t) /\ epoch < Resets /\ k' = ResumeAll(ResumeAll(k, "recv"), "send")
      /\ Goto(t, "schedule") /\ epoch' = epoch + 1
      /\ call' = call /\ alive' = alive /\ last' = last
  BY DEF ResetWaiters
<1>2. t # Idle /\ at[t] = "run" /\ t = k.cur /\ k.stat[t] = "running"
  BY <1>1, AtRuns DEF Begins, MayBlock
<1>3. PICK D \in SUBSET Thread :
        Releases(k', k, D) /\ SameTurn(k', k) /\ \A x \in D : k'.err[x] = "ERROR"
  BY <1>1, ResetReleases
<1>4. last' \in Item \cup {NoItem} /\ epoch' \in 0 .. Resets
  BY <1>1, IpcParts, IpcAssumption
<1>5. Moves(t, "schedule", NoCall)
  BY <1>1, <1>2, <1>4, EndsMoves DEF Waiting, Copying, IpcLabel
<1>6. /\ "schedule" \notin Waiting \cup Copying /\ at[t] \notin Deleting
      /\ \A x \in D \ {t} : k'.err[x] # "EOK"
      /\ UNCHANGED <<alive, kind>>
  BY <1>1, <1>2, <1>3 DEF Waiting, Copying, Deleting
<1> QED BY <1>2, <1>3, <1>5, <1>6, CallEnds

(* The object is marked deleted when all calls but this one are waiting.   *)
LEMMA DeleteKeeps ==
  ASSUME IpcSound, NEW t \in Thread, Delete(t), UNCHANGED kind
  PROVE  IpcSound'
<1>1. /\ Begins(t) /\ Unused(t) /\ alive' = FALSE /\ Goto(t, "deleteTest")
      /\ k' = k /\ call' = call /\ last' = last /\ epoch' = epoch
  BY DEF Delete
<1>2. t # Idle /\ at[t] = "run" /\ t = k.cur /\ k.stat[t] = "running"
  BY <1>1, AtRuns DEF Begins, MayBlock
<1>3. /\ at \in [Thread -> IpcLabel] /\ at' \in [Thread -> IpcLabel] /\ at'[t] = "deleteTest"
      /\ \A x \in Thread \ {t} : at'[x] = at[x]
  BY <1>1, IpcParts DEF Goto, IpcLabel
<1>4. IpcTypeOK' /\ KernelSound' /\ DeletedSound'
  <2>1. IpcTypeOK'
    BY <1>1, <1>3 DEF IpcSound, IpcTypeOK
  <2>2. KernelSound'
    BY <1>1, <1>2, <1>3, IpcParts DEF IpcSound, KernelSound, OnCpu
  <2>3. DeletedSound'
    BY <1>3 DEF DeletedSound, Deleting
  <2> QED BY <2>1, <2>2, <2>3
<1>5. ASSUME NEW x \in Thread
      PROVE  ThreadSound(x)'
  <2>1. ThreadSound(x) /\ ThreadSound(t)
    BY DEF IpcSound
  <2>2. CASE x = t
    <3>1. call[t] = NoCall
      BY <1>2, <2>1 DEF ThreadSound, Waiting, Copying
    <3>2. \A l \in WaitList : t \notin Range(k.wl[l])
      BY <1>2, IpcParts, OnlySuspendedWait
    <3> QED BY <1>1, <1>2, <1>3, <2>2, <3>1, <3>2 DEF ThreadSound, Waiting, Copying, NoCall
  <2>3. CASE x # t
    <3>1. call[x].op # "none" => k.stat[x] = "suspend"
      BY <1>1, <2>3 DEF Unused, NoCall
    <3>2. call[x].op # "none" => at[x] \in Waiting
      BY <2>1, <3>1 DEF ThreadSound, Waiting, Copying, NoCall
    <3> QED BY <1>1, <1>3, <2>1, <2>3, <3>1, <3>2 DEF ThreadSound
  <2> QED BY <2>2, <2>3
<1> QED BY <1>4, <1>5 DEF IpcSound

(* The lists are tested, and a waiter is let go.                           *)
LEMMA DeleteTestKeeps ==
  ASSUME IpcSound, NEW t \in Thread, DeleteTest(t), UNCHANGED kind
  PROVE  IpcSound'
<1> DEFINE a == IF k.wl["recv"] # << >> THEN "deleteRecv"
                ELSE IF k.wl["send"] # << >> THEN "deleteSend" ELSE "run"
<1>1. /\ At(t, "deleteTest") /\ Goto(t, a) /\ k' = k /\ UNCHANGED <<call, alive, last, epoch>>
  BY DEF DeleteTest, ivars
<1>2. /\ a \in IpcLabel /\ a \notin Waiting \cup Copying
      /\ a \in Deleting \/ \A l \in WaitList : k'.wl[l] = << >>
  BY <1>1, IpcParts DEF IpcLabel, Waiting, Copying, Deleting
<1> HIDE DEF a
<1>3. t = k.cur /\ k.stat[t] = "running" /\ at[t] = "deleteTest" /\ t # Idle
  BY <1>1, AtRuns, IpcParts
<1>4. Releases(k', k, {}) /\ SameTurn(k', k)
  BY <1>1, NothingReleased, IpcParts
<1>5. Moves(t, a, NoCall)
  BY <1>1, <1>2, <1>3, EndsMoves, IpcParts DEF Waiting, Copying
<1>6. /\ {} \in SUBSET Thread
      /\ alive \/ \A x \in {} \ {t} : k'.err[x] # "EOK"
      /\ UNCHANGED <<alive, kind>>
  BY <1>1
<1> QED BY <1>2, <1>3, <1>4, <1>5, <1>6, CallEnds

LEMMA DeleteResumeReleases ==
  ASSUME IpcSound, NEW t, NEW a, NEW l \in WaitList, DeleteResume(t, a, l)
  PROVE  \E D \in SUBSET Thread :
           /\ Releases(k', k, D) /\ SameTurn(k', k)
           /\ \A x \in D : k'.err[x] # "EOK" /\ k.stat[x] = "suspend"
<1>1. CASE k.wl[l] = << >>
  <2>1. k' = k
    BY <1>1 DEF DeleteResume
  <2>2. Releases(k', k, {}) /\ SameTurn(k', k)
    BY <2>1, NothingReleased, IpcParts
  <2> QED BY <2>2
<1>2. CASE k.wl[l] # << >>
  <2> DEFINE h == Head(k.wl[l])
  <2>1. k' = Failing(k, h)
    BY <1>2 DEF DeleteResume, Failing
  <2>2. h \in Thread /\ k.stat[h] = "suspend"
    BY <1>2, HeadWaits
  <2> HIDE DEF h
  <2>3. Releases(k', k, {h}) /\ SameTurn(k', k) /\ k'.err[h] = "ERROR"
    BY <2>1, <2>2, FailingReleases, IpcParts
  <2> QED BY <2>2, <2>3
<1> QED BY <1>1, <1>2

LEMMA DeleteResumeKeeps ==
  ASSUME IpcSound, NEW t \in Thread, NEW a \in {"deleteRecv", "deleteSend"}, NEW l \in WaitList,
         DeleteResume(t, a, l), UNCHANGED kind
  PROVE  IpcSound'
<1>1. At(t, a) /\ UNCHANGED <<call, alive, last, epoch>>
  BY DEF DeleteResume, ivars
<1>2. t = k.cur /\ k.stat[t] = "running" /\ at[t] = a /\ t # Idle
  BY <1>1, AtRuns, IpcParts
<1>3. PICK b \in {"fault", "deleteTest"} : Goto(t, b)
  BY DEF DeleteResume
<1>4. PICK D \in SUBSET Thread :
        Releases(k', k, D) /\ SameTurn(k', k) /\ \A x \in D : k'.err[x] # "EOK"
  BY DeleteResumeReleases
<1>5. b \in IpcLabel /\ b \notin Waiting \cup Copying /\ b \in Deleting
  BY DEF IpcLabel, Waiting, Copying, Deleting
<1>6. Moves(t, b, NoCall)
  BY <1>1, <1>2, <1>3, <1>5, EndsMoves, IpcParts DEF Waiting, Copying
<1> QED BY <1>1, <1>2, <1>4, <1>5, <1>6, CallEnds

(* The shared steps together.                                              *)
LEMMA IpcStepKeeps ==
  ASSUME IpcSound, IpcStep, UNCHANGED kind
  PROVE  IpcSound'
<1>1. CASE SliceEnd /\ UNCHANGED ivars
  BY <1>1, SliceEndKeeps
<1>2. ASSUME NEW t \in Thread, Sleep(t) \/ AsleepSchedule(t) \/ WakeUp(t) \/ TimerExpires(t), UNCHANGED ivars
      PROVE  IpcSound'
  BY <1>2, SleepKeeps, SwitchKeeps, WakeUpKeeps, TimerExpiresKeeps DEF AsleepSchedule
<1>3. ASSUME NEW t \in Thread, WaitSchedule(t) \/ EndSchedule(t)
      PROVE  IpcSound'
  BY <1>3, SwitchKeeps, EndScheduleKeeps DEF WaitSchedule
<1>4. ASSUME NEW t \in Thread, Delete(t) \/ DeleteTest(t)
      PROVE  IpcSound'
  BY <1>4, DeleteKeeps, DeleteTestKeeps
<1>5. ASSUME NEW t \in Thread, DeleteResume(t, "deleteRecv", "recv") \/ DeleteResume(t, "deleteSend", "send")
      PROVE  IpcSound'
  BY <1>5, DeleteResumeKeeps, IpcParts
<1> QED BY <1>1, <1>2, <1>3, <1>4, <1>5 DEF IpcStep

(***************************************************************************)
(* The steps of the services.                                              *)
(***************************************************************************)
LEMMA CallTypes ==
  ASSUME NEW x \in Item \cup {NoItem}, NEW timed \in BOOLEAN, NEW op \in {"recv", "send", "urgent"}
  PROVE  [op |-> op, item |-> x, timed |-> timed] \in Call
BY DEF Call

(* A call ends, or goes on, without having met another thread: it changes  *)
(* the error of its own thread at most.                                    *)
OwnError(t) == k' = k \/ \E e \in Err : k' = SetError(k, t, e)

LEMMA OwnErrorReleases ==
  ASSUME IpcSound, NEW t \in Thread, k.stat[t] = "running", OwnError(t)
  PROVE  \E D \in SUBSET Thread :
           /\ Releases(k', k, D) /\ SameTurn(k', k) /\ D \subseteq {t}
           /\ k'.stat = k.stat /\ k'.wl = k.wl
<1>1. CASE k' = k
  <2>1. Releases(k', k, {}) /\ SameTurn(k', k)
    BY <1>1, NothingReleased, IpcParts
  <2> QED BY <1>1, <2>1
<1>2. CASE \E e \in Err : k' = SetError(k, t, e)
  <2>1. Releases(k', k, {t}) /\ SameTurn(k', k) /\ k'.stat = k.stat /\ k'.wl = k.wl
    BY <1>2, SetErrorReleases, IpcParts
  <2> QED BY <2>1
<1> QED BY <1>1, <1>2 DEF OwnError

LEMMA AloneEnds ==
  ASSUME IpcSound, NEW t \in Thread, NEW c, Tries(t, c), OwnError(t), Ends(t, "run"),
         last' \in Item \cup {NoItem}, UNCHANGED <<alive, epoch, kind>>
  PROVE  IpcSound'
<1>1. t = k.cur /\ t # Idle /\ k.stat[t] = "running" /\ alive /\ at[t] \notin Deleting
  BY CallerMayWait DEF MayWait
<1>2. PICK D \in SUBSET Thread : Releases(k', k, D) /\ SameTurn(k', k)
  BY <1>1, OwnErrorReleases
<1>3. /\ Goto(t, "run") /\ call' = [call EXCEPT ![t] = NoCall] /\ epoch' \in 0 .. Resets
      /\ "run" \in IpcLabel /\ "run" \notin Waiting \cup Copying
  BY IpcParts DEF Ends, IpcLabel, Waiting, Copying
<1>4. Moves(t, "run", NoCall)
  BY <1>3, EndsMoves
<1> QED BY <1>1, <1>2, <1>3, <1>4, CallEnds

(* So does a call that ends in one region.                                 *)
LEMMA AtOnce ==
  ASSUME IpcSound, NEW t \in Thread, Begins(t), OwnError(t), last' \in Item \cup {NoItem},
         UNCHANGED <<at, call, alive, epoch, kind>>
  PROVE  IpcSound'
<1>1. Tries(t, NoCall)
  BY DEF Tries
<1>2. t = k.cur /\ t # Idle /\ k.stat[t] = "running" /\ alive
  BY <1>1, CallerMayWait DEF MayWait
<1>3. PICK D \in SUBSET Thread : Releases(k', k, D) /\ SameTurn(k', k)
  BY <1>2, OwnErrorReleases
<1>4. Steps({}) /\ {} \in SUBSET Thread
  BY IpcParts DEF Steps, Parked
<1>5. OnCpu(k')
  BY <1>2, <1>3 DEF SameTurn, OnCpu
<1> QED BY <1>2, <1>3, <1>4, <1>5, ReleaseKeeps

(* Semaphores.                                                             *)
LEMMA SemKeeps ==
  ASSUME IpcSound, SemNext, UNCHANGED kind
  PROVE  IpcSound'
<1>1. Token \in Item /\ "recv" \in WaitList
  BY IpcAssumption DEF Token
<1>2. CASE IpcStep
  BY <1>2, IpcStepKeeps
<1>3. CASE SemReleaseIsr
  BY <1>1, <1>3, IsrWakingKeeps DEF SemReleaseIsr
<1>4. ASSUME NEW t \in Thread, WokenFails(t)
      PROVE  IpcSound'
  BY <1>4, WokenFailsKeeps
<1>5. ASSUME NEW t \in Thread, SemTake(t)
      PROVE  IpcSound'
  BY <1>1, <1>5, AtOnce DEF SemTake, OwnError
<1>6. ASSUME NEW t \in Thread, SemTaken(t)
      PROVE  IpcSound'
  <2>1. PICK timed \in BOOLEAN : GoesOn(t, TakeCall(timed))
    BY <1>6 DEF SemTaken
  <2>2. Tries(t, TakeCall(timed))
    BY <2>1 DEF Tries
  <2> QED BY <1>1, <1>6, <2>2, AloneEnds DEF SemTaken, OwnError
<1>7. ASSUME NEW t \in Thread, SemRelease(t)
      PROVE  IpcSound'
  <2>1. /\ Tries(t, NoCall) /\ EndsWaking(t, "recv") /\ last' = last
        /\ UNCHANGED <<alive, epoch, kind>>
    BY <1>7 DEF SemRelease, Tries
  <2>2. t = k.cur /\ t # Idle /\ k.stat[t] = "running" /\ alive /\ at[t] \notin Deleting
    BY <2>1, CallerMayWait DEF MayWait
  <2> QED BY <1>1, <2>1, <2>2, EndsWakingKeeps, IpcParts
<1>8. ASSUME NEW t \in Thread, SemReset(t)
      PROVE  IpcSound'
  BY <1>8, ResetWaitersKeeps DEF SemReset
<1>9. ASSUME NEW t \in Thread, NEW timed \in BOOLEAN, SemWaits(t, timed)
      PROVE  IpcSound'
  <2>1. TakeCall(timed) \in Call /\ TakeCall(timed).op = "recv" /\ Tries(t, TakeCall(timed))
    BY <1>9, CallTypes DEF TakeCall, SemWaits, Tries
  <2> QED BY <1>1, <1>9, <2>1, WaitsKeeps DEF SemWaits
<1> QED BY <1>2, <1>3, <1>4, <1>5, <1>6, <1>7, <1>8, <1>9 DEF SemNext

(* A call that goes on wakes a thread and ends.                            *)
LEMMA CallWakes ==
  ASSUME IpcSound, NEW t \in Thread, NEW c, Tries(t, c), NEW l \in WaitList, EndsWaking(t, l),
         last' \in Item \cup {NoItem}, UNCHANGED <<alive, epoch, kind>>
  PROVE  IpcSound'
<1>1. t = k.cur /\ t # Idle /\ k.stat[t] = "running" /\ alive /\ at[t] \notin Deleting
  BY CallerMayWait DEF MayWait
<1> QED BY <1>1, EndsWakingKeeps

(* A call that has found nothing ends with the error it was given.         *)
LEMMA ClearsOrSets ==
  ASSUME NEW t \in Thread, NEW e \in {"EOK", "ETIMEOUT"}, NEW b,
         k' = IF b THEN SetError(k, t, e) ELSE k
  PROVE  OwnError(t)
BY DEF OwnError, Err

LEMMA GivesUpTries ==
  ASSUME NEW t, NEW c, GivesUp(t, c)
  PROVE  Tries(t, c)
BY DEF GivesUp, Tries

(* Mailboxes.                                                              *)
LEMMA MbKeeps ==
  ASSUME IpcSound, RingSound, MbNext, kind = "mb", UNCHANGED kind
  PROVE  IpcSound'
<1>1. /\ "recv" \in WaitList /\ "send" \in WaitList
      /\ last \in Item \cup {NoItem} /\ mb.pool[mb.out] \in Item \cup {NoItem}
  BY IpcParts DEF RingSound, Mailbox
<1>2. CASE IpcStep
  BY <1>2, IpcStepKeeps
<1>3. ASSUME NEW x \in Item, MbSendIsr(x)
      PROVE  IpcSound'
  BY <1>1, <1>3, IsrWakingKeeps DEF MbSendIsr
<1>4. ASSUME NEW t \in Thread, WokenFails(t)
      PROVE  IpcSound'
  BY <1>4, WokenFailsKeeps
<1>5. ASSUME NEW t \in Thread, MbReset(t)
      PROVE  IpcSound'
  BY <1>5, ResetWaitersKeeps DEF MbReset
<1>6. ASSUME NEW t \in Thread, NEW timed \in BOOLEAN, NEW c, c = MbRecvCall(timed),
             MbRecv(t, c) \/ MbRecvWaits(t, c) \/ MbRecvFails(t, c)
      PROVE  IpcSound'
  <2>1. c \in Call /\ c.op = "recv"
    BY <1>6, CallTypes DEF MbRecvCall
  <2>2. CASE MbRecv(t, c)
    <3>1. Tries(t, c) /\ EndsWaking(t, "send") /\ last' = mb.pool[mb.out] /\ UNCHANGED <<alive, epoch, kind>>
      BY <2>2 DEF MbRecv
    <3> QED BY <1>1, <3>1, CallWakes
  <2>3. CASE MbRecvWaits(t, c)
    BY <1>1, <2>1, <2>3, WaitsKeeps DEF MbRecvWaits
  <2>4. CASE MbRecvFails(t, c)
    <3>1. /\ Tries(t, c) /\ Ends(t, "run") /\ last' = last /\ UNCHANGED <<alive, epoch, kind>>
          /\ k' = IF At(t, "woken") THEN SetError(k, t, "ETIMEOUT") ELSE k
      BY <2>4, GivesUpTries DEF MbRecvFails, SetError
    <3>2. OwnError(t)
      BY <3>1, ClearsOrSets
    <3> QED BY <1>1, <3>1, <3>2, AloneEnds
  <2> QED BY <1>6, <2>2, <2>3, <2>4
<1>7. ASSUME NEW t \in Thread, NEW x \in Item, NEW timed \in BOOLEAN, NEW c, c = MbSendCall(x, timed),
             MbSend(t, c) \/ MbSendWaits(t, c) \/ MbSendFails(t, c)
      PROVE  IpcSound'
  <2>1. c \in Call /\ c.op = "send"
    BY <1>7, CallTypes DEF MbSendCall
  <2>2. CASE MbSend(t, c)
    <3>1. Tries(t, c) /\ EndsWaking(t, "recv") /\ last' = last /\ UNCHANGED <<alive, epoch, kind>>
      BY <2>2 DEF MbSend
    <3> QED BY <1>1, <3>1, CallWakes
  <2>3. CASE MbSendWaits(t, c)
    BY <1>1, <2>1, <2>3, WaitsKeeps DEF MbSendWaits
  <2>4. CASE MbSendFails(t, c)
    <3>1. /\ Tries(t, c) /\ Ends(t, "run") /\ last' = last /\ UNCHANGED <<alive, epoch, kind>>
          /\ k' = IF At(t, "woken") THEN SetError(k, t, "EOK") ELSE k
      BY <2>4, GivesUpTries DEF MbSendFails, SetError, ClearError
    <3>2. OwnError(t)
      BY <3>1, ClearsOrSets
    <3> QED BY <1>1, <3>1, <3>2, AloneEnds
  <2> QED BY <1>7, <2>2, <2>3, <2>4
<1> QED BY <1>2, <1>3, <1>4, <1>5, <1>6, <1>7 DEF MbNext

(* Memory pools.                                                           *)
LEMMA MpKeeps ==
  ASSUME IpcSound, PoolSound, MpNext, UNCHANGED kind
  PROVE  IpcSound'
<1>1. "recv" \in WaitList /\ last \in Item \cup {NoItem}
  BY IpcParts
<1>2. CASE IpcStep
  BY <1>2, IpcStepKeeps
<1>3. ASSUME NEW b \in Blocks, MpFreeIsr(b)
      PROVE  IpcSound'
  BY <1>1, <1>3, IsrWakingKeeps DEF MpFreeIsr
<1>4. ASSUME NEW t \in Thread, WokenFails(t)
      PROVE  IpcSound'
  BY <1>4, WokenFailsKeeps
<1>5. ASSUME NEW t \in Thread, NEW b \in Blocks, MpFree(t, b)
      PROVE  IpcSound'
  <2>1. Tries(t, NoCall) /\ EndsWaking(t, "recv") /\ last' = last /\ UNCHANGED <<alive, epoch, kind>>
    BY <1>5 DEF MpFree, Tries
  <2> QED BY <1>1, <2>1, CallWakes
<1>6. ASSUME NEW t \in Thread, NEW timed \in BOOLEAN, NEW c, c = MpCall(timed),
             MpAlloc(t, c) \/ MpWaits(t, c) \/ MpFails(t, c)
      PROVE  IpcSound'
  <2>1. c \in Call /\ c.op = "recv"
    BY <1>6, CallTypes DEF MpCall
  <2>2. CASE MpAlloc(t, c)
    <3>1. /\ Tries(t, c) /\ Ends(t, "run") /\ k' = k /\ last' = Head(mp.list) /\ mp.count > 0
          /\ UNCHANGED <<alive, epoch, kind>>
      BY <2>2 DEF MpAlloc
    <3>2. Head(mp.list) \in Item
      <4>1. mp.list \in Seq(Item) /\ mp.list # << >>
        <5>1. mp.list \in Seq(Item) /\ Len(mp.list) > 0
          BY <3>1 DEF PoolSound
        <5> QED BY <5>1, EmptySeq
      <4> QED BY <4>1, HeadTailProperties
    <3> QED BY <3>1, <3>2, AloneEnds DEF OwnError
  <2>3. CASE MpWaits(t, c)
    <3>1. k' = PoolWaitsIn(k, t, "recv", c)
      BY <2>3 DEF MpWaits, PoolWaitsIn, WithList, Pushed
    <3>2. /\ Tries(t, c) /\ Goto(t, "wait") /\ call' = [call EXCEPT ![t] = c]
          /\ UNCHANGED <<alive, last, epoch, kind>>
      BY <2>3 DEF MpWaits
    <3>3. MayWait(k, t)
      BY <3>2, CallerMayWait
    <3>4. Suspends(k', k, t) /\ In(k', t, "recv") /\ k'.err[t] = "EOK"
      BY <1>1, <3>1, <3>3, PoolWaitSuspends
    <3> QED BY <1>1, <2>1, <3>2, <3>4, WaitingKeeps
  <2>4. CASE MpFails(t, c)
    <3>1. /\ Tries(t, c) /\ Ends(t, "run") /\ last' = last /\ UNCHANGED <<alive, epoch, kind>>
          /\ k' = SetError(k, t, "ETIMEOUT") /\ "ETIMEOUT" \in Err
      BY <2>4, GivesUpTries DEF MpFails, SetError, Err
    <3> QED BY <1>1, <3>1, AloneEnds DEF OwnError
  <2> QED BY <1>6, <2>2, <2>3, <2>4
<1> QED BY <1>2, <1>3, <1>4, <1>5, <1>6 DEF MpNext

(* A call on a message queue goes on to copy, outside the locked region.   *)
LEMMA CopyingKeeps ==
  ASSUME IpcSound, kind = "mq", NEW t \in Thread, NEW c, Tries(t, c), NEW d \in Call, d.op # "none",
         NEW a \in Copying, Goto(t, a), call' = [call EXCEPT ![t] = d], k' = k,
         last' \in Item \cup {NoItem}, UNCHANGED <<alive, epoch, kind>>
  PROVE  IpcSound'
<1>1. t = k.cur /\ t # Idle /\ k.stat[t] = "running" /\ alive /\ at[t] \notin Deleting
  BY CallerMayWait DEF MayWait
<1>2. Releases(k', k, {}) /\ SameTurn(k', k)
  BY NothingReleased, IpcParts
<1>3. a \in IpcLabel /\ call \in [Thread -> Call] /\ at \in [Thread -> IpcLabel]
  BY IpcParts DEF Copying, IpcLabel
<1>4. Moves(t, a, d) /\ at'[t] = a /\ call'[t] = d
  BY <1>3, IpcParts DEF Moves, Goto
<1>5. ThreadSound(t)'
  <2>1. \A l \in WaitList : t \notin Range(k.wl[l])
    BY <1>1, IpcParts, OnlySuspendedWait
  <2> QED BY <1>1, <1>4, <2>1 DEF ThreadSound, Waiting, Copying
<1>6. Steps({t}) /\ {t} \in SUBSET Thread /\ {} \in SUBSET Thread
  BY <1>1, <1>4, <1>5, MovesSteps
<1>7. OnCpu(k')
  BY <1>1 DEF OnCpu
<1> QED BY <1>1, <1>2, <1>6, <1>7, ReleaseKeeps

(* And from there wakes a thread and ends.                                 *)
LEMMA CopiedKeeps ==
  ASSUME IpcSound, NEW t \in Thread, NEW a \in Copying, At(t, a), NEW l \in WaitList, EndsWaking(t, l),
         UNCHANGED <<alive, last, epoch, kind>>
  PROVE  IpcSound'
<1>1. t = k.cur /\ k.stat[t] = "running" /\ at[t] = a /\ t # Idle
  BY AtRuns, IpcParts DEF Copying
<1>2. alive /\ at[t] \notin Deleting
  BY <1>1, IpcParts DEF ThreadSound, Copying, Waiting, Deleting
<1> QED BY <1>1, <1>2, EndsWakingKeeps, IpcParts

(* Message queues.                                                         *)
LEMMA MqKeeps ==
  ASSUME IpcSound, SlotSound, MqNext, kind = "mq", UNCHANGED kind
  PROVE  IpcSound'
<1>1. "recv" \in WaitList /\ "send" \in WaitList /\ last \in Item \cup {NoItem}
  BY IpcParts
<1>2. CASE IpcStep
  BY <1>2, IpcStepKeeps
<1>3. ASSUME NEW x \in Item, NEW op, MqSendIsr(x, op)
      PROVE  IpcSound'
  BY <1>1, <1>3, IsrWakingKeeps DEF MqSendIsr, ivars
<1>4. ASSUME NEW t \in Thread, WokenFails(t)
      PROVE  IpcSound'
  BY <1>4, WokenFailsKeeps
<1>5. ASSUME NEW t \in Thread, MqReset(t)
      PROVE  IpcSound'
  BY <1>5, ResetWaitersKeeps DEF MqReset
<1>6. ASSUME NEW t \in Thread, MqLink(t)
      PROVE  IpcSound'
  BY <1>1, <1>6, CopiedKeeps DEF MqLink, Copying
<1>7. ASSUME NEW t \in Thread, MqFree(t)
      PROVE  IpcSound'
  BY <1>1, <1>7, CopiedKeeps DEF MqFree, Copying
<1>8. ASSUME NEW t \in Thread, NEW c \in Call, c.op # "none", Tries(t, c), Allocates(t, c)
      PROVE  IpcSound'
  <2>1. /\ Goto(t, "copyIn") /\ call' = [call EXCEPT ![t] = c] /\ k' = k /\ last' = last
        /\ UNCHANGED <<alive, epoch, kind>> /\ "copyIn" \in Copying
    BY <1>8 DEF Allocates, Copying
  <2> QED BY <1>1, <1>8, <2>1, CopyingKeeps
<1>9. ASSUME NEW t \in Thread, NEW timed \in BOOLEAN, NEW c, c = MqRecvCall(timed),
             MqRecv(t, c) \/ MqRecvWaits(t, c) \/ MqRecvFails(t, c)
      PROVE  IpcSound'
  <2>1. c \in Call /\ c.op = "recv"
    BY <1>9, CallTypes DEF MqRecvCall
  <2>2. CASE MqRecv(t, c)
    <3> DEFINE d == [c EXCEPT !.item = last']
    <3>1. /\ Tries(t, c) /\ Goto(t, "copyOut") /\ call' = [call EXCEPT ![t] = d] /\ k' = k
          /\ last' = mq.content[Head(mq.queue)] /\ mq.entry > 0 /\ UNCHANGED <<alive, epoch, kind>>
      BY <2>2 DEF MqRecv
    <3>2. last' \in Item \cup {NoItem}
      <4>1. mq.queue \in Seq(Slot) /\ Len(mq.queue) > 0 /\ mq.content \in [Slot -> Message]
        BY <3>1 DEF SlotSound, MqState
      <4>2. mq.queue # << >>
        BY <4>1, EmptySeq
      <4>3. Head(mq.queue) \in Slot
        BY <4>1, <4>2, HeadTailProperties
      <4> QED BY <3>1, <4>1, <4>3 DEF Message
    <3>3. d \in Call /\ d.op # "none" /\ "copyOut" \in Copying
      BY <2>1, <3>2 DEF Call, Copying
    <3> HIDE DEF d
    <3> QED BY <3>1, <3>2, <3>3, CopyingKeeps
  <2>3. CASE MqRecvWaits(t, c)
    BY <1>1, <2>1, <2>3, WaitsKeeps DEF MqRecvWaits
  <2>4. CASE MqRecvFails(t, c)
    <3>1. /\ Tries(t, c) /\ Ends(t, "run") /\ last' = last /\ UNCHANGED <<alive, epoch, kind>>
          /\ k' = IF At(t, "woken") THEN SetError(k, t, "ETIMEOUT") ELSE k
      BY <2>4, GivesUpTries DEF MqRecvFails, SetError
    <3>2. OwnError(t)
      BY <3>1, ClearsOrSets
    <3> QED BY <1>1, <3>1, <3>2, AloneEnds
  <2> QED BY <1>9, <2>2, <2>3, <2>4
<1>10. ASSUME NEW t \in Thread, NEW x \in Item, NEW timed \in BOOLEAN, NEW c, c = MqSendCall(x, timed),
              MqSend(t, c) \/ MqSendWaits(t, c) \/ MqSendFails(t, c)
       PROVE  IpcSound'
  <2>1. c \in Call /\ c.op = "send"
    BY <1>10, CallTypes DEF MqSendCall
  <2>2. CASE MqSend(t, c)
    BY <1>8, <2>1, <2>2 DEF MqSend
  <2>3. CASE MqSendWaits(t, c)
    BY <1>1, <2>1, <2>3, WaitsKeeps DEF MqSendWaits
  <2>4. CASE MqSendFails(t, c)
    <3>1. /\ Tries(t, c) /\ Ends(t, "run") /\ last' = last /\ UNCHANGED <<alive, epoch, kind>>
          /\ k' = IF At(t, "woken") THEN SetError(k, t, "EOK") ELSE k
      BY <2>4, GivesUpTries DEF MqSendFails, SetError, ClearError
    <3>2. OwnError(t)
      BY <3>1, ClearsOrSets
    <3> QED BY <1>1, <3>1, <3>2, AloneEnds
  <2> QED BY <1>10, <2>2, <2>3, <2>4
<1>11. ASSUME NEW t \in Thread, NEW x \in Item, MqUrgent(t, MqUrgentCall(x))
       PROVE  IpcSound'
  <2>1. MqUrgentCall(x) \in Call /\ MqUrgentCall(x).op # "none"
    BY CallTypes DEF MqUrgentCall
  <2> QED BY <1>8, <1>11, <2>1 DEF MqUrgent, Tries
<1> QED BY <1>2, <1>3, <1>4, <1>5, <1>6, <1>7, <1>9, <1>10, <1>11 DEF MqNext

(***************************************************************************)
(* rt_event_send looks at one waiter after the other.                      *)
(***************************************************************************)
Serve == INSTANCE FoldSteps WITH Op <- Served

LEMMA SentSteps ==
  ASSUME NEW bits, NEW n \in Nat, DOMAIN k.wl["recv"] = 1 .. n
  PROVE  \E f : /\ f[0] = [k |-> k, set |-> set \cup bits, want |-> want] /\ Sent(bits) = f[n]
                /\ \A i \in 1 .. n : f[i] = Served(f[i - 1], k.wl["recv"][i])
<1> DEFINE s == k.wl["recv"]
           e == [k |-> k, set |-> set \cup bits, want |-> want]
<1>1. Sent(bits) = Serve!Folded(e, s)
  BY DEF Sent, Serve!Folded, FoldLeft, Serve!FoldLeft, MapThenFoldSet, Serve!MapThenFoldSet, Max, Serve!Max
<1> HIDE DEF s, e
<1>2. PICK f : Serve!InSteps(f, e, s, n) /\ Serve!Folded(e, s) = f[n]
  <2>1. DOMAIN s = 1 .. n
    BY DEF s
  <2> QED BY <2>1, Serve!FoldsInSteps
<1>3. /\ f[0] = e /\ Sent(bits) = f[n]
      /\ \A i \in 1 .. n : f[i] = Served(f[i - 1], s[i])
  BY <1>1, <1>2 DEF Serve!InSteps
<1> QED BY <1>3 DEF s, e

EventTyped == set \subseteq Bit /\ want \in [Thread -> Want]

(* Of the waiters S that have been looked at, those of D have been let go, *)
(* with what was in the set then; the others want what is not in it.       *)
Looked(e, S, D) ==
  /\ Releases(e.k, k, D) /\ SameTurn(e.k, k) /\ e.k.err = k.err
  /\ D \subseteq S
  /\ e.set \subseteq Bit /\ e.want \in [Thread -> Want]
  /\ \A x \in Thread \ D : e.want[x] = want[x]
  /\ \A x \in S \ D : ~ Satisfied(want[x], e.set)
  /\ \A x \in D : e.want[x].clear => e.want[x].bits \cap e.set = {}
  /\ \A x, y \in D : x # y /\ e.want[x].clear /\ e.want[y].clear => e.want[x].bits \cap e.want[y].bits = {}

(* Who does not want what is there does not want what is left of it.       *)
LEMMA WantsLess ==
  ASSUME NEW w, NEW s, NEW r, r \subseteq s, ~ Satisfied(w, s)
  PROVE  ~ Satisfied(w, r)
BY DEF Satisfied

LEMMA ClearedLess ==
  ASSUME NEW w, NEW s
  PROVE  Cleared(w, s) \subseteq s /\ (w.clear => w.bits \cap Cleared(w, s) = {})
BY DEF Cleared

LEMMA ServedLooks ==
  ASSUME NEW a, NEW S \in SUBSET Thread, NEW D \in SUBSET Thread, Looked(a, S, D),
         NEW t \in Thread, t \notin S, k.stat[t] = "suspend", NEW b, b = Served(a, t)
  PROVE  \E E \in SUBSET Thread : Looked(b, S \cup {t}, E)
<1>1. a.want[t] = want[t] /\ t \notin D
  BY DEF Looked
<1>2. CASE ~ Satisfied(a.want[t], a.set)
  <2>1. b = a
    BY <1>2 DEF Served
  <2>2. \A x \in (S \cup {t}) \ D : ~ Satisfied(want[x], a.set)
    BY <1>1, <1>2 DEF Looked
  <2>3. Looked(b, S \cup {t}, D)
    BY <2>1, <2>2 DEF Looked
  <2> QED BY <2>3
<1>3. CASE Satisfied(a.want[t], a.set)
  <2> DEFINE w == [a.want[t] EXCEPT !.bits = @ \cap a.set]
             E == D \cup {t}
  <2>1. b.k = Resume(a.k, t) /\ b.set = Cleared(w, a.set) /\ b.want = [a.want EXCEPT ![t] = w]
    BY <1>3 DEF Served
  <2>2. w \in Want /\ w.bits \subseteq a.set
    <3>1. a.want[t] \in Want
      BY DEF Looked
    <3> QED BY <3>1 DEF Want
  <2> HIDE DEF w
  <2>3. b.set \subseteq a.set /\ (w.clear => w.bits \cap b.set = {})
    BY <2>1, ClearedLess
  <2>4. b.want \in [Thread -> Want] /\ b.want[t] = w /\ \A x \in Thread \ {t} : b.want[x] = a.want[x]
    BY <2>1, <2>2 DEF Looked
  <2>5. Releases(b.k, k, E) /\ SameTurn(b.k, k) /\ b.k.err = k.err
    <3> DEFINE q == a.k
               r == b.k
    <3>1. Releases(q, k, D) /\ SameTurn(q, k) /\ q.err = k.err
      BY DEF Looked
    <3>2. r = Resume(q, t)
      BY <2>1
    <3> HIDE DEF q, r
    <3>3. Wf(q, Thread) /\ OneRuns(q) /\ q.stat[t] = "suspend"
      BY <1>1, <3>1 DEF Releases, Untouched
    <3>4. Releases(r, q, {t}) /\ SameTurn(r, q) /\ r.err = q.err
      BY <3>2, <3>3, ResumeReleases
    <3>5. Releases(r, k, E)
      BY <3>1, <3>4, ReleasesTwice
    <3>6. SameTurn(r, k)
      BY <3>1, <3>4 DEF SameTurn
    <3> QED BY <3>1, <3>4, <3>5, <3>6 DEF q, r
  <2>6. \A x \in Thread \ E : b.want[x] = want[x]
    BY <2>4 DEF Looked
  <2>7. \A x \in (S \cup {t}) \ E : ~ Satisfied(want[x], b.set)
    BY <2>3, WantsLess DEF Looked
  <2>8. \A x \in E : b.want[x].clear => b.want[x].bits \cap b.set = {}
    BY <1>1, <2>3, <2>4 DEF Looked
  <2>9. \A x \in D : b.want[x] = a.want[x] /\ (b.want[x].clear => b.want[x].bits \cap w.bits = {})
    BY <1>1, <2>2, <2>4 DEF Looked
  <2>10. ASSUME NEW x \in E, NEW y \in E, x # y, b.want[x].clear, b.want[y].clear
         PROVE  b.want[x].bits \cap b.want[y].bits = {}
    <3>1. CASE x = t
      BY <2>4, <2>9, <2>10, <3>1
    <3>2. CASE y = t
      BY <2>4, <2>9, <2>10, <3>2
    <3>3. CASE x \in D /\ y \in D
      BY <2>9, <2>10, <3>3 DEF Looked
    <3> QED BY <3>1, <3>2, <3>3
  <2>11. b.set \subseteq Bit /\ E \subseteq S \cup {t}
    BY <2>3 DEF Looked
  <2>12. Looked(b, S \cup {t}, E)
    BY <2>4, <2>5, <2>6, <2>7, <2>8, <2>10, <2>11 DEF Looked
  <2> QED BY <2>12
<1> QED BY <1>2, <1>3

LEMMA SentLooks ==
  ASSUME IpcSound, EventTyped, NEW bits \in SUBSET Bit, NEW e, e = Sent(bits)
  PROVE  \E D \in SUBSET Thread : Looked(e, Range(k.wl["recv"]), D)
<1> DEFINE s == k.wl["recv"]
<1>1. /\ s \in Seq(Thread) /\ IsInjective(s)
      /\ \A x \in Range(s) : k.stat[x] = "suspend"
  BY IpcParts DEF Wf, OneList, KernelState
<1> HIDE DEF s
<1>2. PICK n \in Nat : DOMAIN s = 1 .. n
  BY <1>1, LenProperties
<1>3. /\ \A i \in 1 .. n : s[i] \in Thread /\ k.stat[s[i]] = "suspend"
      /\ Range(s) = FirstOf(s, n)
  BY <1>1, <1>2, ElementOfSeq DEF Range, FirstOf
<1> DEFINE base == [k |-> k, set |-> set \cup bits, want |-> want]
<1>4. PICK f : /\ f[0] = base /\ e = f[n]
               /\ \A i \in 1 .. n : f[i] = Served(f[i - 1], s[i])
  BY <1>2, SentSteps DEF s
<1> DEFINE S == {i \in Nat : i <= n => \E D \in SUBSET Thread : Looked(f[i], FirstOf(s, i), D)}
<1>5. 0 \in S
  <2>1. FirstOf(s, 0) = {}
    BY DEF FirstOf
  <2>2. Releases(k, k, {}) /\ SameTurn(k, k)
    BY NothingReleased, IpcParts
  <2>3. Looked(base, {}, {})
    BY <2>2 DEF Looked, EventTyped
  <2> QED BY <1>4, <2>1, <2>3
<1>6. ASSUME NEW i \in Nat, i \in S
      PROVE  i + 1 \in S
  <2> SUFFICES ASSUME i + 1 <= n
               PROVE  \E D \in SUBSET Thread : Looked(f[i + 1], FirstOf(s, i + 1), D)
    OBVIOUS
  <2> DEFINE F == FirstOf(s, i)
             t == s[i + 1]
             a == f[i]
             b == f[i + 1]
  <2>1. /\ i + 1 \in 1 .. n /\ (i + 1) - 1 = i /\ i <= n
        /\ \A j \in 1 .. i : j \in 1 .. n /\ j # i + 1
    OBVIOUS
  <2>2. (\E D \in SUBSET Thread : Looked(a, F, D)) /\ b = Served(a, t) /\ t \in Thread /\ k.stat[t] = "suspend"
    BY <1>3, <1>4, <1>6, <2>1
  <2>3. F \in SUBSET Thread /\ t \notin F /\ FirstOf(s, i + 1) = F \cup {t}
    <3>1. \A j \in 1 .. i : s[j] # t
      BY <1>1, <1>2, <2>1 DEF IsInjective
    <3>2. F \in SUBSET Thread /\ t \notin F
      BY <1>3, <2>1, <3>1 DEF FirstOf
    <3>3. 1 .. i + 1 = (1 .. i) \cup {i + 1}
      OBVIOUS
    <3>4. FirstOf(s, i + 1) = F \cup {t}
      BY <3>3 DEF FirstOf
    <3> QED BY <3>2, <3>4
  <2> HIDE DEF F, t, a, b
  <2>4. \E D \in SUBSET Thread : Looked(b, F \cup {t}, D)
    BY <2>2, <2>3, ServedLooks
  <2> QED BY <2>3, <2>4 DEF b
<1> HIDE DEF S
<1>7. n \in S
  BY <1>5, <1>6, Serve!SetInduction
<1> QED BY <1>3, <1>4, <1>7 DEF S, s

(* Event sets.                                                             *)
LEMMA EvKeeps ==
  ASSUME IpcSound, EventTyped, EvNext, UNCHANGED kind
  PROVE  IpcSound'
<1>1. "recv" \in WaitList /\ last \in Item \cup {NoItem} /\ k.nest = 0
  BY IpcParts
<1>2. CASE IpcStep
  BY <1>2, IpcStepKeeps
<1>3. ASSUME NEW bits \in SUBSET Bit, NEW e, e = Sent(bits), k' = e.k
      PROVE  \E D \in SUBSET Thread : Releases(k', k, D) /\ SameTurn(k', k)
  BY <1>3, SentLooks DEF Looked
<1>4. ASSUME NEW bits \in SUBSET Bit, EvSendIsr(bits)
      PROVE  IpcSound'
  <2> DEFINE e == Sent(bits)
             r == e.k
  <2>1. PICK D \in SUBSET Thread : Releases(r, k, D) /\ SameTurn(r, k)
    <3> HIDE DEF e
    <3>1. e = Sent(bits)
      BY DEF e
    <3> QED BY <3>1, SentLooks DEF Looked
  <2>2. k' = (IF r = k THEN k ELSE Schedule(r)) /\ alive /\ UNCHANGED <<at, call, alive, last, epoch>>
    BY <1>4 DEF EvSendIsr
  <2> HIDE DEF r
  <2>3. PICK E \in SUBSET Thread : /\ Releases(k', k, E)
                                   /\ OnCpu(k') \/ (k'.cur = k.cur /\ k'.stat = k.stat)
    <3>1. CASE r = k
      <4>1. k' = k
        BY <2>2, <3>1
      <4>2. Releases(k', k, {})
        BY <4>1, NothingReleased, IpcParts
      <4> QED BY <4>1, <4>2
    <3>2. CASE r # k
      <4>1. k' = Schedule(r)
        BY <2>2, <3>2
      <4>2. Wf(r, Thread) /\ OneRuns(r) /\ r.nest = 0
        BY <1>1, <2>1 DEF Releases
      <4>3. Releases(k', r, {}) /\ OnCpu(k')
        BY <4>1, <4>2, ScheduleReleases
      <4>4. {} \in SUBSET Thread /\ D \cup {} \in SUBSET Thread
        OBVIOUS
      <4>5. Releases(k', k, D \cup {})
        BY <2>1, <4>3, <4>4, ReleasesTwice
      <4> QED BY <4>3, <4>4, <4>5
    <3> QED BY <3>1, <3>2
  <2>4. Steps({}) /\ {} \in SUBSET Thread
    BY <2>2, StaysSteps
  <2>5. OnCpu(k') \/ at'[k'.cur] \in {"wait", "asleep"}
    BY <2>2, <2>3 DEF IpcSound, KernelSound, OnCpu
  <2>6. UNCHANGED <<alive, kind>>
    BY <1>4, <2>2
  <2> QED BY <2>2, <2>3, <2>4, <2>5, <2>6, ReleaseKeeps
<1>5. ASSUME NEW bits \in SUBSET Bit, NEW t \in Thread, EvSend(t, bits)
      PROVE  IpcSound'
  <2> DEFINE e == Sent(bits)
             a == IF e.k = k THEN "run" ELSE "schedule"
  <2>1. /\ k' = e.k /\ Goto(t, a) /\ Begins(t)
        /\ call' = call /\ alive' = alive /\ last' = last /\ epoch' = epoch
    BY <1>5 DEF EvSend, ivars
  <2>2. a \in IpcLabel /\ a \notin Waiting \cup Copying
    BY DEF IpcLabel, Waiting, Copying
  <2>3. PICK D \in SUBSET Thread : Releases(k', k, D) /\ SameTurn(k', k)
    BY <1>3, <2>1
  <2> HIDE DEF a, e
  <2>4. t = k.cur /\ t # Idle /\ k.stat[t] = "running" /\ at[t] = "run" /\ alive
    BY <2>1, AtRuns DEF Begins, MayBlock
  <2>5. at[t] \notin Waiting \cup Copying /\ at[t] \notin Deleting
    BY <2>4 DEF Waiting, Copying, Deleting
  <2>6. Moves(t, a, NoCall)
    BY <1>1, <2>1, <2>2, <2>5, EndsMoves, IpcParts
  <2> QED BY <1>5, <2>1, <2>2, <2>3, <2>4, <2>5, <2>6, CallEnds
<1>6. ASSUME NEW t \in Thread, EvReceived(t)
      PROVE  IpcSound'
  <2>1. PICK timed \in BOOLEAN : GoesOn(t, EvCall(timed))
    BY <1>6 DEF EvReceived
  <2>2. Tries(t, EvCall(timed))
    BY <2>1 DEF Tries
  <2> QED BY <1>1, <1>6, <2>2, AloneEnds DEF EvReceived, OwnError
<1>7. ASSUME NEW t \in Thread, EvFails(t)
      PROVE  IpcSound'
  BY <1>7, WokenFailsKeeps DEF EvFails
<1>8. ASSUME NEW t \in Thread, EvReset(t)
      PROVE  IpcSound'
  BY <1>8, ResetWaitersKeeps DEF EvReset
<1>9. ASSUME NEW t \in Thread, NEW w, EvRecv(t, w) \/ EvRecvFails(t, w)
      PROVE  IpcSound'
  <2>1. Begins(t) /\ UNCHANGED <<at, call, alive, last, epoch, kind>>
    BY <1>9 DEF EvRecv, EvRecvFails
  <2>2. k' = SetError(k, t, "EOK") \/ k' = SetError(k, t, "ETIMEOUT")
    BY <1>9 DEF EvRecv, EvRecvFails, ClearError, SetError
  <2>3. OwnError(t)
    BY <2>2 DEF OwnError, Err
  <2> QED BY <1>1, <2>1, <2>3, AtOnce
<1>10. ASSUME NEW t \in Thread, NEW w, NEW timed \in BOOLEAN, EvRecvWaits(t, w, timed)
       PROVE  IpcSound'
  <2>1. EvCall(timed) \in Call /\ EvCall(timed).op = "recv" /\ Tries(t, EvCall(timed))
    BY <1>10, CallTypes DEF EvCall, EvRecvWaits, Tries
  <2> QED BY <1>1, <1>10, <2>1, WaitsKeeps DEF EvRecvWaits
<1> QED BY <1>2, <1>4, <1>5, <1>6, <1>7, <1>8, <1>9, <1>10 DEF EvNext

(***************************************************************************)
(* Who waits, and who is on the way to what it was woken for.              *)
(***************************************************************************)
(* The threads of M are on their way no more, and nobody is new on the way *)
(* or in a list.                                                           *)
Leaves(M) == Shrinks /\ \A o \in WaitList : OnTheirWay(o)' = OnTheirWay(o) \ M

LEMMA WayParked ==
  ASSUME NEW D \in SUBSET Thread, Releases(k', k, D), NEW x \in Thread \ D, Parked(x),
         NEW o \in WaitList
  PROVE  x \in OnTheirWay(o)' <=> x \in OnTheirWay(o)
BY DEF Releases, Untouched, Parked, OnTheirWay

LEMMA ReleaseLeaves ==
  ASSUME IpcSound, NEW D \in SUBSET Thread, Releases(k', k, D),
         NEW M \in SUBSET Thread, \A x \in Thread \ M : Parked(x), \A x \in M : at'[x] \notin Waiting,
         \A x \in D \ M : k'.err[x] # "EOK" /\ k.stat[x] = "suspend"
  PROVE  Leaves(M)
<1>1. Shrinks
  BY ReleasedShrinks
<1>2. ASSUME NEW o \in WaitList, NEW x \in Thread
      PROVE  x \in OnTheirWay(o)' <=> x \in OnTheirWay(o) /\ x \notin M
  <2>1. CASE x \in M
    BY <2>1 DEF OnTheirWay, Waiting
  <2>2. CASE x \in D \ M
    BY <2>2 DEF OnTheirWay
  <2>3. CASE x \notin M /\ x \notin D
    BY <2>3, WayParked
  <2> QED BY <2>1, <2>2, <2>3
<1>3. \A o \in WaitList : OnTheirWay(o) \subseteq Thread /\ OnTheirWay(o)' \subseteq Thread
  BY DEF OnTheirWay
<1> QED BY <1>1, <1>2, <1>3 DEF Leaves

(* A thread that is not in a wait is not on its way.                       *)
LEMMA LeavesNobody ==
  ASSUME NEW M \in SUBSET Thread, Leaves(M), \A x \in M : at[x] \notin Waiting \/ k.err[x] # "EOK"
  PROVE  Leaves({})
BY DEF Leaves, OnTheirWay, Waiting

(* What moves one call only parks the others.                              *)
LEMMA OthersParked ==
  ASSUME IpcSound, NEW t \in Thread, NEW a, Goto(t, a), NEW c,
         UNCHANGED call \/ call' = [call EXCEPT ![t] = c]
  PROVE  at'[t] = a /\ \A x \in Thread \ {t} : Parked(x)
BY IpcParts DEF Goto, Parked

LEMMA IpcStepLeaves ==
  ASSUME IpcSound, IpcStep
  PROVE  Leaves({})
<1>1. /\ "recv" \in WaitList /\ "send" \in WaitList
      /\ Wf(k, Thread) /\ OneRuns(k) /\ k.nest = 0
  BY IpcParts
<1>2. ASSUME UNCHANGED <<at, call>>
      PROVE  \A x \in Thread \ {} : Parked(x)
  BY <1>2 DEF Parked
<1>3. CASE SliceEnd /\ UNCHANGED ivars
  <2>1. Releases(k', k, {}) /\ {} \in SUBSET Thread /\ UNCHANGED <<at, call>>
    BY <1>3, SliceEndReleases DEF SliceEnd, ivars
  <2> QED BY <1>2, <2>1, ReleaseLeaves
<1>4. ASSUME NEW t \in Thread, TimerExpires(t), UNCHANGED ivars
      PROVE  Leaves({})
  <2>1. Releases(k', k, {t}) /\ k'.err[t] = "ETIMEOUT"
    BY <1>1, <1>4, TimeoutReleases DEF TimerExpires
  <2>2. k.stat[t] = "suspend" /\ UNCHANGED <<at, call>>
    BY <1>1, <1>4 DEF TimerExpires, ivars, Wf, TimersOfSuspended
  <2>3. {} \in SUBSET Thread /\ {t} \in SUBSET Thread
    OBVIOUS
  <2> QED BY <1>2, <2>1, <2>2, <2>3, ReleaseLeaves
<1>5. ASSUME NEW t \in Thread, Sleep(t), UNCHANGED ivars
      PROVE  Leaves({})
  <2> DEFINE u == Suspend(k, t)
  <2>1. At(t, "run") /\ t # Idle /\ k' = StartTimer(u, t) /\ Goto(t, "asleep") /\ UNCHANGED call
    BY <1>5 DEF Sleep, MayBlock, ivars
  <2>2. k.stat[t] = "running" /\ at[t] = "run" /\ MayWait(k, t)
    BY <1>1, <2>1, AtRuns DEF MayWait
  <2>3. Suspends(u, k, t) /\ Loose(u, t)
    <3> HIDE DEF u
    <3>1. u = Suspend(k, t)
      BY DEF u
    <3> QED BY <2>2, <3>1, SuspendSuspends
  <2> HIDE DEF u
  <2>4. Suspends(k', k, t) /\ k'.wl = u.wl
    BY <2>1, <2>3, TimedSuspends
  <2>5. at'[t] = "asleep" /\ \A x \in Thread \ {t} : Parked(x)
    BY <2>1, OthersParked
  <2>6. Shrinks
    <3>1. k' \in KernelState /\ \A l \in WaitList : k'.wl[l] \in Seq(Thread)
      BY <2>4 DEF Suspends, Wf, KernelState
    <3>2. \A l \in WaitList : Range(k'.wl[l]) \subseteq Thread
      BY <3>1, RangeOfSeq
    <3> QED BY <2>3, <2>4, <3>2 DEF Shrinks, Suspends, Untouched, Loose
  <2>7. ASSUME NEW o \in WaitList, NEW x \in Thread
        PROVE  x \in OnTheirWay(o)' <=> x \in OnTheirWay(o)
    <3>1. CASE x = t
      BY <2>2, <2>5, <3>1 DEF OnTheirWay
    <3>2. CASE x # t
      BY <2>4, <2>5, <3>2 DEF Suspends, Untouched, Parked, OnTheirWay
    <3> QED BY <3>1, <3>2
  <2>8. \A o \in WaitList : OnTheirWay(o) \subseteq Thread /\ OnTheirWay(o)' \subseteq Thread
    BY DEF OnTheirWay
  <2> QED BY <2>6, <2>7, <2>8 DEF Leaves
<1>6. ASSUME NEW t \in Thread, NEW a, NEW b, ScheduleStep(t, a, b), UNCHANGED ivars,
             <<a, b>> \in {<<"wait", "woken">>, <<"asleep", "awake">>, <<"schedule", "run">>}
      PROVE  Leaves({})
  <2>1. Releases(k', k, {})
    BY <1>1, <1>6, ScheduleReleases DEF ScheduleStep
  <2>2. at[t] = a /\ Goto(t, b) /\ UNCHANGED call
    BY <1>6 DEF ScheduleStep, At, ivars
  <2>3. at'[t] = b /\ \A x \in Thread \ {t} : Parked(x)
    BY <2>2, OthersParked
  <2>4. {} \in SUBSET Thread /\ {t} \in SUBSET Thread
    OBVIOUS
  <2>5. CASE a = "schedule" /\ b = "run"
    <3>1. Leaves({t})
      BY <2>1, <2>3, <2>4, <2>5, ReleaseLeaves DEF Waiting
    <3> QED BY <2>2, <2>4, <2>5, <3>1, LeavesNobody DEF Waiting
  <2>6. CASE (a = "wait" /\ b = "woken") \/ (a = "asleep" /\ b = "awake")
    <3>1. Parked(t)
      BY <2>2, <2>3, <2>6 DEF Parked
    <3>2. \A x \in Thread \ {} : Parked(x)
      BY <2>3, <3>1
    <3> QED BY <2>1, <2>4, <3>2, ReleaseLeaves
  <2> QED BY <1>6, <2>5, <2>6
<1>7. ASSUME NEW t \in Thread, NEW a, At(t, a), a \notin Waiting, NEW b, Goto(t, b), b \notin Waiting, UNCHANGED call,
             NEW D \in SUBSET Thread, Releases(k', k, D),
             \A x \in D \ {t} : k'.err[x] # "EOK" /\ k.stat[x] = "suspend"
      PROVE  Leaves({})
  <2>1. at[t] = a /\ at'[t] = b /\ {t} \in SUBSET Thread /\ \A x \in Thread \ {t} : Parked(x)
    BY <1>7, OthersParked DEF At
  <2>2. Leaves({t})
    BY <1>7, <2>1, ReleaseLeaves
  <2> QED BY <1>7, <2>1, <2>2, LeavesNobody
<1>8. ASSUME NEW t \in Thread, WakeUp(t), UNCHANGED ivars
      PROVE  Leaves({})
  <2>1. At(t, "awake") /\ Goto(t, "run") /\ UNCHANGED call /\ OwnError(t)
    BY <1>8 DEF WakeUp, ClearError, SetError, OwnError, Err, ivars
  <2>2. PICK D \in SUBSET Thread : Releases(k', k, D) /\ D \subseteq {t}
    BY <2>1, AtRuns, OwnErrorReleases
  <2> QED BY <1>7, <2>1, <2>2 DEF Waiting
<1>9. ASSUME NEW t \in Thread, Delete(t) \/ DeleteTest(t)
      PROVE  Leaves({})
  <2>1. PICK a \in {"run", "deleteTest"}, b \in {"deleteTest", "deleteRecv", "deleteSend", "run"} :
          At(t, a) /\ Goto(t, b)
    BY <1>9 DEF Delete, DeleteTest, Begins, MayBlock
  <2>2. k' = k /\ UNCHANGED call
    BY <1>9 DEF Delete, DeleteTest, ivars
  <2>3. Releases(k', k, {}) /\ {} \in SUBSET Thread
    BY <1>1, <2>2, NothingReleased
  <2>4. a \notin Waiting /\ b \notin Waiting
    BY DEF Waiting
  <2> QED BY <1>7, <2>1, <2>2, <2>3, <2>4
<1>10. ASSUME NEW t \in Thread, NEW a \in {"deleteRecv", "deleteSend"}, NEW l \in WaitList, DeleteResume(t, a, l)
       PROVE  Leaves({})
  <2>1. PICK b \in {"fault", "deleteTest"} : At(t, a) /\ Goto(t, b) /\ UNCHANGED call
    BY <1>10 DEF DeleteResume, ivars
  <2>2. PICK D \in SUBSET Thread :
          Releases(k', k, D) /\ \A x \in D : k'.err[x] # "EOK" /\ k.stat[x] = "suspend"
    BY <1>10, DeleteResumeReleases
  <2>3. a \notin Waiting /\ b \notin Waiting
    BY DEF Waiting
  <2> QED BY <1>7, <2>1, <2>2, <2>3
<1> QED BY <1>1, <1>3, <1>4, <1>5, <1>6, <1>8, <1>9, <1>10
        DEF IpcStep, AsleepSchedule, WaitSchedule, EndSchedule

(* A call that has begun is on no way; one that goes on is on its own.     *)
LEMMA TriesWay ==
  ASSUME IpcSound, NEW t \in Thread, NEW c, Tries(t, c), NEW o \in WaitList
  PROVE  t \in OnTheirWay(o) <=> GoesOn(t, c) /\ c.op = o
<1>1. CASE Begins(t)
  BY <1>1 DEF Begins, MayBlock, At, GoesOn, OnTheirWay
<1>2. CASE GoesOn(t, c)
  <2>1. At(t, "woken") /\ k.err[t] = "EOK" /\ call[t] = c
    BY <1>2 DEF GoesOn
  <2>2. k.stat[t] = "running" /\ at[t] = "woken"
    BY <2>1, AtRuns
  <2> QED BY <1>2, <2>1, <2>2 DEF OnTheirWay
<1> QED BY <1>1, <1>2 DEF Tries

LEMMA TriesRuns ==
  ASSUME IpcSound, NEW t \in Thread, NEW c, Tries(t, c)
  PROVE  t = k.cur /\ k.stat[t] = "running" /\ t # Idle /\ alive /\ at[t] \in {"run", "woken"}
<1>1. t = k.cur /\ k.stat[t] = "running" /\ t # Idle /\ alive
  BY CallerMayWait DEF MayWait
<1>2. at[t] \in {"run", "woken"}
  BY DEF Tries, Begins, GoesOn, MayBlock, At
<1> QED BY <1>1, <1>2

LEMMA FailsLeaves ==
  ASSUME IpcSound, NEW t \in Thread, WokenFails(t)
  PROVE  Leaves({}) /\ alive' = alive
<1>1. /\ k.err[t] # "EOK" /\ Goto(t, "run") /\ call' = [call EXCEPT ![t] = NoCall]
      /\ k' = k /\ alive' = alive
  BY DEF WokenFails, Ends
<1>2. at'[t] = "run" /\ \A x \in Thread \ {t} : Parked(x)
  BY <1>1, OthersParked
<1>3. Releases(k', k, {}) /\ {} \in SUBSET Thread /\ {t} \in SUBSET Thread
  BY <1>1, NothingReleased, IpcParts
<1>4. Leaves({t})
  BY <1>2, <1>3, ReleaseLeaves DEF Waiting
<1> QED BY <1>1, <1>3, <1>4, LeavesNobody

LEMMA ResetLeaves ==
  ASSUME IpcSound, NEW t \in Thread, ResetWaiters(t)
  PROVE  Leaves({}) /\ alive' = alive /\ \A l \in WaitList : k'.wl[l] = << >>
<1>1. /\ Begins(t) /\ k' = ResumeAll(ResumeAll(k, "recv"), "send")
      /\ Goto(t, "schedule") /\ call' = call /\ alive' = alive
  BY DEF ResetWaiters
<1>2. PICK D \in SUBSET Thread :
        /\ Releases(k', k, D) /\ \A x \in D : k'.err[x] = "ERROR" /\ k.stat[x] = "suspend"
        /\ \A l \in WaitList : k'.wl[l] = << >>
  BY <1>1, ResetReleases
<1>3. at'[t] = "schedule" /\ \A x \in Thread \ {t} : Parked(x)
  BY <1>1, OthersParked
<1>4. at[t] = "run" /\ {t} \in SUBSET Thread
  BY <1>1 DEF Begins, MayBlock, At
<1>5. Leaves({t})
  BY <1>2, <1>3, <1>4, ReleaseLeaves DEF Waiting
<1>6. Leaves({})
  BY <1>4, <1>5, LeavesNobody DEF Waiting
<1> QED BY <1>1, <1>2, <1>6

(* A call that meets nobody.                                               *)
LEMMA CallLeaves ==
  ASSUME IpcSound, NEW t \in Thread, NEW c, Tries(t, c), OwnError(t),
         NEW a, a \notin Waiting, Goto(t, a), NEW d, call' = [call EXCEPT ![t] = d]
  PROVE  Leaves({t})
<1>1. k.stat[t] = "running" /\ at'[t] = a /\ \A x \in Thread \ {t} : Parked(x)
  BY TriesRuns, OthersParked
<1>2. PICK D \in SUBSET Thread : Releases(k', k, D) /\ D \subseteq {t}
  BY <1>1, OwnErrorReleases
<1> QED BY <1>1, <1>2, ReleaseLeaves

LEMMA CallReturns ==
  ASSUME IpcSound, NEW t \in Thread, NEW c, Tries(t, c), OwnError(t), Ends(t, "run")
  PROVE  Leaves({t})
<1>1. "run" \notin Waiting /\ Goto(t, "run") /\ call' = [call EXCEPT ![t] = NoCall]
  BY DEF Waiting, Ends
<1> QED BY <1>1, CallLeaves

LEMMA AtOnceLeaves ==
  ASSUME IpcSound, NEW t \in Thread, Begins(t), OwnError(t), UNCHANGED <<at, call>>
  PROVE  Leaves({})
<1>1. k.stat[t] = "running" /\ at[t] = "run" /\ {t} \in SUBSET Thread
  BY AtRuns DEF Begins, MayBlock, At
<1>2. PICK D \in SUBSET Thread : Releases(k', k, D) /\ D \subseteq {t}
  BY <1>1, OwnErrorReleases
<1>3. at'[t] \notin Waiting /\ \A x \in Thread \ {t} : Parked(x)
  BY <1>1 DEF Parked, Waiting
<1>4. Leaves({t})
  BY <1>2, <1>3, ReleaseLeaves
<1> QED BY <1>1, <1>4, LeavesNobody DEF Waiting

(* A call that queues up.                                                  *)
Queues(t, l) ==
  /\ \A o \in WaitList : OnTheirWay(o)' = OnTheirWay(o) \ {t}
  /\ Range(k'.wl[l]) \subseteq Range(k.wl[l]) \cup {t}
  /\ \A m \in WaitList \ {l} : Range(k'.wl[m]) \subseteq Range(k.wl[m])

LEMMA WaitingQueues ==
  ASSUME IpcSound, NEW t \in Thread, NEW l \in WaitList, Suspends(k', k, t), In(k', t, l),
         Goto(t, "wait"), NEW c, call' = [call EXCEPT ![t] = c]
  PROVE  Queues(t, l)
<1>1. at'[t] = "wait" /\ \A x \in Thread \ {t} : Parked(x)
  BY OthersParked
<1>2. ASSUME NEW o \in WaitList, NEW x \in Thread
      PROVE  x \in OnTheirWay(o)' <=> x \in OnTheirWay(o) /\ x # t
  <2>1. CASE x = t
    BY <2>1 DEF Suspends, OnTheirWay
  <2>2. CASE x # t
    BY <1>1, <2>2 DEF Suspends, Untouched, Parked, OnTheirWay
  <2> QED BY <2>1, <2>2
<1>3. \A o \in WaitList : OnTheirWay(o) \subseteq Thread /\ OnTheirWay(o)' \subseteq Thread
  BY DEF OnTheirWay
<1>4. \A m \in WaitList : Range(k'.wl[m]) \subseteq Thread
  <2>1. \A m \in WaitList : k'.wl[m] \in Seq(Thread)
    BY DEF Suspends, Wf, KernelState
  <2> QED BY <2>1, RangeOfSeq
<1>5. ASSUME NEW m \in WaitList, NEW x \in Range(k'.wl[m])
      PROVE  x \in Range(k.wl[m]) \/ (x = t /\ m = l)
  BY <1>4, <1>5 DEF Suspends, Untouched, In
<1> QED BY <1>2, <1>3, <1>5 DEF Queues

LEMMA WaitsQueues ==
  ASSUME IpcSound, NEW t \in Thread, NEW c, Tries(t, c), NEW l \in WaitList, Waits(t, l, c)
  PROVE  Queues(t, l)
<1>1. k' = WaitsIn(k, t, l, c) /\ Goto(t, "wait") /\ call' = [call EXCEPT ![t] = c]
  BY DEF Waits
<1>2. MayWait(k, t)
  BY CallerMayWait
<1>3. Suspends(k', k, t) /\ In(k', t, l)
  BY <1>1, <1>2, WaitsInSuspends
<1> QED BY <1>1, <1>3, WaitingQueues

(* A call, or a handler, that lets the first of a list go.                 *)
FirstIn(l) == IF k.wl[l] = << >> THEN {} ELSE {Head(k.wl[l])}

Passes(M, l) ==
  /\ Shrinks /\ FirstIn(l) \cap OnTheirWay(l) = {}
  /\ OnTheirWay(l)' = (OnTheirWay(l) \ M) \cup FirstIn(l)
  /\ \A m \in WaitList \ {l} : OnTheirWay(m)' = OnTheirWay(m) \ M

LEMMA ReleasePasses ==
  ASSUME IpcSound, NEW l \in WaitList, Releases(k', k, FirstIn(l)), k'.err = k.err,
         NEW M \in SUBSET Thread, \A x \in Thread \ M : Parked(x), \A x \in M : at'[x] \notin Waiting,
         \A x \in M : k.stat[x] # "suspend"
  PROVE  Passes(M, l)
<1>1. FirstIn(l) \in SUBSET Thread /\ \A x \in FirstIn(l) : x \in Range(k.wl[l]) /\ k.stat[x] = "suspend"
  BY HeadWaits DEF FirstIn
<1>2. Shrinks
  BY <1>1, ReleasedShrinks
<1>3. ASSUME NEW o \in WaitList, NEW x \in Thread
      PROVE  x \in OnTheirWay(o)' <=> (x \in OnTheirWay(o) /\ x \notin M) \/ (o = l /\ x \in FirstIn(l))
  <2>1. CASE x \in M
    BY <1>1, <2>1 DEF OnTheirWay, Waiting
  <2>2. CASE x \in FirstIn(l)
    <3>1. at[x] \in Waiting /\ call[x].op = l /\ k.err[x] = "EOK" /\ k.stat[x] = "suspend"
      BY <1>1, <2>2, IpcParts DEF ThreadSound
    <3>2. x \notin M /\ Parked(x) /\ k'.stat[x] # "suspend"
      BY <1>1, <2>2 DEF Releases
    <3> QED BY <2>2, <3>1, <3>2 DEF OnTheirWay, Parked, Waiting
  <2>3. CASE x \notin M /\ x \notin FirstIn(l)
    BY <1>1, <2>3, WayParked
  <2> QED BY <2>1, <2>2, <2>3
<1>4. \A o \in WaitList : OnTheirWay(o) \subseteq Thread /\ OnTheirWay(o)' \subseteq Thread
  BY DEF OnTheirWay
<1>5. FirstIn(l) \cap OnTheirWay(l) = {}
  BY <1>1 DEF OnTheirWay
<1> QED BY <1>1, <1>2, <1>3, <1>4, <1>5 DEF Passes

LEMMA EndsWakingPasses ==
  ASSUME IpcSound, NEW t \in Thread, k.stat[t] # "suspend", NEW l \in WaitList, EndsWaking(t, l)
  PROVE  Passes({t}, l)
<1> DEFINE a == IF k.wl[l] = << >> THEN "run" ELSE "schedule"
<1>1. k' = Woken(k, l) /\ Goto(t, a) /\ call' = [call EXCEPT ![t] = NoCall] /\ a \notin Waiting
  BY DEF EndsWaking, Ends, Waiting
<1> HIDE DEF a
<1>2. PICK D \in SUBSET Thread : Wakes(k', D, l)
  BY <1>1, WokenWakes
<1>3. Releases(k', k, FirstIn(l)) /\ k'.err = k.err
  BY <1>2 DEF Wakes, FirstIn
<1>4. at'[t] = a /\ \A x \in Thread \ {t} : Parked(x)
  BY <1>1, OthersParked
<1> QED BY <1>1, <1>3, <1>4, ReleasePasses

LEMMA IsrWakingPasses ==
  ASSUME IpcSound, NEW l \in WaitList, IsrWaking(l), UNCHANGED call
  PROVE  Passes({}, l)
<1>1. Releases(k', k, FirstIn(l)) /\ k'.err = k.err
  BY IsrWakingReleases DEF Wakes, FirstIn
<1>2. \A x \in Thread : Parked(x)
  BY DEF IsrWaking, Parked
<1> QED BY <1>1, <1>2, ReleasePasses

(***************************************************************************)
(* As many are on their way as there is to get, or nobody waits for it.    *)
(***************************************************************************)
Enough(l, n) == k.wl[l] # << >> => n <= Cardinality(OnTheirWay(l))

EnoughNext(l, n) == k'.wl[l] # << >> => n <= Cardinality(OnTheirWay(l)')

LEMMA OneLess ==
  ASSUME NEW S, IsFiniteSet(S), NEW x
  PROVE  /\ IsFiniteSet(S \ {x}) /\ Cardinality(S) \in Nat /\ Cardinality(S \ {x}) \in Nat
         /\ x \in S => Cardinality(S \ {x}) = Cardinality(S) - 1
         /\ x \notin S => S \ {x} = S
BY FS_CardinalityType, FS_RemoveElement

LEMMA OneMoreOfThem ==
  ASSUME NEW S, IsFiniteSet(S), NEW x, x \notin S
  PROVE  Cardinality(S) \in Nat /\ Cardinality(S \cup {x}) = Cardinality(S) + 1
BY FS_CardinalityType, FS_AddElement

LEMMA FinitelyMany ==
  ASSUME IsFiniteSet(Thread), NEW l
  PROVE  IsFiniteSet(OnTheirWay(l)) /\ Cardinality(OnTheirWay(l)) \in Nat
<1>1. OnTheirWay(l) \subseteq Thread
  BY DEF OnTheirWay
<1> QED BY <1>1, FS_Subset, FS_CardinalityType

(* A list that nobody joins stays empty.                                   *)
LEMMA StaysEmpty ==
  ASSUME IpcSound, IpcSound', NEW l \in WaitList, Range(k'.wl[l]) \subseteq Range(k.wl[l]), k.wl[l] = << >>
  PROVE  k'.wl[l] = << >>
<1>1. k.wl[l] \in Seq(Thread) /\ k'.wl[l] \in Seq(Thread)
  BY DEF IpcSound, KernelSound, Wf, KernelState
<1> QED BY <1>1, EmptyRange

LEMMA EnoughStays ==
  ASSUME IpcSound, IpcSound', NEW l \in WaitList, NEW n, Enough(l, n), Leaves({})
  PROVE  EnoughNext(l, n)
<1>1. OnTheirWay(l)' = OnTheirWay(l) /\ Range(k'.wl[l]) \subseteq Range(k.wl[l])
  BY DEF Leaves, Shrinks
<1> QED BY <1>1, StaysEmpty DEF Enough, EnoughNext

(* One of them has come.                                                   *)
LEMMA EnoughLess ==
  ASSUME IpcSound, IpcSound', IsFiniteSet(Thread), NEW l \in WaitList, NEW n \in Nat, Enough(l, n),
         NEW t, OnTheirWay(l)' = OnTheirWay(l) \ {t}, Range(k'.wl[l]) \subseteq Range(k.wl[l]),
         NEW m \in Nat, m = 0 \/ m + 1 <= n \/ (t \notin OnTheirWay(l) /\ m <= n)
  PROVE  EnoughNext(l, m)
<1> DEFINE S == OnTheirWay(l)
<1>1. /\ IsFiniteSet(S) /\ OnTheirWay(l)' = S \ {t}
      /\ t \notin OnTheirWay(l) <=> t \notin S
      /\ k.wl[l] # << >> => n <= Cardinality(S)
  BY FinitelyMany DEF Enough
<1> HIDE DEF S
<1>2. /\ Cardinality(S) \in Nat /\ Cardinality(S \ {t}) \in Nat
      /\ t \in S => Cardinality(S \ {t}) = Cardinality(S) - 1
      /\ t \notin S => S \ {t} = S
  BY <1>1, OneLess
<1> DEFINE a == Cardinality(S)
           b == Cardinality(S \ {t})
<1>5. a \in Nat /\ b \in Nat /\ (t \notin S => b = a) /\ a <= b + 1
  <2>1. CASE t \in S
    BY <1>2, <2>1
  <2>2. CASE t \notin S
    <3>1. b = a
      BY <1>2, <2>2
    <3> QED BY <1>2, <2>2, <3>1
  <2> QED BY <2>1, <2>2
<1> HIDE DEF a, b
<1>3. CASE k.wl[l] = << >>
  BY <1>3, StaysEmpty DEF EnoughNext
<1>4. CASE k.wl[l] # << >>
  <2>1. n <= a
    BY <1>1, <1>4 DEF a
  <2>2. m <= b
    <3>1. CASE m = 0
      BY <1>5, <3>1
    <3>2. CASE m + 1 <= n
      BY <1>5, <2>1, <3>2
    <3>3. CASE t \notin S /\ m <= n
      BY <1>5, <2>1, <3>3
    <3> QED BY <1>1, <3>1, <3>2, <3>3
  <2> QED BY <1>1, <2>2 DEF EnoughNext, b
<1> QED BY <1>3, <1>4

(* One more is on the way.                                                 *)
LEMMA EnoughMore ==
  ASSUME IpcSound, IpcSound', IsFiniteSet(Thread), NEW l \in WaitList, NEW n \in Nat, Enough(l, n),
         NEW M, Passes(M, l), M \cap OnTheirWay(l) = {}, NEW m \in Nat, m <= n + 1
  PROVE  EnoughNext(l, m)
<1>1. CASE k.wl[l] = << >>
  BY <1>1, StaysEmpty DEF EnoughNext, Passes, Shrinks
<1>2. CASE k.wl[l] # << >>
  <2> DEFINE S == OnTheirWay(l)
             h == Head(k.wl[l])
  <2>1. IsFiniteSet(S) /\ n <= Cardinality(S)
    BY <1>2, FinitelyMany DEF Enough
  <2>2. h \notin S /\ OnTheirWay(l)' = S \cup {h}
    BY <1>2 DEF Passes, FirstIn
  <2> HIDE DEF S, h
  <2>3. Cardinality(S) \in Nat /\ Cardinality(S \cup {h}) = Cardinality(S) + 1
    BY <2>1, <2>2, OneMoreOfThem
  <2> QED BY <2>1, <2>2, <2>3 DEF EnoughNext
<1> QED BY <1>1, <1>2

(* A call that waits finds nothing; one that has come takes one.           *)
LEMMA EnoughQueued ==
  ASSUME IpcSound, IpcSound', IsFiniteSet(Thread), NEW t \in Thread, NEW c, Tries(t, c),
         NEW l \in WaitList, c.op = l, Queues(t, l),
         NEW o \in WaitList, NEW n \in Nat, Enough(o, n), o = l => n = 0
  PROVE  EnoughNext(o, n)
<1>1. CASE o = l
  <2>1. Cardinality(OnTheirWay(o)') \in Nat
    <3>1. OnTheirWay(o)' \subseteq Thread
      BY DEF OnTheirWay
    <3> QED BY <3>1, FS_Subset, FS_CardinalityType
  <2> QED BY <1>1, <2>1 DEF EnoughNext
<1>2. CASE o # l
  <2>1. t \notin OnTheirWay(o)
    BY <1>2, TriesWay
  <2>2. OnTheirWay(o)' = OnTheirWay(o) \ {t} /\ Range(k'.wl[o]) \subseteq Range(k.wl[o])
    BY <1>2 DEF Queues
  <2>3. n <= n
    OBVIOUS
  <2> QED BY <2>1, <2>2, <2>3, EnoughLess
<1> QED BY <1>1, <1>2

(* A call for l that was woken takes one thing, and makes room for another *)
(* of the other kind, for which it lets a thread go.                       *)
LEMMA EnoughCalled ==
  ASSUME IpcSound, IpcSound', IsFiniteSet(Thread), NEW t \in Thread, NEW c, Tries(t, c),
         NEW o \in WaitList, NEW n \in Nat, Enough(o, n), NEW m \in Nat,
         \/ Leaves({t}) /\ (m = 0 \/ m + 1 <= n \/ (c.op # o /\ m <= n))
         \/ \E l \in WaitList : Passes({t}, l) /\ c.op # l /\ (IF o = l THEN m <= n + 1 ELSE m + 1 <= n)
  PROVE  EnoughNext(o, m)
<1>1. CASE Leaves({t}) /\ (m = 0 \/ m + 1 <= n \/ (c.op # o /\ m <= n))
  <2>1. OnTheirWay(o)' = OnTheirWay(o) \ {t} /\ Range(k'.wl[o]) \subseteq Range(k.wl[o])
    BY <1>1 DEF Leaves, Shrinks
  <2>2. c.op # o => t \notin OnTheirWay(o)
    BY TriesWay
  <2> QED BY <1>1, <2>1, <2>2, EnoughLess
<1>2. ASSUME NEW l \in WaitList, Passes({t}, l), c.op # l, IF o = l THEN m <= n + 1 ELSE m + 1 <= n
      PROVE  EnoughNext(o, m)
  <2>1. CASE o = l
    <3>1. {t} \cap OnTheirWay(o) = {}
      BY <1>2, <2>1, TriesWay
    <3> QED BY <1>2, <2>1, <3>1, EnoughMore
  <2>2. CASE o # l
    <3>1. OnTheirWay(o)' = OnTheirWay(o) \ {t} /\ Range(k'.wl[o]) \subseteq Range(k.wl[o])
      BY <1>2, <2>2 DEF Passes, Shrinks
    <3> QED BY <1>2, <2>2, <3>1, EnoughLess
  <2> QED BY <2>1, <2>2
<1> QED BY <1>1, <1>2

(* From a handler.                                                         *)
LEMMA EnoughIsr ==
  ASSUME IpcSound, IpcSound', IsFiniteSet(Thread), NEW l \in WaitList, Passes({}, l),
         NEW o \in WaitList, NEW n \in Nat, Enough(o, n), NEW m \in Nat, IF o = l THEN m <= n + 1 ELSE m <= n
  PROVE  EnoughNext(o, m)
<1>1. CASE o = l
  BY <1>1, EnoughMore
<1>2. CASE o # l
  <2>1. OnTheirWay(o)' = OnTheirWay(o) /\ Range(k'.wl[o]) \subseteq Range(k.wl[o])
    BY <1>2 DEF Passes, Shrinks
  <2>2. Cardinality(OnTheirWay(o)) \in Nat
    BY FinitelyMany
  <2>3. CASE k.wl[o] = << >>
    BY <2>1, <2>3, StaysEmpty DEF EnoughNext
  <2>4. CASE k.wl[o] # << >>
    BY <1>2, <2>1, <2>2, <2>4 DEF Enough, EnoughNext
  <2> QED BY <2>3, <2>4
<1> QED BY <1>1, <1>2

(***************************************************************************)
(* The services: who waits in a list of the object, of which there is      *)
(* enough on the way.                                                      *)
(***************************************************************************)
LEMMA IpcStepAlive ==
  ASSUME IpcStep
  PROVE  alive' => alive
BY DEF IpcStep, Delete, DeleteTest, DeleteResume, WaitSchedule, EndSchedule, ivars

LEMMA NobodyWaits ==
  ASSUME IpcSound, NEW t \in Thread, ResetWaiters(t), NEW l \in WaitList, NEW n
  PROVE  EnoughNext(l, n)
BY ResetLeaves DEF EnoughNext

MbMet == alive => Enough("recv", mb.entry) /\ Enough("send", MbSize - mb.entry)

LEMMA MbMeets ==
  ASSUME IpcSound, IpcSound', IsFiniteSet(Thread), RingSound, MbMet, MbNext
  PROVE  MbMet'
<1> DEFINE n == mb.entry
           m == mb'.entry
<1> USE DEF EnoughNext
<1>1. "recv" \in WaitList /\ "send" \in WaitList
  BY IpcParts
<1>2. n \in Nat /\ MbSize \in Nat /\ MbSize - n \in Nat /\ n <= MbSize
  BY MbAssumption DEF RingSound, Mailbox
<1> SUFFICES ASSUME alive'
             PROVE  EnoughNext("recv", m) /\ EnoughNext("send", MbSize - m)
  BY DEF MbMet, Enough
<1> HIDE DEF EnoughNext
<1>3. CASE IpcStep /\ UNCHANGED mb
  <2>1. Enough("recv", n) /\ Enough("send", MbSize - n) /\ m = n /\ Leaves({})
    BY <1>3, IpcStepAlive, IpcStepLeaves DEF MbMet
  <2> HIDE DEF n, m
  <2> QED BY <1>1, <1>2, <2>1, EnoughStays
<1>4. ASSUME NEW x \in Item, MbSendIsr(x)
      PROVE  EnoughNext("recv", m) /\ EnoughNext("send", MbSize - m)
  <2>1. IsrWaking("recv") /\ UNCHANGED call /\ alive /\ n < MbSize /\ mb' = Stored(x)
    BY <1>4 DEF MbSendIsr, Room, ivars
  <2>2. Passes({}, "recv") /\ Enough("recv", n) /\ Enough("send", MbSize - n) /\ m = n + 1
    BY <1>1, <2>1, IsrWakingPasses DEF MbMet, Stored, RingSound, Mailbox
  <2> HIDE DEF n, m
  <2>3. m \in Nat /\ MbSize - m \in Nat /\ m <= n + 1 /\ MbSize - m <= MbSize - n
    BY <1>2, <2>1, <2>2
  <2>4. EnoughNext("recv", m)
    BY <1>1, <1>2, <2>2, <2>3, EnoughIsr
  <2>5. EnoughNext("send", MbSize - m)
    BY <1>1, <1>2, <2>2, <2>3, EnoughIsr
  <2> QED BY <2>4, <2>5
<1>5. ASSUME NEW t \in Thread, WokenFails(t), UNCHANGED mb
      PROVE  EnoughNext("recv", m) /\ EnoughNext("send", MbSize - m)
  <2>1. Leaves({}) /\ Enough("recv", n) /\ Enough("send", MbSize - n) /\ m = n
    BY <1>5, FailsLeaves DEF MbMet
  <2> HIDE DEF n, m
  <2> QED BY <1>1, <1>2, <2>1, EnoughStays
<1>6. ASSUME NEW t \in Thread, MbReset(t)
      PROVE  EnoughNext("recv", m) /\ EnoughNext("send", MbSize - m)
  BY <1>1, <1>6, NobodyWaits DEF MbReset
<1>7. ASSUME NEW t \in Thread, NEW timed \in BOOLEAN, NEW c, c = MbRecvCall(timed),
             MbRecv(t, c) \/ MbRecvWaits(t, c) \/ MbRecvFails(t, c)
      PROVE  EnoughNext("recv", m) /\ EnoughNext("send", MbSize - m)
  <2>1. c.op = "recv" /\ Tries(t, c)
    BY <1>7, GivesUpTries DEF MbRecvCall, MbRecv, MbRecvWaits, MbRecvFails
  <2>2. alive /\ k.stat[t] = "running" /\ Enough("recv", n) /\ Enough("send", MbSize - n)
    BY <2>1, TriesRuns DEF MbMet
  <2>3. CASE MbRecv(t, c)
    <3>1. Passes({t}, "send") /\ n > 0 /\ m = n - 1
      BY <1>1, <2>2, <2>3, EndsWakingPasses DEF MbRecv, RingSound, Mailbox
    <3> HIDE DEF n, m
    <3>2. m \in Nat /\ MbSize - m \in Nat /\ m + 1 <= n /\ MbSize - m <= (MbSize - n) + 1
      BY <1>2, <3>1
    <3>3. EnoughNext("recv", m)
      BY <1>1, <1>2, <2>1, <2>2, <3>1, <3>2, EnoughCalled
    <3>4. EnoughNext("send", MbSize - m)
      BY <1>1, <1>2, <2>1, <2>2, <3>1, <3>2, EnoughCalled
    <3> QED BY <3>3, <3>4
  <2>4. CASE MbRecvWaits(t, c)
    <3>1. Queues(t, "recv") /\ n = 0 /\ m = n
      BY <1>1, <2>1, <2>4, WaitsQueues DEF MbRecvWaits
    <3> HIDE DEF n, m
    <3> QED BY <1>1, <1>2, <2>1, <2>2, <3>1, EnoughQueued
  <2>5. CASE MbRecvFails(t, c)
    <3>1. /\ Ends(t, "run") /\ n = 0 /\ m = n
          /\ k' = IF At(t, "woken") THEN SetError(k, t, "ETIMEOUT") ELSE k
      BY <2>5 DEF MbRecvFails, SetError
    <3>2. OwnError(t) /\ Goto(t, "run") /\ call' = [call EXCEPT ![t] = NoCall]
      BY <3>1, ClearsOrSets DEF Ends
    <3>3. Leaves({t})
      BY <2>1, <3>2, CallLeaves DEF Waiting
    <3> HIDE DEF n, m
    <3>4. MbSize - n <= MbSize - n
      BY <1>2
    <3> QED BY <1>1, <1>2, <2>1, <2>2, <3>1, <3>3, <3>4, EnoughCalled
  <2> QED BY <1>7, <2>3, <2>4, <2>5
<1>8. ASSUME NEW t \in Thread, NEW x \in Item, NEW timed \in BOOLEAN, NEW c, c = MbSendCall(x, timed),
             MbSend(t, c) \/ MbSendWaits(t, c) \/ MbSendFails(t, c)
      PROVE  EnoughNext("recv", m) /\ EnoughNext("send", MbSize - m)
  <2>1. c.op = "send" /\ Tries(t, c)
    BY <1>8, GivesUpTries DEF MbSendCall, MbSend, MbSendWaits, MbSendFails
  <2>2. alive /\ k.stat[t] = "running" /\ Enough("recv", n) /\ Enough("send", MbSize - n)
    BY <2>1, TriesRuns DEF MbMet
  <2>3. CASE MbSend(t, c)
    <3>1. Passes({t}, "recv") /\ n < MbSize /\ m = n + 1
      BY <1>1, <2>2, <2>3, EndsWakingPasses DEF MbSend, Room, Stored, RingSound, Mailbox
    <3> HIDE DEF n, m
    <3>2. m \in Nat /\ MbSize - m \in Nat /\ m <= n + 1 /\ (MbSize - m) + 1 <= MbSize - n
      BY <1>2, <3>1
    <3>3. EnoughNext("recv", m)
      BY <1>1, <1>2, <2>1, <2>2, <3>1, <3>2, EnoughCalled
    <3>4. EnoughNext("send", MbSize - m)
      BY <1>1, <1>2, <2>1, <2>2, <3>1, <3>2, EnoughCalled
    <3> QED BY <3>3, <3>4
  <2>4. CASE MbSendWaits(t, c)
    <3>1. Queues(t, "send") /\ ~ (n < MbSize) /\ m = n
      BY <1>1, <2>1, <2>4, WaitsQueues DEF MbSendWaits, Room
    <3> HIDE DEF n, m
    <3>2. MbSize - n = 0
      BY <1>2, <3>1
    <3> QED BY <1>1, <1>2, <2>1, <2>2, <3>1, <3>2, EnoughQueued
  <2>5. CASE MbSendFails(t, c)
    <3>1. /\ Ends(t, "run") /\ ~ (n < MbSize) /\ m = n
          /\ k' = IF At(t, "woken") THEN SetError(k, t, "EOK") ELSE k
      BY <2>5 DEF MbSendFails, SetError, ClearError, Room
    <3>2. OwnError(t) /\ Goto(t, "run") /\ call' = [call EXCEPT ![t] = NoCall]
      BY <3>1, ClearsOrSets DEF Ends
    <3>3. Leaves({t})
      BY <2>1, <3>2, CallLeaves DEF Waiting
    <3> HIDE DEF n, m
    <3>4. MbSize - n = 0 /\ n <= n
      BY <1>2, <3>1
    <3> QED BY <1>1, <1>2, <2>1, <2>2, <3>1, <3>3, <3>4, EnoughCalled
  <2> QED BY <1>8, <2>3, <2>4, <2>5
<1> QED BY <1>3, <1>4, <1>5, <1>6, <1>7, <1>8 DEF MbNext

MpMet == alive => Enough("recv", mp.count)

LEMMA MpMeets ==
  ASSUME IpcSound, IpcSound', IsFiniteSet(Thread), PoolSound, MpMet, MpNext
  PROVE  MpMet'
<1> DEFINE n == mp.count
           m == mp'.count
<1>1. "recv" \in WaitList
  BY IpcParts
<1>2. n \in Nat
  BY LenProperties DEF PoolSound
<1> SUFFICES ASSUME alive'
             PROVE  EnoughNext("recv", m)
  BY DEF MpMet, Enough, EnoughNext
<1>3. CASE IpcStep /\ UNCHANGED <<mp, holder>>
  <2>1. Enough("recv", n) /\ m = n /\ Leaves({})
    BY <1>3, IpcStepAlive, IpcStepLeaves DEF MpMet
  <2> HIDE DEF n, m
  <2> QED BY <1>1, <1>2, <2>1, EnoughStays
<1>4. ASSUME NEW b \in Blocks, MpFreeIsr(b)
      PROVE  EnoughNext("recv", m)
  <2>1. IsrWaking("recv") /\ UNCHANGED call /\ alive /\ m = n + 1
    BY <1>4 DEF MpFreeIsr, ivars
  <2>2. Passes({}, "recv") /\ Enough("recv", n)
    BY <1>1, <2>1, IsrWakingPasses DEF MpMet
  <2> HIDE DEF n, m
  <2>3. m \in Nat /\ m <= n + 1
    BY <1>2, <2>1
  <2> QED BY <1>1, <1>2, <2>2, <2>3, EnoughIsr
<1>5. ASSUME NEW t \in Thread, WokenFails(t), UNCHANGED <<mp, holder>>
      PROVE  EnoughNext("recv", m)
  <2>1. Leaves({}) /\ Enough("recv", n) /\ m = n
    BY <1>5, FailsLeaves DEF MpMet
  <2> HIDE DEF n, m
  <2> QED BY <1>1, <1>2, <2>1, EnoughStays
<1>6. ASSUME NEW t \in Thread, NEW b \in Blocks, MpFree(t, b)
      PROVE  EnoughNext("recv", m)
  <2>1. Begins(t) /\ EndsWaking(t, "recv") /\ m = n + 1
    BY <1>6 DEF MpFree
  <2>2. k.stat[t] = "running" /\ at[t] = "run" /\ Enough("recv", n)
    BY <2>1, AtRuns DEF Begins, MayBlock, At, MpMet
  <2>3. Passes({t}, "recv") /\ {t} \cap OnTheirWay("recv") = {}
    BY <1>1, <2>1, <2>2, EndsWakingPasses DEF OnTheirWay
  <2> HIDE DEF n, m
  <2>4. m \in Nat /\ m <= n + 1
    BY <1>2, <2>1
  <2> QED BY <1>1, <1>2, <2>2, <2>3, <2>4, EnoughMore
<1>7. ASSUME NEW t \in Thread, NEW timed \in BOOLEAN, NEW c, c = MpCall(timed),
             MpAlloc(t, c) \/ MpWaits(t, c) \/ MpFails(t, c)
      PROVE  EnoughNext("recv", m)
  <2>1. c.op = "recv" /\ Tries(t, c)
    BY <1>7, GivesUpTries DEF MpCall, MpAlloc, MpWaits, MpFails
  <2>2. alive /\ Enough("recv", n)
    BY <2>1, TriesRuns DEF MpMet
  <2>3. CASE MpAlloc(t, c)
    <3>1. OwnError(t) /\ Goto(t, "run") /\ call' = [call EXCEPT ![t] = NoCall] /\ n > 0 /\ m = n - 1
      BY <2>3 DEF MpAlloc, OwnError, Ends
    <3>2. Leaves({t})
      BY <2>1, <3>1, CallLeaves DEF Waiting
    <3> HIDE DEF n, m
    <3>3. m \in Nat /\ m + 1 <= n
      BY <1>2, <3>1
    <3> QED BY <1>1, <1>2, <2>1, <2>2, <3>2, <3>3, EnoughCalled
  <2>4. CASE MpWaits(t, c)
    <3>1. k' = PoolWaitsIn(k, t, "recv", c)
      BY <2>4 DEF MpWaits, PoolWaitsIn, WithList, Pushed
    <3>2. Goto(t, "wait") /\ call' = [call EXCEPT ![t] = c] /\ n = 0 /\ m = n
      BY <2>4 DEF MpWaits
    <3>3. MayWait(k, t)
      BY <2>1, CallerMayWait
    <3>4. Suspends(k', k, t) /\ In(k', t, "recv")
      BY <1>1, <3>1, <3>3, PoolWaitSuspends
    <3>5. Queues(t, "recv")
      BY <1>1, <3>2, <3>4, WaitingQueues
    <3> HIDE DEF n, m
    <3> QED BY <1>1, <1>2, <2>1, <2>2, <3>2, <3>5, EnoughQueued
  <2>5. CASE MpFails(t, c)
    <3>1. k' = SetError(k, t, "ETIMEOUT") /\ Goto(t, "run") /\ call' = [call EXCEPT ![t] = NoCall] /\ n = 0 /\ m = n
      BY <2>5 DEF MpFails, SetError, Ends
    <3>2. OwnError(t)
      BY <3>1 DEF OwnError, Err
    <3>3. Leaves({t})
      BY <2>1, <3>1, <3>2, CallLeaves DEF Waiting
    <3> HIDE DEF n, m
    <3> QED BY <1>1, <1>2, <2>1, <2>2, <3>1, <3>3, EnoughCalled
  <2> QED BY <1>7, <2>3, <2>4, <2>5
<1> QED BY <1>3, <1>4, <1>5, <1>6, <1>7 DEF MpNext

(* A semaphore hands its token over when somebody waits, so that none is   *)
(* counted then.                                                           *)
SemMet == value \in 0 .. ValueMax /\ (alive /\ k.wl["recv"] # << >> => value = 0)

LEMMA SemMeets ==
  ASSUME IpcSound, IpcSound', SemMet, SemNext
  PROVE  SemMet'
<1>1. "recv" \in WaitList /\ ValueMax \in Nat
  BY IpcParts, SemAssumption
<1>2. ASSUME Leaves({}), alive' => alive, value' = value
      PROVE  SemMet'
  <2>1. k.wl["recv"] = << >> => k'.wl["recv"] = << >>
    BY <1>1, <1>2, StaysEmpty DEF Leaves, Shrinks
  <2> QED BY <1>2, <2>1 DEF SemMet
<1>3. ASSUME Shrinks, alive, value < ValueMax, value' = Counted
      PROVE  SemMet'
  <2>1. k.wl["recv"] = << >> => k'.wl["recv"] = << >>
    BY <1>1, <1>3, StaysEmpty DEF Shrinks
  <2>2. value \in Nat /\ value + 1 \in 0 .. ValueMax /\ (value + 1) % 65536 \in 0 .. value + 1
    BY <1>1, <1>3 DEF SemMet
  <2>3. value' \in 0 .. ValueMax /\ (k.wl["recv"] # << >> => value' = value)
    BY <1>1, <1>3, <2>2 DEF Counted, SemMet
  <2> QED BY <1>3, <2>1, <2>2, <2>3 DEF SemMet
<1>4. CASE IpcStep /\ UNCHANGED value
  BY <1>2, <1>4, IpcStepAlive, IpcStepLeaves
<1>5. CASE SemReleaseIsr
  <2>1. Passes({}, "recv")
    BY <1>1, <1>5, IsrWakingPasses DEF SemReleaseIsr, ivars
  <2> QED BY <1>3, <1>5, <2>1 DEF SemReleaseIsr, Passes
<1>6. ASSUME NEW t \in Thread, WokenFails(t), UNCHANGED value
      PROVE  SemMet'
  BY <1>2, <1>6, FailsLeaves
<1>7. ASSUME NEW t \in Thread, SemTake(t)
      PROVE  SemMet'
  <2>1. /\ Begins(t) /\ OwnError(t) /\ UNCHANGED <<at, call>> /\ alive
        /\ value > 0 /\ value' = value - 1
    BY <1>7 DEF SemTake, OwnError, Begins
  <2>2. Leaves({})
    BY <2>1, AtOnceLeaves
  <2>3. k.wl["recv"] = << >> /\ value' \in 0 .. ValueMax
    BY <1>1, <2>1 DEF SemMet
  <2>4. k'.wl["recv"] = << >>
    BY <1>1, <2>2, <2>3, StaysEmpty DEF Leaves, Shrinks
  <2> QED BY <2>3, <2>4 DEF SemMet
<1>8. ASSUME NEW t \in Thread, SemTaken(t)
      PROVE  SemMet'
  <2>1. PICK timed \in BOOLEAN : GoesOn(t, TakeCall(timed))
    BY <1>8 DEF SemTaken
  <2>2. OwnError(t) /\ Goto(t, "run") /\ call' = [call EXCEPT ![t] = NoCall] /\ value' = value
    BY <1>8 DEF SemTaken, OwnError, Ends
  <2> DEFINE c == TakeCall(timed)
  <2>3. Tries(t, c)
    BY <2>1 DEF Tries
  <2> HIDE DEF c
  <2>5. Leaves({t}) /\ alive
    <3>1. Ends(t, "run")
      BY <1>8 DEF SemTaken
    <3>2. Leaves({t})
      BY <2>2, <2>3, <3>1, CallReturns
    <3> QED BY <2>3, <3>2, TriesRuns
  <2>4. k.wl["recv"] = << >> => k'.wl["recv"] = << >>
    BY <1>1, <2>5, StaysEmpty DEF Leaves, Shrinks
  <2> QED BY <2>2, <2>4, <2>5 DEF SemMet
<1>9. ASSUME NEW t \in Thread, SemRelease(t)
      PROVE  SemMet'
  <2>1. Tries(t, NoCall) /\ EndsWaking(t, "recv") /\ value < ValueMax /\ value' = Counted
    BY <1>9 DEF SemRelease, Tries
  <2>2. k.stat[t] # "suspend" /\ alive
    BY <2>1, TriesRuns
  <2>3. Passes({t}, "recv")
    BY <1>1, <2>1, <2>2, EndsWakingPasses
  <2> QED BY <1>3, <2>1, <2>2, <2>3 DEF Passes
<1>10. ASSUME NEW t \in Thread, SemReset(t)
       PROVE  SemMet'
  BY <1>1, <1>10, ResetLeaves DEF SemReset, SemMet
<1>11. ASSUME NEW t \in Thread, NEW timed \in BOOLEAN, SemWaits(t, timed)
       PROVE  SemMet'
  BY <1>11 DEF SemWaits, SemMet
<1> QED BY <1>4, <1>5, <1>6, <1>7, <1>8, <1>9, <1>10, <1>11 DEF SemNext

LEMMA PushedLonger ==
  ASSUME NEW S, NEW s \in Seq(S), NEW e \in S
  PROVE  Len(Pushed(e, s)) = Len(s) + 1
<1> DEFINE h == <<e>>
<1>1. h \in Seq(S) /\ Len(h) = 1 /\ Pushed(e, s) = h \o s
  BY DEF Pushed
<1> HIDE DEF h
<1>2. Len(h \o s) = Len(h) + Len(s) /\ Len(s) \in Nat
  BY <1>1, ConcatProperties, LenProperties
<1> QED BY <1>1, <1>2

(* The slot of a message that is being copied is neither free nor queued.  *)
MqMet == alive => Enough("recv", mq.entry) /\ Enough("send", Len(mq.free))

LEMMA MqMeets ==
  ASSUME IpcSound, IpcSound', IsFiniteSet(Thread), SlotSound, MqMet, MqNext
  PROVE  MqMet'
<1> DEFINE n == mq.entry
           m == mq'.entry
           f == Len(mq.free)
           g == Len(mq'.free)
           Goal == EnoughNext("recv", m) /\ EnoughNext("send", g)
<1>1. "recv" \in WaitList /\ "send" \in WaitList
  BY IpcParts
<1>2. n \in Nat /\ f \in Nat /\ mq.free \in Seq(Slot) /\ mq.queue \in Seq(Slot) /\ n = Len(mq.queue) /\ mq \in MqState
  BY LenProperties DEF SlotSound, MqState
<1> SUFFICES ASSUME alive'
             PROVE  Goal
  BY DEF MqMet, Enough, EnoughNext
<1>3. ASSUME UNCHANGED mq
      PROVE  m = n /\ g = f
  BY <1>3
<1>4. ASSUME mq.free # << >>, mq'.free = Tail(mq.free)
      PROVE  g \in Nat /\ g + 1 <= f
  BY <1>2, <1>4, HeadTailProperties, EmptySeq
<1>5. \A s, x, op : Linked(s, x, op).entry = n + 1 /\ Linked(s, x, op).free = mq.free
  BY <1>2 DEF Linked, MqState
<1>6. alive => Enough("recv", n) /\ Enough("send", f)
  BY DEF MqMet
<1>7. CASE IpcStep /\ UNCHANGED <<mq, own>>
  <2>1. Leaves({}) /\ m = n /\ g = f /\ Enough("recv", n) /\ Enough("send", f)
    BY <1>3, <1>6, <1>7, IpcStepAlive, IpcStepLeaves
  <2> HIDE DEF n, m, f, g
  <2> QED BY <1>1, <1>2, <2>1, EnoughStays
<1>8. ASSUME NEW x \in Item, NEW op, MqSendIsr(x, op)
      PROVE  Goal
  <2>1. IsrWaking("recv") /\ UNCHANGED call /\ alive /\ mq.free # << >>
    BY <1>8 DEF MqSendIsr, FreeSlot
  <2>2. m = n + 1 /\ mq'.free = Tail(mq.free)
    BY <1>2, <1>8 DEF MqSendIsr, Linked, MqState
  <2>3. Passes({}, "recv") /\ g \in Nat /\ g + 1 <= f
    BY <1>1, <1>4, <2>1, <2>2, IsrWakingPasses
  <2> HIDE DEF n, m, f, g
  <2>4. m \in Nat /\ m <= n + 1 /\ g <= f
    BY <1>2, <2>2, <2>3
  <2>5. EnoughNext("recv", m)
    BY <1>1, <1>2, <1>6, <2>1, <2>3, <2>4, EnoughIsr
  <2>6. EnoughNext("send", g)
    BY <1>1, <1>2, <1>6, <2>1, <2>3, <2>4, EnoughIsr
  <2> QED BY <2>5, <2>6
<1>9. ASSUME NEW t \in Thread, WokenFails(t), UNCHANGED <<mq, own>>
      PROVE  Goal
  <2>1. Leaves({}) /\ m = n /\ g = f /\ Enough("recv", n) /\ Enough("send", f)
    BY <1>3, <1>6, <1>9, FailsLeaves
  <2> HIDE DEF n, m, f, g
  <2> QED BY <1>1, <1>2, <2>1, EnoughStays
<1>10. ASSUME NEW t \in Thread, MqReset(t)
       PROVE  Goal
  BY <1>1, <1>10, NobodyWaits DEF MqReset
<1>11. ASSUME NEW t \in Thread, NEW a \in Copying, At(t, a), NEW l \in WaitList, EndsWaking(t, l), UNCHANGED alive
       PROVE  Passes({t}, l) /\ (\A o : t \notin OnTheirWay(o)) /\ alive
  <2>1. k.stat[t] = "running" /\ at[t] = a
    BY <1>11, AtRuns DEF Copying
  <2>2. \A o : t \notin OnTheirWay(o)
    BY <2>1 DEF OnTheirWay, Copying
  <2> QED BY <1>11, <2>1, <2>2, EndsWakingPasses
<1>12. ASSUME NEW t \in Thread, NEW l \in WaitList, Passes({t}, l), \A o : t \notin OnTheirWay(o), alive,
              m \in Nat, g \in Nat, m <= (IF l = "recv" THEN n + 1 ELSE n), g <= (IF l = "send" THEN f + 1 ELSE f)
       PROVE  Goal
  <2> HIDE DEF n, m, f, g
  <2>1. /\ {t} \cap OnTheirWay(l) = {}
        /\ \A o \in WaitList \ {l} :
             OnTheirWay(o)' = OnTheirWay(o) \ {t} /\ Range(k'.wl[o]) \subseteq Range(k.wl[o]) /\ t \notin OnTheirWay(o)
    BY <1>12 DEF Passes, Shrinks
  <2>2. CASE l = "recv"
    <3>1. EnoughNext("recv", m)
      BY <1>2, <1>6, <1>12, <2>1, <2>2, EnoughMore
    <3>2. EnoughNext("send", g)
      BY <1>1, <1>2, <1>6, <1>12, <2>1, <2>2, EnoughLess
    <3> QED BY <3>1, <3>2
  <2>3. CASE l = "send"
    <3>1. EnoughNext("recv", m)
      BY <1>1, <1>2, <1>6, <1>12, <2>1, <2>3, EnoughLess
    <3>2. EnoughNext("send", g)
      BY <1>2, <1>6, <1>12, <2>1, <2>3, EnoughMore
    <3> QED BY <3>1, <3>2
  <2> QED BY <2>2, <2>3, IpcParts
<1>13. ASSUME NEW t \in Thread, MqLink(t)
       PROVE  Goal
  <2>1. At(t, "copyIn") /\ EndsWaking(t, "recv") /\ UNCHANGED alive
    BY <1>13 DEF MqLink
  <2>4. m = n + 1 /\ g = f
    <3>1. PICK s \in own[t] : mq' = Linked(s, call[t].item, call[t].op)
      BY <1>13 DEF MqLink
    <3> QED BY <1>5, <3>1
  <2>2. Passes({t}, "recv") /\ (\A o : t \notin OnTheirWay(o)) /\ alive
    BY <1>1, <1>11, <2>1 DEF Copying
  <2> HIDE DEF n, m, f, g, Goal
  <2>3. m \in Nat /\ g \in Nat /\ m <= n + 1 /\ g <= f
    BY <1>2, <2>4
  <2> QED BY <1>1, <1>12, <2>2, <2>3
<1>14. ASSUME NEW t \in Thread, MqFree(t)
       PROVE  Goal
  <2>1. At(t, "copyOut") /\ EndsWaking(t, "send") /\ UNCHANGED alive
    BY <1>14 DEF MqFree
  <2>2. PICK s \in own[t] : mq' = [mq EXCEPT !.free = Pushed(s, mq.free)]
    BY <1>14 DEF MqFree, Pushed
  <2>3. m = n /\ g = f + 1
    <3>1. s \in Slot
      BY <2>2 DEF SlotSound, Placed
    <3>2. mq'.entry = mq.entry /\ mq'.free = Pushed(s, mq.free)
      BY <1>2, <2>2 DEF MqState
    <3>3. Len(Pushed(s, mq.free)) = Len(mq.free) + 1
      BY <1>2, <3>1, PushedLonger
    <3> QED BY <3>2, <3>3
  <2>4. Passes({t}, "send") /\ (\A o : t \notin OnTheirWay(o)) /\ alive
    BY <1>1, <1>11, <2>1 DEF Copying
  <2> HIDE DEF n, m, f, g, Goal
  <2>5. m \in Nat /\ g \in Nat /\ m <= n /\ g <= f + 1
    BY <1>2, <2>3
  <2> QED BY <1>1, <1>12, <2>4, <2>5
<1>15. ASSUME NEW t \in Thread, NEW c, Tries(t, c), Allocates(t, c), c.op \in {"send", "urgent"} \/ Begins(t)
       PROVE  Goal
  <2>1. /\ mq.free # << >> /\ mq' = [mq EXCEPT !.free = Tail(@)] /\ Goto(t, "copyIn")
        /\ call' = [call EXCEPT ![t] = c] /\ OwnError(t)
    BY <1>15 DEF Allocates, FreeSlot, OwnError
  <2>2. m = n /\ g \in Nat /\ g + 1 <= f
    BY <1>2, <1>4, <2>1 DEF MqState
  <2>3. Leaves({t})
    BY <1>15, <2>1, CallLeaves DEF Waiting
  <2>4. t \notin OnTheirWay("recv") /\ alive
    BY <1>1, <1>15, TriesWay, TriesRuns DEF Begins, MayBlock, At, GoesOn
  <2> HIDE DEF n, m, f, g
  <2>5. n <= n
    BY <1>2
  <2>6. \A o \in WaitList : OnTheirWay(o)' = OnTheirWay(o) \ {t} /\ Range(k'.wl[o]) \subseteq Range(k.wl[o])
    BY <2>3 DEF Leaves, Shrinks
  <2>7. EnoughNext("recv", m)
    BY <1>1, <1>2, <1>6, <2>2, <2>4, <2>5, <2>6, EnoughLess
  <2>8. EnoughNext("send", g)
    BY <1>1, <1>2, <1>6, <2>2, <2>4, <2>6, EnoughLess
  <2> QED BY <2>7, <2>8
<1>16. ASSUME NEW t \in Thread, NEW timed \in BOOLEAN, NEW c, c = MqRecvCall(timed),
              MqRecv(t, c) \/ MqRecvWaits(t, c) \/ MqRecvFails(t, c)
       PROVE  Goal
  <2>1. c.op = "recv" /\ Tries(t, c)
    BY <1>16, GivesUpTries DEF MqRecvCall, MqRecv, MqRecvWaits, MqRecvFails
  <2>2. Enough("recv", n) /\ Enough("send", f)
    BY <1>6, <2>1, TriesRuns
  <2>3. CASE MqRecv(t, c)
    <3>1. /\ Goto(t, "copyOut") /\ call' = [call EXCEPT ![t] = [c EXCEPT !.item = last']]
          /\ OwnError(t) /\ n > 0 /\ m = n - 1 /\ g = f
      BY <1>2, <2>3 DEF MqRecv, OwnError, MqState
    <3>2. Leaves({t})
      BY <2>1, <3>1, CallLeaves DEF Waiting
    <3> HIDE DEF n, m, f, g
    <3>3. m \in Nat /\ m + 1 <= n /\ f <= f
      BY <1>2, <3>1
    <3>4. EnoughNext("recv", m)
      BY <1>1, <1>2, <2>1, <2>2, <3>2, <3>3, EnoughCalled
    <3>5. EnoughNext("send", g)
      BY <1>1, <1>2, <2>1, <2>2, <3>1, <3>2, <3>3, EnoughCalled
    <3> QED BY <3>4, <3>5
  <2>4. CASE MqRecvWaits(t, c)
    <3>1. Queues(t, "recv") /\ n = 0 /\ m = n /\ g = f
      BY <1>1, <1>3, <2>1, <2>4, WaitsQueues DEF MqRecvWaits
    <3> HIDE DEF n, m, f, g
    <3> QED BY <1>1, <1>2, <2>1, <2>2, <3>1, EnoughQueued
  <2>5. CASE MqRecvFails(t, c)
    <3>1. /\ Ends(t, "run") /\ n = 0 /\ m = n /\ g = f
          /\ k' = IF At(t, "woken") THEN SetError(k, t, "ETIMEOUT") ELSE k
      BY <1>3, <2>5 DEF MqRecvFails, SetError
    <3>2. OwnError(t) /\ Goto(t, "run") /\ call' = [call EXCEPT ![t] = NoCall]
      BY <3>1, ClearsOrSets DEF Ends
    <3>3. Leaves({t})
      BY <2>1, <3>2, CallLeaves DEF Waiting
    <3> HIDE DEF n, m, f, g
    <3>4. f <= f
      BY <1>2
    <3> QED BY <1>1, <1>2, <2>1, <2>2, <3>1, <3>3, <3>4, EnoughCalled
  <2> QED BY <1>16, <2>3, <2>4, <2>5
<1>17. ASSUME NEW t \in Thread, NEW x \in Item, NEW timed \in BOOLEAN, NEW c, c = MqSendCall(x, timed),
              MqSend(t, c) \/ MqSendWaits(t, c) \/ MqSendFails(t, c)
       PROVE  Goal
  <2>1. c.op = "send" /\ Tries(t, c)
    BY <1>17, GivesUpTries DEF MqSendCall, MqSend, MqSendWaits, MqSendFails
  <2>2. Enough("recv", n) /\ Enough("send", f)
    BY <1>6, <2>1, TriesRuns
  <2>3. CASE MqSend(t, c)
    BY <1>15, <2>1, <2>3 DEF MqSend
  <2>4. CASE MqSendWaits(t, c)
    <3>1. Queues(t, "send") /\ mq.free = << >> /\ m = n /\ g = f
      BY <1>1, <1>3, <2>1, <2>4, WaitsQueues DEF MqSendWaits, FreeSlot
    <3>2. f = 0
      BY <3>1, EmptySeq
    <3> HIDE DEF n, m, f, g
    <3> QED BY <1>1, <1>2, <2>1, <2>2, <3>1, <3>2, EnoughQueued
  <2>5. CASE MqSendFails(t, c)
    <3>1. /\ Ends(t, "run") /\ mq.free = << >> /\ m = n /\ g = f
          /\ k' = IF At(t, "woken") THEN SetError(k, t, "EOK") ELSE k
      BY <1>3, <2>5 DEF MqSendFails, SetError, ClearError, FreeSlot
    <3>2. OwnError(t) /\ Goto(t, "run") /\ call' = [call EXCEPT ![t] = NoCall]
      BY <3>1, ClearsOrSets DEF Ends
    <3>3. Leaves({t}) /\ f = 0
      BY <2>1, <3>1, <3>2, CallLeaves, EmptySeq DEF Waiting
    <3> HIDE DEF n, m, f, g
    <3>4. n <= n
      BY <1>2
    <3> QED BY <1>1, <1>2, <2>1, <2>2, <3>1, <3>3, <3>4, EnoughCalled
  <2> QED BY <1>17, <2>3, <2>4, <2>5
<1>18. ASSUME NEW t \in Thread, NEW x \in Item, MqUrgent(t, MqUrgentCall(x))
       PROVE  Goal
  BY <1>15, <1>18 DEF MqUrgent, Tries
<1> HIDE DEF Goal
<1> QED BY <1>7, <1>8, <1>9, <1>10, <1>13, <1>14, <1>16, <1>17, <1>18 DEF MqNext

(* A send: those of D are let go, and have got what was there; the others  *)
(* do not want what is left.                                               *)
Sends(D) ==
  /\ Releases(k', k, D) /\ k'.err = k.err
  /\ D \subseteq Range(k.wl["recv"])
  /\ set' \subseteq Bit /\ want' \in [Thread -> Want]
  /\ \A x \in Thread \ D : want'[x] = want[x]
  /\ \A x \in Range(k.wl["recv"]) \ D : ~ Satisfied(want[x], set')
  /\ \A x, y \in D : x # y /\ want'[x].clear /\ want'[y].clear => want'[x].bits \cap want'[y].bits = {}

LEMMA SendSends ==
  ASSUME IpcSound, EventTyped, NEW bits \in SUBSET Bit, EvSendIsr(bits) \/ \E t \in Thread : EvSend(t, bits)
  PROVE  \E D \in SUBSET Thread : Sends(D)
<1> DEFINE e == Sent(bits)
           r == e.k
<1>1. PICK D \in SUBSET Thread : Looked(e, Range(k.wl["recv"]), D)
  <2> HIDE DEF e
  <2>1. e = Sent(bits)
    BY DEF e
  <2> QED BY <2>1, SentLooks
<1>2. /\ k' = r \/ (r # k /\ k' = Schedule(r))
      /\ set' = e.set /\ want' = e.want
  BY DEF EvSendIsr, EvSend
<1> HIDE DEF e
<1>3. Releases(r, k, D) /\ r.err = k.err
  BY <1>1 DEF Looked
<1> HIDE DEF r
<1>4. Releases(k', k, D) /\ k'.err = k.err
  <2>1. CASE k' = r
    BY <1>3, <2>1
  <2>2. CASE k' = Schedule(r)
    <3>1. Wf(r, Thread) /\ OneRuns(r) /\ r.nest = 0
      BY <1>3, IpcParts DEF Releases
    <3>2. Releases(k', r, {}) /\ k'.err = r.err
      BY <2>2, <3>1, ScheduleReleases
    <3>3. {} \in SUBSET Thread /\ D \cup {} = D
      OBVIOUS
    <3>4. Releases(k', k, D \cup {})
      BY <1>3, <3>2, <3>3, ReleasesTwice
    <3> QED BY <1>3, <3>2, <3>3, <3>4
  <2> QED BY <1>2, <2>1, <2>2
<1>5. Sends(D)
  BY <1>1, <1>2, <1>4 DEF Looked, Sends
<1> QED BY <1>5

EvMet == EventTyped /\ NoMissedEvent

LEMMA EvMeets ==
  ASSUME IpcSound, IpcSound', EvMet, EvNext
  PROVE  EvMet'
<1>1. /\ "recv" \in WaitList /\ Wants \subseteq Want
      /\ Range(k.wl["recv"]) \subseteq Thread /\ Range(k'.wl["recv"]) \subseteq Thread
  <2>1. "recv" \in WaitList
    BY IpcParts
  <2>2. k.wl["recv"] \in Seq(Thread) /\ k'.wl["recv"] \in Seq(Thread)
    BY <2>1 DEF IpcSound, KernelSound, Wf, KernelState
  <2> QED BY <2>1, <2>2, RangeOfSeq, EventAssumption DEF Want
<1>2. EventTyped /\ (alive => \A x \in Range(k.wl["recv"]) : ~ Satisfied(want[x], set))
  BY DEF EvMet, NoMissedEvent
<1>3. ASSUME Shrinks, alive' => alive, set' \subseteq set, want' \in [Thread -> Want],
             \A x \in Range(k'.wl["recv"]) : want'[x] = want[x]
      PROVE  EvMet'
  <2>1. EventTyped'
    BY <1>2, <1>3 DEF EventTyped
  <2>2. ASSUME alive', NEW x \in Range(k'.wl["recv"])
        PROVE  ~ Satisfied(want'[x], set')
    BY <1>1, <1>2, <1>3, <2>2, WantsLess DEF Shrinks
  <2> QED BY <2>1, <2>2 DEF EvMet, NoMissedEvent
<1>4. CASE IpcStep /\ UNCHANGED <<set, want>>
  BY <1>2, <1>3, <1>4, IpcStepAlive, IpcStepLeaves DEF Leaves, EventTyped
<1>5. ASSUME NEW bits \in SUBSET Bit, EvSendIsr(bits) \/ \E t \in Thread : EvSend(t, bits)
      PROVE  EvMet'
  <2>1. PICK D \in SUBSET Thread : Sends(D)
    BY <1>2, <1>5, SendSends
  <2>2. EventTyped'
    BY <2>1 DEF Sends, EventTyped
  <2>3. ASSUME NEW x \in Range(k'.wl["recv"])
        PROVE  ~ Satisfied(want'[x], set')
    <3>1. x \in Range(k.wl["recv"]) /\ x \in Thread
      BY <1>1, <2>1, ReleasedShrinks DEF Sends, Shrinks
    <3>2. x \notin D
      BY <1>1, <2>1, OnlySuspendedWait DEF Sends, Releases
    <3> QED BY <2>1, <3>1, <3>2 DEF Sends
  <2> QED BY <2>2, <2>3 DEF EvMet, NoMissedEvent
<1>6. ASSUME NEW t \in Thread, at[t] \in {"run", "woken"}, k.cur = t, Shrinks, alive' => alive, set' \subseteq set,
             want' = [want EXCEPT ![t] = NoWant]
      PROVE  EvMet'
  <2>1. NoWant \in Want /\ want \in [Thread -> Want]
    BY <1>2 DEF NoWant, Want, EventTyped
  <2>2. k.stat[t] = "running"
    BY <1>6, AtRuns DEF At
  <2>3. t \notin Range(k.wl["recv"])
    BY <1>1, <2>2, OnlySuspendedWait, IpcParts
  <2>4. \A x \in Range(k'.wl["recv"]) : want'[x] = want[x]
    BY <1>1, <1>6, <2>1, <2>3 DEF Shrinks
  <2> QED BY <1>3, <1>6, <2>1, <2>4
<1>7. ASSUME NEW t \in Thread, EvReceived(t)
      PROVE  EvMet'
  <2>1. PICK timed \in BOOLEAN : GoesOn(t, EvCall(timed))
    BY <1>7 DEF EvReceived
  <2>2. /\ Ends(t, "run") /\ OwnError(t) /\ set' = set /\ alive' = alive
        /\ want' = [want EXCEPT ![t] = NoWant]
    BY <1>7 DEF EvReceived, OwnError
  <2> DEFINE c == EvCall(timed)
  <2>3. Tries(t, c)
    BY <2>1 DEF Tries
  <2> HIDE DEF c
  <2>4. Leaves({t})
    BY <2>2, <2>3, CallReturns
  <2>5. at[t] = "woken" /\ k.cur = t
    BY <2>1 DEF GoesOn, At
  <2> QED BY <1>6, <2>2, <2>4, <2>5 DEF Leaves
<1>8. ASSUME NEW t \in Thread, EvFails(t)
      PROVE  EvMet'
  <2>1. Leaves({}) /\ alive' = alive
    BY <1>8, FailsLeaves DEF EvFails
  <2>2. at[t] = "woken" /\ k.cur = t /\ set' = set /\ want' = [want EXCEPT ![t] = NoWant]
    BY <1>8 DEF EvFails, WokenFails, At
  <2> QED BY <1>6, <2>1, <2>2 DEF Leaves
<1>9. ASSUME NEW t \in Thread, EvReset(t)
      PROVE  EvMet'
  <2>1. Leaves({}) /\ alive' = alive
    BY <1>9, ResetLeaves DEF EvReset
  <2>2. set' = {} /\ want' = want
    BY <1>9 DEF EvReset
  <2> QED BY <1>2, <1>3, <2>1, <2>2 DEF Leaves, EventTyped
<1>10. ASSUME NEW t \in Thread, NEW w, EvRecv(t, w) \/ EvRecvFails(t, w)
       PROVE  EvMet'
  <2>1. Begins(t) /\ UNCHANGED <<at, call, alive, want>> /\ set' \subseteq set
    BY <1>10, ClearedLess DEF EvRecv, EvRecvFails
  <2>2. k' = SetError(k, t, "EOK") \/ k' = SetError(k, t, "ETIMEOUT")
    BY <1>10 DEF EvRecv, EvRecvFails, ClearError, SetError
  <2>3. OwnError(t)
    BY <2>2 DEF OwnError, Err
  <2>4. Leaves({})
    BY <2>1, <2>3, AtOnceLeaves
  <2> QED BY <1>2, <1>3, <2>1, <2>4 DEF Leaves, EventTyped
<1>11. ASSUME NEW t \in Thread, NEW w \in Wants, NEW timed \in BOOLEAN, EvRecvWaits(t, w, timed)
       PROVE  EvMet'
  <2> DEFINE c == EvCall(timed)
  <2>1. Tries(t, c) /\ Waits(t, "recv", c)
    BY <1>11 DEF EvRecvWaits, Tries
  <2> HIDE DEF c
  <2>2. Queues(t, "recv")
    BY <1>1, <2>1, WaitsQueues
  <2>3. alive /\ ~ Satisfied(w, set) /\ set' = set /\ want' = [want EXCEPT ![t] = w]
    BY <1>11 DEF EvRecvWaits, Begins
  <2>4. EventTyped'
    BY <1>1, <1>2, <2>3 DEF EventTyped
  <2>5. ASSUME NEW x \in Range(k'.wl["recv"])
        PROVE  ~ Satisfied(want'[x], set')
    <3>1. x \in Thread /\ (x \in Range(k.wl["recv"]) \/ x = t)
      BY <1>1, <2>2 DEF Queues
    <3>2. want'[x] = IF x = t THEN w ELSE want[x]
      BY <1>2, <2>3, <3>1 DEF EventTyped
    <3> QED BY <1>2, <2>3, <3>1, <3>2
  <2> QED BY <2>4, <2>5 DEF EvMet, NoMissedEvent
<1> QED BY <1>4, <1>5, <1>7, <1>8, <1>9, <1>10, <1>11 DEF EvNext

(***************************************************************************)
(* One object of any of the services.                                      *)
(***************************************************************************)
(* Nobody waits for what is there, said for each service of what it keeps; *)
(* a service leaves the variables of the others as they were.              *)
NobodyWaitsForIt ==
  /\ kind = "sem" => SemMet
  /\ kind = "mb" => MbMet
  /\ kind = "mq" => MqMet
  /\ kind = "mp" => MpMet
  /\ kind = "ev" => NoMissedEvent
  /\ kind # "ev" => set = {} /\ want = [t \in Thread |-> NoWant]

CInductive ==
  /\ IpcSound /\ RingSound /\ SlotSound /\ PoolSound
  /\ value \in 0 .. ValueMax /\ EventTyped
  /\ NobodyWaitsForIt

LEMMA NobodyQueued == \A x : x \notin Range(<< >>)
<1>1. << >> \in Seq(Thread)
  BY EmptySeq
<1> QED BY <1>1, EmptyRange

(* The start of the scheduler, the object new.                             *)
LEMMA IpcInitSound ==
  ASSUME IsFiniteSet(Thread), IpcInit
  PROVE  IpcSound /\ \A l \in WaitList : k.wl[l] = << >>
<1>1. /\ at = [t \in Thread |-> "run"] /\ call = [t \in Thread |-> NoCall]
      /\ alive = TRUE /\ last = NoItem /\ epoch = 0
  BY DEF IpcInit, KernelInit
<1>2. PICK r \in BootQueues(Thread) : k = FirstSwitch(Started(Thread, r))
  BY DEF IpcInit, KernelInit
<1>3. /\ Wf(k, Thread) /\ OneRuns(k) /\ k.stat[k.cur] = "running" /\ k.nest = 0
      /\ \A l \in WaitList : k.wl[l] = << >>
  <2>1. Thread \in SUBSET Thread /\ Idle \in Thread
    BY KernelAssumption
  <2> QED BY <1>2, <2>1, BootWf
<1>4. /\ NoCall \in Call /\ NoCall.op = "none" /\ "run" \in IpcLabel /\ Idle \in Thread
      /\ 0 \in 0 .. Resets
  BY IpcAssumption, KernelAssumption DEF NoCall, Call, IpcLabel
<1>5. k \in KernelState
  BY <1>3 DEF Wf
<1>6. IpcTypeOK
  BY <1>1, <1>4, <1>5 DEF IpcTypeOK
<1>7. KernelSound
  BY <1>1, <1>3, <1>4 DEF KernelSound, OnCpu
<1>8. DeletedSound
  BY <1>1 DEF DeletedSound
<1>9. ASSUME NEW x \in Thread
      PROVE  ThreadSound(x)
  <2>1. \A l \in WaitList : x \notin Range(k.wl[l])
    BY <1>3, NobodyQueued
  <2>2. k.stat[x] # "suspend"
    <3>1. Thread \in SUBSET Thread
      OBVIOUS
    <3> QED BY <1>2, <3>1, BootStat
  <2> QED BY <1>1, <1>4, <2>1, <2>2 DEF ThreadSound, Waiting, Copying
<1> QED BY <1>3, <1>6, <1>7, <1>8, <1>9 DEF IpcSound

LEMMA CInitInductive ==
  ASSUME IsFiniteSet(Thread), CInit
  PROVE  CInductive
<1>1. IpcSound /\ RingSound /\ SlotSound /\ PoolSound /\ "recv" \in WaitList /\ "send" \in WaitList
  BY IpcInitSound, RingInit, SlotInit, PoolInit, IpcAssumption DEF CInit
<1>2. k.wl["recv"] = << >> /\ k.wl["send"] = << >>
  BY <1>1, IpcInitSound DEF CInit
<1>3. value \in 0 .. ValueMax /\ set = {} /\ want = [t \in Thread |-> NoWant]
  BY DEF CInit, SemInit, EvInit
<1>4. NoWant \in Want
  BY DEF NoWant, Want
<1>5. EventTyped
  BY <1>3, <1>4 DEF EventTyped
<1>6. SemMet /\ MbMet /\ MqMet /\ MpMet
  BY <1>2, <1>3 DEF SemMet, MbMet, MqMet, MpMet, Enough
<1>7. NoMissedEvent
  <2>1. \A t : t \notin Range(k.wl["recv"])
    BY <1>2, NobodyQueued
  <2> QED BY <2>1 DEF NoMissedEvent
<1> QED BY <1>1, <1>3, <1>5, <1>6, <1>7 DEF CInductive, NobodyWaitsForIt

LEMMA IpcSoundStays ==
  ASSUME IpcSound, UNCHANGED <<k, at, call, alive, last, epoch, kind>>
  PROVE  IpcSound'
BY DEF IpcSound, IpcTypeOK, KernelSound, OnCpu, ThreadSound, DeletedSound

LEMMA CStutters ==
  ASSUME CInductive, UNCHANGED cvars
  PROVE  CInductive'
<1>1. UNCHANGED <<k, at, call, alive, last, epoch, kind>> /\ UNCHANGED <<value, mb, mq, own, mp, holder, set, want>>
  BY DEF cvars, objects
<1>2. IpcSound' /\ RingSound' /\ SlotSound' /\ PoolSound'
  <2>1. [CNext]_cvars
    OBVIOUS
  <2> QED BY <1>1, <2>1, IpcSoundStays, RingKept, SlotKept, PoolKept DEF CInductive
<1>3. (value \in 0 .. ValueMax)' /\ EventTyped'
  BY <1>1 DEF CInductive, EventTyped
<1>4. NobodyWaitsForIt'
  BY <1>1 DEF CInductive, NobodyWaitsForIt, SemMet, MbMet, MqMet, MpMet, NoMissedEvent, Enough, OnTheirWay
<1> QED BY <1>2, <1>3, <1>4 DEF CInductive

LEMMA CNextKeeps ==
  ASSUME IsFiniteSet(Thread), CInductive, CNext
  PROVE  CInductive'
<1>1. /\ UNCHANGED kind
      /\ \/ kind = "sem" /\ SemNext /\ UNCHANGED <<mb, mq, own, mp, holder, set, want>>
         \/ kind = "mb" /\ MbNext /\ UNCHANGED <<value, mq, own, mp, holder, set, want>>
         \/ kind = "mq" /\ MqNext /\ UNCHANGED <<value, mb, mp, holder, set, want>>
         \/ kind = "mp" /\ MpNext /\ UNCHANGED <<value, mb, mq, own, set, want>>
         \/ kind = "ev" /\ EvNext /\ UNCHANGED <<value, mb, mq, own, mp, holder>>
  BY DEF CNext
<1>2. IpcSound /\ RingSound /\ SlotSound /\ PoolSound /\ EventTyped /\ value \in 0 .. ValueMax
  BY DEF CInductive
<1>3. IpcSound'
  BY <1>1, <1>2, SemKeeps, MbKeeps, MqKeeps, MpKeeps, EvKeeps
<1>4. RingSound' /\ SlotSound' /\ PoolSound'
  BY <1>2, RingKept, SlotKept, PoolKept
<1>5. CASE kind = "sem"
  <2>1. SemMet /\ SemNext
    BY <1>1, <1>5 DEF CInductive, NobodyWaitsForIt
  <2>2. SemMet'
    BY <1>2, <1>3, <2>1, SemMeets
  <2>3. kind' = "sem" /\ UNCHANGED <<set, want>>
    BY <1>1, <1>5
  <2>4. EventTyped' /\ (set = {} /\ want = [t \in Thread |-> NoWant])'
    BY <1>2, <1>5, <2>3 DEF CInductive, NobodyWaitsForIt, EventTyped
  <2> QED BY <1>3, <1>4, <2>2, <2>3, <2>4 DEF CInductive, NobodyWaitsForIt, SemMet
<1>6. ASSUME kind # "sem", kind # "ev"
      PROVE  /\ EventTyped' /\ (value \in 0 .. ValueMax)' /\ (set = {} /\ want = [t \in Thread |-> NoWant])'
             /\ UNCHANGED kind
  BY <1>1, <1>2, <1>6 DEF CInductive, NobodyWaitsForIt, EventTyped
<1>7. CASE kind = "mb"
  <2>1. MbMet /\ MbNext
    BY <1>1, <1>7 DEF CInductive, NobodyWaitsForIt
  <2>2. MbMet'
    BY <1>2, <1>3, <2>1, MbMeets
  <2> QED BY <1>3, <1>4, <1>6, <1>7, <2>2 DEF CInductive, NobodyWaitsForIt
<1>8. CASE kind = "mq"
  <2>1. MqMet /\ MqNext
    BY <1>1, <1>8 DEF CInductive, NobodyWaitsForIt
  <2>2. MqMet'
    BY <1>2, <1>3, <2>1, MqMeets
  <2> QED BY <1>3, <1>4, <1>6, <1>8, <2>2 DEF CInductive, NobodyWaitsForIt
<1>9. CASE kind = "mp"
  <2>1. MpMet /\ MpNext
    BY <1>1, <1>9 DEF CInductive, NobodyWaitsForIt
  <2>2. MpMet'
    BY <1>2, <1>3, <2>1, MpMeets
  <2> QED BY <1>3, <1>4, <1>6, <1>9, <2>2 DEF CInductive, NobodyWaitsForIt
<1>10. CASE kind = "ev"
  <2>1. EvMet /\ EvNext /\ UNCHANGED <<value, kind>>
    BY <1>1, <1>2, <1>10 DEF CInductive, NobodyWaitsForIt, EvMet
  <2>2. EvMet'
    BY <1>2, <1>3, <2>1, EvMeets
  <2> QED BY <1>2, <1>3, <1>4, <1>10, <2>1, <2>2 DEF CInductive, NobodyWaitsForIt, EvMet
<1> QED BY <1>1, <1>5, <1>7, <1>8, <1>9, <1>10

(* What every behaviour of the services keeps.                             *)
THEOREM CInductiveHolds ==
  ASSUME IsFiniteSet(Thread)
  PROVE  CSpec => []CInductive
<1>1. CInit => CInductive
  BY CInitInductive
<1>2. CInductive /\ [CNext]_cvars => CInductive'
  BY CStutters, CNextKeeps
<1> QED BY <1>1, <1>2, PTL DEF CSpec

(* The kernel under the services stays exact: nothing that a service does  *)
(* to the lists, in any order with the timer and the deletion, leaves a    *)
(* thread in two lists, in the queue of another priority, or with a timer  *)
(* that runs though the thread does not wait.                              *)
THEOREM KernelStaysExact ==
  ASSUME IsFiniteSet(Thread)
  PROVE  CSpec => []KernelExact
<1>1. CInductive => KernelExact
  BY DEF CInductive, IpcSound, KernelSound, Wf, KernelExact
<1> QED BY <1>1, CInductiveHolds, PTL

(* No event is missed: after any sends, clears and receives, no thread     *)
(* waits in rt_event_recv for bits that are in the set.                    *)
THEOREM EventsAreNotMissed ==
  ASSUME IsFiniteSet(Thread)
  PROVE  CSpec => []NoMissedEvent
<1>1. ASSUME CInductive
      PROVE  NoMissedEvent
  <2>1. CASE kind = "ev"
    BY <1>1, <2>1 DEF CInductive, NobodyWaitsForIt
  <2>2. CASE kind # "ev"
    <3>1. set = {} /\ want = [t \in Thread |-> NoWant]
      BY <1>1, <2>2 DEF CInductive, NobodyWaitsForIt
    <3>2. \A t \in Thread : ~ Satisfied(want[t], set)
      BY <3>1 DEF Satisfied, NoWant
    <3>3. k.wl["recv"] \in Seq(Thread)
      BY <1>1, IpcParts DEF CInductive, KernelState
    <3>4. Range(k.wl["recv"]) \subseteq Thread
      BY <3>3, RangeOfSeq
    <3> QED BY <3>2, <3>4 DEF NoMissedEvent
  <2> QED BY <2>1, <2>2
<1> QED BY <1>1, CInductiveHolds, PTL

Services == {"sem", "mb", "mq", "mp", "ev"}

LEMMA LengthOf ==
  ASSUME NEW n \in Nat, NEW f(_)
  PROVE  Len([i \in 1 .. n |-> f(i)]) = n
OBVIOUS

(* What the invariant of each service says of what is seen from outside.   *)
LEMMA CountsAre ==
  ASSUME IsFiniteSet(Thread), CInductive, kind \in Services
  PROVE  /\ k.wl["recv"] # << >> /\ alive => Len(Contents) <= Cardinality(OnTheirWay("recv"))
         /\ k.wl["send"] # << >> /\ alive => Spare <= Cardinality(OnTheirWay("send"))
<1> DEFINE a == Cardinality(OnTheirWay("recv"))
<1>1. a \in Nat /\ Cardinality(OnTheirWay("send")) \in Nat
  BY FinitelyMany
<1> HIDE DEF a
<1>2. kind \notin {"mb", "mq"} => k.wl["send"] = << >>
  <2>1. k.wl["send"] \in Seq(Thread) /\ "send" \in WaitList
    BY IpcParts DEF CInductive, KernelState
  <2>2. kind \notin {"mb", "mq"} => Range(k.wl["send"]) = {}
    <3>1. \A x \in Range(k.wl["send"]) : x \in Thread /\ ThreadSound(x)
      BY <2>1, RangeOfSeq, IpcParts DEF CInductive
    <3> QED BY <2>1, <3>1 DEF ThreadSound
  <2> QED BY <2>1, <2>2, EmptyRange
<1>3. CASE kind = "sem"
  <2>1. alive /\ k.wl["recv"] # << >> => value = 0
    BY <1>3 DEF CInductive, NobodyWaitsForIt, SemMet
  <2>2. Tokens = value + a /\ Contents = [i \in 1 .. Tokens |-> Token]
    BY <1>3 DEF Tokens, a, Contents
  <2>3. value = 0 => Tokens = a
    BY <1>1, <2>2
  <2>4. value = 0 => Len(Contents) = a
    BY <1>1, <2>2, <2>3
  <2> QED BY <1>1, <1>2, <1>3, <2>1, <2>4 DEF a
<1>4. CASE kind = "mb"
  <2>1. mb.entry \in Nat /\ MbSize \in Nat
    BY SizePositive DEF CInductive, RingSound, Mailbox
  <2>2. Contents = [i \in 1 .. mb.entry |-> mb.pool[(mb.out + i - 1) % MbSize]] /\ Limit = MbSize
    BY <1>4, ContentsAre DEF Mails
  <2>3. Len(Contents) = mb.entry /\ Spare = MbSize - mb.entry
    BY <1>4, <2>1, <2>2 DEF Spare
  <2> QED BY <1>4, <2>3 DEF CInductive, NobodyWaitsForIt, MbMet, Enough
<1>5. CASE kind = "mq"
  <2>1. mq.queue \in Seq(Slot) /\ mq.entry = Len(mq.queue)
    BY DEF CInductive, SlotSound, MqState
  <2>2. Contents = [i \in DOMAIN mq.queue |-> mq.content[mq.queue[i]]]
    BY <1>5, ContentsAre DEF Messages
  <2>3. Len(Contents) = mq.entry /\ Spare = Len(mq.free)
    BY <1>5, <2>1, <2>2, LenProperties DEF Spare
  <2> QED BY <1>5, <2>3 DEF CInductive, NobodyWaitsForIt, MqMet, Enough
<1>6. CASE kind = "mp"
  <2>1. Contents = mp.list /\ Len(mp.list) = mp.count
    BY <1>6, ContentsAre DEF CInductive, PoolSound
  <2> QED BY <1>2, <1>6, <2>1 DEF CInductive, NobodyWaitsForIt, MpMet, Enough
<1>7. CASE kind = "ev"
  <2>1. Len(Contents) = 0
    BY <1>7 DEF Contents
  <2> QED BY <1>1, <1>2, <1>7, <2>1 DEF a
<1> QED BY <1>3, <1>4, <1>5, <1>6, <1>7 DEF Services

(* No wake-up is lost: as long as a thread waits for an item or for room,  *)
(* as many threads have been let go and have not looked yet as there are   *)
(* items or places, however releases, timeouts and faster threads come     *)
(* between; and a deletion leaves nobody in the lists of the object.       *)
THEOREM NobodyIsForgotten ==
  ASSUME IsFiniteSet(Thread), Kinds \subseteq Services
  PROVE  CSpec => []NoWaiterForgotten
<1>1. CInit => kind \in Services
  BY DEF CInit
<1>2. kind \in Services /\ [CNext]_cvars => (kind \in Services)'
  BY DEF CNext, cvars
<1>3. ASSUME CInductive, kind \in Services
      PROVE  NoWaiterForgotten
  <2>1. DeletedSound /\ "recv" \in WaitList /\ "send" \in WaitList
    BY <1>3, IpcParts DEF CInductive, IpcSound
  <2> QED BY <1>3, <2>1, CountsAre DEF NoWaiterForgotten, DeletedSound, Deleting
<1> QED BY <1>1, <1>2, <1>3, CInductiveHolds, PTL DEF CSpec

(* A waiting thread stays where it is in its call.                         *)
LEMMA WaiterParked ==
  ASSUME IpcSound, NEW x \in Thread, k.stat[x] = "suspend",
         NEW t \in Thread, NEW a, At(t, a), a \notin {"wait", "asleep"}, NEW b, Goto(t, b),
         NEW c, UNCHANGED call \/ call' = [call EXCEPT ![t] = c]
  PROVE  Parked(x)
<1>1. x # t
  BY AtRuns
<1> QED BY <1>1, OthersParked

LEMMA IpcStepParks ==
  ASSUME IpcSound, IpcStep, NEW x \in Thread, k.stat[x] = "suspend"
  PROVE  Parked(x)
<1>1. CASE UNCHANGED <<at, call>>
  BY <1>1 DEF Parked
<1>2. ASSUME NEW t \in Thread, NEW a \in {"run", "awake", "schedule", "deleteTest", "deleteRecv", "deleteSend"},
             At(t, a), NEW b, Goto(t, b), UNCHANGED call
      PROVE  Parked(x)
  BY <1>2, WaiterParked
<1>3. ASSUME NEW t \in Thread, NEW a \in {"wait", "asleep"}, At(t, a), UNCHANGED call,
             Goto(t, IF a = "wait" THEN "woken" ELSE "awake")
      PROVE  Parked(x)
  <2>1. CASE x = t
    BY <1>3, <2>1, IpcParts DEF At, Goto, Parked
  <2>2. CASE x # t
    BY <1>3, <2>2, OthersParked
  <2> QED BY <2>1, <2>2
<1>4. ASSUME NEW t \in Thread, Sleep(t) \/ WakeUp(t) \/ EndSchedule(t), UNCHANGED ivars
      PROVE  Parked(x)
  BY <1>2, <1>4 DEF Sleep, WakeUp, EndSchedule, ScheduleStep, MayBlock, At, ivars
<1>5. ASSUME NEW t \in Thread, AsleepSchedule(t) \/ WaitSchedule(t), UNCHANGED ivars
      PROVE  Parked(x)
  BY <1>3, <1>5 DEF AsleepSchedule, WaitSchedule, ScheduleStep, ivars
<1>6. ASSUME NEW t \in Thread, Delete(t) \/ DeleteTest(t)
      PROVE  Parked(x)
  BY <1>2, <1>6 DEF Delete, DeleteTest, Begins, MayBlock, ivars
<1>7. ASSUME NEW t \in Thread, NEW a \in {"deleteRecv", "deleteSend"}, NEW l, DeleteResume(t, a, l)
      PROVE  Parked(x)
  BY <1>2, <1>7 DEF DeleteResume, ivars
<1>8. ASSUME (SliceEnd \/ \E t \in Thread : TimerExpires(t)) /\ UNCHANGED ivars
      PROVE  Parked(x)
  BY <1>1, <1>8 DEF SliceEnd, TimerExpires, ivars
<1> QED BY <1>4, <1>5, <1>6, <1>7, <1>8 DEF IpcStep, WaitSchedule, EndSchedule

(* A step that lets nobody on the way to an event lets nobody go.          *)
LEMMA NotLetGo ==
  ASSUME IpcSound, NEW t \in Thread, LetGo(t), Parked(t), OnTheirWay("recv")' \subseteq OnTheirWay("recv")
  PROVE  FALSE
<1>1. "recv" \in WaitList
  BY IpcParts
<1>2. at[t] \in Waiting /\ call[t].op = "recv"
  BY <1>1, IpcParts DEF LetGo, ThreadSound
<1>3. k.stat[t] = "suspend"
  BY <1>1, OnlySuspendedWait, IpcParts DEF LetGo
<1>4. t \in OnTheirWay("recv")'
  BY <1>2 DEF LetGo, Parked, OnTheirWay, Waiting
<1> QED BY <1>3, <1>4 DEF OnTheirWay

(* Only a send lets go.                                                    *)
LEMMA OnlySendsLetGo ==
  ASSUME IpcSound, EventTyped, EvNext, NEW x \in Thread, LetGo(x)
  PROVE  \E bits \in SUBSET Bit : EvSendIsr(bits) \/ \E t \in Thread : EvSend(t, bits)
<1>1. "recv" \in WaitList /\ k.stat[x] = "suspend"
  BY OnlySuspendedWait, IpcParts DEF LetGo
<1>2. CASE IpcStep
  BY <1>1, <1>2, IpcStepParks, IpcStepLeaves, NotLetGo DEF Leaves
<1>3. ASSUME NEW t \in Thread, EvReceived(t)
      PROVE  FALSE
  <2>1. PICK timed \in BOOLEAN : GoesOn(t, EvCall(timed))
    BY <1>3 DEF EvReceived
  <2>2. Ends(t, "run") /\ OwnError(t)
    BY <1>3 DEF EvReceived, OwnError
  <2> DEFINE c == EvCall(timed)
  <2>3. Tries(t, c)
    BY <2>1 DEF Tries
  <2> HIDE DEF c
  <2>4. Leaves({t})
    BY <2>2, <2>3, CallReturns
  <2>5. At(t, "woken") /\ Goto(t, "run") /\ call' = [call EXCEPT ![t] = NoCall]
    BY <2>1, <2>2 DEF GoesOn, Ends
  <2>6. Parked(x)
    BY <1>1, <2>5, WaiterParked
  <2> QED BY <1>1, <2>4, <2>6, NotLetGo DEF Leaves
<1>4. ASSUME NEW t \in Thread, EvFails(t)
      PROVE  FALSE
  <2>1. Leaves({}) /\ At(t, "woken") /\ Goto(t, "run") /\ call' = [call EXCEPT ![t] = NoCall]
    BY <1>4, FailsLeaves DEF EvFails, WokenFails, Ends
  <2>2. Parked(x)
    BY <1>1, <2>1, WaiterParked
  <2> QED BY <1>1, <2>1, <2>2, NotLetGo DEF Leaves
<1>5. ASSUME NEW t \in Thread, EvReset(t)
      PROVE  FALSE
  <2>1. Leaves({}) /\ At(t, "run") /\ Goto(t, "schedule") /\ UNCHANGED call
    BY <1>5, ResetLeaves DEF EvReset, ResetWaiters, Begins, MayBlock
  <2>2. Parked(x)
    BY <1>1, <2>1, WaiterParked
  <2> QED BY <1>1, <2>1, <2>2, NotLetGo DEF Leaves
<1>6. ASSUME NEW t \in Thread, NEW w, EvRecv(t, w) \/ EvRecvFails(t, w)
      PROVE  FALSE
  <2>1. Begins(t) /\ UNCHANGED <<at, call>>
    BY <1>6 DEF EvRecv, EvRecvFails
  <2>2. k' = SetError(k, t, "EOK") \/ k' = SetError(k, t, "ETIMEOUT")
    BY <1>6 DEF EvRecv, EvRecvFails, ClearError, SetError
  <2>3. OwnError(t)
    BY <2>2 DEF OwnError, Err
  <2>4. Leaves({}) /\ Parked(x)
    BY <2>1, <2>3, AtOnceLeaves DEF Parked
  <2> QED BY <1>1, <2>4, NotLetGo DEF Leaves
<1>7. ASSUME NEW t \in Thread, NEW w, NEW timed \in BOOLEAN, EvRecvWaits(t, w, timed)
      PROVE  FALSE
  <2> DEFINE c == EvCall(timed)
  <2>1. Tries(t, c) /\ Waits(t, "recv", c) /\ At(t, "run")
    BY <1>7 DEF EvRecvWaits, Tries, Begins, MayBlock
  <2> HIDE DEF c
  <2>2. Queues(t, "recv") /\ Goto(t, "wait") /\ call' = [call EXCEPT ![t] = c]
    BY <1>1, <2>1, WaitsQueues DEF Waits
  <2>3. Parked(x)
    BY <1>1, <2>1, <2>2, WaiterParked
  <2> QED BY <1>1, <2>2, <2>3, NotLetGo DEF Queues
<1> QED BY <1>2, <1>3, <1>4, <1>5, <1>6, <1>7 DEF EvNext

LEMMA LetGoOnce ==
  ASSUME CInductive, CNext, NEW t \in Thread, NEW u \in Thread, t # u,
         LetGo(t), LetGo(u), want'[t].clear, want'[u].clear
  PROVE  want'[t].bits \cap want'[u].bits = {}
<1>1. CASE kind # "ev"
  <2>1. want' = [x \in Thread |-> NoWant]
    BY <1>1 DEF CInductive, NobodyWaitsForIt, CNext
  <2> QED BY <2>1 DEF NoWant
<1>2. CASE kind = "ev"
  <2>1. IpcSound /\ EventTyped /\ EvNext /\ "recv" \in WaitList
    BY <1>2, IpcParts DEF CInductive, CNext
  <2>2. PICK bits \in SUBSET Bit : EvSendIsr(bits) \/ \E x \in Thread : EvSend(x, bits)
    BY <2>1, OnlySendsLetGo
  <2>3. PICK D \in SUBSET Thread : Sends(D)
    BY <2>1, <2>2, SendSends
  <2>4. k.stat[t] = "suspend" /\ k.stat[u] = "suspend"
    BY <2>1, OnlySuspendedWait, IpcParts DEF LetGo
  <2>5. t \in D /\ u \in D
    BY <2>3, <2>4 DEF LetGo, Sends, Releases, Untouched
  <2> QED BY <2>3, <2>5 DEF Sends
<1> QED BY <1>1, <1>2

(* No event is received twice: two threads that one rt_event_send lets go, *)
(* and that asked for CLEAR, have got different bits.                      *)
THEOREM EventsAreReceivedOnce ==
  ASSUME IsFiniteSet(Thread)
  PROVE  CSpec => ReceivedOnce
<1>1. ASSUME CInductive, [CNext]_cvars
      PROVE  [\A t, u \in Thread :
                 t # u /\ LetGo(t) /\ LetGo(u) /\ want'[t].clear /\ want'[u].clear =>
                   want'[t].bits \cap want'[u].bits = {}]_<<k, want>>
  BY <1>1, LetGoOnce DEF cvars, objects
<1> QED BY <1>1, CInductiveHolds, PTL DEF CSpec, ReceivedOnce

(* A list of different elements is no longer than their number.            *)
LEMMA BoundedList ==
  ASSUME NEW S, IsFiniteSet(S), NEW s \in Seq(S), IsInjective(s)
  PROVE  s \in BoundedSeq(S, Cardinality(S)) /\ Len(s) \in 0 .. Cardinality(S)
<1> DEFINE n == Len(s)
<1>1. n \in Nat /\ s \in [1 .. n -> S] /\ DOMAIN s = 1 .. n
  BY LenProperties
<1>2. s \in Injection(1 .. n, S)
  BY <1>1 DEF Injection
<1>3. Cardinality(1 .. n) <= Cardinality(S)
  BY <1>2, FS_Injection
<1>4. Cardinality(1 .. n) = n /\ Cardinality(S) \in Nat
  <2> HIDE DEF n
  <2>1. Cardinality(1 .. n) = IF 1 > n THEN 0 ELSE n - 1 + 1
    BY <1>1, FS_Interval
  <2> QED BY <1>1, <2>1, FS_CardinalityType
<1>5. n \in 0 .. Cardinality(S)
  BY <1>1, <1>3, <1>4
<1> HIDE DEF n
<1> QED BY <1>1, <1>5 DEF BoundedSeq, SeqOf, n

(* The variables keep their types: no count of the services leaves its     *)
(* range, and no list of blocks or slots grows over the pool.              *)
THEOREM ServicesTypeCorrect ==
  ASSUME IsFiniteSet(Thread)
  PROVE  CSpec => []CTypeOK
<1>1. ASSUME CInductive
      PROVE  CTypeOK
  <2>1. IpcTypeOK /\ value \in 0 .. ValueMax /\ mb \in Mailbox /\ set \subseteq Bit /\ want \in [Thread -> Want]
    BY <1>1 DEF CInductive, IpcSound, RingSound, EventTyped
  <2>2. /\ mq.free \in Seq(Slot) /\ IsInjective(mq.free) /\ mq.queue \in Seq(Slot) /\ IsInjective(mq.queue)
        /\ mq.entry = Len(mq.queue) /\ mq.content \in [Slot -> Item \cup {NoItem}] /\ own \in [Thread -> SUBSET Slot]
    BY <1>1 DEF CInductive, SlotSound, MqState, Message, Placed, Line
  <2>3. /\ mq.free \in BoundedSeq(Slot, Cardinality(Slot)) /\ mq.queue \in BoundedSeq(Slot, Cardinality(Slot))
        /\ mq.entry \in 0 .. Cardinality(Slot)
    BY <2>2, BoundedList, MqAssumption
  <2>4. mp.list \in Seq(Blocks) /\ IsInjective(mp.list) /\ mp.count = Len(mp.list) /\ holder \in [Blocks -> SUBSET Thread]
    BY <1>1 DEF CInductive, PoolSound, Blocks
  <2>5. mp.list \in BoundedSeq(Blocks, Cardinality(Blocks)) /\ mp.count \in 0 .. Cardinality(Blocks)
    BY <2>4, BoundedList, MpAssumption
  <2> QED BY <2>1, <2>2, <2>3, <2>4, <2>5 DEF CTypeOK
<1> QED BY <1>1, CInductiveHolds, PTL

(***************************************************************************)
(* A semaphore as a store.  Its tokens are alike: it stores a number of    *)
(* one item.                                                               *)
(***************************************************************************)
Alike(n) == [i \in 1 .. n |-> Token]

LEMMA AlikeFacts ==
  ASSUME NEW n \in Nat
  PROVE  /\ Token \in Item /\ Alike(n) \in Seq(Item) /\ Len(Alike(n)) = n
         /\ Alike(n + 1) = Append(Alike(n), Token)
         /\ n > 0 => Alike(n) # << >> /\ Head(Alike(n)) = Token /\ Tail(Alike(n)) = Alike(n - 1)
<1>1. Token \in Item
  BY IpcAssumption DEF Token
<1> HIDE DEF Token
<1>2. \A m \in Nat : Alike(m) \in Seq(Item) /\ Len(Alike(m)) = m
  BY <1>1 DEF Alike
<1>3. Alike(n + 1) = Append(Alike(n), Token)
  <2>1. Append(Alike(n), Token) \in Seq(Item) /\ Len(Append(Alike(n), Token)) = n + 1
    BY <1>1, <1>2
  <2>2. \A i \in 1 .. n + 1 : Append(Alike(n), Token)[i] = Alike(n + 1)[i]
    BY <1>1, <1>2 DEF Alike
  <2>3. Alike(n + 1) \in Seq(Item) /\ Len(Alike(n + 1)) = n + 1
    BY <1>2
  <2> QED BY <2>1, <2>2, <2>3, SeqEqual
<1>4. ASSUME n > 0
      PROVE  Alike(n) # << >> /\ Head(Alike(n)) = Token /\ Tail(Alike(n)) = Alike(n - 1)
  <2>1. Alike(n) # << >> /\ Head(Alike(n)) = Token
    BY <1>2, <1>4 DEF Alike
  <2>2. Tail(Alike(n)) \in Seq(Item) /\ Len(Tail(Alike(n))) = n - 1
    BY <1>2, <1>4, <2>1
  <2>3. \A i \in 1 .. n - 1 : Tail(Alike(n))[i] = Alike(n - 1)[i]
    BY <1>2, <1>4, <2>1 DEF Alike
  <2>4. n - 1 \in Nat /\ Alike(n - 1) \in Seq(Item) /\ Len(Alike(n - 1)) = n - 1
    BY <1>2, <1>4
  <2> QED BY <2>1, <2>2, <2>3, <2>4, SeqEqual
<1> QED BY <1>1, <1>2, <1>3, <1>4

OneTaken(n) == Alike(n) # << >> /\ Head(Alike(n)) = Token /\ Tail(Alike(n)) = Alike(n - 1)

LEMMA AlikeTaken ==
  ASSUME NEW n \in Nat, n > 0
  PROVE  OneTaken(n)
BY AlikeFacts DEF OneTaken

LEMMA SomeAreOnTheirWay ==
  ASSUME IsFiniteSet(Thread), NEW l
  PROVE  Cardinality(OnTheirWay(l)) \in 0 .. Cardinality(Thread) /\ Cardinality(Thread) \in Nat
<1>1. OnTheirWay(l) \subseteq Thread
  BY DEF OnTheirWay
<1> QED BY <1>1, FS_Subset, FS_CardinalityType

SameTokens == Tokens' = Tokens /\ last' = last /\ epoch' = epoch

TakesToken == Tokens > 0 /\ Tokens' = Tokens - 1 /\ last' = Token /\ epoch' = epoch

AddsToken ==
  /\ Tokens' = Tokens + 1 /\ Tokens < ValueMax + Cardinality(Thread)
  /\ last' = last /\ epoch' = epoch

(* A release counts its token or hands it over, never both; a take gets a  *)
(* counted one, or one that was handed over.                               *)
LEMMA TokensMove ==
  ASSUME IpcSound, IsFiniteSet(Thread), ValueMax < 65536, value \in 0 .. ValueMax, SemNext
  PROVE  \/ SameTokens \/ TakesToken \/ AddsToken
         \/ /\ Tokens' \in 0 .. ValueMax + Cardinality(Thread)
            /\ last' = last /\ epoch' = epoch + 1
<1> DEFINE a == Cardinality(OnTheirWay("recv"))
           b == Cardinality(OnTheirWay("recv")')
           n == Cardinality(Thread)
<1>1. /\ "recv" \in WaitList /\ ValueMax \in Nat /\ value \in Nat /\ a \in 0 .. n /\ n \in Nat
      /\ Tokens = value + a /\ Tokens' = value' + b
  BY IpcParts, SemAssumption, SomeAreOnTheirWay DEF Tokens
<1>2. b \in 0 .. n
  <2>1. OnTheirWay("recv")' \subseteq Thread
    BY DEF OnTheirWay
  <2> QED BY <2>1, FS_Subset, FS_CardinalityType
<1>3. Leaves({}) => a = b
  BY <1>1 DEF Leaves
<1> HIDE DEF a, b, n
<1>4. CASE (IpcStep \/ \E t \in Thread : WokenFails(t)) /\ UNCHANGED value
  <2>1. Leaves({})
    BY <1>4, IpcStepLeaves, FailsLeaves
  <2> QED BY <1>1, <1>3, <1>4, <2>1, IpcStepSilent DEF SameTokens
<1>12. Tokens' = Tokens + 1 /\ Tokens < ValueMax + n /\ last' = last /\ epoch' = epoch => AddsToken
  BY DEF AddsToken, n
<1>5. ASSUME NEW M \in SUBSET Thread, Passes(M, "recv"), OnTheirWay("recv") \cap M = {},
             value < ValueMax, value' = Counted, last' = last, epoch' = epoch
      PROVE  AddsToken
  <2>1. (value + 1) % 65536 = value + 1
    BY <1>1, <1>5
  <2>2. CASE k.wl["recv"] = << >>
    <3>1. OnTheirWay("recv")' = OnTheirWay("recv")
      <4>1. FirstIn("recv") = {}
        BY <2>2 DEF FirstIn
      <4>2. OnTheirWay("recv")' = (OnTheirWay("recv") \ M) \cup FirstIn("recv") /\ OnTheirWay("recv") \cap M = {}
        BY <1>5 DEF Passes
      <4> QED BY <4>1, <4>2
    <3>3. value' = value + 1
      BY <1>5, <2>1, <2>2 DEF Counted
    <3>2. b = a
      BY <3>1 DEF a, b
    <3> QED BY <1>1, <1>2, <1>5, <1>12, <3>2, <3>3
  <2>3. CASE k.wl["recv"] # << >>
    <3> DEFINE h == Head(k.wl["recv"])
               S == OnTheirWay("recv")
    <3>1. S' = S \cup {h} /\ h \notin S /\ value' = value
      BY <1>5, <2>3 DEF Passes, FirstIn, Counted
    <3>2. IsFiniteSet(S)
      BY FinitelyMany
    <3> HIDE DEF S, h
    <3>3. Cardinality(S \cup {h}) = Cardinality(S) + 1
      BY <3>1, <3>2, OneMoreOfThem
    <3>4. b = a + 1
      BY <3>1, <3>3 DEF a, b, S
    <3> QED BY <1>1, <1>2, <1>5, <1>12, <3>1, <3>4
  <2> QED BY <2>2, <2>3
<1>6. CASE SemReleaseIsr
  <2>1. Passes({}, "recv")
    BY <1>1, <1>6, IsrWakingPasses DEF SemReleaseIsr, ivars
  <2> QED BY <1>5, <1>6, <2>1 DEF SemReleaseIsr, ivars
<1>7. ASSUME NEW t \in Thread, SemTake(t)
      PROVE  TakesToken
  <2>1. /\ Begins(t) /\ OwnError(t) /\ UNCHANGED <<at, call>>
        /\ value > 0 /\ value' = value - 1 /\ last' = Token /\ epoch' = epoch
    BY <1>7 DEF SemTake, OwnError
  <2>2. a = b
    BY <1>3, <2>1, AtOnceLeaves
  <2> QED BY <1>1, <2>1, <2>2 DEF TakesToken
<1>8. ASSUME NEW t \in Thread, SemTaken(t)
      PROVE  TakesToken
  <2>1. PICK timed \in BOOLEAN : GoesOn(t, TakeCall(timed))
    BY <1>8 DEF SemTaken
  <2>2. OwnError(t) /\ Ends(t, "run") /\ value' = value /\ last' = Token /\ epoch' = epoch
    BY <1>8 DEF SemTaken, OwnError
  <2> DEFINE c == TakeCall(timed)
             S == OnTheirWay("recv")
  <2>3. Tries(t, c) /\ GoesOn(t, c) /\ c.op = "recv"
    BY <2>1 DEF Tries, TakeCall
  <2> HIDE DEF c
  <2>4. Leaves({t})
    BY <2>2, <2>3, CallReturns
  <2>5. t \in OnTheirWay("recv")
    BY <1>1, <2>3, TriesWay
  <2>6. S' = S \ {t} /\ t \in S /\ IsFiniteSet(S)
    BY <1>1, <2>4, <2>5, FinitelyMany DEF Leaves
  <2> HIDE DEF S
  <2>7. Cardinality(S \ {t}) = Cardinality(S) - 1 /\ Cardinality(S \ {t}) \in Nat
    BY <2>6, OneLess
  <2>8. b = a - 1
    <3>1. b = Cardinality(S') /\ a = Cardinality(S)
      BY DEF a, b, S
    <3> QED BY <2>6, <2>7, <3>1
  <2> QED BY <1>1, <1>2, <2>2, <2>8 DEF TakesToken
<1>9. ASSUME NEW t \in Thread, SemRelease(t)
      PROVE  AddsToken
  <2>1. Tries(t, NoCall) /\ Begins(t) /\ EndsWaking(t, "recv")
    BY <1>9 DEF SemRelease, Tries
  <2>2. k.stat[t] # "suspend" /\ {t} \in SUBSET Thread
    BY <2>1, TriesRuns
  <2>3. Passes({t}, "recv")
    BY <1>1, <2>1, <2>2, EndsWakingPasses
  <2>4. OnTheirWay("recv") \cap {t} = {}
    BY <2>1 DEF Begins, MayBlock, At, OnTheirWay
  <2> QED BY <1>5, <1>9, <2>2, <2>3, <2>4 DEF SemRelease
<1>10. ASSUME NEW t \in Thread, SemReset(t)
       PROVE  Tokens' \in 0 .. ValueMax + Cardinality(Thread) /\ last' = last /\ epoch' = epoch + 1
  <2>1. value' \in 0 .. ValueMax /\ last' = last /\ epoch' = epoch + 1
    BY <1>10 DEF SemReset, ResetWaiters
  <2>2. value' + b \in 0 .. ValueMax + n
    <3>1. n \in Nat /\ ValueMax \in Nat
      BY <1>1
    <3> DEFINE v == value'
    <3>2. v \in 0 .. ValueMax
      BY <2>1
    <3> HIDE DEF v
    <3>3. v + b \in 0 .. ValueMax + n
      BY <1>2, <3>1, <3>2
    <3> QED BY <3>3 DEF v
  <2>3. Tokens' \in 0 .. ValueMax + n
    BY <1>1, <2>2
  <2> QED BY <2>1, <2>3 DEF n
<1>11. ASSUME NEW t \in Thread, NEW timed \in BOOLEAN, SemWaits(t, timed)
       PROVE  SameTokens
  <2> DEFINE c == TakeCall(timed)
  <2>1. /\ Tries(t, c) /\ Begins(t) /\ Waits(t, "recv", c)
        /\ value' = value /\ last' = last /\ epoch' = epoch
    BY <1>11 DEF SemWaits, Tries
  <2> HIDE DEF c
  <2>2. Queues(t, "recv")
    BY <1>1, <2>1, WaitsQueues
  <2>3. t \notin OnTheirWay("recv")
    BY <2>1 DEF Begins, MayBlock, At, OnTheirWay
  <2>4. a = b
    <3>1. OnTheirWay("recv")' = OnTheirWay("recv")
      BY <1>1, <2>2, <2>3 DEF Queues
    <3> QED BY <3>1 DEF a, b
  <2> QED BY <1>1, <2>1, <2>4 DEF SameTokens
<1> QED BY <1>4, <1>6, <1>7, <1>8, <1>9, <1>10, <1>11 DEF SemNext

LEMMA BoundedAlikeTokens ==
  ASSUME NEW n \in Nat, NEW m \in 0 .. n
  PROVE  Alike(m) \in Abstract!BoundedSeq(Item, n)
<1>1. m \in Nat /\ m <= n
  OBVIOUS
<1>2. Alike(m) \in Seq(Item) /\ Len(Alike(m)) = m
  BY <1>1, AlikeFacts
<1> QED BY <1>1, <1>2, BoundedFacts, BoundedAlike

LEMMA SemStore ==
  ASSUME IpcSound, IsFiniteSet(Thread), ValueMax < 65536, value \in 0 .. ValueMax,
         SemNext, kind = "sem", kind' = kind
  PROVE  [Abstract!Next]_(Abstract!vars)
<1> DEFINE n == Tokens
           m == Tokens'
           cap == ValueMax + Cardinality(Thread)
<1>1. Contents = Alike(n) /\ Contents' = Alike(m) /\ Limit = cap /\ Limit' = Limit
  BY DEF Contents, Limit, Alike, Token
<1>2. Cardinality(OnTheirWay("recv")) \in Nat /\ cap \in Nat
  BY FinitelyMany, SomeAreOnTheirWay, SemAssumption
<1>3. n \in Nat
  BY <1>2, SemAssumption DEF Tokens
<1>4. \/ m = n /\ last' = last /\ epoch' = epoch
      \/ n > 0 /\ m = n - 1 /\ last' = Token /\ epoch' = epoch
      \/ m = n + 1 /\ n < cap /\ last' = last /\ epoch' = epoch
      \/ m \in 0 .. cap /\ last' = last /\ epoch' = epoch + 1
  BY TokensMove DEF SameTokens, TakesToken, AddsToken
<1> HIDE DEF n, m, cap
<1>5. CASE m = n /\ last' = last /\ epoch' = epoch
  BY <1>1, <1>5 DEF Abstract!vars
<1>6. CASE n > 0 /\ m = n - 1 /\ last' = Token /\ epoch' = epoch
  <2>1. Alike(n) # << >> /\ Head(Alike(n)) = Token /\ Tail(Alike(n)) = Alike(n - 1)
    <3>1. n \in Nat /\ n > 0
      BY <1>3, <1>6
    <3>2. OneTaken(n)
      BY <3>1, AlikeTaken
    <3> QED BY <3>2 DEF OneTaken
  <2>3. Alike(n - 1) = Alike(m)
    BY <1>6
  <2>2. Contents # << >> /\ last' = Head(Contents) /\ Contents' = Tail(Contents)
    BY <1>1, <1>6, <2>1, <2>3
  <2> QED BY <1>1, <1>6, <2>2 DEF Abstract!Next, Abstract!Get
<1>7. CASE m = n + 1 /\ n < cap /\ last' = last /\ epoch' = epoch
  <2>3. Token \in Item /\ Len(Alike(n)) = n /\ Alike(m) = Append(Alike(n), Token)
    BY <1>3, <1>7, AlikeFacts
  <2>4. n # cap
    BY <1>2, <1>3, <1>7
  <2>1. Token \in Item /\ Len(Contents) # Limit /\ Contents' = Append(Contents, Token)
    BY <1>1, <2>3, <2>4
  <2>2. Abstract!Put(Token)
    BY <1>1, <1>7, <2>1 DEF Abstract!Put, Abstract!Full
  <2> QED BY <2>1, <2>2 DEF Abstract!Next
<1>8. CASE m \in 0 .. cap /\ last' = last /\ epoch' = epoch + 1
  <2>1. Contents' \in Abstract!BoundedSeq(Item, Limit)
    BY <1>1, <1>2, <1>8, BoundedAlikeTokens
  <2> QED BY <1>1, <1>8, <2>1 DEF Abstract!Next, Abstract!Reset
<1> QED BY <1>4, <1>5, <1>6, <1>7, <1>8

(* A semaphore, a mailbox, a message queue and a memory pool are the store *)
(* of Store for any finite number of threads; an event stores nothing.     *)
(* The count of the semaphore stays in its 16 bits.                        *)
THEOREM EveryServiceIsAStore ==
  ASSUME IsFiniteSet(Thread), ValueMax < 65536, Kinds \subseteq Services
  PROVE  CSpec => IsStore
<1>1. ASSUME CInit
      PROVE  Abstract!Init /\ kind \in Services
  <2>1. kind \in Services /\ last = NoItem /\ epoch = 0
    BY <1>1 DEF CInit, IpcInit
  <2>2. CASE kind \in Stores
    BY <1>1, <2>1, <2>2, StoreInit
  <2>3. CASE kind = "sem"
    <3> DEFINE cap == ValueMax + Cardinality(Thread)
    <3>1. value \in Nat /\ value <= ValueMax
      BY <1>1, <2>3, SemAssumption DEF CInit, SemInit
    <3>2. Cardinality(OnTheirWay("recv")) = 0
      <4>1. \A t \in Thread : at[t] = "run"
        BY <1>1 DEF CInit, IpcInit, KernelInit
      <4>2. OnTheirWay("recv") = {}
        BY <4>1 DEF OnTheirWay
      <4> QED BY <4>2, FS_EmptySet
    <3>3. cap \in Nat /\ Limit = cap /\ value \in 0 .. cap
      BY <2>3, <3>1, SomeAreOnTheirWay, SemAssumption DEF Limit
    <3>5. Tokens = value
      BY <3>1, <3>2 DEF Tokens
    <3>6. Contents = Alike(value)
      BY <2>3, <3>5 DEF Contents, Alike
    <3> HIDE DEF cap
    <3>4. Contents \in Abstract!BoundedSeq(Item, Limit)
      BY <3>3, <3>6, BoundedAlikeTokens
    <3> QED BY <2>1, <3>3, <3>4 DEF Abstract!Init
  <2>4. CASE kind = "ev"
    <3>1. Limit = 0 /\ Contents = << >>
      BY <2>4 DEF Limit, Contents
    <3>2. << >> \in Abstract!BoundedSeq(Item, 0)
      BY EmptyBounded, BoundedAlike
    <3> QED BY <2>1, <3>1, <3>2 DEF Abstract!Init
  <2> QED BY <2>1, <2>2, <2>3, <2>4 DEF Services, Stores
<1>2. ASSUME CInductive, kind \in Services, [CNext]_cvars
      PROVE  (kind \in Services)' /\ [Abstract!Next]_(Abstract!vars)
  <2>1. UNCHANGED kind
    BY <1>2 DEF CNext, cvars
  <2>2. CASE kind \in Stores
    <3>1. StoreSound
      BY <1>2, <2>2 DEF CInductive, StoreSound
    <3> QED BY <1>2, <2>1, <3>1, StoreNext
  <2>3. CASE kind = "sem" /\ CNext
    <3>1. SemNext
      BY <2>3 DEF CNext
    <3> QED BY <1>2, <2>1, <2>3, <3>1, SemStore DEF CInductive
  <2>4. CASE kind = "sem" /\ UNCHANGED cvars
    <3>1. UNCHANGED <<Contents, last, epoch, Limit>>
      BY <2>4 DEF cvars, objects, Contents, Limit, Tokens, OnTheirWay
    <3> QED BY <1>2, <2>1, <3>1 DEF Abstract!vars
  <2>5. CASE kind = "ev"
    <3>1. Contents = << >> /\ Contents' = << >> /\ Limit = 0 /\ Limit' = 0
      BY <2>1, <2>5 DEF Contents, Limit
    <3>2. last' = last /\ epoch' \in {epoch, epoch + 1}
      <4>1. CASE UNCHANGED cvars
        BY <4>1 DEF cvars
      <4>2. CASE EvNext
        BY <4>2, IpcStepSilent DEF EvNext, EvSendIsr, EvSend, EvReceived, EvFails, EvReset, EvRecv,
                                   EvRecvFails, EvRecvWaits, ResetWaiters, WokenFails, ivars
      <4> QED BY <1>2, <2>5, <4>1, <4>2 DEF CNext
    <3>3. << >> \in Abstract!BoundedSeq(Item, 0)
      BY EmptyBounded, BoundedAlike
    <3> QED BY <1>2, <2>1, <3>1, <3>2, <3>3 DEF Abstract!vars, Abstract!Next, Abstract!Reset
  <2> QED BY <1>2, <2>2, <2>3, <2>4, <2>5 DEF Services, Stores
<1> QED BY <1>1, <1>2, CInductiveHolds, PTL DEF CSpec, IsStore, Abstract!Spec
=============================================================================
