---------------------------- MODULE MutexProofs -----------------------------
(***************************************************************************)
(* What rt_mutex_take, rt_mutex_release and rt_mutex_delete promise, for   *)
(* any number of threads and mutexes, any priorities, both ways of         *)
(* queueing, and any mix of timeouts and deletions, up to the first wait   *)
(* that a signal interrupts (from where on the promises do not hold).      *)
(***************************************************************************)
EXTENDS Mutex, KernelProofs

(* No thread gets a signal; and the first wait that one ends has ended.    *)
Uninterrupted == Signalled = {}

Interrupted == \E t \in Signalled : sig[t] = "handled"

(***************************************************************************)
(* The inductive invariant, in parts.                                      *)
(***************************************************************************)
(* Inside rt_mutex_take, from the region that queues the thread up to the  *)
(* one that looks at its error; and inside the loop of rt_mutex_delete.    *)
Taking   == {"takeSchedule", "taken"}
Deleting == {"deleteTest", "deleteResume"}

Waits(t, m) == at[t] \in Taking /\ call[t] = m

(* The current thread runs, but for its way from a suspension to the call  *)
(* of rt_schedule.                                                         *)
KernelRuns ==
  /\ Wf(k, Thread) /\ OneRuns(k) /\ k.nest = 0
  /\ k.stat[k.cur] = "running" \/ at[k.cur] \in {"takeSchedule", "asleep"}

(* A signal that is pending is for a thread that it has woken, and has not *)
(* been handled; the thread will find it before it looks at anything else. *)
SignalsPend ==
  \A t \in Thread :
    /\ t \in Signalled <=> sig[t] # "handled"
    /\ sig[t] = "pending" => at[t] = "taken" /\ k.stat[t] # "suspend"
    /\ at[t] \notin RetryLabel /\ k.err[t] # "EINTR"

(* What the fields of a mutex say of each other and of its list.           *)
MutexSound(m) ==
  /\ mx[m].value = 1 <=> mx[m].owner = NoThread
  /\ mx[m].hold = 0 <=> mx[m].owner = NoThread
  /\ mx[m].owner # NoThread => mx[m].orig \in Prio
  /\ k.wl[m] # << >> => mx[m].owner # NoThread
  /\ \A x \in Range(k.wl[m]) : Waits(x, m)
  /\ ~ mx[m].alive /\ k.wl[m] # << >> => \E t \in Thread : at[t] \in Deleting /\ call[t] = m

(* A thread inside rt_mutex_take that is still suspended has got neither   *)
(* the mutex nor an error; one that is not has got exactly one of them, if *)
(* it was not a signal that woke it.                                       *)
ResultKnown(t) ==
  at[t] \in Taking /\ sig[t] # "pending" =>
    IF k.stat[t] = "suspend" THEN k.err[t] = "EOK" /\ mx[call[t]].owner # t
                             ELSE k.err[t] = "EOK" <=> mx[call[t]].owner = t

(* The hold count is what the owner's calls have returned, or one more     *)
(* while the take that was handed the mutex has not returned.              *)
HoldsKnown(t, m) ==
  IF Waits(t, m) THEN took[t][m] = 0 /\ (mx[m].owner = t => mx[m].hold = 1)
                 ELSE took[t][m] = IF mx[m].owner = t THEN mx[m].hold ELSE 0

MInductive ==
  /\ MTypeOK /\ KernelRuns /\ SignalsPend
  /\ \A m \in Mutexes : MutexSound(m)
  /\ \A t \in Thread : ResultKnown(t)
  /\ \A t \in Thread, m \in Mutexes : HoldsKnown(t, m)

(* The parts of the invariant that every step uses.                        *)
LEMMA MInductiveParts ==
  ASSUME MInductive
  PROVE  /\ Wf(k, Thread) /\ k \in KernelState /\ OneRuns(k) /\ k.nest = 0 /\ k.cur \in Thread
         /\ at \in [Thread -> MutexLabel] /\ mx \in [Mutexes -> MutexState]
         /\ call \in [Thread -> Mutexes] /\ took \in [Thread -> [Mutexes -> 0 .. HoldMax]]
BY DEF MInductive, MTypeOK, KernelRuns, Wf, KernelState

(* Code that is not about to call rt_schedule runs in a running thread.    *)
LEMMA MCallerRuns ==
  ASSUME MInductive, NEW t \in Thread, k.cur = t, at[t] \notin {"takeSchedule", "asleep"}
  PROVE  k.stat[t] = "running"
BY DEF MInductive, KernelRuns

(***************************************************************************)
(* Steps that leave the mutexes alone.  A thread that is let go by such a  *)
(* step leaves with an error; any other keeps the error it has.            *)
(***************************************************************************)
Settles(r, x) ==
  /\ r.stat[x] = "suspend" => k.stat[x] = "suspend" /\ r.err[x] = k.err[x]
  /\ r.stat[x] # "suspend" => IF k.stat[x] = "suspend" THEN r.err[x] # "EOK" ELSE r.err[x] = k.err[x]

LeavesMutexes(r) ==
  /\ Fewer(r, k)
  /\ \A x \in Thread : r.err[x] # "EINTR" /\ (at[x] \in Taking => Settles(r, x))

(* No call enters or leaves the wait of rt_mutex_take, and none leaves the *)
(* loop of rt_mutex_delete before the list is empty.                       *)
PointsKept ==
  /\ at' \in [Thread -> MutexLabel]
  /\ \A x \in Thread :
       /\ at'[x] \notin RetryLabel /\ (at'[x] \in Taking <=> at[x] \in Taking)
       /\ at[x] = "taken" => at'[x] = "taken"
       /\ at[x] \in Deleting /\ k'.wl[call[x]] # << >> => at'[x] \in Deleting

(* A step of the clock moves no call.                                      *)
LEMMA SamePointKept ==
  ASSUME MInductive, UNCHANGED at
  PROVE  PointsKept
BY MInductiveParts DEF PointsKept, MInductive, SignalsPend

(* A step of t moves the call of t.                                        *)
LEMMA GotoKept ==
  ASSUME MInductive, NEW t \in Thread, NEW a \in MutexLabel \ RetryLabel, Goto(t, a),
         a \in Taking <=> at[t] \in Taking, at[t] # "taken",
         at[t] \in Deleting /\ k'.wl[call[t]] # << >> => a \in Deleting
  PROVE  PointsKept
<1>1. /\ at' \in [Thread -> MutexLabel] /\ at'[t] = a
      /\ \A x \in Thread : x # t => at'[x] = at[x]
  BY MInductiveParts DEF Goto
<1> QED BY <1>1 DEF PointsKept, MInductive, SignalsPend

(* The state itself, before rt_schedule or anything else is called.        *)
LEMMA NothingDone ==
  ASSUME MInductive
  PROVE  LeavesMutexes(k) /\ MaySchedule(k)
BY MInductiveParts DEF LeavesMutexes, Settles, Fewer, MaySchedule, MInductive, SignalsPend

(* rt_schedule, after what q stands for.                                   *)
LEMMA ScheduledLeaves ==
  ASSUME MInductive, NEW q, MaySchedule(q), q.nest = 0, LeavesMutexes(q), k' = Schedule(q)
  PROVE  LeavesMutexes(k') /\ KernelRuns'
<1>1. Wf(k', Thread) /\ OneRuns(k') /\ k'.stat[k'.cur] = "running" /\ Rescheduled(k', q)
  BY ScheduleWf
<1>2. k'.err = q.err /\ k'.nest = 0 /\ Fewer(k', q)
  BY <1>1 DEF Rescheduled
<1>3. \A x \in Thread : k'.stat[x] = "suspend" <=> q.stat[x] = "suspend"
  BY <1>1 DEF Rescheduled
<1>4. Fewer(k', k)
  BY <1>2 DEF Fewer, LeavesMutexes
<1>5. LeavesMutexes(k')
  BY <1>2, <1>3, <1>4 DEF LeavesMutexes, Settles
<1> QED BY <1>1, <1>2, <1>5 DEF KernelRuns

(* A signal that is pending stays so, of a thread that is not suspended.   *)
LEMMA SignalsPendKept ==
  ASSUME MInductive, PointsKept, UNCHANGED sig, \A x \in Thread : k'.err[x] # "EINTR",
         \A x \in Thread : at[x] \in Taking /\ k'.stat[x] = "suspend" => k.stat[x] = "suspend"
  PROVE  SignalsPend'
<1> SUFFICES ASSUME NEW t \in Thread
             PROVE  /\ t \in Signalled <=> sig'[t] # "handled"
                    /\ sig'[t] = "pending" => at'[t] = "taken" /\ k'.stat[t] # "suspend"
                    /\ at'[t] \notin RetryLabel /\ k'.err[t] # "EINTR"
  BY DEF SignalsPend
<1>1. /\ t \in Signalled <=> sig[t] # "handled"
      /\ sig[t] = "pending" => at[t] = "taken" /\ k.stat[t] # "suspend"
  BY DEF MInductive, SignalsPend
<1> QED BY <1>1 DEF PointsKept, Taking

(* Such a step keeps the invariant.                                        *)
LEMMA KernelStepKeeps ==
  ASSUME MInductive, LeavesMutexes(k'), KernelRuns', PointsKept,
         UNCHANGED <<mx, call, timed, took, sig, seen>>
  PROVE  MInductive'
<1>1. MTypeOK'
  BY DEF MInductive, MTypeOK, PointsKept, KernelRuns, Wf
<1>2. SignalsPend'
  BY SignalsPendKept DEF LeavesMutexes, Settles
<1>3. \A x \in Thread, m \in Mutexes : Waits(x, m)' <=> Waits(x, m)
  BY DEF Waits, PointsKept
<1>4. ASSUME NEW m \in Mutexes  PROVE MutexSound(m)'
  <2>1. MutexSound(m)
    BY DEF MInductive
  <2>2. m \in WaitList /\ Range(k'.wl[m]) \subseteq Range(k.wl[m])
    BY DEF LeavesMutexes, Fewer, Mutexes
  <2>3. Range(k.wl[m]) \subseteq Thread
    BY MInductiveParts, RangeOfSeq, <2>2 DEF KernelState
  <2>4. k'.wl[m] # << >> => k.wl[m] # << >>
    <3>1. k.wl[m] \in Seq(Thread) /\ k'.wl[m] \in Seq(Thread)
      BY <2>2, MInductiveParts DEF KernelState, KernelRuns, Wf
    <3> QED BY <2>2, <3>1, EmptyRange
  <2>5. \A x \in Range(k'.wl[m]) : Waits(x, m)'
    BY <1>3, <2>1, <2>2, <2>3 DEF MutexSound
  <2>6. ~ mx'[m].alive /\ k'.wl[m] # << >> => \E t \in Thread : at'[t] \in Deleting /\ call'[t] = m
    BY <2>1, <2>4 DEF MutexSound, PointsKept
  <2> QED BY <2>1, <2>4, <2>5, <2>6 DEF MutexSound
<1>5. ASSUME NEW t \in Thread  PROVE ResultKnown(t)'
  BY DEF MInductive, ResultKnown, PointsKept, LeavesMutexes, Settles
<1>6. ASSUME NEW t \in Thread, NEW m \in Mutexes  PROVE HoldsKnown(t, m)'
  BY <1>3 DEF MInductive, HoldsKnown
<1> QED BY <1>1, <1>2, <1>4, <1>5, <1>6 DEF MInductive

(* The clock interrupt at the end of a time slice.                         *)
LEMMA MSliceEndKeeps ==
  ASSUME MInductive, SliceEnd, UNCHANGED <<mx, call, timed, took, sig, seen>>
  PROVE  MInductive'
<1> DEFINE q == [k EXCEPT !.yield = @ \cup {k.cur}]
<1>1. k' = Schedule(q) /\ UNCHANGED at
  BY DEF SliceEnd, SliceOver
<1>2. /\ q \in KernelState /\ q.stat = k.stat /\ q.prio = k.prio /\ q.rq = k.rq
      /\ q.group = k.group /\ q.wl = k.wl /\ q.defunct = k.defunct /\ q.tmr = k.tmr
      /\ q.cur = k.cur /\ q.nest = k.nest /\ q.err = k.err
  BY MInductiveParts DEF KernelState
<1> HIDE DEF q
<1>3. MaySchedule(q)
  <2>1. Wf(q, Thread)
    BY <1>2, MInductiveParts, SameListsWf
  <2> QED BY <1>2, <2>1, NothingDone DEF MaySchedule, OneRuns
<1>4. LeavesMutexes(q)
  BY <1>2, NothingDone DEF LeavesMutexes, Settles, Fewer
<1>5. LeavesMutexes(k') /\ KernelRuns'
  BY <1>1, <1>2, <1>3, <1>4, MInductiveParts, ScheduledLeaves
<1> QED BY <1>1, <1>5, SamePointKept, KernelStepKeeps

(* The timer of a wait or of rt_thread_sleep expires.                      *)
LEMMA MTimerExpiresKeeps ==
  ASSUME MInductive, NEW t \in Thread, TimerExpires(t), UNCHANGED <<mx, call, timed, took, sig, seen>>
  PROVE  MInductive'
<1> DEFINE r == Expired(k, t)
<1>1. k' = Schedule(r) /\ UNCHANGED at /\ t \in k.tmr
  BY DEF TimerExpires, Timeout, Expired
<1>2. /\ k.stat[t] = "suspend" /\ Wf(r, Thread)
      /\ r.stat = [k.stat EXCEPT ![t] = IF t = k.cur THEN "running" ELSE "ready"]
      /\ r.err = [k.err EXCEPT ![t] = "ETIMEOUT"]
      /\ r.tmr = k.tmr \ {t} /\ r.cur = k.cur /\ r.nest = k.nest /\ Fewer(r, k)
  <2>1. Wf(k, Thread) /\ t \in k.tmr /\ r = Expired(k, t)
    BY <1>1, MInductiveParts
  <2> HIDE DEF r
  <2> QED BY <2>1, ExpiredWf
<1> HIDE DEF r
<1>3. /\ r.stat[t] = IF t = k.cur THEN "running" ELSE "ready"
      /\ r.err[t] = "ETIMEOUT"
      /\ \A x \in Thread : x # t => r.stat[x] = k.stat[x] /\ r.err[x] = k.err[x]
  BY <1>2, MInductiveParts DEF KernelState
<1>4. MaySchedule(r)
  BY <1>2, <1>3, MInductiveParts, KernelAssumption DEF MaySchedule, OneRuns
<1>5. LeavesMutexes(r)
  BY <1>2, <1>3, NothingDone DEF LeavesMutexes, Settles
<1>6. LeavesMutexes(k') /\ KernelRuns'
  BY <1>1, <1>2, <1>4, <1>5, MInductiveParts, ScheduledLeaves
<1> QED BY <1>1, <1>6, SamePointKept, KernelStepKeeps

(* The call of rt_schedule in the middle or at the end of a call.          *)
LEMMA MScheduleStepKeeps ==
  ASSUME MInductive, NEW t \in Thread, UNCHANGED <<mx, call, timed, took, sig, seen>>,
         \/ ScheduleStep(t, "takeSchedule", "taken")
         \/ ScheduleStep(t, "asleep", "awake")
         \/ ScheduleStep(t, "releaseSchedule", "run")
  PROVE  MInductive'
<1>1. k' = Schedule(k)
  BY DEF ScheduleStep
<1>2. LeavesMutexes(k') /\ KernelRuns'
  BY <1>1, NothingDone, MInductiveParts, ScheduledLeaves
<1>3. PointsKept
  <2>1. PICK a \in MutexLabel \ RetryLabel :
          Goto(t, a) /\ (a \in Taking <=> at[t] \in Taking) /\ at[t] \notin Deleting \cup {"taken"}
    BY DEF ScheduleStep, At, MutexLabel, RetryLabel, Taking, Deleting
  <2> QED BY <2>1, GotoKept
<1> QED BY <1>2, <1>3, KernelStepKeeps

(* A running thread sets its own error, outside of rt_mutex_take's wait.   *)
LEMMA SetErrorLeaves ==
  ASSUME MInductive, NEW t \in Thread, k.stat[t] = "running", at[t] \notin Taking,
         NEW e \in Err, e # "EINTR", NEW q, q = SetError(k, t, e)
  PROVE  /\ LeavesMutexes(q) /\ Wf(q, Thread) /\ OneRuns(q)
         /\ q.err = [k.err EXCEPT ![t] = e] /\ q.stat = k.stat /\ q.prio = k.prio /\ q.wl = k.wl
         /\ q.tmr = k.tmr /\ q.cur = k.cur /\ q.nest = k.nest
<1>1. /\ Wf(q, Thread)
      /\ q.err = [k.err EXCEPT ![t] = e] /\ q.stat = k.stat /\ q.prio = k.prio /\ q.wl = k.wl
      /\ q.tmr = k.tmr /\ q.cur = k.cur /\ q.nest = k.nest /\ q.defunct = k.defunct
  BY MInductiveParts, SetErrorWf
<1>2. q.err[t] = e /\ \A x \in Thread : x # t => q.err[x] = k.err[x]
  BY <1>1, MInductiveParts DEF KernelState
<1>3. LeavesMutexes(q)
  BY <1>1, <1>2, NothingDone DEF LeavesMutexes, Settles, Fewer
<1> QED BY <1>1, <1>3, MInductiveParts DEF OneRuns

(* rt_thread_sleep, up to its call of rt_schedule.                         *)
LEMMA MSleepKeeps ==
  ASSUME MInductive, NEW t \in Thread, Sleep(t), UNCHANGED <<mx, call, timed, took, sig, seen>>
  PROVE  MInductive'
<1> DEFINE u == Suspend(k, t)
<1>1. MayBlock(t) /\ k' = StartTimer(u, t) /\ Goto(t, "asleep") /\ k.stat[t] = "running" /\ k.cur = t
  BY MCallerRuns DEF Sleep, MayBlock, At
<1>2. /\ Wf(u, Thread) /\ u.stat = [k.stat EXCEPT ![t] = "suspend"] /\ u.err = k.err
      /\ u.cur = k.cur /\ u.nest = k.nest /\ Fewer(u, k)
  <2>1. Wf(k, Thread) /\ k.stat[t] \in {"ready", "running"} /\ u = Suspend(k, t)
    BY <1>1, MInductiveParts
  <2> HIDE DEF u
  <2> QED BY <2>1, SuspendWf
<1> HIDE DEF u
<1>3. u.stat[t] = "suspend" /\ \A x \in Thread : x # t => u.stat[x] = k.stat[x]
  BY <1>2, MInductiveParts DEF KernelState
<1>4. /\ Wf(k', Thread) /\ k'.stat = u.stat /\ k'.err = u.err /\ k'.cur = u.cur
      /\ k'.nest = u.nest /\ k'.wl = u.wl /\ k'.defunct = u.defunct
  BY <1>1, <1>2, <1>3, StartTimerWf
<1>5. PointsKept /\ at'[t] = "asleep" /\ at[t] \notin Taking
  <2>1. at'[t] = "asleep" /\ at[t] = "run" /\ "asleep" \in MutexLabel \ RetryLabel
    BY <1>1, MInductiveParts DEF Goto, MayBlock, At, MutexLabel, RetryLabel
  <2> QED BY <1>1, <2>1, GotoKept DEF Taking, Deleting
<1>6. LeavesMutexes(k')
  BY <1>2, <1>3, <1>4, <1>5, NothingDone DEF LeavesMutexes, Settles, Fewer
<1>7. KernelRuns'
  BY <1>1, <1>2, <1>3, <1>4, <1>5, MInductiveParts DEF KernelRuns, OneRuns, MayBlock
<1> QED BY <1>5, <1>6, <1>7, KernelStepKeeps

(* The end of rt_thread_sleep, and the calls that fail at once.            *)
LEMMA MErrorKeeps ==
  ASSUME MInductive, NEW t \in Thread, UNCHANGED <<mx, call, timed, took, sig, seen>>,
         WakeUp(t) \/ \E m \in Mutexes : TakeFails(t, m) \/ ReleaseFails(t, m)
  PROVE  MInductive'
<1>1. k.cur = t /\ at[t] \in {"awake", "run"} /\ (Goto(t, "run") \/ UNCHANGED at)
  BY DEF WakeUp, TakeFails, ReleaseFails, MayCall, MayBlock, At
<1>2. k' = k \/ \E e \in {"EOK", "ETIMEOUT", "ERROR"} : k' = SetError(k, t, e)
  BY DEF WakeUp, TakeFails, ReleaseFails, ClearError, SetError
<1>3. at[t] \notin Taking /\ k.stat[t] = "running"
  BY <1>1, MCallerRuns DEF Taking
<1>4. LeavesMutexes(k') /\ Wf(k', Thread) /\ OneRuns(k') /\ k'.stat = k.stat /\ k'.cur = k.cur /\ k'.nest = k.nest
  <2>1. CASE k' = k
    BY <2>1, NothingDone, MInductiveParts
  <2>2. CASE \E e \in {"EOK", "ETIMEOUT", "ERROR"} : k' = SetError(k, t, e)
    <3>1. PICK e \in Err : k' = SetError(k, t, e) /\ e # "EINTR"
      BY <2>2 DEF Err
    <3>2. /\ LeavesMutexes(k') /\ Wf(k', Thread) /\ OneRuns(k')
          /\ k'.err = [k.err EXCEPT ![t] = e] /\ k'.stat = k.stat /\ k'.prio = k.prio /\ k'.wl = k.wl
          /\ k'.tmr = k.tmr /\ k'.cur = k.cur /\ k'.nest = k.nest
      BY <1>3, <3>1, SetErrorLeaves
    <3> QED BY <3>2
  <2> QED BY <1>2, <2>1, <2>2
<1>5. KernelRuns'
  BY <1>1, <1>3, <1>4, MInductiveParts DEF KernelRuns
<1>6. PointsKept
  <2>1. CASE Goto(t, "run")
    BY <1>1, <1>3, <2>1, GotoKept DEF MutexLabel, RetryLabel, Taking, Deleting
  <2>2. CASE UNCHANGED at
    BY <2>2, SamePointKept
  <2> QED BY <1>1, <2>1, <2>2
<1> QED BY <1>4, <1>5, <1>6, KernelStepKeeps

(* rt_mutex_delete looks at the list.                                      *)
LEMMA DeleteTestKeeps ==
  ASSUME MInductive, NEW t \in Thread, DeleteTest(t)
  PROVE  MInductive'
<1> DEFINE a == IF k.wl[call[t]] = << >> THEN "run" ELSE "deleteResume"
<1>1. k.cur = t /\ at[t] = "deleteTest" /\ Goto(t, a) /\ UNCHANGED <<k, mx, call, timed, took, sig, seen>>
  BY DEF DeleteTest, At
<1>2. a \in MutexLabel \ RetryLabel /\ a \notin Taking /\ (k'.wl[call[t]] # << >> => a \in Deleting)
  BY <1>1 DEF MutexLabel, RetryLabel, Taking, Deleting
<1> HIDE DEF a
<1>3. PointsKept
  BY <1>1, <1>2, GotoKept DEF Taking
<1>4. k.stat[t] = "running"
  BY <1>1, MCallerRuns
<1>5. KernelRuns'
  BY <1>1, <1>4 DEF MInductive, KernelRuns
<1> QED BY <1>1, <1>3, <1>5, NothingDone, KernelStepKeeps

(* The first thread of a mutex's list is inside rt_mutex_take.             *)
LEMMA FirstTaker ==
  ASSUME MInductive, NEW m \in Mutexes, k.wl[m] # << >>, NEW w, w = Head(k.wl[m])
  PROVE  /\ w \in Thread /\ w \in Range(k.wl[m]) /\ k.stat[w] = "suspend" /\ Waits(w, m)
<1>1. m \in WaitList /\ k.wl[m] \in Seq(Thread)
  BY MInductiveParts DEF Mutexes, KernelState
<1>2. w \in Thread /\ w \in Range(k.wl[m])
  BY <1>1, HeadFacts
<1>3. k.stat[w] = "suspend"
  BY <1>1, <1>2, MInductiveParts DEF Wf, OneList
<1>4. Waits(w, m)
  BY <1>2 DEF MInductive, MutexSound
<1> QED BY <1>2, <1>3, <1>4

(* rt_mutex_delete lets the first waiter go, if the list still has one.    *)
LEMMA DeleteResumeKeeps ==
  ASSUME MInductive, NEW t \in Thread, DeleteResume(t)
  PROVE  MInductive'
<1>1. /\ k.cur = t /\ at[t] = "deleteResume" /\ k.stat[t] = "running" /\ call[t] \in Mutexes
      /\ UNCHANGED <<mx, call, timed, took, sig, seen>>
  BY MCallerRuns, MInductiveParts DEF DeleteResume, At
<1>2. CASE k.wl[call[t]] = << >>
  <2>1. Goto(t, "fault") /\ k' = k
    BY <1>2 DEF DeleteResume
  <2>2. PointsKept
    BY <1>1, <1>2, <2>1, GotoKept DEF MutexLabel, RetryLabel, Taking, Deleting
  <2>3. KernelRuns'
    BY <1>1, <2>1 DEF MInductive, KernelRuns
  <2> QED BY <1>1, <2>1, <2>2, <2>3, NothingDone, KernelStepKeeps
<1>3. CASE k.wl[call[t]] # << >>
  <2> DEFINE w == Head(k.wl[call[t]])
             u == SetError(k, w, "ERROR")
  <2>1. k' = Resume(u, w) /\ Goto(t, "deleteTest")
    BY <1>3 DEF DeleteResume, LetGo, SetError
  <2>2. w \in Thread /\ k.stat[w] = "suspend" /\ w # t
    BY <1>1, <1>3, FirstTaker
  <2> HIDE DEF w
  <2>3. /\ Wf(u, Thread) /\ u.err = [k.err EXCEPT ![w] = "ERROR"] /\ u.stat = k.stat /\ u.wl = k.wl
        /\ u.cur = k.cur /\ u.nest = k.nest /\ u.defunct = k.defunct
    <3>1. "ERROR" \in Err
      BY DEF Err
    <3> QED BY <2>2, <3>1, MInductiveParts, SetErrorWf
  <2> HIDE DEF u
  <2>4. /\ Wf(k', Thread) /\ k'.stat = [u.stat EXCEPT ![w] = IF w = u.cur THEN "running" ELSE "ready"]
        /\ k'.err = u.err /\ k'.cur = u.cur /\ k'.nest = u.nest /\ Fewer(k', u)
    BY <2>1, <2>2, <2>3, ResumeWf
  <2>5. /\ k'.stat[w] = "ready" /\ k'.err[w] = "ERROR"
        /\ \A x \in Thread : x # w => k'.stat[x] = k.stat[x] /\ k'.err[x] = k.err[x]
    BY <1>1, <2>2, <2>3, <2>4, MInductiveParts DEF KernelState
  <2>6. LeavesMutexes(k')
    BY <2>2, <2>3, <2>4, <2>5, NothingDone DEF LeavesMutexes, Settles, Fewer
  <2>7. KernelRuns'
    BY <1>1, <2>2, <2>3, <2>4, <2>5, MInductiveParts, KernelAssumption DEF KernelRuns, OneRuns
  <2>8. PointsKept
    BY <1>1, <2>1, GotoKept DEF MutexLabel, RetryLabel, Taking, Deleting
  <2> QED BY <1>1, <2>6, <2>7, <2>8, KernelStepKeeps
<1> QED BY <1>2, <1>3

(***************************************************************************)
(* The thread that owns a mutex before or after the step.                  *)
(***************************************************************************)
(* The record c replaces that of m; its owner, before and after, is t or   *)
(* nobody, and t is not inside rt_mutex_take's wait.                       *)
LEMMA HolderStepKeeps ==
  ASSUME MInductive, LeavesMutexes(k'), KernelRuns', PointsKept, UNCHANGED <<call, timed, sig, seen>>,
         NEW t \in Thread, NEW m \in Mutexes, at[t] \notin Taking, NEW c \in MutexState,
         mx[m].owner \in {t, NoThread}, c.owner \in {t, NoThread}, c.alive = mx[m].alive,
         c.value = 1 <=> c.owner = NoThread, c.hold = 0 <=> c.owner = NoThread,
         c.owner # NoThread => c.orig \in Prio, c.owner = NoThread => k'.wl[m] = << >>,
         mx' = [mx EXCEPT ![m] = c], took' = [took EXCEPT ![t][m] = c.hold]
  PROVE  MInductive'
<1>1. t # NoThread /\ c.hold \in 0 .. HoldMax
  BY MutexAssumption DEF MutexState
<1>2. /\ mx' \in [Mutexes -> MutexState] /\ mx'[m] = c
      /\ \A n \in Mutexes : n # m => mx'[n] = mx[n]
  BY MInductiveParts
<1>3. /\ took' \in [Thread -> [Mutexes -> 0 .. HoldMax]] /\ took'[t][m] = c.hold
      /\ \A x \in Thread, n \in Mutexes : x # t \/ n # m => took'[x][n] = took[x][n]
  BY <1>1, MInductiveParts
<1>4. MTypeOK'
  BY <1>2, <1>3 DEF MInductive, MTypeOK, PointsKept, KernelRuns, Wf
<1>5. SignalsPend'
  BY SignalsPendKept DEF LeavesMutexes, Settles
<1>6. \A x \in Thread, n \in Mutexes : Waits(x, n)' <=> Waits(x, n)
  BY DEF Waits, PointsKept
<1>7. ASSUME NEW n \in Mutexes  PROVE MutexSound(n)'
  <2>1. MutexSound(n)
    BY DEF MInductive
  <2>2. n \in WaitList /\ Range(k'.wl[n]) \subseteq Range(k.wl[n])
    BY DEF LeavesMutexes, Fewer, Mutexes
  <2>3. Range(k.wl[n]) \subseteq Thread
    BY MInductiveParts, RangeOfSeq, <2>2 DEF KernelState
  <2>4. k'.wl[n] # << >> => k.wl[n] # << >>
    <3>1. k.wl[n] \in Seq(Thread) /\ k'.wl[n] \in Seq(Thread)
      BY <2>2, MInductiveParts DEF KernelState, KernelRuns, Wf
    <3> QED BY <2>2, <3>1, EmptyRange
  <2>5. \A x \in Range(k'.wl[n]) : Waits(x, n)'
    BY <1>6, <2>1, <2>2, <2>3 DEF MutexSound
  <2>6. mx'[n].alive = mx[n].alive
    BY <1>2
  <2>7. ~ mx'[n].alive /\ k'.wl[n] # << >> => \E x \in Thread : at'[x] \in Deleting /\ call'[x] = n
    BY <2>1, <2>4, <2>6 DEF MutexSound, PointsKept
  <2>8. /\ mx'[n].value = 1 <=> mx'[n].owner = NoThread
        /\ mx'[n].hold = 0 <=> mx'[n].owner = NoThread
        /\ mx'[n].owner # NoThread => mx'[n].orig \in Prio
        /\ k'.wl[n] # << >> => mx'[n].owner # NoThread
    <3>1. CASE n = m
      BY <1>2, <3>1
    <3>2. CASE n # m
      BY <1>2, <2>1, <2>4, <3>2 DEF MutexSound
    <3> QED BY <3>1, <3>2
  <2> QED BY <2>5, <2>7, <2>8 DEF MutexSound
<1>8. \A x \in Thread, n \in Mutexes : x # t => (mx'[n].owner = x <=> mx[n].owner = x)
  BY <1>2, MutexAssumption
<1>9. ASSUME NEW x \in Thread  PROVE ResultKnown(x)'
  <2>1. CASE at'[x] \in Taking
    <3>1. x # t /\ call[x] \in Mutexes /\ at[x] \in Taking
      BY <2>1, MInductiveParts DEF PointsKept
    <3> QED BY <1>8, <2>1, <3>1 DEF MInductive, ResultKnown, LeavesMutexes, Settles
  <2>2. CASE at'[x] \notin Taking
    BY <2>2 DEF ResultKnown
  <2> QED BY <2>1, <2>2
<1>10. ASSUME NEW x \in Thread, NEW n \in Mutexes  PROVE HoldsKnown(x, n)'
  <2>1. HoldsKnown(x, n) /\ ~ Waits(t, n)
    BY DEF MInductive, Waits
  <2>2. CASE n # m
    BY <1>2, <1>3, <1>6, <2>1, <2>2 DEF HoldsKnown
  <2>3. CASE n = m /\ x = t
    BY <1>1, <1>2, <1>3, <1>6, <2>1, <2>3 DEF HoldsKnown
  <2>4. CASE n = m /\ x # t
    <3>1. mx[n].owner # x /\ mx'[n].owner # x
      BY <1>2, <2>4, MutexAssumption
    <3> QED BY <1>3, <1>6, <2>1, <2>4, <3>1 DEF HoldsKnown
  <2> QED BY <2>2, <2>3, <2>4
<1> QED BY <1>4, <1>5, <1>7, <1>9, <1>10 DEF MInductive

(* A call begins: the caller runs, and may clear its error.                *)
LEMMA CallerClears ==
  ASSUME MInductive, NEW t \in Thread, MayBlock(t), NEW q, q = k \/ q = ClearError(k, t)
  PROVE  /\ k.cur = t /\ k.stat[t] = "running" /\ at[t] = "run"
         /\ LeavesMutexes(q) /\ Wf(q, Thread) /\ OneRuns(q)
         /\ q.stat = k.stat /\ q.prio = k.prio /\ q.wl = k.wl /\ q.cur = k.cur /\ q.nest = k.nest
<1>1. k.cur = t /\ at[t] = "run" /\ at[t] \notin Taking /\ k.stat[t] = "running"
  BY MCallerRuns DEF MayBlock, At, Taking
<1>2. CASE q = k
  BY <1>1, <1>2, NothingDone, MInductiveParts
<1>3. CASE q = ClearError(k, t)
  <2>1. q = SetError(k, t, "EOK") /\ "EOK" \in Err /\ "EOK" # "EINTR"
    BY <1>3 DEF ClearError, SetError, Err
  <2>2. /\ LeavesMutexes(q) /\ Wf(q, Thread) /\ OneRuns(q)
        /\ q.err = [k.err EXCEPT ![t] = "EOK"] /\ q.stat = k.stat /\ q.prio = k.prio /\ q.wl = k.wl
        /\ q.tmr = k.tmr /\ q.cur = k.cur /\ q.nest = k.nest
    BY <1>1, <2>1, SetErrorLeaves
  <2> QED BY <1>1, <2>2
<1> QED BY <1>1, <1>2, <1>3

(* What the invariant says of the thread that calls.                       *)
LEMMA CallerHolds ==
  ASSUME MInductive, NEW t \in Thread, NEW m \in Mutexes, at[t] \notin Taking
  PROVE  /\ mx[m] \in MutexState /\ MutexSound(m) /\ t # NoThread
         /\ took[t][m] = IF mx[m].owner = t THEN mx[m].hold ELSE 0
<1>1. HoldsKnown(t, m) /\ ~ Waits(t, m) /\ MutexSound(m)
  BY DEF MInductive, Waits
<1> QED BY <1>1, MInductiveParts, MutexAssumption DEF HoldsKnown

(* A take by the owner.                                                    *)
LEMMA TakeAgainKeeps ==
  ASSUME MInductive, NEW t \in Thread, NEW m \in Mutexes, TakeAgain(t, m)
  PROVE  MInductive'
<1>1. /\ MayBlock(t) /\ mx[m].owner = t /\ mx[m].hold < HoldMax /\ k' = ClearError(k, t)
      /\ UNCHANGED <<at, call, timed, sig, seen>>
  BY DEF TakeAgain, MayCall
<1>2. at[t] = "run" /\ at[t] \notin Taking /\ LeavesMutexes(k') /\ KernelRuns'
  BY <1>1, CallerClears, MInductiveParts DEF KernelRuns, Taking
<1>3. mx[m] \in MutexState /\ MutexSound(m) /\ t # NoThread /\ took[t][m] = mx[m].hold
  BY <1>1, <1>2, CallerHolds
<1> DEFINE c == [mx[m] EXCEPT !.hold = @ + 1]
<1>4. /\ c \in MutexState /\ c.value = mx[m].value /\ c.owner = t /\ c.orig = mx[m].orig
      /\ c.alive = mx[m].alive /\ c.hold = mx[m].hold + 1 /\ c.hold # 0
  BY <1>1, <1>3, MutexAssumption DEF MutexState
<1>5. mx' = [mx EXCEPT ![m] = c] /\ took' = [took EXCEPT ![t][m] = c.hold]
  BY <1>3, <1>4 DEF TakeAgain
<1> HIDE DEF c
<1>6. PointsKept
  BY <1>1, SamePointKept
<1> QED BY <1>1, <1>2, <1>3, <1>4, <1>5, <1>6, HolderStepKeeps DEF MutexSound

(* A take of a mutex that is free.                                         *)
LEMMA TakeFreeKeeps ==
  ASSUME MInductive, NEW t \in Thread, NEW m \in Mutexes, TakeFree(t, m)
  PROVE  MInductive'
<1>1. /\ MayBlock(t) /\ mx[m].owner # t /\ mx[m].value > 0 /\ k' = ClearError(k, t)
      /\ UNCHANGED <<at, call, timed, sig, seen>>
  BY DEF TakeFree, MayCall
<1>2. at[t] = "run" /\ at[t] \notin Taking /\ LeavesMutexes(k') /\ KernelRuns'
  BY <1>1, CallerClears, MInductiveParts DEF KernelRuns, Taking
<1>3. mx[m] \in MutexState /\ MutexSound(m) /\ t # NoThread /\ took[t][m] = 0
  BY <1>1, <1>2, CallerHolds
<1>4. mx[m].value = 1 /\ mx[m].owner = NoThread /\ mx[m].hold = 0
  BY <1>1, <1>3 DEF MutexState, MutexSound
<1> DEFINE c == [value |-> (mx[m].value - 1) % 65536, owner |-> t, orig |-> k.prio[t],
                  hold |-> mx[m].hold + 1, alive |-> mx[m].alive]
<1>5. mx' = [mx EXCEPT ![m] = c]
  BY DEF TakeFree, Owned
<1>6. (mx[m].value - 1) % 65536 = 0
  BY <1>4
<1>7. /\ c \in MutexState /\ c.value = 0 /\ c.owner = t /\ c.orig \in Prio
      /\ c.alive = mx[m].alive /\ c.hold = 1
  <2>1. k.prio[t] \in Prio /\ 0 \in 0 .. 1 /\ 1 \in 0 .. HoldMax
    BY MInductiveParts, MutexAssumption DEF KernelState
  <2> QED BY <1>3, <1>4, <1>6, <2>1 DEF MutexState
<1> HIDE DEF c
<1>8. took' = [took EXCEPT ![t][m] = c.hold]
  <2>1. took' = [took EXCEPT ![t][m] = 1]
    BY <1>3, MInductiveParts DEF TakeFree
  <2> QED BY <1>7, <2>1
<1>9. PointsKept
  BY <1>1, SamePointKept
<1>10. c.value = 1 <=> c.owner = NoThread
  BY <1>3, <1>7
<1> QED BY <1>1, <1>2, <1>4, <1>5, <1>7, <1>8, <1>9, <1>10, HolderStepKeeps

(* A release that is not the last.                                         *)
LEMMA ReleaseOneKeeps ==
  ASSUME MInductive, NEW t \in Thread, NEW m \in Mutexes, ReleaseOne(t, m)
  PROVE  MInductive'
<1>1. /\ MayBlock(t) /\ mx[m].owner = t /\ mx[m].hold > 1 /\ k' = k
      /\ UNCHANGED <<at, call, timed, sig, seen>>
  BY DEF ReleaseOne, MayCall
<1>2. at[t] = "run" /\ at[t] \notin Taking /\ LeavesMutexes(k') /\ KernelRuns'
  BY <1>1, CallerClears, MInductiveParts DEF KernelRuns, Taking
<1>3. mx[m] \in MutexState /\ MutexSound(m) /\ t # NoThread /\ took[t][m] = mx[m].hold
  BY <1>1, <1>2, CallerHolds
<1> DEFINE c == [mx[m] EXCEPT !.hold = @ - 1]
<1>4. /\ c \in MutexState /\ c.value = mx[m].value /\ c.owner = t /\ c.orig = mx[m].orig
      /\ c.alive = mx[m].alive /\ c.hold = mx[m].hold - 1 /\ c.hold # 0
  BY <1>1, <1>3, MutexAssumption DEF MutexState
<1>5. mx' = [mx EXCEPT ![m] = c] /\ took' = [took EXCEPT ![t][m] = c.hold]
  BY <1>3, <1>4 DEF ReleaseOne
<1> HIDE DEF c
<1>6. PointsKept
  BY <1>1, SamePointKept
<1> QED BY <1>1, <1>2, <1>3, <1>4, <1>5, <1>6, HolderStepKeeps DEF MutexSound

(* The last release gives the owner its own priority back.                 *)
LEMMA RestorePriorityWf ==
  ASSUME MInductive, NEW t \in Thread, k.cur = t, k.stat[t] = "running",
         NEW m \in Mutexes, mx[m].orig \in Prio, NEW q, q = RestorePriority(k, t, m)
  PROVE  /\ Wf(q, Thread) /\ q.stat = k.stat /\ q.err = k.err /\ q.cur = k.cur
         /\ q.nest = k.nest /\ Fewer(q, k)
<1>1. CASE q = k
  BY <1>1, MInductiveParts DEF Fewer
<1>2. CASE q = SetPriority(k, t, mx[m].orig)
  <2> DEFINE p == mx[m].orig
  <2>1. Wf(k, Thread) /\ k.stat[k.cur] # "ready" /\ p \in Prio /\ q = SetPriority(k, t, p)
    BY <1>2, MInductiveParts
  <2> HIDE DEF p
  <2>2. /\ Wf(q, Thread) /\ q.stat = k.stat /\ q.err = k.err /\ q.yield = k.yield
        /\ q.tmr = k.tmr /\ q.cur = k.cur /\ q.nest = k.nest /\ Fewer(q, k)
        /\ q.prio = [k.prio EXCEPT ![t] = p]
    BY <2>1, SetPriorityWf
  <2> QED BY <2>2
<1> QED BY <1>1, <1>2 DEF RestorePriority

(* The last release while nobody waits.                                    *)
LEMMA ReleaseFreesKeeps ==
  ASSUME MInductive, NEW t \in Thread, NEW m \in Mutexes, ReleaseLast(t, m),
         RestorePriority(k, t, m).wl[m] = << >>
  PROVE  MInductive'
<1>1. /\ MayBlock(t) /\ mx[m].owner = t /\ mx[m].hold = 1 /\ k' = RestorePriority(k, t, m)
      /\ UNCHANGED <<call, timed, sig, seen>>
      /\ Goto(t, "run") \/ Goto(t, "releaseSchedule")
  BY DEF ReleaseLast, MayCall
<1>2. k.cur = t /\ k.stat[t] = "running" /\ at[t] = "run" /\ at[t] \notin Taking /\ at[t] \notin Deleting
  BY <1>1, CallerClears DEF Taking, Deleting
<1>3. mx[m] \in MutexState /\ MutexSound(m) /\ t # NoThread /\ took[t][m] = 1
  BY <1>1, <1>2, CallerHolds
<1>4. /\ Wf(k', Thread) /\ k'.stat = k.stat /\ k'.err = k.err /\ k'.cur = k.cur
      /\ k'.nest = k.nest /\ Fewer(k', k)
  BY <1>1, <1>2, <1>3, RestorePriorityWf DEF MutexSound
<1>5. LeavesMutexes(k') /\ KernelRuns'
  BY <1>2, <1>4, NothingDone, MInductiveParts DEF LeavesMutexes, Settles, KernelRuns, OneRuns
<1>6. PointsKept
  BY <1>1, <1>2, GotoKept DEF MutexLabel, RetryLabel, Taking
<1> DEFINE c == [value |-> (mx[m].value + 1) % 65536, owner |-> NoThread, orig |-> 255,
                  hold |-> mx[m].hold - 1, alive |-> mx[m].alive]
<1>7. mx' = [mx EXCEPT ![m] = c]
  BY DEF ReleaseLast, Released
<1>8. (mx[m].value + 1) % 65536 = 1
  <2>1. mx[m].value = 0
    BY <1>1, <1>3 DEF MutexState, MutexSound
  <2> QED BY <2>1
<1>9. /\ c \in MutexState /\ c.value = 1 /\ c.owner = NoThread /\ c.alive = mx[m].alive /\ c.hold = 0
  <2>1. 0 \in 0 .. HoldMax /\ 1 \in 0 .. 1
    BY MutexAssumption
  <2> QED BY <1>1, <1>3, <1>8, <2>1 DEF MutexState
<1> HIDE DEF c
<1>10. took' = [took EXCEPT ![t][m] = c.hold]
  <2>1. took' = [took EXCEPT ![t][m] = 0]
    BY <1>3, MInductiveParts DEF ReleaseLast
  <2> QED BY <1>9, <2>1
<1>11. k'.wl[m] = << >>
  BY <1>1
<1> QED BY <1>1, <1>2, <1>3, <1>5, <1>6, <1>7, <1>9, <1>10, <1>11, HolderStepKeeps

(* Two changes of a mutex record.                                          *)
Handed(r, w, p) == [r EXCEPT !.owner = w, !.orig = p]

LEMMA NewOwner ==
  ASSUME NEW r \in MutexState, NEW w \in Thread, NEW p \in Prio, NEW c, c = Handed(r, w, p)
  PROVE  /\ c \in MutexState /\ c.owner = w /\ c.orig = p
         /\ c.value = r.value /\ c.hold = r.hold /\ c.alive = r.alive
BY DEF MutexState, Handed

LEMMA NotAlive ==
  ASSUME NEW r \in MutexState, NEW c, c = [r EXCEPT !.alive = FALSE]
  PROVE  /\ c \in MutexState /\ c.owner = r.owner /\ c.orig = r.orig
         /\ c.value = r.value /\ c.hold = r.hold
BY DEF MutexState

(* The last release hands the mutex over, to a thread in the wait.         *)
LEMMA ReleaseHandsOverKeeps ==
  ASSUME MInductive, NEW t \in Thread, NEW m \in Mutexes, ReleaseLast(t, m),
         RestorePriority(k, t, m).wl[m] # << >>
  PROVE  MInductive'
<1> DEFINE q == RestorePriority(k, t, m)
           w == Head(q.wl[m])
<1>1. /\ MayBlock(t) /\ mx[m].owner = t /\ mx[m].hold = 1 /\ k' = Resume(q, w)
      /\ UNCHANGED <<call, timed, sig, seen>>
      /\ Goto(t, "run") \/ Goto(t, "releaseSchedule")
      /\ mx' = [mx EXCEPT ![m] = [mx[m] EXCEPT !.owner = w, !.orig = q.prio[w]]]
      /\ took' = [took EXCEPT ![t][m] = @ - 1]
  BY DEF ReleaseLast, MayCall, Released, ResumeFirst
<1>2. k.cur = t /\ k.stat[t] = "running" /\ at[t] = "run" /\ at[t] \notin Taking /\ at[t] \notin Deleting
  BY <1>1, CallerClears DEF Taking, Deleting
<1>3. mx[m] \in MutexState /\ MutexSound(m) /\ t # NoThread /\ took[t][m] = 1
  BY <1>1, <1>2, CallerHolds
<1>4. /\ Wf(q, Thread) /\ q.stat = k.stat /\ q.err = k.err /\ q.cur = k.cur
      /\ q.nest = k.nest /\ Fewer(q, k)
  BY <1>2, <1>3, <1>1, RestorePriorityWf DEF MutexSound
<1>5. q.wl[m] # << >>
  OBVIOUS
<1> HIDE DEF q
<1>6. /\ w \in Thread /\ w \in Range(q.wl[m]) /\ w \in Range(k.wl[m])
      /\ q.stat[w] = "suspend" /\ q.prio[w] \in Prio
  <2>1. q \in KernelState /\ OneList(q) /\ m \in WaitList /\ q.wl[m] \in Seq(Thread)
    BY <1>4 DEF Wf, KernelState, Mutexes
  <2>2. w \in Thread /\ w \in Range(q.wl[m])
    BY <1>5, <2>1, HeadFacts
  <2> QED BY <1>4, <2>1, <2>2 DEF OneList, KernelState, Fewer
<1> HIDE DEF w
<1>7. Waits(w, m) /\ w # t /\ w # NoThread /\ k.err[w] = "EOK"
  <2>1. Waits(w, m)
    BY <1>3, <1>6 DEF MutexSound
  <2>2. ResultKnown(w) /\ sig[w] # "pending"
    BY <1>4, <1>6 DEF MInductive, SignalsPend
  <2> QED BY <1>2, <1>4, <1>6, <2>1, <2>2, MutexAssumption DEF Waits, ResultKnown
<1>8. /\ Wf(k', Thread) /\ k'.stat = [q.stat EXCEPT ![w] = IF w = q.cur THEN "running" ELSE "ready"]
      /\ k'.err = q.err /\ k'.cur = q.cur /\ k'.nest = q.nest /\ Fewer(k', q)
  <2>1. Wf(q, Thread) /\ w \in Thread /\ q.stat[w] = "suspend" /\ k' = Resume(q, w)
    BY <1>1, <1>4, <1>6
  <2> QED BY <2>1, ResumeWf
<1>9. /\ k'.stat[w] = "ready" /\ k'.err = k.err /\ k'.cur = t /\ k'.nest = 0 /\ Fewer(k', k)
      /\ \A x \in Thread : x # w => k'.stat[x] = k.stat[x]
  <2>1. k'.stat[w] = "ready" /\ \A x \in Thread : x # w => k'.stat[x] = k.stat[x]
    BY <1>2, <1>4, <1>6, <1>7, <1>8, MInductiveParts DEF KernelState
  <2>2. Fewer(k', k)
    BY <1>4, <1>8 DEF Fewer
  <2> QED BY <1>2, <1>4, <1>8, <2>1, <2>2, MInductiveParts
<1>10. KernelRuns'
  <2>1. OneRuns(k')
    BY <1>2, <1>7, <1>9, MInductiveParts, KernelAssumption DEF OneRuns
  <2>2. k'.stat[k'.cur] = "running"
    BY <1>2, <1>7, <1>9
  <2> QED BY <1>8, <1>9, <2>1, <2>2 DEF KernelRuns
<1>11. PointsKept
  BY <1>1, <1>2, GotoKept DEF MutexLabel, RetryLabel, Taking
<1>12. /\ mx' \in [Mutexes -> MutexState] /\ mx'[m].owner = w /\ mx'[m].orig \in Prio
       /\ mx'[m].value = 0 /\ mx'[m].hold = 1 /\ mx'[m].alive = mx[m].alive
       /\ \A n \in Mutexes : n # m => mx'[n] = mx[n]
  <2>1. mx[m].value = 0
    BY <1>1, <1>3 DEF MutexState, MutexSound
  <2>2. mx \in [Mutexes -> MutexState]
    BY MInductiveParts
  <2> DEFINE r == mx[m]
             p == q.prio[w]
             c == Handed(r, w, p)
  <2>3. mx' = [mx EXCEPT ![m] = c]
    BY <1>1 DEF Handed
  <2>4. r \in MutexState /\ r.value = 0 /\ r.hold = 1 /\ r.alive = mx[m].alive
    BY <1>1, <1>3, <2>1
  <2>5. c = Handed(r, w, p) /\ w \in Thread /\ p \in Prio
    BY <1>6
  <2> HIDE DEF r, p, c
  <2>6. /\ c \in MutexState /\ c.owner = w /\ c.orig = p
        /\ c.value = r.value /\ c.hold = r.hold /\ c.alive = r.alive
    BY <2>4, <2>5, NewOwner
  <2> QED BY <2>2, <2>3, <2>4, <2>5, <2>6
<1>13. /\ took' \in [Thread -> [Mutexes -> 0 .. HoldMax]] /\ took'[t][m] = 0
       /\ \A x \in Thread, n \in Mutexes : x # t \/ n # m => took'[x][n] = took[x][n]
  <2>1. took' = [took EXCEPT ![t][m] = 0] /\ 0 \in 0 .. HoldMax
    BY <1>1, <1>3, MInductiveParts, MutexAssumption
  <2> QED BY <2>1, MInductiveParts
<1>14. MTypeOK' /\ SignalsPend'
  <2>1. MTypeOK'
    BY <1>1, <1>11, <1>12, <1>13, <1>8 DEF MInductive, MTypeOK, PointsKept, Wf
  <2>2. \A x \in Thread : k'.err[x] # "EINTR"
    BY <1>9 DEF MInductive, SignalsPend
  <2> QED BY <1>1, <1>9, <1>11, <2>1, <2>2, SignalsPendKept
<1>15. \A x \in Thread, n \in Mutexes : Waits(x, n)' <=> Waits(x, n)
  BY <1>1, <1>11 DEF Waits, PointsKept
<1>16. ASSUME NEW n \in Mutexes  PROVE MutexSound(n)'
  <2>1. MutexSound(n)
    BY DEF MInductive
  <2>2. n \in WaitList /\ Range(k'.wl[n]) \subseteq Range(k.wl[n])
    BY <1>9 DEF Fewer, Mutexes
  <2>3. Range(k.wl[n]) \subseteq Thread
    BY MInductiveParts, RangeOfSeq, <2>2 DEF KernelState
  <2>4. k'.wl[n] # << >> => k.wl[n] # << >>
    <3>1. k.wl[n] \in Seq(Thread) /\ k'.wl[n] \in Seq(Thread)
      BY <1>8, <2>2, MInductiveParts DEF KernelState, Wf
    <3> QED BY <2>2, <3>1, EmptyRange
  <2>5. \A x \in Range(k'.wl[n]) : Waits(x, n)'
    BY <1>15, <2>1, <2>2, <2>3 DEF MutexSound
  <2>6. mx'[n].alive = mx[n].alive
    BY <1>12
  <2>7. ~ mx'[n].alive /\ k'.wl[n] # << >> => \E x \in Thread : at'[x] \in Deleting /\ call'[x] = n
    BY <1>1, <1>11, <2>1, <2>4, <2>6 DEF MutexSound, PointsKept
  <2>8. CASE n = m
    BY <1>7, <1>12, <2>5, <2>7, <2>8 DEF MutexSound
  <2>9. CASE n # m
    BY <1>12, <2>1, <2>4, <2>5, <2>7, <2>9 DEF MutexSound
  <2> QED BY <2>8, <2>9
<1>17. ASSUME NEW x \in Thread  PROVE ResultKnown(x)'
  <2>1. CASE at'[x] \notin Taking
    BY <2>1 DEF ResultKnown
  <2>2. CASE at'[x] \in Taking /\ x = w
    BY <1>1, <1>7, <1>9, <1>12, <2>2 DEF ResultKnown, Waits
  <2>3. CASE at'[x] \in Taking /\ x # w
    <3>1. x # t /\ at[x] \in Taking /\ call[x] \in Mutexes /\ call'[x] = call[x]
      BY <1>1, <1>2, <1>11, <2>3, MInductiveParts DEF PointsKept
    <3>2. mx'[call[x]].owner = x <=> mx[call[x]].owner = x
      BY <1>1, <1>12, <2>3, <3>1
    <3>3. ResultKnown(x)
      BY DEF MInductive
    <3>4. k'.stat[x] = k.stat[x] /\ k'.err[x] = k.err[x] /\ sig'[x] = sig[x]
      BY <1>1, <1>9, <2>3, <3>1
    <3>6. CASE k.stat[x] = "suspend"
      BY <3>1, <3>2, <3>3, <3>4, <3>6 DEF ResultKnown
    <3>7. CASE k.stat[x] # "suspend"
      BY <3>1, <3>2, <3>3, <3>4, <3>7 DEF ResultKnown
    <3> QED BY <3>6, <3>7
  <2> QED BY <2>1, <2>2, <2>3
<1>18. ASSUME NEW x \in Thread, NEW n \in Mutexes  PROVE HoldsKnown(x, n)'
  <2>1. HoldsKnown(x, n) /\ ~ Waits(t, n)
    BY <1>2 DEF MInductive, Waits
  <2>2. CASE n # m
    BY <1>12, <1>13, <1>15, <2>1, <2>2 DEF HoldsKnown
  <2>3. CASE n = m /\ x = t
    BY <1>7, <1>12, <1>13, <1>15, <2>1, <2>3 DEF HoldsKnown
  <2>4. CASE n = m /\ x = w
    BY <1>7, <1>12, <1>13, <1>15, <2>1, <2>4 DEF HoldsKnown
  <2>5. CASE n = m /\ x # t /\ x # w
    <3>1. mx[n].owner # x /\ mx'[n].owner # x
      BY <1>1, <1>12, <2>5
    <3> QED BY <1>13, <1>15, <2>1, <2>5, <3>1 DEF HoldsKnown
  <2> QED BY <2>2, <2>3, <2>4, <2>5
<1> QED BY <1>10, <1>14, <1>16, <1>17, <1>18 DEF MInductive

(***************************************************************************)
(* The wait of rt_mutex_take.                                              *)
(***************************************************************************)
(* The inheritance: the owner is raised, and nobody is queued elsewhere.   *)
LEMMA RaiseOwnerWf ==
  ASSUME NEW q0, Wf(q0, Thread), q0.stat[q0.cur] # "ready", NEW t \in Thread,
         NEW m \in Mutexes, mx[m].owner \in Thread \cup {NoThread}, NEW q, q = RaiseOwner(q0, t, m)
  PROVE  /\ Wf(q, Thread) /\ q.stat = q0.stat /\ q.err = q0.err /\ q.tmr = q0.tmr /\ q.cur = q0.cur
         /\ q.nest = q0.nest /\ Fewer(q, q0)
<1>1. CASE q = q0
  BY <1>1 DEF Fewer
<1>2. CASE mx[m].owner \in Thread /\ q = SetPriority(q0, mx[m].owner, q0.prio[t])
  <2> DEFINE o == mx[m].owner
             p == q0.prio[t]
  <2>1. o \in Thread /\ p \in Prio /\ q = SetPriority(q0, o, p)
    BY <1>2 DEF Wf, KernelState
  <2> HIDE DEF o, p
  <2>2. /\ Wf(q, Thread) /\ q.stat = q0.stat /\ q.err = q0.err /\ q.yield = q0.yield
        /\ q.tmr = q0.tmr /\ q.cur = q0.cur /\ q.nest = q0.nest /\ Fewer(q, q0)
        /\ q.prio = [q0.prio EXCEPT ![o] = p]
    BY <2>1, SetPriorityWf
  <2> QED BY <2>2
<1> QED BY <1>1, <1>2 DEF RaiseOwner

(* The region that ends in the call of rt_schedule: the caller is suspended*)
(* and linked into the list of this mutex.                                 *)
LEMMA EnqueueWf ==
  ASSUME NEW q0, Wf(q0, Thread), NEW t \in Thread, q0.cur = t, q0.stat[t] = "running",
         NEW m \in Mutexes, mx[m].owner \in Thread \cup {NoThread}, NEW tmo \in BOOLEAN,
         NEW q, q = Enqueue(q0, t, m, tmo)
  PROVE  /\ Wf(q, Thread) /\ q.stat = [q0.stat EXCEPT ![t] = "suspend"] /\ q.err = q0.err
         /\ q.cur = q0.cur /\ q.nest = q0.nest
         /\ \A n \in Mutexes : \A x \in Range(q.wl[n]) : (x = t /\ n = m) \/ x \in Range(q0.wl[n])
<1> DEFINE a == RaiseOwner(q0, t, m)
           u == SuspendOn(a, t, m, MFlag)
<1>1. q = u \/ q = StartTimer(u, t)
  BY DEF Enqueue
<1>2. /\ Wf(a, Thread) /\ a.stat = q0.stat /\ a.err = q0.err /\ a.cur = q0.cur
      /\ a.nest = q0.nest /\ Fewer(a, q0)
  <2>1. q0.stat[q0.cur] # "ready" /\ a = RaiseOwner(q0, t, m)
    OBVIOUS
  <2> HIDE DEF a
  <2> QED BY <2>1, RaiseOwnerWf
<1> HIDE DEF a
<1>3. /\ Wf(u, Thread) /\ u.stat = [a.stat EXCEPT ![t] = "suspend"] /\ u.err = a.err
      /\ u.cur = a.cur /\ u.nest = a.nest /\ OnlyJoins(u, a, t, m)
  <2>1. /\ Wf(a, Thread) /\ a.stat[t] \in {"ready", "running"} /\ m \in WaitList
        /\ u = SuspendOn(a, t, m, MFlag)
    BY <1>2 DEF Mutexes
  <2> HIDE DEF u
  <2>2. /\ Wf(u, Thread) /\ u.stat = [a.stat EXCEPT ![t] = "suspend"] /\ u.err = a.err
        /\ u.cur = a.cur /\ u.nest = a.nest /\ OnlyJoins(u, a, t, m)
    BY <2>1, SuspendOnWf
  <2> QED BY <2>2
<1> HIDE DEF u
<1>4. /\ Wf(q, Thread) /\ q.stat = u.stat /\ q.err = u.err /\ q.cur = u.cur
      /\ q.nest = u.nest /\ q.wl = u.wl
  <2>1. CASE q = u
    BY <1>3, <2>1
  <2>2. CASE q = StartTimer(u, t)
    <3>1. u.stat[t] = "suspend" /\ Wf(u, Thread)
      BY <1>2, <1>3 DEF Wf, KernelState
    <3>2. /\ Wf(q, Thread) /\ q.tmr = u.tmr \cup {t}
          /\ q.stat = u.stat /\ q.prio = u.prio /\ q.err = u.err /\ q.yield = u.yield
          /\ q.cur = u.cur /\ q.nest = u.nest /\ q.wl = u.wl /\ q.defunct = u.defunct
      BY <2>2, <3>1, StartTimerWf
    <3> QED BY <3>2
  <2> QED BY <1>1, <2>1, <2>2
<1>5. \A n \in Mutexes : \A x \in Range(q.wl[n]) : (x = t /\ n = m) \/ x \in Range(q0.wl[n])
  BY <1>2, <1>3, <1>4 DEF Fewer, Mutexes, OnlyJoins
<1> QED BY <1>2, <1>3, <1>4, <1>5

(* A take of a mutex that another thread owns.                             *)
LEMMA TakeWaitsKeeps ==
  ASSUME MInductive, NEW t \in Thread, NEW m \in Mutexes, NEW tmo \in BOOLEAN, TakeWaits(t, m, tmo)
  PROVE  MInductive'
<1> DEFINE c == ClearError(k, t)
<1>1. /\ MayBlock(t) /\ mx[m].alive /\ mx[m].owner # t /\ mx[m].value = 0
      /\ k' = Enqueue(c, t, m, tmo) /\ Goto(t, "takeSchedule")
      /\ call' = [call EXCEPT ![t] = m] /\ timed' = [timed EXCEPT ![t] = tmo]
      /\ UNCHANGED <<mx, took, sig, seen>>
  BY DEF TakeWaits, MayCall
<1>2. k.cur = t /\ k.stat[t] = "running" /\ at[t] = "run" /\ at[t] \notin Taking /\ t # Idle
  BY <1>1, CallerClears DEF Taking, MayBlock
<1>3. /\ mx[m] \in MutexState /\ MutexSound(m) /\ t # NoThread
      /\ mx[m].owner # NoThread /\ mx[m].owner \in Thread \cup {NoThread}
  BY <1>1, <1>2, CallerHolds DEF MutexSound, MutexState
<1>4. /\ Wf(c, Thread) /\ c.err = [k.err EXCEPT ![t] = "EOK"] /\ c.stat = k.stat /\ c.wl = k.wl
      /\ c.cur = k.cur /\ c.nest = k.nest
  <2>1. c = SetError(k, t, "EOK") /\ "EOK" \in Err
    BY DEF ClearError, SetError, Err
  <2> HIDE DEF c
  <2> QED BY <2>1, MInductiveParts, SetErrorWf
<1> HIDE DEF c
<1>5. /\ Wf(k', Thread) /\ k'.stat = [c.stat EXCEPT ![t] = "suspend"] /\ k'.err = c.err
      /\ k'.cur = c.cur /\ k'.nest = c.nest
      /\ \A n \in Mutexes : \A x \in Range(k'.wl[n]) : (x = t /\ n = m) \/ x \in Range(c.wl[n])
  <2>1. /\ Wf(c, Thread) /\ c.cur = t /\ c.stat[t] = "running" /\ mx[m].owner \in Thread \cup {NoThread}
        /\ k' = Enqueue(c, t, m, tmo)
    BY <1>1, <1>2, <1>3, <1>4
  <2> QED BY <2>1, EnqueueWf
<1>6. /\ k'.stat[t] = "suspend" /\ k'.err[t] = "EOK" /\ k'.cur = t /\ k'.nest = 0
      /\ \A x \in Thread : x # t => k'.stat[x] = k.stat[x] /\ k'.err[x] = k.err[x]
  BY <1>2, <1>4, <1>5, MInductiveParts DEF KernelState
<1>7. /\ at' \in [Thread -> MutexLabel] /\ at'[t] = "takeSchedule"
      /\ call' \in [Thread -> Mutexes] /\ call'[t] = m
      /\ \A x \in Thread : x # t => at'[x] = at[x] /\ call'[x] = call[x]
  <2>1. "takeSchedule" \in MutexLabel
    BY DEF MutexLabel
  <2> QED BY <1>1, <2>1, MInductiveParts DEF Goto
<1>8. KernelRuns'
  <2>1. OneRuns(k')
    BY <1>2, <1>6, MInductiveParts, KernelAssumption DEF OneRuns
  <2> QED BY <1>5, <1>6, <1>7, <2>1 DEF KernelRuns
<1>9. MTypeOK' /\ SignalsPend'
  <2>1. MTypeOK'
    BY <1>1, <1>5, <1>7 DEF MInductive, MTypeOK, Wf
  <2>2. SignalsPend'
    <3> SUFFICES ASSUME NEW x \in Thread
                 PROVE  /\ x \in Signalled <=> sig'[x] # "handled"
                        /\ sig'[x] = "pending" => at'[x] = "taken" /\ k'.stat[x] # "suspend"
                        /\ at'[x] \notin RetryLabel /\ k'.err[x] # "EINTR"
      BY DEF SignalsPend
    <3>1. /\ x \in Signalled <=> sig[x] # "handled"
          /\ sig[x] = "pending" => at[x] = "taken" /\ k.stat[x] # "suspend"
          /\ at[x] \notin RetryLabel /\ k.err[x] # "EINTR"
      BY DEF MInductive, SignalsPend
    <3>2. CASE x = t
      BY <1>1, <1>2, <1>6, <1>7, <3>1, <3>2 DEF RetryLabel
    <3>3. CASE x # t
      BY <1>1, <1>6, <1>7, <3>1, <3>3
    <3> QED BY <3>2, <3>3
  <2> QED BY <2>1, <2>2
<1>10. /\ \A n \in Mutexes : Waits(t, n)' <=> n = m
       /\ \A x \in Thread, n \in Mutexes : x # t => (Waits(x, n)' <=> Waits(x, n))
  BY <1>7 DEF Waits, Taking
<1>11. ASSUME NEW n \in Mutexes  PROVE MutexSound(n)'
  <2>1. MutexSound(n) /\ n \in WaitList
    BY DEF MInductive, Mutexes
  <2>2. \A x \in Range(k'.wl[n]) : (x = t /\ n = m) \/ (x \in Range(k.wl[n]) /\ x \in Thread /\ x # t)
    <3>1. \A x \in Range(k.wl[n]) : x \in Thread
      BY <2>1, MInductiveParts, RangeOfSeq DEF KernelState
    <3>2. \A x \in Range(k.wl[n]) : x # t
      BY <1>2, <2>1 DEF MutexSound, Waits
    <3> QED BY <1>4, <1>5, <3>1, <3>2
  <2>3. \A x \in Range(k'.wl[n]) : Waits(x, n)'
    BY <1>10, <2>1, <2>2 DEF MutexSound
  <2>4. k'.wl[n] # << >> /\ n # m => k.wl[n] # << >>
    <3>1. k.wl[n] \in Seq(Thread) /\ k'.wl[n] \in Seq(Thread)
      BY <1>5, <2>1, MInductiveParts DEF KernelState, Wf
    <3> QED BY <2>2, <3>1, EmptyRange
  <2>5. ~ mx'[n].alive /\ k'.wl[n] # << >> => \E x \in Thread : at'[x] \in Deleting /\ call'[x] = n
    <3> SUFFICES ASSUME ~ mx'[n].alive, k'.wl[n] # << >>
                 PROVE  \E x \in Thread : at'[x] \in Deleting /\ call'[x] = n
      OBVIOUS
    <3>1. n # m /\ ~ mx[n].alive
      BY <1>1
    <3>2. PICK x \in Thread : at[x] \in Deleting /\ call[x] = n
      BY <2>1, <2>4, <3>1 DEF MutexSound
    <3>3. x # t
      BY <1>2, <3>2 DEF Deleting
    <3> QED BY <1>7, <3>2, <3>3
  <2> QED BY <1>1, <1>3, <2>1, <2>3, <2>4, <2>5 DEF MutexSound
<1>12. ASSUME NEW x \in Thread  PROVE ResultKnown(x)'
  <2>1. CASE x = t
    BY <1>1, <1>6, <1>7, <2>1 DEF ResultKnown
  <2>2. CASE x # t
    BY <1>1, <1>6, <1>7, <2>2 DEF MInductive, ResultKnown
  <2> QED BY <2>1, <2>2
<1>13. ASSUME NEW x \in Thread, NEW n \in Mutexes  PROVE HoldsKnown(x, n)'
  <2>1. CASE x = t
    <3>1. took[t][n] = IF mx[n].owner = t THEN mx[n].hold ELSE 0
      BY <1>2, CallerHolds
    <3> QED BY <1>1, <1>10, <2>1, <3>1 DEF HoldsKnown
  <2>2. CASE x # t
    BY <1>1, <1>10, <2>2 DEF MInductive, HoldsKnown
  <2> QED BY <2>1, <2>2
<1> QED BY <1>8, <1>9, <1>11, <1>12, <1>13 DEF MInductive

(* The region after rt_schedule: the take reports what has happened.       *)
LEMMA TakenKeeps ==
  ASSUME MInductive, NEW t \in Thread, Taken(t), sig[t] # "pending"
  PROVE  MInductive'
<1> DEFINE e == k.err[t]
           l == call[t]
<1>1. /\ k.cur = t /\ at[t] = "taken" /\ e # "EINTR" /\ e \in Err
      /\ l \in Mutexes /\ k.stat[t] = "running"
  BY MCallerRuns, MInductiveParts DEF Taken, At, MInductive, SignalsPend, KernelState
<1>2. WokenWith(t) = e
  BY <1>1 DEF WokenWith
<1>3. /\ k' = SetError(k, t, e) /\ Goto(t, "run") /\ UNCHANGED <<mx, call, timed, seen>>
      /\ took' = IF e = "EOK" THEN [took EXCEPT ![t][l] = @ + 1] ELSE took
      /\ sig' = [sig EXCEPT ![t] = IF @ = "pending" THEN "handled" ELSE @]
  BY <1>1, <1>2 DEF Taken, SetError
<1>4. sig' = sig
  BY <1>1, <1>3 DEF MInductive, MTypeOK
<1>5. /\ Wf(k', Thread) /\ k'.err = k.err /\ k'.stat = k.stat /\ k'.wl = k.wl
      /\ k'.cur = k.cur /\ k'.nest = k.nest
  <2>1. Wf(k, Thread) /\ e \in Err /\ k' = SetError(k, t, e)
    BY <1>1, <1>3, MInductiveParts
  <2>2. [k.err EXCEPT ![t] = e] = k.err
    BY MInductiveParts DEF KernelState
  <2> HIDE DEF e
  <2> QED BY <2>1, <2>2, SetErrorWf
<1>6. /\ at' \in [Thread -> MutexLabel] /\ at'[t] = "run" /\ \A x \in Thread : x # t => at'[x] = at[x]
  <2>1. "run" \in MutexLabel
    BY DEF MutexLabel
  <2> QED BY <1>3, <2>1, MInductiveParts DEF Goto
<1>7. ResultKnown(t) /\ HoldsKnown(t, l) /\ MutexSound(l) /\ Waits(t, l)
  BY <1>1 DEF MInductive, Waits, Taking
<1>8. /\ took[t][l] = 0 /\ (e = "EOK" <=> mx[l].owner = t)
      /\ mx[l].owner = t => mx[l].hold = 1
  BY <1>1, <1>7 DEF ResultKnown, HoldsKnown, Waits
<1>9. /\ took' \in [Thread -> [Mutexes -> 0 .. HoldMax]]
      /\ took'[t][l] = IF mx[l].owner = t THEN mx[l].hold ELSE 0
      /\ \A x \in Thread, n \in Mutexes : x # t \/ n # l => took'[x][n] = took[x][n]
  <2>1. CASE e = "EOK"
    <3>1. took' = [took EXCEPT ![t][l] = 1] /\ 1 \in 0 .. HoldMax
      BY <1>1, <1>3, <1>8, <2>1, MInductiveParts, MutexAssumption
    <3> HIDE DEF e, l
    <3> QED BY <1>1, <1>8, <2>1, <3>1, MInductiveParts
  <2>2. CASE e # "EOK"
    BY <1>3, <1>8, <2>2, MInductiveParts
  <2> QED BY <2>1, <2>2
<1> HIDE DEF e, l
<1>10. KernelRuns'
  BY <1>1, <1>5, MInductiveParts DEF KernelRuns, OneRuns
<1>11. MTypeOK' /\ SignalsPend'
  <2>1. MTypeOK'
    BY <1>3, <1>4, <1>5, <1>6, <1>9 DEF MInductive, MTypeOK, Wf
  <2>2. SignalsPend'
    <3> SUFFICES ASSUME NEW x \in Thread
                 PROVE  /\ x \in Signalled <=> sig'[x] # "handled"
                        /\ sig'[x] = "pending" => at'[x] = "taken" /\ k'.stat[x] # "suspend"
                        /\ at'[x] \notin RetryLabel /\ k'.err[x] # "EINTR"
      BY DEF SignalsPend
    <3>1. /\ x \in Signalled <=> sig[x] # "handled"
          /\ sig[x] = "pending" => at[x] = "taken" /\ k.stat[x] # "suspend"
          /\ at[x] \notin RetryLabel /\ k.err[x] # "EINTR"
      BY DEF MInductive, SignalsPend
    <3>2. CASE x = t
      BY <1>4, <1>5, <1>6, <3>1, <3>2 DEF RetryLabel
    <3>3. CASE x # t
      BY <1>4, <1>5, <1>6, <3>1, <3>3
    <3> QED BY <3>2, <3>3
  <2> QED BY <2>1, <2>2
<1>12. /\ \A n \in Mutexes : ~ Waits(t, n)' /\ (Waits(t, n) => n = l)
       /\ \A x \in Thread, n \in Mutexes : x # t => (Waits(x, n)' <=> Waits(x, n))
  BY <1>3, <1>6, <1>7 DEF Waits, Taking
<1>13. ASSUME NEW n \in Mutexes  PROVE MutexSound(n)'
  <2>1. MutexSound(n) /\ n \in WaitList
    BY DEF MInductive, Mutexes
  <2>2. \A x \in Range(k'.wl[n]) : Waits(x, n)'
    <3> SUFFICES ASSUME NEW x \in Range(k.wl[n])  PROVE Waits(x, n)'
      BY <1>5
    <3>1. x \in Thread /\ k.stat[x] = "suspend"
      BY <2>1, MInductiveParts, RangeOfSeq DEF Wf, OneList, KernelState
    <3>2. Waits(x, n) /\ x # t
      BY <1>1, <2>1, <3>1 DEF MutexSound
    <3> QED BY <1>12, <3>1, <3>2
  <2>3. \A x \in Thread : at[x] \in Deleting => at'[x] = at[x]
    BY <1>1, <1>6 DEF Deleting
  <2> QED BY <1>3, <1>5, <2>1, <2>2, <2>3 DEF MutexSound
<1>14. ASSUME NEW x \in Thread  PROVE ResultKnown(x)'
  <2>1. CASE x = t
    BY <1>6, <2>1 DEF ResultKnown, Taking
  <2>2. CASE x # t
    BY <1>3, <1>5, <1>6, <2>2 DEF MInductive, ResultKnown
  <2> QED BY <2>1, <2>2
<1>15. ASSUME NEW x \in Thread, NEW n \in Mutexes  PROVE HoldsKnown(x, n)'
  <2>1. HoldsKnown(x, n)
    BY DEF MInductive
  <2>2. CASE x = t /\ n = l
    BY <1>3, <1>9, <1>12, <2>2 DEF HoldsKnown
  <2>3. CASE x = t /\ n # l
    BY <1>3, <1>9, <1>12, <2>1, <2>3 DEF HoldsKnown
  <2>4. CASE x # t
    BY <1>3, <1>9, <1>12, <2>1, <2>4 DEF HoldsKnown
  <2> QED BY <2>2, <2>3, <2>4
<1> QED BY <1>10, <1>11, <1>13, <1>14, <1>15 DEF MInductive

(* rt_mutex_delete begins; from now on nobody calls for this mutex.        *)
LEMMA DeleteKeeps ==
  ASSUME MInductive, NEW t \in Thread, NEW m \in Mutexes, Delete(t, m)
  PROVE  MInductive'
<1>1. /\ MayBlock(t) /\ mx' = [mx EXCEPT ![m].alive = FALSE] /\ Goto(t, "deleteTest")
      /\ call' = [call EXCEPT ![t] = m] /\ UNCHANGED <<k, timed, took, sig, seen>>
  BY DEF Delete, MayCall
<1>2. k.cur = t /\ k.stat[t] = "running" /\ at[t] = "run" /\ at[t] \notin Taking
  BY <1>1, CallerClears DEF Taking
<1>3. /\ at' \in [Thread -> MutexLabel] /\ at'[t] = "deleteTest"
      /\ call' \in [Thread -> Mutexes] /\ call'[t] = m
      /\ \A x \in Thread : x # t => at'[x] = at[x] /\ call'[x] = call[x]
  <2>1. "deleteTest" \in MutexLabel
    BY DEF MutexLabel
  <2> QED BY <1>1, <2>1, MInductiveParts DEF Goto
<1>4. /\ mx' \in [Mutexes -> MutexState]
      /\ \A n \in Mutexes : /\ mx'[n].value = mx[n].value /\ mx'[n].owner = mx[n].owner
                            /\ mx'[n].orig = mx[n].orig /\ mx'[n].hold = mx[n].hold
                            /\ n # m => mx'[n].alive = mx[n].alive
  <2> DEFINE r == mx[m]
             c == [r EXCEPT !.alive = FALSE]
  <2>1. mx' = [mx EXCEPT ![m] = c]
    BY <1>1
  <2>2. r \in MutexState
    BY <1>2, CallerHolds
  <2>3. c = [r EXCEPT !.alive = FALSE]
    OBVIOUS
  <2> HIDE DEF r, c
  <2>4. /\ c \in MutexState /\ c.owner = r.owner /\ c.orig = r.orig
        /\ c.value = r.value /\ c.hold = r.hold
    BY <2>2, <2>3, NotAlive
  <2> QED BY <2>1, <2>4, MInductiveParts DEF r
<1>5. \A x \in Thread, n \in Mutexes : Waits(x, n)' <=> Waits(x, n)
  BY <1>2, <1>3 DEF Waits, Taking
<1>6. KernelRuns' /\ MTypeOK' /\ SignalsPend'
  <2>1. KernelRuns'
    BY <1>1, <1>2 DEF MInductive, KernelRuns
  <2>2. MTypeOK'
    BY <1>1, <1>3, <1>4 DEF MInductive, MTypeOK
  <2>3. SignalsPend'
    <3> SUFFICES ASSUME NEW x \in Thread
                 PROVE  /\ x \in Signalled <=> sig'[x] # "handled"
                        /\ sig'[x] = "pending" => at'[x] = "taken" /\ k'.stat[x] # "suspend"
                        /\ at'[x] \notin RetryLabel /\ k'.err[x] # "EINTR"
      BY DEF SignalsPend
    <3>1. /\ x \in Signalled <=> sig[x] # "handled"
          /\ sig[x] = "pending" => at[x] = "taken" /\ k.stat[x] # "suspend"
          /\ at[x] \notin RetryLabel /\ k.err[x] # "EINTR"
      BY DEF MInductive, SignalsPend
    <3>2. CASE x = t
      BY <1>1, <1>2, <1>3, <3>1, <3>2 DEF RetryLabel
    <3>3. CASE x # t
      BY <1>1, <1>3, <3>1, <3>3
    <3> QED BY <3>2, <3>3
  <2> QED BY <2>1, <2>2, <2>3
<1>7. ASSUME NEW n \in Mutexes  PROVE MutexSound(n)'
  <2>1. MutexSound(n) /\ n \in WaitList
    BY DEF MInductive, Mutexes
  <2>2. \A x \in Range(k'.wl[n]) : Waits(x, n)'
    BY <1>1, <1>5, <2>1, MInductiveParts, RangeOfSeq DEF MutexSound, KernelState
  <2>3. ~ mx'[n].alive /\ k'.wl[n] # << >> => \E x \in Thread : at'[x] \in Deleting /\ call'[x] = n
    <3>1. CASE n = m
      BY <1>3, <3>1 DEF Deleting
    <3>2. CASE n # m
      BY <1>1, <1>2, <1>3, <1>4, <2>1, <3>2 DEF MutexSound, Deleting
    <3> QED BY <3>1, <3>2
  <2> QED BY <1>1, <1>4, <2>1, <2>2, <2>3 DEF MutexSound
<1>8. ASSUME NEW x \in Thread  PROVE ResultKnown(x)'
  <2>1. CASE x = t
    BY <1>3, <2>1 DEF ResultKnown, Taking
  <2>2. CASE x # t
    BY <1>1, <1>3, <1>4, <2>2, MInductiveParts DEF MInductive, ResultKnown
  <2> QED BY <2>1, <2>2
<1>9. ASSUME NEW x \in Thread, NEW n \in Mutexes  PROVE HoldsKnown(x, n)'
  BY <1>1, <1>4, <1>5 DEF MInductive, HoldsKnown
<1> QED BY <1>6, <1>7, <1>8, <1>9 DEF MInductive

(***************************************************************************)
(* The signal.                                                             *)
(***************************************************************************)
(* A signal wakes a thread in the wait of rt_mutex_take, before or after   *)
(* it has been let go for another reason.                                  *)
LEMMA SignalKeeps ==
  ASSUME MInductive, NEW t \in Thread, Signal(t)
  PROVE  MInductive'
<1> DEFINE q == Resume(k, t)
<1>1. /\ sig[t] = "due" /\ at[t] = "taken" /\ t # k.cur /\ k.stat[t] \in {"suspend", "ready"}
      /\ k' = Schedule(q) /\ sig' = [sig EXCEPT ![t] = "pending"]
      /\ UNCHANGED <<at, mx, call, timed, took, seen>>
  BY DEF Signal
<1>2. /\ Wf(q, Thread) /\ q.stat = [k.stat EXCEPT ![t] = "ready"]
      /\ q.err = k.err /\ q.cur = k.cur /\ q.nest = k.nest /\ Fewer(q, k)
  <2>1. CASE k.stat[t] = "suspend"
    <3>1. Wf(k, Thread) /\ q = Resume(k, t)
      BY MInductiveParts
    <3> HIDE DEF q
    <3>2. /\ Wf(q, Thread) /\ q.tmr = k.tmr \ {t}
          /\ q.stat = [k.stat EXCEPT ![t] = IF t = k.cur THEN "running" ELSE "ready"]
          /\ q.prio = k.prio /\ q.err = k.err /\ q.yield = k.yield
          /\ q.cur = k.cur /\ q.nest = k.nest /\ Fewer(q, k)
      BY <2>1, <3>1, ResumeWf
    <3> QED BY <1>1, <3>2
  <2>2. CASE k.stat[t] = "ready"
    <3>1. q = k
      BY <2>2 DEF Resume
    <3>2. [k.stat EXCEPT ![t] = "ready"] = k.stat
      BY <2>2, MInductiveParts DEF KernelState
    <3> HIDE DEF q
    <3> QED BY <3>1, <3>2, MInductiveParts DEF Fewer
  <2> QED BY <1>1, <2>1, <2>2
<1> HIDE DEF q
<1>3. q.stat[t] = "ready" /\ \A x \in Thread : x # t => q.stat[x] = k.stat[x]
  BY <1>2, MInductiveParts DEF KernelState
<1>4. MaySchedule(q)
  BY <1>1, <1>2, <1>3, MInductiveParts, KernelAssumption DEF MaySchedule, OneRuns
<1>5. Wf(k', Thread) /\ OneRuns(k') /\ k'.stat[k'.cur] = "running" /\ Rescheduled(k', q)
  BY <1>1, <1>4, ScheduleWf
<1>6. /\ k'.err = k.err /\ k'.nest = 0 /\ Fewer(k', k) /\ k'.stat[t] # "suspend"
      /\ \A x \in Thread : x # t => (k'.stat[x] = "suspend" <=> k.stat[x] = "suspend")
  BY <1>2, <1>3, <1>5, MInductiveParts DEF Rescheduled, Fewer
<1>7. KernelRuns'
  BY <1>5, <1>6 DEF KernelRuns
<1>8. /\ sig' \in [Thread -> {"due", "pending", "handled"}] /\ sig'[t] = "pending"
      /\ \A x \in Thread : x # t => sig'[x] = sig[x]
  BY <1>1 DEF MInductive, MTypeOK
<1>9. MTypeOK'
  BY <1>1, <1>5, <1>8 DEF MInductive, MTypeOK, Wf
<1>10. SignalsPend'
  <2> SUFFICES ASSUME NEW x \in Thread
               PROVE  /\ x \in Signalled <=> sig'[x] # "handled"
                      /\ sig'[x] = "pending" => at'[x] = "taken" /\ k'.stat[x] # "suspend"
                      /\ at'[x] \notin RetryLabel /\ k'.err[x] # "EINTR"
    BY DEF SignalsPend
  <2>1. /\ x \in Signalled <=> sig[x] # "handled"
        /\ sig[x] = "pending" => at[x] = "taken" /\ k.stat[x] # "suspend"
        /\ at[x] \notin RetryLabel /\ k.err[x] # "EINTR"
    BY DEF MInductive, SignalsPend
  <2> QED BY <1>1, <1>6, <1>8, <2>1
<1>11. \A x \in Thread, n \in Mutexes : Waits(x, n)' <=> Waits(x, n)
  BY <1>1 DEF Waits
<1>12. ASSUME NEW n \in Mutexes  PROVE MutexSound(n)'
  <2>1. MutexSound(n)
    BY DEF MInductive
  <2>2. n \in WaitList /\ Range(k'.wl[n]) \subseteq Range(k.wl[n])
    BY <1>6 DEF Fewer, Mutexes
  <2>3. Range(k.wl[n]) \subseteq Thread
    BY MInductiveParts, RangeOfSeq, <2>2 DEF KernelState
  <2>4. k'.wl[n] # << >> => k.wl[n] # << >>
    <3>1. k.wl[n] \in Seq(Thread) /\ k'.wl[n] \in Seq(Thread)
      BY <1>5, <2>2, MInductiveParts DEF KernelState, Wf
    <3> QED BY <2>2, <3>1, EmptyRange
  <2> QED BY <1>1, <1>11, <2>1, <2>2, <2>3, <2>4 DEF MutexSound
<1>13. ASSUME NEW x \in Thread  PROVE ResultKnown(x)'
  BY <1>1, <1>6, <1>8 DEF MInductive, ResultKnown
<1>14. ASSUME NEW x \in Thread, NEW n \in Mutexes  PROVE HoldsKnown(x, n)'
  BY <1>1, <1>11 DEF MInductive, HoldsKnown
<1> QED BY <1>7, <1>9, <1>10, <1>12, <1>13, <1>14 DEF MInductive

(***************************************************************************)
(* The specification.                                                      *)
(***************************************************************************)
(* Before that, __again is never reached; and a mutex that is taken has an *)
(* owner, whose priority there is to compare with.                         *)
Again(t) == AgainTest(t) \/ AgainReload(t) \/ AgainTake(t) \/ AgainWait(t) \/ AgainQueue(t)

LEMMA Unreached ==
  ASSUME MInductive, NEW t \in Thread, NEW m \in Mutexes
  PROVE  ~ Again(t) /\ ~ NullOwner(t, m)
<1>1. at[t] \notin RetryLabel
  BY DEF MInductive, SignalsPend
<1>2. mx[m].owner = NoThread => mx[m].value # 0
  BY DEF MInductive, MutexSound
<1>3. ASSUME At(t, "again") \/ At(t, "againWait") \/ At(t, "againRaise")  PROVE FALSE
  BY <1>1, <1>3 DEF At, RetryLabel
<1>4. ~ AgainTest(t) /\ ~ AgainWait(t)
  BY <1>3 DEF AgainTest, AgainWait
<1>5. ~ AgainReload(t)
  BY <1>1 DEF AgainReload, At, RetryLabel
<1>6. ~ AgainTake(t)
  BY <1>1 DEF AgainTake, AgainWrite, At, RetryLabel
<1>7. ~ AgainQueue(t)
  BY <1>1 DEF AgainQueue, AgainKernel, At, RetryLabel
<1>8. ~ NullOwner(t, m)
  BY <1>2, <1>3 DEF NullOwner
<1> QED BY <1>4, <1>5, <1>6, <1>7, <1>8 DEF Again

(* A wait that a signal has ended ends.                                    *)
LEMMA TakenInterrupts ==
  ASSUME MInductive, NEW t \in Thread, Taken(t), sig[t] = "pending"
  PROVE  Interrupted'
<1>1. t \in Signalled
  BY DEF MInductive, SignalsPend
<1>2. sig'[t] = "handled"
  BY DEF Taken, MInductive, MTypeOK
<1> QED BY <1>1, <1>2 DEF Interrupted

(* Every step keeps the invariant, or ends the first such wait.            *)
LEMMA MNextKeeps ==
  ASSUME MInductive, [MNext]_mvars
  PROVE  MInductive' \/ Interrupted'
<1>1. CASE UNCHANGED mvars
  BY <1>1 DEF mvars, MInductive, MTypeOK, KernelRuns, SignalsPend, MutexSound, ResultKnown, HoldsKnown, Waits
<1>2. CASE Tick
  BY <1>2, MSliceEndKeeps, MTimerExpiresKeeps DEF Tick
<1>3. ASSUME NEW t \in Thread, Proceed(t)  PROVE MInductive' \/ Interrupted'
  <2>1. CASE (AsleepSchedule(t) \/ WakeUp(t)) /\ UNCHANGED <<mx, call, timed, took, sig, seen>>
    BY <2>1, MScheduleStepKeeps, MErrorKeeps DEF AsleepSchedule
  <2>2. CASE TakeSchedule(t) \/ ReleaseSchedule(t)
    BY <2>2, MScheduleStepKeeps DEF TakeSchedule, ReleaseSchedule
  <2>3. CASE Taken(t)
    BY <2>3, TakenKeeps, TakenInterrupts
  <2>4. CASE DeleteTest(t) \/ DeleteResume(t)
    BY <2>4, DeleteTestKeeps, DeleteResumeKeeps
  <2>5. CASE Again(t) \/ \E m \in Mutexes : NullOwner(t, m)
    <3>1. call[t] \in Mutexes
      BY MInductiveParts
    <3> QED BY <2>5, <3>1, Unreached
  <2> QED BY <1>3, <2>1, <2>2, <2>3, <2>4, <2>5 DEF Proceed, Again
<1>4. ASSUME NEW t \in Thread, NEW m \in Mutexes, ReleaseLast(t, m)  PROVE MInductive'
  BY <1>4, ReleaseFreesKeeps, ReleaseHandsOverKeeps
<1>5. ASSUME NEW t \in Thread, Begin(t)  PROVE MInductive'
  <2>1. CASE Sleep(t) /\ UNCHANGED <<mx, call, timed, took, sig, seen>>
    BY <2>1, MSleepKeeps
  <2>2. CASE \E m \in Mutexes : TakeAgain(t, m) \/ TakeFree(t, m) \/ Delete(t, m)
    BY <2>2, TakeAgainKeeps, TakeFreeKeeps, DeleteKeeps
  <2>3. CASE \E m \in Mutexes : TakeFails(t, m) \/ ReleaseFails(t, m)
    <3>1. UNCHANGED <<mx, call, timed, took, sig, seen>>
      BY <2>3 DEF TakeFails, ReleaseFails
    <3> QED BY <2>3, <3>1, MErrorKeeps
  <2>4. CASE \E m \in Mutexes, tmo \in BOOLEAN : TakeWaits(t, m, tmo)
    BY <2>4, TakeWaitsKeeps
  <2>5. CASE Release(t)
    BY <1>4, <2>5, ReleaseOneKeeps DEF Release
  <2> QED BY <1>5, <2>1, <2>2, <2>3, <2>4, <2>5 DEF Begin
<1> QED BY <1>1, <1>2, <1>3, <1>5, SignalKeeps DEF MNext

(* The start of the scheduler, with all mutexes free, establishes it.      *)
LEMMA MInitInductive ==
  ASSUME MInit
  PROVE  MInductive
<1>1. /\ mx = [m \in Mutexes |-> FreeMutex] /\ at = [t \in Thread |-> "run"]
      /\ timed = [t \in Thread |-> FALSE] /\ took = [t \in Thread |-> [m \in Mutexes |-> 0]]
      /\ sig = [t \in Thread |-> IF t \in Signalled THEN "due" ELSE "handled"]
      /\ seen = [t \in Thread |-> [count |-> 0, owner |-> NoThread]]
  BY DEF MInit, KernelInit
<1>2. PICK r \in BootQueues(Thread) : k = FirstSwitch(Started(Thread, r))
  BY DEF MInit, KernelInit
<1>3. /\ Wf(k, Thread) /\ OneRuns(k) /\ k.stat[k.cur] = "running" /\ k.nest = 0
      /\ k.err = [t \in Thread |-> "EOK"] /\ \A m \in Mutexes : k.wl[m] = << >>
  <2>1. Thread \in SUBSET Thread /\ Idle \in Thread /\ IsFiniteSet(Thread)
    BY KernelAssumption, MutexAssumption
  <2> QED BY <1>2, <2>1, BootWf DEF Mutexes
<1>4. KernelRuns /\ SignalsPend
  BY <1>1, <1>3 DEF KernelRuns, SignalsPend, RetryLabel
<1>5. call \in [Thread -> Mutexes]
  <2>1. (CHOOSE m \in Mutexes : TRUE) \in Mutexes
    BY MutexAssumption DEF Mutexes
  <2> QED BY <2>1 DEF MInit
<1>6. FreeMutex \in MutexState /\ "run" \in MutexLabel /\ 0 \in 0 .. HoldMax
  BY MutexAssumption DEF FreeMutex, MutexState, MutexLabel
<1>7. MTypeOK
  <2>1. [count |-> 0, owner |-> NoThread] \in Readings
    BY DEF Readings
  <2>2. seen \in [Thread -> Readings]
    BY <1>1, <2>1
  <2> QED BY <1>1, <1>3, <1>5, <1>6, <2>2 DEF MTypeOK, Wf
<1>8. \A t \in Thread, m \in Mutexes : ~ Waits(t, m) /\ ResultKnown(t)
  BY <1>1 DEF Waits, ResultKnown, Taking
<1>9. ASSUME NEW m \in Mutexes  PROVE MutexSound(m)
  <2>1. \A x : x \notin Range(k.wl[m])
    <3>1. k.wl[m] = << >> /\ << >> \in Seq(Thread)
      BY <1>3
    <3> QED BY <3>1, EmptyRange
  <2> QED BY <1>1, <1>3, <2>1 DEF MutexSound, FreeMutex
<1>10. ASSUME NEW t \in Thread, NEW m \in Mutexes  PROVE HoldsKnown(t, m)
  BY <1>1, <1>8, MutexAssumption DEF HoldsKnown, FreeMutex
<1>11. \A t \in Thread : ResultKnown(t)
  BY <1>1 DEF ResultKnown, Taking
<1> QED BY <1>4, <1>7, <1>9, <1>10, <1>11 DEF MInductive

(***************************************************************************)
(* The priorities.  A thread may wait for one mutex while it holds others, *)
(* and a release restores the priority from before its own mutex was taken,*)
(* so with several mutexes neither promise holds: both are about one mutex.*)
(***************************************************************************)
OneMutex == \A m, n \in Mutexes : m = n

(* The priority a release restores is that of the thread's creation.       *)
OrigKept == \A m \in Mutexes : mx[m].owner # NoThread => mx[m].orig = InitPrio[mx[m].owner]

PInductive == MInductive /\ PriorityRestored /\ OrigKept

(* The list is in the order of the priorities, and the owner is above it.  *)
OInductive ==
  /\ PInductive
  /\ \A m \in Mutexes :
       /\ Ordered(k.wl[m])
       /\ \A w \in Range(k.wl[m]) : k.prio[mx[m].owner] <= InitPrio[w]

(* No mutex changes hands.                                                 *)
SameOwners == \A m \in Mutexes : mx'[m].owner = mx[m].owner /\ mx'[m].orig = mx[m].orig

(* A waiter owns no mutex, and has the priority it was created with.       *)
LEMMA WaiterUnraised ==
  ASSUME OneMutex, MInductive, PriorityRestored, NEW m \in Mutexes, NEW x \in Range(k.wl[m])
  PROVE  x \in Thread /\ mx[m].owner # x /\ k.prio[x] = InitPrio[x]
<1>1. x \in Thread /\ k.stat[x] = "suspend"
  <2>1. m \in WaitList /\ k.wl[m] \in Seq(Thread) /\ OneList(k)
    BY MInductiveParts DEF Mutexes, KernelState, Wf
  <2> QED BY <2>1, RangeOfSeq DEF OneList
<1>2. Waits(x, m) /\ sig[x] # "pending" /\ ResultKnown(x)
  BY <1>1 DEF MInductive, MutexSound, SignalsPend
<1>3. mx[m].owner # x
  BY <1>1, <1>2 DEF ResultKnown, Waits
<1>4. \A n \in Mutexes : mx[n].owner # x
  BY <1>3 DEF OneMutex
<1> QED BY <1>1, <1>3, <1>4 DEF PriorityRestored

(* Steps that touch no list and no priority.                               *)
LEMMA SameListsCalm ==
  ASSUME NEW r, NEW q, r.prio = q.prio, r.wl = q.wl
  PROVE  Calm(r, q)
BY DEF Calm

(* The clock interrupt, and a signal.                                      *)
LEMMA TickCalm ==
  ASSUME MInductive, Tick \/ \E t \in Thread : Signal(t)
  PROVE  Calm(k', k)
<1>1. PICK q : MaySchedule(q) /\ Calm(q, k) /\ k' = Schedule(q)
  <2>1. CASE SliceEnd
    <3> DEFINE r == [k EXCEPT !.yield = @ \cup {k.cur}]
    <3>1. /\ r \in KernelState /\ r.stat = k.stat /\ r.prio = k.prio /\ r.rq = k.rq
          /\ r.group = k.group /\ r.wl = k.wl /\ r.defunct = k.defunct /\ r.tmr = k.tmr
          /\ r.cur = k.cur /\ r.nest = k.nest
      BY MInductiveParts DEF KernelState
    <3>2. k' = Schedule(r)
      BY <2>1 DEF SliceEnd, SliceOver
    <3> HIDE DEF r
    <3>3. Wf(r, Thread)
      BY <3>1, MInductiveParts, SameListsWf
    <3>4. MaySchedule(r)
      BY <3>1, <3>3, NothingDone DEF MaySchedule, OneRuns
    <3> QED BY <3>1, <3>2, <3>4, SameListsCalm
  <2>2. ASSUME NEW t \in Thread, TimerExpires(t)  PROVE \E r : MaySchedule(r) /\ Calm(r, k) /\ k' = Schedule(r)
    <3> DEFINE r == Expired(k, t)
    <3>1. k' = Schedule(r) /\ t \in k.tmr
      BY <2>2 DEF TimerExpires, Timeout, Expired
    <3> HIDE DEF r
    <3>2. /\ k.stat[t] = "suspend" /\ Wf(r, Thread)
          /\ r.stat = [k.stat EXCEPT ![t] = IF t = k.cur THEN "running" ELSE "ready"]
          /\ r.err = [k.err EXCEPT ![t] = "ETIMEOUT"] /\ r.prio = k.prio
          /\ r.tmr = k.tmr \ {t} /\ r.cur = k.cur /\ r.nest = k.nest /\ Fewer(r, k)
      BY <3>1, MInductiveParts, ExpiredWf DEF r
    <3>3. /\ r.stat[t] = IF t = k.cur THEN "running" ELSE "ready"
          /\ \A x \in Thread : x # t => r.stat[x] = k.stat[x]
      BY <3>2, MInductiveParts DEF KernelState
    <3>4. MaySchedule(r)
      BY <3>2, <3>3, MInductiveParts, KernelAssumption DEF MaySchedule, OneRuns
    <3>5. Calm(r, k)
      BY <3>1, MInductiveParts, ExpiredCalm DEF r
    <3> QED BY <3>1, <3>4, <3>5
  <2>3. ASSUME NEW t \in Thread, Signal(t)  PROVE \E r : MaySchedule(r) /\ Calm(r, k) /\ k' = Schedule(r)
    <3> DEFINE r == Resume(k, t)
    <3>1. k' = Schedule(r) /\ t # k.cur /\ k.stat[t] \in {"suspend", "ready"}
      BY <2>3 DEF Signal
    <3>2. CASE k.stat[t] = "ready"
      <4>1. r = k
        BY <3>2 DEF Resume
      <4> QED BY <3>1, <4>1, NothingDone, SameListsCalm
    <3>3. CASE k.stat[t] = "suspend"
      <4> HIDE DEF r
      <4>1. /\ Wf(r, Thread) /\ r.tmr = k.tmr \ {t}
            /\ r.stat = [k.stat EXCEPT ![t] = IF t = k.cur THEN "running" ELSE "ready"]
            /\ r.prio = k.prio /\ r.err = k.err /\ r.yield = k.yield
            /\ r.cur = k.cur /\ r.nest = k.nest /\ Fewer(r, k)
        BY <3>3, MInductiveParts, ResumeWf DEF r
      <4>2. r.stat[t] = "ready" /\ \A x \in Thread : x # t => r.stat[x] = k.stat[x]
        BY <3>1, <4>1, MInductiveParts DEF KernelState
      <4>3. MaySchedule(r)
        BY <3>1, <4>1, <4>2, MInductiveParts, KernelAssumption DEF MaySchedule, OneRuns
      <4>4. Calm(r, k)
        BY <3>3, MInductiveParts, ResumeCalm DEF r
      <4> QED BY <3>1, <4>3, <4>4
    <3> QED BY <3>1, <3>2, <3>3
  <2> QED BY <2>1, <2>2, <2>3 DEF Tick
<1>2. Calm(k', q)
  BY <1>1, ScheduleCalm
<1> QED BY <1>1, <1>2, CalmTwice

(* rt_thread_sleep, and rt_mutex_delete letting a waiter go.               *)
LEMMA SleepCalm ==
  ASSUME MInductive, NEW t \in Thread, Sleep(t)
  PROVE  Calm(k', k)
<1> DEFINE u == Suspend(k, t)
<1>1. k' = StartTimer(u, t) /\ k.stat[t] = "running"
  BY MCallerRuns DEF Sleep, MayBlock, At
<1> HIDE DEF u
<1>2. Wf(u, Thread) /\ Calm(u, k)
  <2>1. Wf(k, Thread) /\ k.stat[t] \in {"ready", "running"} /\ u = Suspend(k, t)
    BY <1>1, MInductiveParts DEF u
  <2> QED BY <2>1, SuspendWf, SuspendCalm
<1>3. k'.prio = u.prio /\ k'.wl = u.wl
  BY <1>1, <1>2 DEF StartTimer, Wf, KernelState
<1> QED BY <1>2, <1>3 DEF Calm

LEMMA DeleteResumeCalm ==
  ASSUME MInductive, NEW t \in Thread, DeleteResume(t)
  PROVE  Calm(k', k)
<1>1. call[t] \in Mutexes
  BY MInductiveParts
<1>2. CASE k.wl[call[t]] = << >>
  BY <1>2, SameListsCalm DEF DeleteResume
<1>3. CASE k.wl[call[t]] # << >>
  <2> DEFINE w == Head(k.wl[call[t]])
             u == SetError(k, w, "ERROR")
  <2>1. k' = Resume(u, w)
    BY <1>3 DEF DeleteResume, LetGo, SetError
  <2>2. w \in Thread /\ k.stat[w] = "suspend"
    BY <1>1, <1>3, FirstTaker
  <2> HIDE DEF w
  <2>3. /\ Wf(u, Thread) /\ u.err = [k.err EXCEPT ![w] = "ERROR"] /\ u.stat = k.stat /\ u.prio = k.prio
        /\ u.wl = k.wl /\ u.tmr = k.tmr /\ u.cur = k.cur /\ u.nest = k.nest /\ u.defunct = k.defunct
    <3>1. "ERROR" \in Err
      BY DEF Err
    <3> QED BY <2>2, <3>1, MInductiveParts, SetErrorWf
  <2> HIDE DEF u
  <2>4. Calm(k', u)
    BY <2>1, <2>2, <2>3, ResumeCalm
  <2> QED BY <2>3, <2>4 DEF Calm
<1> QED BY <1>2, <1>3

(* Only a take and the last release change owners, priorities or join a    *)
(* list.                                                                   *)
LEMMA MostStepsCalm ==
  ASSUME MInductive, [MNext]_mvars
  PROVE  \/ Calm(k', k) /\ SameOwners
         \/ \E t \in Thread, m \in Mutexes :
              TakeFree(t, m) \/ ReleaseLast(t, m) \/ \E tmo \in BOOLEAN : TakeWaits(t, m, tmo)
<1>1. k'.prio = k.prio /\ k'.wl = k.wl => Calm(k', k)
  BY SameListsCalm
<1>2. mx' = mx => SameOwners
  BY DEF SameOwners
<1>3. CASE UNCHANGED mvars
  BY <1>1, <1>2, <1>3 DEF mvars
<1>4. CASE Tick \/ \E t \in Thread : Signal(t)
  BY <1>2, <1>4, TickCalm DEF Tick, Signal
<1>5. ASSUME NEW t \in Thread, Proceed(t)  PROVE Calm(k', k) /\ SameOwners
  <2>0. ~ Again(t) /\ \A m \in Mutexes : ~ NullOwner(t, m)
    BY MutexAssumption, Unreached DEF Mutexes
  <2>1. \/ (AsleepSchedule(t) \/ WakeUp(t)) /\ UNCHANGED <<mx, call, timed, took, sig, seen>>
        \/ TakeSchedule(t) \/ Taken(t) \/ ReleaseSchedule(t) \/ DeleteTest(t) \/ DeleteResume(t)
    BY <1>5, <2>0 DEF Proceed, Again
  <2>2. mx' = mx
    BY <2>1 DEF TakeSchedule, Taken, ReleaseSchedule, DeleteTest, DeleteResume
  <2>3. \/ k' = Schedule(k) \/ k' = k \/ DeleteResume(t)
        \/ \E e : k' = [k EXCEPT !.err[t] = e]
    BY <2>1 DEF TakeSchedule, AsleepSchedule, ReleaseSchedule, ScheduleStep, DeleteTest,
                      WakeUp, Taken, ClearError
  <2>4. k' = Schedule(k) => Calm(k', k)
    BY NothingDone, ScheduleCalm
  <2>5. (\E e : k' = [k EXCEPT !.err[t] = e]) => k'.prio = k.prio /\ k'.wl = k.wl
    BY MInductiveParts DEF KernelState
  <2> QED BY <1>1, <1>2, <2>2, <2>3, <2>4, <2>5, DeleteResumeCalm
<1>6. ASSUME NEW t \in Thread, NEW m \in Mutexes,
             TakeAgain(t, m) \/ TakeFails(t, m) \/ ReleaseFails(t, m) \/ Delete(t, m) \/ ReleaseOne(t, m)
      PROVE  Calm(k', k) /\ SameOwners
  <2>1. k' = k \/ \E e : k' = [k EXCEPT !.err[t] = e]
    BY <1>6 DEF TakeAgain, TakeFails, ReleaseFails, Delete, ReleaseOne, ClearError
  <2>2. k'.prio = k.prio /\ k'.wl = k.wl
    BY <2>1, MInductiveParts DEF KernelState
  <2>3. SameOwners
    <3>1. mx \in [Mutexes -> MutexState]
      BY MInductiveParts
    <3>2. mx' = mx \/ \E h : mx' = [mx EXCEPT ![m].hold = h] \/ mx' = [mx EXCEPT ![m].alive = h]
      BY <1>6 DEF TakeAgain, TakeFails, ReleaseFails, Delete, ReleaseOne
    <3> QED BY <3>1, <3>2 DEF SameOwners, MutexState
  <2> QED BY <1>1, <2>2, <2>3
<1> QED BY <1>2, <1>3, <1>4, <1>5, <1>6, SleepCalm DEF MNext, Begin, Release

(* What the inheritance does to the priorities.                            *)
LEMMA RaiseOwnerPrio ==
  ASSUME NEW q0, Wf(q0, Thread), q0.stat[q0.cur] # "ready", NEW t \in Thread,
         NEW m \in Mutexes, mx[m].owner \in Thread, NEW q, q = RaiseOwner(q0, t, m)
  PROVE  /\ \A x \in Thread : x # mx[m].owner => q.prio[x] = q0.prio[x]
         /\ q.prio[mx[m].owner] <= q0.prio[mx[m].owner] /\ q.prio[mx[m].owner] <= q0.prio[t]
         /\ \A l \in WaitList : Ordered(q0.wl[l]) => Ordered(q.wl[l])
<1> DEFINE o == mx[m].owner
           p == q0.prio[t]
<1>1. q0 \in KernelState /\ o \in Thread /\ p \in Prio /\ p \in Nat /\ q0.prio[o] \in Nat
  <2>1. q0 \in KernelState
    BY DEF Wf
  <2>2. p \in Prio /\ q0.prio[o] \in Prio
    BY <2>1 DEF KernelState
  <2> HIDE DEF p
  <2>3. p \in Nat /\ q0.prio[o] \in Nat
    BY <2>2, KernelAssumption DEF Prio
  <2> QED BY <2>1, <2>2, <2>3
<1>2. o # NoThread
  BY MutexAssumption
<1>3. CASE p < q0.prio[o]
  <2>1. q = SetPriority(q0, o, p)
    BY <1>2, <1>3 DEF RaiseOwner
  <2> HIDE DEF o, p
  <2>2. /\ Wf(q, Thread) /\ q.stat = q0.stat /\ q.err = q0.err /\ q.yield = q0.yield
        /\ q.tmr = q0.tmr /\ q.cur = q0.cur /\ q.nest = q0.nest /\ Fewer(q, q0)
        /\ q.prio = [q0.prio EXCEPT ![o] = p]
    BY <1>1, <2>1, SetPriorityWf
  <2>3. q.prio[o] = p /\ \A x \in Thread : x # o => q.prio[x] = q0.prio[x]
    BY <1>1, <2>2 DEF KernelState
  <2>4. \A l \in WaitList : Ordered(q0.wl[l]) => Ordered(q.wl[l])
    BY <1>1, <2>1, SetPriorityOrdered
  <2>5. p <= q0.prio[o] /\ p <= p
    BY <1>1, <1>3
  <2> QED BY <2>3, <2>4, <2>5 DEF o, p
<1>4. CASE ~ (p < q0.prio[o])
  <2>1. q = q0
    BY <1>4 DEF RaiseOwner
  <2>2. q0.prio[o] <= p /\ q0.prio[o] <= q0.prio[o]
    BY <1>1, <1>4
  <2> QED BY <2>1, <2>2
<1> QED BY <1>3, <1>4

(* The wait of rt_mutex_take: only the owner is raised, to the caller's    *)
(* priority at least; and if the mutex queues by priority, the caller is   *)
(* put in order.                                                           *)
LEMMA TakeWaitsPrio ==
  ASSUME OneMutex, MInductive, PriorityRestored, NEW t \in Thread, NEW m \in Mutexes, NEW tmo \in BOOLEAN,
         TakeWaits(t, m, tmo)
  PROVE  /\ mx' = mx /\ k.prio[t] = InitPrio[t] /\ mx[m].owner \in Thread
         /\ \A x \in Thread : x # mx[m].owner => k'.prio[x] = k.prio[x]
         /\ k'.prio[mx[m].owner] <= k.prio[mx[m].owner] /\ k'.prio[mx[m].owner] <= k.prio[t]
         /\ \A n \in Mutexes : \A x \in Range(k'.wl[n]) : x = t \/ x \in Range(k.wl[n])
         /\ MFlag = "prio" /\ (\A l \in WaitList : Ordered(k.wl[l])) => \A l \in WaitList : Ordered(k'.wl[l])
<1> DEFINE c == ClearError(k, t)
           o == mx[m].owner
           a == RaiseOwner(c, t, m)
           u == SuspendOn(a, t, m, MFlag)
<1>1. /\ MayBlock(t) /\ mx[m].owner # t /\ mx[m].value = 0
      /\ k' = Enqueue(c, t, m, tmo) /\ mx' = mx
  BY DEF TakeWaits, MayCall
<1>2. k.cur = t /\ k.stat[t] = "running" /\ at[t] \notin Taking
  BY <1>1, CallerClears DEF Taking, MayBlock
<1>3. o # NoThread /\ o \in Thread
  BY <1>1, <1>2, CallerHolds DEF MutexSound, MutexState
<1>4. k.prio[t] = InitPrio[t]
  <2>1. \A n \in Mutexes : mx[n].owner # t
    BY <1>1 DEF OneMutex
  <2> QED BY <2>1 DEF PriorityRestored
<1>5. /\ Wf(c, Thread) /\ c.err = [k.err EXCEPT ![t] = "EOK"] /\ c.stat = k.stat /\ c.prio = k.prio
      /\ c.wl = k.wl /\ c.tmr = k.tmr /\ c.cur = k.cur /\ c.nest = k.nest /\ c.defunct = k.defunct
  <2>1. c = SetError(k, t, "EOK") /\ "EOK" \in Err
    BY DEF ClearError, SetError, Err
  <2> HIDE DEF c
  <2> QED BY <2>1, MInductiveParts, SetErrorWf
<1> HIDE DEF c, o
<1>6. /\ Wf(a, Thread) /\ a.stat = c.stat /\ a.err = c.err /\ a.tmr = c.tmr /\ a.cur = c.cur
      /\ a.nest = c.nest /\ Fewer(a, c)
      /\ \A x \in Thread : x # o => a.prio[x] = c.prio[x]
      /\ a.prio[o] <= c.prio[o] /\ a.prio[o] <= c.prio[t]
      /\ \A l \in WaitList : Ordered(c.wl[l]) => Ordered(a.wl[l])
  <2>1. c.stat[c.cur] # "ready" /\ mx[m].owner \in Thread /\ a = RaiseOwner(c, t, m)
    BY <1>2, <1>3, <1>5 DEF o
  <2> HIDE DEF a
  <2>2. /\ Wf(a, Thread) /\ a.stat = c.stat /\ a.err = c.err /\ a.tmr = c.tmr /\ a.cur = c.cur
        /\ a.nest = c.nest /\ Fewer(a, c)
    BY <1>5, <2>1, RaiseOwnerWf
  <2>3. /\ \A x \in Thread : x # mx[m].owner => a.prio[x] = c.prio[x]
        /\ a.prio[mx[m].owner] <= c.prio[mx[m].owner] /\ a.prio[mx[m].owner] <= c.prio[t]
        /\ \A l \in WaitList : Ordered(c.wl[l]) => Ordered(a.wl[l])
    BY <1>5, <2>1, RaiseOwnerPrio
  <2> QED BY <2>2, <2>3 DEF o
<1> HIDE DEF a
<1>7. a.stat[t] \in {"ready", "running"} /\ m \in WaitList /\ u = SuspendOn(a, t, m, MFlag)
  BY <1>2, <1>5, <1>6 DEF Mutexes
<1>8. u.prio = a.prio /\ OnlyJoins(u, a, t, m) /\ u \in KernelState
  <2> HIDE DEF u
  <2>1. /\ Wf(u, Thread)
        /\ u.stat = [a.stat EXCEPT ![t] = "suspend"]
        /\ u.prio = a.prio /\ u.err = a.err /\ u.yield = a.yield /\ u.tmr = a.tmr
        /\ u.cur = a.cur /\ u.nest = a.nest
        /\ OnlyJoins(u, a, t, m)
        /\ Range(u.defunct) \subseteq Range(a.defunct)
    BY <1>6, <1>7, SuspendOnWf
  <2> QED BY <2>1 DEF Wf
<1>9. k'.prio = u.prio /\ k'.wl = u.wl
  <2>1. k' = u \/ k' = StartTimer(u, t)
    BY <1>1 DEF Enqueue, a
  <2> HIDE DEF u
  <2> QED BY <1>8, <2>1 DEF StartTimer, KernelState
<1>10. \A n \in Mutexes : \A x \in Range(k'.wl[n]) : x = t \/ x \in Range(k.wl[n])
  BY <1>5, <1>6, <1>8, <1>9 DEF OnlyJoins, Fewer, Mutexes
<1>11. ASSUME MFlag = "prio", \A l \in WaitList : Ordered(k.wl[l])  PROVE \A l \in WaitList : Ordered(k'.wl[l])
  <2>1. \A l \in WaitList : Ordered(a.wl[l])
    BY <1>5, <1>6, <1>11
  <2>2. a.prio[t] = InitPrio[t]
    BY <1>1, <1>4, <1>5, <1>6 DEF o
  <2>3. ASSUME NEW x \in Range(a.wl[m])  PROVE a.prio[x] = InitPrio[x]
    <3>1. x \in Range(k.wl[m])
      BY <1>5, <1>6, <1>7 DEF Fewer
    <3>2. x \in Thread /\ mx[m].owner # x /\ k.prio[x] = InitPrio[x]
      BY <3>1, WaiterUnraised
    <3> QED BY <1>5, <1>6, <3>2 DEF o
  <2>4. \A l \in WaitList : Ordered(u.wl[l])
    <3>1. u = SuspendOn(a, t, m, "prio")
      BY <1>7, <1>11
    <3> HIDE DEF u
    <3> QED BY <1>6, <1>7, <2>1, <2>2, <2>3, <3>1, SuspendOnOrdered
  <2> QED BY <1>9, <2>4
<1> QED BY <1>1, <1>3, <1>4, <1>5, <1>6, <1>8, <1>9, <1>10, <1>11 DEF o

(* The last release, before it hands the mutex over.                       *)
LEMMA RestorePriorityPrio ==
  ASSUME MInductive, OrigKept, NEW t \in Thread, NEW m \in Mutexes, MayBlock(t), mx[m].owner = t,
         NEW q, q = RestorePriority(k, t, m)
  PROVE  /\ Wf(q, Thread) /\ q.stat = k.stat /\ q.cur = k.cur /\ Fewer(q, k)
         /\ q.prio[t] = InitPrio[t] /\ \A x \in Thread : x # t => q.prio[x] = k.prio[x]
         /\ \A l \in WaitList : Ordered(k.wl[l]) => Ordered(q.wl[l])
<1> DEFINE p == mx[m].orig
<1>1. k.cur = t /\ k.stat[t] = "running" /\ at[t] \notin Taking /\ k \in KernelState
  BY CallerClears, MInductiveParts DEF Taking
<1>2. p \in Prio /\ p = InitPrio[t]
  BY <1>1, CallerHolds, MutexAssumption DEF MutexSound, OrigKept
<1>3. /\ Wf(q, Thread) /\ q.stat = k.stat /\ q.err = k.err /\ q.cur = k.cur
      /\ q.nest = k.nest /\ Fewer(q, k)
  BY <1>1, <1>2, RestorePriorityWf
<1>4. q = SetPriority(k, t, p) \/ (q = k /\ k.prio[t] = p)
  BY DEF RestorePriority
<1> HIDE DEF p
<1>5. CASE q = SetPriority(k, t, p)
  <2>1. k.stat[k.cur] # "ready" /\ Wf(k, Thread)
    BY <1>1, MInductiveParts
  <2>2. /\ Wf(q, Thread) /\ q.stat = k.stat /\ q.err = k.err /\ q.yield = k.yield
        /\ q.tmr = k.tmr /\ q.cur = k.cur /\ q.nest = k.nest /\ Fewer(q, k)
        /\ q.prio = [k.prio EXCEPT ![t] = p]
    BY <1>2, <1>5, <2>1, SetPriorityWf
  <2>3. q.prio[t] = p /\ \A x \in Thread : x # t => q.prio[x] = k.prio[x]
    BY <1>1, <2>2 DEF KernelState
  <2>4. \A l \in WaitList : Ordered(k.wl[l]) => Ordered(q.wl[l])
    BY <1>2, <1>5, <2>1, SetPriorityOrdered
  <2> QED BY <1>2, <1>3, <2>3, <2>4
<1>6. CASE q = k /\ k.prio[t] = p
  BY <1>2, <1>3, <1>6
<1> QED BY <1>4, <1>5, <1>6

(* And what it does to the mutex, the priorities and the list.             *)
LEMMA ReleaseLastPrio ==
  ASSUME OneMutex, MInductive, PriorityRestored, OrigKept, NEW t \in Thread, NEW m \in Mutexes,
         ReleaseLast(t, m)
  PROVE  /\ mx[m].owner = t /\ k'.prio[t] = InitPrio[t]
         /\ \A x \in Thread : x # t => k'.prio[x] = k.prio[x]
         /\ \A l \in WaitList : Ordered(k.wl[l]) => Ordered(k'.wl[l])
         /\ \/ mx'[m].owner = NoThread /\ k'.wl[m] = << >>
            \/ \E w \in Thread :
                 /\ mx'[m].owner = w /\ mx'[m].orig = InitPrio[w] /\ k'.prio[w] = InitPrio[w]
                 /\ Ordered(k.wl[m]) => \A x \in Range(k'.wl[m]) : InitPrio[w] <= InitPrio[x]
<1> DEFINE q == RestorePriority(k, t, m)
<1>1. /\ MayBlock(t) /\ mx[m].owner = t /\ mx' = Released(q, m)
      /\ k' = IF q.wl[m] = << >> THEN q ELSE ResumeFirst(q, m)
  BY DEF ReleaseLast, MayCall
<1>2. /\ Wf(q, Thread) /\ q.stat = k.stat /\ q.cur = k.cur /\ Fewer(q, k)
      /\ q.prio[t] = InitPrio[t] /\ \A x \in Thread : x # t => q.prio[x] = k.prio[x]
      /\ \A l \in WaitList : Ordered(k.wl[l]) => Ordered(q.wl[l])
  <2> HIDE DEF q
  <2> QED BY <1>1, RestorePriorityPrio DEF q
<1>3. mx \in [Mutexes -> MutexState] /\ m \in WaitList
  BY MInductiveParts DEF Mutexes
<1> HIDE DEF q
<1>4. CASE q.wl[m] = << >>
  <2>1. k' = q /\ mx'[m].owner = NoThread
    BY <1>1, <1>3, <1>4 DEF Released
  <2> QED BY <1>1, <1>2, <1>4, <2>1
<1>5. CASE q.wl[m] # << >>
  <2> DEFINE w == Head(q.wl[m])
             s == q.wl[m]
  <2>1. k' = Resume(q, w)
    BY <1>1, <1>5 DEF ResumeFirst
  <2>2. /\ s \in Seq(Thread) /\ s # << >> /\ w \in Thread /\ w \in Range(s) /\ w \in Range(k.wl[m])
        /\ w = s[1] /\ q.stat[w] = "suspend"
    <3>1. s \in Seq(Thread) /\ s # << >>
      BY <1>2, <1>3, <1>5 DEF Wf, KernelState
    <3>2. w \in Thread /\ w \in Range(s)
      BY <3>1, HeadFacts
    <3>3. Len(s) \in Nat \ {0}
      BY <3>1, LenProperties, EmptySeq
    <3>4. w = s[1]
      BY <3>1, <3>3
    <3> QED BY <1>2, <1>3, <3>1, <3>2, <3>4 DEF Fewer, Wf, OneList
  <2>3. mx[m].owner # w /\ k.prio[w] = InitPrio[w]
    BY <2>2, WaiterUnraised
  <2>4. mx'[m].owner = w /\ mx'[m].orig = q.prio[w]
    <3>1. mx' = [mx EXCEPT ![m] = [mx[m] EXCEPT !.owner = w, !.orig = q.prio[w]]]
      BY <1>1, <1>5 DEF Released
    <3> QED BY <1>3, <3>1 DEF MutexState
  <2> HIDE DEF w
  <2>5. Calm(k', q)
    BY <1>2, <2>1, <2>2, ResumeCalm
  <2>6. q.prio[w] = InitPrio[w]
    BY <1>1, <1>2, <2>2, <2>3
  <2>7. ASSUME Ordered(k.wl[m]), NEW x \in Range(k'.wl[m])  PROVE InitPrio[w] <= InitPrio[x]
    <3>1. Ordered(s) /\ x \in Range(s)
      BY <1>2, <1>3, <2>5, <2>7 DEF Calm
    <3>2. Len(s) \in Nat /\ DOMAIN s = 1 .. Len(s)
      BY <2>2, LenProperties
    <3> HIDE DEF s
    <3>3. PICK j \in DOMAIN s : x = s[j]
      BY <3>1 DEF Range
    <3>4. CASE j = 1
      <4>1. InitPrio[w] \in Nat
        BY <2>2, KernelAssumption DEF Prio
      <4> QED BY <2>2, <3>3, <3>4, <4>1
    <3>5. CASE j # 1
      <4>1. 1 \in DOMAIN s /\ 1 < j
        BY <3>2, <3>5
      <4> QED BY <2>2, <3>1, <3>3, <4>1 DEF Ordered
    <3> QED BY <3>4, <3>5
  <2>8. k'.prio = q.prio /\ \A l \in WaitList : Ordered(k.wl[l]) => Ordered(k'.wl[l])
    BY <1>2, <2>5 DEF Calm
  <2> HIDE DEF s
  <2> QED BY <1>1, <1>2, <2>2, <2>4, <2>6, <2>7, <2>8
<1> QED BY <1>4, <1>5

(* A free mutex is taken: the new owner has its own priority.              *)
LEMMA TakeFreePrio ==
  ASSUME OneMutex, MInductive, PriorityRestored, NEW t \in Thread, NEW m \in Mutexes, TakeFree(t, m)
  PROVE  /\ k'.prio = k.prio /\ k'.wl = k.wl /\ k.wl[m] = << >> /\ t # NoThread
         /\ mx'[m].owner = t /\ mx'[m].orig = InitPrio[t] /\ k.prio[t] = InitPrio[t]
         /\ mx[m].owner = NoThread
<1>1. k' = ClearError(k, t) /\ mx' = Owned(k, t, m) /\ MayBlock(t) /\ mx[m].owner # t /\ mx[m].value > 0
  BY DEF TakeFree, MayCall
<1>2. at[t] \notin Taking /\ mx \in [Mutexes -> MutexState]
  BY <1>1, CallerClears, MInductiveParts DEF Taking
<1>3. mx[m] \in MutexState /\ MutexSound(m) /\ t # NoThread
  BY <1>2, CallerHolds
<1>4. mx[m].owner = NoThread /\ k.wl[m] = << >>
  BY <1>1, <1>3 DEF MutexSound, MutexState
<1>5. k'.prio = k.prio /\ k'.wl = k.wl
  BY <1>1, MInductiveParts DEF ClearError, KernelState
<1>6. \A n \in Mutexes : mx[n].owner # t
  BY <1>1 DEF OneMutex
<1>7. k.prio[t] = InitPrio[t]
  BY <1>6 DEF PriorityRestored
<1>8. mx'[m].owner = t /\ mx'[m].orig = k.prio[t]
  BY <1>1, <1>2 DEF Owned
<1> QED BY <1>3, <1>4, <1>5, <1>7, <1>8

(* The owner alone runs above its own priority, whatever comes next.       *)
LEMMA PNextKeeps ==
  ASSUME OneMutex, PInductive, [MNext]_mvars
  PROVE  PInductive' \/ Interrupted'
<1>1. MInductive /\ PriorityRestored /\ OrigKept
  BY DEF PInductive
<1>2. ASSUME Calm(k', k), SameOwners  PROVE PriorityRestored' /\ OrigKept'
  BY <1>1, <1>2 DEF Calm, SameOwners, PriorityRestored, OrigKept
<1>3. ASSUME NEW t \in Thread, NEW m \in Mutexes, TakeFree(t, m)  PROVE PriorityRestored' /\ OrigKept'
  <2>1. /\ k'.prio = k.prio /\ mx'[m].owner = t /\ mx'[m].orig = InitPrio[t]
        /\ mx[m].owner = NoThread
    BY <1>1, <1>3, TakeFreePrio
  <2>2. \A n \in Mutexes : n = m
    BY DEF OneMutex
  <2>3. \A x \in Thread : k.prio[x] = InitPrio[x]
    BY <1>1, <2>1, <2>2, MutexAssumption DEF PriorityRestored
  <2> QED BY <2>1, <2>2, <2>3 DEF PriorityRestored, OrigKept
<1>4. ASSUME NEW t \in Thread, NEW m \in Mutexes, NEW tmo \in BOOLEAN, TakeWaits(t, m, tmo)
      PROVE  PriorityRestored' /\ OrigKept'
  <2>1. mx' = mx /\ \A x \in Thread : x # mx[m].owner => k'.prio[x] = k.prio[x]
    BY <1>1, <1>4, TakeWaitsPrio
  <2> QED BY <1>1, <2>1 DEF PriorityRestored, OrigKept
<1>5. ASSUME NEW t \in Thread, NEW m \in Mutexes, ReleaseLast(t, m)  PROVE PriorityRestored' /\ OrigKept'
  <2>1. /\ mx[m].owner = t /\ k'.prio[t] = InitPrio[t]
        /\ \A x \in Thread : x # t => k'.prio[x] = k.prio[x]
        /\ \/ mx'[m].owner = NoThread
           \/ \E w \in Thread : mx'[m].owner = w /\ mx'[m].orig = InitPrio[w]
    BY <1>1, <1>5, ReleaseLastPrio
  <2>2. \A n \in Mutexes : n = m
    BY DEF OneMutex
  <2>3. ASSUME NEW x \in Thread  PROVE k'.prio[x] = InitPrio[x]
    <3>1. CASE x = t
      BY <2>1, <3>1
    <3>2. CASE x # t
      <4>1. k.prio[x] = InitPrio[x]
        BY <1>1, <2>1, <2>2, <3>2 DEF PriorityRestored
      <4> QED BY <2>1, <3>2, <4>1
    <3> QED BY <3>1, <3>2
  <2>4. OrigKept'
    BY <2>1, <2>2 DEF OrigKept
  <2> QED BY <2>3, <2>4 DEF PriorityRestored
<1>6. PriorityRestored' /\ OrigKept'
  BY <1>1, <1>2, <1>3, <1>4, <1>5, MostStepsCalm
<1> QED BY <1>1, <1>6, MNextKeeps DEF PInductive

(* Nor does a thread ever wait for an owner of a lower priority.           *)
LEMMA ONextKeeps ==
  ASSUME OneMutex, MFlag = "prio", OInductive, [MNext]_mvars
  PROVE  OInductive' \/ Interrupted'
<1> DEFINE Goal == \A n \in Mutexes : /\ Ordered(k'.wl[n])
                                     /\ \A x \in Range(k'.wl[n]) : k'.prio[mx'[n].owner] <= InitPrio[x]
<1>1. /\ PInductive /\ MInductive /\ PriorityRestored /\ OrigKept
      /\ \A n \in Mutexes : /\ Ordered(k.wl[n])
                            /\ \A x \in Range(k.wl[n]) : k.prio[mx[n].owner] <= InitPrio[x]
  BY DEF OInductive, PInductive
<1>2. \A l \in WaitList : Ordered(k.wl[l])
  BY <1>1 DEF Mutexes
<1>3. /\ k \in KernelState /\ \A x \in Thread : k.prio[x] \in Nat /\ InitPrio[x] \in Nat
  <2>1. \A x \in Thread : k.prio[x] \in Prio /\ InitPrio[x] \in Prio
    BY <1>1, MInductiveParts, KernelAssumption DEF KernelState
  <2> QED BY <1>1, <2>1, MInductiveParts, KernelAssumption DEF Prio
<1>4. \A n \in Mutexes : \A x \in Range(k.wl[n]) : x \in Thread
  BY <1>1, WaiterUnraised
<1>5. ASSUME Calm(k', k), SameOwners  PROVE Goal
  BY <1>1, <1>5 DEF Calm, SameOwners, Mutexes
<1>6. ASSUME NEW t \in Thread, NEW m \in Mutexes, TakeFree(t, m)  PROVE Goal
  <2>1. k'.wl = k.wl /\ k.wl[m] = << >>
    BY <1>1, <1>6, TakeFreePrio
  <2>2. \A n \in Mutexes : n = m
    BY DEF OneMutex
  <2>3. \A x : x \notin Range(k.wl[m])
    <3>1. << >> \in Seq(Thread)
      OBVIOUS
    <3> QED BY <2>1, <3>1, EmptyRange
  <2> QED BY <1>1, <2>1, <2>2, <2>3
<1>7. ASSUME NEW t \in Thread, NEW m \in Mutexes, NEW tmo \in BOOLEAN, TakeWaits(t, m, tmo)  PROVE Goal
  <2>1. /\ mx' = mx /\ k.prio[t] = InitPrio[t] /\ mx[m].owner \in Thread
        /\ k'.prio[mx[m].owner] <= k.prio[mx[m].owner] /\ k'.prio[mx[m].owner] <= k.prio[t]
        /\ \A n \in Mutexes : \A x \in Range(k'.wl[n]) : x = t \/ x \in Range(k.wl[n])
        /\ \A l \in WaitList : Ordered(k'.wl[l])
    BY <1>1, <1>2, <1>7, TakeWaitsPrio
  <2>2. k'.prio[mx[m].owner] \in Nat
    <3>1. MInductive'
      BY <1>1, <1>7, TakeWaitsKeeps
    <3>2. k' \in KernelState
      BY <3>1 DEF MInductive, MTypeOK
    <3>3. k'.prio[mx[m].owner] \in Prio
      BY <2>1, <3>2 DEF KernelState
    <3> QED BY <3>3, KernelAssumption DEF Prio
  <2>3. ASSUME NEW n \in Mutexes, NEW x \in Range(k'.wl[n])  PROVE k'.prio[mx'[n].owner] <= InitPrio[x]
    <3>1. n = m
      BY DEF OneMutex
    <3>2. CASE x = t
      BY <2>1, <3>1, <3>2
    <3>3. CASE x \in Range(k.wl[n])
      <4>1. k.prio[mx[m].owner] <= InitPrio[x] /\ x \in Thread
        BY <1>1, <1>4, <3>1, <3>3
      <4>2. k.prio[mx[m].owner] \in Nat /\ InitPrio[x] \in Nat
        BY <1>3, <2>1, <4>1
      <4> QED BY <2>1, <2>2, <3>1, <4>1, <4>2
    <3> QED BY <2>1, <3>2, <3>3
  <2> QED BY <2>1, <2>3 DEF Mutexes
<1>8. ASSUME NEW t \in Thread, NEW m \in Mutexes, ReleaseLast(t, m)  PROVE Goal
  <2>1. /\ \A l \in WaitList : Ordered(k.wl[l]) => Ordered(k'.wl[l])
        /\ \/ mx'[m].owner = NoThread /\ k'.wl[m] = << >>
           \/ \E w \in Thread :
                /\ mx'[m].owner = w /\ mx'[m].orig = InitPrio[w] /\ k'.prio[w] = InitPrio[w]
                /\ Ordered(k.wl[m]) => \A x \in Range(k'.wl[m]) : InitPrio[w] <= InitPrio[x]
    BY <1>1, <1>8, ReleaseLastPrio
  <2>2. \A n \in Mutexes : n = m
    BY DEF OneMutex
  <2>3. CASE k'.wl[m] = << >>
    <3>1. << >> \in Seq(Thread)
      OBVIOUS
    <3>2. \A x : x \notin Range(k'.wl[m])
      BY <2>3, <3>1, EmptyRange
    <3> QED BY <1>2, <2>1, <2>2, <3>2 DEF Mutexes
  <2>4. CASE k'.wl[m] # << >>
    <3>1. \A x \in Range(k'.wl[m]) : k'.prio[mx'[m].owner] <= InitPrio[x]
      BY <1>1, <2>1, <2>4
    <3> QED BY <1>2, <2>1, <2>2, <3>1 DEF Mutexes
  <2> QED BY <2>3, <2>4
<1>9. Goal
  BY <1>1, <1>5, <1>6, <1>7, <1>8, MostStepsCalm
<1>10. PInductive' \/ Interrupted'
  BY <1>1, PNextKeeps
<1> QED BY <1>9, <1>10 DEF OInductive

(* At the start nobody waits and nobody is raised.                         *)
LEMMA MInitPriorities ==
  ASSUME MInit
  PROVE  OInductive
<1>1. PICK r \in BootQueues(Thread) : k = FirstSwitch(Started(Thread, r))
  BY DEF MInit, KernelInit
<1>2. k.prio = InitPrio /\ \A m \in Mutexes : k.wl[m] = << >>
  <2>1. Thread \in SUBSET Thread /\ Idle \in Thread /\ IsFiniteSet(Thread)
    BY KernelAssumption, MutexAssumption
  <2>2. Top(k) /\ k.prio = InitPrio
    BY <1>1, <2>1, BootTop
  <2>3. /\ Wf(k, Thread) /\ OneRuns(k) /\ k.stat[k.cur] = "running" /\ k.nest = 0
        /\ k.err = [t \in Thread |-> "EOK"] /\ \A m \in Mutexes : k.wl[m] = << >>
    BY <1>1, <2>1, BootWf DEF Mutexes
  <2> QED BY <2>2, <2>3
<1>3. MInductive
  BY MInitInductive
<1>4. PriorityRestored /\ OrigKept
  BY <1>2 DEF PriorityRestored, OrigKept, MInit, FreeMutex
<1>5. ASSUME NEW m \in Mutexes
      PROVE  Ordered(k.wl[m]) /\ \A w \in Range(k.wl[m]) : k.prio[mx[m].owner] <= InitPrio[w]
  <2>1. k.wl[m] = << >> /\ << >> \in Seq(Thread) /\ DOMAIN << >> = {}
    BY <1>2
  <2>2. \A x : x \notin Range(k.wl[m])
    BY <2>1, EmptyRange
  <2> QED BY <2>1, <2>2 DEF Ordered
<1> QED BY <1>3, <1>4, <1>5 DEF OInductive, PInductive

(***************************************************************************)
(* The theorems, for any number of threads, priorities and mutexes.        *)
(***************************************************************************)
(* A signal is handled once and for all.                                   *)
LEMMA StaysInterrupted ==
  ASSUME sig \in [Thread -> {"due", "pending", "handled"}], [MNext]_mvars
  PROVE  /\ sig' \in [Thread -> {"due", "pending", "handled"}]
         /\ Interrupted => Interrupted'
<1>1. \/ sig' = sig
      \/ \E t \in Thread :
           \/ sig' = [sig EXCEPT ![t] = IF @ = "pending" THEN "handled" ELSE @]
           \/ sig[t] = "due" /\ sig' = [sig EXCEPT ![t] = "pending"]
  <2>1. ASSUME NEW t \in Thread, Begin(t)  PROVE sig' = sig
    BY <2>1 DEF Begin, TakeAgain, TakeFree, TakeFails, TakeWaits, ReleaseFails, Delete, Release,
                ReleaseOne, ReleaseLast
  <2>2. ASSUME NEW t \in Thread, Proceed(t)
        PROVE  sig' = sig \/ sig' = [sig EXCEPT ![t] = IF @ = "pending" THEN "handled" ELSE @]
    BY <2>2 DEF Proceed, TakeSchedule, Taken, AgainTest, AgainReload, AgainTake, AgainWrite, AgainWait,
                AgainQueue, AgainKernel, NullOwner, ReleaseSchedule, DeleteTest, DeleteResume
  <2> QED BY <2>1, <2>2 DEF MNext, Tick, Signal, mvars
<1>2. Signalled \subseteq Thread
  BY MutexAssumption
<1>3. ASSUME NEW t \in Signalled, sig[t] = "handled"  PROVE sig'[t] = "handled"
  BY <1>1, <1>2, <1>3
<1> QED BY <1>1, <1>3 DEF Interrupted

(* The invariant holds, whatever the order of takes, releases, timeouts,   *)
(* sleeps, deletions, clock interrupts and signals, up to the first wait   *)
(* that a signal has interrupted.                                          *)
THEOREM MInductiveHolds == MSpec => [](MInductive \/ Interrupted)
<1> DEFINE Typed == sig \in [Thread -> {"due", "pending", "handled"}]
           Inv   == Typed /\ (MInductive \/ Interrupted)
<1>1. MInit => Inv
  BY MInitInductive DEF MInductive, MTypeOK
<1>2. Inv /\ [MNext]_mvars => Inv'
  <2> SUFFICES ASSUME Inv, [MNext]_mvars  PROVE Inv'
    OBVIOUS
  <2>1. Typed' /\ (Interrupted => Interrupted')
    BY StaysInterrupted
  <2>2. MInductive => MInductive' \/ Interrupted'
    BY MNextKeeps
  <2> QED BY <2>1, <2>2
<1>3. Inv => MInductive \/ Interrupted
  OBVIOUS
<1> QED BY <1>1, <1>2, <1>3, PTL DEF MSpec

(* Up to that, a signal that is on its way changes nothing: the kernel is  *)
(* exact, the mutexes are exclusive, none is free while a thread waits,    *)
(* and results are true.                                                   *)
THEOREM SoundBeforeInterruption == MSpec => []SoundUntilInterrupted
<1>1. ASSUME MInductive, NEW t \in Thread, NEW m \in Mutexes, took[t][m] > 0
      PROVE  mx[m].owner = t /\ took[t][m] = mx[m].hold
  BY <1>1 DEF MInductive, HoldsKnown
<1>2. MInductive => MutualExclusion
  BY <1>1 DEF MutualExclusion
<1>3. MInductive => NoLostWakeup
  BY DEF MInductive, MutexSound, NoLostWakeup
<1>4. MInductive => ResultIsTrue
  BY DEF MInductive, ResultKnown, ResultIsTrue, Taking
<1>5. MInductive => KernelStaysExact
  BY DEF MInductive, KernelRuns, Wf, KernelStaysExact
<1>6. MInductive \/ Interrupted => SoundUntilInterrupted
  BY <1>2, <1>3, <1>4, <1>5 DEF Interrupted, SoundUntilInterrupted
<1> QED BY <1>6, MInductiveHolds, PTL

(* Without signals it holds throughout, and so do the promises.            *)
THEOREM UninterruptedHolds ==
  ASSUME Uninterrupted
  PROVE  MSpec => []MInductive
<1>1. MInductive \/ Interrupted => MInductive
  BY DEF Uninterrupted, Interrupted
<1> QED BY <1>1, MInductiveHolds, PTL

(* The variables keep their types: the value of a mutex stays binary, and  *)
(* the priority a release restores is one that a thread can have.          *)
THEOREM MutexTypeCorrect ==
  ASSUME Uninterrupted
  PROVE  MSpec => []MTypeOK
<1>1. MInductive => MTypeOK
  BY DEF MInductive
<1> QED BY <1>1, UninterruptedHolds, PTL

(* Mutual exclusion: a thread whose takes have returned RT_EOK more often  *)
(* than it has released is the owner, and the hold count is that number.   *)
THEOREM MutexExcludes ==
  ASSUME Uninterrupted
  PROVE  MSpec => []MutualExclusion
<1>1. ASSUME MInductive, NEW t \in Thread, NEW m \in Mutexes, took[t][m] > 0
      PROVE  mx[m].owner = t /\ took[t][m] = mx[m].hold
  BY <1>1 DEF MInductive, HoldsKnown
<1>2. MInductive => MutualExclusion
  BY <1>1 DEF MutualExclusion
<1> QED BY <1>2, UninterruptedHolds, PTL

(* No wake-up is lost: a mutex that threads wait for has an owner, which   *)
(* hands it over in the step that takes the first of them off the list.    *)
THEOREM NoWakeupIsLost ==
  ASSUME Uninterrupted
  PROVE  MSpec => []NoLostWakeup
<1>1. MInductive => NoLostWakeup
  BY DEF MInductive, MutexSound, NoLostWakeup
<1> QED BY <1>1, UninterruptedHolds, PTL

(* rt_mutex_take reports the truth: RT_EOK to the owner and to nobody else,*)
(* whichever of timeout, handover and deletion came first.                 *)
THEOREM TakeReportsTruth ==
  ASSUME Uninterrupted
  PROVE  MSpec => []ResultIsTrue
<1>1. MInductive => ResultIsTrue
  BY DEF MInductive, ResultKnown, ResultIsTrue, Taking
<1> QED BY <1>1, UninterruptedHolds, PTL

(* rt_mutex_delete leaves nobody behind in the list of the mutex it frees. *)
THEOREM DeleteEmptiesList ==
  ASSUME Uninterrupted
  PROVE  MSpec => []DeletedLetsGo
<1>1. MInductive => DeletedLetsGo
  BY DEF MInductive, MutexSound, DeletedLetsGo, Deleting
<1> QED BY <1>1, UninterruptedHolds, PTL

(* Under the mutexes, the queues, wait lists and timers of the kernel stay *)
(* exact.                                                                  *)
THEOREM MutexKernelExact ==
  ASSUME Uninterrupted
  PROVE  MSpec => []KernelStaysExact
<1>1. MInductive => KernelStaysExact
  BY DEF MInductive, KernelRuns, Wf, KernelStaysExact
<1> QED BY <1>1, UninterruptedHolds, PTL
(* A raised priority does not outlive the mutex it was raised for: with one*)
(* mutex and no signals, a thread that does not own it runs at its own.    *)
THEOREM PriorityIsRestored ==
  ASSUME Uninterrupted, OneMutex
  PROVE  MSpec => []PriorityRestored
<1>1. MInit => PInductive
  BY MInitPriorities DEF OInductive
<1>2. PInductive /\ [MNext]_mvars => PInductive'
  BY PNextKeeps DEF Uninterrupted, Interrupted
<1>3. PInductive => PriorityRestored
  BY DEF PInductive
<1> QED BY <1>1, <1>2, <1>3, PTL DEF MSpec

(* And if it queues by priority, no thread waits for an owner that runs at *)
(* a lower priority: each wait raises the owner, and a release hands the   *)
(* mutex to a waiter that none of the others is above.                     *)
THEOREM OwnerIsRaised ==
  ASSUME Uninterrupted, OneMutex, MFlag = "prio"
  PROVE  MSpec => []OwnerInherits
<1>1. MInit => OInductive
  BY MInitPriorities
<1>2. OInductive /\ [MNext]_mvars => OInductive'
  BY ONextKeeps DEF Uninterrupted, Interrupted
<1>3. ASSUME OInductive, NEW m \in Mutexes, NEW w \in Range(k.wl[m])
      PROVE  k.prio[mx[m].owner] <= k.prio[w]
  <2>1. k.prio[w] = InitPrio[w]
    BY <1>3, WaiterUnraised DEF OInductive, PInductive
  <2> QED BY <1>3, <2>1 DEF OInductive
<1>4. OInductive => OwnerInherits
  BY <1>3 DEF OwnerInherits
<1> QED BY <1>1, <1>2, <1>4, PTL DEF MSpec
=============================================================================
