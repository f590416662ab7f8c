------------------------------- MODULE Mutex --------------------------------
(***************************************************************************)
(* The mutexes of src/src/ipc.c: ownership, recursive holds, waiting with  *)
(* and without a timeout, direct handover to the first waiter, and the     *)
(* raising of the owner's priority to that of a thread that has to wait.   *)
(*                                                                         *)
(* Threads take, release and sleep in any order.  A signal may interrupt   *)
(* a wait: rt_schedule then runs the handler on its way back and leaves    *)
(* -RT_EINTR in thread->error, on which rt_mutex_take jumps back to        *)
(* "__again", past the line that clears the error and with interrupts      *)
(* enabled.                                                                *)
(***************************************************************************)
EXTENDS Kernel

CONSTANTS MFlag,        \* the queueing flag of the mutexes
          NoThread,     \* owner = RT_NULL
          HoldMax,      \* bound: recursive holds of one thread on one mutex
          Uses,         \* what threads call besides take for ever and release
          Signalled,    \* the threads that get a signal, once each
          Deletable     \* the mutexes the program deletes, once

(* Uses: "sleep", rt_thread_sleep; "timed", a take with a timeout; "try",  *)
(* one that does not wait; "wrong", a release of a mutex not owned.        *)
ASSUME MutexAssumption ==
  /\ MFlag \in Flag
  /\ Uses \subseteq {"sleep", "timed", "try", "wrong"}
  /\ IsFiniteSet(Thread) /\ NoThread \notin Thread /\ WaitList # {}
  /\ HoldMax \in Nat \ {0}
  /\ Signalled \subseteq Thread
  /\ Deletable \subseteq WaitList

(* The wait lists are those of the mutexes.                                *)
Mutexes == WaitList

VARIABLES mx,       \* the mutex objects
          call,     \* call[t]: the mutex t's call in progress is about
          timed,    \* timed[t]: that call has a timeout
          took,     \* took[t][m]: takes of t that returned RT_EOK, less releases
          sig,      \* sig[t]: the signal t will get, has pending, or has had
          seen      \* seen[t]: what t has read of the mutex since __again

mvars == <<k, at, mx, call, timed, took, sig, seen>>

MutexState == [value : 0 .. 1, owner : Thread \cup {NoThread},
               orig : Prio \cup {255}, hold : 0 .. HoldMax, alive : BOOLEAN]

(* A count and an owner that a thread may have read.                       *)
Readings == [count : 0 .. 65535, owner : Thread \cup {NoThread}]

(* Available, as rt_mutex_init leaves it.                                  *)
FreeMutex == [value |-> 1, owner |-> NoThread, orig |-> 255, hold |-> 0, alive |-> TRUE]

RetryLabel == {"again", "againValue", "againOwner", "againPriority", "againHold", "againHeld",
               "againWait", "againRaise", "againSuspend", "againInsert", "againTimer"}

MutexLabel == {"run", "asleep", "awake", "takeSchedule", "taken", "fault",
               "releaseSchedule", "deleteTest", "deleteResume"} \cup RetryLabel

Return(t) == Goto(t, "run")

(* A thread may not use a mutex that another one has begun to delete.      *)
MayCall(t, m) == MayBlock(t) /\ mx[m].alive

(***************************************************************************)
(* rt_mutex_take.                                                          *)
(***************************************************************************)
(* Faulty variant: the mutex still counts as available.                    *)
OwnedKeepValue(q, t, m) ==
  [mx EXCEPT ![m].owner = t, ![m].orig = q.prio[t], ![m].hold = @ + 1]

Owned(q, t, m) ==
  [mx EXCEPT ![m] = [value |-> (mx[m].value - 1) % 65536, owner |-> t, orig |-> q.prio[t],
                     hold |-> mx[m].hold + 1, alive |-> mx[m].alive]]

(* Faulty variant: no inheritance.                                         *)
RaiseNobody(q, t, m) == q

(* The owner gets the priority of a caller above it.                       *)
RaiseOwner(q, t, m) ==
  IF mx[m].owner # NoThread /\ q.prio[t] < q.prio[mx[m].owner] THEN SetPriority(q, mx[m].owner, q.prio[t]) ELSE q

(* The caller queues up; its timer starts if the wait is timed.            *)
Enqueue(q, t, m, tmo) ==
  LET u == SuspendOn(RaiseOwner(q, t, m), t, m, MFlag)
  IN  IF tmo THEN StartTimer(u, t) ELSE u

TakeAgain(t, m) ==
  /\ MayCall(t, m) /\ mx[m].owner = t /\ mx[m].hold < HoldMax
  /\ k' = ClearError(k, t)
  /\ mx' = [mx EXCEPT ![m].hold = @ + 1]
  /\ took' = [took EXCEPT ![t][m] = @ + 1]
  /\ UNCHANGED <<at, call, timed, sig, seen>>

TakeFree(t, m) ==
  /\ MayCall(t, m) /\ mx[m].owner # t /\ mx[m].value > 0 /\ mx[m].hold < HoldMax
  /\ k' = ClearError(k, t)
  /\ mx' = Owned(k, t, m)
  /\ took' = [took EXCEPT ![t][m] = @ + 1]
  /\ UNCHANGED <<at, call, timed, sig, seen>>

TakeFails(t, m) ==
  /\ "try" \in Uses /\ MayCall(t, m) /\ mx[m].owner # t /\ mx[m].value = 0
  /\ k' = [k EXCEPT !.err[t] = "ETIMEOUT"]
  /\ UNCHANGED <<at, mx, call, timed, took, sig, seen>>

TakeWaits(t, m, tmo) ==
  /\ MayCall(t, m) /\ mx[m].owner # t /\ mx[m].value = 0
  /\ tmo => "timed" \in Uses
  /\ k' = Enqueue(ClearError(k, t), t, m, tmo)
  /\ Goto(t, "takeSchedule")
  /\ call' = [call EXCEPT ![t] = m]
  /\ timed' = [timed EXCEPT ![t] = tmo]
  /\ UNCHANGED <<mx, took, sig, seen>>

TakeSchedule(t) ==
  ScheduleStep(t, "takeSchedule", "taken") /\ UNCHANGED <<mx, call, timed, took, sig, seen>>

(* Back from rt_schedule, where a pending signal is handled first.         *)
WokenWith(t) == IF sig[t] = "pending" THEN "EINTR" ELSE k.err[t]

Taken(t) ==
  /\ At(t, "taken")
  /\ k' = [k EXCEPT !.err[t] = WokenWith(t)]
  /\ sig' = [sig EXCEPT ![t] = IF @ = "pending" THEN "handled" ELSE @]
  /\ took' = IF WokenWith(t) = "EOK" THEN [took EXCEPT ![t][call[t]] = @ + 1] ELSE took
  /\ Goto(t, IF WokenWith(t) = "EINTR" THEN "again" ELSE "run")
  /\ UNCHANGED <<mx, call, timed, seen>>

(***************************************************************************)
(* __again: interrupts are enabled now, so every access to a field of the  *)
(* mutex is a step, an increment is a read and a write, and the calls that *)
(* queue the thread are a step for each region they lock and one for the   *)
(* list they link without a lock.                                          *)
(***************************************************************************)
SeenCount(t, n) == seen' = [seen EXCEPT ![t].count = n]
SeenOwner(t, o) == seen' = [seen EXCEPT ![t].owner = o]

AgainTest(t) ==
  /\ At(t, "again")
  /\ SeenCount(t, mx[call[t]].value)
  /\ Goto(t, IF mx[call[t]].value > 0 THEN "againValue" ELSE "againWait")
  /\ UNCHANGED <<k, mx, call, timed, took, sig>>

(* Nothing makes the compiler read a field once or twice where the source  *)
(* names it twice.                                                         *)
AgainReload(t) ==
  /\ \/ At(t, "againValue") /\ SeenCount(t, mx[call[t]].value)
     \/ At(t, "againRaise") /\ SeenOwner(t, mx[call[t]].owner)
  /\ UNCHANGED <<k, at, mx, call, timed, took, sig>>

(* One field of the mutex is written.                                      *)
AgainWrite(t, from, to, m) ==
  /\ At(t, from) /\ Goto(t, to)
  /\ mx' = [mx EXCEPT ![call[t]] = m]
  /\ UNCHANGED <<k, call, timed, sig>>

AgainTake(t) ==
  LET m == mx[call[t]]
  IN  \/ /\ \/ AgainWrite(t, "againValue", "againOwner", [m EXCEPT !.value = (seen[t].count - 1) % 65536])
            \/ AgainWrite(t, "againOwner", "againPriority", [m EXCEPT !.owner = t])
            \/ AgainWrite(t, "againPriority", "againHold", [m EXCEPT !.orig = k.prio[t]])
         /\ UNCHANGED <<took, seen>>
      \/ /\ AgainWrite(t, "againHold", "againHeld", m)
         /\ SeenCount(t, m.hold) /\ UNCHANGED took
      \/ /\ AgainWrite(t, "againHeld", "run", [m EXCEPT !.hold = (seen[t].count + 1) % 256])
         /\ took' = [took EXCEPT ![t][call[t]] = @ + 1] /\ UNCHANGED seen

AgainWait(t) ==
  /\ At(t, "againWait")
  /\ LET o == mx[call[t]].owner
     IN  /\ o # NoThread
         /\ SeenOwner(t, o)
         /\ Goto(t, IF k.prio[t] < k.prio[o] THEN "againRaise" ELSE "againSuspend")
  /\ UNCHANGED <<k, mx, call, timed, took, sig>>

(* A region of the kernel.                                                 *)
AgainKernel(t, from, to, q) ==
  /\ At(t, from) /\ Goto(t, to) /\ k' = q
  /\ UNCHANGED <<mx, call, timed, took, sig, seen>>

AgainQueue(t) ==
  \/ /\ seen[t].owner # NoThread
     /\ AgainKernel(t, "againRaise", "againSuspend", SetPriority(k, seen[t].owner, k.prio[t]))
  \/ AgainKernel(t, "againSuspend", "againInsert", Suspend(k, t))
  \/ AgainKernel(t, "againInsert", IF timed[t] THEN "againTimer" ELSE "takeSchedule",
                  [k EXCEPT !.wl[call[t]] = InsertAt(@, WaitPos(k, t, @, MFlag), t)])
  \/ AgainKernel(t, "againTimer", "takeSchedule", StartTimer(k, t))

(* A mutex that is taken and has no owner, after a race at __again: what   *)
(* rt_mutex_take compares with the caller's priority is then the byte at   *)
(* the null pointer.  A byte that is not a lower priority lets the caller  *)
(* wait; a lower one fails the assertion of rt_thread_control, as a null   *)
(* owner read again for that call does.                                    *)
NullOwner(t, m) ==
  /\ \/ /\ mx[m].owner = NoThread
        /\ \/ MayCall(t, m) /\ mx[m].value = 0 /\ Goto(t, "fault")
           \/ At(t, "againWait") /\ call[t] = m /\ \E a \in {"againSuspend", "fault"} : Goto(t, a)
     \/ At(t, "againRaise") /\ call[t] = m /\ seen[t].owner = NoThread /\ Goto(t, "fault")
  /\ UNCHANGED <<k, mx, call, timed, took, sig, seen>>

(***************************************************************************)
(* rt_mutex_release.                                                       *)
(***************************************************************************)
ReleaseFails(t, m) ==
  /\ "wrong" \in Uses /\ MayCall(t, m) /\ mx[m].owner # t
  /\ k' = [k EXCEPT !.err[t] = "ERROR"]
  /\ UNCHANGED <<at, mx, call, timed, took, sig, seen>>

(* Faulty variant: any thread may release.                                 *)
ReleaseOneAny(t, m) ==
  /\ MayCall(t, m) /\ mx[m].hold > 1
  /\ mx' = [mx EXCEPT ![m].hold = @ - 1]
  /\ took' = [took EXCEPT ![t][m] = @ - 1]
  /\ UNCHANGED <<k, at, call, timed, sig, seen>>

ReleaseOne(t, m) ==
  /\ MayCall(t, m) /\ mx[m].owner = t /\ mx[m].hold > 1
  /\ mx' = [mx EXCEPT ![m].hold = @ - 1]
  /\ took' = [took EXCEPT ![t][m] = @ - 1]
  /\ UNCHANGED <<k, at, call, timed, sig, seen>>

(* Faulty variant: the raised priority stays.                              *)
KeepPriority(q, t, m) == q

RestorePriority(q, t, m) ==
  IF mx[m].orig # q.prio[t] THEN SetPriority(q, t, mx[m].orig) ELSE q

(* Faulty variant: the mutex becomes free whoever waits.                   *)
ReleasedToNobody(q, m) == [mx EXCEPT ![m] = FreeMutex]

(* The last release gives the mutex to the first waiter, or frees it.      *)
Released(q, m) ==
  IF q.wl[m] = << >>
    THEN [mx EXCEPT ![m] = [value |-> (mx[m].value + 1) % 65536, owner |-> NoThread, orig |-> 255,
                            hold |-> mx[m].hold - 1, alive |-> mx[m].alive]]
    ELSE [mx EXCEPT ![m] = [mx[m] EXCEPT !.owner = Head(q.wl[m]), !.orig = q.prio[Head(q.wl[m])]]]

ReleaseLast(t, m) ==
  /\ MayCall(t, m) /\ mx[m].owner = t /\ mx[m].hold = 1
  /\ LET q == RestorePriority(k, t, m)
     IN  /\ k' = IF q.wl[m] = << >> THEN q ELSE ResumeFirst(q, m)
         /\ mx' = Released(q, m)
  /\ Goto(t, IF k.wl[m] = << >> THEN "run" ELSE "releaseSchedule")
  /\ took' = [took EXCEPT ![t][m] = @ - 1]
  /\ UNCHANGED <<call, timed, sig, seen>>

ReleaseSchedule(t) ==
  ScheduleStep(t, "releaseSchedule", "run") /\ UNCHANGED <<mx, call, timed, took, sig, seen>>

(***************************************************************************)
(* rt_mutex_delete: the waiters are let go one region at a time, and there *)
(* is no rt_schedule at the end.  The list is tested outside the region:   *)
(* if the timeout of the last waiter empties it in between, its head is    *)
(* taken for a thread, and what happens then is undefined.                 *)
(***************************************************************************)
Delete(t, m) ==
  /\ MayCall(t, m) /\ m \in Deletable
  /\ mx' = [mx EXCEPT ![m].alive = FALSE]
  /\ Goto(t, "deleteTest")
  /\ call' = [call EXCEPT ![t] = m]
  /\ UNCHANGED <<k, timed, took, sig, seen>>

DeleteTest(t) ==
  /\ At(t, "deleteTest")
  /\ Goto(t, IF k.wl[call[t]] = << >> THEN "run" ELSE "deleteResume")
  /\ UNCHANGED <<k, mx, call, timed, took, sig, seen>>

LetGo(w) == Resume([k EXCEPT !.err[w] = "ERROR"], w)

(* Faulty variant: only the first waiter is let go.                        *)
DeleteResumeOne(t) ==
  LET l == k.wl[call[t]]
  IN  /\ At(t, "deleteResume")
      /\ IF l = << >> THEN Goto(t, "fault") /\ UNCHANGED k
                      ELSE k' = LetGo(Head(l)) /\ Return(t)
      /\ UNCHANGED <<mx, call, timed, took, sig, seen>>

DeleteResume(t) ==
  LET l == k.wl[call[t]]
  IN  /\ At(t, "deleteResume")
      /\ IF l = << >> THEN Goto(t, "fault") /\ UNCHANGED k
                      ELSE k' = LetGo(Head(l)) /\ Goto(t, "deleteTest")
      /\ UNCHANGED <<mx, call, timed, took, sig, seen>>

(***************************************************************************)
(* A signal for a thread that waits in rt_mutex_take: _signal_deliver      *)
(* wakes it if it is suspended; if it is ready already, the handler runs   *)
(* before the thread returns from rt_schedule all the same.                *)
(***************************************************************************)
Signal(t) ==
  /\ sig[t] = "due" /\ at[t] = "taken" /\ t # k.cur
  /\ k.stat[t] \in {"suspend", "ready"}
  /\ k' = Schedule(Resume(k, t))
  /\ sig' = [sig EXCEPT ![t] = "pending"]
  /\ UNCHANGED <<at, mx, call, timed, took, seen>>

(***************************************************************************)
(* The specification.                                                      *)
(***************************************************************************)
MInit ==
  /\ KernelInit(Thread)
  /\ mx = [m \in Mutexes |-> FreeMutex]
  /\ call \in [Thread -> {CHOOSE m \in Mutexes : TRUE}]
  /\ timed = [t \in Thread |-> FALSE]
  /\ took = [t \in Thread |-> [m \in Mutexes |-> 0]]
  /\ sig = [t \in Thread |-> IF t \in Signalled THEN "due" ELSE "handled"]
  /\ seen = [t \in Thread |-> [count |-> 0, owner |-> NoThread]]

Proceed(t) ==
  \/ (AsleepSchedule(t) \/ WakeUp(t)) /\ UNCHANGED <<mx, call, timed, took, sig, seen>>
  \/ TakeSchedule(t) \/ Taken(t)
  \/ AgainTest(t) \/ AgainReload(t) \/ AgainTake(t) \/ AgainWait(t) \/ AgainQueue(t)
  \/ \E m \in Mutexes : NullOwner(t, m)
  \/ ReleaseSchedule(t) \/ DeleteTest(t) \/ DeleteResume(t)

Release(t) == \E m \in Mutexes : ReleaseOne(t, m) \/ ReleaseLast(t, m)

Begin(t) ==
  \/ "sleep" \in Uses /\ Sleep(t) /\ UNCHANGED <<mx, call, timed, took, sig, seen>>
  \/ \E m \in Mutexes :
       \/ TakeAgain(t, m) \/ TakeFree(t, m) \/ TakeFails(t, m)
       \/ \E tmo \in BOOLEAN : TakeWaits(t, m, tmo)
       \/ ReleaseFails(t, m) \/ Delete(t, m)
  \/ Release(t)

Tick ==
  (SliceEnd \/ \E t \in Thread : TimerExpires(t)) /\ UNCHANGED <<mx, call, timed, took, sig, seen>>

MNext == Tick \/ \E t \in Thread : Begin(t) \/ Proceed(t) \/ Signal(t)

MSpec == MInit /\ [][MNext]_mvars

(* The processor executes a call in progress, the clock interrupt comes,   *)
(* and a thread that holds a mutex releases it if it runs often enough.    *)
(* Weak fairness of the first two and strong fairness of the last, written *)
(* out with the state predicate each action is enabled under.              *)
Holding(t) == MayBlock(t) /\ \E m \in Mutexes : mx[m].alive /\ mx[m].owner = t

MFairness ==
  /\ []<>(at[k.cur] = "run") \/ []<><<\E t \in Thread : Proceed(t)>>_mvars
  /\ \A t \in Thread :
       /\ []<>(t \notin k.tmr) \/ []<><<Tick /\ t \in k.tmr /\ t \notin k'.tmr>>_mvars
       /\ <>[]~Holding(t) \/ []<><<Release(t)>>_mvars

MFairSpec == MSpec /\ MFairness

(***************************************************************************)
(* Properties.                                                             *)
(***************************************************************************)
(* Every variable has its type.                                            *)
MTypeOK ==
  /\ k \in KernelState
  /\ at \in [Thread -> MutexLabel]
  /\ mx \in [Mutexes -> MutexState]
  /\ call \in [Thread -> Mutexes]
  /\ timed \in [Thread -> BOOLEAN]
  /\ took \in [Thread -> [Mutexes -> 0 .. HoldMax]]
  /\ sig \in [Thread -> {"due", "pending", "handled"}]
  /\ seen \in [Thread -> Readings]

(* The kernel under the mutexes stays exact: raising and restoring the     *)
(* priority of an owner that is ready, running or waiting elsewhere, the   *)
(* handover, the timeout and the deletion never leave a thread in a queue  *)
(* of another priority, in two lists, or with a timer and no wait.  (The   *)
(* wait tried again after a signal does: it links its list and starts its  *)
(* timer unlocked, the latter even for a thread that runs again.)          *)
KernelStaysExact ==
  QueuesExact(k) /\ ReadyQueued(k, Thread) /\ OneList(k) /\ TimersOfSuspended(k)

(* Mutual exclusion, as the callers see it: a thread whose takes have      *)
(* returned RT_EOK more often than it released is the owner, and the hold  *)
(* count is exactly that difference.  Nobody else believes to hold it.     *)
MutualExclusion ==
  \A t \in Thread, m \in Mutexes :
    took[t][m] > 0 => mx[m].owner = t /\ took[t][m] = mx[m].hold

(* A mutex is free exactly if nobody owns it, and then nobody waits: the   *)
(* release hands it over in the step that takes the waiter off the list.   *)
NoLostWakeup ==
  \A m \in Mutexes :
    /\ mx[m].value = 1 <=> mx[m].owner = NoThread
    /\ mx[m].hold = 0 <=> mx[m].owner = NoThread
    /\ k.wl[m] # << >> /\ mx[m].alive => mx[m].owner # NoThread

(* What rt_mutex_take is about to report is the truth, whichever of the    *)
(* timeout, the handover and the deletion came first: without an error the *)
(* thread owns the mutex, with one it does not.                            *)
ResultIsTrue ==
  \A t \in Thread :
    at[t] = "taken" /\ k.stat[t] # "suspend" /\ sig[t] # "pending" =>
      (k.err[t] = "EOK" <=> mx[call[t]].owner = t)

(* Priority inheritance: the owner never runs at a lower priority than a   *)
(* thread that waits for it.                                               *)
OwnerInherits ==
  \A m \in Mutexes : \A w \in Range(k.wl[m]) :
    mx[m].alive => k.prio[mx[m].owner] <= k.prio[w]

(* A raised priority goes with the mutexes it was raised for: a thread     *)
(* that owns none runs at its own.                                         *)
PriorityRestored ==
  \A t \in Thread :
    (\A m \in Mutexes : mx[m].owner # t) => k.prio[t] = InitPrio[t]

(* rt_mutex_delete leaves no thread in the list of the mutex it frees.     *)
DeletedLetsGo ==
  \A m \in Mutexes :
    ~ mx[m].alive /\ (\A t \in Thread : at[t] \notin {"deleteTest", "deleteResume", "fault"}) =>
      k.wl[m] = << >>

(* No unbounded priority inversion: a thread of the top priority that      *)
(* waits for ever gets the mutex, however long threads of the priorities   *)
(* between it and the owner run.                                           *)
TopThread(t) == \A u \in Thread \ {t} : InitPrio[t] < InitPrio[u]

TopWaiterServed ==
  \A t \in Thread, m \in Mutexes :
    (TopThread(t) /\ t \in Range(k.wl[m]) /\ ~ timed[t]) ~> (mx[m].owner = t)

(* Up to the first wait that a signal has interrupted, a signal that is on *)
(* its way changes nothing: the kernel is exact, the mutexes are exclusive,*)
(* none is free while a thread waits for it, and results are true.         *)
SoundUntilInterrupted ==
  (\A t \in Signalled : sig[t] # "handled") =>
    KernelStaysExact /\ MutualExclusion /\ NoLostWakeup /\ ResultIsTrue
=============================================================================
