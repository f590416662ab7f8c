------------------------------- MODULE Kernel -------------------------------
(***************************************************************************)
(* The uniprocessor thread kernel of TuduOS that every blocking service is *)
(* built from: the ready queues and their priority bitmap, the running     *)
(* thread, the scheduler lock, the thread timers and the suspend/resume    *)
(* primitives (src/src/scheduler.c, thread.c, and the list helpers of      *)
(* ipc.c), in the RT_THREAD_PRIORITY_MAX <= 32, !RT_USING_SMP build.       *)
(*                                                                         *)
(* The kernel state is one record k, and a primitive is an operator from   *)
(* one such record to the next, so that a handler is written as the        *)
(* composition of the calls it makes.  What a handler does between one     *)
(* rt_hw_interrupt_disable and the matching enable is one step; where the  *)
(* code enables interrupts between two calls there are two steps, and an   *)
(* interrupt, or a thread that the interrupt switches to, may come between *)
(* them.  at[t] is the point thread t has reached in the call it is in.    *)
(***************************************************************************)
EXTENDS Naturals, FiniteSets, SequencesExt

CONSTANTS Thread,       \* the thread control blocks
          Idle,         \* the idle thread, of the lowest priority
          PrioMax,      \* RT_THREAD_PRIORITY_MAX
          InitPrio,     \* the priority each thread is created with
          WaitList      \* the suspend_thread lists of the IPC objects

Prio == 0 .. PrioMax - 1      \* 0 is the highest priority

ASSUME KernelAssumption ==
  /\ PrioMax \in Nat \ {0}
  /\ Idle \in Thread
  /\ InitPrio \in [Thread -> Prio]
  /\ InitPrio[Idle] = PrioMax - 1

VARIABLES k,        \* the kernel state, a KernelState
          at        \* at[t]: where thread t is inside the call it makes

(* thread->stat without the yield bit, which is k.yield; "free" is a       *)
(* control block that is not a kernel object.                              *)
Stat == {"free", "init", "ready", "suspend", "running", "close"}

(* thread->error *)
Err == {"EOK", "ETIMEOUT", "ERROR", "EINTR"}

KernelState ==
  [stat    : [Thread -> Stat],
   prio    : [Thread -> Prio],            \* current_priority (number_mask)
   err     : [Thread -> Err],
   yield   : SUBSET Thread,               \* RT_THREAD_STAT_YIELD is set
   rq      : [Prio -> Seq(Thread)],       \* rt_thread_priority_table
   group   : SUBSET Prio,                 \* rt_thread_ready_priority_group
   wl      : [WaitList -> Seq(Thread)],   \* the suspend lists, by tlist
   defunct : Seq(Thread),                 \* rt_thread_defunct
   tmr     : SUBSET Thread,               \* thread_timer is in the timer list
   cur     : Thread,                      \* rt_current_thread
   nest    : Nat]                         \* rt_scheduler_lock_nest

(***************************************************************************)
(* Lists.  A thread has a single list node, tlist: rt_list_remove takes it *)
(* out of whichever list links it.                                         *)
(***************************************************************************)
Unlinked(s, t) ==
  IF \E i \in DOMAIN s : s[i] = t
    THEN RemoveAt(s, CHOOSE i \in DOMAIN s : s[i] = t)
    ELSE s

Unlink(q, t) ==
  [q EXCEPT !.rq      = [p \in Prio |-> Unlinked(q.rq[p], t)],
            !.wl      = [l \in WaitList |-> Unlinked(q.wl[l], t)],
            !.defunct = Unlinked(q.defunct, t)]

(* Faulty variant: the bit is cleared whoever is left in the queue.        *)
RemoveThreadDropBit(q, t) == [Unlink(q, t) EXCEPT !.group = @ \ {q.prio[t]}]

(* rt_schedule_remove_thread: the bit of the thread's own priority is      *)
(* cleared when that queue is empty afterwards.                            *)
RemoveThread(q, t) ==
  LET u == Unlink(q, t)
  IN  IF u.rq[q.prio[t]] = << >>
        THEN [u EXCEPT !.group = @ \ {q.prio[t]}]
        ELSE u

(* rt_schedule_insert_thread: the current thread is never queued.          *)
InsertThread(q, t) ==
  IF t = q.cur
    THEN [q EXCEPT !.stat[t] = "running"]
    ELSE [q EXCEPT !.stat[t] = "ready",
                   !.rq[q.prio[t]] = Append(@, t),
                   !.group = @ \cup {q.prio[t]}]

(***************************************************************************)
(* rt_schedule.                                                            *)
(***************************************************************************)
HighestPrio(q) == CHOOSE p \in q.group : \A o \in q.group : p <= o

HighestThread(q) == Head(q.rq[HighestPrio(q)])

(* A running thread keeps the processor against a lower priority, and      *)
(* against its own as long as its yield bit is clear.                      *)
KeepsCpu(q) ==
  /\ q.stat[q.cur] = "running"
  /\ \/ q.prio[q.cur] < HighestPrio(q)
     \/ q.prio[q.cur] = HighestPrio(q) /\ q.cur \notin q.yield

(* A running thread that loses the processor goes back to its queue, with  *)
(* its yield bit clear; one that is suspended or closed does not.          *)
(* Faulty variant: put back at the head of the queue.                      *)
PutBackFirst(q) ==
  IF q.stat[q.cur] = "running"
    THEN [q EXCEPT !.stat[q.cur] = "ready",
                   !.yield = @ \ {q.cur},
                   !.rq[q.prio[q.cur]] = <<q.cur>> \o @,
                   !.group = @ \cup {q.prio[q.cur]}]
    ELSE q

PutBack(q) ==
  IF q.stat[q.cur] = "running"
    THEN [q EXCEPT !.stat[q.cur] = "ready",
                   !.yield = @ \ {q.cur},
                   !.rq[q.prio[q.cur]] = Append(@, q.cur),
                   !.group = @ \cup {q.prio[q.cur]}]
    ELSE q

SetRunning(q, t) == [RemoveThread(q, t) EXCEPT !.stat[t] = "running"]

SwitchTo(q, t) ==
  IF t = q.cur THEN SetRunning(q, t)
               ELSE [SetRunning(PutBack(q), t) EXCEPT !.cur = t]

Schedule(q) ==
  IF q.nest # 0 \/ q.group = {} THEN q
  ELSE SwitchTo(q, IF KeepsCpu(q) THEN q.cur ELSE HighestThread(q))

(***************************************************************************)
(* Suspending and resuming, as called with interrupts disabled.            *)
(***************************************************************************)
StopTimer(q, t)  == [q EXCEPT !.tmr = @ \ {t}]
StartTimer(q, t) == [q EXCEPT !.tmr = @ \cup {t}]

(* Faulty variant: only the list node is taken out, and not the bit.       *)
SuspendUnlinked(q, t) ==
  StopTimer([Unlink(q, t) EXCEPT !.stat[t] = "suspend"], t)

SuspendBody(q, t) ==
  StopTimer([RemoveThread(q, t) EXCEPT !.stat[t] = "suspend"], t)

(* rt_thread_suspend of a thread in any other state is an error return.    *)
Suspend(q, t) ==
  IF q.stat[t] \in {"ready", "running"} THEN SuspendBody(q, t) ELSE q

(* Faulty variant: the timer goes on.                                      *)
ResumeUnlinkKeepTimer(q, t) == Unlink(q, t)

ResumeUnlink(q, t) == StopTimer(Unlink(q, t), t)

Resume(q, t) ==
  IF q.stat[t] = "suspend" THEN InsertThread(ResumeUnlink(q, t), t) ELSE q

(* rt_thread_timeout, from the timer interrupt: the timer is off the list  *)
(* before its function is called.                                          *)
Timeout(q, t) ==
  Schedule(InsertThread([Unlink(StopTimer(q, t), t) EXCEPT !.err[t] = "ETIMEOUT"], t))

(* Faulty variant: the priority is changed before the thread is unqueued.  *)
SetPriorityFirst(q, t, p) ==
  IF q.stat[t] = "ready"
    THEN InsertThread(RemoveThread([q EXCEPT !.prio[t] = p], t), t)
    ELSE [q EXCEPT !.prio[t] = p]

(* RT_THREAD_CTRL_CHANGE_PRIORITY: only a ready thread changes queue; the  *)
(* place of a suspended one in a wait list stays what it was.              *)
SetPriority(q, t, p) ==
  IF q.stat[t] = "ready"
    THEN InsertThread([RemoveThread(q, t) EXCEPT !.prio[t] = p], t)
    ELSE [q EXCEPT !.prio[t] = p]

(***************************************************************************)
(* The suspend lists of the IPC objects.                                   *)
(***************************************************************************)
Flag == {"fifo", "prio"}

(* The position rt_ipc_list_suspend links the thread at: behind everybody, *)
(* or before the first waiter of a strictly lower priority.                *)
WaitPos(q, t, s, flag) ==
  IF flag = "prio" /\ \E i \in DOMAIN s : q.prio[t] < q.prio[s[i]]
    THEN CHOOSE i \in DOMAIN s : /\ q.prio[t] < q.prio[s[i]]
                                 /\ \A j \in 1 .. i - 1 : q.prio[s[j]] <= q.prio[t]
    ELSE Len(s) + 1

SuspendOn(q, t, l, flag) ==
  LET u == Suspend(q, t)
  IN  [u EXCEPT !.wl[l] = InsertAt(@, WaitPos(u, t, @, flag), t)]

ResumeFirst(q, l) == Resume(q, Head(q.wl[l]))

(* rt_ipc_list_resume_all, from the head on: every waiter leaves with      *)
(* -RT_ERROR.                                                              *)
Failing(q, t) == Resume([q EXCEPT !.err[t] = "ERROR"], t)

ResumeAll(q, l) == FoldLeft(Failing, q, q.wl[l])

(***************************************************************************)
(* The state rt_system_scheduler_start leaves, when the threads of the set *)
(* up have been started, in any order, and the others only initialized:    *)
(* the first of the highest priority runs, the rest wait in their queues.  *)
(***************************************************************************)
Orders(S) == Bijection(1 .. Cardinality(S), S)

UpAt(up, p) == {t \in up : InitPrio[t] = p}

BootQueues(up) ==
  {r \in [Prio -> UNION {Orders(UpAt(up, p)) : p \in Prio}] :
      \A p \in Prio : r[p] \in Orders(UpAt(up, p))}

Started(up, r) ==
  [stat    |-> [t \in Thread |-> IF t \in up THEN "ready" ELSE "init"],
   prio    |-> InitPrio,
   err     |-> [t \in Thread |-> "EOK"],
   yield   |-> {},
   rq      |-> r,
   group   |-> {InitPrio[t] : t \in up},
   wl      |-> [l \in WaitList |-> << >>],
   defunct |-> << >>,
   tmr     |-> {},
   cur     |-> Idle,
   nest    |-> 0]

FirstSwitch(q) == SetRunning([q EXCEPT !.cur = HighestThread(q)], HighestThread(q))

KernelInit(up) ==
  /\ \E r \in BootQueues(up) : k = FirstSwitch(Started(up, r))
  /\ at = [t \in Thread |-> "run"]

(***************************************************************************)
(* What the primitives keep true of the kernel state.                      *)
(***************************************************************************)
(* The bitmap names exactly the queues that are not empty, so that the     *)
(* head rt_schedule takes is a thread; a queue holds ready threads of its  *)
(* own priority only, each once.                                           *)
QueuesExact(q) ==
  /\ q.group = {p \in Prio : q.rq[p] # << >>}
  /\ \A p \in Prio :
       /\ IsInjective(q.rq[p])
       /\ \A t \in Range(q.rq[p]) : q.stat[t] = "ready" /\ q.prio[t] = p

(* Every ready thread is in the queue of its priority.                     *)
ReadyQueued(q, S) == \A t \in S : q.stat[t] = "ready" => t \in Range(q.rq[q.prio[t]])

(* One node, one list: a thread in a wait list is suspended, one on the    *)
(* defunct list is closed, and it is in that list only, once.              *)
OneList(q) ==
  /\ IsInjective(q.defunct)
  /\ \A t \in Range(q.defunct) : q.stat[t] = "close"
  /\ \A l \in WaitList :
       /\ IsInjective(q.wl[l])
       /\ \A t \in Range(q.wl[l]) :
            q.stat[t] = "suspend" /\ \A m \in WaitList \ {l} : t \notin Range(q.wl[m])

(* A thread timer that can expire belongs to a suspended thread.           *)
TimersOfSuspended(q) == \A t \in q.tmr : q.stat[t] = "suspend"

(***************************************************************************)
(* Steps shared by every module.  Code of thread t runs when t holds the   *)
(* processor; it may hold it in another state than "running" only between  *)
(* suspending itself and the rt_schedule call that follows.                *)
(***************************************************************************)
At(t, a) == k.cur = t /\ at[t] = a

Goto(t, a) == at' = [at EXCEPT ![t] = a]

ScheduleStep(t, from, to) == At(t, from) /\ k' = Schedule(k) /\ Goto(t, to)

(* Thread code may block only with the scheduler unlocked, and the idle    *)
(* thread never blocks.                                                    *)
MayBlock(t) == At(t, "run") /\ t # Idle /\ k.nest = 0

ClearError(q, t) == [q EXCEPT !.err[t] = "EOK"]

(* Faulty variant: the timer is started first, and rt_thread_suspend stops *)
(* it again.                                                               *)
SleepTimerFirst(t) ==
  /\ MayBlock(t)
  /\ k' = Suspend(StartTimer(k, t), t)
  /\ Goto(t, "asleep")

(* rt_thread_sleep, up to its call of rt_schedule; it clears the error the *)
(* timeout has set when it returns.                                        *)
Sleep(t) ==
  /\ MayBlock(t)
  /\ k' = StartTimer(Suspend(k, t), t)
  /\ Goto(t, "asleep")

AsleepSchedule(t) == ScheduleStep(t, "asleep", "awake")

WakeUp(t) ==
  /\ At(t, "awake")
  /\ k' = IF k.err[t] = "ETIMEOUT" THEN ClearError(k, t) ELSE k
  /\ Goto(t, "run")

(* The clock interrupt at the end of a time slice.                         *)
SliceOver(q) == Schedule([q EXCEPT !.yield = @ \cup {q.cur}])

SliceEnd == k' = SliceOver(k) /\ UNCHANGED at

(* The clock interrupt, in rt_timer_check, for one expired thread timer.   *)
TimerExpires(t) ==
  /\ t \in k.tmr
  /\ k' = Timeout(k, t)
  /\ UNCHANGED at
=============================================================================
