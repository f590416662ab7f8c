----------------------------- MODULE Scheduler ------------------------------
(***************************************************************************)
(* The life of a thread (src/src/thread.c, idle.c, clock.c): creation,     *)
(* startup, sleep, waiting and wake-up, the scheduler lock, priority       *)
(* change, exit, deletion, and reaping by the idle thread, over the        *)
(* primitives of Kernel.                                                   *)
(*                                                                         *)
(* Threads call the API in any order and the clock interrupt comes at any  *)
(* point where interrupts are enabled.  rt_thread_resume, rt_thread_suspend*)
(* and rt_thread_delete read thread->stat, or change it, outside their     *)
(* locked region, so each of them is several steps here; called with       *)
(* interrupts disabled, as the IPC objects do, they are one.               *)
(***************************************************************************)
EXTENDS Kernel

CONSTANTS Api,       \* which of the unprotected calls the program makes
          NestMax    \* bound: how deep rt_enter_critical is nested

(* Calls that name another thread: "resume", "suspend" and "delete" are    *)
(* rt_thread_resume, rt_thread_suspend and rt_thread_delete with the       *)
(* scheduler locked, and so that no timeout of that thread is pending, the *)
(* first moreover of a thread that nobody is in the middle of starting;    *)
(* "kill" is rt_thread_kill with SIGQUIT, of any other thread at any time; *)
(* "prio" is a change of priority.  With "resumeAny", "suspendAny" and     *)
(* "deleteAny" the calls come as any caller may make them.                 *)
ASSUME SchedulerAssumption ==
  /\ Api \subseteq {"resume", "suspend", "delete", "kill", "prio",
                     "resumeAny", "suspendAny", "deleteAny"}
  /\ NestMax \in Nat

VARIABLES arg,       \* arg[t]: the thread that t's call in progress is about
          orphans,   \* history: whose starter was ended before it queued them
          torn       \* history: who had been ended, and is queued or needed again

vars == <<k, at, arg, orphans, torn>>

(* A step that leaves the history as it is.  Once a thread that had been   *)
(* ended is queued again, or released while a call still needs it, two     *)
(* lists share a node or the processor works on memory that is no thread   *)
(* any more: the model ends there.                                         *)
SameHistory == torn = {} /\ UNCHANGED <<orphans, torn>>

Label == {"run", "schedule", "asleep", "awake", "yield", "resumeStat", "resumeLock", "resumeInsert",
          "suspendLock", "deleteRemove", "deleteTimer", "deleteClose", "freeObject"}

(* A call of thread t about thread u begins, or goes on, at label a.       *)
Call(t, a, u) == Goto(t, a) /\ arg' = [arg EXCEPT ![t] = u]

Continue(t, a) == Goto(t, a) /\ UNCHANGED arg

(* The call is over, but for a last rt_schedule if a is "schedule".        *)
Return(t, a) == Call(t, a, Idle)

Running(t) == At(t, "run") /\ t # Idle

Alive(t) == k.stat[t] \notin {"close", "free"}

Resuming == {"resumeStat", "resumeLock", "resumeInsert"}

(* A thread that is alive is in the middle of starting or resuming u.      *)
InStart(u) == \E t \in Thread : at[t] \in Resuming /\ arg[t] = u /\ Alive(t)

(* Whom the end of thread u leaves without a starter.                      *)
Orphaned(u) == IF at[u] \in Resuming THEN orphans \cup {arg[u]} ELSE orphans

(***************************************************************************)
(* Creation and startup.                                                   *)
(***************************************************************************)
Create(t, u) ==
  /\ Running(t) /\ k.stat[u] = "free"
  /\ k' = [k EXCEPT !.stat[u] = "init", !.prio[u] = InitPrio[u], !.err[u] = "EOK"]
  /\ UNCHANGED <<at, arg, torn>>
  /\ torn = {} /\ orphans' = orphans \ {u}

Startup(t, u) ==
  /\ Running(t) /\ k.stat[u] = "init"
  /\ k' = [k EXCEPT !.prio[u] = InitPrio[u], !.stat[u] = "suspend",
                    !.yield = @ \ {u}]
  /\ Call(t, "resumeStat", u) /\ SameHistory

(***************************************************************************)
(* rt_thread_resume with interrupts enabled: the state is read, then the   *)
(* node is unlinked and the timer stopped in one locked region, then the   *)
(* thread is queued in another.  The caller schedules afterwards.          *)
(***************************************************************************)
Waiting(u) == \E l \in WaitList : u \in Range(k.wl[l])

ResumeCall(t, u) ==
  /\ Running(t) /\ u # t
  /\ \/ "resumeAny" \in Api
     \/ /\ "resume" \in Api /\ k.nest > 0
        /\ u \notin k.tmr /\ ~ Waiting(u) /\ ~ InStart(u)
  /\ Call(t, "resumeStat", u) /\ UNCHANGED k /\ SameHistory

ResumeStat(t) ==
  /\ At(t, "resumeStat")
  /\ IF k.stat[arg[t]] = "suspend" THEN Continue(t, "resumeLock")
                                   ELSE Return(t, "schedule")
  /\ UNCHANGED k /\ SameHistory

ResumeLock(t) ==
  /\ At(t, "resumeLock")
  /\ k' = ResumeUnlink(k, arg[t])
  /\ Continue(t, "resumeInsert") /\ SameHistory

(* A thread that has been closed since its state was read is queued all    *)
(* the same, whether its node is on the defunct list or not.               *)
ResumeInsert(t) ==
  /\ At(t, "resumeInsert")
  /\ k' = InsertThread(k, arg[t])
  /\ Return(t, "schedule")
  /\ torn = {} /\ torn' = IF Alive(arg[t]) THEN {} ELSE {arg[t]}
  /\ orphans' = orphans \ {arg[t]}

(* rt_thread_suspend of the thread itself, as system threads do that wait  *)
(* to be resumed by name.                                                  *)
SuspendSelf(t) ==
  /\ "resume" \in Api /\ MayBlock(t)
  /\ k' = Suspend(k, t)
  /\ Continue(t, "schedule") /\ SameHistory

(* rt_thread_suspend of another thread, on the state it was seen in.  A    *)
(* ready or running thread has no timeout pending.                         *)
SuspendStat(t, u) ==
  /\ \/ "suspendAny" \in Api
     \/ "suspend" \in Api /\ k.nest > 0
  /\ Running(t) /\ u \notin {t, Idle}
  /\ k.stat[u] \in {"ready", "running"}
  /\ Call(t, "suspendLock", u) /\ UNCHANGED k /\ SameHistory

SuspendLock(t) ==
  /\ At(t, "suspendLock")
  /\ k' = SuspendBody(k, arg[t])
  /\ Return(t, "run") /\ SameHistory

(***************************************************************************)
(* Blocking and scheduling.                                                *)
(***************************************************************************)
(* An IPC object takes the thread in, with or without a timeout.           *)
WaitOn(t, l) ==
  /\ MayBlock(t)
  /\ LET q == SuspendOn(ClearError(k, t), t, l, "fifo")
     IN  \E timed \in BOOLEAN : k' = IF timed THEN StartTimer(q, t) ELSE q
  /\ Continue(t, "schedule") /\ SameHistory

(* An IPC object lets the first waiter go: from a thread, which schedules  *)
(* afterwards, or from an interrupt.                                       *)
Wake(t, l) ==
  /\ Running(t) /\ k.wl[l] # << >>
  /\ k' = ResumeFirst(k, l)
  /\ Continue(t, "schedule") /\ SameHistory

WakeFromIsr(l) ==
  /\ k.wl[l] # << >>
  /\ k' = Schedule(ResumeFirst(k, l))
  /\ UNCHANGED <<at, arg>> /\ SameHistory

DoSchedule(t) == ScheduleStep(t, "schedule", "run") /\ UNCHANGED arg /\ SameHistory

(* rt_thread_yield is a call of rt_schedule and nothing else.              *)
YieldCall(t) == Running(t) /\ Continue(t, "yield") /\ UNCHANGED k /\ SameHistory

Yield(t) == ScheduleStep(t, "yield", "run") /\ UNCHANGED arg /\ SameHistory

(* Faulty variants: the unlock does not schedule, or an unlock too many    *)
(* is counted.                                                             *)
ExitCriticalNoSchedule(t) ==
  /\ Running(t)
  /\ k' = [k EXCEPT !.nest = IF @ <= 1 THEN 0 ELSE @ - 1]
  /\ Continue(t, "run") /\ SameHistory

ExitCriticalUnbalanced(t) ==
  /\ Running(t)
  /\ k' = [k EXCEPT !.nest = @ - 1]
  /\ Continue(t, IF k.nest = 1 THEN "schedule" ELSE "run") /\ SameHistory

(* rt_enter_critical, and rt_exit_critical up to its call of rt_schedule;  *)
(* an unlock too many leaves the scheduler unlocked.                       *)
EnterCritical(t) ==
  /\ Running(t) /\ k.nest < NestMax
  /\ k' = [k EXCEPT !.nest = @ + 1]
  /\ UNCHANGED <<at, arg>> /\ SameHistory

ExitCritical(t) ==
  /\ Running(t)
  /\ k' = [k EXCEPT !.nest = IF @ <= 1 THEN 0 ELSE @ - 1]
  /\ Continue(t, IF k.nest <= 1 THEN "schedule" ELSE "run") /\ SameHistory

ChangePriority(t, u, p) ==
  /\ "prio" \in Api /\ Running(t) /\ u # Idle /\ k.stat[u] # "free"
  /\ k' = SetPriority(k, u, p)
  /\ UNCHANGED <<at, arg>> /\ SameHistory

(***************************************************************************)
(* The end of a thread.                                                    *)
(***************************************************************************)
Close(q, t) ==
  [q EXCEPT !.stat[t] = "close", !.yield = @ \ {t}, !.defunct = <<t>> \o @]

(* Faulty variant: the thread is closed after the switch.                  *)
ExitCloseLast(t) ==
  /\ MayBlock(t)
  /\ k' = Close(Schedule(StopTimer(RemoveThread(k, t), t)), t)
  /\ UNCHANGED <<at, arg>> /\ SameHistory

(* rt_thread_exit is one locked region, with rt_schedule inside it.        *)
Exit(t) ==
  /\ MayBlock(t)
  /\ k' = Schedule(Close(StopTimer(RemoveThread(k, t), t), t))
  /\ UNCHANGED <<at, arg>> /\ SameHistory

(* rt_thread_delete of another thread: unlinked in one region, its timer   *)
(* detached in a second, closed and handed to the idle thread in a third.  *)
Deletable(t, u) == u \notin {t, Idle} /\ k.stat[u] \notin {"free", "close"}

DeleteCall(t, u) ==
  /\ Running(t) /\ Deletable(t, u)
  /\ \/ "deleteAny" \in Api
     \/ "delete" \in Api /\ k.nest > 0 /\ u \notin k.tmr
  /\ Call(t, IF k.stat[u] = "init" THEN "deleteTimer" ELSE "deleteRemove", u)
  /\ UNCHANGED k /\ SameHistory

(* Faulty variant: a started thread is not taken out of its list.          *)
DeleteRemoveNothing(t) ==
  At(t, "deleteRemove") /\ UNCHANGED k /\ SameHistory /\ Continue(t, "deleteTimer")

DeleteRemove(t) ==
  /\ At(t, "deleteRemove")
  /\ k' = RemoveThread(k, arg[t])
  /\ Continue(t, "deleteTimer") /\ SameHistory

DeleteTimer(t) ==
  /\ At(t, "deleteTimer")
  /\ k' = StopTimer(k, arg[t])
  /\ Continue(t, "deleteClose") /\ SameHistory

DeleteClose(t) ==
  /\ At(t, "deleteClose")
  /\ k' = Close(k, arg[t])
  /\ Return(t, "run") /\ UNCHANGED torn
  /\ torn = {} /\ orphans' = Orphaned(arg[t])

(* Faulty variant: the timer of the killed thread goes on.                 *)
KillKeepTimer(t, u) ==
  /\ "kill" \in Api /\ Running(t) /\ Deletable(t, u)
  /\ k' = Close(IF k.stat[u] = "init" THEN k ELSE RemoveThread(k, u), u)
  /\ UNCHANGED <<at, arg, torn>>
  /\ torn = {} /\ orphans' = Orphaned(u)

(* rt_thread_kill with SIGQUIT makes the whole of rt_thread_delete one     *)
(* region, whatever call that thread is in the middle of, and whoever is   *)
(* in the middle of a call about it.                                       *)
Kill(t, u) ==
  /\ "kill" \in Api /\ Running(t) /\ Deletable(t, u)
  /\ k' = Close(StopTimer(IF k.stat[u] = "init" THEN k ELSE RemoveThread(k, u), u), u)
  /\ UNCHANGED <<at, arg, torn>>
  /\ torn = {} /\ orphans' = Orphaned(u)

(* rt_thread_idle_excute: the thread is taken off the defunct list with    *)
(* interrupts disabled, and its memory released after they are enabled.    *)
Reap ==
  /\ At(Idle, "run") /\ k.defunct # << >>
  /\ k' = Schedule(Unlink(k, Head(k.defunct)))
  /\ Call(Idle, "freeObject", Head(k.defunct)) /\ SameHistory

(* The memory may still be needed by a thread in the middle of starting it.*)
FreeObject ==
  /\ At(Idle, "freeObject")
  /\ k' = [k EXCEPT !.stat[arg[Idle]] = "free"]
  /\ at' = [at EXCEPT ![Idle] = "run", ![arg[Idle]] = "run"]
  /\ arg' = [arg EXCEPT ![Idle] = Idle, ![arg[Idle]] = Idle]
  /\ torn = {} /\ torn' = IF InStart(arg[Idle]) THEN {arg[Idle]} ELSE {}
  /\ UNCHANGED orphans

(***************************************************************************)
(* The specification.  Only the idle thread and one other are started when *)
(* the scheduler starts; that one starts the rest.                         *)
(***************************************************************************)
CONSTANT Main       \* the thread that rt_application_init starts

ASSUME MainAssumption == Main \in Thread

Init ==
  /\ KernelInit({Idle, Main}) /\ arg = [t \in Thread |-> Idle]
  /\ orphans = {} /\ torn = {}

Proceed(t) ==
  \/ ResumeStat(t) \/ ResumeLock(t) \/ ResumeInsert(t) \/ SuspendLock(t)
  \/ (AsleepSchedule(t) \/ WakeUp(t)) /\ UNCHANGED arg /\ SameHistory
  \/ DoSchedule(t) \/ Yield(t)
  \/ DeleteRemove(t) \/ DeleteTimer(t) \/ DeleteClose(t)

Tick ==
  \/ SliceEnd /\ UNCHANGED arg /\ SameHistory
  \/ \E t \in Thread : TimerExpires(t) /\ UNCHANGED arg /\ SameHistory

Begin(t) ==
  \/ Sleep(t) /\ UNCHANGED arg /\ SameHistory
  \/ SuspendSelf(t) \/ Exit(t) \/ YieldCall(t) \/ EnterCritical(t) \/ ExitCritical(t)
  \/ \E l \in WaitList : WaitOn(t, l) \/ Wake(t, l)
  \/ \E u \in Thread :
       \/ Create(t, u) \/ Startup(t, u)
       \/ ResumeCall(t, u) \/ SuspendStat(t, u) \/ DeleteCall(t, u) \/ Kill(t, u)
       \/ \E p \in Prio : ChangePriority(t, u, p)

Torn == torn # {} /\ UNCHANGED vars

Next ==
  \/ \E t \in Thread : Begin(t) \/ Proceed(t)
  \/ \E l \in WaitList : WakeFromIsr(l)
  \/ Reap \/ FreeObject
  \/ Tick
  \/ Torn

Spec == Init /\ [][Next]_vars

(***************************************************************************)
(* Fairness.  The processor executes the code of a call in progress, the   *)
(* clock interrupt keeps coming, and a thread that has locked the scheduler*)
(* sooner or later unlocks it, whatever it calls in between.  Nothing says *)
(* that a thread ever calls the kernel of its own accord.  The first three *)
(* are weak fairness and the last is strong fairness, written out: the     *)
(* state predicate in each is the one its action is enabled under, as long *)
(* as nothing is torn.                                                     *)
(***************************************************************************)
Fairness ==
  /\ []<>(at[k.cur] \in {"run", "freeObject"}) \/ []<><<\E t \in Thread : Proceed(t)>>_vars
  /\ []<>(SliceOver(k) = k) \/ []<><<SliceEnd /\ UNCHANGED arg /\ SameHistory>>_vars
  /\ \A t \in Thread : []<>(t \notin k.tmr) \/ []<><<TimerExpires(t) /\ UNCHANGED arg /\ SameHistory>>_vars
  /\ <>[]~(k.nest > 0 /\ at[k.cur] = "run") \/ []<><<\E t \in Thread : k.nest > 0 /\ ExitCritical(t)>>_vars

FairSpec == Spec /\ Fairness

(***************************************************************************)
(* Properties.                                                             *)
(***************************************************************************)
(* Every variable has its type.                                            *)
TypeOK ==
  /\ k \in KernelState
  /\ at \in [Thread -> Label]
  /\ arg \in [Thread -> Thread]
  /\ orphans \in SUBSET Thread /\ torn \in SUBSET Thread

(* Between its removal from the lists and its closing, a thread that is    *)
(* deleted still shows the state it had.                                   *)
InDelete(t) == \E u \in Thread : at[u] \in {"deleteTimer", "deleteClose"} /\ arg[u] = t

(* The ready queues are what rt_schedule takes them for: the bitmap names  *)
(* exactly the queues that are not empty, so the head it takes is a        *)
(* thread; a queue holds ready threads of its own priority only, each      *)
(* once; and every ready thread is in one.  The code keeps the two apart,  *)
(* by thread->current_priority, in insert, remove, change of priority,     *)
(* timeout and delete.                                                     *)
ReadyQueuesExact == QueuesExact(k) /\ ReadyQueued(k, {t \in Thread : ~ InDelete(t)})

(* One node, one list: rt_list_insert_before on a tlist that a wait list,  *)
(* a ready queue or the defunct list still links would tear both lists.    *)
(* Nothing does, but the one step ClosedStaysClosed names.                 *)
OneListPerThread == torn # {} \/ OneList(k)

(* The assertion of rt_thread_timeout (thread.c:821): a thread timer that  *)
(* can expire belongs to a suspended thread.                               *)
TimeoutFindsSuspended == TimersOfSuspended(k)

(* Unless the scheduler is locked or the current thread is on its way into *)
(* rt_schedule, no thread of a higher priority is ready, however           *)
(* interrupts, wake-ups and the scheduler lock have interleaved.           *)
HighestRuns ==
  k.nest = 0 /\ at[k.cur] \notin {"schedule", "asleep"} =>
    \A t \in Thread : k.stat[t] = "ready" => k.prio[k.cur] <= k.prio[t]

(* A suspended thread is within reach of somebody who will wake it: it is  *)
(* in a wait list, or its timer runs, or a thread that is still alive is   *)
(* in the middle of resuming, starting or deleting it.  It can be lost in  *)
(* one way only: its starter is killed between rt_thread_startup marking   *)
(* it suspended and rt_thread_resume queueing it.                          *)
NoLostThread ==
  \A t \in Thread : k.stat[t] = "suspend" =>
    \/ t \in k.tmr
    \/ \E l \in WaitList : t \in Range(k.wl[l])
    \/ \E u \in Thread : /\ arg[u] = t /\ Alive(u)
                         /\ at[u] \notin {"run", "schedule", "asleep", "awake", "yield"}
    \/ t \in orphans

(* A closed thread never runs again: once rt_thread_exit or                *)
(* rt_thread_delete has closed it, no timeout or wake-up that was already  *)
(* under way brings it back, until its control block is released.  Only a  *)
(* thread that is in rt_thread_resume for it does, and only if it had read *)
(* thread->stat before: a kill that comes earlier, or comes in any other   *)
(* call, is final.                                                         *)
ClosedStaysClosed ==
  [][\A t \in Thread : k.stat[t] = "close" =>
       \/ k'.cur # t /\ k'.stat[t] \in {"close", "free"}
       \/ \E u \in Thread \ {t} : ResumeInsert(u) /\ arg[u] = t]_vars

(* Time slicing: of the threads of the top priority, each gets the         *)
(* processor in its turn once it is ready or its sleep is over, even if    *)
(* none of the others ever blocks.                                         *)
TopPriority(t) == \A u \in Thread : k.prio[t] <= k.prio[u]

RoundRobin ==
  \A t \in Thread :
    (TopPriority(t) /\ (k.stat[t] = "ready" \/ t \in k.tmr)) ~> (k.cur = t)

(* What the comment of rt_thread_delete says (thread.c:431): the thread    *)
(* object is removed from the thread queues.                               *)
DeletedLeavesQueues ==
  \A t \in Thread : k.stat[t] = "close" => \A p \in Prio : t \notin Range(k.rq[p])

(***************************************************************************)
(* The inductive invariant for programs whose only calls about another     *)
(* thread, beyond startup, are a change of priority and a kill: as long as *)
(* nothing is torn, the kernel state is well-formed, the current thread    *)
(* runs or is on its way into rt_schedule with the scheduler unlocked, the *)
(* idle thread never blocks, the thread that is being started is suspended *)
(* and out of everybody's reach unless it has been killed, and the one     *)
(* that is being released is closed and off the defunct list.              *)
(***************************************************************************)
Plain == {"run", "schedule", "asleep", "awake", "yield"}

WellFormed(q) == QueuesExact(q) /\ ReadyQueued(q, Thread) /\ OneList(q) /\ TimersOfSuspended(q)

CurrentRuns(q, a) ==
  /\ \A u \in Thread : q.stat[u] = "running" => u = q.cur
  /\ q.stat[Idle] \in {"ready", "running"}
  /\ \/ q.stat[q.cur] = "running"
     \/ q.stat[q.cur] = "suspend" /\ q.nest = 0 /\ a[q.cur] \in {"schedule", "asleep"}

Unreachable(q, x) ==
  q.stat[x] = "suspend" /\ x \notin q.tmr /\ \A l \in WaitList : x \notin Range(q.wl[l])

OffDefunct(q, x) == q.stat[x] = "close" /\ x \notin Range(q.defunct)

(* Where its starter may find a thread: out of reach, or ended since.      *)
Startable(q, x) == Unreachable(q, x) \/ q.stat[x] = "close"

(* Where thread t is, and, if it is alive, the thread its call is about.   *)
CallOK(q, a, g, t) ==
  /\ a[t] \in Plain \cup Resuming \cup {"freeObject"}
  /\ q.stat[t] = "free" => a[t] = "run"
  /\ a[t] \in Resuming /\ q.stat[t] \notin {"close", "free"} => Startable(q, g[t])
  /\ a[t] = "freeObject" => t = Idle /\ OffDefunct(q, g[t])

DistinctArgs(q, a, g) ==
  \A t, u \in {x \in Thread : q.stat[x] \notin {"close", "free"}} :
    a[t] \in Resuming /\ a[u] \in Resuming /\ t # u => g[t] # g[u]

Intact ==
  /\ k \in KernelState /\ at \in [Thread -> Label] /\ arg \in [Thread -> Thread]
  /\ WellFormed(k) /\ CurrentRuns(k, at)
  /\ \A t \in Thread : CallOK(k, at, arg, t)
  /\ DistinctArgs(k, at, arg)

Inductive ==
  /\ TypeOK /\ QueuesExact(k) /\ ReadyQueued(k, Thread) /\ TimersOfSuspended(k)
  /\ CurrentRuns(k, at)
  /\ torn # {} \/ Intact
=============================================================================
