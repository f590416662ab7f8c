-------------------------------- MODULE Ipc ---------------------------------
(***************************************************************************)
(* How a thread waits in the services of src/src/ipc.c and mempool.c: it   *)
(* queues up in a list of the object, with or without a timeout, calls     *)
(* rt_schedule, and finds in thread->error why it was woken.  A call that  *)
(* was woken without an error goes on where the service says.  Deletion of *)
(* an object is here too, since every service does it the same way.        *)
(*                                                                         *)
(* One object of one service is modelled; its lists are "recv", of threads *)
(* that wait for something to be in it, and "send", of threads that wait   *)
(* for room.                                                               *)
(***************************************************************************)
EXTENDS Kernel

CONSTANTS Item,         \* mails, messages, blocks or tokens
          NoItem,       \* none of them
          IpcFlag,      \* the queueing flag of the object
          Resets        \* bound: how often RT_IPC_CMD_RESET is called

ASSUME IpcAssumption ==
  /\ Item # {} /\ NoItem \notin Item
  /\ IpcFlag \in Flag
  /\ Resets \in Nat
  /\ WaitList = {"recv", "send"}

VARIABLES call,     \* call[t]: the call thread t waits in
          alive,    \* the object has not been deleted
          last,     \* the item that was received last
          epoch     \* resets so far

ivars == <<call, alive, last, epoch>>

Call == [op : {"none", "recv", "send", "urgent"}, item : Item \cup {NoItem}, timed : BOOLEAN]

NoCall == [op |-> "none", item |-> NoItem, timed |-> FALSE]

IpcLabel == {"run", "asleep", "awake", "wait", "woken", "schedule", "copyIn", "copyOut", "deleteTest", "deleteRecv", "deleteSend",
             "fault"}

IpcInit ==
  /\ KernelInit(Thread)
  /\ call = [t \in Thread |-> NoCall]
  /\ alive = TRUE /\ last = NoItem /\ epoch = 0

(***************************************************************************)
(* A call begins in a running thread; it goes on in a thread that was      *)
(* woken without an error.                                                 *)
(***************************************************************************)
Begins(t) == MayBlock(t) /\ alive

GoesOn(t, c) == At(t, "woken") /\ k.err[t] = "EOK" /\ call[t] = c

Tries(t, c) == Begins(t) \/ GoesOn(t, c)

(* No waiting was asked for, or the waiting time has run out meanwhile.    *)
GivesUp(t, c) == Begins(t) \/ (GoesOn(t, c) /\ c.timed)

Ends(t, a) == Goto(t, a) /\ call' = [call EXCEPT ![t] = NoCall]

(* The thread queues up, and its timer starts if the wait is timed.        *)
WaitsIn(q, t, l, c) ==
  LET u == SuspendOn(ClearError(q, t), t, l, IpcFlag)
  IN  IF c.timed THEN StartTimer(u, t) ELSE u

Waits(t, l, c) ==
  /\ k' = WaitsIn(k, t, l, c)
  /\ Goto(t, "wait")
  /\ call' = [call EXCEPT ![t] = c]

(* A thread lets the first waiter of a list go and then schedules.         *)
Woken(q, l) == IF q.wl[l] = << >> THEN q ELSE ResumeFirst(q, l)

EndsWaking(t, l) ==
  /\ k' = Woken(k, l)
  /\ Ends(t, IF k.wl[l] = << >> THEN "run" ELSE "schedule")

(* The same from an interrupt handler: the switch is made as it returns.   *)
IsrWaking(l) ==
  /\ k' = IF k.wl[l] = << >> THEN k ELSE Schedule(Woken(k, l))
  /\ UNCHANGED at

WaitSchedule(t) == ScheduleStep(t, "wait", "woken") /\ UNCHANGED ivars

EndSchedule(t) == ScheduleStep(t, "schedule", "run") /\ UNCHANGED ivars

(* Woken by the timeout, a reset or a deletion.                            *)
WokenFails(t) ==
  /\ At(t, "woken") /\ k.err[t] # "EOK"
  /\ Ends(t, "run")
  /\ UNCHANGED <<k, alive, last, epoch>>

(***************************************************************************)
(* RT_IPC_CMD_RESET, but for what it does to the object: every waiter      *)
(* leaves with an error, in the locked region that resets the object.      *)
(***************************************************************************)
ResetWaiters(t) ==
  /\ Begins(t) /\ epoch < Resets
  /\ k' = ResumeAll(ResumeAll(k, "recv"), "send")
  /\ Goto(t, "schedule")
  /\ epoch' = epoch + 1
  /\ UNCHANGED <<call, alive, last>>

(***************************************************************************)
(* Deletion, of an object that no other thread is working on: the waiters  *)
(* go one locked region at a time, those that receive first.  The list is  *)
(* tested outside the region: if the timeout of the last waiter empties it *)
(* in between, its head is taken for a thread, and what happens then is    *)
(* undefined.                                                              *)
(***************************************************************************)
Unused(t) == \A u \in Thread \ {t} : call[u] # NoCall => k.stat[u] = "suspend"

Delete(t) ==
  /\ Begins(t) /\ Unused(t)
  /\ alive' = FALSE
  /\ Goto(t, "deleteTest")
  /\ UNCHANGED <<k, call, last, epoch>>

DeleteTest(t) ==
  /\ At(t, "deleteTest")
  /\ Goto(t, IF k.wl["recv"] # << >> THEN "deleteRecv"
             ELSE IF k.wl["send"] # << >> THEN "deleteSend" ELSE "run")
  /\ UNCHANGED k /\ UNCHANGED ivars

DeleteResume(t, a, l) ==
  /\ At(t, a)
  /\ IF k.wl[l] = << >>
       THEN Goto(t, "fault") /\ UNCHANGED k
       ELSE /\ k' = Resume([k EXCEPT !.err[Head(k.wl[l])] = "ERROR"], Head(k.wl[l]))
            /\ Goto(t, "deleteTest")
  /\ UNCHANGED ivars

(***************************************************************************)
(* The steps all services share.                                           *)
(***************************************************************************)
IpcStep ==
  \/ SliceEnd /\ UNCHANGED ivars
  \/ \E t \in Thread :
       \/ (Sleep(t) \/ AsleepSchedule(t) \/ WakeUp(t) \/ TimerExpires(t)) /\ UNCHANGED ivars
       \/ WaitSchedule(t) \/ EndSchedule(t)
       \/ Delete(t) \/ DeleteTest(t)
       \/ DeleteResume(t, "deleteRecv", "recv") \/ DeleteResume(t, "deleteSend", "send")

(* Threads that were woken without an error and have not gone on yet.      *)
OnTheirWay(o) ==
  {t \in Thread : /\ at[t] \in {"wait", "woken"} /\ call[t].op = o
                  /\ k.stat[t] # "suspend" /\ k.err[t] = "EOK"}

(* The variables all services share have their types.                      *)
IpcTypeOK ==
  /\ k \in KernelState
  /\ at \in [Thread -> IpcLabel]
  /\ call \in [Thread -> Call]
  /\ alive \in BOOLEAN /\ last \in Item \cup {NoItem} /\ epoch \in 0 .. Resets

(* The kernel under a service stays exact: the waiting, waking, resetting  *)
(* and deleting of ipc.c and mempool.c leave no thread in a queue of       *)
(* another priority, in two lists, or with a timer and no wait.            *)
KernelExact == QueuesExact(k) /\ ReadyQueued(k, Thread) /\ OneList(k) /\ TimersOfSuspended(k)
=============================================================================
