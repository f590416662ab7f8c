--------------------------- MODULE SchedulerProofs ---------------------------
(***************************************************************************)
(* For any number of threads and priorities, in programs that make no      *)
(* rt_thread_resume, rt_thread_suspend or rt_thread_delete of their own    *)
(* (Quiet), but that may kill any thread at any time: the ready queues of  *)
(* Scheduler are exact, no suspended thread is out of reach, no closed one *)
(* comes back, and the highest priority runs, with the exceptions that the *)
(* statements name.  Intact is the invariant until a thread that had been  *)
(* ended is queued or released under a call; Inductive adds what is true   *)
(* after that.                                                             *)
(***************************************************************************)
EXTENDS Scheduler, KernelProofs

Quiet == Api \subseteq {"prio", "kill"}

(***************************************************************************)
(* Calls in progress.  A step that disturbs only the threads of D leaves   *)
(* the suspended threads that nobody can wake, and the closed ones off the *)
(* defunct list, as they are.                                              *)
(***************************************************************************)
Undisturbed(r, q, D) ==
  \A x \in Thread :
    /\ x \notin D => /\ Startable(q, x) => Startable(r, x)
                     /\ OffDefunct(q, x) => OffDefunct(r, x)
                     /\ r.stat[x] = "free" => q.stat[x] = "free"
    /\ q.stat[x] = "close" => r.stat[x] \in {"close", "free"}

(* A thread that is in no call about another one asks nothing.             *)
LEMMA PlainCall ==
  ASSUME NEW r, NEW b, NEW h, NEW t, b[t] \in Plain, r.stat[t] = "free" => b[t] = "run"
  PROVE  CallOK(r, b, h, t)
BY DEF CallOK, Plain, Resuming

(* Rescheduling disturbs nobody.                                           *)
LEMMA RescheduledUndisturbed ==
  ASSUME NEW q, NEW r, NEW p, Rescheduled(r, q), Undisturbed(q, p, {})
  PROVE  Undisturbed(r, p, {})
<1> SUFFICES ASSUME NEW x \in Thread
             PROVE  /\ Startable(p, x) => Startable(r, x)
                    /\ OffDefunct(p, x) => OffDefunct(r, x)
                    /\ r.stat[x] = "free" => p.stat[x] = "free"
                    /\ p.stat[x] = "close" => r.stat[x] \in {"close", "free"}
  BY DEF Undisturbed
<1>1. /\ r.stat[x] = q.stat[x] \/ (q.stat[x] \in {"ready", "running"} /\ r.stat[x] \in {"ready", "running"})
      /\ r.tmr = q.tmr /\ Fewer(r, q)
  BY DEF Rescheduled
<1>2. Startable(q, x) => Startable(r, x)
  BY <1>1 DEF Startable, Unreachable, Fewer
<1>3. OffDefunct(q, x) => OffDefunct(r, x)
  BY <1>1 DEF OffDefunct, Fewer
<1> QED BY <1>1, <1>2, <1>3 DEF Undisturbed

(***************************************************************************)
(* The parts of the invariant.                                             *)
(***************************************************************************)
LEMMA InductiveParts ==
  ASSUME Intact
  PROVE  /\ Wf(k, Thread) /\ OneRuns(k) /\ k.cur \in Thread
         /\ at \in [Thread -> Label] /\ arg \in [Thread -> Thread]
         /\ \A t \in Thread : at[t] \in Plain \cup Resuming \cup {"freeObject"}
BY DEF Intact, WellFormed, Wf, OneRuns, CurrentRuns, CallOK, KernelState

(* Code that is not about to call rt_schedule runs in a running thread.    *)
LEMMA CallerRuns ==
  ASSUME Intact, NEW t \in Thread, k.cur = t, at[t] \notin {"schedule", "asleep"}
  PROVE  k.stat[t] = "running"
BY DEF Intact, CurrentRuns

(* Calls that a step leaves alone, outside the threads of D, or begins     *)
(* well.  Those of a thread that the step ends are over.                   *)
Ends(t) == k'.stat[t] \in {"close", "free"}

NewCall(t) ==
  /\ CallOK(k', at', arg', t)
  /\ \A u \in Thread \ {t} : at'[t] \in Resuming /\ at'[u] \in Resuming /\ ~ Ends(u) => arg'[u] # arg'[t]

KeptCall(t, D) ==
  /\ arg'[t] = arg[t]
  /\ at'[t] = at[t] \/ (at[t] \in Resuming /\ at'[t] \in Resuming)
  /\ arg[t] \notin D \/ (at[t] \in Resuming /\ Ends(t))

CallsKept(D) ==
  /\ \A t \in Thread : at'[t] \in Plain \/ NewCall(t) \/ KeptCall(t, D)
  /\ \A t \in Thread : k.stat[t] = "free" => at'[t] = at[t]
  /\ \A t \in D : k'.stat[t] = "free" => at'[t] = "run"

(* A call about a thread outside D is as good after the step as before.    *)
LEMMA CallKept ==
  ASSUME Intact, NEW D, Undisturbed(k', k, D), NEW t \in Thread, KeptCall(t, D),
         k'.stat[t] = "free" => at'[t] = "run"
  PROVE  CallOK(k', at', arg', t)
<1>1. CallOK(k, at, arg, t) /\ arg[t] \in Thread
  BY InductiveParts DEF Intact
<1>2. at[t] \in Resuming /\ ~ Ends(t) => k.stat[t] \notin {"close", "free"}
  BY <1>1 DEF Undisturbed, CallOK, Ends, Resuming
<1>3. CASE at[t] \in Resuming
  <2>1. at'[t] \in Resuming /\ at'[t] # "freeObject"
    BY <1>3 DEF KeptCall, Resuming
  <2>2. ~ Ends(t) => Startable(k', arg'[t])
    BY <1>1, <1>2, <1>3 DEF KeptCall, CallOK, Undisturbed
  <2> QED BY <2>1, <2>2 DEF CallOK, Ends
<1>4. CASE at[t] \notin Resuming
  <2>1. at'[t] = at[t] /\ arg'[t] = arg[t] /\ arg[t] \notin D
    BY <1>4 DEF KeptCall
  <2> QED BY <1>1, <1>4, <2>1 DEF CallOK, Undisturbed
<1> QED BY <1>3, <1>4

(* A step that keeps the calls and leaves a well-formed kernel state.      *)
LEMMA StepKeeps ==
  ASSUME Intact, NEW D, Undisturbed(k', k, D), CallsKept(D),
         Wf(k', Thread), CurrentRuns(k', at'),
         at' \in [Thread -> Label], arg' \in [Thread -> Thread]
  PROVE  Intact'
<1>1. k' \in KernelState /\ WellFormed(k')
  BY DEF WellFormed, Wf
<1>2. ASSUME NEW t \in Thread  PROVE CallOK(k', at', arg', t)
  <2>1. k'.stat[t] = "free" => at'[t] = "run"
    <3>1. k.stat[t] = "free" => at[t] = "run"
      BY DEF Intact, CallOK
    <3> QED BY <3>1 DEF CallsKept, Undisturbed
  <2>2. CASE at'[t] \in Plain
    BY <2>1, <2>2, PlainCall
  <2>3. CASE NewCall(t)
    BY <2>3 DEF NewCall
  <2>4. CASE KeptCall(t, D)
    BY <2>1, <2>4, CallKept
  <2> QED BY <2>2, <2>3, <2>4 DEF CallsKept
<1>3. DistinctArgs(k', at', arg')
  <2>1. \A t \in Thread : at'[t] \in Resuming /\ ~ Ends(t) =>
                            \/ NewCall(t)
                            \/ at[t] \in Resuming /\ arg'[t] = arg[t] /\ k.stat[t] \notin {"close", "free"}
    <3> SUFFICES ASSUME NEW t \in Thread, at'[t] \in Resuming, ~ Ends(t), ~ NewCall(t)
                 PROVE  at[t] \in Resuming /\ arg'[t] = arg[t] /\ k.stat[t] \notin {"close", "free"}
      OBVIOUS
    <3>1. KeptCall(t, D)
      BY DEF CallsKept, Plain, Resuming
    <3>2. CallOK(k, at, arg, t)
      BY DEF Intact
    <3> QED BY <3>1, <3>2 DEF KeptCall, CallOK, Undisturbed, Ends, Resuming
  <2> SUFFICES ASSUME NEW t \in Thread, NEW u \in Thread, ~ Ends(t), ~ Ends(u),
                      at'[t] \in Resuming, at'[u] \in Resuming, t # u
               PROVE  arg'[t] # arg'[u]
    BY DEF DistinctArgs, Ends
  <2>2. CASE NewCall(t) \/ NewCall(u)
    BY <2>2 DEF NewCall
  <2>3. CASE ~ NewCall(t) /\ ~ NewCall(u)
    BY <2>1, <2>3 DEF Intact, DistinctArgs
  <2> QED BY <2>2, <2>3
<1> QED BY <1>1, <1>2, <1>3 DEF Intact

(* The last part of many steps: rt_schedule.                               *)
LEMMA ScheduledStep ==
  ASSUME Intact, NEW q, MaySchedule(q), k' = Schedule(q),
         Undisturbed(q, k, {}), CallsKept({}),
         at' \in [Thread -> Label], arg' \in [Thread -> Thread]
  PROVE  Intact'
<1>1. Wf(k', Thread) /\ OneRuns(k') /\ k'.stat[k'.cur] = "running" /\ Rescheduled(k', q)
  BY ScheduleWf
<1>2. Undisturbed(k', k, {})
  BY <1>1, RescheduledUndisturbed
<1>3. CurrentRuns(k', at')
  BY <1>1 DEF CurrentRuns, OneRuns
<1> QED BY <1>1, <1>2, <1>3, StepKeeps

(* What a step does to at and arg.                                         *)
LEMMA GotoTypes ==
  ASSUME Intact, NEW t \in Thread, NEW a \in Label, Goto(t, a)
  PROVE  /\ at' \in [Thread -> Label] /\ at'[t] = a
         /\ \A u \in Thread : u # t => at'[u] = at[u]
BY InductiveParts DEF Goto

(* A step of the current thread to a point where it is in no such call.    *)
LEMMA LeavesCall ==
  ASSUME Intact, NEW t \in Thread, k.cur = t, NEW a \in Plain,
         Goto(t, a), \A u \in Thread : u # t => arg'[u] = arg[u]
  PROVE  CallsKept({}) /\ at' \in [Thread -> Label] /\ at'[t] = a
<1>1. a \in Label
  BY DEF Plain, Label
<1>2. k.stat[t] # "free"
  BY DEF Intact, CurrentRuns
<1> QED BY <1>1, <1>2, GotoTypes DEF CallsKept, KeptCall

LEMMA ContinueKeeps ==
  ASSUME Intact, NEW t \in Thread, k.cur = t, NEW a \in Plain, Continue(t, a)
  PROVE  CallsKept({}) /\ at' \in [Thread -> Label] /\ arg' \in [Thread -> Thread] /\ at'[t] = a
<1>1. Goto(t, a) /\ arg' = arg
  BY DEF Continue
<1> QED BY <1>1, LeavesCall, InductiveParts

LEMMA ReturnKeeps ==
  ASSUME Intact, NEW t \in Thread, k.cur = t, NEW a \in Plain, Return(t, a)
  PROVE  CallsKept({}) /\ at' \in [Thread -> Label] /\ arg' \in [Thread -> Thread] /\ at'[t] = a
<1>1. Goto(t, a) /\ arg' = [arg EXCEPT ![t] = Idle] /\ Idle \in Thread
  BY KernelAssumption DEF Return, Call
<1> QED BY <1>1, LeavesCall, InductiveParts

(* An interrupt, which moves no thread in its call.                        *)
LEMMA StillKeeps ==
  ASSUME Intact, UNCHANGED <<at, arg>>
  PROVE  CallsKept({}) /\ at' \in [Thread -> Label] /\ arg' \in [Thread -> Thread]
BY InductiveParts DEF CallsKept, KeptCall

(***************************************************************************)
(* Scheduling, and the steps that only touch the caller's own record.      *)
(***************************************************************************)
(* What rt_schedule finds when it is called between two steps.             *)
LEMMA MayScheduleNow ==
  ASSUME Intact
  PROVE  MaySchedule(k) /\ Undisturbed(k, k, {})
BY InductiveParts DEF Intact, CurrentRuns, MaySchedule, Undisturbed

(* The end of rt_thread_sleep, of rt_thread_yield and of every call that   *)
(* schedules before it returns.                                            *)
LEMMA ScheduleStepKeeps ==
  ASSUME Intact, NEW t \in Thread, NEW from, NEW to \in Plain,
         ScheduleStep(t, from, to), UNCHANGED arg
  PROVE  Intact'
<1>1. k' = Schedule(k) /\ Continue(t, to) /\ k.cur = t
  BY DEF ScheduleStep, Continue, At
<1> QED BY <1>1, ContinueKeeps, MayScheduleNow, ScheduledStep

(* A change of the caller's error, of the lock or of the yield bits.       *)
LEMMA FieldsStep ==
  ASSUME Intact, NEW t \in Thread, At(t, "run") \/ At(t, "awake"),
         k' \in KernelState, k'.stat = k.stat, k'.prio = k.prio, k'.rq = k.rq,
         k'.group = k.group, k'.wl = k.wl, k'.defunct = k.defunct, k'.tmr = k.tmr,
         k'.cur = k.cur, NEW D, CallsKept(D),
         at' \in [Thread -> Label], arg' \in [Thread -> Thread]
  PROVE  Intact'
<1>1. Wf(k', Thread)
  BY InductiveParts, SameListsWf
<1>2. k.stat[k.cur] = "running"
  BY CallerRuns DEF At
<1>3. CurrentRuns(k', at')
  BY <1>2 DEF Intact, CurrentRuns
<1>4. Undisturbed(k', k, D)
  BY DEF Undisturbed, Startable, Unreachable, OffDefunct
<1> QED BY <1>1, <1>3, <1>4, StepKeeps

(* The return of rt_thread_sleep.                                          *)
LEMMA WakeUpKeeps ==
  ASSUME Intact, NEW t \in Thread, WakeUp(t), UNCHANGED arg
  PROVE  Intact'
<1>1. Continue(t, "run") /\ "run" \in Plain /\ At(t, "awake")
  BY DEF WakeUp, Continue, Plain
<1>2. k \in KernelState /\ "EOK" \in Err
  BY InductiveParts DEF Wf, Err
<1>3. /\ k' \in KernelState /\ k'.stat = k.stat /\ k'.prio = k.prio /\ k'.rq = k.rq
      /\ k'.group = k.group /\ k'.wl = k.wl /\ k'.defunct = k.defunct /\ k'.tmr = k.tmr
      /\ k'.cur = k.cur
  BY <1>2 DEF WakeUp, ClearError, KernelState
<1> QED BY <1>1, <1>3, ContinueKeeps, FieldsStep DEF At

(* The scheduler lock.                                                     *)
LEMMA CriticalKeeps ==
  ASSUME Intact, NEW t \in Thread, EnterCritical(t) \/ ExitCritical(t)
  PROVE  Intact'
<1>1. k \in KernelState /\ k.nest \in Nat
  BY InductiveParts DEF Wf, KernelState
<1>2. At(t, "run")
  BY DEF EnterCritical, ExitCritical, Running
<1>3. PICK n \in Nat : k' = [k EXCEPT !.nest = n]
  <2>1. k.nest + 1 \in Nat /\ (IF k.nest <= 1 THEN 0 ELSE k.nest - 1) \in Nat
    BY <1>1
  <2> QED BY <2>1 DEF EnterCritical, ExitCritical
<1>4. /\ k' \in KernelState /\ k'.stat = k.stat /\ k'.prio = k.prio /\ k'.rq = k.rq
      /\ k'.group = k.group /\ k'.wl = k.wl /\ k'.defunct = k.defunct /\ k'.tmr = k.tmr
      /\ k'.cur = k.cur
  BY <1>1, <1>3 DEF KernelState
<1>5. CallsKept({}) /\ at' \in [Thread -> Label] /\ arg' \in [Thread -> Thread]
  <2>1. CASE EnterCritical(t)
    BY <2>1, StillKeeps DEF EnterCritical
  <2>2. CASE ExitCritical(t)
    <3>1. \E a \in Plain : Continue(t, a)
      BY <2>2 DEF ExitCritical, Plain
    <3> QED BY <1>2, <3>1, ContinueKeeps DEF At
  <2> QED BY <2>1, <2>2
<1> QED BY <1>2, <1>4, <1>5, FieldsStep

(* The call of rt_thread_yield.                                            *)
LEMMA YieldCallKeeps ==
  ASSUME Intact, NEW t \in Thread, YieldCall(t)
  PROVE  Intact'
<1>1. At(t, "run") /\ Continue(t, "yield") /\ "yield" \in Plain /\ k' = k
  BY DEF YieldCall, Running, Plain
<1>2. k \in KernelState
  BY InductiveParts DEF Wf
<1> QED BY <1>1, <1>2, ContinueKeeps, FieldsStep DEF At

(* The clock interrupt at the end of a time slice.                         *)
LEMMA SliceEndKeeps ==
  ASSUME Intact, SliceEnd, UNCHANGED arg
  PROVE  Intact'
<1> DEFINE q == [k EXCEPT !.yield = @ \cup {k.cur}]
<1>1. k' = Schedule(q) /\ UNCHANGED <<at, arg>>
  BY DEF SliceEnd, SliceOver
<1>2. /\ q \in KernelState /\ q.stat = k.stat /\ q.prio = k.prio /\ q.rq = k.rq
      /\ q.group = k.group /\ q.wl = k.wl /\ q.defunct = k.defunct /\ q.tmr = k.tmr
      /\ q.cur = k.cur /\ q.nest = k.nest
  BY InductiveParts DEF Wf, KernelState
<1> HIDE DEF q
<1>3. MaySchedule(q)
  <2>1. Wf(q, Thread)
    BY <1>2, InductiveParts, SameListsWf
  <2> QED BY <1>2, <2>1, MayScheduleNow DEF MaySchedule, OneRuns
<1>4. Undisturbed(q, k, {})
  BY <1>2 DEF Undisturbed, Startable, Unreachable, OffDefunct
<1> QED BY <1>1, <1>3, <1>4, StillKeeps, ScheduledStep

(***************************************************************************)
(* Creation, startup and rt_thread_resume.                                 *)
(***************************************************************************)
(* A step of the running thread t that leaves t running.                   *)
LEMMA CallerGoesOn ==
  ASSUME Intact, NEW t \in Thread, k.cur = t, k.stat[t] = "running",
         k'.cur = t, k'.stat[t] = "running", k'.stat[Idle] \in {"ready", "running"},
         \A u \in Thread : k'.stat[u] = "running" => k.stat[u] = "running"
  PROVE  CurrentRuns(k', at')
BY DEF Intact, CurrentRuns

(* A thread that is not started, whatever becomes of its record.           *)
Recorded(q, u, v, p, e, y) == [q EXCEPT !.stat[u] = v, !.prio[u] = p, !.err[u] = e, !.yield = y]

(* rt_thread_create and rt_thread_startup set up the record of a thread    *)
(* that is in no list.                                                     *)
LEMMA RecordStep ==
  ASSUME Intact, NEW t \in Thread, At(t, "run"), NEW u \in Thread, k.stat[u] \in {"free", "init"},
         NEW v \in {"init", "suspend"}, NEW p \in Prio, NEW e \in Err, NEW y \in SUBSET Thread,
         k' = Recorded(k, u, v, p, e, y)
  PROVE  /\ Wf(k', Thread) /\ CurrentRuns(k', at') /\ Undisturbed(k', k, {}) /\ Loose(k', u)
         /\ k'.stat = [k.stat EXCEPT ![u] = v] /\ k'.tmr = k.tmr /\ u \notin k.tmr
<1> DEFINE a == SetStat(k, u, v)
           b == [a EXCEPT !.prio[u] = p]
<1>1. /\ Wf(k, Thread) /\ k \in KernelState /\ Loose(k, u) /\ u \notin k.tmr
      /\ k.cur = t /\ k.stat[t] = "running"
  <2>1. Loose(k, u)
    BY InductiveParts, NoListOf
  <2> QED BY <2>1, InductiveParts, CallerRuns DEF Wf, TimersOfSuspended, At
<1>2. /\ Wf(a, Thread \cup {u}) /\ Loose(a, u)
      /\ a.stat = [k.stat EXCEPT ![u] = v]
      /\ a.prio = k.prio /\ a.err = k.err /\ a.yield = k.yield /\ a.tmr = k.tmr
      /\ a.cur = k.cur /\ a.nest = k.nest /\ a.wl = k.wl /\ a.defunct = k.defunct
  <2>1. v \in Stat /\ v # "ready" /\ Thread \in SUBSET Thread
    BY DEF Stat
  <2>2. a = SetStat(k, u, v)
    OBVIOUS
  <2> HIDE DEF a
  <2> QED BY <1>1, <2>1, <2>2, SetStatWf
<1> HIDE DEF a
<1>3. Wf(a, Thread) /\ a \in KernelState /\ a.stat[u] = v
  <2>1. Thread \cup {u} = Thread
    OBVIOUS
  <2> QED BY <1>1, <1>2, <2>1 DEF Wf, KernelState
<1>4. /\ Wf(b, Thread)
      /\ b.stat = a.stat /\ b.err = a.err /\ b.yield = a.yield /\ b.tmr = a.tmr
      /\ b.cur = a.cur /\ b.nest = a.nest /\ b.rq = a.rq /\ b.wl = a.wl /\ b.defunct = a.defunct
  <2>1. \A o \in Prio : u \notin Range(a.rq[o])
    BY <1>2 DEF Loose
  <2> QED BY <1>3, <2>1, NewPrioWf
<1>5. k' = [b EXCEPT !.err[u] = e, !.yield = y]
  <2>1. k' = [[k EXCEPT !.stat[u] = v, !.prio[u] = p] EXCEPT !.err[u] = e, !.yield = y]
    BY <1>1 DEF KernelState, Recorded
  <2>2. [k EXCEPT !.stat[u] = v, !.prio[u] = p] = [SetStat(k, u, v) EXCEPT !.prio[u] = p]
    BY <1>1 DEF SetStat, KernelState
  <2> QED BY <2>1, <2>2 DEF a
<1> HIDE DEF b
<1>6. /\ k' \in KernelState /\ k'.stat = b.stat /\ k'.prio = b.prio /\ k'.rq = b.rq
      /\ k'.group = b.group /\ k'.wl = b.wl /\ k'.defunct = b.defunct /\ k'.tmr = b.tmr
      /\ k'.cur = b.cur
  <2>1. b \in KernelState
    BY <1>4 DEF Wf
  <2> DEFINE w == [b.err EXCEPT ![u] = e]
  <2>2. w \in [Thread -> Err]
    BY <2>1 DEF KernelState
  <2>3. k' = [b EXCEPT !.err = w, !.yield = y]
    BY <1>5
  <2> HIDE DEF w
  <2> QED BY <2>1, <2>2, <2>3 DEF KernelState
<1>7. Wf(k', Thread)
  BY <1>4, <1>6, SameListsWf
<1>8. k'.stat = [k.stat EXCEPT ![u] = v] /\ u # t /\ u # Idle
  BY <1>1, <1>2, <1>4, <1>6 DEF Intact, CurrentRuns
<1>9. CurrentRuns(k', at')
  <2>1. k'.cur = t /\ k'.stat[t] = "running" /\ k'.stat[Idle] = k.stat[Idle]
    BY <1>1, <1>2, <1>4, <1>6, <1>8, KernelAssumption DEF KernelState
  <2>2. \A x \in Thread : k'.stat[x] = "running" => k.stat[x] = "running"
    BY <1>1, <1>8 DEF KernelState
  <2> QED BY <1>1, <2>1, <2>2, CallerGoesOn DEF Intact, CurrentRuns
<1>10. Undisturbed(k', k, {})
  <2>1. \A x \in Thread : x # u => k'.stat[x] = k.stat[x]
    BY <1>1, <1>8 DEF KernelState
  <2>2. k'.tmr = k.tmr /\ k'.wl = k.wl /\ k'.defunct = k.defunct
    BY <1>2, <1>4, <1>6
  <2>3. k.stat[u] # "suspend" /\ k.stat[u] # "close" /\ k'.stat[u] # "free"
    BY <1>1, <1>8 DEF KernelState
  <2> QED BY <2>1, <2>2, <2>3 DEF Undisturbed, Startable, Unreachable, OffDefunct
<1> QED BY <1>1, <1>2, <1>4, <1>6, <1>7, <1>8, <1>9, <1>10 DEF Loose

(* rt_thread_create.                                                       *)
LEMMA CreateKeeps ==
  ASSUME Intact, NEW t \in Thread, NEW u \in Thread, Create(t, u)
  PROVE  Intact'
<1>1. /\ At(t, "run") /\ k.stat[u] = "free" /\ UNCHANGED <<at, arg>>
      /\ k' = [k EXCEPT !.stat[u] = "init", !.prio[u] = InitPrio[u], !.err[u] = "EOK"]
  BY DEF Create, Running
<1>2. k \in KernelState /\ k.yield \in SUBSET Thread /\ InitPrio[u] \in Prio /\ "EOK" \in Err
  BY InductiveParts, KernelAssumption DEF Wf, KernelState, Err
<1>3. k' = Recorded(k, u, "init", InitPrio[u], "EOK", k.yield)
  BY <1>1, <1>2 DEF KernelState, Recorded
<1>4. Wf(k', Thread) /\ CurrentRuns(k', at') /\ Undisturbed(k', k, {})
  BY <1>1, <1>2, <1>3, RecordStep
<1> QED BY <1>1, <1>4, StillKeeps, StepKeeps

(* rt_thread_startup, up to its call of rt_thread_resume: the thread that  *)
(* is started is suspended and in nobody's list.                           *)
LEMMA StartupKeeps ==
  ASSUME Intact, NEW t \in Thread, NEW u \in Thread, Startup(t, u)
  PROVE  Intact'
<1>1. /\ At(t, "run") /\ k.stat[u] = "init" /\ Call(t, "resumeStat", u)
      /\ k' = [k EXCEPT !.prio[u] = InitPrio[u], !.stat[u] = "suspend", !.yield = @ \ {u}]
  BY DEF Startup, Running
<1>2. k \in KernelState /\ k.yield \ {u} \in SUBSET Thread /\ InitPrio[u] \in Prio /\ k.err[u] \in Err
  BY InductiveParts, KernelAssumption DEF Wf, KernelState
<1>3. k' = Recorded(k, u, "suspend", InitPrio[u], k.err[u], k.yield \ {u})
  BY <1>1, <1>2, ZenonT(40) DEF KernelState, Recorded
<1>4. /\ Wf(k', Thread) /\ CurrentRuns(k', at') /\ Undisturbed(k', k, {}) /\ Loose(k', u)
      /\ k'.stat = [k.stat EXCEPT ![u] = "suspend"] /\ k'.tmr = k.tmr /\ u \notin k.tmr
  BY <1>1, <1>2, <1>3, RecordStep
<1>5. /\ at' \in [Thread -> Label] /\ arg' \in [Thread -> Thread]
      /\ at'[t] = "resumeStat" /\ arg'[t] = u
      /\ \A x \in Thread \ {t} : at'[x] = at[x] /\ arg'[x] = arg[x]
  BY <1>1, InductiveParts DEF Call, Goto, Label
<1>6. NewCall(t)
  <2>1. CallOK(k', at', arg', t)
    <3>1. k'.stat[u] = "suspend" /\ k'.stat[t] # "free"
      BY <1>1, <1>2, <1>4, CallerRuns DEF KernelState, At
    <3>2. u \notin k'.tmr /\ \A l \in WaitList : u \notin Range(k'.wl[l])
      BY <1>4 DEF Loose
    <3> QED BY <1>5, <3>1, <3>2 DEF CallOK, Resuming, Startable, Unreachable
  <2>2. ASSUME NEW x \in Thread \ {t}, at'[x] \in Resuming, ~ Ends(x)  PROVE arg'[x] # u
    <3>1. at[x] \in Resuming /\ CallOK(k, at, arg, x)
      BY <1>5, <2>2 DEF Intact
    <3>2. k.stat[x] \notin {"close", "free"}
      BY <1>4, <2>2, <3>1 DEF Undisturbed, Ends, CallOK, Resuming
    <3> QED BY <1>1, <1>5, <3>1, <3>2 DEF CallOK, Startable, Unreachable
  <2> QED BY <1>5, <2>1, <2>2 DEF NewCall
<1>7. CallsKept({})
  <2>1. k.stat[t] # "free"
    BY <1>1, CallerRuns DEF At
  <2> QED BY <1>5, <1>6, <2>1 DEF CallsKept, KeptCall
<1> QED BY <1>4, <1>5, <1>7, StepKeeps

(* What rt_thread_resume is called for, or finds closed.                   *)
LEMMA Target ==
  ASSUME Intact, NEW t \in Thread, k.cur = t, at[t] \in Resuming
  PROVE  /\ k.stat[t] = "running" /\ arg[t] \in Thread /\ Startable(k, arg[t])
         /\ arg[t] # t /\ k.stat[arg[t]] \in {"suspend", "close"}
<1>1. k.stat[t] = "running" /\ arg[t] \in Thread
  BY CallerRuns, InductiveParts DEF Resuming
<1>2. Startable(k, arg[t])
  BY <1>1 DEF Intact, CallOK
<1> QED BY <1>1, <1>2 DEF Startable, Unreachable

(* rt_thread_resume reads the state of the thread it is called for.        *)
LEMMA ResumeStatKeeps ==
  ASSUME Intact, NEW t \in Thread, ResumeStat(t)
  PROVE  Intact'
<1>1. at[t] = "resumeStat" /\ k.cur = t /\ at[t] \in Resuming /\ k' = k
  BY DEF ResumeStat, At, Resuming
<1>2. k.stat[t] = "running"
  BY <1>1, Target
<1>3. CallsKept({}) /\ at' \in [Thread -> Label] /\ arg' \in [Thread -> Thread]
  <2>1. CASE Continue(t, "resumeLock")
    <3>1. "resumeLock" \in Label /\ Goto(t, "resumeLock") /\ arg' = arg
      BY <2>1 DEF Continue, Label
    <3>2. at' \in [Thread -> Label] /\ at'[t] = "resumeLock" /\ \A u \in Thread : u # t => at'[u] = at[u]
      BY <3>1, GotoTypes
    <3> QED BY <1>1, <1>2, <3>1, <3>2, InductiveParts DEF CallsKept, KeptCall, Resuming
  <2>2. CASE Return(t, "schedule")
    <3>1. "schedule" \in Plain
      BY DEF Plain
    <3> QED BY <1>1, <2>2, <3>1, ReturnKeeps
  <2> QED BY <2>1, <2>2 DEF ResumeStat
<1>4. CurrentRuns(k', at')
  BY <1>1, <1>2 DEF Intact, CurrentRuns
<1> QED BY <1>1, <1>3, <1>4, InductiveParts, MayScheduleNow, StepKeeps

(* Its first locked region, for a thread in no wait list and with no timer;*)
(* one that has been closed leaves the defunct list here.                  *)
LEMMA ResumeLockKeeps ==
  ASSUME Intact, NEW t \in Thread, ResumeLock(t)
  PROVE  Intact'
<1>1. at[t] = "resumeLock" /\ k.cur = t /\ at[t] \in Resuming /\ k' = ResumeUnlink(k, arg[t])
  BY DEF ResumeLock, At, Resuming
<1>2. k.stat[arg[t]] # "ready" /\ arg[t] \in Thread /\ k.stat[t] = "running"
  BY <1>1, Target
<1>3. /\ Wf(k', Thread) /\ k'.tmr = k.tmr \ {arg[t]} /\ k'.stat = k.stat
      /\ k'.cur = k.cur /\ k'.nest = k.nest /\ Fewer(k', k)
  BY <1>1, <1>2, ResumeUnlinkWf, InductiveParts
<1>4. Goto(t, "resumeInsert") /\ UNCHANGED arg /\ "resumeInsert" \in Label
  BY DEF ResumeLock, Continue, Label
<1>5. at' \in [Thread -> Label] /\ at'[t] = "resumeInsert" /\ \A u \in Thread : u # t => at'[u] = at[u]
  BY <1>4, GotoTypes
<1>6. CallsKept({}) /\ arg' \in [Thread -> Thread]
  BY <1>1, <1>2, <1>4, <1>5, InductiveParts DEF CallsKept, KeptCall, Resuming
<1>7. CurrentRuns(k', at')
  BY <1>1, <1>2, <1>3 DEF Intact, CurrentRuns
<1>8. Undisturbed(k', k, {})
  BY <1>3 DEF Undisturbed, Startable, Unreachable, OffDefunct, Fewer
<1> QED BY <1>3, <1>5, <1>6, <1>7, <1>8, StepKeeps

(* Its second locked region, if the thread is alive: it is nobody else's.  *)
LEMMA ResumeInsertKeeps ==
  ASSUME Intact, NEW t \in Thread, ResumeInsert(t), Alive(arg[t])
  PROVE  Intact'
<1> DEFINE u == arg[t]
<1>1. at[t] = "resumeInsert" /\ k.cur = t /\ at[t] \in Resuming /\ k' = InsertThread(k, u)
  BY DEF ResumeInsert, At, Resuming
<1>2. /\ k.stat[u] = "suspend" /\ u \in Thread /\ u \notin k.tmr /\ u # t
      /\ \A l \in WaitList : u \notin Range(k.wl[l])
  BY <1>1, Target DEF Startable, Unreachable, Alive
<1>3. k.stat[t] = "running" /\ Return(t, "schedule") /\ Goto(t, "schedule") /\ arg' = [arg EXCEPT ![t] = Idle]
  BY <1>1, CallerRuns DEF ResumeInsert, Return, Call
<1> HIDE DEF u
<1>4. Loose(k, u)
  <2>1. \A p \in Prio : u \notin Range(k.rq[p])
    BY <1>2, InductiveParts, QueueOf
  <2>2. u \notin Range(k.defunct)
    BY <1>2, InductiveParts DEF Wf, OneList
  <2> QED BY <1>2, <2>1, <2>2 DEF Loose
<1>5. Thread \in SUBSET Thread /\ Thread \cup {u} = Thread
  BY <1>2
<1>6. /\ Wf(k', Thread \cup {u})
      /\ k'.stat = [k.stat EXCEPT ![u] = IF u = k.cur THEN "running" ELSE "ready"]
      /\ k'.tmr = k.tmr /\ k'.cur = k.cur /\ k'.nest = k.nest /\ Fewer(k', k)
  BY <1>1, <1>2, <1>4, <1>5, InductiveParts, InsertThreadWf
<1>7. k'.stat[u] = "ready" /\ \A x \in Thread : x # u => k'.stat[x] = k.stat[x]
  BY <1>1, <1>2, <1>6, InductiveParts DEF Wf, KernelState
<1>8. /\ at' \in [Thread -> Label] /\ arg' \in [Thread -> Thread] /\ at'[t] = "schedule"
      /\ \A x \in Thread \ {t} : at'[x] = at[x] /\ arg'[x] = arg[x]
  <2>1. "schedule" \in Label
    BY DEF Label
  <2> QED BY <1>3, <2>1, GotoTypes, InductiveParts, KernelAssumption
<1>9. CallsKept({u})
  <2>1. ASSUME NEW x \in Thread \ {t}, at[x] \notin Plain  PROVE KeptCall(x, {u})
    <3>1. CallOK(k, at, arg, x)
      BY DEF Intact
    <3>2. CASE at[x] \in Resuming /\ k.stat[x] \notin {"close", "free"}
      BY <1>1, <1>3, <1>8, <3>2 DEF Intact, DistinctArgs, KeptCall, u
    <3>3. CASE at[x] \in Resuming /\ k.stat[x] \in {"close", "free"}
      <4>1. Ends(x)
        BY <1>2, <1>7, <3>3 DEF Ends
      <4> QED BY <1>8, <3>3, <4>1 DEF KeptCall
    <3>4. CASE at[x] \notin Resuming
      <4>1. arg[x] # u
        BY <1>2, <2>1, <3>1, <3>4 DEF CallOK, OffDefunct
      <4> QED BY <1>8, <4>1 DEF KeptCall
    <3> QED BY <3>2, <3>3, <3>4
  <2>2. "schedule" \in Plain /\ k'.stat[u] # "free" /\ k.stat[t] # "free"
    BY <1>3, <1>7 DEF Plain
  <2> QED BY <1>8, <2>1, <2>2 DEF CallsKept
<1>10. CurrentRuns(k', at')
  <2>1. k'.stat[Idle] \in {"ready", "running"}
    BY <1>7, KernelAssumption DEF Intact, CurrentRuns
  <2> QED BY <1>1, <1>2, <1>3, <1>6, <1>7, <2>1, CallerGoesOn
<1>11. Undisturbed(k', k, {u})
  BY <1>2, <1>6, <1>7 DEF Undisturbed, Startable, Unreachable, OffDefunct, Fewer
<1> QED BY <1>5, <1>6, <1>8, <1>9, <1>10, <1>11, StepKeeps

LEMMA Nothing == \E d \in Seq(Thread) : Range(d) = {} /\ IsInjective(d)
<1>1. << >> \in Seq(Thread) /\ Range(<< >>) = {} /\ IsInjective(<< >>)
  BY DEF Range, IsInjective
<1> QED BY <1>1

(* What stays true whatever is torn.                                       *)
QueuesKept ==
  /\ k' \in KernelState /\ QueuesExact(k') /\ ReadyQueued(k', Thread) /\ TimersOfSuspended(k')
  /\ CurrentRuns(k', at')
  /\ at' \in [Thread -> Label] /\ arg' \in [Thread -> Thread]

LEMMA IntactQueues ==
  ASSUME Intact'
  PROVE  QueuesKept
BY DEF Intact, WellFormed, QueuesKept

LEMMA LooseInserted ==
  ASSUME NEW q, Wf(q, Thread), NEW u \in Thread, Loose(q, u), u \notin q.tmr,
         NEW r, r = InsertThread(q, u)
  PROVE  /\ Wf(r, Thread) /\ Untouched(r, q, {u})
         /\ r.stat = [q.stat EXCEPT ![u] = IF u = q.cur THEN "running" ELSE "ready"]
         /\ r.tmr = q.tmr /\ r.cur = q.cur /\ r.nest = q.nest
<1>1. Thread \in SUBSET Thread /\ Thread \cup {u} = Thread
  OBVIOUS
<1>2. /\ Wf(r, Thread \cup {u})
      /\ r.stat = [q.stat EXCEPT ![u] = IF u = q.cur THEN "running" ELSE "ready"]
      /\ r.tmr = q.tmr /\ r.cur = q.cur /\ r.nest = q.nest
  BY <1>1, InsertThreadWf
<1>3. Untouched(r, q, {u})
  BY InsertThreadUntouched
<1> QED BY <1>1, <1>2, <1>3

(* The second locked region, if the thread has been closed since: it goes  *)
(* into the ready queue, from the defunct list or from nowhere, and so may *)
(* run again.                                                              *)
LEMMA ResumeInsertClosed ==
  ASSUME Intact, NEW t \in Thread, ResumeInsert(t), ~ Alive(arg[t])
  PROVE  /\ QueuesKept
         /\ Untouched(k', k, {arg[t]}) /\ k'.stat[arg[t]] = "ready" /\ k'.cur = k.cur
<1>0. PICK d \in Seq(Thread) : Range(d) = {} /\ IsInjective(d)
  BY Nothing
<1> DEFINE u == arg[t]
           q == [k EXCEPT !.defunct = d]
           r == InsertThread(q, u)
<1>1. at[t] = "resumeInsert" /\ k.cur = t /\ at[t] \in Resuming /\ k' = InsertThread(k, u)
  BY DEF ResumeInsert, At, Resuming
<1>2. k.stat[t] = "running" /\ u \in Thread /\ k.stat[u] = "close" /\ u # t
  BY <1>1, Target DEF Alive
<1>3. k \in KernelState /\ Wf(k, Thread)
  BY InductiveParts DEF Wf
<1>4. /\ q \in KernelState /\ q.stat = k.stat /\ q.prio = k.prio /\ q.err = k.err /\ q.yield = k.yield
      /\ q.rq = k.rq /\ q.group = k.group /\ q.wl = k.wl /\ q.tmr = k.tmr
      /\ q.cur = k.cur /\ q.nest = k.nest /\ q.defunct = d
  BY <1>0, <1>3 DEF KernelState
<1>5. k' = [r EXCEPT !.defunct = k.defunct]
  BY <1>1, <1>2, <1>3 DEF InsertThread, KernelState
<1> HIDE DEF u, q
<1>6. Wf(q, Thread)
  <2>1. Range(q.defunct) = {} /\ IsInjective(q.defunct)
    BY <1>0, <1>4
  <2>2. OneList(q)
    BY <1>3, <1>4, <2>1 DEF Wf, OneList
  <2> QED BY <1>3, <1>4, <2>2 DEF Wf, QueuesExact, ReadyQueued, TimersOfSuspended
<1>7. Loose(q, u) /\ u \notin q.tmr
  <2>1. \A p \in Prio : u \notin Range(k.rq[p])
    BY <1>2, <1>3, QueueOf
  <2>2. (\A l \in WaitList : u \notin Range(k.wl[l])) /\ u \notin k.tmr
    BY <1>2, <1>3 DEF Wf, OneList, TimersOfSuspended
  <2>3. Range(q.defunct) = {}
    BY <1>0, <1>4
  <2> QED BY <1>4, <2>1, <2>2, <2>3 DEF Loose
<1>8. r = InsertThread(q, u)
  OBVIOUS
<1> HIDE DEF r
<1>9. /\ Wf(r, Thread) /\ Untouched(r, q, {u})
      /\ r.stat = [q.stat EXCEPT ![u] = IF u = q.cur THEN "running" ELSE "ready"]
      /\ r.tmr = q.tmr /\ r.cur = q.cur /\ r.nest = q.nest
  BY <1>2, <1>6, <1>7, <1>8, LooseInserted
<1>10. /\ k' \in KernelState /\ k'.stat = r.stat /\ k'.prio = r.prio /\ k'.rq = r.rq /\ k'.group = r.group
       /\ k'.wl = r.wl /\ k'.tmr = r.tmr /\ k'.cur = r.cur /\ k'.nest = r.nest
  <2>1. r \in KernelState /\ k.defunct \in Seq(Thread)
    BY <1>3, <1>9 DEF Wf, KernelState
  <2> QED BY <1>5, <2>1 DEF KernelState
<1>11. k'.stat[u] = "ready" /\ \A x \in Thread : x # u => k'.stat[x] = k.stat[x]
  BY <1>1, <1>2, <1>3, <1>4, <1>9, <1>10 DEF KernelState
<1>12. QueuesExact(k') /\ ReadyQueued(k', Thread) /\ TimersOfSuspended(k')
  BY <1>9, <1>10 DEF Wf, QueuesExact, ReadyQueued, TimersOfSuspended
<1>13. CurrentRuns(k', at')
  <2>1. k'.stat[Idle] \in {"ready", "running"}
    BY <1>11, KernelAssumption DEF Intact, CurrentRuns
  <2> QED BY <1>1, <1>2, <1>4, <1>9, <1>10, <1>11, <2>1, CallerGoesOn
<1>14. at' \in [Thread -> Label] /\ arg' \in [Thread -> Thread]
  <2>1. Return(t, "schedule") /\ "schedule" \in Plain
    BY DEF ResumeInsert, Plain
  <2> QED BY <1>1, <2>1, ReturnKeeps
<1>15. Untouched(k', k, {u})
  BY <1>4, <1>9, <1>10 DEF Untouched
<1> QED BY <1>4, <1>9, <1>10, <1>11, <1>12, <1>13, <1>14, <1>15 DEF QueuesKept, u

(***************************************************************************)
(* Blocking and waking.                                                    *)
(***************************************************************************)
(* The state a thread is left in when it suspends itself, before the       *)
(* rt_schedule call that follows.                                          *)
LEMMA BlockedStep ==
  ASSUME Intact, NEW t \in Thread, MayBlock(t), Continue(t, "asleep") \/ Continue(t, "schedule"),
         Wf(k', Thread), k'.stat = [k.stat EXCEPT ![t] = "suspend"],
         k'.cur = k.cur, k'.nest = k.nest, \A x \in Thread \ {t} : x \in k'.tmr => x \in k.tmr,
         \A l \in WaitList : \A x \in Range(k'.wl[l]) : x = t \/ x \in Range(k.wl[l]),
         Range(k'.defunct) \subseteq Range(k.defunct)
  PROVE  Intact'
<1>1. k.cur = t /\ k.nest = 0 /\ t # Idle /\ k.stat[t] = "running"
  BY CallerRuns DEF MayBlock, At
<1>2. k'.stat[t] = "suspend" /\ \A x \in Thread : x # t => k'.stat[x] = k.stat[x]
  BY InductiveParts DEF Wf, KernelState
<1>3. /\ CallsKept({}) /\ at' \in [Thread -> Label] /\ arg' \in [Thread -> Thread]
      /\ at'[t] \in {"schedule", "asleep"}
  <2>1. "asleep" \in Plain /\ "schedule" \in Plain
    BY DEF Plain
  <2> QED BY <1>1, <2>1, ContinueKeeps
<1>4. CurrentRuns(k', at')
  BY <1>1, <1>2, <1>3, KernelAssumption DEF Intact, CurrentRuns
<1>5. Undisturbed(k', k, {})
  BY <1>1, <1>2 DEF Undisturbed, Startable, Unreachable, OffDefunct
<1> QED BY <1>3, <1>4, <1>5, StepKeeps

(* rt_thread_sleep, up to its call of rt_schedule.                         *)
LEMMA SleepKeeps ==
  ASSUME Intact, NEW t \in Thread, Sleep(t), UNCHANGED arg
  PROVE  Intact'
<1> DEFINE u == Suspend(k, t)
<1>1. MayBlock(t) /\ k' = StartTimer(u, t) /\ Continue(t, "asleep") /\ k.stat[t] = "running"
  BY CallerRuns DEF Sleep, Continue, MayBlock, At
<1>2. /\ Wf(u, Thread) /\ u.stat = [k.stat EXCEPT ![t] = "suspend"] /\ u.tmr = k.tmr
      /\ u.cur = k.cur /\ u.nest = k.nest /\ Fewer(u, k)
  BY <1>1, InductiveParts, SuspendWf
<1> HIDE DEF u
<1>3. u.stat[t] = "suspend"
  BY <1>2, InductiveParts DEF Wf, KernelState
<1>4. /\ Wf(k', Thread) /\ k'.tmr = u.tmr \cup {t}
      /\ k'.stat = u.stat /\ k'.cur = u.cur /\ k'.nest = u.nest /\ k'.wl = u.wl /\ k'.defunct = u.defunct
  BY <1>1, <1>2, <1>3, StartTimerWf
<1> QED BY <1>1, <1>2, <1>4, BlockedStep DEF Fewer

(* An IPC object takes the thread in, with or without a timeout.           *)
LEMMA WaitOnKeeps ==
  ASSUME Intact, NEW t \in Thread, NEW l \in WaitList, WaitOn(t, l)
  PROVE  Intact'
<1> DEFINE c == ClearError(k, t)
           u == SuspendOn(c, t, l, "fifo")
<1>1. /\ MayBlock(t) /\ Continue(t, "schedule") /\ k.stat[t] = "running"
      /\ k' = u \/ k' = StartTimer(u, t)
  BY CallerRuns DEF WaitOn, MayBlock, At
<1>2. /\ c \in KernelState /\ c.stat = k.stat /\ c.prio = k.prio /\ c.rq = k.rq /\ c.group = k.group
      /\ c.wl = k.wl /\ c.defunct = k.defunct /\ c.tmr = k.tmr /\ c.cur = k.cur /\ c.nest = k.nest
  <2>1. k \in KernelState /\ "EOK" \in Err
    BY InductiveParts DEF Wf, Err
  <2> QED BY <2>1 DEF ClearError, KernelState
<1> HIDE DEF c
<1>3. Wf(c, Thread)
  BY <1>2, InductiveParts, SameListsWf
<1>4. /\ Wf(u, Thread) /\ u.stat = [c.stat EXCEPT ![t] = "suspend"] /\ u.tmr = c.tmr
      /\ u.cur = c.cur /\ u.nest = c.nest
      /\ OnlyJoins(u, c, t, l)
      /\ Range(u.defunct) \subseteq Range(c.defunct)
  <2>1. c.stat[t] \in {"ready", "running"}
    BY <1>1, <1>2
  <2>2. u = SuspendOn(c, t, l, "fifo")
    OBVIOUS
  <2> HIDE DEF u
  <2> QED BY <1>3, <2>1, <2>2, SuspendOnWf, SMTT(40)
<1> HIDE DEF u
<1>5. \A m \in WaitList : \A x \in Range(u.wl[m]) : x = t \/ x \in Range(c.wl[m])
  BY <1>4 DEF OnlyJoins
<1>6. CASE k' = u
  BY <1>1, <1>2, <1>4, <1>5, <1>6, BlockedStep
<1>7. CASE k' = StartTimer(u, t)
  <2>1. u.stat[t] = "suspend" /\ Wf(u, Thread)
    BY <1>2, <1>4 DEF KernelState
  <2>2. /\ Wf(k', Thread) /\ k'.tmr = u.tmr \cup {t}
        /\ k'.stat = u.stat /\ k'.cur = u.cur /\ k'.nest = u.nest /\ k'.wl = u.wl /\ k'.defunct = u.defunct
    BY <1>7, <2>1, StartTimerWf
  <2> QED BY <1>1, <1>2, <1>4, <1>5, <2>2, BlockedStep
<1> QED BY <1>1, <1>6, <1>7

(* An IPC object lets its first waiter go, from a thread.                  *)
LEMMA FirstWaiter ==
  ASSUME Intact, NEW l \in WaitList, k.wl[l] # << >>, NEW r, r = ResumeFirst(k, l)
  PROVE  \E u \in Thread :
           /\ k.stat[u] = "suspend" /\ u \in Range(k.wl[l])
           /\ Wf(r, Thread) /\ r.tmr = k.tmr \ {u}
           /\ r.stat = [k.stat EXCEPT ![u] = IF u = k.cur THEN "running" ELSE "ready"]
           /\ r.cur = k.cur /\ r.nest = k.nest /\ Fewer(r, k)
<1> DEFINE u == Head(k.wl[l])
<1>1. u \in Thread /\ u \in Range(k.wl[l])
  <2>1. k.wl[l] \in Seq(Thread)
    BY InductiveParts DEF Wf, KernelState
  <2> QED BY <2>1, HeadFacts
<1>2. r = Resume(k, u)
  BY DEF ResumeFirst
<1> HIDE DEF u
<1>3. k.stat[u] = "suspend"
  BY <1>1, InductiveParts DEF Wf, OneList
<1>4. /\ Wf(r, Thread) /\ r.tmr = k.tmr \ {u}
      /\ r.stat = [k.stat EXCEPT ![u] = IF u = k.cur THEN "running" ELSE "ready"]
      /\ r.cur = k.cur /\ r.nest = k.nest /\ Fewer(r, k)
  BY <1>1, <1>2, <1>3, InductiveParts, ResumeWf
<1> QED BY <1>1, <1>3, <1>4

(* The thread that lets the waiter go is another one, and goes on.         *)
LEMMA WakeKeeps ==
  ASSUME Intact, NEW t \in Thread, NEW l \in WaitList, Wake(t, l)
  PROVE  Intact'
<1>1. /\ k.cur = t /\ k.stat[t] = "running" /\ k.wl[l] # << >>
      /\ k' = ResumeFirst(k, l) /\ Continue(t, "schedule")
  BY CallerRuns DEF Wake, Running, At
<1>2. PICK u \in Thread :
           /\ k.stat[u] = "suspend" /\ u \in Range(k.wl[l])
           /\ Wf(k', Thread) /\ k'.tmr = k.tmr \ {u}
           /\ k'.stat = [k.stat EXCEPT ![u] = IF u = k.cur THEN "running" ELSE "ready"]
           /\ k'.cur = k.cur /\ k'.nest = k.nest /\ Fewer(k', k)
  BY <1>1, FirstWaiter
<1>3. u # t /\ k'.stat[u] = "ready" /\ \A x \in Thread : x # u => k'.stat[x] = k.stat[x]
  BY <1>1, <1>2, InductiveParts DEF Wf, KernelState
<1>4. CurrentRuns(k', at')
  <2>1. k'.stat[Idle] \in {"ready", "running"}
    BY <1>3, KernelAssumption DEF Intact, CurrentRuns
  <2> QED BY <1>1, <1>2, <1>3, <2>1, CallerGoesOn
<1>5. Undisturbed(k', k, {})
  BY <1>2, <1>3 DEF Undisturbed, Startable, Unreachable, OffDefunct, Fewer
<1>6. CallsKept({}) /\ at' \in [Thread -> Label] /\ arg' \in [Thread -> Thread]
  <2>1. "schedule" \in Plain
    BY DEF Plain
  <2> QED BY <1>1, <2>1, ContinueKeeps
<1> QED BY <1>2, <1>4, <1>5, <1>6, StepKeeps

(* From an interrupt, it may be the current thread itself, on its way into *)
(* rt_schedule, that is let go.                                            *)
LEMMA WakeFromIsrKeeps ==
  ASSUME Intact, NEW l \in WaitList, WakeFromIsr(l)
  PROVE  Intact'
<1> DEFINE r == ResumeFirst(k, l)
<1>1. k.wl[l] # << >> /\ k' = Schedule(r) /\ UNCHANGED <<at, arg>>
  BY DEF WakeFromIsr
<1>2. PICK u \in Thread :
           /\ k.stat[u] = "suspend" /\ u \in Range(k.wl[l])
           /\ Wf(r, Thread) /\ r.tmr = k.tmr \ {u}
           /\ r.stat = [k.stat EXCEPT ![u] = IF u = k.cur THEN "running" ELSE "ready"]
           /\ r.cur = k.cur /\ r.nest = k.nest /\ Fewer(r, k)
  BY <1>1, FirstWaiter
<1> HIDE DEF r
<1>3. /\ r.stat[u] = IF u = k.cur THEN "running" ELSE "ready"
      /\ \A x \in Thread : x # u => r.stat[x] = k.stat[x]
  BY <1>2, InductiveParts DEF Wf, KernelState
<1>4. MaySchedule(r)
  BY <1>2, <1>3, KernelAssumption DEF MaySchedule, OneRuns, Intact, CurrentRuns
<1>5. Undisturbed(r, k, {})
  BY <1>2, <1>3 DEF Undisturbed, Startable, Unreachable, OffDefunct, Fewer
<1> QED BY <1>1, <1>4, <1>5, StillKeeps, ScheduledStep

(* A thread timer expires in the clock interrupt.                          *)
LEMMA TimerExpiresKeeps ==
  ASSUME Intact, NEW t \in Thread, TimerExpires(t), UNCHANGED arg
  PROVE  Intact'
<1> DEFINE r == Expired(k, t)
<1>1. k' = Schedule(r) /\ UNCHANGED <<at, arg>> /\ t \in k.tmr
  BY DEF TimerExpires, Timeout, Expired
<1>2. /\ k.stat[t] = "suspend" /\ Wf(r, Thread)
      /\ r.stat = [k.stat EXCEPT ![t] = IF t = k.cur THEN "running" ELSE "ready"]
      /\ r.err = [k.err EXCEPT ![t] = "ETIMEOUT"]
      /\ r.tmr = k.tmr \ {t} /\ r.cur = k.cur /\ r.nest = k.nest /\ Fewer(r, k)
  <2>1. Wf(k, Thread) /\ t \in k.tmr /\ r = Expired(k, t)
    BY <1>1, InductiveParts
  <2> HIDE DEF r
  <2> QED BY <2>1, ExpiredWf
<1> HIDE DEF r
<1>3. /\ r.stat[t] = IF t = k.cur THEN "running" ELSE "ready"
      /\ \A x \in Thread : x # t => r.stat[x] = k.stat[x]
  BY <1>2, InductiveParts DEF Wf, KernelState
<1>4. MaySchedule(r)
  BY <1>2, <1>3, KernelAssumption DEF MaySchedule, OneRuns, Intact, CurrentRuns
<1>5. Undisturbed(r, k, {})
  <2>1. r.tmr \subseteq k.tmr /\ ~ Unreachable(k, t) /\ ~ OffDefunct(k, t)
    BY <1>1, <1>2 DEF Unreachable, OffDefunct
  <2> QED BY <1>2, <1>3, <2>1 DEF Undisturbed, Startable, Unreachable, OffDefunct, Fewer
<1> QED BY <1>1, <1>4, <1>5, StillKeeps, ScheduledStep

(* A change of priority, of any thread in any state.                       *)
LEMMA ChangePriorityKeeps ==
  ASSUME Intact, NEW t \in Thread, NEW u \in Thread, NEW p \in Prio, ChangePriority(t, u, p)
  PROVE  Intact'
<1>1. k.cur = t /\ k.stat[t] = "running" /\ k' = SetPriority(k, u, p) /\ UNCHANGED <<at, arg>>
  BY CallerRuns DEF ChangePriority, Running, At
<1>2. /\ Wf(k', Thread) /\ k'.stat = k.stat /\ k'.err = k.err /\ k'.yield = k.yield
      /\ k'.tmr = k.tmr /\ k'.cur = k.cur /\ k'.nest = k.nest /\ Fewer(k', k)
      /\ k'.prio = [k.prio EXCEPT ![u] = p]
  <2>1. Wf(k, Thread) /\ k.stat[k.cur] # "ready" /\ k' = SetPriority(k, u, p)
    BY <1>1, InductiveParts
  <2> QED BY <2>1, SetPriorityWf
<1>3. CurrentRuns(k', at')
  BY <1>1, <1>2 DEF Intact, CurrentRuns
<1>4. Undisturbed(k', k, {})
  BY <1>2 DEF Undisturbed, Startable, Unreachable, OffDefunct, Fewer
<1> QED BY <1>1, <1>2, <1>3, <1>4, StillKeeps, StepKeeps

(***************************************************************************)
(* The end of a thread.                                                    *)
(***************************************************************************)
(* A loose thread with no timer is closed and linked into the defunct list.*)
LEMMA CloseWf ==
  ASSUME NEW q, NEW S \in SUBSET Thread, Wf(q, S), NEW t \in Thread, Loose(q, t), t \notin q.tmr,
         NEW r, r = Close(q, t)
  PROVE  /\ Wf(r, S \cup {t}) /\ r.stat = [q.stat EXCEPT ![t] = "close"]
         /\ r.tmr = q.tmr /\ r.cur = q.cur /\ r.nest = q.nest /\ r.wl = q.wl
         /\ \A x : x \in Range(r.defunct) <=> x \in Range(q.defunct) \/ x = t
<1> DEFINE u == SetStat(q, t, "close")
           d == <<t>> \o u.defunct
<1>1. /\ Wf(u, S \cup {t}) /\ Loose(u, t)
      /\ u.stat = [q.stat EXCEPT ![t] = "close"]
      /\ u.prio = q.prio /\ u.err = q.err /\ u.yield = q.yield /\ u.tmr = q.tmr
      /\ u.cur = q.cur /\ u.nest = q.nest /\ u.wl = q.wl /\ u.defunct = q.defunct
  <2>1. "close" \in Stat /\ "close" # "ready" /\ u = SetStat(q, t, "close")
    BY DEF Stat
  <2> HIDE DEF u
  <2> QED BY <2>1, SetStatWf
<1>2. r = [u EXCEPT !.yield = u.yield \ {t}, !.defunct = d]
  <2>1. q \in KernelState
    BY DEF Wf
  <2> QED BY <2>1 DEF Close, SetStat, KernelState
<1> HIDE DEF u
<1>3. /\ u \in KernelState /\ QueuesExact(u) /\ ReadyQueued(u, S \cup {t}) /\ OneList(u)
      /\ TimersOfSuspended(u) /\ u.stat[t] = "close"
  BY <1>1 DEF Wf, KernelState
<1>4. d \in Seq(Thread) /\ IsInjective(d) /\ \A x : x \in Range(d) <=> x \in Range(u.defunct) \/ x = t
  <2>1. u.defunct \in Seq(Thread) /\ IsInjective(u.defunct) /\ t \notin Range(u.defunct)
    BY <1>1, <1>3 DEF KernelState, OneList, Loose
  <2> QED BY <2>1, PushFacts
<1> HIDE DEF d
<1>5. /\ r \in KernelState /\ r.stat = u.stat /\ r.prio = u.prio /\ r.rq = u.rq /\ r.group = u.group
      /\ r.wl = u.wl /\ r.defunct = d /\ r.tmr = u.tmr /\ r.cur = u.cur /\ r.nest = u.nest
  BY <1>2, <1>3, <1>4, ZenonT(40) DEF KernelState
<1>6. QueuesExact(r) /\ ReadyQueued(r, S \cup {t}) /\ OneList(r) /\ TimersOfSuspended(r)
  BY <1>3, <1>4, <1>5 DEF QueuesExact, ReadyQueued, OneList, TimersOfSuspended
<1> QED BY <1>1, <1>4, <1>5, <1>6 DEF Wf

(* What rt_thread_exit and rt_thread_delete do to a live thread.           *)
Ended(q, t) == Close(StopTimer(IF q.stat[t] = "init" THEN q ELSE RemoveThread(q, t), t), t)

(* It is linked into no list but that of the defunct threads.              *)
OnlyDefunct(r, q, t) ==
  /\ \A l \in WaitList : Range(r.wl[l]) \subseteq Range(q.wl[l])
  /\ \A x \in Range(r.defunct) : x \in Range(q.defunct) \/ x = t

(* Both leave well-formed lists: the node moves to the defunct list.       *)
LEMMA EndedWf ==
  ASSUME NEW q, Wf(q, Thread), NEW t \in Thread, NEW r, r = Ended(q, t)
  PROVE  /\ Wf(r, Thread) /\ r.stat = [q.stat EXCEPT ![t] = "close"]
         /\ r.tmr = q.tmr \ {t} /\ r.cur = q.cur /\ r.nest = q.nest
         /\ OnlyDefunct(r, q, t)
<1> DEFINE u == IF q.stat[t] = "init" THEN q ELSE RemoveThread(q, t)
           v == StopTimer(u, t)
<1>1. Wf(u, Thread \ {t}) /\ Loose(u, t) /\ SameThreads(u, q) /\ Fewer(u, q)
  <2>1. CASE q.stat[t] = "init"
    <3>1. Wf(q, Thread \ {t})
      BY DEF Wf, ReadyQueued
    <3>2. Loose(q, t)
      BY <2>1, NoListOf
    <3> QED BY <2>1, <3>1, <3>2 DEF SameThreads, Fewer
  <2>2. CASE q.stat[t] # "init"
    BY <2>2, RemoveThreadWf
  <2> QED BY <2>1, <2>2
<1> HIDE DEF u
<1>2. /\ v \in KernelState /\ v.stat = u.stat /\ v.prio = u.prio /\ v.rq = u.rq /\ v.group = u.group
      /\ v.wl = u.wl /\ v.defunct = u.defunct /\ v.tmr = u.tmr \ {t} /\ v.cur = u.cur /\ v.nest = u.nest
  BY <1>1 DEF Wf, StopTimer, KernelState
<1>3. r = Close(v, t)
  BY DEF u, Ended
<1> HIDE DEF v
<1>4. Wf(v, Thread \ {t}) /\ Loose(v, t) /\ t \notin v.tmr
  <2>1. Wf(v, Thread \ {t})
    BY <1>1, <1>2, SameListsWf
  <2> QED BY <1>1, <1>2, <2>1 DEF Loose
<1>5. /\ Wf(r, (Thread \ {t}) \cup {t}) /\ r.stat = [v.stat EXCEPT ![t] = "close"]
      /\ r.tmr = v.tmr /\ r.cur = v.cur /\ r.nest = v.nest /\ r.wl = v.wl
      /\ \A x : x \in Range(r.defunct) <=> x \in Range(v.defunct) \/ x = t
  <2>1. Thread \ {t} \in SUBSET Thread
    OBVIOUS
  <2> QED BY <1>3, <1>4, <2>1, CloseWf
<1>6. (Thread \ {t}) \cup {t} = Thread
  OBVIOUS
<1> QED BY <1>1, <1>2, <1>5, <1>6 DEF SameThreads, Fewer, OnlyDefunct

(* rt_thread_exit.                                                         *)
LEMMA ExitKeeps ==
  ASSUME Intact, NEW t \in Thread, Exit(t)
  PROVE  Intact'
<1> DEFINE r == Close(StopTimer(RemoveThread(k, t), t), t)
<1>1. /\ k.cur = t /\ t # Idle /\ k.nest = 0 /\ k.stat[t] = "running"
      /\ k' = Schedule(r) /\ UNCHANGED <<at, arg>>
  BY CallerRuns DEF Exit, MayBlock, At
<1>2. /\ Wf(r, Thread) /\ r.stat = [k.stat EXCEPT ![t] = "close"]
      /\ r.tmr = k.tmr \ {t} /\ r.cur = k.cur /\ r.nest = k.nest
      /\ OnlyDefunct(r, k, t)
  <2>1. r = Ended(k, t) /\ Wf(k, Thread)
    BY <1>1, InductiveParts DEF Ended
  <2> HIDE DEF r
  <2> QED BY <2>1, EndedWf
<1> HIDE DEF r
<1>3. r.stat[t] = "close" /\ \A x \in Thread : x # t => r.stat[x] = k.stat[x]
  BY <1>2, InductiveParts DEF Wf, KernelState
<1>4. MaySchedule(r)
  BY <1>1, <1>2, <1>3, KernelAssumption DEF MaySchedule, OneRuns, Intact, CurrentRuns
<1>5. Undisturbed(r, k, {})
  BY <1>1, <1>2, <1>3 DEF Undisturbed, Startable, Unreachable, OffDefunct, OnlyDefunct
<1> QED BY <1>1, <1>4, <1>5, StillKeeps, ScheduledStep

(* rt_thread_kill with SIGQUIT, of any thread but the caller and the idle  *)
(* thread: a call the victim was in is over, and one about it finds it     *)
(* closed.                                                                 *)
LEMMA KillKeeps ==
  ASSUME Intact, NEW t \in Thread, NEW u \in Thread, Kill(t, u)
  PROVE  Intact'
<1>1. /\ k.cur = t /\ k.stat[t] = "running" /\ u # t /\ u # Idle
      /\ k.stat[u] \notin {"free", "close"} /\ UNCHANGED <<at, arg>>
      /\ k' = Close(StopTimer(IF k.stat[u] = "init" THEN k ELSE RemoveThread(k, u), u), u)
  BY CallerRuns DEF Kill, Running, At, Deletable
<1>2. /\ Wf(k', Thread) /\ k'.stat = [k.stat EXCEPT ![u] = "close"]
      /\ k'.tmr = k.tmr \ {u} /\ k'.cur = k.cur /\ k'.nest = k.nest
      /\ OnlyDefunct(k', k, u)
  <2>1. k' = Ended(k, u) /\ Wf(k, Thread)
    BY <1>1, InductiveParts DEF Ended
  <2> QED BY <2>1, EndedWf
<1>3. k'.stat[u] = "close" /\ \A x \in Thread : x # u => k'.stat[x] = k.stat[x]
  BY <1>2, InductiveParts DEF Wf, KernelState
<1>4. CurrentRuns(k', at')
  <2>1. k'.stat[Idle] \in {"ready", "running"}
    BY <1>1, <1>3, KernelAssumption DEF Intact, CurrentRuns
  <2> QED BY <1>1, <1>2, <1>3, <2>1, CallerGoesOn
<1>5. Undisturbed(k', k, {})
  BY <1>1, <1>2, <1>3 DEF Undisturbed, Startable, Unreachable, OffDefunct, OnlyDefunct
<1> QED BY <1>1, <1>2, <1>4, <1>5, StillKeeps, StepKeeps

(* The idle thread takes a closed thread off the defunct list.             *)
LEMMA ReapKeeps ==
  ASSUME Intact, Reap
  PROVE  Intact'
<1> DEFINE h == Head(k.defunct)
           q == Unlink(k, h)
<1>1. k.cur = Idle /\ at[Idle] = "run" /\ k.defunct # << >> /\ k' = Schedule(q)
  BY DEF Reap, At
<1>2. Goto(Idle, "freeObject") /\ arg' = [arg EXCEPT ![Idle] = h]
  BY DEF Reap, Call
<1>3. h \in Thread /\ k.stat[h] = "close"
  <2>1. k.defunct \in Seq(Thread)
    BY InductiveParts DEF Wf, KernelState
  <2>2. h \in Thread /\ h \in Range(k.defunct)
    BY <1>1, <2>1, HeadFacts
  <2> QED BY <2>2, InductiveParts DEF Wf, OneList
<1> HIDE DEF h
<1>4. Wf(q, Thread) /\ Loose(q, h) /\ SameThreads(q, k) /\ Fewer(q, k)
  <2>1. Thread \in SUBSET Thread /\ k.stat[h] # "ready"
    BY <1>3
  <2> QED BY <1>3, <2>1, InductiveParts, UnlinkWf
<1> HIDE DEF q
<1>5. MaySchedule(q)
  BY <1>4, MayScheduleNow DEF MaySchedule, OneRuns, SameThreads
<1>6. Undisturbed(q, k, {})
  BY <1>4 DEF Undisturbed, Startable, Unreachable, OffDefunct, SameThreads, Fewer
<1>7. Rescheduled(k', q) /\ k.stat[Idle] # "free"
  BY <1>1, <1>5, ScheduleWf DEF Intact, CurrentRuns
<1>8. /\ at' \in [Thread -> Label] /\ arg' \in [Thread -> Thread]
      /\ at'[Idle] = "freeObject" /\ arg'[Idle] = h
      /\ \A x \in Thread \ {Idle} : at'[x] = at[x] /\ arg'[x] = arg[x]
  <2>1. "freeObject" \in Label
    BY DEF Label
  <2> QED BY <1>2, <1>3, <2>1, GotoTypes, InductiveParts, KernelAssumption
<1>9. NewCall(Idle)
  <2>1. k'.stat[h] = "close" /\ h \notin Range(k'.defunct)
    BY <1>3, <1>4, <1>7 DEF Rescheduled, SameThreads, Loose, Fewer
  <2>2. k'.stat[Idle] # "free"
    <3>1. q.stat[Idle] # "free" /\ Idle \in Thread
      BY <1>4, <1>7, KernelAssumption DEF SameThreads
    <3> QED BY <1>7, <3>1 DEF Rescheduled
  <2>3. CallOK(k', at', arg', Idle)
    BY <1>8, <2>1, <2>2 DEF CallOK, Resuming, OffDefunct
  <2> QED BY <1>8, <2>3 DEF NewCall, Resuming
<1>10. CallsKept({})
  BY <1>7, <1>8, <1>9 DEF CallsKept, KeptCall
<1> QED BY <1>1, <1>5, <1>6, <1>8, <1>10, ScheduledStep

(* And releases it: the lists and the current thread are not concerned,    *)
LEMMA FreeObjectFacts ==
  ASSUME Intact, FreeObject
  PROVE  /\ Wf(k', Thread) /\ CurrentRuns(k', at') /\ Undisturbed(k', k, {arg[Idle]})
         /\ k.cur = Idle /\ k.stat[Idle] = "running" /\ k.stat[arg[Idle]] = "close" /\ arg[Idle] \in Thread
         /\ k'.stat[arg[Idle]] = "free" /\ \A x \in Thread : x # arg[Idle] => k'.stat[x] = k.stat[x]
         /\ at' \in [Thread -> Label] /\ arg' \in [Thread -> Thread]
         /\ at'[Idle] = "run" /\ at'[arg[Idle]] = "run"
         /\ \A x \in Thread \ {Idle, arg[Idle]} : at'[x] = at[x] /\ arg'[x] = arg[x]
<1> DEFINE u == arg[Idle]
<1>1. /\ k.cur = Idle /\ at[Idle] = "freeObject" /\ k' = SetStat(k, u, "free")
      /\ at' = [at EXCEPT ![Idle] = "run", ![u] = "run"]
      /\ arg' = [arg EXCEPT ![Idle] = Idle, ![u] = Idle]
  BY DEF FreeObject, At, SetStat
<1>2. /\ u \in Thread /\ k.stat[u] = "close" /\ u \notin Range(k.defunct)
      /\ k.stat[Idle] = "running" /\ Idle \in Thread
  BY <1>1, InductiveParts, CallerRuns, KernelAssumption DEF Intact, CallOK, OffDefunct
<1>3. /\ at' \in [Thread -> Label] /\ arg' \in [Thread -> Thread]
      /\ at'[Idle] = "run" /\ at'[u] = "run"
      /\ \A x \in Thread \ {Idle, u} : at'[x] = at[x] /\ arg'[x] = arg[x]
  <2>1. "run" \in Label
    BY DEF Label
  <2> QED BY <1>1, <1>2, <2>1, InductiveParts
<1> HIDE DEF u
<1>4. Loose(k, u) /\ u \notin k.tmr
  <2>1. \A p \in Prio : u \notin Range(k.rq[p])
    BY <1>2, InductiveParts, QueueOf
  <2> QED BY <1>2, <2>1, InductiveParts DEF Wf, OneList, TimersOfSuspended, Loose
<1>5. /\ Wf(k', Thread \cup {u})
      /\ k'.stat = [k.stat EXCEPT ![u] = "free"]
      /\ k'.tmr = k.tmr /\ k'.cur = k.cur /\ k'.wl = k.wl /\ k'.defunct = k.defunct
  <2>1. "free" \in Stat /\ "free" # "ready" /\ Thread \in SUBSET Thread /\ Wf(k, Thread)
    BY InductiveParts DEF Stat
  <2>2. k' = SetStat(k, u, "free")
    BY <1>1
  <2> QED BY <1>2, <1>4, <2>1, <2>2, SetStatWf
<1>6. Wf(k', Thread)
  <2>1. Thread \cup {u} = Thread
    BY <1>2
  <2> QED BY <1>5, <2>1
<1>7. k'.stat[u] = "free" /\ \A x \in Thread : x # u => k'.stat[x] = k.stat[x]
  BY <1>2, <1>5, InductiveParts DEF Wf, KernelState
<1>8. CurrentRuns(k', at')
  <2>1. k'.stat[Idle] = "running"
    BY <1>2, <1>7
  <2> QED BY <1>1, <1>2, <1>5, <1>7, <2>1, CallerGoesOn
<1>9. Undisturbed(k', k, {u})
  BY <1>5, <1>7 DEF Undisturbed, Startable, Unreachable, OffDefunct
<1> QED BY <1>1, <1>2, <1>3, <1>6, <1>7, <1>8, <1>9 DEF u

(* nor is any call, if no living thread is in the middle of starting it.   *)
LEMMA FreeObjectKeeps ==
  ASSUME Intact, FreeObject, ~ InStart(arg[Idle])
  PROVE  Intact'
<1> DEFINE u == arg[Idle]
<1>1. /\ Wf(k', Thread) /\ CurrentRuns(k', at') /\ Undisturbed(k', k, {u})
      /\ k.stat[Idle] = "running" /\ k.stat[u] = "close" /\ u \in Thread
      /\ k'.stat[u] = "free" /\ \A x \in Thread : x # u => k'.stat[x] = k.stat[x]
      /\ at' \in [Thread -> Label] /\ arg' \in [Thread -> Thread]
      /\ at'[Idle] = "run" /\ at'[u] = "run"
      /\ \A x \in Thread \ {Idle, u} : at'[x] = at[x] /\ arg'[x] = arg[x]
  BY FreeObjectFacts
<1>2. \A x \in Thread : at[x] \in Resuming /\ arg[x] = u => k.stat[x] \in {"close", "free"}
  BY DEF InStart, Alive
<1> HIDE DEF u
<1>3. ASSUME NEW x \in Thread \ {Idle, u}, at[x] \notin Plain  PROVE KeptCall(x, {u})
  <2>1. CallOK(k, at, arg, x)
    BY DEF Intact
  <2>2. at[x] \in Resuming
    BY <1>3, <2>1 DEF CallOK
  <2>3. arg[x] = u => Ends(x)
    BY <1>1, <1>2, <2>2 DEF Ends
  <2> QED BY <1>1, <2>2, <2>3 DEF KeptCall
<1>4. CallsKept({u})
  <2>1. "run" \in Plain
    BY DEF Plain
  <2> QED BY <1>1, <1>3, <2>1 DEF CallsKept
<1> QED BY <1>1, <1>4, StepKeeps

(***************************************************************************)
(* Nobody is forgotten, nobody comes back, and the highest priority runs:  *)
(* what a step does to the threads it is about, D, and to all the others.  *)
(***************************************************************************)
(* A suspended thread is in somebody's list, in the hands of a living      *)
(* thread that will queue it, or one of the orphans o.                     *)
Served(q, a, g, o, x) ==
  \/ x \in q.tmr
  \/ \E l \in WaitList : x \in Range(q.wl[l])
  \/ \E u \in Thread : g[u] = x /\ a[u] \in Resuming /\ q.stat[u] \notin {"close", "free"}
  \/ x \in o

AllServed(q, a, g, o) == \A x \in Thread : q.stat[x] = "suspend" => Served(q, a, g, o, x)

(* The only step that brings a closed thread back.                         *)
Revived(x) == \E u \in Thread \ {x} : ResumeInsert(u) /\ arg[u] = x

(* The kernel state q that the step reaches, before rt_schedule if it ends *)
(* with that call.                                                         *)
Moves(q, D) ==
  /\ Untouched(q, k, D)
  /\ \A x \in D : /\ x \in Thread
                  /\ q.stat[x] = "suspend" => Served(q, at', arg', orphans', x)
                  /\ k.stat[x] = "close" => q.stat[x] \in {"close", "free"} \/ Revived(x)
                  /\ at[x] \in Resuming => \/ k.stat[x] \in {"close", "free"} \/ q.stat[x] \notin {"close", "free"}
                                           \/ arg[x] \in orphans'
  /\ \A u \in Thread : at[u] \in Resuming =>
       \/ arg[u] \in D \/ k.stat[u] \in {"close", "free"}
       \/ at'[u] \in Resuming /\ arg'[u] = arg[u]
  /\ \A x \in orphans : x \in orphans' \/ x \in D

Moved == \E D : Moves(k', D)

(* rt_schedule at the end of the step.                                     *)
LEMMA ScheduleMoves ==
  ASSUME NEW q, NEW D, MaySchedule(q), Moves(q, D), k' = Schedule(q)
  PROVE  Moved
<1>1. Untouched(k', q, {})
  BY ScheduleUntouched
<1>2. Untouched(k', k, D)
  BY <1>1 DEF Moves, Untouched
<1>3. \A x \in D : Served(q, at', arg', orphans', x) => Served(k', at', arg', orphans', x)
  <2> SUFFICES ASSUME NEW x \in Thread, Served(q, at', arg', orphans', x)
               PROVE  Served(k', at', arg', orphans', x)
    BY DEF Moves
  <2>1. \A u \in Thread : q.stat[u] \notin {"close", "free"} => k'.stat[u] \notin {"close", "free"}
    BY <1>1 DEF Untouched
  <2>2. (x \in q.tmr => x \in k'.tmr) /\ \A l \in WaitList : x \in Range(q.wl[l]) => x \in Range(k'.wl[l])
    BY <1>1 DEF Untouched
  <2> QED BY <2>1, <2>2 DEF Served
<1>4. \A x \in D : /\ k'.stat[x] = "suspend" => q.stat[x] = "suspend"
                   /\ q.stat[x] \in {"close", "free"} <=> k'.stat[x] \in {"close", "free"}
  BY <1>1 DEF Moves, Untouched
<1>5. Moves(k', D)
  BY <1>2, <1>3, <1>4 DEF Moves
<1> QED BY <1>5 DEF Moved

(* Such a step leaves nobody suspended for good.                           *)
LEMMA MovedServes ==
  ASSUME AllServed(k, at, arg, orphans), Moved
  PROVE  AllServed(k', at', arg', orphans')
<1>1. PICK D : Moves(k', D)
  BY DEF Moved
<1>2. Untouched(k', k, D)
  BY <1>1 DEF Moves
<1> SUFFICES ASSUME NEW x \in Thread, k'.stat[x] = "suspend"  PROVE Served(k', at', arg', orphans', x)
  BY DEF AllServed
<1>3. CASE x \in D
  BY <1>1, <1>3 DEF Moves
<1>4. CASE x \notin D
  <2>1. k.stat[x] = "suspend" /\ Served(k, at, arg, orphans, x)
    BY <1>2, <1>4 DEF AllServed, Untouched
  <2>2. CASE x \in k.tmr \/ \E l \in WaitList : x \in Range(k.wl[l])
    BY <1>2, <1>4, <2>2 DEF Untouched, Served
  <2>3. ASSUME NEW u \in Thread, arg[u] = x, at[u] \in Resuming, k.stat[u] \notin {"close", "free"}
        PROVE  Served(k', at', arg', orphans', x)
    <3>1. at'[u] \in Resuming /\ arg'[u] = x
      BY <1>1, <1>4, <2>3 DEF Moves
    <3>2. k'.stat[u] \notin {"close", "free"} \/ x \in orphans'
      BY <1>1, <1>2, <2>3 DEF Moves, Untouched
    <3> QED BY <3>1, <3>2 DEF Served
  <2>4. CASE x \in orphans
    BY <1>1, <1>4, <2>4 DEF Moves, Served
  <2> QED BY <2>1, <2>2, <2>3, <2>4 DEF Served
<1> QED BY <1>3, <1>4

(* And does not start a closed thread again, but for that one step.        *)
LEMMA MovedStaysClosed ==
  ASSUME Moved, CurrentRuns(k', at'), NEW x \in Thread, k.stat[x] = "close"
  PROVE  (k'.cur # x /\ k'.stat[x] \in {"close", "free"}) \/ Revived(x)
<1>1. k'.stat[x] \in {"close", "free"} \/ Revived(x)
  BY DEF Moved, Moves, Untouched
<1>2. k'.stat[k'.cur] \in {"running", "suspend"}
  BY DEF CurrentRuns
<1> QED BY <1>1, <1>2

(* A step after which nobody new is ready, or rt_schedule is to be called. *)
LEMMA TopKept ==
  ASSUME Intact, HighestRuns, k'.nest = k.nest, k'.cur = k.cur,
         at[k.cur] \notin {"schedule", "asleep"}, k'.prio[k.cur] = k.prio[k.cur],
         \A x \in Thread : k'.stat[x] = "ready" => k.stat[x] = "ready" /\ k'.prio[x] = k.prio[x]
  PROVE  HighestRuns'
BY DEF HighestRuns

LEMMA TopScheduled ==
  ASSUME NEW q, MaySchedule(q), k' = Schedule(q)
  PROVE  HighestRuns'
<1>1. Rescheduled(k', q) /\ (q.nest = 0 => Top(k'))
  BY ScheduleWf, ScheduleChoice
<1> QED BY <1>1 DEF Rescheduled, Top, HighestRuns

(* Nothing but thread fields that nobody waits for.                        *)
LEMMA FieldsMoved ==
  ASSUME NEW q, q.stat = k.stat, q.wl = k.wl, q.tmr = k.tmr, SameHistory,
         \A u \in Thread : at[u] \in Resuming => at'[u] \in Resuming /\ arg'[u] = arg[u]
  PROVE  Moves(q, {})
BY DEF Moves, Untouched, SameHistory

LEMMA ContinueMoved ==
  ASSUME Intact, NEW t \in Thread, at[t] \notin Resuming, NEW a \in Label, Goto(t, a),
         \A u \in Thread : u # t => arg'[u] = arg[u]
  PROVE  \A u \in Thread : at[u] \in Resuming => at'[u] \in Resuming /\ arg'[u] = arg[u]
BY GotoTypes

(* rt_schedule alone.                                                      *)
LEMMA ScheduleStepMoved ==
  ASSUME Intact, NEW t \in Thread, NEW from \in Plain, NEW to \in Plain,
         ScheduleStep(t, from, to), UNCHANGED arg, SameHistory
  PROVE  Moved /\ HighestRuns'
<1>1. k' = Schedule(k) /\ Goto(t, to) /\ at[t] \notin Resuming /\ to \in Label
  BY DEF ScheduleStep, At, Plain, Resuming, Label
<1>2. Moves(k, {})
  BY <1>1, ContinueMoved, FieldsMoved
<1> QED BY <1>1, <1>2, MayScheduleNow, ScheduleMoves, TopScheduled

(* rt_thread_sleep's return, rt_thread_yield's call, the scheduler lock.   *)
LEMMA OwnFieldsMoved ==
  ASSUME Intact, NEW t \in Thread,
         \/ WakeUp(t) /\ UNCHANGED arg
         \/ YieldCall(t) \/ EnterCritical(t) \/ ExitCritical(t),
         SameHistory
  PROVE  Moved /\ (HighestRuns => HighestRuns')
<1>1. k \in KernelState /\ k.nest \in Nat /\ k.cur = t /\ at[t] \in {"run", "awake"}
  BY InductiveParts DEF Wf, KernelState, WakeUp, YieldCall, EnterCritical, ExitCritical, Running, At
<1>2. /\ k'.stat = k.stat /\ k'.prio = k.prio /\ k'.wl = k.wl /\ k'.tmr = k.tmr /\ k'.cur = k.cur
      /\ \/ k'.nest = k.nest
         \/ EnterCritical(t) /\ k'.nest # 0
         \/ ExitCritical(t) /\ (k'.nest # 0 \/ k.nest <= 1)
  <2>1. CASE WakeUp(t) \/ YieldCall(t)
    BY <1>1, <2>1 DEF WakeUp, ClearError, YieldCall, KernelState
  <2>2. CASE EnterCritical(t)
    BY <1>1, <2>2 DEF EnterCritical, KernelState
  <2>3. CASE ExitCritical(t)
    BY <1>1, <2>3 DEF ExitCritical, KernelState
  <2> QED BY <2>1, <2>2, <2>3
<1>3. /\ \A u \in Thread : at[u] \in Resuming => at'[u] \in Resuming /\ arg'[u] = arg[u]
      /\ ExitCritical(t) /\ k.nest <= 1 => at'[t] = "schedule"
  <2>1. \/ UNCHANGED <<at, arg>> /\ EnterCritical(t)
        \/ \E a \in Label : Goto(t, a) /\ UNCHANGED arg /\ (ExitCritical(t) /\ k.nest <= 1 => a = "schedule")
    BY DEF WakeUp, YieldCall, EnterCritical, ExitCritical, Continue, Label
  <2>2. at[t] \notin Resuming
    BY <1>1 DEF Resuming
  <2>3. CASE UNCHANGED <<at, arg>> /\ EnterCritical(t)
    <3>1. ~ (ExitCritical(t) /\ k.nest <= 1)
      BY <1>1, <2>3 DEF EnterCritical, ExitCritical, KernelState
    <3> QED BY <2>3, <3>1
  <2>4. ASSUME NEW a \in Label, Goto(t, a), UNCHANGED arg, ExitCritical(t) /\ k.nest <= 1 => a = "schedule"
        PROVE  /\ \A u \in Thread : at[u] \in Resuming => at'[u] \in Resuming /\ arg'[u] = arg[u]
               /\ ExitCritical(t) /\ k.nest <= 1 => at'[t] = "schedule"
    <3>1. at'[t] = a
      BY <2>4, GotoTypes
    <3> QED BY <2>2, <2>4, <3>1, ContinueMoved
  <2> QED BY <2>1, <2>3, <2>4
<1>4. Moved
  BY <1>2, <1>3, FieldsMoved DEF Moved
<1>5. HighestRuns => HighestRuns'
  <2>1. at[k.cur] \notin {"schedule", "asleep"}
    BY <1>1
  <2>2. CASE k'.nest = k.nest
    BY <1>2, <2>1, <2>2, TopKept
  <2>3. CASE k'.nest # 0
    BY <2>3 DEF HighestRuns
  <2>4. CASE ExitCritical(t) /\ k.nest <= 1
    BY <1>1, <1>2, <1>3, <2>4 DEF HighestRuns
  <2> QED BY <1>2, <2>2, <2>3, <2>4
<1> QED BY <1>4, <1>5

(* The end of a time slice.                                                *)
LEMMA SliceEndMoved ==
  ASSUME Intact, SliceEnd, UNCHANGED arg, SameHistory
  PROVE  Moved /\ HighestRuns'
<1> DEFINE q == [k EXCEPT !.yield = @ \cup {k.cur}]
<1>1. k' = Schedule(q) /\ UNCHANGED <<at, arg>>
  BY DEF SliceEnd, SliceOver
<1>2. /\ q \in KernelState /\ q.stat = k.stat /\ q.prio = k.prio /\ q.rq = k.rq
      /\ q.group = k.group /\ q.wl = k.wl /\ q.defunct = k.defunct /\ q.tmr = k.tmr
      /\ q.cur = k.cur /\ q.nest = k.nest
  BY InductiveParts DEF Wf, KernelState
<1> HIDE DEF q
<1>3. MaySchedule(q)
  <2>1. Wf(q, Thread)
    BY <1>2, InductiveParts, SameListsWf
  <2> QED BY <1>2, <2>1, MayScheduleNow DEF MaySchedule, OneRuns
<1>4. Moves(q, {})
  BY <1>1, <1>2, FieldsMoved
<1> QED BY <1>1, <1>3, <1>4, ScheduleMoves, TopScheduled

(* rt_thread_create and rt_thread_startup, which hands the thread to its   *)
(* own call of rt_thread_resume.                                           *)
LEMMA CreateMoved ==
  ASSUME Intact, NEW t \in Thread, NEW u \in Thread, Create(t, u) \/ Startup(t, u)
  PROVE  Moved /\ (HighestRuns => HighestRuns')
<1>1. k \in KernelState /\ k.cur = t /\ at[t] = "run" /\ k.stat[t] = "running" /\ u # t
  BY InductiveParts, CallerRuns DEF Wf, Create, Startup, Running, At
<1>2. /\ k'.wl = k.wl /\ k'.tmr = k.tmr /\ k'.cur = k.cur /\ k'.nest = k.nest
      /\ \A x \in Thread : x # u => k'.stat[x] = k.stat[x] /\ k'.prio[x] = k.prio[x]
      /\ k.stat[u] \in {"free", "init"}
      /\ k'.stat[u] = "init" \/ (k'.stat[u] = "suspend" /\ Call(t, "resumeStat", u))
  <2>1. CASE Create(t, u)
    BY <1>1, <2>1 DEF Create, KernelState
  <2>2. CASE Startup(t, u)
    BY <1>1, <2>2 DEF Startup, KernelState
  <2> QED BY <2>1, <2>2
<1>3. /\ \A x \in Thread : x # t => at'[x] = at[x] /\ arg'[x] = arg[x]
      /\ k'.stat[u] = "suspend" => at'[t] \in Resuming /\ arg'[t] = u
  <2>1. CASE UNCHANGED <<at, arg>> /\ k'.stat[u] = "init"
    BY <2>1
  <2>2. CASE Call(t, "resumeStat", u)
    BY <2>2, InductiveParts DEF Call, Goto, Resuming
  <2>3. Startup(t, u) => Call(t, "resumeStat", u)
    BY DEF Startup
  <2>4. Create(t, u) => UNCHANGED <<at, arg>> /\ k'.stat[u] = "init"
    BY <1>1 DEF Create, KernelState
  <2> QED BY <2>1, <2>2, <2>3, <2>4
<1>4. Untouched(k', k, {u})
  BY <1>2 DEF Untouched
<1>5. k'.stat[u] = "suspend" => Served(k', at', arg', orphans', u)
  BY <1>1, <1>2, <1>3 DEF Served
<1>6. at[u] \in Resuming => k.stat[u] \in {"close", "free"} \/ k'.stat[u] \notin {"close", "free"}
  BY <1>2
<1>7. Moves(k', {u})
  <2>1. \A x \in orphans : x \in orphans' \/ x = u
    BY DEF Create, Startup, SameHistory
  <2> QED BY <1>1, <1>2, <1>3, <1>4, <1>5, <1>6, <2>1 DEF Moves, Resuming
<1>8. HighestRuns => HighestRuns'
  BY <1>1, <1>2, TopKept
<1> QED BY <1>7, <1>8 DEF Moved

(* rt_thread_resume looks at the thread, takes it out of its list and queues *)
(* it; until it does, the thread is in its hands.                          *)
LEMMA ResumeStatMoved ==
  ASSUME Intact, NEW t \in Thread, ResumeStat(t)
  PROVE  Moved /\ (HighestRuns => HighestRuns')
<1>1. at[t] = "resumeStat" /\ k.cur = t /\ at[t] \in Resuming /\ k' = k /\ SameHistory
  BY DEF ResumeStat, At, Resuming
<1>2. k.stat[t] = "running" /\ arg[t] \in Thread /\ k.stat[arg[t]] \in {"suspend", "close"}
  BY <1>1, Target
<1>3. Moved
  <2>1. CASE k.stat[arg[t]] = "suspend"
    <3>1. Goto(t, "resumeLock") /\ UNCHANGED arg /\ "resumeLock" \in Label
      BY <2>1 DEF ResumeStat, Continue, Label
    <3>2. at'[t] = "resumeLock" /\ \A u \in Thread : u # t => at'[u] = at[u]
      BY <3>1, GotoTypes
    <3> QED BY <1>1, <3>1, <3>2, FieldsMoved DEF Resuming, Moved
  <2>2. CASE k.stat[arg[t]] = "close"
    <3>1. Goto(t, "schedule") /\ arg' = [arg EXCEPT ![t] = Idle] /\ "schedule" \in Label
      BY <2>2 DEF ResumeStat, Return, Call, Label
    <3>2. \A u \in Thread : u # t => at'[u] = at[u] /\ arg'[u] = arg[u]
      BY <3>1, GotoTypes, InductiveParts
    <3>3. Moves(k', {arg[t]})
      BY <1>1, <1>2, <2>2, <3>2 DEF Moves, Untouched, SameHistory
    <3> QED BY <3>3 DEF Moved
  <2> QED BY <1>2, <2>1, <2>2
<1>4. HighestRuns => HighestRuns'
  BY <1>1, TopKept
<1> QED BY <1>3, <1>4

LEMMA ResumeLockMoved ==
  ASSUME Intact, NEW t \in Thread, ResumeLock(t)
  PROVE  Moved /\ (HighestRuns => HighestRuns')
<1>1. at[t] = "resumeLock" /\ k.cur = t /\ at[t] \in Resuming /\ k' = ResumeUnlink(k, arg[t]) /\ SameHistory
  BY DEF ResumeLock, At, Resuming
<1>2. /\ k.stat[arg[t]] # "ready" /\ arg[t] \in Thread /\ arg[t] \notin k.tmr /\ Wf(k, Thread)
      /\ \A l \in WaitList : arg[t] \notin Range(k.wl[l])
  BY <1>1, Target, InductiveParts DEF Startable, Unreachable, Wf, OneList, TimersOfSuspended
<1>3. /\ Wf(k', Thread) /\ k'.tmr = k.tmr \ {arg[t]} /\ k'.stat = k.stat /\ k'.prio = k.prio
      /\ k'.cur = k.cur /\ k'.nest = k.nest /\ Fewer(k', k)
  BY <1>1, <1>2, ResumeUnlinkWf
<1>4. OthersWait(k', k, arg[t])
  <2>1. Thread \in SUBSET Thread /\ Unlink(k, arg[t]) \in KernelState
    BY <1>2, UnlinkFacts
  <2>2. k'.wl = Unlink(k, arg[t]).wl
    BY <1>1, <2>1 DEF ResumeUnlink, StopTimer, KernelState
  <2> QED BY <1>2, <2>1, <2>2, UnlinkOthersWait
<1>5. Untouched(k', k, {})
  BY <1>2, <1>3, <1>4 DEF Untouched, OthersWait, Fewer
<1>6. Goto(t, "resumeInsert") /\ UNCHANGED arg /\ "resumeInsert" \in Label
  BY DEF ResumeLock, Continue, Label
<1>7. at'[t] = "resumeInsert" /\ \A u \in Thread : u # t => at'[u] = at[u]
  BY <1>6, GotoTypes
<1>8. Moves(k', {})
  BY <1>1, <1>5, <1>6, <1>7 DEF Moves, Resuming, SameHistory
<1>9. HighestRuns => HighestRuns'
  BY <1>1, <1>3, TopKept
<1> QED BY <1>8, <1>9 DEF Moved

(* A thread that has been closed is brought back here.                     *)
LEMMA ResumeInsertMoved ==
  ASSUME Intact, NEW t \in Thread, ResumeInsert(t)
  PROVE  Moved /\ HighestRuns'
<1> DEFINE u == arg[t]
<1>1. at[t] = "resumeInsert" /\ k.cur = t /\ at[t] \in Resuming /\ k' = InsertThread(k, u)
  BY DEF ResumeInsert, At, Resuming
<1>2. u \in Thread /\ u # t
  BY <1>1, Target
<1>3. /\ Goto(t, "schedule") /\ arg' = [arg EXCEPT ![t] = Idle] /\ "schedule" \in Label
      /\ orphans' = orphans \ {u}
  BY DEF ResumeInsert, Return, Call, Label
<1>4. at'[t] = "schedule" /\ \A x \in Thread : x # t => at'[x] = at[x] /\ arg'[x] = arg[x]
  BY <1>3, GotoTypes, InductiveParts
<1>5. ASSUME Alive(u)
      PROVE  Untouched(k', k, {u}) /\ k'.stat[u] = "ready" /\ k'.cur = k.cur
  <2>1. k.stat[u] = "suspend" /\ u \notin k.tmr /\ \A l \in WaitList : u \notin Range(k.wl[l])
    BY <1>1, <1>5, Target DEF Startable, Unreachable, Alive
  <2> HIDE DEF u
  <2>2. Loose(k, u)
    <3>1. \A p \in Prio : u \notin Range(k.rq[p])
      BY <1>2, <2>1, InductiveParts, QueueOf
    <3>2. u \notin Range(k.defunct)
      BY <2>1, InductiveParts DEF Wf, OneList
    <3> QED BY <2>1, <3>1, <3>2 DEF Loose
  <2>3. /\ Untouched(k', k, {u}) /\ k'.cur = k.cur
        /\ k'.stat = [k.stat EXCEPT ![u] = IF u = k.cur THEN "running" ELSE "ready"]
    BY <1>1, <1>2, <2>1, <2>2, InductiveParts, LooseInserted
  <2>4. k'.stat[u] = "ready"
    BY <1>1, <1>2, <2>3, InductiveParts DEF Wf, KernelState
  <2> QED BY <2>1, <2>3, <2>4
<1>6. Untouched(k', k, {u}) /\ k'.stat[u] = "ready" /\ k'.cur = k.cur
  BY <1>5, ResumeInsertClosed
<1>7. Revived(u)
  BY <1>2 DEF Revived
<1>8. \A x \in orphans : x \in orphans' \/ x \in {u}
  BY <1>3
<1> HIDE DEF u
<1>9. \A x \in Thread : at[x] \in Resuming => arg[x] = u \/ (at'[x] \in Resuming /\ arg'[x] = arg[x])
  BY <1>4 DEF u
<1>10. Moves(k', {u})
  BY <1>2, <1>6, <1>7, <1>8, <1>9 DEF Moves
<1>11. HighestRuns'
  BY <1>1, <1>4, <1>6 DEF HighestRuns
<1> QED BY <1>10, <1>11 DEF Moved

(* A thread that suspends itself is in a list or has a timer.              *)
LEMMA BlockedMoved ==
  ASSUME Intact, NEW t \in Thread, MayBlock(t), Continue(t, "asleep") \/ Continue(t, "schedule"),
         Untouched(k', k, {t}), k'.cur = k.cur, k'.stat[t] = "suspend", SameHistory,
         t \in k'.tmr \/ \E l \in WaitList : t \in Range(k'.wl[l])
  PROVE  Moved /\ HighestRuns'
<1>1. at[t] = "run" /\ k.cur = t /\ k.stat[t] = "running"
  BY CallerRuns DEF MayBlock, At
<1>2. PICK a \in {"asleep", "schedule"} : Goto(t, a) /\ UNCHANGED arg
  BY DEF Continue
<1>3. /\ a \in Label /\ at'[t] = a
      /\ \A u \in Thread : at[u] \in Resuming => at'[u] \in Resuming /\ arg'[u] = arg[u]
  BY <1>1, <1>2, GotoTypes, ContinueMoved DEF Label, Resuming
<1>4. Served(k', at', arg', orphans', t)
  BY DEF Served
<1>5. Moves(k', {t})
  BY <1>1, <1>3, <1>4 DEF Moves, Resuming, SameHistory
<1>6. HighestRuns'
  BY <1>1, <1>2, <1>3 DEF HighestRuns
<1> QED BY <1>5, <1>6 DEF Moved

LEMMA SleepMoved ==
  ASSUME Intact, NEW t \in Thread, Sleep(t), UNCHANGED arg, SameHistory
  PROVE  Moved /\ HighestRuns'
<1> DEFINE u == Suspend(k, t)
<1>1. MayBlock(t) /\ k' = StartTimer(u, t) /\ Continue(t, "asleep") /\ k.stat[t] = "running"
  BY CallerRuns DEF Sleep, Continue, MayBlock, At
<1>2. Wf(u, Thread) /\ u.stat = [k.stat EXCEPT ![t] = "suspend"] /\ u.cur = k.cur /\ Untouched(u, k, {t})
  <2>1. Wf(u, Thread) /\ u.stat = [k.stat EXCEPT ![t] = "suspend"] /\ u.cur = k.cur
    BY <1>1, InductiveParts, SuspendWf
  <2>2. Untouched(u, k, {t})
    BY <1>1, InductiveParts, SuspendUntouched
  <2> QED BY <2>1, <2>2
<1> HIDE DEF u
<1>3. u.stat[t] = "suspend"
  BY <1>2, InductiveParts DEF Wf, KernelState
<1>4. /\ k'.tmr = u.tmr \cup {t} /\ k'.stat = u.stat /\ k'.cur = u.cur /\ k'.wl = u.wl
  BY <1>1, <1>2, <1>3, StartTimerWf
<1>5. Untouched(k', k, {t})
  BY <1>2, <1>4 DEF Untouched
<1> QED BY <1>1, <1>2, <1>3, <1>4, <1>5, BlockedMoved

LEMMA WaitOnMoved ==
  ASSUME Intact, NEW t \in Thread, NEW l \in WaitList, WaitOn(t, l)
  PROVE  Moved /\ HighestRuns'
<1> DEFINE c == ClearError(k, t)
           u == SuspendOn(c, t, l, "fifo")
<1>1. /\ MayBlock(t) /\ Continue(t, "schedule") /\ k.stat[t] = "running" /\ SameHistory
      /\ k' = u \/ k' = StartTimer(u, t)
  BY CallerRuns DEF WaitOn, MayBlock, At
<1>2. /\ c \in KernelState /\ c.stat = k.stat /\ c.prio = k.prio /\ c.rq = k.rq /\ c.group = k.group
      /\ c.wl = k.wl /\ c.defunct = k.defunct /\ c.tmr = k.tmr /\ c.cur = k.cur /\ c.nest = k.nest
  <2>1. k \in KernelState /\ "EOK" \in Err
    BY InductiveParts DEF Wf, Err
  <2> QED BY <2>1 DEF ClearError, KernelState
<1> HIDE DEF c
<1>3. Wf(c, Thread) /\ c.stat[t] \in {"ready", "running"}
  BY <1>1, <1>2, InductiveParts, SameListsWf
<1>4. u \in KernelState /\ u.stat = [c.stat EXCEPT ![t] = "suspend"] /\ u.cur = c.cur
  BY <1>3, SuspendOnWf, SMTT(40) DEF Wf
<1>5. Untouched(u, c, {t}) /\ t \in Range(u.wl[l])
  BY <1>3, SuspendOnUntouched
<1> HIDE DEF u
<1>6. u.stat[t] = "suspend"
  BY <1>2, <1>4 DEF KernelState
<1>7. k'.stat = u.stat /\ k'.cur = u.cur /\ k'.wl = u.wl /\ (k'.tmr = u.tmr \/ k'.tmr = u.tmr \cup {t})
  <2> DEFINE v == StartTimer(u, t)
  <2>1. v.stat = u.stat /\ v.cur = u.cur /\ v.wl = u.wl /\ v.tmr = u.tmr \cup {t}
    BY <1>4 DEF StartTimer, KernelState
  <2> HIDE DEF v
  <2> QED BY <1>1, <2>1 DEF v
<1>8. Untouched(k', k, {t})
  BY <1>2, <1>5, <1>7 DEF Untouched
<1> QED BY <1>1, <1>2, <1>4, <1>5, <1>6, <1>7, <1>8, BlockedMoved

(* The first waiter of a list is let go.                                   *)
LEMMA FirstWaiterMoved ==
  ASSUME Intact, NEW l \in WaitList, k.wl[l] # << >>, NEW r, r = ResumeFirst(k, l), SameHistory,
         \A u \in Thread : at[u] \in Resuming => at'[u] \in Resuming /\ arg'[u] = arg[u]
  PROVE  \E D : Moves(r, D)
<1> DEFINE u == Head(k.wl[l])
<1>1. u \in Thread /\ u \in Range(k.wl[l])
  <2>1. k.wl[l] \in Seq(Thread)
    BY InductiveParts DEF Wf, KernelState
  <2> QED BY <2>1, HeadFacts
<1>2. r = Resume(k, u)
  BY DEF ResumeFirst
<1> HIDE DEF u
<1>3. k.stat[u] = "suspend" /\ Wf(k, Thread)
  BY <1>1, InductiveParts DEF Wf, OneList
<1>4. r.stat = [k.stat EXCEPT ![u] = IF u = k.cur THEN "running" ELSE "ready"]
  BY <1>1, <1>2, <1>3, ResumeWf
<1>5. r.stat[u] \in {"running", "ready"}
  BY <1>1, <1>3, <1>4 DEF Wf, KernelState
<1>6. Untouched(r, k, {u})
  BY <1>1, <1>2, <1>3, ResumeUntouched
<1>7. Moves(r, {u})
  BY <1>1, <1>3, <1>5, <1>6 DEF Moves, SameHistory
<1> QED BY <1>7

LEMMA WakeMoved ==
  ASSUME Intact, NEW t \in Thread, NEW l \in WaitList, Wake(t, l)
  PROVE  Moved /\ HighestRuns'
<1>1. /\ k.cur = t /\ at[t] = "run" /\ k.stat[t] = "running" /\ k.wl[l] # << >>
      /\ k' = ResumeFirst(k, l) /\ Goto(t, "schedule") /\ UNCHANGED arg /\ SameHistory
  BY CallerRuns DEF Wake, Running, At, Continue
<1>2. at'[t] = "schedule" /\ \A u \in Thread : at[u] \in Resuming => at'[u] \in Resuming /\ arg'[u] = arg[u]
  <2>1. "schedule" \in Label /\ at[t] \notin Resuming
    BY <1>1 DEF Label, Resuming
  <2> QED BY <1>1, <2>1, GotoTypes, ContinueMoved
<1>3. Moved
  BY <1>1, <1>2, FirstWaiterMoved DEF Moved
<1>4. k'.cur = t
  BY <1>1, FirstWaiter
<1> QED BY <1>2, <1>3, <1>4 DEF HighestRuns

LEMMA WakeFromIsrMoved ==
  ASSUME Intact, NEW l \in WaitList, WakeFromIsr(l)
  PROVE  Moved /\ HighestRuns'
<1> DEFINE r == ResumeFirst(k, l)
<1>1. k.wl[l] # << >> /\ k' = Schedule(r) /\ UNCHANGED <<at, arg>> /\ SameHistory
  BY DEF WakeFromIsr
<1>2. PICK u \in Thread :
           /\ k.stat[u] = "suspend" /\ u \in Range(k.wl[l])
           /\ Wf(r, Thread) /\ r.tmr = k.tmr \ {u}
           /\ r.stat = [k.stat EXCEPT ![u] = IF u = k.cur THEN "running" ELSE "ready"]
           /\ r.cur = k.cur /\ r.nest = k.nest /\ Fewer(r, k)
  BY <1>1, FirstWaiter
<1>3. \E D : Moves(r, D)
  BY <1>1, FirstWaiterMoved
<1> HIDE DEF r
<1>4. /\ r.stat[u] = IF u = k.cur THEN "running" ELSE "ready"
      /\ \A x \in Thread : x # u => r.stat[x] = k.stat[x]
  BY <1>2, InductiveParts DEF Wf, KernelState
<1>5. MaySchedule(r)
  BY <1>2, <1>4, KernelAssumption DEF MaySchedule, OneRuns, Intact, CurrentRuns
<1> QED BY <1>1, <1>3, <1>5, ScheduleMoves, TopScheduled

LEMMA TimerExpiresMoved ==
  ASSUME Intact, NEW t \in Thread, TimerExpires(t), UNCHANGED arg, SameHistory
  PROVE  Moved /\ HighestRuns'
<1> DEFINE r == Expired(k, t)
<1>1. k' = Schedule(r) /\ UNCHANGED <<at, arg>> /\ t \in k.tmr /\ Wf(k, Thread)
  BY InductiveParts DEF TimerExpires, Timeout, Expired
<1>2. r = Expired(k, t)
  OBVIOUS
<1> HIDE DEF r
<1>3. /\ k.stat[t] = "suspend" /\ Wf(r, Thread)
      /\ r.stat = [k.stat EXCEPT ![t] = IF t = k.cur THEN "running" ELSE "ready"]
      /\ r.err = [k.err EXCEPT ![t] = "ETIMEOUT"]
      /\ r.tmr = k.tmr \ {t} /\ r.cur = k.cur /\ r.nest = k.nest /\ Fewer(r, k)
  BY <1>1, <1>2, ExpiredWf
<1>4. Untouched(r, k, {t})
  BY <1>1, <1>2, ExpiredUntouched
<1>5. /\ r.stat[t] = IF t = k.cur THEN "running" ELSE "ready"
      /\ \A x \in Thread : x # t => r.stat[x] = k.stat[x]
  BY <1>1, <1>3 DEF Wf, KernelState
<1>6. MaySchedule(r)
  BY <1>3, <1>5, KernelAssumption DEF MaySchedule, OneRuns, Intact, CurrentRuns
<1>7. Moves(r, {t})
  BY <1>1, <1>3, <1>4, <1>5 DEF Moves, SameHistory
<1> QED BY <1>1, <1>6, <1>7, ScheduleMoves, TopScheduled

(* A change of priority may leave a higher thread ready: the code does not *)
(* schedule.                                                               *)
LEMMA ChangePriorityMoved ==
  ASSUME Intact, NEW t \in Thread, NEW u \in Thread, NEW p \in Prio, ChangePriority(t, u, p)
  PROVE  Moved
<1>1. k.cur = t /\ k.stat[t] = "running" /\ k' = SetPriority(k, u, p) /\ UNCHANGED <<at, arg>>
  BY CallerRuns DEF ChangePriority, Running, At
<1>2. Untouched(k', k, {})
  BY <1>1, InductiveParts, SetPriorityUntouched
<1>3. Moves(k', {})
  BY <1>1, <1>2 DEF Moves, ChangePriority, SameHistory
<1> QED BY <1>3 DEF Moved

(* rt_thread_exit and the kill move the thread to the defunct list.        *)
LEMMA EndedUntouched ==
  ASSUME NEW q, Wf(q, Thread), NEW t \in Thread, NEW r, r = Ended(q, t)
  PROVE  Untouched(r, q, {t})
<1> DEFINE u == IF q.stat[t] = "init" THEN q ELSE RemoveThread(q, t)
<1>1. r.stat = [q.stat EXCEPT ![t] = "close"] /\ r.tmr = q.tmr \ {t}
  BY EndedWf
<1>2. Thread \in SUBSET Thread /\ q \in KernelState
  BY DEF Wf
<1>3. u \in KernelState /\ OthersWait(u, q, t)
  <2>1. CASE q.stat[t] = "init"
    BY <1>2, <2>1 DEF OthersWait
  <2>2. CASE q.stat[t] # "init"
    <3>1. u = RemoveThread(q, t)
      BY <2>2
    <3>2. u \in KernelState
      BY <1>2, <3>1, RemoveThreadWf DEF Wf
    <3> QED BY <1>2, <3>1, <3>2, RemoveThreadOthersWait
  <2> QED BY <2>1, <2>2
<1>4. r = Close(StopTimer(u, t), t)
  BY DEF Ended
<1> HIDE DEF u
<1>5. r.wl = u.wl
  BY <1>3, <1>4 DEF Close, StopTimer, KernelState
<1> QED BY <1>1, <1>2, <1>3, <1>5 DEF Untouched, OthersWait, KernelState

LEMMA ExitMoved ==
  ASSUME Intact, NEW t \in Thread, Exit(t)
  PROVE  Moved /\ HighestRuns'
<1> DEFINE r == Close(StopTimer(RemoveThread(k, t), t), t)
<1>1. /\ k.cur = t /\ t # Idle /\ k.nest = 0 /\ k.stat[t] = "running" /\ at[t] = "run"
      /\ k' = Schedule(r) /\ UNCHANGED <<at, arg>>
  BY CallerRuns DEF Exit, MayBlock, At
<1>2. r = Ended(k, t) /\ Wf(k, Thread)
  BY <1>1, InductiveParts DEF Ended
<1> HIDE DEF r
<1>3. /\ Wf(r, Thread) /\ r.stat = [k.stat EXCEPT ![t] = "close"]
      /\ r.tmr = k.tmr \ {t} /\ r.cur = k.cur /\ r.nest = k.nest
      /\ OnlyDefunct(r, k, t)
  BY <1>2, EndedWf
<1>4. Untouched(r, k, {t})
  BY <1>2, EndedUntouched
<1>5. r.stat[t] = "close" /\ \A x \in Thread : x # t => r.stat[x] = k.stat[x]
  BY <1>3, InductiveParts DEF Wf, KernelState
<1>6. MaySchedule(r)
  BY <1>1, <1>3, <1>5, KernelAssumption DEF MaySchedule, OneRuns, Intact, CurrentRuns
<1>7. Moves(r, {t})
  BY <1>1, <1>4, <1>5 DEF Moves, Resuming, Exit, SameHistory
<1> QED BY <1>1, <1>6, <1>7, ScheduleMoves, TopScheduled

LEMMA KillMoved ==
  ASSUME Intact, NEW t \in Thread, NEW u \in Thread, Kill(t, u)
  PROVE  Moved /\ (HighestRuns => HighestRuns')
<1>1. /\ k.cur = t /\ at[t] = "run" /\ k.stat[t] = "running" /\ u # t /\ u # Idle
      /\ k.stat[u] # "close" /\ UNCHANGED <<at, arg>> /\ orphans' = Orphaned(u)
      /\ k' = Close(StopTimer(IF k.stat[u] = "init" THEN k ELSE RemoveThread(k, u), u), u)
  BY CallerRuns DEF Kill, Running, At, Deletable
<1>2. k' = Ended(k, u) /\ Wf(k, Thread)
  BY <1>1, InductiveParts DEF Ended
<1>3. k'.stat = [k.stat EXCEPT ![u] = "close"] /\ k'.cur = k.cur /\ k'.nest = k.nest
  BY <1>2, EndedWf
<1>4. k'.stat[u] = "close" /\ \A x \in Thread : x # u => k'.stat[x] = k.stat[x]
  BY <1>2, <1>3 DEF Wf, KernelState
<1>5. Untouched(k', k, {u})
  BY <1>2, EndedUntouched
<1>6. (at[u] \in Resuming => arg[u] \in orphans') /\ \A x \in orphans : x \in orphans'
  BY <1>1 DEF Orphaned
<1>7. Moves(k', {u})
  BY <1>1, <1>4, <1>5, <1>6 DEF Moves
<1>8. k'.prio = k.prio
  <2> DEFINE v == IF k.stat[u] = "init" THEN k ELSE RemoveThread(k, u)
  <2>1. v \in KernelState /\ v.prio = k.prio
    <3>1. Thread \in SUBSET Thread
      OBVIOUS
    <3>2. RemoveThread(k, u) \in KernelState /\ RemoveThread(k, u).prio = k.prio
      <4> DEFINE w == RemoveThread(k, u)
      <4>1. Wf(w, Thread \ {u}) /\ SameThreads(w, k)
        BY <1>2, <3>1, RemoveThreadWf
      <4> HIDE DEF w
      <4>2. w \in KernelState /\ w.prio = k.prio
        BY <4>1 DEF Wf, SameThreads
      <4> QED BY <4>2 DEF w
    <3> QED BY <1>2, <3>2 DEF Wf
  <2>2. k' = Close(StopTimer(v, u), u)
    BY <1>1
  <2> HIDE DEF v
  <2> QED BY <2>1, <2>2 DEF Close, StopTimer, KernelState
<1>9. HighestRuns => HighestRuns'
  BY <1>1, <1>3, <1>4, <1>8, TopKept
<1> QED BY <1>7, <1>9 DEF Moved

LEMMA ReapMoved ==
  ASSUME Intact, Reap
  PROVE  Moved /\ HighestRuns'
<1> DEFINE h == Head(k.defunct)
           q == Unlink(k, h)
<1>1. /\ k.cur = Idle /\ at[Idle] = "run" /\ k.defunct # << >> /\ k' = Schedule(q)
      /\ Goto(Idle, "freeObject") /\ arg' = [arg EXCEPT ![Idle] = h]
  BY DEF Reap, At, Call
<1>2. h \in Thread /\ k.stat[h] = "close" /\ Wf(k, Thread) /\ Thread \in SUBSET Thread
  <2>1. k.defunct \in Seq(Thread)
    BY InductiveParts DEF Wf, KernelState
  <2>2. h \in Thread /\ h \in Range(k.defunct)
    BY <1>1, <2>1, HeadFacts
  <2> QED BY <2>2, InductiveParts DEF Wf, OneList
<1> HIDE DEF h
<1>3. Wf(q, Thread) /\ SameThreads(q, k) /\ Fewer(q, k)
  BY <1>2, UnlinkWf
<1>4. OthersWait(q, k, h)
  BY <1>2, UnlinkOthersWait
<1> HIDE DEF q
<1>5. MaySchedule(q)
  BY <1>3, MayScheduleNow DEF MaySchedule, OneRuns, SameThreads
<1>6. Untouched(q, k, {})
  <2>1. \A l \in WaitList : h \notin Range(k.wl[l])
    BY <1>2 DEF Wf, OneList
  <2> QED BY <1>3, <1>4, <2>1 DEF Untouched, SameThreads, OthersWait, Fewer
<1>7. \A u \in Thread : at[u] \in Resuming => at'[u] \in Resuming /\ arg'[u] = arg[u]
  <2>1. Idle \in Thread /\ "freeObject" \in Label /\ at[Idle] \notin Resuming
    BY <1>1, KernelAssumption DEF Label, Resuming
  <2>2. \A u \in Thread : u # Idle => arg'[u] = arg[u]
    BY <1>1, InductiveParts
  <2> QED BY <1>1, <2>1, <2>2, ContinueMoved
<1>8. Moves(q, {})
  BY <1>6, <1>7 DEF Moves, Reap, SameHistory
<1> QED BY <1>1, <1>5, <1>8, ScheduleMoves, TopScheduled

LEMMA FreeObjectMoved ==
  ASSUME Intact, FreeObject
  PROVE  Moved /\ (HighestRuns => HighestRuns')
<1> DEFINE u == arg[Idle]
<1>1. /\ k.cur = Idle /\ at[Idle] = "freeObject" /\ k' = SetStat(k, u, "free") /\ orphans' = orphans
  BY DEF FreeObject, At, SetStat
<1>2. /\ u \in Thread /\ k.stat[u] = "close" /\ Idle \in Thread /\ k \in KernelState
      /\ \A x \in Thread \ {Idle, u} : at'[x] = at[x] /\ arg'[x] = arg[x]
  BY FreeObjectFacts, InductiveParts, KernelAssumption DEF Wf
<1> HIDE DEF u
<1>3. /\ k'.wl = k.wl /\ k'.tmr = k.tmr /\ k'.cur = k.cur /\ k'.nest = k.nest /\ k'.prio = k.prio
      /\ k'.stat[u] = "free" /\ \A x \in Thread : x # u => k'.stat[x] = k.stat[x]
  BY <1>1, <1>2 DEF SetStat, KernelState
<1>4. Moves(k', {u})
  BY <1>1, <1>2, <1>3 DEF Moves, Untouched, Resuming
<1>5. HighestRuns => HighestRuns'
  BY <1>1, <1>3, TopKept
<1> QED BY <1>4, <1>5 DEF Moved

(***************************************************************************)
(* The invariant.                                                          *)
(***************************************************************************)
(* Nothing happens once something is torn.                                 *)
LEMMA TornStops ==
  ASSUME torn # {}, Next
  PROVE  UNCHANGED vars
<1>1. ASSUME NEW t \in Thread, Begin(t)  PROVE FALSE
  <2>1. ASSUME NEW u \in Thread,
               \/ Create(t, u) \/ Startup(t, u) \/ ResumeCall(t, u) \/ SuspendStat(t, u)
               \/ DeleteCall(t, u) \/ Kill(t, u) \/ \E p \in Prio : ChangePriority(t, u, p)
        PROVE  FALSE
    BY <2>1 DEF Create, Startup, ResumeCall, SuspendStat, DeleteCall, Kill, ChangePriority, SameHistory
  <2>2. ~ \E l \in WaitList : WaitOn(t, l) \/ Wake(t, l)
    BY DEF WaitOn, Wake, SameHistory
  <2>3. ~ (SuspendSelf(t) \/ Exit(t) \/ YieldCall(t) \/ EnterCritical(t) \/ ExitCritical(t))
    BY DEF SuspendSelf, Exit, YieldCall, EnterCritical, ExitCritical, SameHistory
  <2>4. ~ SameHistory
    BY DEF SameHistory
  <2> QED BY <1>1, <2>1, <2>2, <2>3, <2>4 DEF Begin
<1>2. ASSUME NEW t \in Thread, Proceed(t)  PROVE FALSE
  <2>1. ~ (ResumeStat(t) \/ ResumeLock(t) \/ ResumeInsert(t) \/ SuspendLock(t))
    BY DEF ResumeStat, ResumeLock, ResumeInsert, SuspendLock, SameHistory
  <2>2. ~ (DeleteRemove(t) \/ DeleteTimer(t) \/ DeleteClose(t) \/ DoSchedule(t) \/ Yield(t))
    BY DEF DeleteRemove, DeleteTimer, DeleteClose, DoSchedule, Yield, SameHistory
  <2>3. ~ SameHistory
    BY DEF SameHistory
  <2> QED BY <1>2, <2>1, <2>2, <2>3 DEF Proceed
<1>3. ~ (Reap \/ FreeObject \/ Tick \/ \E l \in WaitList : WakeFromIsr(l))
  BY DEF Reap, FreeObject, Tick, WakeFromIsr, SameHistory
<1> QED BY <1>1, <1>2, <1>3 DEF Next, Torn

(* The history variables keep their types.                                 *)
LEMMA HistoryTypes ==
  ASSUME TypeOK, Next
  PROVE  orphans' \in SUBSET Thread /\ torn' \in SUBSET Thread
<1> DEFINE Good == orphans' \in SUBSET Thread /\ torn' \in SUBSET Thread
<1>1. SameHistory \/ UNCHANGED vars => Good
  BY DEF SameHistory, TypeOK, vars
<1>2. ASSUME NEW t \in Thread, Begin(t)  PROVE Good
  <2>1. ASSUME NEW u \in Thread, Create(t, u) \/ Kill(t, u)  PROVE Good
    BY <2>1 DEF Create, Kill, Orphaned, TypeOK
  <2>2. ASSUME NEW u \in Thread,
               \/ Startup(t, u) \/ ResumeCall(t, u) \/ SuspendStat(t, u)
               \/ DeleteCall(t, u) \/ \E p \in Prio : ChangePriority(t, u, p)
        PROVE  SameHistory
    BY <2>2 DEF Startup, ResumeCall, SuspendStat, DeleteCall, ChangePriority
  <2>3. ASSUME \E l \in WaitList : WaitOn(t, l) \/ Wake(t, l)  PROVE SameHistory
    BY <2>3 DEF WaitOn, Wake
  <2>4. ASSUME SuspendSelf(t) \/ Exit(t) \/ YieldCall(t) \/ EnterCritical(t) \/ ExitCritical(t)
        PROVE  SameHistory
    BY <2>4 DEF SuspendSelf, Exit, YieldCall, EnterCritical, ExitCritical
  <2> HIDE DEF Good
  <2> QED BY <1>1, <1>2, <2>1, <2>2, <2>3, <2>4 DEF Begin
<1>3. ASSUME NEW t \in Thread, Proceed(t)  PROVE Good
  <2>1. ASSUME ResumeInsert(t) \/ DeleteClose(t)  PROVE Good
    BY <2>1 DEF ResumeInsert, DeleteClose, Orphaned, TypeOK
  <2>2. ASSUME ResumeStat(t) \/ ResumeLock(t) \/ SuspendLock(t) \/ DeleteRemove(t) \/ DeleteTimer(t)
        PROVE  SameHistory
    BY <2>2 DEF ResumeStat, ResumeLock, SuspendLock, DeleteRemove, DeleteTimer
  <2>3. ASSUME DoSchedule(t) \/ Yield(t)  PROVE SameHistory
    BY <2>3 DEF DoSchedule, Yield
  <2> HIDE DEF Good
  <2> QED BY <1>1, <1>3, <2>1, <2>2, <2>3 DEF Proceed
<1>4. ASSUME FreeObject  PROVE Good
  BY <1>4 DEF FreeObject, InStart, TypeOK
<1>5. ASSUME Reap \/ Tick \/ \E l \in WaitList : WakeFromIsr(l)  PROVE SameHistory
  BY <1>5 DEF Reap, Tick, WakeFromIsr
<1>6. Torn => UNCHANGED vars
  BY DEF Torn
<1> HIDE DEF Good
<1>7. Good
  BY <1>1, <1>2, <1>3, <1>4, <1>5, <1>6 DEF Next
<1> QED BY <1>7 DEF Good

(* Every step of a Quiet program keeps the queues, and the rest unless it  *)
(* tears something.                                                        *)
LEMMA StepsKeep ==
  ASSUME Quiet, Intact, torn = {}, Next
  PROVE  QueuesKept /\ (Intact' \/ torn' # {})
<1> DEFINE Good == QueuesKept /\ (Intact' \/ torn' # {})
<1>0. Intact' => Good
  BY IntactQueues
<1>1. "resume" \notin Api /\ "resumeAny" \notin Api
      /\ "suspend" \notin Api /\ "suspendAny" \notin Api
      /\ "delete" \notin Api /\ "deleteAny" \notin Api
  BY DEF Quiet
<1>2. \A t \in Thread : at[t] \notin {"suspendLock", "deleteRemove", "deleteTimer", "deleteClose"}
  BY InductiveParts DEF Plain, Resuming
<1>3. ASSUME NEW t \in Thread, Begin(t)  PROVE Intact'
  <2>1. CASE Sleep(t) /\ UNCHANGED arg
    BY <2>1, SleepKeeps
  <2>2. CASE SuspendSelf(t)
    BY <1>1, <2>2 DEF SuspendSelf
  <2>3. CASE Exit(t)
    BY <2>3, ExitKeeps
  <2>4. CASE YieldCall(t)
    BY <2>4, YieldCallKeeps
  <2>5. CASE EnterCritical(t) \/ ExitCritical(t)
    BY <2>5, CriticalKeeps
  <2>6. CASE \E l \in WaitList : WaitOn(t, l) \/ Wake(t, l)
    BY <2>6, WaitOnKeeps, WakeKeeps
  <2>7. ASSUME NEW u \in Thread, Create(t, u) \/ Startup(t, u)  PROVE Intact'
    BY <2>7, CreateKeeps, StartupKeeps
  <2>8. ASSUME NEW u \in Thread, ResumeCall(t, u) \/ SuspendStat(t, u) \/ DeleteCall(t, u)
        PROVE  Intact'
    BY <1>1, <2>8 DEF ResumeCall, SuspendStat, DeleteCall
  <2>9. ASSUME NEW u \in Thread, Kill(t, u)  PROVE Intact'
    BY <2>9, KillKeeps
  <2>10. ASSUME NEW u \in Thread, NEW p \in Prio, ChangePriority(t, u, p)  PROVE Intact'
    BY <2>10, ChangePriorityKeeps
  <2> QED BY <1>3, <2>1, <2>2, <2>3, <2>4, <2>5, <2>6, <2>7, <2>8, <2>9, <2>10 DEF Begin
<1>4. ASSUME NEW t \in Thread, ResumeInsert(t)  PROVE Good
  <2>1. CASE Alive(arg[t])
    BY <1>0, <1>4, <2>1, ResumeInsertKeeps
  <2>2. CASE ~ Alive(arg[t])
    <3>1. torn' # {}
      BY <1>4, <2>2 DEF ResumeInsert
    <3> QED BY <1>4, <2>2, <3>1, ResumeInsertClosed
  <2> QED BY <2>1, <2>2
<1>5. ASSUME NEW t \in Thread, Proceed(t)  PROVE Good
  <2>1. CASE ResumeStat(t) \/ ResumeLock(t)
    BY <1>0, <2>1, ResumeStatKeeps, ResumeLockKeeps
  <2>2. CASE SuspendLock(t) \/ DeleteRemove(t) \/ DeleteTimer(t) \/ DeleteClose(t)
    BY <1>2, <2>2 DEF SuspendLock, DeleteRemove, DeleteTimer, DeleteClose, At
  <2>3. CASE AsleepSchedule(t) /\ UNCHANGED arg
    BY <1>0, <2>3, ScheduleStepKeeps DEF AsleepSchedule, Plain
  <2>4. CASE WakeUp(t) /\ UNCHANGED arg
    BY <1>0, <2>4, WakeUpKeeps
  <2>5. CASE DoSchedule(t) \/ Yield(t)
    BY <1>0, <2>5, ScheduleStepKeeps DEF DoSchedule, Yield, Plain
  <2> HIDE DEF Good
  <2> QED BY <1>4, <1>5, <2>1, <2>2, <2>3, <2>4, <2>5 DEF Proceed
<1>6. ASSUME \E l \in WaitList : WakeFromIsr(l)  PROVE Good
  BY <1>0, <1>6, WakeFromIsrKeeps
<1>7. ASSUME Reap  PROVE Good
  BY <1>0, <1>7, ReapKeeps
<1>8. ASSUME FreeObject  PROVE Good
  <2>1. CASE InStart(arg[Idle])
    <3>1. torn' # {} /\ QueuesKept
      BY <1>8, <2>1, FreeObjectFacts DEF FreeObject, QueuesKept, Wf
    <3> QED BY <3>1
  <2>2. CASE ~ InStart(arg[Idle])
    BY <1>0, <1>8, <2>2, FreeObjectKeeps
  <2> QED BY <2>1, <2>2
<1>9. ASSUME Tick  PROVE Good
  BY <1>0, <1>9, SliceEndKeeps, TimerExpiresKeeps DEF Tick
<1> HIDE DEF Good
<1>10. ~ Torn
  BY DEF Torn
<1>11. Good
  BY <1>0, <1>3, <1>5, <1>6, <1>7, <1>8, <1>9, <1>10 DEF Next
<1> QED BY <1>11 DEF Good

LEMMA NextKeeps ==
  ASSUME Quiet, Inductive, [Next]_vars
  PROVE  Inductive'
<1>1. CASE UNCHANGED vars
  BY <1>1 DEF vars, Inductive, Intact, TypeOK, CallOK, CurrentRuns, DistinctArgs
<1>2. CASE torn # {} /\ Next
  BY <1>1, <1>2, TornStops
<1>3. CASE torn = {} /\ Next
  <2>1. Intact
    BY <1>3 DEF Inductive
  <2>2. QueuesKept /\ (Intact' \/ torn' # {})
    BY <1>3, <2>1, StepsKeep
  <2>3. orphans' \in SUBSET Thread /\ torn' \in SUBSET Thread
    BY <1>3, HistoryTypes DEF Inductive
  <2> QED BY <2>2, <2>3 DEF Inductive, TypeOK, QueuesKept
<1> QED BY <1>1, <1>2, <1>3

(* What every step of a Quiet program does to the other threads.           *)
LEMMA NextMoved ==
  ASSUME Quiet, Intact, torn = {}, Next
  PROVE  Moved /\ ("prio" \notin Api /\ HighestRuns => HighestRuns')
<1> DEFINE Good == Moved /\ ("prio" \notin Api /\ HighestRuns => HighestRuns')
<1>1. "resume" \notin Api /\ "resumeAny" \notin Api
      /\ "suspend" \notin Api /\ "suspendAny" \notin Api
      /\ "delete" \notin Api /\ "deleteAny" \notin Api
  BY DEF Quiet
<1>2. \A t \in Thread : at[t] \notin {"suspendLock", "deleteRemove", "deleteTimer", "deleteClose"}
  BY InductiveParts DEF Plain, Resuming
<1>3. ASSUME NEW t \in Thread, Begin(t)  PROVE Good
  <2>1. CASE Sleep(t) /\ UNCHANGED arg /\ SameHistory
    BY <2>1, SleepMoved
  <2>2. CASE SuspendSelf(t)
    BY <1>1, <2>2 DEF SuspendSelf
  <2>3. CASE Exit(t)
    BY <2>3, ExitMoved
  <2>4. CASE YieldCall(t) \/ EnterCritical(t) \/ ExitCritical(t)
    <3>1. SameHistory
      BY <2>4 DEF YieldCall, EnterCritical, ExitCritical
    <3> QED BY <2>4, <3>1, OwnFieldsMoved
  <2>5. CASE \E l \in WaitList : WaitOn(t, l) \/ Wake(t, l)
    BY <2>5, WaitOnMoved, WakeMoved
  <2>6. ASSUME NEW u \in Thread, Create(t, u) \/ Startup(t, u)  PROVE Good
    BY <2>6, CreateMoved
  <2>7. ASSUME NEW u \in Thread, ResumeCall(t, u) \/ SuspendStat(t, u) \/ DeleteCall(t, u)
        PROVE  Good
    BY <1>1, <2>7 DEF ResumeCall, SuspendStat, DeleteCall
  <2>8. ASSUME NEW u \in Thread, Kill(t, u)  PROVE Good
    BY <2>8, KillMoved
  <2>9. ASSUME NEW u \in Thread, NEW p \in Prio, ChangePriority(t, u, p)  PROVE Good
    BY <2>9, ChangePriorityMoved DEF ChangePriority
  <2> HIDE DEF Good
  <2> QED BY <1>3, <2>1, <2>2, <2>3, <2>4, <2>5, <2>6, <2>7, <2>8, <2>9 DEF Begin
<1>4. ASSUME NEW t \in Thread, Proceed(t)  PROVE Good
  <2>1. CASE ResumeStat(t) \/ ResumeLock(t) \/ ResumeInsert(t)
    BY <2>1, ResumeStatMoved, ResumeLockMoved, ResumeInsertMoved
  <2>2. CASE SuspendLock(t) \/ DeleteRemove(t) \/ DeleteTimer(t) \/ DeleteClose(t)
    BY <1>2, <2>2 DEF SuspendLock, DeleteRemove, DeleteTimer, DeleteClose, At
  <2>3. CASE AsleepSchedule(t) /\ UNCHANGED arg /\ SameHistory
    BY <2>3, ScheduleStepMoved DEF AsleepSchedule, Plain
  <2>4. CASE WakeUp(t) /\ UNCHANGED arg /\ SameHistory
    BY <2>4, OwnFieldsMoved
  <2>5. CASE DoSchedule(t) \/ Yield(t)
    BY <2>5, ScheduleStepMoved DEF DoSchedule, Yield, Plain
  <2> HIDE DEF Good
  <2> QED BY <1>4, <2>1, <2>2, <2>3, <2>4, <2>5 DEF Proceed
<1>5. CASE \E l \in WaitList : WakeFromIsr(l)
  BY <1>5, WakeFromIsrMoved
<1>6. CASE Reap \/ FreeObject
  BY <1>6, ReapMoved, FreeObjectMoved
<1>7. CASE Tick
  BY <1>7, SliceEndMoved, TimerExpiresMoved DEF Tick
<1> HIDE DEF Good
<1>8. Good
  BY <1>3, <1>4, <1>5, <1>6, <1>7 DEF Next, Torn, Good
<1> QED BY <1>8 DEF Good

(* rt_system_scheduler_start establishes the invariant.                    *)
LEMMA InitInductive ==
  ASSUME Init
  PROVE  Inductive
<1>1. {Idle, Main} \in SUBSET Thread /\ Idle \in {Idle, Main} /\ IsFiniteSet({Idle, Main})
  <2>1. IsFiniteSet({Idle})
    BY FS_Singleton
  <2>2. IsFiniteSet({Idle} \cup {Main})
    BY <2>1, FS_AddElement
  <2>3. {Idle} \cup {Main} = {Idle, Main}
    OBVIOUS
  <2> QED BY <2>2, <2>3, KernelAssumption, MainAssumption
<1>2. /\ at = [t \in Thread |-> "run"] /\ arg = [t \in Thread |-> Idle]
      /\ orphans = {} /\ torn = {}
  BY DEF Init, KernelInit
<1>3. Wf(k, Thread) /\ OneRuns(k) /\ k.stat[k.cur] = "running"
  <2>1. PICK r \in BootQueues({Idle, Main}) : k = FirstSwitch(Started({Idle, Main}, r))
    BY DEF Init, KernelInit
  <2> QED BY <1>1, <2>1, BootWf
<1>4. CurrentRuns(k, at)
  BY <1>3 DEF CurrentRuns, OneRuns
<1>5. TypeOK
  BY <1>2, <1>3, KernelAssumption DEF TypeOK, Wf, Label
<1>6. \A t \in Thread : CallOK(k, at, arg, t)
  BY <1>2, PlainCall DEF Plain
<1>7. DistinctArgs(k, at, arg)
  BY <1>2 DEF DistinctArgs, Resuming
<1> QED BY <1>3, <1>4, <1>5, <1>6, <1>7 DEF Inductive, Intact, WellFormed, Wf, TypeOK

(***************************************************************************)
(* The theorems, for any number of threads, priorities and wait lists.     *)
(***************************************************************************)
(* Whatever call a kill comes into the middle of, its caller's or one      *)
(* about its victim: the ready queues are exact whenever interrupts are    *)
(* enabled and nobody but the current thread runs, and until a thread that *)
(* had been ended is queued or released under a call that needs it, every  *)
(* node is in one list and every call finds its thread as it left it.      *)
THEOREM InductiveHolds ==
  ASSUME Quiet
  PROVE  Spec => []Inductive
<1>1. Init => Inductive
  BY InitInductive
<1>2. Inductive /\ [Next]_vars => Inductive'
  BY NextKeeps
<1> QED BY <1>1, <1>2, PTL DEF Spec

(* The variables keep their types: among others, the node that             *)
(* rt_schedule takes from a queue is always that of a thread.              *)
THEOREM TypeCorrect ==
  ASSUME Quiet
  PROVE  Spec => []TypeOK
<1>1. Inductive => TypeOK
  BY DEF Inductive
<1> QED BY <1>1, InductiveHolds, PTL

(* The bitmap and the ready queues agree, and a thread is in the queue of  *)
(* its priority exactly when it is ready: rt_schedule_insert_thread,       *)
(* rt_schedule_remove_thread, rt_schedule and the change of priority keep  *)
(* it so, whatever interrupts come between their calls.                    *)
THEOREM ReadyQueuesAreExact ==
  ASSUME Quiet
  PROVE  Spec => []ReadyQueuesExact
<1>1. Inductive => ReadyQueuesExact
  BY DEF Inductive, ReadyQueuesExact, ReadyQueued
<1> QED BY <1>1, InductiveHolds, PTL

(* A list node is linked into one list: the thread of a wait list is       *)
(* suspended, the one of the defunct list closed, and in no other list,    *)
(* until rt_thread_resume queues a thread that was killed in the middle of *)
(* that call, which is the only way to link a node twice.                  *)
THEOREM NodeInOneList ==
  ASSUME Quiet
  PROVE  Spec => []OneListPerThread
<1>1. Inductive => OneListPerThread
  BY DEF Inductive, Intact, WellFormed, OneListPerThread
<1> QED BY <1>1, InductiveHolds, PTL

(* The assertion of rt_thread_timeout never fails: every way of leaving    *)
(* the suspended state stops the thread timer in the same locked region.   *)
THEOREM TimeoutsFindSuspended ==
  ASSUME Quiet
  PROVE  Spec => []TimeoutFindsSuspended
<1>1. Inductive => TimeoutFindsSuspended
  BY DEF Inductive, TimeoutFindsSuspended
<1> QED BY <1>1, InductiveHolds, PTL

(* In an intact state, the hands a thread is in are those of a call of     *)
(* rt_thread_resume.                                                       *)
LEMMA ServedThreads ==
  ASSUME Intact, NoLostThread
  PROVE  AllServed(k, at, arg, orphans)
<1>1. ASSUME NEW u \in Thread, k.stat[arg[u]] = "suspend",
             at[u] \notin {"run", "schedule", "asleep", "awake", "yield"}
      PROVE  at[u] \in Resuming
  BY <1>1 DEF Intact, CallOK, Plain, Resuming, OffDefunct
<1> QED BY <1>1 DEF NoLostThread, AllServed, Served, Alive

(* No thread is left behind: whatever a suspended thread waits for, it is  *)
(* in a wait list, its timer runs, a living thread is in the middle of     *)
(* starting it, or a kill has ended the thread that was.                   *)
THEOREM NobodyLost ==
  ASSUME Quiet
  PROVE  Spec => []NoLostThread
<1> DEFINE Inv == Inductive /\ NoLostThread
<1>1. Init => Inv
  <2> SUFFICES ASSUME Init  PROVE Inv
    OBVIOUS
  <2>1. Inductive
    BY InitInductive
  <2>2. \A t \in Thread : k.stat[t] # "suspend"
    <3>1. {Idle, Main} \in SUBSET Thread
      BY KernelAssumption, MainAssumption
    <3>2. PICK r \in BootQueues({Idle, Main}) : k = FirstSwitch(Started({Idle, Main}, r))
      BY DEF Init, KernelInit
    <3> QED BY <3>1, <3>2, BootStat
  <2> QED BY <2>1, <2>2 DEF NoLostThread
<1>2. Inv /\ [Next]_vars => Inv'
  <2> SUFFICES ASSUME Inductive, NoLostThread, [Next]_vars  PROVE Inv'
    OBVIOUS
  <2>1. Inductive'
    BY NextKeeps
  <2>2. CASE UNCHANGED vars
    BY <2>1, <2>2 DEF vars, NoLostThread, Alive
  <2>3. CASE torn # {} /\ Next
    BY <2>2, <2>3, TornStops
  <2>4. CASE torn = {} /\ Next
    <3>1. Intact
      BY <2>4 DEF Inductive
    <3>2. AllServed(k, at, arg, orphans) /\ Moved
      BY <2>4, <3>1, ServedThreads, NextMoved
    <3>3. AllServed(k', at', arg', orphans')
      BY <3>2, MovedServes
    <3>4. NoLostThread'
      BY <3>3 DEF NoLostThread, AllServed, Served, Alive, Resuming
    <3> QED BY <2>1, <3>4
  <2> QED BY <2>2, <2>3, <2>4
<1>3. Inv => NoLostThread
  OBVIOUS
<1> QED BY <1>1, <1>2, <1>3, PTL DEF Spec

(* The threads that rt_thread_exit or a kill has closed stay off the       *)
(* processor until their control block is released, unless a thread that   *)
(* is in rt_thread_resume for one, having read its state before, queues it.*)
THEOREM ClosedForGood ==
  ASSUME Quiet
  PROVE  Spec => ClosedStaysClosed
<1> DEFINE A == \A t \in Thread : k.stat[t] = "close" =>
                  \/ k'.cur # t /\ k'.stat[t] \in {"close", "free"}
                  \/ \E u \in Thread \ {t} : ResumeInsert(u) /\ arg[u] = t
<1>1. Inductive /\ [Next]_vars => [A]_vars
  <2> SUFFICES ASSUME Inductive, Next, ~ UNCHANGED vars  PROVE A
    OBVIOUS
  <2>1. torn = {} /\ Intact
    BY TornStops DEF Inductive
  <2>2. CurrentRuns(k', at') /\ Moved
    BY <2>1, NextKeeps, NextMoved DEF Inductive
  <2> QED BY <2>2, MovedStaysClosed DEF Revived
<1> HIDE DEF A
<1>2. Spec => [][A]_vars
  BY <1>1, InductiveHolds, PTL DEF Spec
<1>3. [][A]_vars => ClosedStaysClosed
  BY DEF A, ClosedStaysClosed
<1> QED BY <1>2, <1>3

(* No ready thread has a higher priority than the one that has the         *)
(* processor, unless the scheduler is locked or that thread is on its way  *)
(* into rt_schedule.  A change of priority is excluded: the code does not  *)
(* schedule after it.                                                      *)
THEOREM HighestHasProcessor ==
  ASSUME Quiet, "prio" \notin Api
  PROVE  Spec => []HighestRuns
<1> DEFINE Inv == Inductive /\ HighestRuns
<1>1. Init => Inv
  <2> SUFFICES ASSUME Init  PROVE Inv
    OBVIOUS
  <2>1. {Idle, Main} \in SUBSET Thread /\ Idle \in {Idle, Main} /\ IsFiniteSet({Idle, Main})
    <3>1. IsFiniteSet({Idle}) /\ {Idle} \cup {Main} = {Idle, Main}
      BY FS_Singleton
    <3> QED BY <3>1, FS_AddElement, KernelAssumption, MainAssumption
  <2>2. PICK r \in BootQueues({Idle, Main}) : k = FirstSwitch(Started({Idle, Main}, r))
    BY DEF Init, KernelInit
  <2>3. Top(k)
    BY <2>1, <2>2, BootTop
  <2> QED BY <2>3, InitInductive DEF Top, HighestRuns
<1>2. Inv /\ [Next]_vars => Inv'
  <2> SUFFICES ASSUME Inductive, HighestRuns, [Next]_vars  PROVE Inv'
    OBVIOUS
  <2>1. Inductive'
    BY NextKeeps
  <2>2. CASE UNCHANGED vars
    BY <2>1, <2>2 DEF vars, HighestRuns
  <2>3. CASE torn # {} /\ Next
    BY <2>2, <2>3, TornStops
  <2>4. CASE torn = {} /\ Next
    BY <2>1, <2>4, NextMoved DEF Inductive
  <2> QED BY <2>2, <2>3, <2>4
<1>3. Inv => HighestRuns
  OBVIOUS
<1> QED BY <1>1, <1>2, <1>3, PTL DEF Spec
=============================================================================
