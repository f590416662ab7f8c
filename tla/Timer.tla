------------------------------- MODULE Timer --------------------------------
(***************************************************************************)
(* The timers of timer.c: two lists in the order of their timeouts, counted*)
(* in ticks that wrap around; the check in the clock interrupt; the thread *)
(* that serves the soft timers and sleeps on a hard timer of its own; and  *)
(* the calls that start and stop timers, from a thread of lower priority,  *)
(* from interrupt handlers and from the callbacks of the timers.           *)
(* A thread may be interrupted between any two locked regions of a call.   *)
(***************************************************************************)
EXTENDS Integers, FiniteSets, SequencesExt

CONSTANTS
  Hard, Soft,    \* the timers of the two lists
  Own,           \* the hard timer on which the timer thread sleeps
  End,           \* the head of a list, as a node, and no timer
  Periodic,      \* the timers created with RT_TIMER_FLAG_PERIODIC
  TickMod,       \* RT_TICK_MAX + 1
  Times,         \* the times that timers are set to
  InitTime,      \* the times they are created with
  Retimed,       \* bound: the timers whose time is changed later
  Lag,           \* bound: how many ticks a thread takes to go on
  FromThread, FromCallback, FromIsr,
                 \* the timers that are started by the thread, by callbacks of
                 \* soft timers, and by handlers and callbacks of hard timers
  CallbackStops, \* whether callbacks of soft timers stop soft timers
  AvoidsMax      \* whether soft timers are never set to expire at RT_TICK_MAX

Timers == Hard \cup Soft
User == Timers \ {Own}
Tick == 0 .. TickMod - 1

(* RT_TICK_MAX / 2: a difference of ticks below it counts as positive.     *)
RtTickMax == TickMod - 1
Half == RtTickMax \div 2

ASSUME TimerAssumption ==
  /\ Own \in Hard /\ Hard \cap Soft = {} /\ Periodic \subseteq User
  /\ TickMod \in Nat /\ TickMod > 4 /\ Lag \in Nat
  /\ Times # {} /\ Times \subseteq 1 .. Half - 1 /\ InitTime \in [User -> Times]
  /\ Retimed \subseteq User
  /\ End \notin Timers
  /\ FromThread \cup FromCallback \cup FromIsr \subseteq User
  /\ CallbackStops \in BOOLEAN /\ AvoidsMax \in BOOLEAN

(* The longest time a timer is set to.                                     *)
Longest == Max(Times)

(***************************************************************************)
(* What timer.c leaves to its callers and to the configuration.            *)
(***************************************************************************)
(* Times, and what a thread may be late, are short against the half of the *)
(* range of the tick by which timer.c tells later from earlier.            *)
Short == Longest + Lag < Half /\ 2 * Longest + Lag < Half + 2

(* A timer is started from one side: by handlers, by a thread or by the    *)
(* callbacks of soft timers; handlers leave soft timers alone; a callback  *)
(* stops no other timer; and no soft timer is set to expire at RT_TICK_MAX.*)
Disciplined ==
  /\ FromIsr \cap Soft = {} /\ FromIsr \cap (FromThread \cup FromCallback) = {}
  /\ FromThread \cap FromCallback = {}
  /\ ~ CallbackStops /\ AvoidsMax

VARIABLES
  tick,   \* rt_tick
  q,      \* the lists, and of each timer timeout_tick, init_tick, ACTIVATED
  clk,    \* rt_timer_check in the clock interrupt
  tt,     \* the timer thread
  call,   \* the rt_timer_start or rt_timer_stop of each thread in progress
  left    \* ghost: ticks still to pass until the timeout, without wrap-around

vars == <<tick, q, clk, tt, call, left>>

Linked(x) == x \in Range(q.hard) \cup Range(q.soft)
Blocked == {"asleep", "delayed"}
Proc == {"tt", "caller"}

Init ==
  /\ tick = 0
  /\ q = [hard |-> << >>, soft |-> << >>, due |-> [x \in Timers |-> 0],
          init |-> InitTime, on |-> {}]
  /\ clk = [at |-> "off", t |-> End]
  /\ tt = [at |-> "scan", n |-> End, t |-> End, now |-> 0]
  /\ call = [p \in Proc |-> [at |-> "idle", x |-> End]]
  /\ left = [x \in Timers |-> 0]

(***************************************************************************)
(* The pieces of the operations, on the record q.                          *)
(***************************************************************************)
Minus(a, b) == (a - b) % TickMod

(* _rt_timer_remove: the node is unlinked and points to itself.  Its        *)
(* timeout_tick is read no more, unless it is the node n that              *)
(* rt_soft_timer_check has kept, and is otherwise forgotten here.          *)
Unlinked(r, x, n) ==
  [r EXCEPT !.hard = RemoveFirst(@, x), !.soft = RemoveFirst(@, x),
            !.due[x] = IF x = n THEN @ ELSE 0]

Removed(r, x) == Unlinked(r, x, tt.n)

Deactivated(r, x) == [r EXCEPT !.on = @ \ {x}]

(* Faulty variant: the tick is wider than rt_tick_t.                       *)
StampedWide(r, x, time) == [r EXCEPT !.due[x] = tick + time]

Stamped(r, x, time) == [r EXCEPT !.due[x] = (tick + time) % TickMod]

(* Faulty variant: the ticks are compared without wrap-around.             *)
LaterPlain(a, b) == a > b

Later(a, b) == Minus(a, b) # 0 /\ Minus(a, b) < Half

(* The search of rt_timer_start: before the first timer that is later.     *)
Place(r, s, x) == SelectInSeq(s, LAMBDA y : Later(r.due[y], r.due[x]))

Placed(r, s, x) ==
  LET i == Place(r, s, x) IN IF i = 0 THEN Append(s, x) ELSE InsertAt(s, i, x)

Inserted(r, x) ==
  LET linked == IF x \in Soft THEN [r EXCEPT !.soft = Placed(r, @, x)]
                              ELSE [r EXCEPT !.hard = Placed(r, @, x)]
  IN  [linked EXCEPT !.on = @ \cup {x}]

Started(r, x, time) == Inserted(Stamped(Deactivated(Removed(r, x), x), x, time), x)

Stopped(r, x) == Deactivated(Removed(r, x), x)

(* Faulty variant: a timer expires after its tick.                         *)
ExpiredAfter(r, x, now) == Minus(now, r.due[x]) \in 1 .. Half - 1

Expired(r, x, now) == Minus(now, r.due[x]) < Half

(* rt_thread_resume of the timer thread, if it is suspended: its own timer *)
(* is stopped.                                                             *)
Woken(r) == IF Own \in r.on THEN Stopped(r, Own) ELSE r

Wake == tt' = IF tt.at \in Blocked THEN [tt EXCEPT !.at = "begin"] ELSE tt

(* The tick that the timer thread cannot tell from "no timer".             *)
Avoided(x) == AvoidsMax /\ x \in Soft /\ (tick + q.init[x]) % TickMod = RtTickMax

(* A start that is not interrupted, with the wake-up of the timer thread.  *)
StartNow(x) ==
  /\ ~ Avoided(x)
  /\ LET r == Started(q, x, q.init[x])
     IN  q' = IF x \in Soft /\ tt.at \in Blocked THEN Woken(r) ELSE r
  /\ IF x \in Soft THEN Wake ELSE UNCHANGED tt
  /\ left' = [left EXCEPT ![x] = q.init[x]]

(* A stop that is not interrupted; a timer that is not active is refused.  *)
StopNow(x) ==
  /\ x \in q.on
  /\ q' = Stopped(q, x)
  /\ left' = [left EXCEPT ![x] = 0]
  /\ UNCHANGED tt

(***************************************************************************)
(* The clock interrupt: rt_tick_increase and rt_timer_check.  Interrupts   *)
(* are disabled until the check is over, so nothing else runs.             *)
(***************************************************************************)
Pending(x) == Linked(x) \/ \E p \in Proc : call[p].at = "insert" /\ call[p].x = x

Interruptible == clk.at = "off"

(* Time waits for threads that run, but not for a thread that sleeps: a    *)
(* call, or the timer thread once it is ready, goes on Lag ticks after the *)
(* timeout of its timer at the latest.                                     *)
Waits(x) ==
  \/ \E p \in Proc : call[p].x = x /\ call[p].at \in {"insert", "wake"}
  \/ x \in Range(q.soft) /\ tt.at \notin Blocked

TickIncrease ==
  /\ Interruptible
  /\ \A x \in Timers : Waits(x) => left[x] > - Lag
  /\ tick' = (tick + 1) % TickMod
  /\ left' = [x \in Timers |-> IF Pending(x) THEN left[x] - 1 ELSE left[x]]
  /\ clk' = [clk EXCEPT !.at = "check"]
  /\ UNCHANGED <<q, tt, call>>

HardDue == q.hard # << >> /\ Expired(q, Head(q.hard), tick)

(* The first timer has expired: it is removed and its function called; that*)
(* of the timer thread's own timer is rt_thread_timeout.                   *)
CheckFires ==
  /\ clk.at = "check" /\ HardDue
  /\ LET x == Head(q.hard) IN
       /\ q' = Removed(q, x)
       /\ left' = [left EXCEPT ![x] = 0]
       /\ clk' = [at |-> "call", t |-> x]
       /\ IF x = Own THEN Wake ELSE UNCHANGED tt
  /\ UNCHANGED <<tick, call>>

CheckEnds ==
  /\ clk.at = "check" /\ ~ HardDue
  /\ clk' = [at |-> "off", t |-> End]
  /\ UNCHANGED <<tick, q, tt, call, left>>

(* A callback of a hard timer starts and stops timers, also itself.        *)
CallbackStarts(x) ==
  /\ clk.at = "call" /\ clk.t \in User /\ x \in FromIsr \cup {clk.t}
  /\ StartNow(x) /\ UNCHANGED <<tick, clk, call>>

CallbackStopsNow(x) ==
  /\ clk.at = "call" /\ clk.t \in User /\ x \in FromIsr \cup {clk.t}
  /\ StopNow(x) /\ UNCHANGED <<tick, clk, call>>

(* A periodic timer that its callback has not stopped is started again.    *)
CallbackReturns ==
  /\ clk.at = "call"
  /\ IF clk.t \in Periodic \cap q.on THEN StartNow(clk.t)
                                     ELSE /\ q' = Deactivated(q, clk.t)
                                          /\ UNCHANGED <<tt, left>>
  /\ clk' = [at |-> "check", t |-> End]
  /\ UNCHANGED <<tick, call>>

(* Other interrupt handlers.                                               *)
IsrStarts(x) == Interruptible /\ x \in FromIsr /\ StartNow(x) /\ UNCHANGED <<tick, clk, call>>

IsrStops(x) == Interruptible /\ x \in FromIsr /\ StopNow(x) /\ UNCHANGED <<tick, clk, call>>

(***************************************************************************)
(* rt_timer_start and rt_timer_stop called by a thread: by one of a lower  *)
(* priority than the timer thread, which runs while that one is blocked, or*)
(* by the timer thread for a callback or to start a periodic timer again.  *)
(***************************************************************************)
Runs(p) == Interruptible /\ (tt.at \in Blocked <=> p = "caller")

Free(p) == Runs(p) /\ call[p].at = "idle" /\ (p = "tt" => tt.at = "fire")

At(p, l) == Runs(p) /\ call[p].at = l

Goto(p, l) ==
  call' = [call EXCEPT ![p] = IF l = "idle" THEN [at |-> l, x |-> End] ELSE [@ EXCEPT !.at = l]]

Begun(p, x) ==
  /\ q' = Deactivated(Removed(q, x), x)
  /\ left' = [left EXCEPT ![x] = 0]
  /\ call' = [call EXCEPT ![p] = [at |-> "stamp", x |-> x]]

StartBegin(p, x) ==
  /\ Free(p) /\ x \in (IF p = "tt" THEN FromCallback \cup {tt.t} ELSE FromThread)
  /\ Begun(p, x)
  /\ UNCHANGED <<tick, clk, tt>>

StartStamp(p) ==
  /\ At(p, "stamp") /\ ~ Avoided(call[p].x)
  /\ q' = Stamped(q, call[p].x, q.init[call[p].x])
  /\ left' = [left EXCEPT ![call[p].x] = q.init[call[p].x]]
  /\ Goto(p, "insert")
  /\ UNCHANGED <<tick, clk, tt>>

StartInsert(p) ==
  /\ At(p, "insert")
  /\ q' = Inserted(q, call[p].x)
  /\ Goto(p, IF call[p].x \in Soft THEN "wake" ELSE "idle")
  /\ UNCHANGED <<tick, clk, tt, left>>

(* Faulty variant: the timer thread is only woken from a delay.            *)
StartWakeDelayed(p) ==
  /\ At(p, "wake")
  /\ IF tt.at = "delayed" THEN q' = Woken(q) /\ Wake ELSE UNCHANGED <<q, tt>>
  /\ Goto(p, "idle")
  /\ UNCHANGED <<tick, clk, left>>

StartWake(p) ==
  /\ At(p, "wake")
  /\ IF tt.at \in Blocked THEN q' = Woken(q) /\ Wake ELSE UNCHANGED <<q, tt>>
  /\ Goto(p, "idle")
  /\ UNCHANGED <<tick, clk, left>>

(* The flag is tested and, in the end, cleared with interrupts enabled.    *)
StopBegin(p, x) ==
  /\ Free(p) /\ x \in User \cap q.on
  /\ p = "tt" => x = tt.t \/ (CallbackStops /\ x \in FromCallback)
  /\ call' = [call EXCEPT ![p] = [at |-> "unlink", x |-> x]]
  /\ UNCHANGED <<tick, q, clk, tt, left>>

StopUnlink(p) ==
  /\ At(p, "unlink")
  /\ q' = Removed(q, call[p].x)
  /\ left' = [left EXCEPT ![call[p].x] = 0]
  /\ Goto(p, "clear")
  /\ UNCHANGED <<tick, clk, tt>>

StopClear(p) ==
  /\ At(p, "clear")
  /\ q' = Deactivated(q, call[p].x)
  /\ Goto(p, "idle")
  /\ UNCHANGED <<tick, clk, tt, left>>

(* rt_timer_control, RT_TIMER_CTRL_SET_TIME: the timeout that runs stays.  *)
SetTime(p, x, n) ==
  /\ Free(p) /\ x \in Retimed /\ q.init[x] # n
  /\ q' = [q EXCEPT !.init[x] = n]
  /\ UNCHANGED <<tick, clk, tt, call, left>>

(* rt_timer_detach or rt_timer_delete, and rt_timer_init or rt_timer_create*)
(* of the timer that takes its place.                                      *)
Renew(x) ==
  /\ Free("caller") /\ x \in FromThread
  /\ q' = [Deactivated(Removed(q, x), x) EXCEPT !.due[x] = 0]
  /\ left' = [left EXCEPT ![x] = 0]
  /\ UNCHANGED <<tick, clk, tt, call>>

(***************************************************************************)
(* The timer thread.                                                       *)
(***************************************************************************)
TtAt(l) == Interruptible /\ tt.at = l /\ call["tt"].at = "idle"

(* rt_timer_list_next_timeout: RT_TICK_MAX stands for no timer.            *)
NextTimeout == IF q.soft = << >> THEN RtTickMax ELSE q.due[Head(q.soft)]

LookForNext ==
  /\ TtAt("scan")
  /\ tt' = IF NextTimeout = RtTickMax
           THEN [tt EXCEPT !.at = "none"]
           ELSE [tt EXCEPT !.at = "some", !.now = NextTimeout]
  /\ UNCHANGED <<tick, q, clk, call, left>>

(* There is no soft timer: rt_thread_suspend.                              *)
SleepOn ==
  /\ TtAt("none")
  /\ tt' = [tt EXCEPT !.at = "asleep"]
  /\ UNCHANGED <<tick, q, clk, call, left>>

(* Faulty variant: the tick of the timeout is taken for the time until then.*)
HowLongAbsolute ==
  /\ TtAt("some")
  /\ tt' = [tt EXCEPT !.at = IF Minus(tt.now, tick) < Half THEN "nap" ELSE "begin"]
  /\ UNCHANGED <<tick, q, clk, call, left>>

(* The time until the next timeout, unless it has come already.            *)
HowLong ==
  /\ TtAt("some")
  /\ tt' = IF Minus(tt.now, tick) < Half
           THEN [tt EXCEPT !.at = "nap", !.now = Minus(tt.now, tick)]
           ELSE [tt EXCEPT !.at = "begin", !.now = 0]
  /\ UNCHANGED <<tick, q, clk, call, left>>

(* rt_thread_delay, up to its call of rt_schedule.                         *)
Delay ==
  /\ TtAt("nap")
  /\ q' = Started(q, Own, tt.now)
  /\ left' = [left EXCEPT ![Own] = tt.now]
  /\ tt' = [tt EXCEPT !.at = "delayed", !.now = 0]
  /\ UNCHANGED <<tick, clk, call>>

(* rt_soft_timer_check: the tick is read, then the scheduler is locked.    *)
ReadTick ==
  /\ TtAt("begin")
  /\ tt' = [tt EXCEPT !.at = "enter", !.now = tick]
  /\ UNCHANGED <<tick, q, clk, call, left>>

FirstNode == IF q.soft = << >> THEN End ELSE Head(q.soft)

Enter ==
  /\ TtAt("enter")
  /\ tt' = [tt EXCEPT !.at = "check", !.n = FirstNode]
  /\ UNCHANGED <<tick, q, clk, call, left>>

(* The node after x: the one that follows, the list head, or, of a timer   *)
(* that is in no list, the node itself.                                    *)
NodeAfter(x) ==
  IF x \notin Range(q.soft) THEN x
  ELSE LET i == SelectInSeq(q.soft, LAMBDA y : y = x)
       IN  IF i = Len(q.soft) THEN End ELSE q.soft[i + 1]

SoftDue == tt.n # End /\ Expired(q, tt.n, tt.now)

(* Faulty variant: the next node is looked up after the removal.           *)
SoftFiresThenNext ==
  /\ TtAt("check") /\ SoftDue
  /\ q' = Unlinked(q, tt.n, tt.n)
  /\ left' = [left EXCEPT ![tt.n] = 0]
  /\ tt' = [at |-> "fire", n |-> tt.n, t |-> tt.n, now |-> 0]
  /\ UNCHANGED <<tick, clk, call>>

(* An expired timer is removed and its function called, with the scheduler *)
(* unlocked and the next node kept.                                        *)
SoftFires ==
  /\ TtAt("check") /\ SoftDue
  /\ q' = Unlinked(q, tt.n, NodeAfter(tt.n))
  /\ left' = [left EXCEPT ![tt.n] = 0]
  /\ tt' = [at |-> "fire", n |-> NodeAfter(tt.n), t |-> tt.n, now |-> 0]
  /\ UNCHANGED <<tick, clk, call>>

SoftCheckEnds ==
  /\ TtAt("check") /\ ~ SoftDue
  /\ tt' = [at |-> "scan", n |-> End, t |-> End, now |-> 0]
  /\ UNCHANGED <<tick, q, clk, call, left>>

(* The callback returns and the tick is read again.                        *)
SoftReturns ==
  /\ TtAt("fire")
  /\ tt' = [tt EXCEPT !.at = "again", !.now = tick]
  /\ UNCHANGED <<tick, q, clk, call, left>>

(* A periodic timer that has not been stopped is started again.            *)
SoftAgain ==
  /\ TtAt("again")
  /\ IF tt.t \in Periodic \cap q.on
     THEN Begun("tt", tt.t)
     ELSE q' = Deactivated(q, tt.t) /\ UNCHANGED <<call, left>>
  /\ tt' = [tt EXCEPT !.at = "check", !.t = End]
  /\ UNCHANGED <<tick, clk>>

TimerThread ==
  \/ LookForNext \/ SleepOn \/ HowLong \/ Delay \/ ReadTick \/ Enter
  \/ SoftFires \/ SoftCheckEnds \/ SoftReturns \/ SoftAgain

CallSteps(p) ==
  StartStamp(p) \/ StartInsert(p) \/ StartWake(p) \/ StopUnlink(p) \/ StopClear(p)

Clock == TickIncrease \/ CheckFires \/ CheckEnds \/ CallbackReturns

Environment ==
  \E x \in User :
    \/ CallbackStarts(x) \/ CallbackStopsNow(x) \/ IsrStarts(x) \/ IsrStops(x) \/ Renew(x)
    \/ \E p \in Proc : StartBegin(p, x) \/ StopBegin(p, x) \/ \E n \in Times : SetTime(p, x, n)

Next == Clock \/ TimerThread \/ Environment \/ \E p \in Proc : CallSteps(p)

Spec == Init /\ [][Next]_vars

(***************************************************************************)
(* Properties.                                                             *)
(***************************************************************************)
TypeOK ==
  /\ tick \in Tick
  /\ q \in [hard : Seq(Hard), soft : Seq(Soft), due : [Timers -> Tick],
            init : [User -> Times], on : SUBSET Timers]
  /\ clk \in [at : {"off", "check", "call"}, t : Hard \cup {End}]
  /\ tt \in [at : {"scan", "none", "some", "nap", "asleep", "delayed", "begin",
                   "enter", "check", "fire", "again"},
             n : Soft \cup {End}, t : Soft \cup {End}, now : Tick]
  /\ call \in [Proc -> [at : {"idle", "stamp", "insert", "wake", "unlink", "clear"}, x : User \cup {End}]]
  /\ left \in [Timers -> Int]

(* The lists are in the order of the time that is really left, though the  *)
(* ticks they are ordered by wrap around, and no timer is linked twice.    *)
Ordered(s) == \A i, j \in 1 .. Len(s) : i < j => s[i] # s[j] /\ left[s[i]] <= left[s[j]]

InOrder == Ordered(q.hard) /\ Ordered(q.soft)

Fires(x) ==
  \/ clk.at = "check" /\ clk'.at = "call" /\ clk'.t = x
  \/ tt.at = "check" /\ tt'.at = "fire" /\ tt'.t = x

(* No timer fires before its time, and none that has come to its time is   *)
(* left over by the check.                                                 *)
OnTime ==
  [][/\ \A x \in Timers : Fires(x) => left[x] <= 0
     /\ clk.at = "check" /\ clk'.at = "off" => \A x \in Range(q.hard) : left[x] > 0]_vars

(* Only a timer that is in a list fires: one that has been stopped,        *)
(* detached or restarted in the meantime does not.                         *)
StoppedStaysQuiet == [][\A x \in Timers : Fires(x) => Linked(x)]_vars

(* The timer thread sleeps without a timeout only while there is no soft   *)
(* timer, or else the thread that has just linked one is about to wake it; *)
(* and with a timeout only while its own timer runs.                       *)
NeverOversleeps ==
  /\ tt.at = "asleep" => q.soft = << >> \/ call["caller"].at = "wake"
  /\ tt.at = "delayed" => Linked(Own)

(* The timer thread serves a soft timer in time: threads that are slow can *)
(* delay it, by Lag before it is served and by as much as the timer thread *)
(* then sleeps, but no more.                                               *)
Punctual == \A x \in Range(q.soft) : left[x] >= - (Lag + Longest)
=============================================================================
