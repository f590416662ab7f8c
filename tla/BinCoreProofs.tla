---------------------------- MODULE BinCoreProofs ---------------------------
(***************************************************************************)
(* Channels, processes and shared memory, each by itself and all together, *)
(* for any number of them.  What is proved of channels and of shared       *)
(* memory holds whatever the programs do; of processes, if an exec is over *)
(* before the thread that it has started runs.                             *)
(***************************************************************************)
EXTENDS MCBinCore, KernelProofs

(***************************************************************************)
(* Channels, whatever the programs do: senders that do not take turns, or  *)
(* send where nobody waits, timeouts, and a pool that runs out.            *)
(* ChInductive is the invariant.                                           *)
(***************************************************************************)
(* The thread is in the list of the receivers.                             *)
Listens(t) == t \in Range(k.wl["channel"])

(* A thread whose send found no receiver may go on although it has         *)
(* suspended itself; one that has been received is awake.                  *)
ChKernelSound ==
  /\ Wf(k, Thread) /\ OneRuns(k) /\ k.nest = 0
  /\ k.stat[k.cur] \in {"running", "suspend"}
  /\ at[k.cur] \in {"received", "reply"} => k.stat[k.cur] = "running"

(* Who listens is in bin_channel_recv; the idle thread is in no call.      *)
ChCallsSound ==
  /\ \A t \in Thread :
       /\ Listens(t) => t \in Receiver /\ at[t] \in {"recvSchedule", "received"}
       /\ at[t] \in {"collect", "reply"} => use.replies
  /\ at[Idle] = "run"

(* Who has a message is on its way to read it or to reply.                 *)
OnTheirWay ==
  use.replies /\ Sufficed =>
    \A t \in Thread : msgRet[t] # 0 => t \in Receiver /\ at[t] \in {"recvSchedule", "received", "reply"}

(* There is somebody to wake.                                              *)
ReplyKnown == ch.waiting # << >> => ch.reply \in Thread

ChInductive ==
  ChTypeOK /\ OwedExact /\ ChKernelSound /\ ChCallsSound /\ OnTheirWay /\ ReplyKnown

ChRecord ==
  [reply : Thread \cup {NoThread}, waiting : Seq(Receiver), arrived : Seq(Receiver), pos : 0 .. PoolSize]

(* The channel with other fields.                                          *)
LEMMA ChannelWith ==
  ASSUME NEW A, NEW B, NEW C, NEW D, NEW c \in [reply : A, waiting : B, arrived : C, pos : D],
         NEW w, NEW v
  PROVE  /\ [c EXCEPT !.arrived = w]
              = [reply |-> c.reply, waiting |-> c.waiting, arrived |-> w, pos |-> c.pos]
         /\ [c EXCEPT !.waiting = w, !.arrived = v]
              = [reply |-> c.reply, waiting |-> w, arrived |-> v, pos |-> c.pos]
         /\ [c EXCEPT !.pos = w, !.reply = v]
              = [reply |-> v, waiting |-> c.waiting, arrived |-> c.arrived, pos |-> w]
         /\ [c EXCEPT !.pos = w, !.waiting = v]
              = [reply |-> c.reply, waiting |-> v, arrived |-> c.arrived, pos |-> w]
<1>1. c = [reply |-> c.reply, waiting |-> c.waiting, arrived |-> c.arrived, pos |-> c.pos]
  OBVIOUS
<1>2. [c EXCEPT !.arrived = w]
        = [reply |-> c.reply, waiting |-> c.waiting, arrived |-> w, pos |-> c.pos]
  BY <1>1
<1>3. [c EXCEPT !.waiting = w, !.arrived = v]
        = [reply |-> c.reply, waiting |-> w, arrived |-> v, pos |-> c.pos]
  <2> DEFINE d == [c EXCEPT !.waiting = w]
  <2>1. d = [reply |-> c.reply, waiting |-> w, arrived |-> c.arrived, pos |-> c.pos]
    BY <1>1
  <2>2. [c EXCEPT !.waiting = w, !.arrived = v] = [d EXCEPT !.arrived = v]
    BY <1>1
  <2> HIDE DEF d
  <2>3. /\ d = [reply |-> d.reply, waiting |-> d.waiting, arrived |-> d.arrived, pos |-> d.pos]
        /\ d.waiting = w /\ d.reply = c.reply /\ d.pos = c.pos
    BY <2>1
  <2>4. [d EXCEPT !.arrived = v] = [reply |-> d.reply, waiting |-> d.waiting, arrived |-> v, pos |-> d.pos]
    BY <2>3
  <2> QED BY <2>2, <2>3, <2>4
<1>4. [c EXCEPT !.pos = w, !.reply = v]
        = [reply |-> v, waiting |-> c.waiting, arrived |-> c.arrived, pos |-> w]
  <2> DEFINE d == [c EXCEPT !.pos = w]
  <2>1. d = [reply |-> c.reply, waiting |-> c.waiting, arrived |-> c.arrived, pos |-> w]
    BY <1>1
  <2>2. [c EXCEPT !.pos = w, !.reply = v] = [d EXCEPT !.reply = v]
    BY <1>1
  <2> HIDE DEF d
  <2>3. /\ d = [reply |-> d.reply, waiting |-> d.waiting, arrived |-> d.arrived, pos |-> d.pos]
        /\ d.pos = w /\ d.waiting = c.waiting /\ d.arrived = c.arrived
    BY <2>1
  <2>4. [d EXCEPT !.reply = v] = [reply |-> v, waiting |-> d.waiting, arrived |-> d.arrived, pos |-> d.pos]
    BY <2>3
  <2> QED BY <2>2, <2>3, <2>4
<1>5. [c EXCEPT !.pos = w, !.waiting = v]
        = [reply |-> c.reply, waiting |-> v, arrived |-> c.arrived, pos |-> w]
  <2> DEFINE d == [c EXCEPT !.pos = w]
  <2>1. d = [reply |-> c.reply, waiting |-> c.waiting, arrived |-> c.arrived, pos |-> w]
    BY <1>1
  <2>2. [c EXCEPT !.pos = w, !.waiting = v] = [d EXCEPT !.waiting = v]
    BY <1>1
  <2> HIDE DEF d
  <2>3. /\ d = [reply |-> d.reply, waiting |-> d.waiting, arrived |-> d.arrived, pos |-> d.pos]
        /\ d.pos = w /\ d.reply = c.reply /\ d.arrived = c.arrived
    BY <2>1
  <2>4. [d EXCEPT !.waiting = v] = [reply |-> d.reply, waiting |-> v, arrived |-> d.arrived, pos |-> d.pos]
    BY <2>3
  <2> QED BY <2>2, <2>3, <2>4
<1> QED BY <1>2, <1>3, <1>4, <1>5

(* Part by part.                                                           *)
LEMMA ChParts ==
  ASSUME ChInductive
  PROVE  /\ Wf(k, Thread) /\ OneRuns(k) /\ k.nest = 0 /\ k \in KernelState
         /\ k.cur \in Thread /\ k.stat \in [Thread -> Stat] /\ k.err \in [Thread -> Err]
         /\ k.wl["channel"] \in Seq(Thread) /\ IsInjective(k.wl["channel"])
         /\ "channel" \in WaitList /\ WaitList = {"channel"}
         /\ at \in [Thread -> ChLabel] /\ use \in Uses /\ ch \in ChRecord
         /\ msgRet \in [Thread -> 0 .. PoolSize] /\ PoolSize \in Nat
<1>1. Wf(k, Thread) /\ k \in KernelState
  BY DEF ChInductive, ChKernelSound, Wf
<1>2. k.cur \in Thread /\ k.stat \in [Thread -> Stat] /\ k.err \in [Thread -> Err]
  BY <1>1 DEF KernelState
<1>3. "channel" \in WaitList /\ WaitList = {"channel"} /\ PoolSize \in Nat
  BY ChannelAssumption
<1>4. k.wl["channel"] \in Seq(Thread) /\ IsInjective(k.wl["channel"])
  BY <1>1, <1>3 DEF KernelState, Wf, OneList
<1> QED BY <1>1, <1>2, <1>3, <1>4 DEF ChInductive, ChTypeOK, ChKernelSound, ChRecord

(* What the calls need of a step of the thread t to the label a.           *)
ChMoves(t, a) ==
  /\ Wf(k', Thread) /\ OneRuns(k') /\ k'.nest = 0
  /\ k'.stat[k'.cur] \in {"running", "suspend"}
  /\ at'[k'.cur] \in {"received", "reply"} => k'.stat[k'.cur] = "running"
  /\ Goto(t, a) /\ use' = use
  /\ a # "run" => t # Idle
  /\ at[t] = "noMessage" => a = "noMessage"
  /\ a \in {"collect", "reply"} => use.replies
  /\ \A x \in Thread \ {t} : Listens(x)' => Listens(x)
  /\ Listens(t)' => t \in Receiver /\ a \in {"recvSchedule", "received"}

(* And what the messages need.                                             *)
ChOwes ==
  use.replies /\ Sufficed /\ Sufficed' =>
    /\ IsInjective(ch'.waiting) /\ Range(ch'.waiting) = {x \in Thread : msgRet'[x] # 0}
    /\ \A x \in Thread : Listens(x)' => msgRet'[x] = 0
    /\ \A x \in Thread : msgRet'[x] # 0 => x \in Receiver /\ at'[x] \in {"recvSchedule", "received", "reply"}

LEMMA ChStepKeeps ==
  ASSUME ChInductive, NEW t \in Thread, NEW a \in ChLabel, ChMoves(t, a), ChOwes,
         ch' \in ChRecord, ch'.waiting # << >> => ch'.reply \in Thread,
         msgRet' \in [Thread -> 0 .. PoolSize]
  PROVE  ChInductive'
<1>1. at' \in [Thread -> ChLabel] /\ at'[t] = a /\ \A x \in Thread \ {t} : at'[x] = at[x]
  BY ChParts DEF ChMoves, Goto
<1>2. k' \in KernelState /\ use' = use
  BY DEF ChMoves, Wf
<1>3. ChTypeOK'
  BY <1>1, <1>2 DEF ChInductive, ChTypeOK, ChRecord
<1>4. ChKernelSound'
  BY DEF ChMoves, ChKernelSound
<1>5. ChCallsSound'
  <2>1. at'[Idle] = "run"
    BY <1>1, KernelAssumption DEF ChMoves, ChInductive, ChCallsSound
  <2>2. ASSUME NEW x \in Thread
        PROVE  /\ Listens(x)' => x \in Receiver /\ at'[x] \in {"recvSchedule", "received"}
               /\ at'[x] \in {"collect", "reply"} => use'.replies
    <3>1. CASE x = t
      BY <1>1, <1>2, <3>1 DEF ChMoves
    <3>2. CASE x # t
      BY <1>1, <1>2, <3>2 DEF ChMoves, ChInductive, ChCallsSound
    <3> QED BY <3>1, <3>2
  <2> QED BY <2>1, <2>2 DEF ChCallsSound
<1>6. Sufficed' => Sufficed
  BY <1>1 DEF Sufficed, ChMoves
<1>7. OnTheirWay'
  BY <1>2, <1>6 DEF OnTheirWay, ChOwes
<1>8. OwedExact'
  <2>1. k'.wl["channel"] \in Seq(Thread)
    BY <1>2, ChParts DEF KernelState
  <2>2. \A x \in Range(k'.wl["channel"]) : x \in Thread
    BY <2>1, RangeOfSeq
  <2> QED BY <1>2, <1>6, <2>2 DEF OwedExact, NobodySkipped, ChOwes, Listens
<1> QED BY <1>3, <1>4, <1>5, <1>7, <1>8 DEF ChInductive, ReplyKnown

(* Who listens after some have been let go.                                *)
LEMMA ChReleased ==
  ASSUME ChInductive, NEW D \in SUBSET Thread, Releases(k', k, D)
  PROVE  \A x \in Thread : Listens(x)' <=> Listens(x) /\ x \notin D
<1>1. \A x \in D : ~ Listens(x)'
  BY ChParts, OnlySuspendedWait DEF Listens, Releases
<1> QED BY <1>1, ChParts DEF Listens, Releases, Untouched

(* A step that lets the threads of D go, and gives no message to anybody.  *)
LEMMA ChQuietStep ==
  ASSUME ChInductive, NEW D \in SUBSET Thread, NEW t \in Thread, NEW a \in ChLabel,
         Releases(k', k, D), UNCHANGED use, Goto(t, a),
         k'.stat[k'.cur] \in {"running", "suspend"},
         at'[k'.cur] \in {"received", "reply"} => k'.stat[k'.cur] = "running",
         a # "run" => t # Idle, at[t] = "noMessage" => a = "noMessage",
         a \in {"collect", "reply"} => use.replies,
         Listens(t) /\ t \notin D => a \in {"recvSchedule", "received"},
         ch' \in ChRecord, ch'.waiting = ch.waiting, ch'.reply = ch.reply,
         msgRet' \in [Thread -> 0 .. PoolSize], use.replies /\ Sufficed => msgRet' = msgRet,
         use.replies /\ Sufficed /\ msgRet[t] # 0 => a \in {"recvSchedule", "received", "reply"}
  PROVE  ChInductive'
<1>1. at' \in [Thread -> ChLabel] /\ at'[t] = a /\ \A x \in Thread \ {t} : at'[x] = at[x]
  BY ChParts DEF Goto
<1>2. \A x \in Thread : Listens(x)' <=> Listens(x) /\ x \notin D
  BY ChReleased
<1>3. ChMoves(t, a)
  <2>1. Listens(t)' => t \in Receiver /\ a \in {"recvSchedule", "received"}
    BY <1>2 DEF ChInductive, ChCallsSound
  <2>2. Wf(k', Thread) /\ OneRuns(k') /\ k'.nest = 0
    BY ChParts DEF Releases
  <2> QED BY <1>2, <2>1, <2>2 DEF ChMoves
<1>4. ChOwes
  <2> SUFFICES ASSUME use.replies, Sufficed
               PROVE  /\ IsInjective(ch'.waiting) /\ Range(ch'.waiting) = {x \in Thread : msgRet'[x] # 0}
                      /\ \A x \in Thread : Listens(x)' => msgRet'[x] = 0
                      /\ \A x \in Thread : msgRet'[x] # 0 =>
                           x \in Receiver /\ at'[x] \in {"recvSchedule", "received", "reply"}
    BY DEF ChOwes
  <2>1. msgRet' = msgRet
    OBVIOUS
  <2>2. \A x \in Thread : msgRet[x] # 0 => x \in Receiver /\ at'[x] \in {"recvSchedule", "received", "reply"}
    BY <1>1 DEF ChInductive, OnTheirWay
  <2>3. \A x \in Thread : Listens(x)' => msgRet[x] = 0
    BY <1>2 DEF ChInductive, OwedExact, NobodySkipped, Listens
  <2> QED BY <2>1, <2>2, <2>3 DEF ChInductive, OwedExact
<1>5. ch'.waiting # << >> => ch'.reply \in Thread
  BY DEF ChInductive, ReplyKnown
<1> QED BY <1>3, <1>4, <1>5, ChStepKeeps

(***************************************************************************)
(* The steps.                                                              *)
(***************************************************************************)
(* The thread gives up the processor, or goes on if it may.                *)
LEMMA RecvScheduleKeeps ==
  ASSUME ChInductive, NEW t \in Thread, RecvSchedule(t)
  PROVE  ChInductive'
<1>1. /\ at[t] = "recvSchedule" /\ k' = Schedule(k) /\ Goto(t, "received")
      /\ use' = use /\ ch' = ch /\ msgRet' = msgRet
  BY DEF RecvSchedule, ScheduleStep, At
<1>2. Releases(k', k, {}) /\ k'.stat[k'.cur] = "running"
  BY <1>1, ChParts, ScheduleReleases DEF OnCpu
<1>3. t # Idle /\ "received" \in ChLabel /\ {} \in SUBSET Thread
  BY <1>1 DEF ChInductive, ChCallsSound, ChLabel
<1> QED BY <1>1, <1>2, <1>3, ChParts, ChQuietStep

(* The same, in a send.                                                    *)
LEMMA SendScheduleKeeps ==
  ASSUME ChInductive, NEW t \in Thread, SendSchedule(t)
  PROVE  ChInductive'
<1>1. PICK a : a = IF use.replies THEN "collect" ELSE "run"
  OBVIOUS
<1>2. /\ at[t] = "sendSchedule" /\ k' = Schedule(k) /\ Goto(t, a)
      /\ use' = use /\ ch' = ch /\ msgRet' = msgRet
  BY <1>1 DEF SendSchedule, ScheduleStep, At
<1>3. Releases(k', k, {}) /\ k'.stat[k'.cur] = "running"
  BY <1>2, ChParts, ScheduleReleases DEF OnCpu
<1>4. /\ t # Idle /\ ~ Listens(t) /\ a \in ChLabel /\ {} \in SUBSET Thread
      /\ (use.replies /\ Sufficed => msgRet[t] = 0)
  BY <1>1, <1>2 DEF ChInductive, ChCallsSound, OnTheirWay, ChLabel
<1> QED BY <1>1, <1>2, <1>3, <1>4, ChParts, ChQuietStep

(* The clock.                                                              *)
LEMMA ChSliceKeeps ==
  ASSUME ChInductive, ChSlice
  PROVE  ChInductive'
<1>1. PICK t, a : t = k.cur /\ a = at[k.cur]
  OBVIOUS
<1>2. /\ k' = SliceOver(k) /\ at' = at /\ use' = use /\ ch' = ch /\ msgRet' = msgRet
  BY DEF ChSlice, SliceEnd
<1>3. Releases(k', k, {}) /\ k'.stat[k'.cur] = "running"
  BY <1>2, ChParts, SliceOverReleases DEF OnCpu
<1>4. t \in Thread /\ a \in ChLabel /\ a = at[t] /\ at \in [Thread -> ChLabel] /\ {} \in SUBSET Thread
  BY <1>1, ChParts
<1>5. Goto(t, a)
  BY <1>2, <1>4 DEF Goto
<1>6. /\ a # "run" => t # Idle
      /\ a \in {"collect", "reply"} => use.replies
      /\ Listens(t) => a \in {"recvSchedule", "received"}
      /\ use.replies /\ Sufficed /\ msgRet[t] # 0 => a \in {"recvSchedule", "received", "reply"}
  BY <1>4 DEF ChInductive, ChCallsSound, OnTheirWay
<1> QED BY <1>2, <1>3, <1>4, <1>5, <1>6, ChParts, ChQuietStep

(* A timeout.                                                              *)
LEMMA ChTimeoutKeeps ==
  ASSUME ChInductive, ChTimeout
  PROVE  ChInductive'
<1>1. PICK t \in Thread : TimerExpires(t) /\ UNCHANGED <<use, ch, msgRet>>
  BY DEF ChTimeout
<1>2. /\ t \in k.tmr /\ k' = Timeout(k, t) /\ at' = at /\ use' = use /\ ch' = ch /\ msgRet' = msgRet
  BY <1>1 DEF TimerExpires
<1>3. Releases(k', k, {t}) /\ k'.stat[k'.cur] = "running"
  <2>1. Releases(k', k, {t}) /\ OnCpu(k')
    BY <1>2, ChParts, TimeoutReleases
  <2> QED BY <2>1 DEF OnCpu
<1>4. PICK a : a = at[t]
  OBVIOUS
<1>5. a \in ChLabel /\ at \in [Thread -> ChLabel] /\ {t} \in SUBSET Thread
  BY <1>4, ChParts
<1>6. Goto(t, a)
  BY <1>2, <1>4, <1>5 DEF Goto
<1>7. /\ a # "run" => t # Idle
      /\ a \in {"collect", "reply"} => use.replies
      /\ Listens(t) => a \in {"recvSchedule", "received"}
      /\ use.replies /\ Sufficed /\ msgRet[t] # 0 => a \in {"recvSchedule", "received", "reply"}
  BY <1>4 DEF ChInductive, ChCallsSound, OnTheirWay
<1> QED BY <1>2, <1>3, <1>4, <1>5, <1>6, <1>7, ChParts, ChQuietStep

(* Who has been woken, and runs.                                           *)
LEMMA ChAwake ==
  ASSUME ChInductive, NEW t \in Thread, t = k.cur, at[t] \in {"received", "reply"}
  PROVE  k.stat[t] = "running" /\ ~ Listens(t) /\ t # Idle
<1>1. k.stat[t] = "running" /\ t # Idle
  BY DEF ChInductive, ChKernelSound, ChCallsSound
<1> QED BY <1>1, ChParts, OnlySuspendedWait DEF Listens

(* bin_channel_recv, once it has been woken.                               *)
LEMMA RecvFailsKeeps ==
  ASSUME ChInductive, NEW t \in Thread, RecvFails(t)
  PROVE  ChInductive'
<1>1. PICK a : a = AfterRecv /\ a = IF use.replies THEN "reply" ELSE "run"
  BY DEF AfterRecv
<1>2. /\ t = k.cur /\ at[t] = "received" /\ k' = k /\ use' = use /\ ch' = ch /\ msgRet' = msgRet
      /\ Goto(t, a)
  BY <1>1 DEF RecvFails, At
<1>3. k.stat[t] = "running" /\ ~ Listens(t) /\ t # Idle /\ a \in ChLabel /\ {} \in SUBSET Thread
  BY <1>1, <1>2, ChAwake DEF ChLabel
<1>4. Releases(k', k, {}) /\ k'.stat[k'.cur] = "running"
  BY <1>2, <1>3, ChParts, NothingReleased
<1> QED BY <1>1, <1>2, <1>3, <1>4, ChParts, ChQuietStep

(* Its message is read, if it has one.                                     *)
LEMMA RecvReadKeeps ==
  ASSUME ChInductive, NEW t \in Thread, RecvRead(t)
  PROVE  ChInductive'
<1>1. PICK a : a = AfterRecv /\ a = IF use.replies THEN "reply" ELSE "run"
  BY DEF AfterRecv
<1>2. /\ t = k.cur /\ at[t] = "received" /\ k' = k /\ use' = use /\ ch' = ch
      /\ msgRet' = IF ch.reply = NoThread THEN [msgRet EXCEPT ![t] = 0] ELSE msgRet
      /\ Goto(t, a)
  BY <1>1 DEF RecvRead, At
<1>3. k.stat[t] = "running" /\ ~ Listens(t) /\ t # Idle /\ a \in ChLabel /\ {} \in SUBSET Thread
  BY <1>1, <1>2, ChAwake DEF ChLabel
<1>4. Releases(k', k, {}) /\ k'.stat[k'.cur] = "running"
  BY <1>2, <1>3, ChParts, NothingReleased
<1>5. msgRet \in [Thread -> 0 .. PoolSize] /\ PoolSize \in Nat
  BY ChParts
(* Before the first send nobody has a message.                             *)
<1>6. use.replies /\ Sufficed /\ ch.reply = NoThread => msgRet[t] = 0
  <2> SUFFICES ASSUME use.replies, Sufficed, ch.reply = NoThread, msgRet[t] # 0 PROVE FALSE
    OBVIOUS
  <2>1. t \in Range(ch.waiting)
    BY DEF ChInductive, OwedExact
  <2>2. ch.waiting # << >>
    BY <2>1 DEF Range
  <2> QED BY <2>2, ChannelAssumption DEF ChInductive, ReplyKnown
<1>7. msgRet' \in [Thread -> 0 .. PoolSize]
  BY <1>2, <1>5
<1>8. use.replies /\ Sufficed => msgRet' = msgRet
  <2>1. msgRet[t] = 0 => [msgRet EXCEPT ![t] = 0] = msgRet
    BY <1>5
  <2> QED BY <1>2, <1>6, <2>1
<1> QED BY <1>1, <1>2, <1>3, <1>4, <1>7, <1>8, ChParts, ChQuietStep

(* A thread that has gone on although it had suspended itself waits.       *)
LEMMA SuspendedJoins ==
  ASSUME NEW q, Wf(q, Thread), OneRuns(q), NEW t \in Thread, q.stat[t] = "suspend",
         NEW l \in WaitList, \A m \in WaitList : t \notin Range(q.wl[m]),
         NEW flag, NEW r, r = SuspendOn(q, t, l, flag)
  PROVE  Suspends(r, q, t) /\ In(r, t, l)
<1> DEFINE pos == WaitPos(q, t, q.wl[l], flag)
           s == InsertAt(q.wl[l], pos, t)
<1>1. r = WithList(q, l, s)
  BY DEF SuspendOn, WithList, Suspend
<1>2. Suspends(q, q, t) /\ Loose(q, t)
  <2>1. \A p \in Prio : t \notin Range(q.rq[p])
    BY DEF Wf, QueuesExact
  <2>2. t \notin Range(q.defunct)
    BY DEF Wf, OneList
  <2> QED BY <2>1, <2>2 DEF Suspends, Loose, Untouched
<1>3. q.wl[l] \in Seq(Thread) /\ IsInjective(q.wl[l]) /\ t \notin Range(q.wl[l]) /\ q \in KernelState
  BY DEF Wf, OneList, KernelState
<1>4. pos \in 1 .. Len(q.wl[l]) + 1
  BY <1>3, WaitPosInList
<1> HIDE DEF pos
<1>5. s \in Seq(Thread) /\ IsInjective(s) /\ OneMore(s, q.wl[l], t)
  BY <1>3, <1>4, InsertAtFacts DEF OneMore
<1> HIDE DEF s
<1> QED BY <1>1, <1>2, <1>5, LinkSuspends

(* A thread that computes waits for a message.                             *)
LEMMA ChWaits ==
  ASSUME ChInductive, NEW t \in Thread, t = k.cur, t # Idle, ~ Listens(t),
         NEW r, r = SuspendOn(k, t, "channel", "fifo")
  PROVE  Suspends(r, k, t)
<1>1. CASE k.stat[t] = "running"
  <2>1. MayWait(k, t) /\ "channel" \in WaitList
    BY <1>1, ChParts DEF MayWait
  <2> QED BY <2>1, SuspendOnSuspends
<1>2. CASE k.stat[t] = "suspend"
  <2>1. "channel" \in WaitList /\ \A m \in WaitList : t \notin Range(k.wl[m])
    BY ChParts DEF Listens
  <2> QED BY <1>2, <2>1, ChParts, SuspendedJoins
<1> QED BY <1>1, <1>2 DEF ChInductive, ChKernelSound

(* bin_channel_recv.                                                       *)
LEMMA RecvBeginKeeps ==
  ASSUME ChInductive, NEW t \in Thread, NEW timed \in {FALSE, use.timed}, RecvBegin(t, timed)
  PROVE  ChInductive'
<1>1. PICK q : q = SuspendOn(k, t, "channel", "fifo")
  OBVIOUS
<1>2. /\ t = k.cur /\ at[t] = "run" /\ t # Idle /\ t \in Receiver
      /\ k' = IF timed THEN StartTimer(q, t) ELSE q
      /\ Goto(t, "recvSchedule") /\ use' = use /\ ch' = ch /\ msgRet' = msgRet
  BY <1>1 DEF RecvBegin, MayBlock, At
<1>3. ~ Listens(t)
  BY <1>2 DEF ChInductive, ChCallsSound
<1>4. Suspends(q, k, t)
  BY <1>1, <1>2, <1>3, ChWaits
<1>5. Suspends(k', k, t)
  BY <1>2, <1>4, TimedSuspends
<1>6. /\ at' \in [Thread -> ChLabel] /\ at'[t] = "recvSchedule" /\ \A x \in Thread \ {t} : at'[x] = at[x]
      /\ "recvSchedule" \in ChLabel
  BY <1>2, ChParts DEF Goto, ChLabel
<1>7. \A x \in Thread \ {t} : Listens(x)' <=> Listens(x)
  BY <1>5, ChParts DEF Listens, Suspends, Untouched
<1>8. ChMoves(t, "recvSchedule")
  <2>1. /\ Wf(k', Thread) /\ OneRuns(k') /\ k'.nest = 0 /\ k'.cur = t /\ k'.stat[t] = "suspend"
    BY <1>2, <1>5, ChParts DEF Suspends
  <2> QED BY <1>2, <1>6, <1>7, <2>1 DEF ChMoves
<1>9. ChOwes
  <2> SUFFICES ASSUME use.replies, Sufficed
               PROVE  /\ IsInjective(ch.waiting) /\ Range(ch.waiting) = {x \in Thread : msgRet[x] # 0}
                      /\ \A x \in Thread : Listens(x)' => msgRet[x] = 0
                      /\ \A x \in Thread : msgRet[x] # 0 =>
                           x \in Receiver /\ at'[x] \in {"recvSchedule", "received", "reply"}
    BY <1>2 DEF ChOwes
  <2>1. msgRet[t] = 0
    BY <1>2 DEF ChInductive, OnTheirWay
  <2>2. \A x \in Thread : Listens(x) => msgRet[x] = 0
    BY DEF ChInductive, OwedExact, NobodySkipped, Listens
  <2> QED BY <1>6, <1>7, <2>1, <2>2 DEF ChInductive, OwedExact, OnTheirWay
<1>10. /\ ch' \in ChRecord /\ (ch'.waiting # << >> => ch'.reply \in Thread)
       /\ msgRet' \in [Thread -> 0 .. PoolSize]
  BY <1>2, ChParts DEF ChInductive, ReplyKnown
<1> QED BY <1>6, <1>8, <1>9, <1>10, ChStepKeeps

(* A thread suspends itself, or has done so before.                        *)
LEMMA ChSuspends ==
  ASSUME NEW q, Wf(q, Thread), OneRuns(q), NEW t \in Thread, t = q.cur, t # Idle,
         q.stat[t] \in {"running", "suspend"}, \A l \in WaitList : t \notin Range(q.wl[l]),
         NEW r, r = Suspend(q, t)
  PROVE  /\ Suspends(r, q, t)
         /\ \A l \in WaitList : t \notin Range(r.wl[l])
<1>1. CASE q.stat[t] = "running"
  <2>1. MayWait(q, t)
    BY <1>1 DEF MayWait
  <2> QED BY <2>1, SuspendSuspends DEF Loose
<1>2. CASE q.stat[t] = "suspend"
  <2>1. r = q
    BY <1>2 DEF Suspend
  <2> QED BY <1>2, <2>1 DEF Suspends, Untouched
<1> QED BY <1>1, <1>2

(* The replies that have come, in bin_channel_send.                        *)
LEMMA CollectKeeps ==
  ASSUME ChInductive, NEW t \in Thread, Collect(t)
  PROVE  ChInductive'
<1>1. /\ t = k.cur /\ at[t] = "collect" /\ ch' = [ch EXCEPT !.arrived = << >>]
      /\ use' = use /\ msgRet' = msgRet
  BY DEF Collect, At
<1>2. /\ ~ Listens(t) /\ t # Idle /\ k.stat[t] \in {"running", "suspend"}
      /\ (use.replies /\ Sufficed => msgRet[t] = 0)
  BY <1>1 DEF ChInductive, ChKernelSound, ChCallsSound, OnTheirWay
<1>3. /\ ch' \in ChRecord /\ ch'.waiting = ch.waiting /\ ch'.reply = ch.reply
  <2>1. ch' = [reply |-> ch.reply, waiting |-> ch.waiting, arrived |-> << >>, pos |-> ch.pos]
    BY <1>1, ChParts, ChannelWith DEF ChRecord
  <2>2. << >> \in Seq(Receiver)
    OBVIOUS
  <2>3. PICK none \in Seq(Receiver) : none = << >>
    BY <2>2
  <2> QED BY <2>1, <2>3, ChParts DEF ChRecord
<1>4. CASE UNCHANGED k /\ \E a \in {"run", "replyError"} : Goto(t, a)
  <2>1. PICK a \in {"run", "replyError"} : Goto(t, a)
    BY <1>4
  <2>2. a \in ChLabel /\ at'[t] = a /\ {} \in SUBSET Thread
    BY <2>1, ChParts DEF Goto, ChLabel
  <2>3. Releases(k', k, {}) /\ k'.cur = t /\ k'.stat[k'.cur] \in {"running", "suspend"}
    BY <1>1, <1>2, <1>4, ChParts, NothingReleased
  <2> QED BY <1>1, <1>2, <1>3, <2>1, <2>2, <2>3, ChParts, ChQuietStep
<1>5. CASE k' = Suspend(k, t) /\ Goto(t, "sendSchedule")
  <2>1. Suspends(k', k, t) /\ \A l \in WaitList : t \notin Range(k'.wl[l])
    <3>1. \A l \in WaitList : t \notin Range(k.wl[l])
      BY <1>2, ChParts DEF Listens
    <3> QED BY <1>1, <1>2, <1>5, <3>1, ChParts, ChSuspends
  <2>2. \A x \in Thread : Listens(x)' <=> Listens(x)
    BY <1>2, <2>1, ChParts DEF Listens, Suspends, Untouched
  <2>3. /\ at' \in [Thread -> ChLabel] /\ at'[t] = "sendSchedule" /\ \A x \in Thread \ {t} : at'[x] = at[x]
        /\ "sendSchedule" \in ChLabel
    BY <1>5, ChParts DEF Goto, ChLabel
  <2>4. ChMoves(t, "sendSchedule")
    <3>1. Wf(k', Thread) /\ OneRuns(k') /\ k'.nest = 0 /\ k'.cur = t /\ k'.stat[t] = "suspend"
      BY <1>1, <2>1, ChParts DEF Suspends
    <3> QED BY <1>1, <1>2, <1>5, <2>2, <2>3, <3>1 DEF ChMoves
  <2>5. ChOwes
    <3> SUFFICES ASSUME use.replies, Sufficed
                 PROVE  /\ IsInjective(ch.waiting) /\ Range(ch.waiting) = {x \in Thread : msgRet[x] # 0}
                        /\ \A x \in Thread : Listens(x)' => msgRet[x] = 0
                        /\ \A x \in Thread : msgRet[x] # 0 =>
                             x \in Receiver /\ at'[x] \in {"recvSchedule", "received", "reply"}
      BY <1>1, <1>3 DEF ChOwes
    <3>1. \A x \in Thread : Listens(x) => msgRet[x] = 0
      BY DEF ChInductive, OwedExact, NobodySkipped, Listens
    <3> QED BY <1>2, <2>2, <2>3, <3>1 DEF ChInductive, OwedExact, OnTheirWay
  <2> QED BY <1>1, <1>3, <2>3, <2>4, <2>5, ChParts, ChStepKeeps DEF ChInductive, ReplyKnown
<1> QED BY <1>4, <1>5 DEF Collect

(* The threads that owe a reply, as a list of threads.                     *)
LEMMA ReceiversAreThreads ==
  ASSUME NEW s \in Seq(Receiver)
  PROVE  s \in Seq(Thread) /\ Range(s) \subseteq Receiver
<1>1. Len(s) \in Nat /\ DOMAIN s = 1 .. Len(s) /\ \A i \in 1 .. Len(s) : s[i] \in Receiver
  BY LenProperties, ElementOfSeq
<1>2. Receiver \subseteq Thread
  BY ChannelAssumption
<1>3. s = [i \in 1 .. Len(s) |-> s[i]]
  OBVIOUS
<1>4. s \in Seq(Thread)
  BY <1>1, <1>2, <1>3
<1> QED BY <1>1, <1>4 DEF Range

(* One of them replies.                                                    *)
LEMMA UnlinkedReceivers ==
  ASSUME NEW s \in Seq(Receiver), NEW t \in Receiver, NEW r, r = Unlinked(s, t)
  PROVE  /\ r \in Seq(Receiver)
         /\ IsInjective(s) => IsInjective(r) /\ Range(r) = Range(s) \ {t}
<1>1. s \in Seq(Thread) /\ t \in Thread
  BY ReceiversAreThreads, ChannelAssumption
<1>2. IsInjective(s) => /\ IsInjective(r)
                        /\ \A x : x \in Range(r) <=> x \in Range(s) /\ x # t
  BY <1>1, UnlinkedFacts
<1>3. IsInjective(s) => Range(r) = Range(s) \ {t}
  BY <1>2
<1>4. r \in Seq(Receiver)
  <2>1. CASE \E i \in DOMAIN s : s[i] = t
    <3>1. PICK i : i = CHOOSE j \in DOMAIN s : s[j] = t
      OBVIOUS
    <3>2. i \in 1 .. Len(s)
      BY <2>1, <3>1, LenProperties
    <3>3. r = RemoveAt(s, i)
      BY <2>1, <3>1 DEF Unlinked
    <3> QED BY <3>2, <3>3, RemoveAtElements
  <2>2. CASE ~ \E i \in DOMAIN s : s[i] = t
    BY <2>2 DEF Unlinked
  <2> QED BY <2>1, <2>2
<1> QED BY <1>2, <1>3, <1>4

(* One more is expected to reply.                                          *)
LEMMA PushReceiver ==
  ASSUME NEW s \in Seq(Receiver), NEW t \in Receiver
  PROVE  /\ <<t>> \o s \in Seq(Receiver) /\ <<t>> \o s # << >>
         /\ Range(<<t>> \o s) = Range(s) \cup {t}
         /\ IsInjective(s) /\ t \notin Range(s) => IsInjective(<<t>> \o s)
<1>1. s \in Seq(Thread) /\ t \in Thread
  BY ReceiversAreThreads, ChannelAssumption
<1>2. /\ \A x : x \in Range(<<t>> \o s) <=> x \in Range(s) \/ x = t
      /\ IsInjective(s) /\ t \notin Range(s) => IsInjective(<<t>> \o s)
  BY <1>1, PushFacts
<1>3. Range(<<t>> \o s) = Range(s) \cup {t}
  BY <1>2
<1>4. <<t>> \o s \in Seq(Receiver) /\ <<t>> \o s # << >>
  OBVIOUS
<1> QED BY <1>2, <1>3, <1>4

(* A reply that is expected.                                               *)
LEMMA AnswerKeeps ==
  ASSUME ChInductive, NEW t \in Thread, Reply(t), t \in Range(ch.waiting)
  PROVE  ChInductive'
<1>1. t = k.cur /\ at[t] = "reply" /\ Goto(t, "run") /\ use' = use
  BY DEF Reply, At
<1>2. k.stat[t] = "running" /\ ~ Listens(t)
  BY <1>1, ChAwake
<1>3. PICK r, w, v : r = ch.reply /\ w = Unlinked(ch.waiting, t) /\ v = <<t>> \o ch.arrived
  OBVIOUS
<1>4. /\ ch' = [ch EXCEPT !.waiting = w, !.arrived = v]
      /\ msgRet' = [msgRet EXCEPT ![t] = 0] /\ k' = Resume(k, r)
  BY <1>3 DEF Reply, Answered
<1>5. ch' = [reply |-> r, waiting |-> w, arrived |-> v, pos |-> ch.pos]
  BY <1>3, <1>4, ChParts, ChannelWith DEF ChRecord
<1>6. t \in Receiver /\ ch.waiting \in Seq(Receiver) /\ ch.arrived \in Seq(Receiver)
  BY ChParts, ReceiversAreThreads DEF ChRecord
<1>7. /\ w \in Seq(Receiver) /\ v \in Seq(Receiver)
      /\ IsInjective(ch.waiting) => IsInjective(w) /\ Range(w) = Range(ch.waiting) \ {t}
  <2>1. v \in Seq(Receiver)
    BY <1>3, <1>6, PushReceiver
  <2> QED BY <1>3, <1>6, <2>1, UnlinkedReceivers
<1>8. r \in Thread /\ ch.waiting # << >>
  <2>1. ch.waiting # << >>
    BY DEF Range
  <2> QED BY <1>3, <2>1 DEF ChInductive, ReplyKnown
<1>9. PICK D \in SUBSET Thread : Releases(k', k, D) /\ SameTurn(k', k)
  <2>1. CASE k.stat[r] = "suspend"
    <3>1. Releases(k', k, {r}) /\ SameTurn(k', k) /\ {r} \in SUBSET Thread
      BY <1>4, <1>8, <2>1, ChParts, ResumeReleases
    <3> QED BY <3>1
  <2>2. CASE k.stat[r] # "suspend"
    <3>1. k' = k
      BY <1>4, <2>2 DEF Resume
    <3>2. Releases(k', k, {}) /\ SameTurn(k', k) /\ {} \in SUBSET Thread
      BY <3>1, ChParts, NothingReleased
    <3> QED BY <3>2
  <2> QED BY <2>1, <2>2
<1>10. /\ at' \in [Thread -> ChLabel] /\ at'[t] = "run" /\ \A x \in Thread \ {t} : at'[x] = at[x]
       /\ "run" \in ChLabel
  BY <1>1, ChParts DEF Goto, ChLabel
<1>11. \A x \in Thread : Listens(x)' => Listens(x)
  BY <1>9, ChReleased
<1>12. ChMoves(t, "run")
  <2>1. Wf(k', Thread) /\ OneRuns(k') /\ k'.nest = 0 /\ k'.cur = t /\ k'.stat[t] = "running"
    BY <1>1, <1>2, <1>9, ChParts DEF Releases, SameTurn, OnCpu
  <2> QED BY <1>1, <1>2, <1>10, <1>11, <2>1 DEF ChMoves
<1>13. msgRet \in [Thread -> 0 .. PoolSize] /\ PoolSize \in Nat /\ ch \in ChRecord
  BY ChParts
<1>14. /\ msgRet' \in [Thread -> 0 .. PoolSize] /\ msgRet'[t] = 0
       /\ \A x \in Thread \ {t} : msgRet'[x] = msgRet[x]
  BY <1>4, <1>13
<1>15. ChOwes
  <2> SUFFICES ASSUME use.replies, Sufficed
               PROVE  /\ IsInjective(w) /\ Range(w) = {x \in Thread : msgRet'[x] # 0}
                      /\ \A x \in Thread : Listens(x)' => msgRet'[x] = 0
                      /\ \A x \in Thread : msgRet'[x] # 0 =>
                           x \in Receiver /\ at'[x] \in {"recvSchedule", "received", "reply"}
    <3>1. ch'.waiting = w
      BY <1>5
    <3> QED BY <3>1 DEF ChOwes
  <2>1. IsInjective(ch.waiting) /\ Range(ch.waiting) = {x \in Thread : msgRet[x] # 0}
    BY DEF ChInductive, OwedExact
  <2>2. IsInjective(w) /\ Range(w) = {x \in Thread : msgRet'[x] # 0}
    BY <1>7, <1>14, <2>1
  <2>3. \A x \in Thread : Listens(x) => msgRet[x] = 0
    BY DEF ChInductive, OwedExact, NobodySkipped, Listens
  <2> QED BY <1>10, <1>11, <1>14, <2>2, <2>3 DEF ChInductive, OnTheirWay
<1>16. ch' \in ChRecord /\ ch'.reply \in Thread
  BY <1>5, <1>7, <1>8, <1>13 DEF ChRecord
<1> QED BY <1>10, <1>12, <1>14, <1>15, <1>16, ChStepKeeps

(* bin_channel_reply.                                                      *)
LEMMA ReplyKeeps ==
  ASSUME ChInductive, NEW t \in Thread, Reply(t)
  PROVE  ChInductive'
<1>1. t = k.cur /\ at[t] = "reply" /\ Goto(t, "run") /\ use' = use
  BY DEF Reply, At
<1>2. k.stat[t] = "running" /\ ~ Listens(t) /\ t # Idle
  BY <1>1, ChAwake
<1>3. CASE t \notin Range(ch.waiting)
  <2>1. k' = k /\ ch' = ch /\ msgRet' = msgRet
    BY <1>3 DEF Reply
  <2>2. use.replies /\ Sufficed => msgRet[t] = 0
    BY <1>3 DEF ChInductive, OwedExact
  <2>3. Releases(k', k, {}) /\ k'.stat[k'.cur] = "running" /\ {} \in SUBSET Thread /\ "run" \in ChLabel
    BY <1>1, <1>2, <2>1, ChParts, NothingReleased DEF ChLabel
  <2> QED BY <1>1, <1>2, <2>1, <2>2, <2>3, ChParts, ChQuietStep
<1> QED BY <1>3, AnswerKeeps

(***************************************************************************)
(* A send gives the message to everybody in the list.                      *)
(***************************************************************************)
GivesTo(s, w) == Given(s, w, ch.pos + 1)

Give == INSTANCE FoldSteps WITH Op <- GivesTo

SendCall(q, g, to, c) == [k |-> q, msgRet |-> g, to |-> to, ch |-> c]

Sending(t) ==
  SendCall(k, msgRet, "sendSchedule", [ch EXCEPT !.pos = ch.pos + 1, !.reply = IF use.replies THEN t ELSE @])

(* The loop of bin_channel_send, turn by turn.                             *)
LEMMA SentSteps ==
  ASSUME NEW t, NEW n \in Nat, DOMAIN k.wl["channel"] = 1 .. n
  PROVE  \E f : /\ f[0] = Sending(t) /\ Sent(t) = f[n]
                /\ \A i \in 1 .. n : f[i] = Given(f[i - 1], k.wl["channel"][i], ch.pos + 1)
<1> DEFINE s == k.wl["channel"]
           q == Sending(t)
<1>1. Sent(t) = Give!Folded(q, s)
  BY DEF Sent, Sending, SendCall, Give!Folded, FoldLeft, Give!FoldLeft, MapThenFoldSet, Give!MapThenFoldSet,
         Max, Give!Max, GivesTo
<1> HIDE DEF s, q
<1>2. PICK f : Give!InSteps(f, q, s, n) /\ Give!Folded(q, s) = f[n]
  <2>1. DOMAIN s = 1 .. n
    BY DEF s
  <2> QED BY <2>1, Give!FoldsInSteps
<1>3. /\ f[0] = Sending(t) /\ Sent(t) = f[n]
      /\ \A i \in 1 .. n : f[i] = Given(f[i - 1], k.wl["channel"][i], ch.pos + 1)
  BY <1>1, <1>2 DEF Give!InSteps, GivesTo, s, q
<1> QED BY <1>3

(* The state of a call with other fields.                                  *)
LEMMA CallGiven ==
  ASSUME NEW s, NEW x, NEW w, NEW m, s = [k |-> s.k, msgRet |-> s.msgRet, to |-> s.to, ch |-> s.ch]
  PROVE  [s EXCEPT !.k = x, !.msgRet[w] = m]
           = [k |-> x, msgRet |-> [s.msgRet EXCEPT ![w] = m], to |-> s.to, ch |-> s.ch]
<1> DEFINE d == [s EXCEPT !.k = x]
<1>1. d = [k |-> x, msgRet |-> s.msgRet, to |-> s.to, ch |-> s.ch]
  OBVIOUS
<1>2. [s EXCEPT !.k = x, !.msgRet[w] = m] = [d EXCEPT !.msgRet[w] = m]
  OBVIOUS
<1> HIDE DEF d
<1>3. /\ d = [k |-> d.k, msgRet |-> d.msgRet, to |-> d.to, ch |-> d.ch]
      /\ d.k = x /\ d.msgRet = s.msgRet /\ d.to = s.to /\ d.ch = s.ch
  BY <1>1
<1>4. [d EXCEPT !.msgRet[w] = m]
        = [k |-> d.k, msgRet |-> [d.msgRet EXCEPT ![w] = m], to |-> d.to, ch |-> d.ch]
  BY <1>3
<1> QED BY <1>2, <1>3, <1>4

(* The same, of the channel in it.                                         *)
LEMMA CallExpects ==
  ASSUME NEW s, NEW x, NEW w, s = [k |-> s.k, msgRet |-> s.msgRet, to |-> s.to, ch |-> s.ch]
  PROVE  [s EXCEPT !.ch.pos = x, !.ch.waiting = w]
           = [k |-> s.k, msgRet |-> s.msgRet, to |-> s.to, ch |-> [s.ch EXCEPT !.pos = x, !.waiting = w]]
<1> DEFINE d == [s EXCEPT !.ch.pos = x]
<1>1. d = [k |-> s.k, msgRet |-> s.msgRet, to |-> s.to, ch |-> [s.ch EXCEPT !.pos = x]]
  OBVIOUS
<1>2. [s EXCEPT !.ch.pos = x, !.ch.waiting = w] = [d EXCEPT !.ch.waiting = w]
  OBVIOUS
<1> HIDE DEF d
<1>3. /\ d = [k |-> d.k, msgRet |-> d.msgRet, to |-> d.to, ch |-> d.ch]
      /\ d.k = s.k /\ d.msgRet = s.msgRet /\ d.to = s.to /\ d.ch = [s.ch EXCEPT !.pos = x]
  BY <1>1
<1>4. [d EXCEPT !.ch.waiting = w]
        = [k |-> d.k, msgRet |-> d.msgRet, to |-> d.to, ch |-> [d.ch EXCEPT !.waiting = w]]
  BY <1>3
<1>5. [[s.ch EXCEPT !.pos = x] EXCEPT !.waiting = w] = [s.ch EXCEPT !.pos = x, !.waiting = w]
  OBVIOUS
<1> QED BY <1>2, <1>3, <1>4, <1>5

(* One turn of the loop: the channel, and the call.                        *)
Expecting(c, w) ==
  IF use.replies
  THEN [reply |-> c.reply, waiting |-> <<w>> \o c.waiting, arrived |-> c.arrived, pos |-> c.pos + 1]
  ELSE c

Told(g, w, m) == [g EXCEPT ![w] = m]

(* One waiting thread gets its message.                                    *)
LEMMA GivenIs ==
  ASSUME NEW q, NEW g, NEW c, NEW w, NEW m, NEW a, NEW b, NEW r, NEW h, NEW d,
         c \in ChRecord, g[w] = 0, use.replies => c.pos # PoolSize,
         a = SendCall(q, g, "sendSchedule", c), b = Given(a, w, m), r = Resume(q, w), h = Told(g, w, m),
         d = Expecting(c, w)
  PROVE  b = SendCall(r, h, "sendSchedule", d)
<1>1. PICK s : s = a
  OBVIOUS
<1>2. /\ s = [k |-> s.k, msgRet |-> s.msgRet, to |-> s.to, ch |-> s.ch]
      /\ s.k = q /\ s.msgRet = g /\ s.to = "sendSchedule" /\ s.ch = c
  BY <1>1 DEF SendCall
<1>3. PICK n, v : n = c.pos + 1 /\ v = <<w>> \o c.waiting
  OBVIOUS
<1>4. PICK given : given = [s EXCEPT !.k = r, !.msgRet[w] = m]
  OBVIOUS
<1>5. PICK expected : expected = [given EXCEPT !.ch.pos = n, !.ch.waiting = v]
  OBVIOUS
<1>6. Given(s, w, m) = IF ~ use.replies THEN given ELSE expected
  <2>1. s.ch.pos + 1 = n /\ <<w>> \o s.ch.waiting = v /\ Resume(s.k, w) = r
    BY <1>2, <1>3
  <2> QED BY <1>2, <1>4, <1>5, <2>1 DEF Given
<1>7. given = [k |-> r, msgRet |-> h, to |-> "sendSchedule", ch |-> c]
  <2>1. given = [k |-> r, msgRet |-> [s.msgRet EXCEPT ![w] = m], to |-> s.to, ch |-> s.ch]
    BY <1>2, <1>4, CallGiven
  <2> QED BY <1>2, <1>3, <2>1 DEF Told
<1>8. /\ given = [k |-> given.k, msgRet |-> given.msgRet, to |-> given.to, ch |-> given.ch]
      /\ given.k = r /\ given.msgRet = h /\ given.to = "sendSchedule" /\ given.ch = c
  BY <1>7
<1>9. PICK e : e = [c EXCEPT !.pos = n, !.waiting = v]
  OBVIOUS
<1>10. e = [reply |-> c.reply, waiting |-> v, arrived |-> c.arrived, pos |-> n]
  BY <1>9, ChannelWith DEF ChRecord
<1>11. expected = [k |-> r, msgRet |-> h, to |-> "sendSchedule", ch |-> e]
  <2>1. expected = [k |-> given.k, msgRet |-> given.msgRet, to |-> given.to,
                    ch |-> [given.ch EXCEPT !.pos = n, !.waiting = v]]
    BY <1>5, <1>8, CallExpects
  <2>2. [given.ch EXCEPT !.pos = n, !.waiting = v] = e
    BY <1>8, <1>9
  <2> QED BY <1>8, <2>1, <2>2
<1>12. Given(s, w, m) = SendCall(r, h, "sendSchedule", IF use.replies THEN e ELSE c)
  BY <1>6, <1>7, <1>11 DEF SendCall
<1> QED BY <1>1, <1>3, <1>10, <1>12 DEF Expecting

(* The last one did not read its message, or the pool is empty.            *)
LEMMA GivenFails ==
  ASSUME NEW q, NEW g, NEW c, NEW w, NEW m, NEW a, NEW b,
         g[w] # 0 \/ (use.replies /\ c.pos = PoolSize),
         a = SendCall(q, g, "sendSchedule", c), b = Given(a, w, m)
  PROVE  IF g[w] # 0 THEN b = SendCall(q, g, "unread", c)
                     ELSE b = SendCall(Resume(q, w), Told(g, w, m), "noMessage", c)
<1>1. PICK s : s = a
  OBVIOUS
<1>2. /\ s = [k |-> s.k, msgRet |-> s.msgRet, to |-> s.to, ch |-> s.ch]
      /\ s.k = q /\ s.msgRet = g /\ s.to = "sendSchedule" /\ s.ch = c
  BY <1>1 DEF SendCall
<1>3. CASE g[w] # 0
  <2>1. Given(s, w, m) = [s EXCEPT !.to = "unread"]
    BY <1>2, <1>3 DEF Given
  <2>2. [s EXCEPT !.to = "unread"] = [k |-> s.k, msgRet |-> s.msgRet, to |-> "unread", ch |-> s.ch]
    BY <1>2
  <2> QED BY <1>1, <1>2, <1>3, <2>1, <2>2 DEF SendCall
<1>4. CASE g[w] = 0
  <2>1. PICK r, h : r = Resume(q, w) /\ h = Told(g, w, m)
    OBVIOUS
  <2>2. PICK given : given = [s EXCEPT !.k = r, !.msgRet[w] = m]
    OBVIOUS
  <2>3. Given(s, w, m) = [given EXCEPT !.to = "noMessage"]
    <3>1. Resume(s.k, w) = r
      BY <1>2, <2>1
    <3> QED BY <1>2, <1>4, <2>2, <3>1 DEF Given
  <2>4. given = [k |-> r, msgRet |-> [s.msgRet EXCEPT ![w] = m], to |-> s.to, ch |-> s.ch]
    BY <1>2, <2>2, CallGiven
  <2>5. given = [k |-> r, msgRet |-> h, to |-> "sendSchedule", ch |-> c]
    BY <1>2, <2>1, <2>4 DEF Told
  <2>6. [given EXCEPT !.to = "noMessage"] = [k |-> r, msgRet |-> h, to |-> "noMessage", ch |-> c]
    BY <2>5
  <2> QED BY <1>1, <1>4, <2>1, <2>3, <2>6 DEF SendCall
<1> QED BY <1>3, <1>4

(* The first i of the list.                                                *)
FirstOf(s, i) == {s[j] : j \in 1 .. i}

(* After i turns, in which the threads of D have been woken: all of them,  *)
(* if the send goes on.                                                    *)
GivenSoFar(r, t, D, i) ==
  /\ r = SendCall(r.k, r.msgRet, r.to, r.ch)
  /\ r.to \in {"sendSchedule", "unread", "noMessage"}
  /\ Releases(r.k, k, D) /\ SameTurn(r.k, k) /\ D \subseteq FirstOf(k.wl["channel"], i)
  /\ r.msgRet \in [Thread -> 0 .. PoolSize]
  /\ r.ch \in ChRecord /\ r.ch.reply = IF use.replies THEN t ELSE ch.reply
  /\ ~ use.replies => r.ch.waiting = ch.waiting
  /\ use.replies /\ Sufficed => r.to # "unread"
  /\ r.to = "sendSchedule" => D = FirstOf(k.wl["channel"], i)
  /\ use.replies /\ Sufficed /\ r.to = "sendSchedule" =>
       /\ \A x \in Thread : r.msgRet[x] = IF x \in D THEN ch.pos + 1 ELSE msgRet[x]
       /\ IsInjective(r.ch.waiting) /\ Range(r.ch.waiting) = Range(ch.waiting) \cup D

(* Before the first turn.                                                  *)
LEMMA SendingIs ==
  ASSUME ChInductive, NEW t \in Thread, ch.pos < PoolSize
  PROVE  GivenSoFar(Sending(t), t, {}, 0)
<1>1. PICK v : v = IF use.replies THEN t ELSE ch.reply
  OBVIOUS
<1>2. PICK m : m = ch.pos + 1
  OBVIOUS
<1>3. PICK c : c = [ch EXCEPT !.pos = m, !.reply = v]
  OBVIOUS
<1>4. /\ ch \in ChRecord /\ PoolSize \in Nat /\ msgRet \in [Thread -> 0 .. PoolSize]
      /\ Wf(k, Thread) /\ OneRuns(k)
  BY ChParts
<1>5. c = [reply |-> v, waiting |-> ch.waiting, arrived |-> ch.arrived, pos |-> m]
  BY <1>3, <1>4, ChannelWith DEF ChRecord
<1>6. m \in 0 .. PoolSize /\ v \in Thread \cup {NoThread}
  BY <1>1, <1>2, <1>4 DEF ChRecord
<1>7. c \in ChRecord /\ c.reply = v /\ c.waiting = ch.waiting
  BY <1>4, <1>5, <1>6 DEF ChRecord
<1>8. PICK r : r = Sending(t)
  OBVIOUS
<1>9. r = SendCall(k, msgRet, "sendSchedule", c)
  BY <1>1, <1>2, <1>3, <1>8 DEF Sending
<1>10. r.k = k /\ r.msgRet = msgRet /\ r.ch = c /\ r.to = "sendSchedule"
  BY <1>9 DEF SendCall
<1>11. Releases(k, k, {}) /\ SameTurn(k, k)
  BY <1>4, NothingReleased
<1>12. FirstOf(k.wl["channel"], 0) = {}
  BY DEF FirstOf
<1>13. use.replies /\ Sufficed => IsInjective(ch.waiting)
  BY DEF ChInductive, OwedExact
<1>14. GivenSoFar(r, t, {}, 0)
  BY <1>1, <1>4, <1>7, <1>9, <1>10, <1>11, <1>12, <1>13 DEF GivenSoFar
<1> QED BY <1>8, <1>14

(* One turn more.                                                          *)
LEMMA OneMoreGiven ==
  ASSUME ChInductive, NEW t \in Thread, NEW D \in SUBSET Thread, NEW i \in Nat, NEW a,
         GivenSoFar(a, t, D, i), NEW w \in Thread, w \notin D, Listens(w), ch.pos < PoolSize,
         FirstOf(k.wl["channel"], i + 1) = FirstOf(k.wl["channel"], i) \cup {w},
         NEW b, b = Given(a, w, ch.pos + 1)
  PROVE  GivenSoFar(b, t, D, i + 1) \/ GivenSoFar(b, t, D \cup {w}, i + 1)
<1>1. PICK m : m = ch.pos + 1
  OBVIOUS
<1>2. /\ PoolSize \in Nat /\ Wf(k, Thread) /\ ch.pos \in Nat /\ m \in 0 .. PoolSize /\ m # 0
      /\ k.stat[w] = "suspend" /\ w \in Receiver
      /\ (use.replies /\ Sufficed => msgRet[w] = 0 /\ w \notin Range(ch.waiting))
  <2>1. k.stat[w] = "suspend"
    BY ChParts DEF Wf, OneList, Listens
  <2>2. w \in Receiver /\ (use.replies /\ Sufficed => msgRet[w] = 0 /\ w \notin Range(ch.waiting))
    BY DEF ChInductive, ChCallsSound, OwedExact, NobodySkipped, Listens
  <2> QED BY <1>1, <2>1, <2>2, ChParts DEF ChRecord
<1>3. PICK q, g, to, c : q = a.k /\ g = a.msgRet /\ to = a.to /\ c = a.ch
  OBVIOUS
<1>4. /\ a = SendCall(q, g, to, c) /\ to \in {"sendSchedule", "unread", "noMessage"}
      /\ Releases(q, k, D) /\ SameTurn(q, k) /\ D \subseteq FirstOf(k.wl["channel"], i)
      /\ g \in [Thread -> 0 .. PoolSize]
      /\ c \in ChRecord /\ c.reply = IF use.replies THEN t ELSE ch.reply
      /\ ~ use.replies => c.waiting = ch.waiting
      /\ use.replies /\ Sufficed => to # "unread"
      /\ to = "sendSchedule" => D = FirstOf(k.wl["channel"], i)
      /\ use.replies /\ Sufficed /\ to = "sendSchedule" =>
           /\ \A x \in Thread : g[x] = IF x \in D THEN m ELSE msgRet[x]
           /\ IsInjective(c.waiting) /\ Range(c.waiting) = Range(ch.waiting) \cup D
  BY <1>1, <1>3 DEF GivenSoFar
<1>5. CASE to # "sendSchedule"
  <2>1. b = a
    BY <1>3, <1>5 DEF Given
  <2>2. D \subseteq FirstOf(k.wl["channel"], i + 1)
    BY <1>4
  <2> QED BY <1>3, <1>5, <2>1, <2>2 DEF GivenSoFar
<1>6. CASE to = "sendSchedule" /\ g[w] # 0
  <2>1. b = SendCall(q, g, "unread", c)
    BY <1>1, <1>4, <1>6, GivenFails
  <2>2. b.k = q /\ b.msgRet = g /\ b.to = "unread" /\ b.ch = c
    BY <2>1 DEF SendCall
  <2>3. ~ (use.replies /\ Sufficed)
    BY <1>2, <1>4, <1>6
  <2>4. D \subseteq FirstOf(k.wl["channel"], i + 1)
    BY <1>4
  <2>5. GivenSoFar(b, t, D, i + 1)
    BY <1>4, <2>1, <2>2, <2>3, <2>4 DEF GivenSoFar
  <2> QED BY <2>5
<1>7. CASE to = "sendSchedule" /\ g[w] = 0
  <2>1. PICK r, h : r = Resume(q, w) /\ h = Told(g, w, m)
    OBVIOUS
  <2>2. Releases(r, k, D \cup {w}) /\ SameTurn(r, k)
    <3>1. q.stat[w] = "suspend" /\ Wf(q, Thread) /\ OneRuns(q)
      BY <1>2, <1>4 DEF Releases, Untouched
    <3>2. Releases(r, q, {w}) /\ SameTurn(r, q)
      BY <2>1, <3>1, ResumeReleases
    <3>3. Releases(r, k, D \cup {w})
      BY <1>4, <3>2, ReleasesTwice
    <3> QED BY <1>4, <3>2, <3>3 DEF SameTurn, OnCpu
  <2>3. /\ h \in [Thread -> 0 .. PoolSize]
        /\ \A x \in Thread : h[x] = IF x = w THEN m ELSE g[x]
    BY <1>2, <1>4, <2>1 DEF Told
  <2>4. PICK E : E = D \cup {w}
    OBVIOUS
  <2>5. E = FirstOf(k.wl["channel"], i + 1)
    BY <1>4, <1>7, <2>4
  <2>6. CASE use.replies /\ c.pos = PoolSize
    <3>1. b = SendCall(r, h, "noMessage", c)
      BY <1>1, <1>4, <1>7, <2>1, <2>6, GivenFails
    <3>2. b.k = r /\ b.msgRet = h /\ b.to = "noMessage" /\ b.ch = c
      BY <3>1 DEF SendCall
    <3>3. GivenSoFar(b, t, E, i + 1)
      BY <1>4, <2>2, <2>3, <2>4, <2>5, <2>6, <3>1, <3>2 DEF GivenSoFar
    <3> QED BY <2>4, <3>3
  <2>7. CASE ~ (use.replies /\ c.pos = PoolSize)
    <3>1. PICK d : d = Expecting(c, w)
      OBVIOUS
    <3>2. b = SendCall(r, h, "sendSchedule", d)
      BY <1>1, <1>4, <1>7, <2>1, <2>7, <3>1, GivenIs
    <3>3. b.k = r /\ b.msgRet = h /\ b.to = "sendSchedule" /\ b.ch = d
      BY <3>2 DEF SendCall
    <3>4. CASE ~ use.replies
      <4>1. d = c
        BY <3>1, <3>4 DEF Expecting
      <4>2. GivenSoFar(b, t, E, i + 1)
        BY <1>4, <2>2, <2>3, <2>4, <2>5, <3>2, <3>3, <3>4, <4>1 DEF GivenSoFar
      <4> QED BY <2>4, <4>2
    <3>5. CASE use.replies
      <4>1. PICK v, n : v = <<w>> \o c.waiting /\ n = c.pos + 1
        OBVIOUS
      <4>2. d = [reply |-> c.reply, waiting |-> v, arrived |-> c.arrived, pos |-> n]
        BY <3>1, <3>5, <4>1 DEF Expecting
      <4>3. c.waiting \in Seq(Receiver) /\ c.pos \in 0 .. PoolSize /\ c.pos # PoolSize
        BY <1>4, <2>7, <3>5 DEF ChRecord
      <4>4. /\ v \in Seq(Receiver)
            /\ IsInjective(c.waiting) /\ w \notin Range(c.waiting) => IsInjective(v)
            /\ Range(v) = Range(c.waiting) \cup {w}
        BY <1>2, <4>1, <4>3, PushReceiver
      <4>5. n \in 0 .. PoolSize
        BY <1>2, <4>1, <4>3
      <4>6. d \in ChRecord /\ d.reply = c.reply /\ d.waiting = v
        BY <1>4, <4>2, <4>4, <4>5 DEF ChRecord
      <4>7. use.replies /\ Sufficed =>
              /\ \A x \in Thread : h[x] = IF x \in E THEN m ELSE msgRet[x]
              /\ IsInjective(v) /\ Range(v) = Range(ch.waiting) \cup E
        <5> SUFFICES ASSUME use.replies, Sufficed
                     PROVE  /\ \A x \in Thread : h[x] = IF x \in E THEN m ELSE msgRet[x]
                            /\ IsInjective(v) /\ Range(v) = Range(ch.waiting) \cup E
          OBVIOUS
        <5>1. /\ \A x \in Thread : g[x] = IF x \in D THEN m ELSE msgRet[x]
              /\ IsInjective(c.waiting) /\ Range(c.waiting) = Range(ch.waiting) \cup D
          BY <1>4, <1>7
        <5>2. w \notin Range(c.waiting)
          BY <1>2, <5>1
        <5> QED BY <2>3, <2>4, <4>4, <5>1, <5>2
      <4>8. GivenSoFar(b, t, E, i + 1)
        BY <1>1, <1>4, <2>2, <2>3, <2>4, <2>5, <3>2, <3>3, <3>5, <4>6, <4>7 DEF GivenSoFar
      <4> QED BY <2>4, <4>8
    <3> QED BY <3>4, <3>5
  <2> QED BY <2>6, <2>7
<1> QED BY <1>4, <1>5, <1>6, <1>7

(* After the last turn.                                                    *)
LEMMA SentGives ==
  ASSUME ChInductive, NEW t \in Thread, ch.pos < PoolSize, NEW r, r = Sent(t)
  PROVE  \E D \in SUBSET Thread :
           /\ GivenSoFar(r, t, D, Len(k.wl["channel"]))
           /\ FirstOf(k.wl["channel"], Len(k.wl["channel"])) = Range(k.wl["channel"])
<1> DEFINE s == k.wl["channel"]
<1>1. s \in Seq(Thread) /\ IsInjective(s)
  BY ChParts
<1>2. \A x \in Range(s) : x \in Thread /\ Listens(x)
  BY <1>1, RangeOfSeq DEF Listens
<1> HIDE DEF s
<1>3. PICK n \in Nat : DOMAIN s = 1 .. n /\ n = Len(s)
  BY <1>1, LenProperties
<1>4. /\ \A i \in 1 .. n : s[i] \in Thread /\ Listens(s[i])
      /\ Range(s) = FirstOf(s, n)
  BY <1>2, <1>3 DEF Range, FirstOf
<1>5. PICK f : /\ f[0] = Sending(t) /\ r = f[n]
               /\ \A i \in 1 .. n : f[i] = Given(f[i - 1], s[i], ch.pos + 1)
  BY <1>3, SentSteps DEF s
<1> DEFINE M == {i \in Nat : i <= n => \E D \in SUBSET Thread : GivenSoFar(f[i], t, D, i)}
<1>6. 0 \in M
  <2>1. GivenSoFar(f[0], t, {}, 0) /\ {} \in SUBSET Thread
    BY <1>5, SendingIs
  <2> QED BY <2>1
<1>7. ASSUME NEW i \in Nat, i \in M
      PROVE  i + 1 \in M
  <2> SUFFICES ASSUME i + 1 <= n
               PROVE  \E D \in SUBSET Thread : GivenSoFar(f[i + 1], t, D, i + 1)
    OBVIOUS
  <2>1. /\ i + 1 \in 1 .. n /\ (i + 1) - 1 = i /\ i <= n
        /\ \A j \in 1 .. i : j \in 1 .. n /\ j # i + 1
    OBVIOUS
  <2>2. PICK D \in SUBSET Thread : GivenSoFar(f[i], t, D, i)
    BY <1>7, <2>1
  <2>3. PICK w, a, b : w = s[i + 1] /\ a = f[i] /\ b = f[i + 1]
    OBVIOUS
  <2>4. GivenSoFar(a, t, D, i) /\ b = Given(a, w, ch.pos + 1) /\ w \in Thread /\ Listens(w)
    BY <1>4, <1>5, <2>1, <2>2, <2>3
  <2>5. w \notin D
    <3>1. \A j \in 1 .. i : s[j] # w
      BY <1>1, <1>3, <2>1, <2>3 DEF IsInjective
    <3>2. D \subseteq FirstOf(s, i)
      BY <2>4 DEF GivenSoFar, s
    <3> QED BY <3>1, <3>2 DEF FirstOf
  <2>6. FirstOf(s, i + 1) = FirstOf(s, i) \cup {w}
    <3>1. 1 .. i + 1 = (1 .. i) \cup {i + 1}
      OBVIOUS
    <3> QED BY <2>3, <3>1 DEF FirstOf
  <2>7. GivenSoFar(b, t, D, i + 1) \/ GivenSoFar(b, t, D \cup {w}, i + 1)
    BY <2>4, <2>5, <2>6, OneMoreGiven DEF s
  <2>8. D \in SUBSET Thread /\ D \cup {w} \in SUBSET Thread
    BY <2>4
  <2> QED BY <2>3, <2>7, <2>8
<1>8. n \in M
  <2> HIDE DEF M
  <2> QED BY <1>6, <1>7, Give!SetInduction
<1> QED BY <1>3, <1>4, <1>5, <1>8 DEF s

(* bin_channel_send, up to the first wait.                                 *)
LEMMA SendBeginKeeps ==
  ASSUME ChInductive, NEW t \in Thread, SendBegin(t)
  PROVE  ChInductive'
<1>1. PICK s : s = Sent(t)
  OBVIOUS
<1>2. /\ t = k.cur /\ at[t] = "run" /\ t # Idle /\ ch.pos < PoolSize
      /\ use' = use /\ ch' = s.ch /\ msgRet' = s.msgRet
  BY <1>1 DEF SendBegin, MayBlock, At
<1>3. /\ ~ Listens(t) /\ k.stat[t] \in {"running", "suspend"}
      /\ (use.replies /\ Sufficed => msgRet[t] = 0)
  BY <1>2 DEF ChInductive, ChKernelSound, ChCallsSound, OnTheirWay
<1>4. PICK D \in SUBSET Thread :
        /\ GivenSoFar(s, t, D, Len(k.wl["channel"]))
        /\ FirstOf(k.wl["channel"], Len(k.wl["channel"])) = Range(k.wl["channel"])
  BY <1>1, <1>2, SentGives
<1>5. PICK q, to : q = s.k /\ to = s.to
  OBVIOUS
<1>6. /\ to \in {"sendSchedule", "unread", "noMessage"}
      /\ Releases(q, k, D) /\ SameTurn(q, k)
      /\ msgRet' \in [Thread -> 0 .. PoolSize]
      /\ ch' \in ChRecord /\ ch'.reply = IF use.replies THEN t ELSE ch.reply
      /\ ~ use.replies => ch'.waiting = ch.waiting
      /\ use.replies /\ Sufficed => to # "unread"
      /\ to = "sendSchedule" => D = Range(k.wl["channel"])
      /\ use.replies /\ Sufficed /\ to = "sendSchedule" =>
           /\ \A x \in Thread : msgRet'[x] = IF x \in D THEN ch.pos + 1 ELSE msgRet[x]
           /\ IsInjective(ch'.waiting) /\ Range(ch'.waiting) = Range(ch.waiting) \cup D
  BY <1>2, <1>4, <1>5 DEF GivenSoFar
<1>7. /\ k' = IF to = "sendSchedule" /\ use.replies THEN Suspend(q, t) ELSE q
      /\ \E a \in IF to = "sendSchedule" THEN {"sendSchedule", IF use.replies THEN "collect" ELSE "run"}
                                         ELSE {to} : Goto(t, a)
  BY <1>1, <1>5 DEF SendBegin, AfterSend
<1>8. PICK a \in {"sendSchedule", "collect", "run", "unread", "noMessage"} :
        /\ Goto(t, a) /\ (a = "collect" => use.replies)
        /\ to = "noMessage" => a = "noMessage"
        /\ to = "unread" => a = "unread"
  BY <1>6, <1>7
<1>9. /\ at' \in [Thread -> ChLabel] /\ at'[t] = a /\ \A x \in Thread \ {t} : at'[x] = at[x]
      /\ a \in ChLabel
  BY <1>8, ChParts DEF Goto, ChLabel
<1>10. /\ Wf(q, Thread) /\ OneRuns(q) /\ q.nest = 0 /\ q.cur = t /\ q.stat[t] \in {"running", "suspend"}
       /\ \A x \in Thread : x \in Range(q.wl["channel"]) => Listens(x) /\ x \notin D
  <2>1. /\ Wf(q, Thread) /\ OneRuns(q) /\ q.nest = 0 /\ q.cur = t
    BY <1>2, <1>6, ChParts DEF Releases, SameTurn
  <2>2. q.stat[t] \in {"running", "suspend"}
    <3>1. CASE k.stat[t] = "running"
      BY <1>2, <1>6, <3>1 DEF SameTurn, OnCpu
    <3>2. CASE k.stat[t] = "suspend"
      <4>1. t \notin D
        <5>1. D \subseteq Range(k.wl["channel"])
          BY <1>4 DEF GivenSoFar
        <5> QED BY <1>3, <5>1 DEF Listens
      <4> QED BY <1>6, <3>2, <4>1 DEF Releases, Untouched
    <3> QED BY <1>3, <3>1, <3>2
  <2>3. \A x \in Thread : x \in Range(q.wl["channel"]) => Listens(x) /\ x \notin D
    <3>1. \A x \in D : x \notin Range(q.wl["channel"])
      BY <1>6, ChParts, OnlySuspendedWait DEF Releases
    <3> QED BY <1>6, <3>1, ChParts DEF Listens, Releases, Untouched
  <2> QED BY <2>1, <2>2, <2>3
<1>11. /\ Wf(k', Thread) /\ OneRuns(k') /\ k'.nest = 0 /\ k'.cur = t /\ k'.stat[t] \in {"running", "suspend"}
       /\ \A x \in Thread : Listens(x)' => Listens(x) /\ x \notin D
  <2>1. CASE k' = q
    BY <1>10, <2>1 DEF Listens
  <2>2. CASE k' = Suspend(q, t)
    <3>1. \A l \in WaitList : t \notin Range(q.wl[l])
      BY <1>3, <1>10, ChParts
    <3>2. Suspends(k', q, t) /\ \A l \in WaitList : t \notin Range(k'.wl[l])
      BY <1>2, <1>10, <2>2, <3>1, ChSuspends
    <3> QED BY <1>10, <3>2, ChParts DEF Listens, Suspends, Untouched
  <2> QED BY <1>7, <2>1, <2>2
<1>12. ChMoves(t, a)
  BY <1>2, <1>3, <1>8, <1>9, <1>11 DEF ChMoves
<1>13. ChOwes
  <2> SUFFICES ASSUME use.replies, Sufficed, Sufficed'
               PROVE  /\ IsInjective(ch'.waiting) /\ Range(ch'.waiting) = {x \in Thread : msgRet'[x] # 0}
                      /\ \A x \in Thread : Listens(x)' => msgRet'[x] = 0
                      /\ \A x \in Thread : msgRet'[x] # 0 =>
                           x \in Receiver /\ at'[x] \in {"recvSchedule", "received", "reply"}
    BY DEF ChOwes
  <2>1. to = "sendSchedule"
    <3>1. a # "noMessage"
      BY <1>9 DEF Sufficed
    <3> QED BY <1>6, <1>8, <3>1
  <2>2. /\ \A x \in Thread : msgRet'[x] = IF x \in D THEN ch.pos + 1 ELSE msgRet[x]
        /\ IsInjective(ch'.waiting) /\ Range(ch'.waiting) = Range(ch.waiting) \cup D
        /\ D = Range(k.wl["channel"]) /\ ch.pos + 1 # 0
    <3>1. ch.pos \in Nat
      BY ChParts DEF ChRecord
    <3> QED BY <1>6, <2>1, <3>1
  <2>3. \A x \in Thread : x \in D <=> Listens(x)
    BY <2>2 DEF Listens
  <2>4. \A x \in Thread : Listens(x) => x \in Receiver /\ at[x] \in {"recvSchedule", "received"}
    BY DEF ChInductive, ChCallsSound
  <2>5. \A x \in Thread : msgRet[x] # 0 => x \in Receiver /\ at[x] \in {"recvSchedule", "received", "reply"}
    BY DEF ChInductive, OnTheirWay
  <2>6. Range(ch.waiting) = {x \in Thread : msgRet[x] # 0}
    BY DEF ChInductive, OwedExact
  <2>7. Range(ch'.waiting) = {x \in Thread : msgRet'[x] # 0}
    BY <2>2, <2>6
  <2>8. \A x \in Thread : Listens(x)' => msgRet'[x] = 0
    BY <1>11, <2>3
  <2>9. \A x \in Thread : msgRet'[x] # 0 => x \in Receiver /\ at'[x] \in {"recvSchedule", "received", "reply"}
    BY <1>3, <1>9, <2>2, <2>3, <2>4, <2>5
  <2> QED BY <2>2, <2>7, <2>8, <2>9
<1>14. ch'.waiting # << >> => ch'.reply \in Thread
  BY <1>6 DEF ChInductive, ReplyKnown
<1> QED BY <1>6, <1>9, <1>12, <1>13, <1>14, ChStepKeeps

(***************************************************************************)
(* All steps.                                                              *)
(***************************************************************************)
LEMMA ChNextKeeps ==
  ASSUME ChInductive, ChNext
  PROVE  ChInductive'
<1>1. CASE Progress
  <2>1. PICK t \in Thread :
          \/ \E timed \in {FALSE, use.timed} : RecvBegin(t, timed)
          \/ RecvSchedule(t) \/ RecvFails(t) \/ RecvRead(t) \/ Reply(t)
          \/ SendSchedule(t) \/ Collect(t)
    BY <1>1 DEF Progress
  <2>2. CASE \E timed \in {FALSE, use.timed} : RecvBegin(t, timed)
    BY <2>2, RecvBeginKeeps
  <2> QED BY <2>1, <2>2, RecvScheduleKeeps, RecvFailsKeeps, RecvReadKeeps, ReplyKeeps, SendScheduleKeeps,
             CollectKeeps
<1> QED BY <1>1, ChSliceKeeps, ChTimeoutKeeps, SendBeginKeeps DEF ChNext

(* Nothing happens.                                                        *)
LEMMA ChStutter ==
  ASSUME ChInductive, UNCHANGED chvars
  PROVE  ChInductive'
<1>1. k' = k /\ at' = at /\ use' = use /\ ch' = ch /\ msgRet' = msgRet
  BY DEF chvars
<1>2. ChTypeOK' /\ OwedExact'
  BY <1>1 DEF ChInductive, ChTypeOK, OwedExact, Sufficed, NobodySkipped
<1>3. ChKernelSound' /\ ChCallsSound'
  BY <1>1 DEF ChInductive, ChKernelSound, ChCallsSound, Listens
<1>4. OnTheirWay' /\ ReplyKnown'
  BY <1>1 DEF ChInductive, OnTheirWay, ReplyKnown, Sufficed
<1> QED BY <1>2, <1>3, <1>4 DEF ChInductive

(* The start of the scheduler, the channel new.                            *)
LEMMA ChInitInductive ==
  ASSUME IsFiniteSet(Thread), ChInit
  PROVE  ChInductive
<1>1. /\ KernelInit(Thread) /\ use \in Uses /\ msgRet = [t \in Thread |-> 0]
      /\ ch = [reply |-> NoThread, waiting |-> << >>, arrived |-> << >>, pos |-> 0]
  BY DEF ChInit
<1>2. PICK r \in BootQueues(Thread) : k = FirstSwitch(Started(Thread, r))
  BY <1>1 DEF KernelInit
<1>3. /\ Wf(k, Thread) /\ OneRuns(k) /\ k.stat[k.cur] = "running" /\ k.nest = 0
      /\ \A l \in WaitList : k.wl[l] = << >>
      /\ at = [t \in Thread |-> "run"]
  <2>1. Thread \in SUBSET Thread /\ Idle \in Thread
    BY KernelAssumption
  <2> QED BY <1>1, <1>2, <2>1, BootWf DEF KernelInit
<1>4. /\ k \in KernelState /\ k.wl["channel"] = << >> /\ WaitList = {"channel"} /\ PoolSize \in Nat
      /\ \A x : x \notin Range(<< >>)
  BY <1>3, ChannelAssumption DEF Wf, Range
<1>5. \A t \in Thread : ~ Listens(t) /\ at[t] = "run" /\ msgRet[t] = 0
  BY <1>1, <1>3, <1>4 DEF Listens
<1>6. k.cur \in Thread /\ Idle \in Thread
  BY <1>4, KernelAssumption DEF KernelState
<1>7. ChTypeOK
  <2>1. ch \in ChRecord
    BY <1>1, <1>4 DEF ChRecord
  <2> QED BY <1>1, <1>3, <1>4, <2>1 DEF ChTypeOK, ChRecord, ChLabel
<1>8. ChKernelSound /\ ChCallsSound /\ OnTheirWay /\ ReplyKnown
  BY <1>1, <1>3, <1>5, <1>6 DEF ChKernelSound, ChCallsSound, OnTheirWay, ReplyKnown
<1>9. OwedExact
  <2>1. IsInjective(<< >>) /\ Range(<< >>) = {} /\ {t \in Thread : msgRet[t] # 0} = {}
    BY <1>4, <1>5 DEF IsInjective
  <2> QED BY <1>1, <1>4, <2>1 DEF OwedExact, NobodySkipped
<1> QED BY <1>7, <1>8, <1>9 DEF ChInductive

(* The invariant, whatever the programs do.                                *)
THEOREM ChInductiveHolds ==
  ASSUME IsFiniteSet(Thread)
  PROVE  ChSpec => []ChInductive
<1>1. ChInit => ChInductive
  BY ChInitInductive
<1>2. ChInductive /\ [ChNext]_chvars => ChInductive'
  BY ChNextKeeps, ChStutter
<1> QED BY <1>1, <1>2, PTL DEF ChSpec

(* What bin_channel_send and bin_channel_reply keep, with any number of    *)
(* senders at once, with timeouts, and whoever sends where nobody waits:   *)
(* replies are expected of exactly those that have a message and have not  *)
(* replied, each once.                                                     *)
THEOREM OwedExactHolds ==
  ASSUME IsFiniteSet(Thread)
  PROVE  ChSpec => []OwedExact
<1>1. ChInductive => OwedExact
  BY DEF ChInductive
<1> QED BY <1>1, ChInductiveHolds, PTL

(* The types, and the lists of the kernel: even where a sender goes on     *)
(* after it has suspended itself, no thread is in two lists.               *)
THEOREM ChannelListsExact ==
  ASSUME IsFiniteSet(Thread)
  PROVE  ChSpec => [](ChTypeOK /\ Wf(k, Thread))
<1>1. ChInductive => ChTypeOK /\ Wf(k, Thread)
  BY DEF ChInductive, ChKernelSound
<1> QED BY <1>1, ChInductiveHolds, PTL

(***************************************************************************)
(* Light-weight processes.  The count of references is exact if an exec is *)
(* over before the thread it has started runs, and there is a thread for   *)
(* every process.  LwtInductive is the invariant.                          *)
(***************************************************************************)
Orderly == Overtaken = FALSE /\ "noThread" \notin Load

(***************************************************************************)
(* The inductive invariant.                                                *)
(***************************************************************************)
Holding == {"counted", "started", "exited"}

(* A thread that holds a reference does so to a process there is.          *)
HoldersLive == \A t \in Task : task[t].st \in Holding => task[t].lwp \in Live

(* The thread group of a process lists threads of this process.            *)
GroupOwn == \A l \in Live : \A t \in lwt[l].group : task[t].lwp = l /\ task[t].st # "none"

(* A thread that is being started is counted, and one thread starts it.    *)
StartsOK ==
  \A t \in Task : task[t].starts # Nobody =>
    /\ task[t].starts \in Task /\ task[t].st = "started"
    /\ task[task[t].starts].st = "counted"
    /\ \A u \in Task : task[u].starts = task[t].starts => u = t

(* The process of an exec has one reference all along, and the first       *)
(* thread of it is nobody else's until it has been started.                *)
ExecOK ==
  /\ exec.at # "idle" => exec.l \in Live /\ lwt[exec.l].ref = 1
  /\ exec.at \in {"link", "start"} => exec.t \in Task /\ task[exec.t].st = "created"
  /\ exec.at = "link" => task[exec.t].lwp = Nobody
  /\ exec.at = "start" => task[exec.t].lwp = exec.l /\ exec.t \in lwt[exec.l].group

LwtInductive ==
  /\ LwtTypeOK /\ CountExact
  /\ HoldersLive /\ GroupOwn /\ StartsOK /\ ExecOK

(***************************************************************************)
(* Counting holders.                                                       *)
(***************************************************************************)
LEMMA HoldersFinite ==
  ASSUME NEW l
  PROVE  IsFiniteSet(Holders(l)) /\ Cardinality(Holders(l)) \in Nat
<1>1. Holders(l) \in SUBSET Task
  BY DEF Holders
<1>2. IsFiniteSet(Task)
  BY LwtAssumption
<1>3. IsFiniteSet(Holders(l))
  BY <1>1, <1>2, FS_Subset
<1> QED BY <1>3, FS_CardinalityType

LEMMA HoldersFiniteNext ==
  ASSUME NEW l
  PROVE  IsFiniteSet(Holders(l)') /\ Cardinality(Holders(l)') \in Nat
<1>1. Holders(l)' \in SUBSET Task
  BY DEF Holders
<1>2. IsFiniteSet(Task)
  BY LwtAssumption
<1>3. IsFiniteSet(Holders(l)')
  BY <1>1, <1>2, FS_Subset
<1> QED BY <1>3, FS_CardinalityType

(* While the exec of a process has not started a thread, nobody holds it.  *)
LEMMA ExecAlone ==
  ASSUME LwtInductive, exec.at \in {"load", "link", "start"}
  PROVE  Holders(exec.l) = {}
<1>1. exec.l \in Live /\ lwt[exec.l].ref = 1
  BY DEF LwtInductive, ExecOK
<1>2. 1 = Cardinality(Holders(exec.l)) + 1
  BY <1>1 DEF LwtInductive, CountExact, InExec
<1>3. Cardinality(Holders(exec.l)) = 0
  BY <1>2, HoldersFinite
<1> QED BY <1>3, HoldersFinite, FS_EmptySet

(* Part by part: the process a thread belongs to.                          *)
LEMMA HolderFacts ==
  ASSUME LwtInductive, NEW t \in Task, task[t].st \in Holding
  PROVE  /\ task[t].lwp \in Process /\ task[t].lwp \in Live
         /\ t \in Holders(task[t].lwp) /\ t \in lwt[task[t].lwp].group
         /\ exec.at \in {"load", "link", "start"} => task[t].lwp # exec.l
<1>1. task[t].lwp \in Live
  BY DEF LwtInductive, HoldersLive
<1>2. task[t].lwp \in Process
  BY <1>1 DEF Live
<1>3. t \in Holders(task[t].lwp)
  BY DEF Holders, Holding
<1>4. t \in lwt[task[t].lwp].group
  BY DEF LwtInductive, CountExact, Holding
<1>5. exec.at \in {"load", "link", "start"} => task[t].lwp # exec.l
  BY <1>3, ExecAlone
<1> QED BY <1>1, <1>2, <1>3, <1>4, <1>5

(***************************************************************************)
(* rt_lwt_new: the slot that is found.                                     *)
(***************************************************************************)
LEMMA FoundFacts ==
  ASSUME LwtTypeOK
  PROVE  /\ Found \in 0 .. pids.last
         /\ Found = pids.last \/ pids.map[Found] = Nobody
         /\ \A o \in 0 .. Found - 1 : pids.map[o] # Nobody
<1> DEFINE T == {p \in 0 .. pids.last : p = pids.last \/ pids.map[p] = Nobody}
           R == {ss \in Nat \X Nat : ss[1] < ss[2]}
<1>1. pids.last \in Nat
  BY LwtAssumption DEF LwtTypeOK
<1>2. T \in SUBSET Nat /\ pids.last \in T
  BY <1>1
<1>3. IsWellFoundedOn(R, Nat)
  BY NatLessThanWellFounded DEF OpToRel
<1> HIDE DEF R
<1>4. PICK m \in T : \A n \in T : ~ (<<n, m>> \in R)
  <2> HIDE DEF T
  <2> QED BY <1>2, <1>3, WFMin
<1>5. \A n \in T : ~ (n < m)
  BY <1>2, <1>4 DEF R
<1>6. \A o \in 0 .. m - 1 : pids.map[o] # Nobody
  BY <1>1, <1>5
<1>7. m \in 0 .. pids.last /\ (m = pids.last \/ pids.map[m] = Nobody)
  BY <1>4
<1> QED BY <1>6, <1>7 DEF Found

(***************************************************************************)
(* Types.                                                                  *)
(***************************************************************************)
LEMMA NewKeepsType ==
  ASSUME LwtTypeOK, New
  PROVE  LwtTypeOK'
<1>1. Found \in Nat /\ PidMax \in Nat \ {0} /\ (~ Full => Found \in Pid /\ Found + 1 \in 0 .. PidMax)
  BY FoundFacts, LwtAssumption DEF LwtTypeOK, Full, Pid
<1>2. CASE NewFails
  BY <1>1, <1>2 DEF LwtTypeOK, NewFails
<1>3. ASSUME NEW l \in Process, NewOk(l)
      PROVE  LwtTypeOK'
  BY <1>1, <1>3 DEF LwtTypeOK, NewOk
<1> QED BY <1>2, <1>3 DEF New

LEMMA ExecKeepsType ==
  ASSUME LwtInductive, ExecLoad \/ ExecLink \/ ExecStart \/ ExecCount
  PROVE  LwtTypeOK'
<1>0. LwtTypeOK
  BY DEF LwtInductive
<1>1. CASE ExecLoad
  <2>1. PICK how \in Load, t \in Task :
          /\ IF how = "ok" THEN /\ task' = [task EXCEPT ![t] = [NoTask EXCEPT !.st = "created"]]
                                /\ exec' = [exec EXCEPT !.at = "link", !.t = t]
                           ELSE exec' = NoExec /\ UNCHANGED task
          /\ lwt' = IF how = "noFile" THEN [lwt EXCEPT ![exec.l].live = FALSE] ELSE lwt
    BY <1>1 DEF ExecLoad
  <2>2. [NoTask EXCEPT !.st = "created"] = [st |-> "created", lwp |-> Nobody, starts |-> Nobody]
    BY DEF NoTask
  <2>3. (task' \in [Task -> [st : {"none", "created", "counted", "started", "exited"},
                        lwp : Process \cup {Nobody}, starts : Task \cup {Nobody}]])
    BY <1>0, <2>1, <2>2 DEF LwtTypeOK
  <2>4. exec' \in [at : {"idle", "load", "link", "start", "count"},
               l : Process \cup {Nobody}, t : Task \cup {Nobody}]
    <3>1. CASE how = "ok"
      <4>1. exec' = [exec EXCEPT !.at = "link", !.t = t]
        BY <2>1, <3>1
      <4>2. exec \in [at : {"idle", "load", "link", "start", "count"},
                    l : Process \cup {Nobody}, t : Task \cup {Nobody}]
        BY <1>0 DEF LwtTypeOK
      <4> QED BY <4>1, <4>2
    <3>2. CASE how # "ok"
      BY <2>1, <3>2 DEF NoExec
    <3> QED BY <3>1, <3>2
  <2>5. lwt' \in [Process -> [live : BOOLEAN, ref : Nat, pid : Pid, group : SUBSET Task]]
    BY <1>0, <2>1 DEF LwtTypeOK
  <2> QED BY <1>0, <1>1, <2>3, <2>4, <2>5 DEF LwtTypeOK, ExecLoad
<1>2. CASE ExecLink
  <2>1. exec.t \in Task
    BY <1>2 DEF LwtInductive, ExecOK, ExecLink
  <2>2. lwt' \in [Process -> [live : BOOLEAN, ref : Nat, pid : Pid, group : SUBSET Task]]
    BY <1>0, <1>2, <2>1 DEF LwtTypeOK, ExecLink
  <2>3. task' \in [Task -> [st : {"none", "created", "counted", "started", "exited"},
                        lwp : Process \cup {Nobody}, starts : Task \cup {Nobody}]]
    BY <1>0, <1>2, <2>1 DEF LwtTypeOK, ExecLink
  <2>4. exec' \in [at : {"idle", "load", "link", "start", "count"},
               l : Process \cup {Nobody}, t : Task \cup {Nobody}]
    BY <1>0, <1>2 DEF LwtTypeOK, ExecLink
  <2> QED BY <1>0, <1>2, <2>2, <2>3, <2>4 DEF LwtTypeOK, ExecLink
<1>3. CASE ExecStart
  BY <1>0, <1>3 DEF LwtTypeOK, ExecStart
<1>4. CASE ExecCount
  BY <1>0, <1>4 DEF LwtTypeOK, ExecCount, NoExec
<1> QED BY <1>1, <1>2, <1>3, <1>4

LEMMA TaskKeepsType ==
  ASSUME LwtInductive, NEW t \in Task,
         \/ SubStart(t) \/ Exit(t) \/ Cleanup(t)
         \/ \E u \in Task : SubCreate(t, u) \/ SubCount(t, u)
  PROVE  LwtTypeOK'
<1>0. LwtTypeOK
  BY DEF LwtInductive
<1>h. task[t].st \in Holding => task[t].lwp \in Process
  BY HolderFacts
<1>1. CASE SubStart(t)
  BY <1>0, <1>1 DEF LwtTypeOK, SubStart
<1>2. CASE Exit(t)
  BY <1>0, <1>2 DEF LwtTypeOK, Exit
<1>3. CASE Cleanup(t)
  <2> DEFINE l == task[t].lwp
             less == [lwt[l] EXCEPT !.group = @ \ {t}, !.ref = IF @ > 0 THEN @ - 1 ELSE 0]
             last == lwt[l].ref = 1
             rest == [less EXCEPT !.live = @ /\ ~ last]
  <2>1. l \in Process
    BY <1>3, <1>h DEF Cleanup, Holding
  <2>2. lwt' = [lwt EXCEPT ![l] = rest]
    BY <1>3 DEF Cleanup
  <2>3. rest \in [live : BOOLEAN, ref : Nat, pid : Pid, group : SUBSET Task]
    <3>1. lwt[l] \in [live : BOOLEAN, ref : Nat, pid : Pid, group : SUBSET Task]
      <4> HIDE DEF l
      <4> QED BY <1>0, <2>1 DEF LwtTypeOK
    <3>2. (IF lwt[l].ref > 0 THEN lwt[l].ref - 1 ELSE 0) \in Nat
      BY <3>1
    <3>3. less \in [live : BOOLEAN, ref : Nat, pid : Pid, group : SUBSET Task]
      BY <3>1, <3>2
    <3> HIDE DEF less, last
    <3> QED BY <3>3
  <2>4. lwt' \in [Process -> [live : BOOLEAN, ref : Nat, pid : Pid, group : SUBSET Task]]
    <3> HIDE DEF rest
    <3> QED BY <1>0, <2>1, <2>2, <2>3 DEF LwtTypeOK
  <2>5. pids' \in [map : [Pid -> Process \cup {Nobody}], last : 0 .. PidMax]
    BY <1>0, <1>3, <2>1 DEF LwtTypeOK, Cleanup, LastFreed
  <2>6. task' = [task EXCEPT ![t] = NoTask] /\ UNCHANGED exec
    BY <1>3 DEF Cleanup
  <2>7. NoTask \in [st : {"none", "created", "counted", "started", "exited"},
                    lwp : Process \cup {Nobody}, starts : Task \cup {Nobody}]
    BY DEF NoTask
  <2> QED BY <1>0, <2>4, <2>5, <2>6, <2>7 DEF LwtTypeOK
<1>4. ASSUME NEW u \in Task, SubCreate(t, u)
      PROVE  LwtTypeOK'
  <2>1. task[t].lwp \in Process
    BY <1>4, <1>h DEF SubCreate, Runs, Holding
  <2>2. lwt' \in [Process -> [live : BOOLEAN, ref : Nat, pid : Pid, group : SUBSET Task]]
    BY <1>0, <1>4, <2>1 DEF LwtTypeOK, SubCreate
  <2>3. task' \in [Task -> [st : {"none", "created", "counted", "started", "exited"},
                    lwp : Process \cup {Nobody}, starts : Task \cup {Nobody}]]
    BY <1>0, <1>4, <2>1 DEF LwtTypeOK, SubCreate
  <2> QED BY <1>0, <1>4, <2>2, <2>3 DEF LwtTypeOK, SubCreate
<1>5. ASSUME NEW u \in Task, SubCount(t, u)
      PROVE  LwtTypeOK'
  <2>2. lwt' \in [Process -> [live : BOOLEAN, ref : Nat, pid : Pid, group : SUBSET Task]]
    <3>1. task[t].lwp \in Process
      BY <1>5, <1>h DEF SubCount, Runs, Holding
    <3> QED BY <1>0, <1>5, <3>1 DEF LwtTypeOK, SubCount
  <2>3. task' \in [Task -> [st : {"none", "created", "counted", "started", "exited"},
                    lwp : Process \cup {Nobody}, starts : Task \cup {Nobody}]]
    BY <1>0, <1>5 DEF LwtTypeOK, SubCount
  <2> QED BY <1>0, <1>5, <2>2, <2>3 DEF LwtTypeOK, SubCount
<1> QED BY <1>1, <1>2, <1>3, <1>4, <1>5

(***************************************************************************)
(* The steps of rt_lwt_new and lwt_execve.                                 *)
(***************************************************************************)
LEMMA NewKeeps ==
  ASSUME LwtInductive, New
  PROVE  LwtInductive'
<1>1. LwtTypeOK /\ LwtTypeOK' /\ exec.at = "idle"
  BY NewKeepsType DEF LwtInductive, New
<1>2. CASE NewFails
  <2>1. UNCHANGED <<lwt, task, exec>>
    BY <1>2 DEF NewFails
  <2>2. Live' = Live /\ \A l : Holders(l)' = Holders(l) /\ InExec(l)' = InExec(l)
    BY <2>1 DEF Live, Holders, InExec
  <2>3. CountExact'
    BY <2>1, <2>2 DEF LwtInductive, CountExact
  <2>4. HoldersLive' /\ GroupOwn' /\ StartsOK' /\ ExecOK'
    BY <2>1, <2>2 DEF LwtInductive, HoldersLive, GroupOwn, StartsOK, ExecOK
  <2> QED BY <1>1, <2>3, <2>4 DEF LwtInductive
<1>3. ASSUME NEW l \in Process, NewOk(l)
      PROVE  LwtInductive'
  <2>1. /\ UNCHANGED task /\ l \notin Live
        /\ lwt' = [lwt EXCEPT ![l] = [live |-> TRUE, ref |-> 1, pid |-> Found, group |-> {}]]
        /\ exec' = [at |-> "load", l |-> l, t |-> Nobody]
    BY <1>3 DEF NewOk
  <2>2. /\ lwt'[l].live /\ lwt'[l].ref = 1 /\ lwt'[l].group = {}
        /\ \A x \in Process \ {l} : lwt'[x] = lwt[x]
    BY <1>1, <2>1 DEF LwtTypeOK
  <2>3. Live' = Live \cup {l}
    BY <2>2 DEF Live
  <2>4. \A x : Holders(x)' = Holders(x)
    BY <2>1 DEF Holders
  <2>5. Holders(l) = {}
    BY <2>1 DEF LwtInductive, CountExact
  <2>6. \A x \in Process \ {l} : InExec(x) = FALSE /\ InExec(x)' = FALSE
    BY <1>1, <2>1 DEF InExec
  <2>7. InExec(l)'
    BY <2>1 DEF InExec
  <2>8. Cardinality(Holders(l)') = 0
    BY <2>4, <2>5, FS_EmptySet
  <2>9. CountExact'
    <3>1. ASSUME NEW x \in Live'
          PROVE  lwt'[x].ref = Cardinality(Holders(x)') + (IF InExec(x)' THEN 1 ELSE 0)
                 /\ lwt'[x].ref > 0
      <4>1. CASE x = l
        BY <2>2, <2>7, <2>8, <4>1
      <4>2. CASE x # l
        <5>1. x \in Live /\ x \in Process \ {l}
          BY <2>3, <3>1, <4>2 DEF Live
        <5> QED BY <2>2, <2>4, <2>6, <5>1 DEF LwtInductive, CountExact
      <4> QED BY <4>1, <4>2
    <3>2. ASSUME NEW x \in Process \ Live'
          PROVE  Holders(x)' = {}
      BY <2>3, <2>4, <3>2 DEF LwtInductive, CountExact
    <3>3. ASSUME NEW t \in Task, task[t].st \in {"counted", "started", "exited"}
          PROVE  t \in lwt'[task[t].lwp].group
      BY <2>1, <2>2, <3>3, HolderFacts DEF Holding
    <3> QED BY <2>1, <3>1, <3>2, <3>3 DEF CountExact
  <2>10. HoldersLive' /\ StartsOK'
    BY <2>1, <2>3 DEF LwtInductive, HoldersLive, StartsOK
  <2>11. GroupOwn'
    BY <2>1, <2>2, <2>3 DEF LwtInductive, GroupOwn, Live
  <2>12. ExecOK'
    BY <2>1, <2>2, <2>3 DEF ExecOK
  <2> QED BY <1>1, <2>9, <2>10, <2>11, <2>12 DEF LwtInductive
<1> QED BY <1>2, <1>3 DEF New

LEMMA ExecLoadKeeps ==
  ASSUME LwtInductive, Orderly, ExecLoad
  PROVE  LwtInductive'
<1>1. PICK how \in Load, t \in Task :
        /\ task[t].st = "none"
        /\ IF how = "ok" THEN /\ task' = [task EXCEPT ![t] = [NoTask EXCEPT !.st = "created"]]
                              /\ exec' = [exec EXCEPT !.at = "link", !.t = t]
                         ELSE exec' = NoExec /\ UNCHANGED task
        /\ lwt' = IF how = "noFile" THEN [lwt EXCEPT ![exec.l].live = FALSE] ELSE lwt
  BY DEF ExecLoad
<1>2. LwtTypeOK /\ LwtTypeOK' /\ exec.at = "load"
  BY ExecKeepsType DEF LwtInductive, ExecLoad
<1>3. exec.l \in Live /\ exec.l \in Process /\ lwt[exec.l].ref = 1 /\ Holders(exec.l) = {}
  BY <1>2, ExecAlone DEF LwtInductive, ExecOK, Live
<1>4. CASE how = "ok"
  <2>1. /\ UNCHANGED lwt /\ task' = [task EXCEPT ![t] = [NoTask EXCEPT !.st = "created"]]
        /\ exec' = [exec EXCEPT !.at = "link", !.t = t]
    BY <1>1, <1>4
  <2>2. /\ task'[t].st = "created" /\ task'[t].lwp = Nobody /\ task'[t].starts = Nobody
        /\ \A u \in Task \ {t} : task'[u] = task[u]
    BY <1>2, <2>1 DEF LwtTypeOK, NoTask
  <2>3. exec'.at = "link" /\ exec'.l = exec.l /\ exec'.t = t
    BY <1>2, <2>1 DEF LwtTypeOK
  <2>4. \A x : Holders(x)' = Holders(x)
    BY <1>1, <2>2 DEF Holders
  <2>5. \A x : InExec(x)' = InExec(x)
    BY <1>2, <2>3 DEF InExec
  <2>6. Live' = Live
    BY <2>1 DEF Live
  <2>7. CountExact'
    BY <1>1, <2>1, <2>2, <2>4, <2>5, <2>6 DEF LwtInductive, CountExact
  <2>8. HoldersLive'
    BY <2>2, <2>6 DEF LwtInductive, HoldersLive, Holding
  <2>9. GroupOwn'
    BY <1>1, <1>2, <2>1, <2>2, <2>6 DEF LwtInductive, GroupOwn, LwtTypeOK, Live
  <2>10. StartsOK'
    BY <1>1, <2>2 DEF LwtInductive, StartsOK
  <2>11. ExecOK'
    BY <1>3, <2>1, <2>2, <2>3, <2>6 DEF ExecOK
  <2> QED BY <1>2, <2>7, <2>8, <2>9, <2>10, <2>11 DEF LwtInductive
<1>5. CASE how = "noFile"
  <2>1. /\ UNCHANGED task /\ exec' = NoExec
        /\ lwt' = [lwt EXCEPT ![exec.l].live = FALSE]
    BY <1>1, <1>5
  <2>2. /\ ~ lwt'[exec.l].live /\ \A x \in Process \ {exec.l} : lwt'[x] = lwt[x]
    BY <1>2, <1>3, <2>1 DEF LwtTypeOK
  <2>3. Live' = Live \ {exec.l}
    BY <2>2 DEF Live
  <2>4. \A x : Holders(x)' = Holders(x)
    BY <2>1 DEF Holders
  <2>5. \A x \in Live' : InExec(x) = FALSE /\ InExec(x)' = FALSE /\ x \in Process \ {exec.l}
    BY <2>1, <2>3 DEF InExec, NoExec, Live
  <2>6. \A u \in Task : task[u].st \in Holding => task[u].lwp \in Process \ {exec.l}
    BY <1>2, HolderFacts
  <2>7. CountExact'
    <3>1. \A x \in Live' : /\ lwt'[x].ref = Cardinality(Holders(x)') + (IF InExec(x)' THEN 1 ELSE 0)
                           /\ lwt'[x].ref > 0
      BY <2>2, <2>3, <2>4, <2>5 DEF LwtInductive, CountExact
    <3>2. \A x \in Process \ Live' : Holders(x)' = {}
      BY <1>3, <2>3, <2>4 DEF LwtInductive, CountExact
    <3>3. \A u \in Task : task[u].st \in {"counted", "started", "exited"}
                            => u \in lwt'[task[u].lwp].group
      BY <2>2, <2>6 DEF LwtInductive, CountExact, Holding
    <3> QED BY <2>1, <3>1, <3>2, <3>3 DEF CountExact
  <2>8. HoldersLive'
    BY <2>1, <2>3, <2>6 DEF LwtInductive, HoldersLive
  <2>9. GroupOwn'
    BY <2>1, <2>2, <2>3, <2>5 DEF LwtInductive, GroupOwn
  <2>10. StartsOK' /\ ExecOK'
    BY <2>1 DEF LwtInductive, StartsOK, ExecOK, NoExec
  <2> QED BY <1>2, <2>7, <2>8, <2>9, <2>10 DEF LwtInductive
<1> QED BY <1>1, <1>4, <1>5, LwtAssumption DEF Orderly

LEMMA ExecLinkKeeps ==
  ASSUME LwtInductive, ExecLink
  PROVE  LwtInductive'
<1>1. LwtTypeOK /\ LwtTypeOK' /\ exec.at = "link"
  BY ExecKeepsType DEF LwtInductive, ExecLink
<1> DEFINE l == exec.l
           t == exec.t
<1>2. l \in Live /\ l \in Process /\ lwt[l].ref = 1 /\ Holders(l) = {}
  BY <1>1, ExecAlone DEF LwtInductive, ExecOK, Live
<1>3. t \in Task /\ task[t].st = "created" /\ task[t].lwp = Nobody
  BY <1>1 DEF LwtInductive, ExecOK
<1>4. /\ task' = [task EXCEPT ![t].lwp = l] /\ lwt' = [lwt EXCEPT ![l].group = {t}]
      /\ exec' = [exec EXCEPT !.at = "start"]
  BY DEF ExecLink
<1>5. exec'.at = "start" /\ exec'.l = l /\ exec'.t = t
  BY <1>1, <1>4 DEF LwtTypeOK
<1> HIDE DEF l, t
<1>6. /\ task'[t].st = "created" /\ task'[t].lwp = l /\ task'[t].starts = task[t].starts
      /\ \A u \in Task \ {t} : task'[u] = task[u]
  BY <1>1, <1>3, <1>4 DEF LwtTypeOK
<1>7. /\ lwt'[l].live = lwt[l].live /\ lwt'[l].ref = lwt[l].ref /\ lwt'[l].group = {t}
      /\ \A x \in Process \ {l} : lwt'[x] = lwt[x]
  BY <1>1, <1>2, <1>4 DEF LwtTypeOK
<1>8. Live' = Live
  BY <1>2, <1>7 DEF Live
<1>9. \A x : Holders(x)' = Holders(x)
  BY <1>3, <1>6 DEF Holders
<1>10. \A x : InExec(x)' = InExec(x)
  BY <1>1, <1>5 DEF InExec, l
<1>11. \A u \in Task : task[u].st \in Holding => task[u].lwp \in Process \ {l} /\ u # t
  BY <1>1, <1>3, HolderFacts DEF Holding, l
<1>12. CountExact'
  <2>1. \A x \in Live' : /\ lwt'[x].ref = Cardinality(Holders(x)') + (IF InExec(x)' THEN 1 ELSE 0)
                         /\ lwt'[x].ref > 0
    BY <1>7, <1>8, <1>9, <1>10 DEF LwtInductive, CountExact, Live
  <2>2. \A x \in Process \ Live' : Holders(x)' = {}
    BY <1>8, <1>9 DEF LwtInductive, CountExact
  <2>3. \A u \in Task : task'[u].st \in {"counted", "started", "exited"}
                          => u \in lwt'[task'[u].lwp].group
    BY <1>6, <1>7, <1>11 DEF LwtInductive, CountExact, Holding
  <2> QED BY <2>1, <2>2, <2>3 DEF CountExact
<1>13. HoldersLive'
  BY <1>6, <1>8 DEF LwtInductive, HoldersLive, Holding
<1>14. GroupOwn'
  <2>1. ASSUME NEW x \in Live, NEW u \in lwt'[x].group
        PROVE  task'[u].lwp = x /\ task'[u].st # "none"
    <3>1. CASE x = l
      BY <1>6, <1>7, <2>1, <3>1
    <3>2. CASE x # l
      <4>1. x \in Process /\ u \in lwt[x].group /\ u \in Task
        BY <1>1, <1>7, <2>1, <3>2 DEF Live, LwtTypeOK
      <4>2. task[u].lwp = x /\ task[u].st # "none" /\ x # Nobody
        BY <4>1, LwtAssumption DEF LwtInductive, GroupOwn, Live
      <4> QED BY <1>3, <1>6, <4>1, <4>2
    <3> QED BY <3>1, <3>2
  <2> QED BY <1>8, <2>1 DEF GroupOwn
<1>15. StartsOK'
  <2>1. \A u \in Task : task'[u].starts = task[u].starts /\ task'[u].st = task[u].st
    BY <1>3, <1>6
  <2> QED BY <2>1 DEF LwtInductive, StartsOK
<1>16. ExecOK'
  BY <1>2, <1>3, <1>5, <1>6, <1>7, <1>8 DEF ExecOK
<1> QED BY <1>1, <1>12, <1>13, <1>14, <1>15, <1>16 DEF LwtInductive

LEMMA ExecStartKeeps ==
  ASSUME LwtInductive, ExecStart
  PROVE  LwtInductive'
<1>1. LwtTypeOK /\ LwtTypeOK' /\ exec.at = "start"
  BY ExecKeepsType DEF LwtInductive, ExecStart
<1>0. PICK l, t : l = exec.l /\ t = exec.t
  OBVIOUS
<1>2. l \in Live /\ l \in Process /\ lwt[l].ref = 1 /\ Holders(l) = {}
  BY <1>0, <1>1, ExecAlone DEF LwtInductive, ExecOK, Live
<1>3. t \in Task /\ task[t].st = "created" /\ task[t].lwp = l /\ t \in lwt[l].group
  BY <1>0, <1>1 DEF LwtInductive, ExecOK
<1>4. /\ task' = [task EXCEPT ![t].st = "started"] /\ UNCHANGED lwt
      /\ exec' = [exec EXCEPT !.at = "count"]
  BY <1>0 DEF ExecStart
<1>5. exec'.at = "count" /\ exec'.l = l /\ exec'.t = t
  BY <1>0, <1>1, <1>4 DEF LwtTypeOK
<1>6. \A x \in Process : InExec(x) = (x = l)
  BY <1>0, <1>1 DEF InExec
<1>7. /\ task'[t].st = "started" /\ task'[t].lwp = l /\ task'[t].starts = task[t].starts
      /\ \A u \in Task \ {t} : task'[u] = task[u]
  BY <1>1, <1>3, <1>4 DEF LwtTypeOK
<1>8. Live' = Live
  BY <1>4 DEF Live
<1>9. \A x : x # l => Holders(x)' = Holders(x)
  BY <1>3, <1>7 DEF Holders
<1>10. Holders(l)' = {t}
  BY <1>2, <1>3, <1>7 DEF Holders
<1>11. Cardinality(Holders(l)') = 1
  BY <1>10, FS_Singleton
<1>12. \A x \in Process : ~ InExec(x)'
  BY <1>5 DEF InExec
<1>13. CountExact'
  <2>1. ASSUME NEW x \in Live
        PROVE  /\ lwt[x].ref = Cardinality(Holders(x)') + (IF InExec(x)' THEN 1 ELSE 0)
               /\ lwt[x].ref > 0
    <3>1. CASE x = l
      BY <1>2, <1>11, <1>12, <3>1
    <3>2. CASE x # l
      BY <1>6, <1>9, <1>12, <3>2 DEF LwtInductive, CountExact, Live
    <3> QED BY <3>1, <3>2
  <2>2. \A x \in Process \ Live' : Holders(x)' = {}
    BY <1>2, <1>8, <1>9 DEF LwtInductive, CountExact
  <2>3. \A u \in Task : task'[u].st \in {"counted", "started", "exited"}
                          => u \in lwt[task'[u].lwp].group
    BY <1>3, <1>7 DEF LwtInductive, CountExact
  <2> QED BY <1>4, <1>8, <2>1, <2>2, <2>3 DEF CountExact
<1>14. HoldersLive'
  BY <1>2, <1>7, <1>8 DEF LwtInductive, HoldersLive
<1>15. GroupOwn'
  <2>1. ASSUME NEW x \in Live, NEW u \in lwt[x].group
        PROVE  task'[u].lwp = x /\ task'[u].st # "none"
    <3>1. u \in Task
      BY <1>1, <2>1 DEF Live, LwtTypeOK
    <3>2. task[u].lwp = x /\ task[u].st # "none"
      BY <2>1 DEF LwtInductive, GroupOwn
    <3> QED BY <1>3, <1>7, <3>1, <3>2
  <2> QED BY <1>4, <1>8, <2>1 DEF GroupOwn
<1>16. StartsOK'
  <2>1. \A u \in Task : /\ task'[u].starts = task[u].starts
                        /\ task[u].st \in {"started", "counted"} => task'[u].st = task[u].st
    BY <1>3, <1>7
  <2> QED BY <2>1 DEF LwtInductive, StartsOK
<1>17. ExecOK'
  BY <1>2, <1>4, <1>5, <1>8 DEF ExecOK
<1> QED BY <1>1, <1>13, <1>14, <1>15, <1>16, <1>17 DEF LwtInductive

(* The count is 1 before it is set to 1.                                   *)
LEMMA ExecCountKeeps ==
  ASSUME LwtInductive, ExecCount
  PROVE  LwtInductive'
<1>1. LwtTypeOK /\ LwtTypeOK' /\ exec.at = "count"
  BY ExecKeepsType DEF LwtInductive, ExecCount
<1>2. exec.l \in Process /\ lwt[exec.l].ref = 1
  BY <1>1 DEF LwtInductive, ExecOK, Live
<1>3. lwt' = [lwt EXCEPT ![exec.l].ref = 1] /\ exec' = NoExec /\ UNCHANGED task
  BY DEF ExecCount
<1>4. UNCHANGED lwt
  BY <1>1, <1>2, <1>3 DEF LwtTypeOK
<1>5. \A l : InExec(l) = FALSE /\ InExec(l)' = FALSE
  BY <1>1, <1>3 DEF InExec, NoExec
<1>6. Live' = Live /\ \A l : Holders(l)' = Holders(l)
  BY <1>3, <1>4 DEF Live, Holders
<1>7. CountExact'
  BY <1>3, <1>4, <1>5, <1>6 DEF LwtInductive, CountExact
<1>8. HoldersLive' /\ GroupOwn' /\ StartsOK' /\ ExecOK'
  BY <1>3, <1>4, <1>6 DEF LwtInductive, HoldersLive, GroupOwn, StartsOK, ExecOK, NoExec
<1> QED BY <1>1, <1>7, <1>8 DEF LwtInductive

(***************************************************************************)
(* The steps of the threads of a process.                                  *)
(***************************************************************************)
(* A thread that runs does so in a process there is, and not in that of an *)
(* exec in progress.                                                       *)
LEMMA RunnerFacts ==
  ASSUME LwtInductive, Orderly, NEW t \in Task, TasksRun, task[t].st \in Holding
  PROVE  \E l \in Process :
           /\ task[t].lwp = l /\ l \in Live /\ t \in Holders(l) /\ t \in lwt[l].group
           /\ l # Nobody /\ exec.at # "count" /\ (exec.at # "idle" => l # exec.l)
<1>1. exec.at # "count"
  BY DEF TasksRun, Orderly
<1>2. exec.at \in {"idle", "load", "link", "start", "count"}
  BY DEF LwtInductive, LwtTypeOK
<1> QED BY <1>1, <1>2, HolderFacts, LwtAssumption

LEMMA SubCreateKeeps ==
  ASSUME LwtInductive, Orderly, NEW t \in Task, NEW u \in Task, SubCreate(t, u)
  PROVE  LwtInductive'
<1>1. LwtTypeOK /\ LwtTypeOK'
  BY TaskKeepsType DEF LwtInductive
<1>2. TasksRun /\ task[t].st = "started" /\ task[t].starts = Nobody /\ task[u].st = "none"
  BY DEF SubCreate, Runs
<1>3. PICK l \in Process :
        /\ task[t].lwp = l /\ l \in Live /\ t \in Holders(l) /\ t \in lwt[l].group
        /\ l # Nobody /\ exec.at # "count" /\ (exec.at # "idle" => l # exec.l)
  BY <1>2, RunnerFacts DEF Holding
<1>4. /\ task' = [task EXCEPT ![u] = [st |-> "created", lwp |-> l, starts |-> Nobody]]
      /\ lwt' = [lwt EXCEPT ![l].group = @ \cup {u}]
      /\ UNCHANGED exec
  BY <1>3 DEF SubCreate
<1>5. /\ task'[u].st = "created" /\ task'[u].lwp = l /\ task'[u].starts = Nobody
      /\ \A v \in Task \ {u} : task'[v] = task[v]
  BY <1>1, <1>4 DEF LwtTypeOK
<1>6. /\ lwt'[l].live = lwt[l].live /\ lwt'[l].ref = lwt[l].ref
      /\ lwt'[l].group = lwt[l].group \cup {u}
      /\ \A x \in Process \ {l} : lwt'[x] = lwt[x]
  BY <1>1, <1>3, <1>4 DEF LwtTypeOK
<1>7. /\ Live' = Live
      /\ \A x : Holders(x)' = Holders(x) /\ InExec(x)' = InExec(x)
  BY <1>2, <1>3, <1>4, <1>5, <1>6 DEF Live, Holders, InExec
<1>8. \A v \in Task : task[v].st \in Holding => task[v].lwp \in Process /\ v # u
  BY <1>2, HolderFacts DEF Holding
<1>9. CountExact'
  <2>1. \A x \in Live : /\ lwt'[x].ref = Cardinality(Holders(x)') + (IF InExec(x)' THEN 1 ELSE 0)
                        /\ lwt'[x].ref > 0
    BY <1>6, <1>7 DEF LwtInductive, CountExact, Live
  <2>2. \A x \in Process \ Live : Holders(x)' = {}
    BY <1>7 DEF LwtInductive, CountExact
  <2>3. \A v \in Task : task'[v].st \in {"counted", "started", "exited"}
                          => v \in lwt'[task'[v].lwp].group
    BY <1>5, <1>6, <1>8 DEF LwtInductive, CountExact, Holding
  <2> QED BY <1>7, <2>1, <2>2, <2>3 DEF CountExact
<1>10. HoldersLive'
  BY <1>5, <1>7 DEF LwtInductive, HoldersLive, Holding
<1>11. GroupOwn'
  <2>1. ASSUME NEW x \in Live, NEW v \in lwt'[x].group
        PROVE  task'[v].lwp = x /\ task'[v].st # "none"
    <3>1. CASE v = u /\ x = l
      BY <1>5, <3>1
    <3>2. CASE ~ (v = u /\ x = l)
      <4>1. v \in lwt[x].group /\ v \in Task
        BY <1>1, <1>6, <2>1, <3>2 DEF Live, LwtTypeOK
      <4>2. task[v].lwp = x /\ task[v].st # "none"
        BY <4>1 DEF LwtInductive, GroupOwn
      <4> QED BY <1>2, <1>5, <4>1, <4>2
    <3> QED BY <3>1, <3>2
  <2> QED BY <1>7, <2>1 DEF GroupOwn
<1>12. StartsOK'
  BY <1>2, <1>5 DEF LwtInductive, StartsOK
<1>13. ExecOK'
  <2>1. exec.at # "idle" => exec.l \in Live /\ lwt'[exec.l] = lwt[exec.l] /\ lwt[exec.l].ref = 1
    BY <1>3, <1>6 DEF LwtInductive, ExecOK, Live
  <2>2. exec.at \in {"link", "start"} => task'[exec.t] = task[exec.t]
    BY <1>2, <1>5 DEF LwtInductive, ExecOK
  <2> QED BY <1>4, <1>7, <2>1, <2>2 DEF LwtInductive, ExecOK
<1> QED BY <1>1, <1>9, <1>10, <1>11, <1>12, <1>13 DEF LwtInductive

LEMMA SubCountKeeps ==
  ASSUME LwtInductive, Orderly, NEW t \in Task, NEW u \in Task, SubCount(t, u)
  PROVE  LwtInductive'
<1>1. LwtTypeOK /\ LwtTypeOK'
  BY TaskKeepsType DEF LwtInductive
<1>2. TasksRun /\ task[t].st = "started" /\ task[t].starts = Nobody /\ task[u].st = "created"
  BY DEF SubCount, Runs
<1>3. PICK l \in Process :
        /\ task[t].lwp = l /\ l \in Live /\ t \in Holders(l) /\ t \in lwt[l].group
        /\ l # Nobody /\ exec.at # "count" /\ (exec.at # "idle" => l # exec.l)
  BY <1>2, RunnerFacts DEF Holding
<1>4. /\ task' = [task EXCEPT ![t].starts = u, ![u].st = "counted"]
      /\ lwt' = [lwt EXCEPT ![l].ref = @ + 1] /\ UNCHANGED exec
      /\ u \in lwt[l].group
  BY <1>3 DEF SubCount
<1>5. task[u].lwp = l
  BY <1>3, <1>4 DEF LwtInductive, GroupOwn
<1>6. /\ task'[t].st = "started" /\ task'[t].lwp = l /\ task'[t].starts = u
      /\ task'[u].st = "counted" /\ task'[u].lwp = l /\ task'[u].starts = task[u].starts
      /\ \A v \in Task \ {t, u} : task'[v] = task[v]
  BY <1>1, <1>2, <1>3, <1>4, <1>5 DEF LwtTypeOK
<1>7. /\ lwt'[l].live = lwt[l].live /\ lwt'[l].ref = lwt[l].ref + 1
      /\ lwt'[l].group = lwt[l].group
      /\ \A x \in Process \ {l} : lwt'[x] = lwt[x]
  BY <1>1, <1>3, <1>4 DEF LwtTypeOK
<1>8. Live' = Live /\ \A x : InExec(x)' = InExec(x)
  BY <1>3, <1>4, <1>7 DEF Live, InExec
<1>9. /\ Holders(l)' = Holders(l) \cup {u} /\ u \notin Holders(l)
      /\ \A x : x # l => Holders(x)' = Holders(x)
  BY <1>2, <1>3, <1>5, <1>6 DEF Holders
<1>10. Cardinality(Holders(l)') = Cardinality(Holders(l)) + 1
  BY <1>9, HoldersFinite, FS_AddElement
<1>11. CountExact'
  <2>1. ASSUME NEW x \in Live
        PROVE  /\ lwt'[x].ref = Cardinality(Holders(x)') + (IF InExec(x)' THEN 1 ELSE 0)
               /\ lwt'[x].ref > 0
    <3>1. /\ lwt[x].ref = Cardinality(Holders(x)) + (IF InExec(x) THEN 1 ELSE 0)
          /\ lwt[x].ref > 0 /\ lwt[x].ref \in Nat
      BY <1>1 DEF LwtInductive, CountExact, LwtTypeOK, Live
    <3>2. CASE x = l
      BY <1>7, <1>8, <1>10, <3>1, <3>2, HoldersFinite
    <3>3. CASE x # l
      BY <1>7, <1>8, <1>9, <3>1, <3>3 DEF Live
    <3> QED BY <3>2, <3>3
  <2>2. \A x \in Process \ Live : Holders(x)' = {}
    BY <1>3, <1>9 DEF LwtInductive, CountExact
  <2>3. ASSUME NEW v \in Task, task'[v].st \in {"counted", "started", "exited"}
        PROVE  v \in lwt'[task'[v].lwp].group
    <3>1. CASE v \in {t, u}
      <4>1. task'[v].lwp = l
        BY <1>6, <3>1
      <4>2. v \in lwt[l].group
        BY <1>3, <1>4, <3>1
      <4> QED BY <1>7, <4>1, <4>2
    <3>2. CASE v \notin {t, u}
      <4>1. task'[v] = task[v]
        BY <1>6, <3>2
      <4>2. task[v].lwp \in Process /\ v \in lwt[task[v].lwp].group
        BY <2>3, <4>1, HolderFacts DEF Holding
      <4> QED BY <1>7, <4>1, <4>2
    <3> QED BY <3>1, <3>2
  <2> QED BY <1>8, <2>1, <2>2, <2>3 DEF CountExact
<1>12. HoldersLive'
  BY <1>3, <1>6, <1>8 DEF LwtInductive, HoldersLive
<1>13. GroupOwn'
  <2>1. ASSUME NEW x \in Live, NEW v \in lwt'[x].group
        PROVE  task'[v].lwp = x /\ task'[v].st # "none"
    <3>1. v \in lwt[x].group /\ v \in Task
      BY <1>1, <1>7, <2>1 DEF Live, LwtTypeOK
    <3>2. task[v].lwp = x /\ task[v].st # "none"
      BY <3>1 DEF LwtInductive, GroupOwn
    <3> QED BY <1>3, <1>5, <1>6, <3>1, <3>2
  <2> QED BY <1>8, <2>1 DEF GroupOwn
<1>14. StartsOK'
  <2>1. \A v \in Task : task[v].starts # u
    BY <1>2, LwtAssumption DEF LwtInductive, StartsOK
  <2>2. t # u /\ task[u].starts = Nobody /\ u # Nobody
    BY <1>2, LwtAssumption DEF LwtInductive, StartsOK
  <2>3. \A v \in Task : v # t => task'[v].starts = task[v].starts
    BY <1>6
  <2>4. \A v \in Task : v # u => task'[v].st = task[v].st
    BY <1>2, <1>6
  <2>5. ASSUME NEW v \in Task, task'[v].starts # Nobody
        PROVE  /\ task'[v].starts \in Task /\ task'[v].st = "started"
               /\ task'[task'[v].starts].st = "counted"
               /\ \A w \in Task : task'[w].starts = task'[v].starts => w = v
    <3>1. CASE v = t
      BY <1>6, <2>1, <2>3, <3>1
    <3>2. CASE v # t
      BY <1>6, <2>1, <2>2, <2>3, <2>4, <2>5, <3>2 DEF LwtInductive, StartsOK
    <3> QED BY <3>1, <3>2
  <2> QED BY <2>5 DEF StartsOK
<1>15. ExecOK'
  <2>1. exec.at # "idle" => exec.l \in Live /\ lwt'[exec.l] = lwt[exec.l] /\ lwt[exec.l].ref = 1
    BY <1>3, <1>7 DEF LwtInductive, ExecOK, Live
  <2>2. exec.at \in {"link", "start"} => exec.t \notin {t, u} /\ exec.t \in Task
    BY <1>2, <1>3, <1>5 DEF LwtInductive, ExecOK
  <2>3. exec.at \in {"link", "start"} => task'[exec.t] = task[exec.t]
    BY <1>6, <2>2
  <2>4. exec.at = "start" => lwt'[exec.l].group = lwt[exec.l].group
    BY <2>1
  <2> QED BY <1>4, <1>8, <2>1, <2>3, <2>4 DEF LwtInductive, ExecOK
<1> QED BY <1>1, <1>11, <1>12, <1>13, <1>14, <1>15 DEF LwtInductive

LEMMA SubStartKeeps ==
  ASSUME LwtInductive, Orderly, NEW t \in Task, SubStart(t)
  PROVE  LwtInductive'
<1>1. LwtTypeOK /\ LwtTypeOK'
  BY TaskKeepsType DEF LwtInductive
<1>2. TasksRun /\ task[t].st = "started" /\ task[t].starts # Nobody
  BY DEF SubStart, Runs
<1>3. PICK u \in Task :
        /\ u = task[t].starts /\ task[u].st = "counted"
        /\ \A v \in Task : task[v].starts = u => v = t
  BY <1>2 DEF LwtInductive, StartsOK
<1>4. exec.at # "count"
  BY <1>2, RunnerFacts DEF Holding
<1>5. /\ task' = [task EXCEPT ![t].starts = Nobody, ![u].st = "started"]
      /\ UNCHANGED <<lwt, exec>>
  BY <1>3 DEF SubStart
<1>6. /\ t # u /\ task'[t].st = "started" /\ task'[t].lwp = task[t].lwp /\ task'[t].starts = Nobody
      /\ task'[u].st = "started" /\ task'[u].lwp = task[u].lwp /\ task'[u].starts = task[u].starts
      /\ \A v \in Task \ {t, u} : task'[v] = task[v]
  BY <1>1, <1>2, <1>3, <1>5 DEF LwtTypeOK
<1>7. \A v \in Task : /\ task'[v].lwp = task[v].lwp
                      /\ task'[v].st \in Holding <=> task[v].st \in Holding
                      /\ v # u => task'[v].st = task[v].st
                      /\ v # t => task'[v].starts = task[v].starts
  BY <1>2, <1>3, <1>6 DEF Holding
<1>8. Live' = Live /\ \A x : Holders(x)' = Holders(x) /\ InExec(x)' = InExec(x)
  BY <1>5, <1>7 DEF Live, Holders, Holding, InExec
<1>9. CountExact'
  BY <1>5, <1>7, <1>8 DEF LwtInductive, CountExact, Holding
<1>10. HoldersLive'
  BY <1>7, <1>8 DEF LwtInductive, HoldersLive
<1>11. GroupOwn'
  <2>1. ASSUME NEW x \in Live, NEW v \in lwt[x].group
        PROVE  task'[v].lwp = x /\ task'[v].st # "none"
    <3>1. v \in Task
      BY <1>1, <2>1 DEF Live, LwtTypeOK
    <3>2. task[v].lwp = x /\ task[v].st # "none"
      BY <2>1 DEF LwtInductive, GroupOwn
    <3> QED BY <1>6, <1>7, <3>1, <3>2
  <2> QED BY <1>5, <1>8, <2>1 DEF GroupOwn
<1>12. StartsOK'
  <2>1. ASSUME NEW v \in Task, task'[v].starts # Nobody
        PROVE  /\ task'[v].starts \in Task /\ task'[v].st = "started"
               /\ task'[task'[v].starts].st = "counted"
               /\ \A w \in Task : task'[w].starts = task'[v].starts => w = v
    <3>1. v # t /\ task'[v].starts = task[v].starts
      BY <1>6, <1>7, <2>1
    <3>2. /\ task[v].starts \in Task /\ task[v].starts # u /\ task[v].st = "started"
          /\ task[task[v].starts].st = "counted"
          /\ \A w \in Task : task[w].starts = task[v].starts => w = v
      BY <1>3, <2>1, <3>1 DEF LwtInductive, StartsOK
    <3>3. task'[v].st = "started" /\ task'[task[v].starts].st = "counted"
      BY <1>6, <1>7, <3>2
    <3>4. \A w \in Task : task'[w].starts = task[v].starts => w = v
      BY <1>6, <1>7, <2>1, <3>1, <3>2
    <3> QED BY <3>1, <3>2, <3>3, <3>4
  <2> QED BY <2>1 DEF StartsOK
<1>13. ExecOK'
  <2>1. exec.at \in {"link", "start"} => exec.t \in Task /\ exec.t # u
    BY <1>3 DEF LwtInductive, ExecOK
  <2>2. exec.at \in {"link", "start"} =>
          task'[exec.t].st = task[exec.t].st /\ task'[exec.t].lwp = task[exec.t].lwp
    BY <1>7, <2>1
  <2> QED BY <1>5, <1>8, <2>2 DEF LwtInductive, ExecOK
<1> QED BY <1>1, <1>9, <1>10, <1>11, <1>12, <1>13 DEF LwtInductive

LEMMA ExitKeeps ==
  ASSUME LwtInductive, NEW t \in Task, Exit(t)
  PROVE  LwtInductive'
<1>1. LwtTypeOK /\ LwtTypeOK'
  BY TaskKeepsType DEF LwtInductive
<1>2. task[t].st = "started" /\ task[t].starts = Nobody
  BY DEF Exit, Runs
<1>3. task' = [task EXCEPT ![t].st = "exited"] /\ UNCHANGED <<lwt, exec>>
  BY DEF Exit
<1>4. /\ task'[t].st = "exited" /\ task'[t].lwp = task[t].lwp /\ task'[t].starts = Nobody
      /\ \A v \in Task \ {t} : task'[v] = task[v]
  BY <1>1, <1>2, <1>3 DEF LwtTypeOK
<1>5. \A v \in Task : /\ task'[v].lwp = task[v].lwp /\ task'[v].starts = task[v].starts
                      /\ task'[v].st \in Holding <=> task[v].st \in Holding
                      /\ v # t => task'[v].st = task[v].st
  BY <1>2, <1>4 DEF Holding
<1>6. Live' = Live /\ \A x : Holders(x)' = Holders(x) /\ InExec(x)' = InExec(x)
  BY <1>3, <1>5 DEF Live, Holders, Holding, InExec
<1>7. CountExact'
  BY <1>3, <1>5, <1>6 DEF LwtInductive, CountExact, Holding
<1>8. HoldersLive'
  BY <1>5, <1>6 DEF LwtInductive, HoldersLive
<1>9. GroupOwn'
  <2>1. ASSUME NEW x \in Live, NEW v \in lwt[x].group
        PROVE  task'[v].lwp = x /\ task'[v].st # "none"
    <3>1. v \in Task
      BY <1>1, <2>1 DEF Live, LwtTypeOK
    <3>2. task[v].lwp = x /\ task[v].st # "none"
      BY <2>1 DEF LwtInductive, GroupOwn
    <3> QED BY <1>4, <1>5, <3>1, <3>2
  <2> QED BY <1>3, <1>6, <2>1 DEF GroupOwn
<1>10. StartsOK'
  <2>1. ASSUME NEW v \in Task, task[v].starts # Nobody
        PROVE  /\ task[v].starts \in Task /\ task'[v].st = "started"
               /\ task'[task[v].starts].st = "counted"
               /\ \A w \in Task : task[w].starts = task[v].starts => w = v
    <3>1. /\ task[v].starts \in Task /\ task[v].st = "started"
          /\ task[task[v].starts].st = "counted"
          /\ \A w \in Task : task[w].starts = task[v].starts => w = v
      BY <2>1 DEF LwtInductive, StartsOK
    <3>2. v # t /\ task[v].starts # t
      BY <1>2, <2>1, <3>1
    <3> QED BY <1>5, <3>1, <3>2
  <2> QED BY <1>5, <2>1 DEF StartsOK
<1>11. ExecOK'
  <2>1. exec.at \in {"link", "start"} => exec.t \in Task /\ exec.t # t
    BY <1>2 DEF LwtInductive, ExecOK
  <2> QED BY <1>3, <1>5, <1>6, <2>1 DEF LwtInductive, ExecOK
<1> QED BY <1>1, <1>7, <1>8, <1>9, <1>10, <1>11 DEF LwtInductive

(* The last holder leaves an empty process behind, which is freed.         *)
LEMMA CleanupKeeps ==
  ASSUME LwtInductive, Orderly, NEW t \in Task, Cleanup(t)
  PROVE  LwtInductive'
<1>1. LwtTypeOK /\ LwtTypeOK'
  BY TaskKeepsType DEF LwtInductive
<1>2. TasksRun /\ task[t].st = "exited"
  BY DEF Cleanup
<1>3. PICK l \in Process :
        /\ task[t].lwp = l /\ l \in Live /\ t \in Holders(l) /\ t \in lwt[l].group
        /\ l # Nobody /\ exec.at # "count" /\ (exec.at # "idle" => l # exec.l)
  BY <1>2, RunnerFacts DEF Holding
<1>4. lwt[l].ref = Cardinality(Holders(l)) /\ lwt[l].ref > 0 /\ lwt[l].ref \in Nat
  <2>1. ~ InExec(l)
    BY <1>3 DEF InExec
  <2>2. lwt[l].ref \in Nat
    BY <1>1 DEF LwtTypeOK
  <2> QED BY <1>3, <2>1, <2>2, HoldersFinite DEF LwtInductive, CountExact
<1>5. task' = [task EXCEPT ![t] = NoTask] /\ UNCHANGED exec
  BY DEF Cleanup
<1>6. /\ task'[t].st = "none" /\ task'[t].lwp = Nobody /\ task'[t].starts = Nobody
      /\ \A v \in Task \ {t} : task'[v] = task[v]
  BY <1>1, <1>5 DEF LwtTypeOK, NoTask
<1>7. /\ lwt'[l].live = (lwt[l].ref # 1) /\ lwt'[l].ref = lwt[l].ref - 1
      /\ lwt'[l].group = lwt[l].group \ {t}
      /\ \A x \in Process \ {l} : lwt'[x] = lwt[x]
  <2> DEFINE less == [lwt[l] EXCEPT !.group = @ \ {t}, !.ref = IF @ > 0 THEN @ - 1 ELSE 0]
             rest == [less EXCEPT !.live = @ /\ ~ (lwt[l].ref = 1)]
  <2>1. lwt' = [lwt EXCEPT ![l] = rest]
    BY <1>3 DEF Cleanup
  <2>2. lwt[l] \in [live : BOOLEAN, ref : Nat, pid : Pid, group : SUBSET Task]
    BY <1>1 DEF LwtTypeOK
  <2>3. lwt[l].live
    BY <1>3 DEF Live
  <2>4. less.live /\ less.ref = lwt[l].ref - 1 /\ less.group = lwt[l].group \ {t}
    BY <1>4, <2>2, <2>3
  <2>5. less \in [live : BOOLEAN, ref : Nat, pid : Pid, group : SUBSET Task]
    <3>1. (IF lwt[l].ref > 0 THEN lwt[l].ref - 1 ELSE 0) \in Nat
      BY <2>2
    <3> QED BY <2>2, <3>1
  <2>6. /\ rest.live = (lwt[l].ref # 1) /\ rest.ref = lwt[l].ref - 1
        /\ rest.group = lwt[l].group \ {t}
    <3> HIDE DEF less
    <3> QED BY <2>4, <2>5
  <2>7. lwt'[l] = rest /\ \A x \in Process \ {l} : lwt'[x] = lwt[x]
    <3> HIDE DEF rest
    <3> QED BY <1>1, <2>1 DEF LwtTypeOK
  <2> HIDE DEF rest
  <2> QED BY <2>6, <2>7
<1>8. Live' = IF lwt[l].ref = 1 THEN Live \ {l} ELSE Live
  BY <1>3, <1>7 DEF Live
<1>9. /\ Holders(l)' = Holders(l) \ {t}
      /\ \A x \in Process : x # l => Holders(x)' = Holders(x)
  BY <1>2, <1>3, <1>6 DEF Holders
<1>10. Cardinality(Holders(l)') = lwt[l].ref - 1
  BY <1>3, <1>4, <1>9, HoldersFinite, FS_RemoveElement
<1>11. ASSUME lwt[l].ref = 1
       PROVE  Holders(l)' = {}
  BY <1>10, <1>11, HoldersFiniteNext, FS_EmptySet
<1>12. \A x \in Process : InExec(x)' = InExec(x)
  BY <1>5 DEF InExec
<1>13. \A v \in Task : v # t /\ task[v].st \in Holding =>
         task[v].lwp \in Live /\ v \in lwt[task[v].lwp].group /\ task[v].lwp \in Live'
  <2>1. ASSUME NEW v \in Task, v # t, task[v].st \in Holding
        PROVE  task[v].lwp \in Live /\ v \in lwt[task[v].lwp].group /\ task[v].lwp \in Live'
    <3>1. task[v].lwp \in Live /\ v \in lwt[task[v].lwp].group /\ v \in Holders(task[v].lwp)
      BY <2>1, HolderFacts
    <3>2. task[v].lwp = l => lwt[l].ref # 1
      BY <1>9, <1>11, <2>1, <3>1
    <3> QED BY <1>8, <3>1, <3>2
  <2> QED BY <2>1
<1>14. CountExact'
  <2>1. ASSUME NEW x \in Live'
        PROVE  /\ lwt'[x].ref = Cardinality(Holders(x)') + (IF InExec(x)' THEN 1 ELSE 0)
               /\ lwt'[x].ref > 0
    <3>1. x \in Live /\ x \in Process /\ (x = l => lwt[l].ref # 1)
      BY <1>8, <2>1 DEF Live
    <3>2. CASE x = l
      <4>1. ~ InExec(l)'
        BY <1>3, <1>12 DEF InExec
      <4> QED BY <1>4, <1>7, <1>10, <3>1, <3>2, <4>1
    <3>3. CASE x # l
      BY <1>7, <1>9, <1>12, <3>1, <3>3 DEF LwtInductive, CountExact
    <3> QED BY <3>2, <3>3
  <2>2. ASSUME NEW x \in Process \ Live'
        PROVE  Holders(x)' = {}
    <3>1. CASE x = l
      BY <1>3, <1>8, <1>11, <2>2, <3>1
    <3>2. CASE x # l
      BY <1>8, <1>9, <2>2, <3>2 DEF LwtInductive, CountExact
    <3> QED BY <3>1, <3>2
  <2>3. ASSUME NEW v \in Task, task'[v].st \in {"counted", "started", "exited"}
        PROVE  v \in lwt'[task'[v].lwp].group
    <3>1. v # t /\ task'[v] = task[v]
      BY <1>6, <2>3
    <3>2. task[v].lwp \in Process /\ v \in lwt[task[v].lwp].group
      BY <1>13, <2>3, <3>1 DEF Holding, Live
    <3> QED BY <1>7, <3>1, <3>2
  <2> QED BY <2>1, <2>2, <2>3 DEF CountExact
<1>15. HoldersLive'
  BY <1>6, <1>13 DEF HoldersLive, Holding
<1>16. GroupOwn'
  <2>1. ASSUME NEW x \in Live', NEW v \in lwt'[x].group
        PROVE  task'[v].lwp = x /\ task'[v].st # "none"
    <3>1. x \in Live /\ x \in Process /\ v \in lwt[x].group /\ (x = l => v # t)
      BY <1>7, <1>8, <2>1 DEF Live
    <3>2. task[v].lwp = x /\ task[v].st # "none" /\ v \in Task
      BY <1>1, <3>1 DEF LwtInductive, GroupOwn, LwtTypeOK
    <3>3. v # t
      BY <1>3, <3>1, <3>2
    <3> QED BY <1>6, <3>2, <3>3
  <2> QED BY <2>1 DEF GroupOwn
<1>17. StartsOK'
  <2>1. ASSUME NEW v \in Task, task'[v].starts # Nobody
        PROVE  /\ task'[v].starts \in Task /\ task'[v].st = "started"
               /\ task'[task'[v].starts].st = "counted"
               /\ \A w \in Task : task'[w].starts = task'[v].starts => w = v
    <3>1. v # t /\ task'[v] = task[v]
      BY <1>6, <2>1
    <3>2. /\ task[v].starts \in Task /\ task[v].starts # t /\ task[v].st = "started"
          /\ task[task[v].starts].st = "counted"
          /\ \A w \in Task : task[w].starts = task[v].starts => w = v
      BY <1>2, <2>1, <3>1 DEF LwtInductive, StartsOK
    <3> QED BY <1>6, <2>1, <3>1, <3>2
  <2> QED BY <2>1 DEF StartsOK
<1>18. ExecOK'
  <2>1. exec.at # "idle" => exec.l \in Live' /\ lwt'[exec.l] = lwt[exec.l] /\ lwt[exec.l].ref = 1
    BY <1>3, <1>7, <1>8 DEF LwtInductive, ExecOK, Live
  <2>2. exec.at \in {"link", "start"} => exec.t \in Task /\ exec.t # t
    BY <1>2 DEF LwtInductive, ExecOK
  <2>3. exec.at \in {"link", "start"} => task'[exec.t] = task[exec.t]
    BY <1>6, <2>2
  <2> QED BY <1>5, <2>1, <2>3 DEF LwtInductive, ExecOK
<1> QED BY <1>1, <1>14, <1>15, <1>16, <1>17, <1>18 DEF LwtInductive

(***************************************************************************)
(* The invariant, and the theorems.                                        *)
(***************************************************************************)
LEMMA LwtInitInductive ==
  ASSUME LwtInit
  PROVE  LwtInductive
<1>1. LwtTypeOK
  BY LwtAssumption DEF LwtInit, LwtTypeOK, NoTask, NoExec, Pid
<1>2. Live = {} /\ \A l : Holders(l) = {}
  BY DEF LwtInit, Live, Holders, NoTask
<1>3. \A t \in Task : task[t].st = "none" /\ task[t].starts = Nobody
  BY DEF LwtInit, NoTask
<1>4. CountExact /\ HoldersLive /\ GroupOwn /\ StartsOK
  BY <1>2, <1>3 DEF CountExact, HoldersLive, Holding, GroupOwn, StartsOK
<1>5. ExecOK
  BY DEF LwtInit, ExecOK, NoExec
<1> QED BY <1>1, <1>4, <1>5 DEF LwtInductive

LEMMA LwtNextKeeps ==
  ASSUME LwtInductive, Orderly, [LwtNext]_lwtvars
  PROVE  LwtInductive'
<1>1. CASE New
  BY <1>1, NewKeeps
<1>2. CASE ExecLoad
  BY <1>2, ExecLoadKeeps
<1>3. CASE ExecLink
  BY <1>3, ExecLinkKeeps
<1>4. CASE ExecStart
  BY <1>4, ExecStartKeeps
<1>5. CASE ExecCount
  BY <1>5, ExecCountKeeps
<1>6. ASSUME NEW t \in Task, SubStart(t) \/ Exit(t) \/ Cleanup(t)
      PROVE  LwtInductive'
  BY <1>6, SubStartKeeps, ExitKeeps, CleanupKeeps
<1>7. ASSUME NEW t \in Task, NEW u \in Task, SubCreate(t, u) \/ SubCount(t, u)
      PROVE  LwtInductive'
  BY <1>7, SubCreateKeeps, SubCountKeeps
<1>8. CASE UNCHANGED lwtvars
  <2>1. UNCHANGED <<pids, lwt, task, exec>>
    BY <1>8 DEF lwtvars
  <2>2. Live' = Live /\ \A l : Holders(l)' = Holders(l) /\ InExec(l)' = InExec(l)
    BY <2>1 DEF Live, Holders, InExec
  <2>3. LwtTypeOK' /\ CountExact'
    BY <2>1, <2>2 DEF LwtInductive, LwtTypeOK, CountExact
  <2>4. HoldersLive' /\ GroupOwn' /\ StartsOK' /\ ExecOK'
    BY <2>1, <2>2 DEF LwtInductive, HoldersLive, GroupOwn, StartsOK, ExecOK
  <2> QED BY <2>3, <2>4 DEF LwtInductive
<1> QED BY <1>1, <1>2, <1>3, <1>4, <1>5, <1>6, <1>7, <1>8 DEF LwtNext

(* The invariant of the reference counts holds in every state.             *)
THEOREM LwtInductiveHolds ==
  ASSUME Orderly
  PROVE  LwtSpec => []LwtInductive
<1>1. LwtInit => LwtInductive
  BY LwtInitInductive
<1>2. LwtInductive /\ [LwtNext]_lwtvars => LwtInductive'
  BY LwtNextKeeps
<1> QED BY <1>1, <1>2, PTL DEF LwtSpec

(* lwt_ref_inc, lwt_ref_dec and the two clean-up functions keep the count  *)
(* of a process equal to the number of its threads that are counted and not*)
(* cleaned up, and to 1 in its exec: it is freed with the last of them, and*)
(* no thread runs or is cleaned up in a process that has been freed.       *)
THEOREM CountIsExact ==
  ASSUME Orderly
  PROVE  LwtSpec => []CountExact
<1>1. LwtInductive => CountExact
  BY DEF LwtInductive
<1> QED BY <1>1, LwtInductiveHolds, PTL

(* The variables of the processes keep their types: among others, the pid  *)
(* that rt_lwt_new gives is a slot of the map.                             *)
THEOREM LwtTypeCorrect ==
  ASSUME Orderly
  PROVE  LwtSpec => []LwtTypeOK
<1>1. LwtInductive => LwtTypeOK
  BY DEF LwtInductive
<1> QED BY <1>1, LwtInductiveHolds, PTL

(***************************************************************************)
(* The map of process ids, for any number of processes and with execs that *)
(* fail: it leads to every process there is, as long as rt_lwt_new takes   *)
(* no slot that is in use, as it does in lwt_pid_reuse.                    *)
(***************************************************************************)
PidsInductive == LwtInductive /\ PidsLead

(* A step takes an empty slot, or empties one.                             *)
PidStep == \A p \in Pid : pids'.map[p] # pids.map[p] => Nobody \in {pids.map[p], pids'.map[p]}

(* Most steps leave the map, and who lives under which pid, as they are;   *)
(* an exec that fails may free its process.                                *)
LEMMA PidsKept ==
  ASSUME PidsInductive, LwtInductive', UNCHANGED pids,
         \A x \in Process : (lwt'[x].live => lwt[x].live) /\ lwt'[x].pid = lwt[x].pid
  PROVE  PidsInductive'
<1>1. \A x \in Live' : x \in Live /\ lwt'[x].pid = lwt[x].pid
  BY DEF Live
<1>2. PidsLead'
  BY <1>1 DEF PidsInductive, PidsLead
<1> QED BY <1>2 DEF PidsInductive

(* A new process whose slot was empty.                                     *)
LEMMA NewOkPids ==
  ASSUME PidsInductive, PidStep, LwtInductive', NEW l \in Process, NewOk(l)
  PROVE  PidsInductive'
<1>1. LwtTypeOK /\ Found \in Pid
  BY FoundFacts, LwtAssumption DEF PidsInductive, LwtInductive, LwtTypeOK, NewOk, Full, Pid
<1>2. PICK f \in Pid : f = Found
  BY <1>1
<1>3. /\ l \notin Live
      /\ pids' = [map |-> [pids.map EXCEPT ![f] = l], last |-> f + 1]
      /\ lwt' = [lwt EXCEPT ![l] = [live |-> TRUE, ref |-> 1, pid |-> f, group |-> {}]]
  BY <1>2 DEF NewOk
<1>4. /\ lwt'[l].pid = f
      /\ \A x \in Process \ {l} : lwt'[x] = lwt[x]
  BY <1>1, <1>3 DEF LwtTypeOK
<1>5. pids'.map[f] = l /\ \A p \in Pid \ {f} : pids'.map[p] = pids.map[p]
  BY <1>1, <1>3 DEF LwtTypeOK
<1>6. ASSUME NEW x \in Live'
      PROVE  pids'.map[lwt'[x].pid] = x
  <2>1. CASE x = l
    BY <1>4, <1>5, <2>1
  <2>2. CASE x # l
    <3>1. x \in Live /\ x \in Process /\ lwt'[x].pid = lwt[x].pid /\ lwt[x].pid \in Pid
      BY <1>1, <1>4, <1>6, <2>2 DEF Live, LwtTypeOK
    <3>2. pids.map[lwt[x].pid] = x /\ x # Nobody /\ l # Nobody
      BY <3>1, LwtAssumption DEF PidsInductive, PidsLead
    <3>3. lwt[x].pid # f
      BY <1>5, <2>2, <3>1, <3>2 DEF PidStep
    <3> QED BY <1>5, <3>1, <3>2, <3>3
  <2> QED BY <2>1, <2>2
<1> QED BY <1>6 DEF PidsInductive, PidsLead

(* The clean-up of the last thread empties the slot of its process only.   *)
LEMMA CleanupPids ==
  ASSUME PidsInductive, LwtInductive', NEW t \in Task, Cleanup(t)
  PROVE  PidsInductive'
<1>1. LwtTypeOK /\ task[t].lwp \in Process /\ task[t].lwp \in Live
  BY HolderFacts DEF PidsInductive, LwtInductive, Cleanup, Holding
<1>2. PICK l \in Process : l = task[t].lwp
  BY <1>1
<1>3. /\ l \in Live /\ lwt[l].pid \in Pid /\ pids.map[lwt[l].pid] = l
  BY <1>1, <1>2 DEF LwtTypeOK, PidsInductive, PidsLead
<1>4. /\ lwt'[l].live = (lwt[l].live /\ lwt[l].ref # 1) /\ lwt'[l].pid = lwt[l].pid
      /\ \A x \in Process \ {l} : lwt'[x] = lwt[x]
  <2> DEFINE less == [lwt[l] EXCEPT !.group = @ \ {t}, !.ref = IF @ > 0 THEN @ - 1 ELSE 0]
             rest == [less EXCEPT !.live = @ /\ ~ (lwt[l].ref = 1)]
  <2>1. lwt' = [lwt EXCEPT ![l] = rest]
    BY <1>2 DEF Cleanup
  <2>2. lwt[l] \in [live : BOOLEAN, ref : Nat, pid : Pid, group : SUBSET Task]
    BY <1>1 DEF LwtTypeOK
  <2>3. /\ less \in [live : BOOLEAN, ref : Nat, pid : Pid, group : SUBSET Task]
        /\ less.live = lwt[l].live /\ less.pid = lwt[l].pid
    <3>1. (IF lwt[l].ref > 0 THEN lwt[l].ref - 1 ELSE 0) \in Nat
      BY <2>2
    <3> QED BY <2>2, <3>1
  <2>4. rest.live = (lwt[l].live /\ lwt[l].ref # 1) /\ rest.pid = lwt[l].pid
    <3> HIDE DEF less
    <3> QED BY <2>3
  <2>5. lwt'[l] = rest /\ \A x \in Process \ {l} : lwt'[x] = lwt[x]
    <3> HIDE DEF rest
    <3> QED BY <1>1, <2>1 DEF LwtTypeOK
  <2> HIDE DEF rest
  <2> QED BY <2>4, <2>5
<1>5. CASE lwt[l].ref # 1
  <2>1. UNCHANGED pids
    BY <1>2, <1>5 DEF Cleanup
  <2>2. \A x \in Process : lwt'[x].live = lwt[x].live /\ lwt'[x].pid = lwt[x].pid
    BY <1>1, <1>4, <1>5 DEF LwtTypeOK
  <2> QED BY <2>1, <2>2, PidsKept
<1>6. CASE lwt[l].ref = 1
  <2>1. pids' = [pids EXCEPT !.map[lwt[l].pid] = Nobody]
    BY <1>2, <1>6 DEF Cleanup, LastFreed
  <2>2. /\ pids'.map[lwt[l].pid] = Nobody
        /\ \A p \in Pid \ {lwt[l].pid} : pids'.map[p] = pids.map[p]
    BY <1>1, <1>3, <2>1 DEF LwtTypeOK
  <2>3. Live' = Live \ {l}
    BY <1>4, <1>6 DEF Live
  <2>4. \A x \in Live' : x \in Live /\ x \in Process \ {l} /\ lwt'[x] = lwt[x] /\ lwt[x].pid \in Pid
    BY <1>1, <1>4, <2>3 DEF Live, LwtTypeOK
  <2>5. \A x \in Live' : pids.map[lwt[x].pid] = x
    BY <2>4 DEF PidsInductive, PidsLead
  <2>6. \A x \in Live' : pids'.map[lwt'[x].pid] = x
    BY <1>3, <2>2, <2>4, <2>5
  <2> QED BY <2>6 DEF PidsInductive, PidsLead
<1> QED BY <1>5, <1>6

LEMMA OthersKeepPids ==
  ASSUME PidsInductive, Orderly,
         \/ ExecLoad \/ ExecLink \/ ExecStart \/ ExecCount
         \/ \E t \in Task : SubStart(t) \/ Exit(t) \/ \E u \in Task : SubCreate(t, u) \/ SubCount(t, u)
  PROVE  /\ UNCHANGED pids
         /\ \A x \in Process : (lwt'[x].live => lwt[x].live) /\ lwt'[x].pid = lwt[x].pid
<1>1. LwtTypeOK
  BY DEF PidsInductive, LwtInductive
<1>2. CASE ExecLoad
  <2>1. /\ UNCHANGED pids
        /\ \/ lwt' = [lwt EXCEPT ![exec.l].live = FALSE]
           \/ lwt' = lwt
    BY <1>2 DEF ExecLoad
  <2>2. CASE lwt' = lwt
    BY <2>1, <2>2
  <2>3. CASE lwt' = [lwt EXCEPT ![exec.l].live = FALSE]
    BY <1>1, <2>1, <2>3 DEF LwtTypeOK
  <2> QED BY <2>1, <2>2, <2>3
<1>3. CASE ExecLink
  BY <1>1, <1>3 DEF ExecLink, LwtTypeOK
<1>4. CASE ExecStart
  BY <1>4 DEF ExecStart
<1>5. CASE ExecCount
  BY <1>1, <1>5 DEF ExecCount, LwtTypeOK
<1>6. ASSUME NEW t \in Task, SubStart(t) \/ Exit(t)
      PROVE  UNCHANGED <<pids, lwt>>
  BY <1>6 DEF SubStart, Exit
<1>7. ASSUME NEW t \in Task, NEW u \in Task, SubCreate(t, u) \/ SubCount(t, u)
      PROVE  /\ UNCHANGED pids
             /\ \A x \in Process : lwt'[x].live = lwt[x].live /\ lwt'[x].pid = lwt[x].pid
  BY <1>1, <1>7 DEF SubCreate, SubCount, LwtTypeOK
<1> QED BY <1>2, <1>3, <1>4, <1>5, <1>6, <1>7

LEMMA PidsNextKeep ==
  ASSUME PidsInductive, Orderly, [LwtNext]_lwtvars, [PidStep]_lwtvars
  PROVE  PidsInductive'
<1>1. LwtInductive'
  BY LwtNextKeeps DEF PidsInductive
<1>2. CASE UNCHANGED lwtvars
  <2>1. UNCHANGED <<pids, lwt>>
    BY <1>2 DEF lwtvars
  <2> QED BY <1>1, <2>1, PidsKept
<1>3. CASE New /\ PidStep
  <2>1. CASE NewFails
    <3>1. UNCHANGED lwt /\ pids'.map = pids.map
      BY <2>1 DEF NewFails, PidsInductive, LwtInductive, LwtTypeOK
    <3>2. PidsLead'
      BY <3>1 DEF PidsInductive, PidsLead, Live
    <3> QED BY <1>1, <3>2 DEF PidsInductive
  <2> QED BY <1>1, <1>3, <2>1, NewOkPids DEF New
<1>4. ASSUME NEW t \in Task, Cleanup(t)
      PROVE  PidsInductive'
  BY <1>1, <1>4, CleanupPids
<1>5. ASSUME \/ ExecLoad \/ ExecLink \/ ExecStart \/ ExecCount
             \/ \E t \in Task : SubStart(t) \/ Exit(t) \/ \E u \in Task : SubCreate(t, u) \/ SubCount(t, u)
      PROVE  PidsInductive'
  BY <1>1, <1>5, OthersKeepPids, PidsKept
<1> QED BY <1>2, <1>3, <1>4, <1>5 DEF LwtNext

(* The map leads to every process there is, each under its own id, however *)
(* many there are and whatever execs fail to load their file: nothing but  *)
(* a new process that takes the slot of another one, in rt_lwt_new, makes  *)
(* a process lose its id, and not the clean-up that frees another process. *)
THEOREM PidsAreKept ==
  ASSUME Orderly
  PROVE  LwtSpec /\ TakesFreePid => []PidsLead
<1>1. LwtInit => PidsInductive
  <2>1. ASSUME LwtInit
        PROVE  PidsLead
    BY <2>1 DEF LwtInit, Live, PidsLead
  <2> QED BY <2>1, LwtInitInductive DEF PidsInductive
<1>2. PidsInductive /\ [LwtNext]_lwtvars /\ [PidStep]_lwtvars => PidsInductive'
  BY PidsNextKeep
<1>3. PidsInductive => PidsLead
  BY DEF PidsInductive
<1> QED BY <1>1, <1>2, <1>3, PTL DEF LwtSpec, TakesFreePid, PidStep

(***************************************************************************)
(* Shared memory, however the calls of different threads are interleaved   *)
(* and whichever fail: no memory reaches beyond the region, since bmem_    *)
(* malloc and bmem_free never make the blocks longer than that together.   *)
(***************************************************************************)
Longer(sum, x) == sum + x.len

Lens == INSTANCE FoldSteps WITH Op <- Longer

Block == [len : 1 .. Region, used : BOOLEAN]

(* The length of all blocks.                                               *)
Extent(b) == Offset(b, Len(b) + 1)

(* A list of blocks, element by element.                                   *)
LEMMA BlocksTyped ==
  ASSUME NEW b \in Seq(Block)
  PROVE  /\ Len(b) \in Nat /\ DOMAIN b = 1 .. Len(b)
         /\ \A i \in 1 .. Len(b) : b[i] \in Block /\ b[i].len \in 1 .. Region /\ b[i].len \in Nat \ {0}
<1>1. Len(b) \in Nat /\ DOMAIN b = 1 .. Len(b) /\ \A i \in 1 .. Len(b) : b[i] \in Block
  BY LenProperties, ElementOfSeq
<1>2. \A x \in Block : x.len \in 1 .. Region /\ x.len \in Nat \ {0}
  BY ShmAssumption DEF Block
<1> QED BY <1>1, <1>2

(* A block with its flag set.                                              *)
LEMMA MarkedUsed ==
  ASSUME NEW R, NEW x \in [len : R, used : BOOLEAN], NEW w
  PROVE  [x EXCEPT !.used = w] = [len |-> x.len, used |-> w]
OBVIOUS

(* The place of a block is a fold over those before it.                    *)
LEMMA OffsetIsFold ==
  ASSUME NEW b, NEW n
  PROVE  Offset(b, n) = Lens!Folded(0, SubSeq(b, 1, n - 1))
<1> DEFINE s == SubSeq(b, 1, n - 1)
<1>1. FoldLeft(LAMBDA sum, x : sum + x.len, 0, s) = Lens!Folded(0, s)
  <2> HIDE DEF s
  <2> QED BY DEF Lens!Folded, FoldLeft, Lens!FoldLeft, MapThenFoldSet, Lens!MapThenFoldSet,
                 Max, Lens!Max, Longer
<1> QED BY <1>1 DEF Offset

(* The place of the first block, and of the one behind another.            *)
LEMMA OffsetSteps ==
  ASSUME NEW b \in Seq(Block)
  PROVE  /\ Offset(b, 1) = 0
         /\ \A n \in 1 .. Len(b) : Offset(b, n + 1) = Offset(b, n) + b[n].len
<1>1. Offset(b, 1) = 0
  <2>1. SubSeq(b, 1, 1 - 1) = << >> /\ DOMAIN << >> = 1 .. 0
    OBVIOUS
  <2>2. Lens!Folded(0, << >>) = 0
    BY <2>1, Lens!FoldOfNone
  <2> QED BY <2>1, <2>2, OffsetIsFold
<1>2. ASSUME NEW n \in 1 .. Len(b)
      PROVE  Offset(b, n + 1) = Offset(b, n) + b[n].len
  <2> DEFINE s == SubSeq(b, 1, n - 1)
             r == SubSeq(b, 1, n)
  <2>1. /\ DOMAIN s = 1 .. n - 1 /\ DOMAIN r = 1 .. (n - 1) + 1
        /\ \A i \in 1 .. n - 1 : r[i] = s[i]
        /\ r[(n - 1) + 1] = b[n] /\ n - 1 \in Nat /\ (n + 1) - 1 = n
    OBVIOUS
  <2> HIDE DEF s, r
  <2>2. Lens!Folded(0, r) = Longer(Lens!Folded(0, s), r[(n - 1) + 1])
    BY <2>1, Lens!FoldOfOneMore
  <2>3. Lens!Folded(0, r) = Lens!Folded(0, s) + b[n].len
    BY <2>1, <2>2 DEF Longer
  <2>4. Offset(b, n) = Lens!Folded(0, s) /\ Offset(b, n + 1) = Lens!Folded(0, r)
    BY <2>1, OffsetIsFold DEF s, r
  <2> QED BY <2>3, <2>4
<1> QED BY <1>1, <1>2

(* Every block lies behind those before it.                                *)
LEMMA OffsetsRise ==
  ASSUME NEW b \in Seq(Block)
  PROVE  /\ \A n \in 1 .. Len(b) + 1 : Offset(b, n) \in Nat
         /\ \A n \in 1 .. Len(b) + 1 : \A m \in 1 .. n - 1 : Offset(b, m) + b[m].len <= Offset(b, n)
<1> DEFINE Rise(n) == /\ Offset(b, n + 1) \in Nat
                      /\ \A m \in 1 .. n : /\ Offset(b, m) \in Nat
                                           /\ Offset(b, m) + b[m].len <= Offset(b, n + 1)
           T == {n \in Nat : n <= Len(b) => Rise(n)}
<1>1. 0 \in T
  BY OffsetSteps
<1>2. ASSUME NEW n \in Nat, n \in T
      PROVE  n + 1 \in T
  <2> SUFFICES ASSUME n + 1 <= Len(b) PROVE Rise(n + 1)
    OBVIOUS
  <2>1. Rise(n) /\ n + 1 \in 1 .. Len(b)
    BY <1>2
  <2>2. Offset(b, (n + 1) + 1) = Offset(b, n + 1) + b[n + 1].len
    BY <2>1, OffsetSteps
  <2>3. \A i \in 1 .. Len(b) : b[i].len \in Nat
    BY BlocksTyped
  <2>4. \A m \in 1 .. n + 1 : m \in 1 .. n \/ m = n + 1
    OBVIOUS
  <2> QED BY <2>1, <2>2, <2>3, <2>4
<1> HIDE DEF T
<1>3. Nat \subseteq T
  BY <1>1, <1>2, Lens!SetInduction
<1>4. \A n \in 0 .. Len(b) : Rise(n)
  BY <1>3 DEF T
<1>5. ASSUME NEW n \in 1 .. Len(b) + 1
      PROVE  /\ Offset(b, n) \in Nat
             /\ \A m \in 1 .. n - 1 : Offset(b, m) + b[m].len <= Offset(b, n)
  <2>1. n - 1 \in 0 .. Len(b) /\ (n - 1) + 1 = n
    OBVIOUS
  <2>2. Rise(n - 1)
    BY <1>4, <2>1
  <2> QED BY <2>1, <2>2
<1> QED BY <1>5

(* The place of a block depends on those before it only.                   *)
LEMMA OffsetOfSame ==
  ASSUME NEW b \in Seq(Block), NEW c \in Seq(Block), NEW n \in Nat \ {0},
         n <= Len(b) + 1, n <= Len(c) + 1, \A i \in 1 .. n - 1 : c[i] = b[i]
  PROVE  Offset(c, n) = Offset(b, n)
<1>1. SubSeq(c, 1, n - 1) = SubSeq(b, 1, n - 1)
  OBVIOUS
<1> QED BY <1>1, OffsetIsFold

(* A list that says the same from some block on, d places behind, is not   *)
(* longer than the other one if it is not longer up to there.              *)
LEMMA SameRest ==
  ASSUME NEW b \in Seq(Block), NEW c \in Seq(Block), NEW d \in {-1, 0, 1}, NEW n \in 1 .. Len(b),
         Len(c) = Len(b) + d, Offset(c, n + 1 + d) <= Offset(b, n + 1),
         \A i \in n + 1 .. Len(b) : c[i + d] = b[i]
  PROVE  Extent(c) <= Extent(b)
<1> DEFINE T == {j \in Nat : n + j <= Len(b) => Offset(c, n + 1 + d + j) <= Offset(b, n + 1 + j)}
<1>1. Len(b) \in Nat /\ Len(c) \in Nat /\ n \in Nat \ {0} /\ d \in Int
  OBVIOUS
<1>2. 0 \in T
  OBVIOUS
<1>3. ASSUME NEW j \in Nat, j \in T
      PROVE  j + 1 \in T
  <2> SUFFICES ASSUME n + (j + 1) <= Len(b)
               PROVE  Offset(c, n + 1 + d + (j + 1)) <= Offset(b, n + 1 + (j + 1))
    OBVIOUS
  <2> DEFINE i == n + 1 + j
  <2>1. i \in n + 1 .. Len(b) /\ i \in 1 .. Len(b) /\ i + d \in 1 .. Len(c)
    BY <1>1
  <2>2. Offset(c, i + d) <= Offset(b, i)
    <3>1. n + 1 + d + j = i + d
      BY <1>1
    <3> QED BY <1>1, <1>3, <3>1
  <2>3. Offset(c, (i + d) + 1) = Offset(c, i + d) + c[i + d].len /\ Offset(b, i + 1) = Offset(b, i) + b[i].len
    BY <2>1, OffsetSteps
  <2>4. Offset(c, i + d) \in Nat /\ Offset(b, i) \in Nat
    <3>1. i + d \in 1 .. Len(c) + 1 /\ i \in 1 .. Len(b) + 1
      BY <1>1, <2>1
    <3> QED BY <3>1, OffsetsRise
  <2>5. c[i + d] = b[i] /\ b[i].len \in Nat
    BY <2>1, BlocksTyped
  <2>6. n + 1 + d + (j + 1) = (i + d) + 1 /\ n + 1 + (j + 1) = i + 1
    BY <1>1
  <2> HIDE DEF i
  <2> QED BY <2>2, <2>3, <2>4, <2>5, <2>6
<1> HIDE DEF T
<1>4. Nat \subseteq T
  BY <1>2, <1>3, Lens!SetInduction
<1>5. Len(b) - n \in T /\ n + (Len(b) - n) = Len(b)
  BY <1>1, <1>4
<1>6. n + 1 + d + (Len(b) - n) = Len(c) + 1 /\ n + 1 + (Len(b) - n) = Len(b) + 1
  BY <1>1
<1> QED BY <1>5, <1>6 DEF T, Extent

(* bmem_malloc finds a free block that is long enough, and splits it at    *)
(* most.                                                                   *)
LEMMA FitsInside ==
  ASSUME NEW b \in Seq(Block), NEW size \in Sizes, NEW n, n = Fits(b, size), n # 0
  PROVE  n \in 1 .. Len(b) /\ b[n].len >= size
<1> DEFINE I == {i \in 1 .. Len(b) : ~ b[i].used /\ b[i].len >= size}
           R == {ss \in Nat \X Nat : ss[1] < ss[2]}
<1>1. n = IF I # {} THEN Min(I) ELSE 0
  BY DEF Fits, SelectInSeq
<1>2. I # {} /\ I \in SUBSET Nat /\ n = Min(I)
  BY <1>1
<1>3. n \in I
  <2> HIDE DEF I
  <2>1. IsWellFoundedOn(R, Nat)
    BY NatLessThanWellFounded DEF OpToRel
  <2> HIDE DEF R
  <2>2. PICK m \in I : \A x \in I : ~ (<<x, m>> \in R)
    BY <1>2, <2>1, WFMin
  <2>3. \A x \in I : ~ (x < m)
    BY <1>2, <2>2 DEF R
  <2>4. \A x \in I : m <= x
    BY <1>2, <2>3
  <2> QED BY <1>2, <2>4 DEF Min
<1> QED BY <1>3

(* One block more in front of the one at n.                                *)
MovedUp(c, r, n) == \A j \in 1 .. Len(r) + 1 : j > n => c[j] = r[j - 1]

LEMMA PartsInserted ==
  ASSUME NEW T, NEW r \in Seq(T), NEW e \in T, NEW n \in 1 .. Len(r) + 1
  PROVE  /\ InsertAt(r, n, e) \in Seq(T) /\ Len(InsertAt(r, n, e)) = Len(r) + 1
         /\ InsertAt(r, n, e)[n] = e
         /\ \A j \in 1 .. Len(r) + 1 : j < n => InsertAt(r, n, e)[j] = r[j]
         /\ MovedUp(InsertAt(r, n, e), r, n)
<1>1. InsertAt(r, n, e) \in Seq(T) /\ Len(InsertAt(r, n, e)) = Len(r) + 1
  BY InsertAtElements
<1>2. \A j \in 1 .. Len(r) + 1 : j < n => InsertAt(r, n, e)[j] = r[j]
  BY InsertAtElements, SMTT(60)
<1>3. InsertAt(r, n, e)[n] = e
  BY InsertAtElements, SMTT(60)
<1>4. \A j \in 1 .. Len(r) + 1 : j > n => InsertAt(r, n, e)[j] = r[j - 1]
  BY InsertAtElements, SMTT(60)
<1> QED BY <1>1, <1>2, <1>3, <1>4 DEF MovedUp

LEMMA BlockInserted ==
  ASSUME NEW r \in Seq(Block), NEW e \in Block, NEW n \in 1 .. Len(r) + 1, NEW c, c = InsertAt(r, n, e)
  PROVE  /\ c \in Seq(Block) /\ Len(c) = Len(r) + 1 /\ c[n] = e
         /\ \A j \in 1 .. n - 1 : c[j] = r[j]
         /\ MovedUp(c, r, n)
<1>1. /\ c \in Seq(Block) /\ Len(c) = Len(r) + 1 /\ c[n] = e
      /\ \A j \in 1 .. Len(r) + 1 : j < n => c[j] = r[j]
      /\ MovedUp(c, r, n)
  BY PartsInserted
<1>2. \A j \in 1 .. n - 1 : j \in 1 .. Len(r) + 1 /\ j < n
  OBVIOUS
<1> QED BY <1>1, <1>2

LEMMA MallocedLength ==
  ASSUME NEW b \in Seq(Block), NEW size \in Sizes, NEW n \in 1 .. Len(b), b[n].len >= size,
         NEW c, c = Malloced(b, n, size)
  PROVE  c \in Seq(Block) /\ Extent(c) <= Extent(b)
<1>1. n \in 1 .. Len(b) /\ b[n].len >= size /\ Len(b) \in Nat /\ size \in 1 .. Region /\ Region \in Nat \ {0}
  BY BlocksTyped, ShmAssumption
<1>2. b[n] \in Block /\ b[n].len \in 1 .. Region
  BY <1>1, BlocksTyped
<1>3. Offset(b, n) \in Nat /\ Offset(b, n + 1) = Offset(b, n) + b[n].len
  BY <1>1, OffsetsRise, OffsetSteps
<1> DEFINE e == [len |-> size, used |-> TRUE]
<1>4. CASE b[n].len > size
  <2> DEFINE left == [len |-> b[n].len - size, used |-> b[n].len - size = size]
             r == ReplaceAt(b, n, left)
  <2>1. e \in Block /\ left \in Block /\ left.len = b[n].len - size /\ e.len = size
    BY <1>1, <1>2, <1>4 DEF Block
  <2> HIDE DEF left, e
  <2>2. c = InsertAt(r, n, e)
    BY <1>4 DEF Malloced, left, e
  <2>3. /\ r \in Seq(Block) /\ Len(r) = Len(b) /\ r[n] = left
        /\ \A i \in 1 .. Len(b) : i # n => r[i] = b[i]
    BY <1>1, <2>1 DEF ReplaceAt
  <2> HIDE DEF r
  <2>4. /\ c \in Seq(Block) /\ Len(c) = Len(r) + 1 /\ c[n] = e
        /\ \A j \in 1 .. n - 1 : c[j] = r[j]
        /\ MovedUp(c, r, n)
    <3>1. n \in 1 .. Len(r) + 1 /\ r \in Seq(Block) /\ e \in Block
      BY <1>1, <2>1, <2>3
    <3>2. PICK d \in Seq(Block), f \in Block : d = r /\ f = e
      BY <3>1
    <3>3. c = InsertAt(d, n, f) /\ n \in 1 .. Len(d) + 1
      BY <2>2, <3>1, <3>2
    <3>4. c \in Seq(Block) /\ Len(c) = Len(d) + 1 /\ c[n] = f
      BY <3>3, BlockInserted
    <3>5. \A j \in 1 .. n - 1 : c[j] = d[j]
      BY <3>3, BlockInserted
    <3>6. MovedUp(c, d, n)
      BY <3>3, BlockInserted
    <3> QED BY <3>2, <3>4, <3>5, <3>6
  <2>5. /\ Len(c) = Len(b) + 1 /\ c[n] = e /\ c[n + 1] = left
        /\ \A i \in 1 .. n - 1 : c[i] = b[i]
        /\ \A i \in n + 1 .. Len(b) : c[i + 1] = b[i]
    <3>1. n + 1 \in 1 .. Len(r) + 1 /\ n + 1 > n /\ (n + 1) - 1 = n /\ Len(c) = Len(b) + 1
      BY <1>1, <2>3, <2>4
    <3>2. \A i \in 1 .. n - 1 : i \in 1 .. Len(b) /\ i # n
      BY <1>1
    <3>3. \A i \in n + 1 .. Len(b) : /\ i + 1 \in 1 .. Len(r) + 1 /\ i + 1 > n /\ (i + 1) - 1 = i
                                     /\ i \in 1 .. Len(b) /\ i # n
      BY <1>1, <2>3
    <3>4. c[n + 1] = left
      BY <2>3, <2>4, <3>1 DEF MovedUp
    <3>5. \A i \in 1 .. n - 1 : c[i] = b[i]
      BY <2>3, <2>4, <3>2
    <3>6. \A i \in n + 1 .. Len(b) : c[i + 1] = b[i]
      BY <2>3, <2>4, <3>3 DEF MovedUp
    <3> QED BY <2>4, <3>1, <3>4, <3>5, <3>6
  <2>6. Offset(c, n) = Offset(b, n)
    <3>1. n \in Nat \ {0} /\ n <= Len(b) + 1 /\ n <= Len(c) + 1
      BY <1>1, <2>5
    <3> QED BY <2>4, <2>5, <3>1, OffsetOfSame
  <2>7. Offset(c, n + 1) = Offset(c, n) + e.len /\ Offset(c, (n + 1) + 1) = Offset(c, n + 1) + left.len
    <3>1. n \in 1 .. Len(c) /\ n + 1 \in 1 .. Len(c)
      BY <1>1, <2>5
    <3> QED BY <2>4, <2>5, <3>1, OffsetSteps
  <2>8. Offset(c, n + 1 + 1) <= Offset(b, n + 1)
    BY <1>1, <1>2, <1>3, <2>1, <2>6, <2>7
  <2> QED BY <1>1, <2>4, <2>5, <2>8, SameRest
<1>5. CASE ~ (b[n].len > size)
  <2>1. [b[n] EXCEPT !.used = TRUE] = [len |-> b[n].len, used |-> TRUE]
    <3>1. b[n] \in [len : 1 .. Region, used : BOOLEAN]
      BY <1>2 DEF Block
    <3> QED BY <3>1, MarkedUsed
  <2> DEFINE f == [len |-> b[n].len, used |-> TRUE]
  <2>2. f \in Block /\ f.len = b[n].len
    BY <1>2 DEF Block
  <2>3. c = ReplaceAt(b, n, f)
    BY <1>5, <2>1 DEF Malloced
  <2> HIDE DEF f
  <2>4. /\ c \in Seq(Block) /\ Len(c) = Len(b) /\ c[n] = f
        /\ \A i \in 1 .. Len(b) : i # n => c[i] = b[i]
    BY <1>1, <2>2, <2>3 DEF ReplaceAt
  <2>5. Offset(c, n) = Offset(b, n)
    <3>1. /\ n \in Nat \ {0} /\ n <= Len(b) + 1 /\ n <= Len(c) + 1
          /\ \A i \in 1 .. n - 1 : c[i] = b[i]
      BY <1>1, <2>4
    <3> QED BY <2>4, <3>1, OffsetOfSame
  <2>6. Offset(c, n + 1) = Offset(c, n) + c[n].len
    BY <1>1, <2>4, OffsetSteps
  <2>7. Offset(c, n + 1 + 0) <= Offset(b, n + 1)
    BY <1>1, <1>2, <1>3, <2>2, <2>4, <2>5, <2>6
  <2>8. Len(c) = Len(b) + 0 /\ \A i \in n + 1 .. Len(b) : c[i + 0] = b[i]
    BY <1>1, <2>4
  <2> QED BY <1>1, <2>4, <2>7, <2>8, SameRest
<1> QED BY <1>4, <1>5

(* bmem_free unlinks a block, or none.                                     *)
LEMMA FreedLength ==
  ASSUME NEW b \in Seq(Block), NEW a, NEW c, c = Freed(b, a)
  PROVE  c \in Seq(Block) /\ Extent(c) <= Extent(b)
<1>1. Len(b) \in Nat /\ DOMAIN b = 1 .. Len(b)
  BY BlocksTyped
<1>2. CASE ~ \E n \in DOMAIN b : Offset(b, n) = a
  <2>1. c = b
    BY <1>2 DEF Freed
  <2>2. Extent(b) \in Nat
    <3>1. Len(b) + 1 \in 1 .. Len(b) + 1
      BY <1>1
    <3> QED BY <3>1, OffsetsRise DEF Extent
  <2> QED BY <2>1, <2>2
<1>3. CASE \E n \in DOMAIN b : Offset(b, n) = a
  <2>1. PICK n \in 1 .. Len(b) : c = RemoveAt(b, n)
    BY <1>1, <1>3 DEF Freed
  <2>2. /\ c \in Seq(Block) /\ Len(c) = Len(b) - 1
        /\ \A j \in 1 .. Len(b) - 1 : c[j] = IF j < n THEN b[j] ELSE b[j + 1]
    BY <1>1, <2>1, RemoveAtElements
  <2>3. ASSUME NEW i \in 1 .. n - 1
        PROVE  c[i] = b[i]
    <3>1. i \in 1 .. Len(b) - 1 /\ i < n
      BY <1>1
    <3> QED BY <2>2, <3>1
  <2>4. ASSUME NEW i \in n + 1 .. Len(b)
        PROVE  c[i + -1] = b[i]
    <3>1. i + -1 \in 1 .. Len(b) - 1 /\ ~ (i + -1 < n) /\ (i + -1) + 1 = i
      BY <1>1
    <3> QED BY <2>2, <3>1
  <2>5. Offset(c, n) = Offset(b, n)
    <3>1. n \in Nat \ {0} /\ n <= Len(b) + 1 /\ n <= Len(c) + 1
      BY <1>1, <2>2
    <3> QED BY <2>2, <2>3, <3>1, OffsetOfSame
  <2>6. Offset(b, n + 1) = Offset(b, n) + b[n].len /\ Offset(b, n) \in Nat /\ b[n].len \in Nat
    <3>1. n \in 1 .. Len(b) + 1
      BY <1>1
    <3> QED BY <3>1, OffsetSteps, OffsetsRise, BlocksTyped
  <2>7. n + 1 + -1 = n /\ Offset(c, n + 1 + -1) <= Offset(b, n + 1) /\ Len(c) = Len(b) + -1
    <3>1. n + 1 + -1 = n
      BY <1>1
    <3> QED BY <1>1, <2>2, <2>5, <2>6, <3>1
  <2> QED BY <2>2, <2>4, <2>7, SameRest
<1> QED BY <1>2, <1>3

(* The place that get_shm_mem or find_shm_mem comes to is one of those.    *)
LEMMA FirstIsThere ==
  ASSUME NEW T \in SUBSET Item, T # {}
  PROVE  First(T) \in T
<1> DEFINE R == {ss \in Nat \X Nat : ss[1] < ss[2]}
           Back == {m \in Nat : \E i \in T : m = TabMax - i[1]}
<1>1. IsWellFoundedOn(R, Nat)
  BY NatLessThanWellFounded DEF OpToRel
<1>2. \A i \in T : i[1] \in 1 .. TabMax /\ i[2] \in 1 .. TabSize /\ i[2] \in Nat
  BY ShmAssumption DEF Item, Table
<1>3. TabMax \in Nat
  BY ShmAssumption
<1>4. Back # {} /\ Back \in SUBSET Nat
  BY <1>2, <1>3
<1> HIDE DEF R
<1>5. PICK m \in Back : \A x \in Back : ~ (<<x, m>> \in R)
  BY <1>1, <1>4, WFMin
<1>6. PICK f \in T : m = TabMax - f[1]
  BY <1>5
<1>7. \A i \in T : f[1] >= i[1]
  <2> SUFFICES ASSUME NEW i \in T PROVE f[1] >= i[1]
    OBVIOUS
  <2>1. TabMax - i[1] \in Back
    BY <1>2, <1>3
  <2>2. ~ (TabMax - i[1] < m)
    BY <1>4, <1>5, <2>1 DEF R
  <2> QED BY <1>2, <1>3, <1>6, <2>2
<1> HIDE DEF Back
<1> DEFINE Places == {p \in Nat : \E i \in T : i[1] = f[1] /\ p = i[2]}
<1>8. Places # {} /\ Places \in SUBSET Nat
  BY <1>2, <1>6
<1>9. PICK p \in Places : \A x \in Places : ~ (<<x, p>> \in R)
  BY <1>1, <1>8, WFMin
<1>10. PICK g \in T : g[1] = f[1] /\ p = g[2]
  BY <1>9
<1>11. ASSUME NEW i \in T
       PROVE  g[1] > i[1] \/ (g[1] = i[1] /\ g[2] <= i[2])
  <2>1. CASE i[1] = f[1]
    <3>1. i[2] \in Places
      BY <1>2, <2>1
    <3>2. ~ (i[2] < p)
      BY <1>8, <1>9, <3>1 DEF R
    <3> QED BY <1>2, <1>10, <2>1, <3>2
  <2>2. CASE i[1] # f[1]
    BY <1>2, <1>6, <1>7, <1>10, <2>2
  <2> QED BY <2>1, <2>2
<1> QED BY <1>10, <1>11 DEF First

(***************************************************************************)
(* The inductive invariant.                                                *)
(***************************************************************************)
(* A memory with an address lies within the region.                        *)
WithinRegion ==
  \A i \in Item : Used(i) /\ item[i].addr # NoAddr => item[i].addr + item[i].size <= Region

(* What a thread that is in a call has found.                              *)
Calling(e) == (e.op # "none" => e.i \in Item) /\ (e.op = "retain" => e.a \in Addr)

ShmInductive ==
  /\ ShmTypeOK /\ Extent(bmem) <= Region /\ WithinRegion
  /\ \A n \in Table : n > made => used_num[n] = 0
  /\ \A u \in User : Calling(busy[u])

(* Only bmem_malloc and bmem_free touch the list.                          *)
LEMMA AllocFindKeeps ==
  ASSUME ShmInductive, NEW u \in User, AllocFind(u)
  PROVE  ShmInductive'
<1>1. CASE UNCHANGED shmvars
  BY <1>1 DEF shmvars, ShmInductive, ShmTypeOK, WithinRegion, Used
<1>2. ASSUME NEW i \in Item, TakeItem(u, i), used_num[i[1]] # TabSize, made' \in 0 .. TabMax,
             made' >= made, i[1] <= made'
      PROVE  ShmInductive'
  <2>1. /\ used_num' = [used_num EXCEPT ![i[1]] = @ + 1]
        /\ busy' = [busy EXCEPT ![u] = [op |-> "alloc", i |-> i, a |-> NoAddr]]
        /\ bmem' = bmem /\ item' = item /\ holds' = holds
    BY <1>2 DEF TakeItem
  <2>2. i[1] \in Table /\ TabSize \in Nat \ {0} /\ TabMax \in Nat
    BY ShmAssumption DEF Item
  <2>3. /\ used_num \in [Table -> 0 .. TabSize] /\ made \in 0 .. TabMax
        /\ busy \in [User -> [op : {"none", "alloc", "retain"}, i : Item \cup {<<0, 0>>},
                              a : Addr \cup {NoAddr}]]
    BY DEF ShmInductive, ShmTypeOK
  <2>4. used_num' \in [Table -> 0 .. TabSize]
    BY <1>2, <2>1, <2>2, <2>3
  <2>5. \A n \in Table : n > made' => used_num'[n] = 0
    <3>1. ASSUME NEW n \in Table, n > made'  PROVE used_num'[n] = 0
      <4>1. n > made /\ n # i[1]
        BY <1>2, <2>2, <2>3, <3>1 DEF Table
      <4> QED BY <2>1, <2>3, <4>1 DEF ShmInductive
    <3> QED BY <3>1
  <2>6. /\ busy' \in [User -> [op : {"none", "alloc", "retain"}, i : Item \cup {<<0, 0>>},
                              a : Addr \cup {NoAddr}]]
        /\ \A v \in User : Calling(busy'[v])
    <3> DEFINE e == [op |-> "alloc", i |-> i, a |-> NoAddr]
    <3>1. e \in [op : {"none", "alloc", "retain"}, i : Item \cup {<<0, 0>>}, a : Addr \cup {NoAddr}]
          /\ Calling(e)
      BY DEF Calling
    <3> HIDE DEF e
    <3>2. busy' = [busy EXCEPT ![u] = e]
      BY <2>1 DEF e
    <3>3. busy'[u] = e /\ \A v \in User \ {u} : busy'[v] = busy[v]
      BY <2>3, <3>2
    <3> QED BY <2>3, <3>1, <3>2, <3>3 DEF ShmInductive
  <2>7. ShmTypeOK'
    BY <1>2, <2>1, <2>4, <2>6 DEF ShmInductive, ShmTypeOK
  <2> QED BY <2>1, <2>5, <2>6, <2>7 DEF ShmInductive, WithinRegion, Used
<1>3. made \in 0 .. TabMax /\ TabMax \in Nat /\ TabSize \in Nat \ {0} /\ Spare \in SUBSET Item
  BY ShmAssumption DEF ShmInductive, ShmTypeOK, Spare
<1>4. CASE Spare # {} /\ TakeItem(u, First(Spare)) /\ UNCHANGED made
  <2>1. PICK i : i = First(Spare)
    OBVIOUS
  <2>2. i \in Spare
    BY <1>3, <1>4, <2>1, FirstIsThere
  <2> QED BY <1>2, <1>3, <1>4, <2>1, <2>2 DEF Spare
<1>5. CASE Spare = {} /\ made < TabMax /\ made' = made + 1 /\ TakeItem(u, <<made + 1, 1>>)
  <2>1. PICK i : i = <<made + 1, 1>>
    OBVIOUS
  <2>2. i \in Item /\ i[1] = made + 1 /\ made + 1 \in Table /\ made' \in 0 .. TabMax /\ made' >= made
    BY <1>3, <1>5, <2>1 DEF Item, Table
  <2>3. used_num[made + 1] = 0
    BY <1>3, <2>2 DEF ShmInductive
  <2>4. TakeItem(u, i) /\ used_num[i[1]] # TabSize /\ i[1] <= made'
    BY <1>3, <1>5, <2>1, <2>2, <2>3
  <2> QED BY <1>2, <2>2, <2>4
<1> QED BY <1>1, <1>4, <1>5 DEF AllocFind

(* What a call that ends leaves of the entries of busy.                    *)
LEMMA EndsCall ==
  ASSUME ShmInductive, NEW u \in User, busy' = [busy EXCEPT ![u] = Idling]
  PROVE  /\ busy' \in [User -> [op : {"none", "alloc", "retain"}, i : Item \cup {<<0, 0>>},
                                a : Addr \cup {NoAddr}]]
         /\ \A v \in User : Calling(busy'[v])
<1>1. busy \in [User -> [op : {"none", "alloc", "retain"}, i : Item \cup {<<0, 0>>}, a : Addr \cup {NoAddr}]]
  BY DEF ShmInductive, ShmTypeOK
<1>2. /\ Calling(Idling)
      /\ Idling \in [op : {"none", "alloc", "retain"}, i : Item \cup {<<0, 0>>}, a : Addr \cup {NoAddr}]
  BY DEF Idling, Calling
<1>3. busy'[u] = Idling /\ \A v \in User \ {u} : busy'[v] = busy[v]
  BY <1>1
<1> QED BY <1>1, <1>2, <1>3 DEF ShmInductive

(* The entries, and the counts of what threads have been given.            *)
Entry == [addr : Addr \cup {NoAddr}, size : {0} \cup Sizes, refs : [User -> Nat]]

LEMMA EntryTyped ==
  ASSUME ShmInductive, NEW i \in Item
  PROVE  /\ item \in [Item -> Entry] /\ item[i] \in Entry
         /\ item[i].addr \in Addr \cup {NoAddr} /\ item[i].size \in {0} \cup Sizes
         /\ item[i].refs \in [User -> Nat]
BY DEF ShmInductive, ShmTypeOK, Entry

LEMMA EntryWith ==
  ASSUME NEW x \in Addr \cup {NoAddr}, NEW y \in {0} \cup Sizes, NEW r \in [User -> Nat], NEW m \in Entry
  PROVE  /\ [addr |-> x, size |-> y, refs |-> r] \in Entry
         /\ [m EXCEPT !.addr = x] \in Entry /\ [m EXCEPT !.addr = x].addr = x
         /\ [m EXCEPT !.refs = r, !.size = y] \in Entry
         /\ [m EXCEPT !.refs = r] \in Entry
         /\ [m EXCEPT !.refs = r].addr = m.addr /\ [m EXCEPT !.refs = r].size = m.size
         /\ [m EXCEPT !.refs = r, !.size = y].addr = m.addr /\ [m EXCEPT !.refs = r, !.size = y].size = y
BY DEF Entry

(* A step that gives one entry another value, and leaves the tables alone. *)
LEMMA EntryKeeps ==
  ASSUME ShmInductive, NEW i \in Item, NEW m \in Entry, item' = [item EXCEPT ![i] = m],
         m.size > 0 /\ m.addr # NoAddr => m.addr + m.size <= Region
  PROVE  item' \in [Item -> Entry] /\ WithinRegion'
<1>1. item \in [Item -> Entry]
  BY EntryTyped
<1>2. item'[i] = m /\ \A j \in Item \ {i} : item'[j] = item[j]
  BY <1>1
<1>3. item' \in [Item -> Entry]
  BY <1>1
<1> HIDE DEF Entry
<1>4. \A j \in Item : Used(j)' /\ item'[j].addr # NoAddr => item'[j].addr + item'[j].size <= Region
  BY <1>2 DEF Used, ShmInductive, WithinRegion
<1> QED BY <1>3, <1>4 DEF WithinRegion

LEMMA AllocTakeKeeps ==
  ASSUME ShmInductive, NEW u \in User, NEW size \in Sizes, AllocTake(u, size)
  PROVE  ShmInductive'
<1>1. PICK i, n, a, c :
         /\ i = busy[u].i /\ n = Fits(bmem, size) /\ a = Offset(bmem, n) /\ c = Malloced(bmem, n, size)
  OBVIOUS
<1>2. /\ busy[u].op = "alloc" /\ busy' = [busy EXCEPT ![u] = Idling]
      /\ made' = made /\ used_num' = used_num
  BY DEF AllocTake
<1>3. i \in Item
  BY <1>1, <1>2 DEF ShmInductive, Calling
<1>4. /\ busy' \in [User -> [op : {"none", "alloc", "retain"}, i : Item \cup {<<0, 0>>},
                            a : Addr \cup {NoAddr}]]
      /\ \A v \in User : Calling(busy'[v])
  BY <1>2, EndsCall
<1>5. /\ bmem \in Seq(Block) /\ Extent(bmem) <= Region /\ Region \in Nat \ {0}
      /\ size \in 1 .. Region /\ size \in Nat \ {0}
  BY ShmAssumption DEF ShmInductive, ShmTypeOK, Block
<1>6. item[i] \in Entry /\ item[i].refs \in [User -> Nat]
  BY <1>3, EntryTyped
<1>7. CASE n = 0
  <2>1. bmem' = bmem /\ holds' = holds /\ item' = [item EXCEPT ![i].addr = NoAddr]
    BY <1>1, <1>7 DEF AllocTake
  <2>2. PICK m : m = [item[i] EXCEPT !.addr = NoAddr]
    OBVIOUS
  <2>3. m \in Entry /\ m.addr = NoAddr
    <3>1. PICK r : r = item[i].refs
      OBVIOUS
    <3>2. r \in [User -> Nat] /\ NoAddr \in Addr \cup {NoAddr} /\ 0 \in {0} \cup Sizes
      BY <1>6, <3>1
    <3> QED BY <1>6, <2>2, <3>2, EntryWith
  <2>4. item' = [item EXCEPT ![i] = m]
    BY <2>1, <2>2
  <2>5. item' \in [Item -> Entry] /\ WithinRegion'
    BY <1>3, <2>3, <2>4, EntryKeeps
  <2>6. ShmTypeOK'
    BY <1>2, <1>4, <2>1, <2>5 DEF ShmInductive, ShmTypeOK, Entry
  <2> QED BY <1>2, <1>4, <2>1, <2>5, <2>6 DEF ShmInductive
<1>8. CASE n # 0
  <2>1. PICK m : m = [addr |-> a, size |-> size, refs |-> [item[i].refs EXCEPT ![u] = @ + 1]]
    OBVIOUS
  <2>2. /\ bmem' = c /\ item' = [item EXCEPT ![i] = m]
        /\ holds' = [holds EXCEPT ![u][a] = @ + 1]
    <3>1. /\ bmem' = Malloced(bmem, Fits(bmem, size), size)
          /\ item' = [item EXCEPT ![busy[u].i] =
                        [addr |-> Offset(bmem, Fits(bmem, size)), size |-> size,
                         refs |-> [item[busy[u].i].refs EXCEPT ![u] = @ + 1]]]
          /\ holds' = [holds EXCEPT ![u][Offset(bmem, Fits(bmem, size))] = @ + 1]
      BY <1>1, <1>8 DEF AllocTake
    <3> QED BY <1>1, <2>1, <3>1
  <2>3. c \in Seq(Block) /\ Extent(c) <= Extent(bmem)
    <3>1. n \in 1 .. Len(bmem) /\ bmem[n].len >= size
      BY <1>1, <1>5, <1>8, FitsInside
    <3> QED BY <1>1, <1>5, <3>1, MallocedLength
  <2>4. /\ n \in 1 .. Len(bmem) /\ bmem[n].len >= size /\ bmem[n].len \in Nat /\ Len(bmem) \in Nat
    BY <1>1, <1>5, <1>8, FitsInside, BlocksTyped
  <2>5. a \in Nat /\ a + bmem[n].len <= Extent(bmem) /\ Extent(bmem) \in Nat
    <3>1. n \in 1 .. Len(bmem) + 1 /\ Len(bmem) + 1 \in 1 .. Len(bmem) + 1 /\ n \in 1 .. (Len(bmem) + 1) - 1
      BY <2>4
    <3> QED BY <1>1, <1>5, <3>1, OffsetsRise DEF Extent
  <2>6. a \in Addr /\ a + size <= Region
    BY <1>5, <2>4, <2>5 DEF Addr
  <2>7. m \in Entry /\ m.addr = a /\ m.size = size
    <3>1. PICK r : r = [item[i].refs EXCEPT ![u] = @ + 1]
      OBVIOUS
    <3>2. r \in [User -> Nat]
      BY <1>6, <3>1
    <3>3. m = [addr |-> a, size |-> size, refs |-> r]
      BY <2>1, <3>1
    <3> QED BY <2>6, <3>2, <3>3 DEF Entry
  <2>8. item' \in [Item -> Entry] /\ WithinRegion'
    BY <1>3, <2>2, <2>6, <2>7, EntryKeeps
  <2>9. holds' \in [User -> [Addr -> Nat]]
    BY <2>2, <2>6 DEF ShmInductive, ShmTypeOK
  <2>10. Extent(c) <= Region
    <3>1. Extent(c) \in Nat
      <4>1. Len(c) + 1 \in 1 .. Len(c) + 1
        BY <2>3, BlocksTyped
      <4> QED BY <2>3, <4>1, OffsetsRise DEF Extent
    <3> QED BY <1>5, <2>3, <2>5, <3>1
  <2>11. ShmTypeOK'
    BY <1>2, <1>4, <2>2, <2>3, <2>8, <2>9 DEF ShmInductive, ShmTypeOK, Entry, Block
  <2> QED BY <1>2, <1>4, <2>2, <2>8, <2>10, <2>11 DEF ShmInductive
<1> QED BY <1>7, <1>8

LEMMA RetainFindKeeps ==
  ASSUME ShmInductive, NEW u \in User, NEW a \in Addr, RetainFind(u, a)
  PROVE  ShmInductive'
<1>1. PICK i, e : i = First(With(a)) /\ e = [op |-> "retain", i |-> i, a |-> a]
  OBVIOUS
<1>2. /\ With(a) # {} /\ busy' = [busy EXCEPT ![u] = e]
      /\ bmem' = bmem /\ item' = item /\ made' = made /\ used_num' = used_num /\ holds' = holds
  BY <1>1 DEF RetainFind
<1>3. i \in Item
  <2>1. With(a) \in SUBSET Item
    BY DEF With
  <2>2. i \in With(a)
    BY <1>1, <1>2, <2>1, FirstIsThere
  <2> QED BY <2>1, <2>2
<1>4. /\ e \in [op : {"none", "alloc", "retain"}, i : Item \cup {<<0, 0>>}, a : Addr \cup {NoAddr}]
      /\ Calling(e)
  BY <1>1, <1>3 DEF Calling
<1>5. busy \in [User -> [op : {"none", "alloc", "retain"}, i : Item \cup {<<0, 0>>}, a : Addr \cup {NoAddr}]]
  BY DEF ShmInductive, ShmTypeOK
<1>6. busy'[u] = e /\ \A v \in User \ {u} : busy'[v] = busy[v]
  BY <1>2, <1>5
<1>7. busy' \in [User -> [op : {"none", "alloc", "retain"}, i : Item \cup {<<0, 0>>}, a : Addr \cup {NoAddr}]]
  BY <1>2, <1>4, <1>5
<1>8. \A v \in User : Calling(busy'[v])
  BY <1>4, <1>6 DEF ShmInductive
<1>9. ShmTypeOK'
  BY <1>2, <1>7 DEF ShmInductive, ShmTypeOK
<1> QED BY <1>2, <1>8, <1>9 DEF ShmInductive, WithinRegion, Used

LEMMA RetainLinkKeeps ==
  ASSUME ShmInductive, NEW u \in User, RetainLink(u)
  PROVE  ShmInductive'
<1>1. PICK i, a : i = busy[u].i /\ a = busy[u].a
  OBVIOUS
<1>2. /\ busy[u].op = "retain" /\ busy' = [busy EXCEPT ![u] = Idling] /\ bmem' = bmem
      /\ item' = [item EXCEPT ![i].refs[u] = @ + 1]
      /\ holds' = [holds EXCEPT ![u][a] = @ + 1]
      /\ made' = made /\ used_num' = used_num
  BY <1>1 DEF RetainLink
<1>3. i \in Item /\ a \in Addr
  BY <1>1, <1>2 DEF ShmInductive, Calling
<1>4. item \in [Item -> Entry] /\ item[i] \in Entry /\ item[i].refs \in [User -> Nat]
  BY <1>3, EntryTyped
<1>5. PICK r : r = [item[i].refs EXCEPT ![u] = @ + 1]
  OBVIOUS
<1>6. PICK m : m = [item[i] EXCEPT !.refs = r]
  OBVIOUS
<1>7. m \in Entry /\ m.addr = item[i].addr /\ m.size = item[i].size
  <2>1. r \in [User -> Nat]
    BY <1>4, <1>5
  <2> QED BY <1>4, <1>6, <2>1 DEF Entry
<1>8. item' = [item EXCEPT ![i] = m]
  BY <1>2, <1>5, <1>6
<1>9. m.size > 0 /\ m.addr # NoAddr => m.addr + m.size <= Region
  BY <1>3, <1>7 DEF ShmInductive, WithinRegion, Used
<1>10. item' \in [Item -> Entry] /\ WithinRegion'
  BY <1>3, <1>7, <1>8, <1>9, EntryKeeps
<1>11. holds' \in [User -> [Addr -> Nat]]
  BY <1>2, <1>3 DEF ShmInductive, ShmTypeOK
<1>12. /\ busy' \in [User -> [op : {"none", "alloc", "retain"}, i : Item \cup {<<0, 0>>},
                             a : Addr \cup {NoAddr}]]
       /\ \A v \in User : Calling(busy'[v])
  BY <1>2, EndsCall
<1>13. ShmTypeOK'
  BY <1>2, <1>10, <1>11, <1>12 DEF ShmInductive, ShmTypeOK, Entry
<1> QED BY <1>2, <1>10, <1>12, <1>13 DEF ShmInductive

LEMMA FreeKeeps ==
  ASSUME ShmInductive, NEW u \in User, NEW a \in Addr, Free(u, a)
  PROVE  ShmInductive'
<1>1. PICK i, last : i = First(With(a)) /\ (last <=> Unreferenced(i, u)) /\ last \in BOOLEAN
  OBVIOUS
<1>2. /\ holds[u][a] > 0 /\ With(a) # {} /\ item[i].refs[u] > 0
      /\ bmem' = IF last THEN Freed(bmem, a) ELSE bmem
      /\ item' = [item EXCEPT ![i].refs[u] = @ - 1, ![i].size = IF last THEN 0 ELSE @]
      /\ used_num' = IF last THEN [used_num EXCEPT ![i[1]] = @ - 1] ELSE used_num
      /\ holds' = [holds EXCEPT ![u][a] = @ - 1]
      /\ made' = made /\ busy' = busy
  BY <1>1 DEF Free
<1>3. i \in Item /\ i[1] <= made /\ used_num[i[1]] # 0 /\ i[1] \in Table
  <2>1. With(a) \in SUBSET Item
    BY DEF With
  <2>2. i \in With(a)
    BY <1>1, <1>2, <2>1, FirstIsThere
  <2> QED BY <2>1, <2>2 DEF With, Item
<1>4. item \in [Item -> Entry] /\ item[i] \in Entry /\ item[i].refs \in [User -> Nat]
      /\ item[i].size \in {0} \cup Sizes
  BY <1>3, EntryTyped
<1>5. PICK r, z : r = [item[i].refs EXCEPT ![u] = @ - 1] /\ z = IF last THEN 0 ELSE item[i].size
  OBVIOUS
<1>6. r \in [User -> Nat] /\ z \in {0} \cup Sizes
  BY <1>2, <1>4, <1>5
<1>7. PICK m : m = [item[i] EXCEPT !.refs = r, !.size = z]
  OBVIOUS
<1>8. m \in Entry /\ m.addr = item[i].addr /\ m.size = z
  BY <1>4, <1>6, <1>7 DEF Entry
<1>9. item' = [item EXCEPT ![i] = m]
  <2>1. item' = [item EXCEPT ![i].refs[u] = @ - 1, ![i].size = z]
    BY <1>2, <1>3, <1>4, <1>5
  <2> QED BY <1>3, <1>4, <1>5, <1>7, <2>1
<1>10. m.size > 0 /\ m.addr # NoAddr => m.addr + m.size <= Region
  BY <1>3, <1>5, <1>8 DEF ShmInductive, WithinRegion, Used
<1>11. item' \in [Item -> Entry] /\ WithinRegion'
  BY <1>3, <1>8, <1>9, <1>10, EntryKeeps
<1>12. holds' \in [User -> [Addr -> Nat]]
  BY <1>2 DEF ShmInductive, ShmTypeOK
<1>13. used_num' \in [Table -> 0 .. TabSize] /\ \A n \in Table : n > made' => used_num'[n] = 0
  <2>1. used_num \in [Table -> 0 .. TabSize] /\ made \in Nat /\ TabSize \in Nat
    BY ShmAssumption DEF ShmInductive, ShmTypeOK
  <2>2. used_num[i[1]] - 1 \in 0 .. TabSize
    BY <1>3, <2>1
  <2>3. \A n \in Table : n > made => n # i[1]
    BY <1>3, <2>1 DEF Table
  <2> QED BY <1>2, <1>3, <2>1, <2>2, <2>3 DEF ShmInductive
<1>14. bmem' \in Seq(Block) /\ Extent(bmem') <= Region
  <2>1. bmem \in Seq(Block) /\ Extent(bmem) <= Region /\ Region \in Nat
    BY ShmAssumption DEF ShmInductive, ShmTypeOK, Block
  <2>2. PICK c : c = Freed(bmem, a)
    OBVIOUS
  <2>3. c \in Seq(Block) /\ Extent(c) <= Extent(bmem)
    BY <2>1, <2>2, FreedLength
  <2>4. Extent(c) \in Nat /\ Extent(bmem) \in Nat
    <3>1. Len(c) + 1 \in 1 .. Len(c) + 1 /\ Len(bmem) + 1 \in 1 .. Len(bmem) + 1
      BY <2>1, <2>3, BlocksTyped
    <3> QED BY <2>1, <2>3, <3>1, OffsetsRise DEF Extent
  <2>5. Extent(c) <= Region
    BY <2>1, <2>3, <2>4
  <2> QED BY <1>2, <2>1, <2>2, <2>3, <2>5
<1>15. ShmTypeOK'
  BY <1>2, <1>11, <1>12, <1>13, <1>14 DEF ShmInductive, ShmTypeOK, Entry, Block
<1>16. Extent(bmem)' <= Region
  BY <1>14 DEF Extent
<1> QED BY <1>2, <1>11, <1>13, <1>15, <1>16 DEF ShmInductive

LEMMA ShmStutterKeeps ==
  ASSUME ShmInductive, UNCHANGED shmvars
  PROVE  ShmInductive'
BY DEF shmvars, ShmInductive, ShmTypeOK, WithinRegion, Used

LEMMA ShmNextKeeps ==
  ASSUME ShmInductive, ShmNext
  PROVE  ShmInductive'
<1>1. PICK u \in User :
        \/ AllocFind(u) \/ RetainLink(u)
        \/ \E size \in Sizes : AllocTake(u, size)
        \/ \E a \in Addr : RetainFind(u, a) \/ Free(u, a)
  BY DEF ShmNext
<1> QED BY <1>1, AllocFindKeeps, RetainLinkKeeps, AllocTakeKeeps, RetainFindKeeps, FreeKeeps

(* The region is one free block, and there is no table.                    *)
LEMMA ShmInitInductive ==
  ASSUME ShmInit
  PROVE  ShmInductive
<1>1. Region \in Nat \ {0} /\ Sizes \subseteq 1 .. Region /\ TabSize \in Nat \ {0} /\ TabMax \in Nat
  BY ShmAssumption
<1>2. bmem = << [len |-> Region, used |-> FALSE] >> /\ [len |-> Region, used |-> FALSE] \in Block
  BY <1>1 DEF ShmInit, Block
<1>3. bmem \in Seq(Block) /\ Len(bmem) = 1 /\ bmem[1].len = Region
  BY <1>2
<1>4. Offset(bmem, 1) = 0 /\ Offset(bmem, 1 + 1) = Offset(bmem, 1) + bmem[1].len
  BY <1>3, OffsetSteps
<1>5. Extent(bmem) <= Region
  BY <1>1, <1>3, <1>4 DEF Extent
<1>6. ShmTypeOK
  BY <1>1, <1>3 DEF ShmInit, ShmTypeOK, Block, Idling, Addr, NoAddr
<1>7. WithinRegion /\ (\A n \in Table : used_num[n] = 0) /\ \A u \in User : Calling(busy[u])
  BY DEF ShmInit, WithinRegion, Used, Calling, Idling
<1> QED BY <1>5, <1>6, <1>7 DEF ShmInductive

(* However the calls are interleaved, and whichever memory is freed, the   *)
(* blocks never get longer than the region together, and no memory that    *)
(* lwt_shm_alloc gives out reaches beyond its end.                         *)
THEOREM MemoryWithinRegion ==
  ShmSpec => [](ShmTypeOK /\ Extent(bmem) <= Region /\ WithinRegion)
<1>1. ShmInit => ShmInductive
  BY ShmInitInductive
<1>2. ShmInductive /\ [ShmNext]_shmvars => ShmInductive'
  BY ShmNextKeeps, ShmStutterKeeps
<1>3. ShmInductive => ShmTypeOK /\ Extent(bmem) <= Region /\ WithinRegion
  BY DEF ShmInductive
<1> QED BY <1>1, <1>2, <1>3, PTL DEF ShmSpec

(***************************************************************************)
(* All together: a behaviour of one kind leaves the variables of the other *)
(* two as they are.                                                        *)
(***************************************************************************)
BInductive == ChInductive /\ LwtInductive /\ ShmInductive

THEOREM BInductiveHolds ==
  ASSUME Orderly, IsFiniteSet(Thread)
  PROVE  BSpec => []BInductive
<1>1. BInit => BInductive
  BY ChInitInductive, LwtInitInductive, ShmInitInductive DEF BInit, BInductive
<1>2. ASSUME BInductive, [BNext]_bvars
      PROVE  BInductive'
  <2>1. [ChNext]_chvars /\ [LwtNext]_lwtvars /\ [ShmNext]_shmvars
    BY <1>2 DEF BNext, bvars
  <2>2. ChInductive'
    BY <1>2, <2>1, ChNextKeeps, ChStutter DEF BInductive
  <2>3. LwtInductive'
    BY <1>2, <2>1, LwtNextKeeps DEF BInductive
  <2>4. ShmInductive'
    BY <1>2, <2>1, ShmNextKeeps, ShmStutterKeeps DEF BInductive
  <2> QED BY <2>2, <2>3, <2>4 DEF BInductive
<1> QED BY <1>1, <1>2, PTL DEF BSpec

(* The variables of channels, processes and shared memory keep their types,*)
(* whatever is sent to whom, and however calls for memory are interleaved: *)
(* bin_channel_send takes no message from beyond the end of the pool,      *)
(* rt_lwt_new gives a slot of the map, and no block of lwt_shm.c is empty. *)
THEOREM BTypeCorrect ==
  ASSUME Orderly, IsFiniteSet(Thread)
  PROVE  BSpec => []BTypeOK
<1>1. BInductive => BTypeOK
  BY DEF BInductive, ChInductive, ChKernelSound, LwtInductive, ShmInductive, BTypeOK
<1> QED BY <1>1, BInductiveHolds, PTL
=============================================================================
