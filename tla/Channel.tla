------------------------------ MODULE Channel -------------------------------
(***************************************************************************)
(* The channels of src/src/ipc.c: receivers wait in a list, a send gives   *)
(* one message to each that waits at that moment, and, if it wants replies,*)
(* suspends its thread until every one of them has replied.  A message     *)
(* comes from a pool and is never given back.  One channel is modelled, in *)
(* programs of two kinds, as the tests and the server use it: either every *)
(* send wants replies and every receiver replies after each receive, or    *)
(* none does.                                                              *)
(***************************************************************************)
EXTENDS Kernel

CONSTANTS Sender, Receiver,
          NoThread,     \* RT_NULL in channel->reply
          PoolSize,     \* IPC_MSG_SIZE
          Uses,         \* kinds of programs: replies wanted, timeouts used
          Careful,      \* whether a thread that wants replies sends only while a
                        \* receiver waits and the pool suffices
          TakeTurns     \* whether such sends are made one after the other

ASSUME ChannelAssumption ==
  /\ WaitList = {"channel"}
  /\ Sender \cup Receiver \subseteq Thread \ {Idle} /\ NoThread \notin Thread
  /\ PoolSize \in Nat
  /\ Uses \subseteq [replies : BOOLEAN, timed : BOOLEAN]
  /\ Careful \in BOOLEAN /\ TakeTurns \in BOOLEAN

VARIABLES
  use,     \* the kind of the program
  ch,      \* reply, reader_queue.waiting_list, wait_msg, and ipc_msg_pos
  msgRet   \* thread->msg_ret: a message of the pool, or 0

chvars == <<k, at, use, ch, msgRet>>

ChLabel == {"run", "recvSchedule", "received", "reply", "sendSchedule", "collect",
            "unread", "replyError", "noMessage"}

ChInit ==
  /\ KernelInit(Thread)
  /\ use \in Uses
  /\ ch = [reply |-> NoThread, waiting |-> << >>, arrived |-> << >>, pos |-> 0]
  /\ msgRet = [t \in Thread |-> 0]

(***************************************************************************)
(* bin_channel_recv.  The thread always waits, and finds what it has been  *)
(* sent in msg_ret; its error is the one left over from any earlier wait.  *)
(***************************************************************************)
RecvBegin(t, timed) ==
  /\ MayBlock(t) /\ t \in Receiver
  /\ LET q == SuspendOn(k, t, "channel", "fifo") IN k' = IF timed THEN StartTimer(q, t) ELSE q
  /\ Goto(t, "recvSchedule")
  /\ UNCHANGED <<use, ch, msgRet>>

RecvSchedule(t) == ScheduleStep(t, "recvSchedule", "received") /\ UNCHANGED <<use, ch, msgRet>>

AfterRecv == IF use.replies THEN "reply" ELSE "run"

RecvFails(t) ==
  /\ At(t, "received") /\ k.err[t] # "EOK"
  /\ Goto(t, AfterRecv)
  /\ UNCHANGED <<k, use, ch, msgRet>>

(* The message is read; where a reply is wanted, msg_ret is not cleared.   *)
RecvRead(t) ==
  /\ At(t, "received") /\ k.err[t] = "EOK"
  /\ msgRet' = IF ch.reply = NoThread THEN [msgRet EXCEPT ![t] = 0] ELSE msgRet
  /\ Goto(t, AfterRecv)
  /\ UNCHANGED <<k, use, ch>>

(***************************************************************************)
(* bin_channel_send.                                                       *)
(***************************************************************************)
(* Faulty variant: no reply is expected of the receiver.                   *)
GivenUnexpected(s, w, m) ==
  LET given == [s EXCEPT !.k = Resume(s.k, w), !.msgRet[w] = m]
  IN  IF s.to # "sendSchedule" THEN s
      ELSE IF s.msgRet[w] # 0 THEN [s EXCEPT !.to = "unread"]
      ELSE IF use.replies /\ s.ch.pos = PoolSize THEN [given EXCEPT !.to = "noMessage"]
      ELSE given

(* One turn of the loop over the waiting threads, on the state s of the    *)
(* call: the thread w gets the message m, unless it has not taken its last *)
(* one, for which the sender then waits in vain.  The reply that is        *)
(* expected is taken from the pool, without a test that there is one.      *)
Given(s, w, m) ==
  LET given    == [s EXCEPT !.k = Resume(s.k, w), !.msgRet[w] = m]
      expected == [given EXCEPT !.ch.pos = s.ch.pos + 1, !.ch.waiting = <<w>> \o s.ch.waiting]
  IN  IF s.to # "sendSchedule" THEN s
      ELSE IF s.msgRet[w] # 0 THEN [s EXCEPT !.to = "unread"]
      ELSE IF ~ use.replies THEN given
      ELSE IF s.ch.pos = PoolSize THEN [given EXCEPT !.to = "noMessage"]
      ELSE expected

(* The region that is locked, from the allocation of the message on.       *)
Sent(t) ==
  LET m == ch.pos + 1
  IN  FoldLeft(LAMBDA s, w : Given(s, w, m),
               [k |-> k, msgRet |-> msgRet, to |-> "sendSchedule",
                ch |-> [ch EXCEPT !.pos = m, !.reply = IF use.replies THEN t ELSE @]],
               k.wl["channel"])

InSend(t) == at[t] \in {"sendSchedule", "collect"}

(* What the callers have to see to.                                        *)
MaySend ==
  use.replies =>
    /\ Careful => k.wl["channel"] # << >> /\ ch.pos + 1 + Cardinality(Receiver) <= PoolSize
    /\ TakeTurns => \A u \in Thread : ~ InSend(u)

(* need_schedule is not initialized: without a receiver it may be anything.*)
AfterSend(woke) ==
  IF woke THEN {"sendSchedule"}
  ELSE {"sendSchedule", IF use.replies THEN "collect" ELSE "run"}

SendBegin(t) ==
  /\ MayBlock(t) /\ t \in Sender /\ ch.pos < PoolSize /\ MaySend
  /\ LET s == Sent(t)
     IN  /\ ch' = s.ch /\ msgRet' = s.msgRet
         /\ IF s.to = "sendSchedule"
              THEN /\ k' = IF use.replies THEN Suspend(s.k, t) ELSE s.k
                   /\ \E a \in AfterSend(k.wl["channel"] # << >>) : Goto(t, a)
              ELSE k' = s.k /\ Goto(t, s.to)
  /\ UNCHANGED use

SendSchedule(t) ==
  /\ ScheduleStep(t, "sendSchedule", IF use.replies THEN "collect" ELSE "run")
  /\ UNCHANGED <<use, ch, msgRet>>

(* Faulty variant: one reply is taken for each time the thread is woken.   *)
CollectOne(t) ==
  /\ At(t, "collect")
  /\ IF ch.arrived = << >>
       THEN Goto(t, "replyError") /\ UNCHANGED <<k, ch>>
       ELSE /\ ch' = [ch EXCEPT !.arrived = Tail(@)]
            /\ IF Len(ch.arrived) = 1 /\ ch.waiting = << >>
                 THEN Goto(t, "run") /\ UNCHANGED k
                 ELSE Goto(t, "sendSchedule") /\ k' = Suspend(k, t)
  /\ UNCHANGED <<use, msgRet>>

(* The replies that have come are taken; while others are expected, the    *)
(* thread suspends itself again.  To be woken without a reply ends in an   *)
(* endless loop.                                                           *)
Collect(t) ==
  /\ At(t, "collect")
  /\ ch' = [ch EXCEPT !.arrived = << >>]
  /\ IF ch.arrived = << >> THEN Goto(t, "replyError") /\ UNCHANGED k
     ELSE IF ch.waiting = << >> THEN Goto(t, "run") /\ UNCHANGED k
     ELSE Goto(t, "sendSchedule") /\ k' = Suspend(k, t)
  /\ UNCHANGED <<use, msgRet>>

(***************************************************************************)
(* bin_channel_reply: an error unless a reply is expected of the caller.   *)
(***************************************************************************)
(* Faulty variant: msg_ret stays.                                          *)
AnsweredUncleared(m, t) == m

Answered(m, t) == [m EXCEPT ![t] = 0]

Reply(t) ==
  /\ At(t, "reply")
  /\ IF t \in Range(ch.waiting)
       THEN /\ ch' = [ch EXCEPT !.waiting = Unlinked(@, t), !.arrived = <<t>> \o @]
            /\ msgRet' = Answered(msgRet, t)
            /\ k' = Resume(k, ch.reply)
       ELSE UNCHANGED <<k, ch, msgRet>>
  /\ Goto(t, "run")
  /\ UNCHANGED use

(***************************************************************************)
(* Specification.  The processor goes on with the calls in progress, and a *)
(* receiver that has nothing else to do receives again; the clock takes    *)
(* the processor from a thread that computes.                              *)
(***************************************************************************)
Progress ==
  \E t \in Thread :
    \/ \E timed \in {FALSE, use.timed} : RecvBegin(t, timed)
    \/ RecvSchedule(t) \/ RecvFails(t) \/ RecvRead(t) \/ Reply(t)
    \/ SendSchedule(t) \/ Collect(t)

ChSlice == SliceEnd /\ UNCHANGED <<use, ch, msgRet>>

ChTimeout == \E t \in Thread : TimerExpires(t) /\ UNCHANGED <<use, ch, msgRet>>

ChNext == Progress \/ ChSlice \/ ChTimeout \/ \E t \in Thread : SendBegin(t)

ChFairness == SF_chvars(Progress) /\ WF_chvars(ChSlice /\ at[k.cur] = "run")

ChSpec == ChInit /\ [][ChNext]_chvars /\ ChFairness

(***************************************************************************)
(* Properties.                                                             *)
(***************************************************************************)
ChTypeOK ==
  /\ k \in KernelState /\ at \in [Thread -> ChLabel]
  /\ use \in Uses
  /\ ch \in [reply : Thread \cup {NoThread}, waiting : Seq(Receiver),
             arrived : Seq(Receiver), pos : 0 .. PoolSize]
  /\ msgRet \in [Thread -> 0 .. PoolSize]

(* No sender ends up in one of the endless loops of bin_channel_send or    *)
(* with a message that could not be allocated: it never finds a receiver   *)
(* that waits with an unread message, and is never woken without a reply.  *)
NeverStuck == \A t \in Thread : at[t] \notin {"unread", "replyError", "noMessage"}

(* No send has run out of messages.                                        *)
Sufficed == \A t \in Thread : at[t] # "noMessage"

(* No receiver waits with a message that it has not read.                  *)
NobodySkipped == \A t \in Range(k.wl["channel"]) : msgRet[t] = 0

(* Replies are expected exactly of the receivers that have been given a    *)
(* message and have not replied, each once, and none of these waits for    *)
(* another message, as long as the pool suffices.                          *)
OwedExact ==
  use.replies /\ Sufficed =>
    /\ IsInjective(ch.waiting) /\ Range(ch.waiting) = {t \in Thread : msgRet[t] # 0}
    /\ NobodySkipped

(* Also, they are expected, or there, only while the sender that they wake *)
(* is in its call: nothing is left over for the next send.                 *)
RepliesExact ==
  /\ OwedExact /\ NobodySkipped
  /\ ch.waiting # << >> \/ ch.arrived # << >> => InSend(ch.reply)

(* A send returns, with all its replies, however the receivers take turns; *)
(* not so if receivers that wait with timeouts leave it no processor time. *)
SendReturns == \A t \in Sender : InSend(t) /\ ~ use.timed ~> ~ InSend(t)
=============================================================================
