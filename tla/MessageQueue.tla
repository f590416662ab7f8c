---------------------------- MODULE MessageQueue ----------------------------
(***************************************************************************)
(* The message queues of src/src/ipc.c.  A message is copied into its slot *)
(* after the slot is taken off the free list, and out of it before the     *)
(* slot goes back there, with interrupts enabled: each call is two locked  *)
(* regions, and a slot in between belongs to the call.                     *)
(***************************************************************************)
EXTENDS Ipc

CONSTANT Slot           \* the places of the message pool

ASSUME MqAssumption == IsFiniteSet(Slot) /\ Slot # {}

VARIABLES mq,           \* the message queue
          own           \* own[t]: the slots of t's call in progress, at most one

MqInit ==
  /\ mq = [free |-> SetToSeq(Slot), queue |-> << >>, entry |-> 0,
           content |-> [x \in Slot |-> NoItem]]
  /\ own = [t \in Thread |-> {}]

MqSendCall(x, timed) == [op |-> "send", item |-> x, timed |-> timed]

MqUrgentCall(x) == [op |-> "urgent", item |-> x, timed |-> FALSE]

MqRecvCall(timed) == [op |-> "recv", item |-> NoItem, timed |-> timed]

FreeSlot == mq.free # << >>

(* The first region of a send, ordinary or urgent: a slot is taken.        *)
Allocates(t, c) ==
  /\ FreeSlot
  /\ mq' = [mq EXCEPT !.free = Tail(@)]
  /\ own' = [own EXCEPT ![t] = {Head(mq.free)}]
  /\ Goto(t, "copyIn") /\ call' = [call EXCEPT ![t] = c]
  /\ UNCHANGED <<k, alive, last, epoch>>

MqSend(t, c) == Tries(t, c) /\ Allocates(t, c)

MqUrgent(t, c) == Begins(t) /\ Allocates(t, c)

MqSendWaits(t, c) ==
  /\ Tries(t, c) /\ ~ FreeSlot
  /\ Waits(t, "send", c)
  /\ UNCHANGED <<alive, last, epoch, mq, own>>

MqSendFails(t, c) ==
  /\ GivesUp(t, c) /\ ~ FreeSlot
  /\ k' = IF At(t, "woken") THEN ClearError(k, t) ELSE k
  /\ Ends(t, "run")
  /\ UNCHANGED <<alive, last, epoch, mq, own>>

(* The second one: the message is linked, at the tail or the head.         *)
Linked(s, x, op) ==
  [mq EXCEPT !.content[s] = x, !.entry = @ + 1,
             !.queue = IF op = "urgent" THEN <<s>> \o @ ELSE Append(@, s)]

MqLink(t) ==
  /\ At(t, "copyIn")
  /\ \E s \in own[t] : mq' = Linked(s, call[t].item, call[t].op)
  /\ own' = [own EXCEPT ![t] = {}]
  /\ EndsWaking(t, "recv")
  /\ UNCHANGED <<alive, last, epoch>>

(* A send, ordinary or urgent, from an interrupt handler.                  *)
MqSendIsr(x, op) ==
  /\ alive /\ FreeSlot
  /\ mq' = [Linked(Head(mq.free), x, op) EXCEPT !.free = Tail(@)]
  /\ IsrWaking("recv")
  /\ UNCHANGED <<call, alive, last, epoch, own>>

(* Faulty variant: the slot is free before its message is copied.          *)
MqRecvFreeFirst(t, c) ==
  /\ Tries(t, c) /\ mq.entry > 0
  /\ own' = [own EXCEPT ![t] = {Head(mq.queue)}]
  /\ last' = mq.content[Head(mq.queue)]
  /\ mq' = [mq EXCEPT !.queue = Tail(@), !.entry = @ - 1, !.free = <<Head(mq.queue)>> \o @]
  /\ Goto(t, "copyOut") /\ call' = [call EXCEPT ![t] = [c EXCEPT !.item = last']]
  /\ UNCHANGED <<k, alive, epoch>>

(* The first region of a receive takes the message, which call remembers   *)
(* until it is copied; the second puts its slot back.                      *)
MqRecv(t, c) ==
  /\ Tries(t, c) /\ mq.entry > 0
  /\ own' = [own EXCEPT ![t] = {Head(mq.queue)}]
  /\ last' = mq.content[Head(mq.queue)]
  /\ mq' = [mq EXCEPT !.queue = Tail(@), !.entry = @ - 1]
  /\ Goto(t, "copyOut") /\ call' = [call EXCEPT ![t] = [c EXCEPT !.item = last']]
  /\ UNCHANGED <<k, alive, epoch>>

MqRecvWaits(t, c) ==
  /\ Tries(t, c) /\ mq.entry = 0
  /\ Waits(t, "recv", c)
  /\ UNCHANGED <<alive, last, epoch, mq, own>>

MqRecvFails(t, c) ==
  /\ GivesUp(t, c) /\ mq.entry = 0
  /\ k' = IF At(t, "woken") THEN [k EXCEPT !.err[t] = "ETIMEOUT"] ELSE k
  /\ Ends(t, "run")
  /\ UNCHANGED <<alive, last, epoch, mq, own>>

MqFree(t) ==
  /\ At(t, "copyOut")
  /\ \E s \in own[t] : mq' = [mq EXCEPT !.free = <<s>> \o @]
  /\ own' = [own EXCEPT ![t] = {}]
  /\ EndsWaking(t, "send")
  /\ UNCHANGED <<alive, last, epoch>>

MqReset(t) ==
  /\ ResetWaiters(t)
  /\ mq' = [mq EXCEPT !.queue = << >>, !.entry = 0, !.free = Reverse(mq.queue) \o @]
  /\ UNCHANGED own

MqNext ==
  \/ IpcStep /\ UNCHANGED <<mq, own>>
  \/ \E x \in Item, op \in {"send", "urgent"} : MqSendIsr(x, op)
  \/ \E t \in Thread :
       \/ WokenFails(t) /\ UNCHANGED <<mq, own>>
       \/ MqReset(t) \/ MqLink(t) \/ MqFree(t)
       \/ \E timed \in BOOLEAN :
            LET c == MqRecvCall(timed) IN MqRecv(t, c) \/ MqRecvWaits(t, c) \/ MqRecvFails(t, c)
       \/ \E x \in Item, timed \in BOOLEAN :
            LET c == MqSendCall(x, timed) IN MqSend(t, c) \/ MqSendWaits(t, c) \/ MqSendFails(t, c)
       \/ \E x \in Item : MqUrgent(t, MqUrgentCall(x))

Messages == [i \in DOMAIN mq.queue |-> mq.content[mq.queue[i]]]

(* In how many places a slot is.                                           *)
Places(s) ==
  (IF s \in Range(mq.free) THEN 1 ELSE 0) + (IF s \in Range(mq.queue) THEN 1 ELSE 0)
    + Cardinality({t \in Thread : s \in own[t]})

(* Every slot of the pool is in exactly one place, free, queued, or with   *)
(* one call of rt_mq_send_wait, rt_mq_urgent or rt_mq_recv between its two *)
(* locked regions, also if the queue is reset there; the count the loops   *)
(* test is the length of the list they take from; and a message that is    *)
(* being copied out is still the one that was taken.                       *)
SlotsExact ==
  /\ IsInjective(mq.free) /\ IsInjective(mq.queue)
  /\ \A s \in Slot : Places(s) = 1
  /\ mq.entry = Len(mq.queue)
  /\ \A t \in Thread : at[t] = "copyOut" => \A s \in own[t] : mq.content[s] = call[t].item
=============================================================================
