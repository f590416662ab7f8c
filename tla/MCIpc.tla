------------------------------- MODULE MCIpc --------------------------------
(***************************************************************************)
(* The services together: every behaviour is that of one object of one of  *)
(* them, chosen at the start.                                              *)
(***************************************************************************)
EXTENDS Semaphore, Mailbox, MessageQueue, Mempool, Event

CONSTANTS L, H, idle, Kinds

VARIABLE kind

TwoThreads == [t \in {L, H, idle} |-> IF t = H THEN 0 ELSE IF t = L THEN 1 ELSE 2]

(* All of two bits, or any of them, or one: the bits are taken out or stay.*)
SomeWants ==
  {[bits |-> Bit, option |-> "and", clear |-> TRUE], [bits |-> Bit, option |-> "or", clear |-> TRUE],
   [bits |-> Bit, option |-> "and", clear |-> FALSE], [bits |-> {1}, option |-> "or", clear |-> TRUE]}

objects == <<value, mb, mq, own, mp, holder, set, want>>

CInit ==
  /\ kind \in Kinds
  /\ IpcInit /\ SemInit /\ MbInit /\ MqInit /\ MpInit /\ EvInit
  /\ kind # "sem" => value = 0

CNext ==
  /\ UNCHANGED kind
  /\ \/ kind = "sem" /\ SemNext /\ UNCHANGED <<mb, mq, own, mp, holder, set, want>>
     \/ kind = "mb" /\ MbNext /\ UNCHANGED <<value, mq, own, mp, holder, set, want>>
     \/ kind = "mq" /\ MqNext /\ UNCHANGED <<value, mb, mp, holder, set, want>>
     \/ kind = "mp" /\ MpNext /\ UNCHANGED <<value, mb, mq, own, set, want>>
     \/ kind = "ev" /\ EvNext /\ UNCHANGED <<value, mb, mq, own, mp, holder>>

cvars == <<k, at, call, alive, last, epoch, objects, kind>>

CSpec == CInit /\ [][CNext]_cvars

(* The view of the model checker: what a later step can read.  It leaves   *)
(* out the message in a slot that is free or is being filled, the mails    *)
(* outside the window of the ring, the error of a thread that is not in a  *)
(* wait, and the item received last, which only the step that sets it is   *)
(* asked about.                                                            *)
Live ==
  <<[k EXCEPT !.err = [t \in Thread |-> IF at[t] \in {"wait", "woken"} THEN k.err[t] ELSE "EOK"]],
    at, call, alive, epoch, kind, value, <<Mails, mb.entry, mb.in, mb.out>>,
    <<mq.free, mq.queue, mq.entry,
      [s \in Slot |-> IF s \in Range(mq.queue) \/ \E t \in Thread : at[t] = "copyOut" /\ s \in own[t]
                      THEN mq.content[s] ELSE NoItem]>>,
    own, mp, holder, set, want>>

(***************************************************************************)
(* Properties.                                                             *)
(***************************************************************************)
(* Type of the services: in particular no count leaves its range.          *)
CTypeOK ==
  /\ IpcTypeOK
  /\ value \in 0 .. ValueMax
  /\ mb \in Mailbox
  /\ mq.free \in BoundedSeq(Slot, Cardinality(Slot)) /\ mq.queue \in BoundedSeq(Slot, Cardinality(Slot))
  /\ mq.entry \in 0 .. Cardinality(Slot) /\ mq.content \in [Slot -> Item \cup {NoItem}]
  /\ own \in [Thread -> SUBSET Slot]
  /\ mp.list \in BoundedSeq(Blocks, Cardinality(Blocks)) /\ mp.count \in 0 .. Cardinality(Blocks)
  /\ holder \in [Blocks -> SUBSET Thread]
  /\ set \subseteq Bit
  /\ want \in [Thread -> Want]

(* What is stored in the object, seen from outside.                        *)
Contents ==
  CASE kind = "sem" -> [i \in 1 .. Tokens |-> Token]
    [] kind = "mb" -> Mails
    [] kind = "mq" -> Messages
    [] kind = "mp" -> mp.list
    [] kind = "ev" -> << >>

Limit ==
  CASE kind = "sem" -> ValueMax + Cardinality(Thread)
    [] kind = "mb" -> MbSize
    [] kind = "mq" -> Cardinality(Slot)
    [] kind = "mp" -> Cardinality(Blocks)
    [] kind = "ev" -> 0

(* The room a sender finds: slots of messages under way are not free.      *)
Spare == IF kind = "mq" THEN Len(mq.free) ELSE Limit - Len(Contents)

Abstract == INSTANCE Store WITH items <- Contents, capacity <- Limit

(* Seen from outside, a semaphore, a mailbox, a message queue and a memory *)
(* pool are a bounded store whatever the threads, handlers and timeouts    *)
(* do: every item that is taken, sent or freed goes in once and comes out  *)
(* once and in order, never more than fit, though a call waits, is woken,  *)
(* loses the race for its item, and waits again.                           *)
IsStore == Abstract!Spec

(* No wake-up is lost: a thread waits in take, send, receive or alloc for  *)
(* what the object has only while as many threads have been woken for it   *)
(* and have not looked yet, so each release wakes enough; and the deletion *)
(* of an object leaves no thread in its lists.                             *)
NoWaiterForgotten ==
  /\ alive /\ k.wl["recv"] # << >> => Len(Contents) <= Cardinality(OnTheirWay("recv"))
  /\ alive /\ k.wl["send"] # << >> => Spare <= Cardinality(OnTheirWay("send"))
  /\ ~ alive /\ (\A t \in Thread : at[t] \notin {"deleteTest", "deleteRecv", "deleteSend", "fault"}) =>
       k.wl["recv"] = << >> /\ k.wl["send"] = << >>
=============================================================================
