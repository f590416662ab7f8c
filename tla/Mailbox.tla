------------------------------ MODULE Mailbox -------------------------------
(***************************************************************************)
(* The mailboxes of src/src/ipc.c: a ring of mails with a list of waiting  *)
(* receivers and one of waiting senders.  Who is woken looks at the        *)
(* mailbox again, and may find that another thread was faster.             *)
(***************************************************************************)
EXTENDS Ipc

CONSTANT MbSize

ASSUME MbAssumption == MbSize \in Nat \ {0}

VARIABLE mb

Ring == 0 .. MbSize - 1

Mailbox == [pool : [Ring -> Item \cup {NoItem}], entry : 0 .. MbSize, in : Ring, out : Ring]

EmptyMailbox == [pool |-> [i \in Ring |-> NoItem], entry |-> 0, in |-> 0, out |-> 0]

MbInit == mb = EmptyMailbox

MbSendCall(x, timed) == [op |-> "send", item |-> x, timed |-> timed]

MbRecvCall(timed) == [op |-> "recv", item |-> NoItem, timed |-> timed]

After(i) == (i + 1) % MbSize

(* Faulty variant: a full ring is overwritten.                             *)
RoomAlways == TRUE

Room == mb.entry < MbSize

Stored(x) == [mb EXCEPT !.pool[mb.in] = x, !.in = After(@), !.entry = @ + 1]

MbSend(t, c) ==
  /\ Tries(t, c) /\ Room
  /\ mb' = Stored(c.item)
  /\ EndsWaking(t, "recv")
  /\ UNCHANGED <<alive, last, epoch>>

MbSendIsr(x) ==
  /\ alive /\ Room
  /\ mb' = Stored(x)
  /\ IsrWaking("recv")
  /\ UNCHANGED ivars

MbSendWaits(t, c) ==
  /\ Tries(t, c) /\ ~ Room
  /\ Waits(t, "send", c)
  /\ UNCHANGED <<alive, last, epoch, mb>>

MbSendFails(t, c) ==
  /\ GivesUp(t, c) /\ ~ Room
  /\ k' = IF At(t, "woken") THEN ClearError(k, t) ELSE k
  /\ Ends(t, "run")
  /\ UNCHANGED <<alive, last, epoch, mb>>

(* Faulty variant: a receiver makes room and tells nobody.                 *)
MbRecvSilent(t, c) ==
  /\ Tries(t, c) /\ mb.entry > 0
  /\ last' = mb.pool[mb.out]
  /\ mb' = [mb EXCEPT !.out = After(@), !.entry = @ - 1]
  /\ Ends(t, "run")
  /\ UNCHANGED <<k, alive, epoch>>

MbRecv(t, c) ==
  /\ Tries(t, c) /\ mb.entry > 0
  /\ last' = mb.pool[mb.out]
  /\ mb' = [mb EXCEPT !.out = After(@), !.entry = @ - 1]
  /\ EndsWaking(t, "send")
  /\ UNCHANGED <<alive, epoch>>

MbRecvWaits(t, c) ==
  /\ Tries(t, c) /\ mb.entry = 0
  /\ Waits(t, "recv", c)
  /\ UNCHANGED <<alive, last, epoch, mb>>

MbRecvFails(t, c) ==
  /\ GivesUp(t, c) /\ mb.entry = 0
  /\ k' = IF At(t, "woken") THEN [k EXCEPT !.err[t] = "ETIMEOUT"] ELSE k
  /\ Ends(t, "run")
  /\ UNCHANGED <<alive, last, epoch, mb>>

MbReset(t) ==
  /\ ResetWaiters(t)
  /\ mb' = [mb EXCEPT !.entry = 0, !.in = 0, !.out = 0]

MbNext ==
  \/ IpcStep /\ UNCHANGED mb
  \/ \E x \in Item : MbSendIsr(x)
  \/ \E t \in Thread :
       \/ WokenFails(t) /\ UNCHANGED mb
       \/ MbReset(t)
       \/ \E timed \in BOOLEAN :
            LET c == MbRecvCall(timed) IN MbRecv(t, c) \/ MbRecvWaits(t, c) \/ MbRecvFails(t, c)
       \/ \E x \in Item, timed \in BOOLEAN :
            LET c == MbSendCall(x, timed) IN MbSend(t, c) \/ MbSendWaits(t, c) \/ MbSendFails(t, c)

(* The mails in the ring, the oldest first.                                *)
Mails == [i \in 1 .. mb.entry |-> mb.pool[(mb.out + i - 1) % MbSize]]
=============================================================================
