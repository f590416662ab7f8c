------------------------------- MODULE Event --------------------------------
(***************************************************************************)
(* The events of src/src/ipc.c: a set of bits, and threads that wait until *)
(* all (AND) or any (OR) of the bits they name are in it.  A send looks at *)
(* every waiter in turn; a waiter that asks for it (CLEAR) takes its bits  *)
(* out of the set before the next one is looked at.                        *)
(***************************************************************************)
EXTENDS Ipc

CONSTANTS Bit,
          Wants     \* bound: the receives that are tried

ASSUME EventAssumption ==
  /\ IsFiniteSet(Bit)
  /\ Wants \subseteq [bits : (SUBSET Bit) \ {{}}, option : {"and", "or"}, clear : BOOLEAN]

VARIABLES set,      \* event->set
          want      \* event_set and event_info of each thread in a receive

Want == [bits : SUBSET Bit, option : {"and", "or"}, clear : BOOLEAN]

NoWant == [bits |-> {}, option |-> "or", clear |-> FALSE]

EvInit == set = {} /\ want = [t \in Thread |-> NoWant]

EvCall(timed) == [op |-> "recv", item |-> NoItem, timed |-> timed]

Satisfied(w, s) == IF w.option = "and" THEN w.bits \subseteq s ELSE w.bits \cap s # {}

(* Faulty variant: the bits stay.                                          *)
ClearedNever(w, s) == s

Cleared(w, s) == IF w.clear THEN s \ w.bits ELSE s

EvRecv(t, w) ==
  /\ Begins(t) /\ Satisfied(w, set)
  /\ k' = ClearError(k, t)
  /\ set' = Cleared(w, set)
  /\ UNCHANGED <<at, call, alive, last, epoch, want>>

EvRecvFails(t, w) ==
  /\ Begins(t) /\ ~ Satisfied(w, set)
  /\ k' = [k EXCEPT !.err[t] = "ETIMEOUT"]
  /\ UNCHANGED <<at, call, alive, last, epoch, set, want>>

EvRecvWaits(t, w, timed) ==
  /\ Begins(t) /\ ~ Satisfied(w, set)
  /\ Waits(t, "recv", EvCall(timed))
  /\ want' = [want EXCEPT ![t] = w]
  /\ UNCHANGED <<alive, last, epoch, set>>

(* Back without an error: event_set is what was received.                  *)
EvReceived(t) ==
  /\ \E timed \in BOOLEAN : GoesOn(t, EvCall(timed))
  /\ Ends(t, "run")
  /\ want' = [want EXCEPT ![t] = NoWant]
  /\ UNCHANGED <<k, alive, last, epoch, set>>

EvFails(t) ==
  /\ WokenFails(t)
  /\ want' = [want EXCEPT ![t] = NoWant]
  /\ UNCHANGED set

(* One waiter after the other, e.k the kernel, e.set and e.want so far; an *)
(* OR receives those of its bits that are in the set.                      *)
Served(e, t) ==
  IF Satisfied(e.want[t], e.set)
    THEN LET w == [e.want[t] EXCEPT !.bits = @ \cap e.set]
         IN  [k |-> Resume(e.k, t), set |-> Cleared(w, e.set), want |-> [e.want EXCEPT ![t] = w]]
    ELSE e

(* Faulty variant: the loop ends with the first waiter.                    *)
SentToFirst(bits) ==
  LET e == [k |-> k, set |-> set \cup bits, want |-> want]
  IN  IF k.wl["recv"] = << >> THEN e ELSE Served(e, Head(k.wl["recv"]))

Sent(bits) ==
  FoldLeft(Served, [k |-> k, set |-> set \cup bits, want |-> want], k.wl["recv"])

EvSend(t, bits) ==
  /\ Begins(t)
  /\ LET e == Sent(bits)
     IN  /\ k' = e.k /\ set' = e.set /\ want' = e.want
         /\ Goto(t, IF e.k = k THEN "run" ELSE "schedule")
  /\ UNCHANGED ivars

EvSendIsr(bits) ==
  /\ alive
  /\ LET e == Sent(bits)
     IN  k' = (IF e.k = k THEN k ELSE Schedule(e.k)) /\ set' = e.set /\ want' = e.want
  /\ UNCHANGED <<at, call, alive, last, epoch>>

EvReset(t) == ResetWaiters(t) /\ set' = {} /\ UNCHANGED want

EvNext ==
  \/ IpcStep /\ UNCHANGED <<set, want>>
  \/ \E bits \in (SUBSET Bit) \ {{}} :
       \/ EvSendIsr(bits)
       \/ \E t \in Thread : EvSend(t, bits)
  \/ \E t \in Thread :
       \/ EvReceived(t) \/ EvFails(t) \/ EvReset(t)
       \/ \E w \in Wants :
            \/ EvRecv(t, w) \/ EvRecvFails(t, w)
            \/ \E timed \in BOOLEAN : EvRecvWaits(t, w, timed)

(* No event is missed: no thread waits in rt_event_recv for bits that are  *)
(* in the set, however sends, clears and receives that do not wait have    *)
(* followed each other; rt_event_send looks at each waiter once only.      *)
NoMissedEvent == alive => \A t \in Range(k.wl["recv"]) : ~ Satisfied(want[t], set)

(* Threads that the step from the unprimed state let go without an error.  *)
LetGo(t) == t \in Range(k.wl["recv"]) /\ k'.stat[t] # "suspend" /\ k'.err[t] = "EOK"

(* No event is received twice: two threads that rt_event_send lets go at   *)
(* once, and that asked for CLEAR, have got different bits.                *)
ReceivedOnce ==
  [][\A t, u \in Thread :
       t # u /\ LetGo(t) /\ LetGo(u) /\ want'[t].clear /\ want'[u].clear =>
         want'[t].bits \cap want'[u].bits = {}]_<<k, want>>
=============================================================================
