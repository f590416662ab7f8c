----------------------------- MODULE Semaphore ------------------------------
(***************************************************************************)
(* The semaphores of src/src/ipc.c: a count, and a release that hands its  *)
(* token straight to the first waiter, whose call then just returns.       *)
(***************************************************************************)
EXTENDS Ipc

CONSTANT ValueMax       \* bound on the count; the code's is 65535, unchecked

ASSUME SemAssumption == ValueMax \in Nat

VARIABLE value          \* sem->value

svars == <<k, at, call, alive, last, epoch, value>>

Token == CHOOSE x \in Item : TRUE

TakeCall(timed) == [op |-> "recv", item |-> NoItem, timed |-> timed]

SemInit == value \in 0 .. ValueMax

SemTake(t) ==
  /\ Begins(t) /\ value > 0
  /\ value' = value - 1
  /\ last' = Token
  /\ UNCHANGED <<k, at, call, alive, epoch>>

(* A take with time 0 of a semaphore that is not available changes nothing.*)
SemWaits(t, timed) ==
  /\ Begins(t) /\ value = 0
  /\ Waits(t, "recv", TakeCall(timed))
  /\ UNCHANGED <<alive, last, epoch, value>>

(* Back without an error: the token was handed over.                       *)
SemTaken(t) ==
  /\ \E timed \in BOOLEAN : GoesOn(t, TakeCall(timed))
  /\ last' = Token
  /\ Ends(t, "run")
  /\ UNCHANGED <<k, alive, epoch, value>>

(* Faulty variant: the token that is handed over is counted as well.       *)
CountAlways == (value + 1) % 65536

Counted == IF k.wl["recv"] = << >> THEN (value + 1) % 65536 ELSE value

SemRelease(t) ==
  /\ Begins(t) /\ value < ValueMax
  /\ value' = Counted
  /\ EndsWaking(t, "recv")
  /\ UNCHANGED <<alive, last, epoch>>

SemReleaseIsr ==
  /\ alive /\ value < ValueMax
  /\ value' = Counted
  /\ IsrWaking("recv")
  /\ UNCHANGED ivars

SemReset(t) ==
  /\ ResetWaiters(t)
  /\ value' \in 0 .. ValueMax

SemNext ==
  \/ IpcStep /\ UNCHANGED value
  \/ SemReleaseIsr
  \/ \E t \in Thread :
       \/ WokenFails(t) /\ UNCHANGED value
       \/ SemTake(t) \/ SemTaken(t) \/ SemRelease(t) \/ SemReset(t)
       \/ \E timed \in BOOLEAN : SemWaits(t, timed)

(* The tokens: those counted, and those handed over to a call that has not *)
(* returned yet.                                                           *)
Tokens == value + Cardinality(OnTheirWay("recv"))
=============================================================================
