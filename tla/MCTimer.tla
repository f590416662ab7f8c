------------------------------ MODULE MCTimer -------------------------------
(* Instances of Timer for TLC: some hard and soft timers.                  *)
EXTENDS Timer

CONSTANTS own, h1, s1, s2

(* s2 is set to twice the time of the others.                              *)
Mixed == [x \in User |-> IF x = s2 THEN 2 ELSE 1]

(* The instance keeps the rules under which the theorems hold.             *)
ASSUME TimerSetting == Short /\ Disciplined
=============================================================================
