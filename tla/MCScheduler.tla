---------------------------- MODULE MCScheduler -----------------------------
(* Instances of Scheduler for TLC: two or three threads and the idle one,  *)
(* of which A starts the others.                                           *)
EXTENDS Scheduler

CONSTANTS A, B, C, idle

(* B above A and C, and the idle thread below.                             *)
ThreeLevels == [t \in {A, B, C, idle} |-> IF t = B THEN 0 ELSE IF t = idle THEN 2 ELSE 1]

TwoLevels == [t \in {A, B, idle} |-> IF t = B THEN 0 ELSE IF t = idle THEN 2 ELSE 1]

(* All of one priority, above the idle thread.                             *)
OneLevel == [t \in {A, B, C, idle} |-> IF t = idle THEN 1 ELSE 0]

OneLevel2 == [t \in {A, B, idle} |-> IF t = idle THEN 1 ELSE 0]
=============================================================================
