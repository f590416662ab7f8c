------------------------------ MODULE MCMutex -------------------------------
(* Instances of Mutex for TLC: a low, a middle and a high thread.          *)
EXTENDS Mutex

CONSTANTS L, M, H, idle

ThreeThreads == [t \in {L, M, H, idle} |->
                   IF t = H THEN 0 ELSE IF t = M THEN 1 ELSE IF t = L THEN 2 ELSE 3]

TwoThreads == [t \in {L, H, idle} |-> IF t = H THEN 0 ELSE IF t = L THEN 1 ELSE 2]
=============================================================================
