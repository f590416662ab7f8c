----------------------------- MODULE MCBinCore ------------------------------
(***************************************************************************)
(* What this system adds to the kernel it is built on, together: every     *)
(* behaviour is that of channels, of processes or of shared memory, chosen *)
(* at the start.                                                           *)
(***************************************************************************)
EXTENDS Channel, Lwt, Shm

CONSTANTS S, R1, R2, idle, Kinds

VARIABLE kind

Prios == [t \in {S, R1, R2, idle} |-> IF t = R1 THEN 0 ELSE IF t = idle THEN 2 ELSE 1]

(* No run has sends without replies to receivers with timeouts.            *)
SomeUses ==
  [replies : {TRUE}, timed : BOOLEAN] \cup [replies : {FALSE}, timed : {FALSE}]

bvars == <<kind, chvars, lwtvars, shmvars>>

BInit ==
  /\ kind \in Kinds
  /\ ChInit /\ LwtInit /\ ShmInit
  /\ kind # "channel" => ~ use.replies /\ Head(k.rq[InitPrio[S]]) = S

BNext ==
  /\ UNCHANGED kind
  /\ \/ kind = "channel" /\ ChNext /\ UNCHANGED <<lwtvars, shmvars>>
     \/ kind = "process" /\ LwtNext /\ UNCHANGED <<chvars, shmvars>>
     \/ kind = "memory" /\ ShmNext /\ UNCHANGED <<chvars, lwtvars>>

(* That of Channel.                                                        *)
BFairness ==
  /\ SF_chvars(kind = "channel" /\ Progress)
  /\ WF_chvars(kind = "channel" /\ ChSlice /\ at[k.cur] = "run")

BSpec == BInit /\ [][BNext]_bvars /\ BFairness

(***************************************************************************)
(* Properties.                                                             *)
(***************************************************************************)
(* The variables of channels, processes and shared memory keep their types:*)
(* among others no message is taken from beyond the end of the pool, and no*)
(* block is empty.                                                         *)
BTypeOK ==
  /\ kind = "channel" => ChTypeOK
  /\ kind = "process" => LwtTypeOK
  /\ kind = "memory" => ShmTypeOK
=============================================================================
