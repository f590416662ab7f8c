------------------------------ MODULE Mempool -------------------------------
(***************************************************************************)
(* The memory pools of src/src/mempool.c: fixed blocks on a free list, and *)
(* threads that wait for one, the last to come the first to be woken.      *)
(***************************************************************************)
EXTENDS Ipc

VARIABLES mp,       \* the pool: its free list and block_free_count
          holder    \* holder[b]: the threads that hold block b, at most one

Blocks == Item

ASSUME MpAssumption == IsFiniteSet(Blocks)

MpInit ==
  /\ mp = [list |-> SetToSeq(Blocks), count |-> Cardinality(Blocks)]
  /\ holder = [b \in Blocks |-> {}]

MpCall(timed) == [op |-> "recv", item |-> NoItem, timed |-> timed]

(* Faulty variant: the block leaves the list but not the count.            *)
MpAllocUncounted(t, c) ==
  /\ Tries(t, c) /\ mp.count > 0 /\ mp.list # << >>
  /\ last' = Head(mp.list)
  /\ holder' = [holder EXCEPT ![Head(mp.list)] = @ \cup {t}]
  /\ mp' = [mp EXCEPT !.list = Tail(@)]
  /\ Ends(t, "run")
  /\ UNCHANGED <<k, alive, epoch>>

MpAlloc(t, c) ==
  /\ Tries(t, c) /\ mp.count > 0
  /\ last' = Head(mp.list)
  /\ holder' = [holder EXCEPT ![Head(mp.list)] = @ \cup {t}]
  /\ mp' = [list |-> Tail(mp.list), count |-> mp.count - 1]
  /\ Ends(t, "run")
  /\ UNCHANGED <<k, alive, epoch>>

(* The waiter goes to the front of the list, whatever its priority.        *)
MpWaits(t, c) ==
  /\ Tries(t, c) /\ mp.count = 0
  /\ LET u == Suspend(ClearError(k, t), t)
         q == [u EXCEPT !.wl["recv"] = <<t>> \o @]
     IN  k' = IF c.timed THEN StartTimer(q, t) ELSE q
  /\ Goto(t, "wait") /\ call' = [call EXCEPT ![t] = c]
  /\ UNCHANGED <<alive, last, epoch, mp, holder>>

MpFails(t, c) ==
  /\ GivesUp(t, c) /\ mp.count = 0
  /\ k' = [k EXCEPT !.err[t] = "ETIMEOUT"]
  /\ Ends(t, "run")
  /\ UNCHANGED <<alive, last, epoch, mp, holder>>

MpFree(t, b) ==
  /\ Begins(t) /\ holder[b] # {}
  /\ mp' = [list |-> <<b>> \o mp.list, count |-> mp.count + 1]
  /\ holder' = [holder EXCEPT ![b] = {}]
  /\ EndsWaking(t, "recv")
  /\ UNCHANGED <<alive, last, epoch>>

MpFreeIsr(b) ==
  /\ alive /\ holder[b] # {}
  /\ mp' = [list |-> <<b>> \o mp.list, count |-> mp.count + 1]
  /\ holder' = [holder EXCEPT ![b] = {}]
  /\ IsrWaking("recv")
  /\ UNCHANGED ivars

MpNext ==
  \/ IpcStep /\ UNCHANGED <<mp, holder>>
  \/ \E b \in Blocks : MpFreeIsr(b)
  \/ \E t \in Thread :
       \/ WokenFails(t) /\ UNCHANGED <<mp, holder>>
       \/ \E b \in Blocks : MpFree(t, b)
       \/ \E timed \in BOOLEAN :
            LET c == MpCall(timed) IN MpAlloc(t, c) \/ MpWaits(t, c) \/ MpFails(t, c)

(* A block is free or held by one thread, never both and never by two, and *)
(* block_free_count, which rt_mp_alloc tests before it takes the head of   *)
(* the list without looking, is the length of that list.                   *)
BlocksExact ==
  /\ IsInjective(mp.list) /\ mp.count = Len(mp.list)
  /\ \A b \in Blocks : b \in Range(mp.list) <=> holder[b] = {}
  /\ \A b \in Blocks : Cardinality(holder[b]) <= 1
=============================================================================
