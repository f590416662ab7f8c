------------------------------- MODULE Store --------------------------------
(***************************************************************************)
(* What a semaphore, a mailbox, a message queue and a memory pool promise  *)
(* alike, with no threads, lists or locks: a bounded store of items, put   *)
(* in at the end (or, urgent messages and freed blocks, at the front) and  *)
(* got from the front, one at a time, each put and each get at one moment. *)
(* A reset may replace what is stored.                                     *)
(***************************************************************************)
EXTENDS Naturals, SequencesExt

CONSTANTS Item, NoItem

VARIABLES items,    \* what is stored, the next to get first
          last,     \* the item that was got last
          epoch,    \* how often the store has been reset
          capacity  \* how many items it takes, fixed

vars == <<items, last, epoch, capacity>>

Full == Len(items) = capacity

Init ==
  /\ capacity \in Nat
  /\ items \in BoundedSeq(Item, capacity)
  /\ last = NoItem /\ epoch = 0

Put(x) == ~ Full /\ items' = Append(items, x) /\ UNCHANGED <<last, epoch, capacity>>

PutFirst(x) == ~ Full /\ items' = <<x>> \o items /\ UNCHANGED <<last, epoch, capacity>>

Get ==
  /\ items # << >>
  /\ last' = Head(items) /\ items' = Tail(items)
  /\ UNCHANGED <<epoch, capacity>>

Reset ==
  /\ epoch' = epoch + 1
  /\ items' \in BoundedSeq(Item, capacity)
  /\ UNCHANGED <<last, capacity>>

Next == Get \/ Reset \/ \E x \in Item : Put(x) \/ PutFirst(x)

Spec == Init /\ [][Next]_vars
=============================================================================
