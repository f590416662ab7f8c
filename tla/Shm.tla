-------------------------------- MODULE Shm ---------------------------------
(***************************************************************************)
(* The shared memory of processes, src/extends/bin-core/lwt_shm.c: a list  *)
(* of blocks that tile the region, whose places are the sums of the lengths*)
(* before them; tables of the memories that have been allocated; and the   *)
(* references that threads of processes hold to them.  Nothing is locked:  *)
(* a call may be interrupted between looking an item up and using it.      *)
(***************************************************************************)
EXTENDS Integers, SequencesExt

CONSTANTS
  User,          \* the threads of processes
  Region,        \* LWT_SHM_SIZE
  Sizes,         \* sizes asked for
  TabSize,       \* SHM_APP_TAB_SIZE: memories in a table
  TabMax,        \* bound: tables of memories
  RefMax,        \* bound: references a thread holds to one memory
  InTurn,        \* whether the callers make one call after the other
  LastFirst      \* whether the memory that was allocated last is freed first

ASSUME ShmAssumption ==
  /\ IsFiniteSet(User) /\ Region \in Nat \ {0} /\ Sizes \subseteq 1 .. Region
  /\ TabSize \in Nat \ {0} /\ TabMax \in Nat /\ RefMax \in Nat
  /\ InTurn \in BOOLEAN /\ LastFirst \in BOOLEAN

VARIABLES
  bmem,    \* the blocks: length, and whether in use
  item,    \* of each memory: addr, size, and the references of each thread
  made,    \* how many tables there are; each new one is linked in front
  used_num, \* of each table, how many of its memories it takes for used
  busy,    \* the alloc or retain each thread is in, and the item it has found
  holds    \* ghost: how often each thread has been given which block

shmvars == <<bmem, item, made, used_num, busy, holds>>

Table == 1 .. TabMax
Item == Table \X (1 .. TabSize)

Addr == 0 .. Region - 1
NoAddr == Region
Idling == [op |-> "none", i |-> <<0, 0>>, a |-> NoAddr]

ShmInit ==
  /\ bmem = << [len |-> Region, used |-> FALSE] >>
  /\ item = [i \in Item |-> [addr |-> NoAddr, size |-> 0, refs |-> [u \in User |-> 0]]]
  /\ made = 0 /\ used_num = [n \in Table |-> 0]
  /\ busy = [u \in User |-> Idling]
  /\ holds = [u \in User |-> [a \in Addr |-> 0]]

(***************************************************************************)
(* The list of blocks.                                                     *)
(***************************************************************************)
(* Where the block at position n is: behind those before it in the list.   *)
Offset(b, n) == FoldLeft(LAMBDA sum, x : sum + x.len, 0, SubSeq(b, 1, n - 1))

(* bmem_malloc: the first free block that is long enough, or 0.            *)
Fits(b, size) == SelectInSeq(b, LAMBDA x : ~ x.used /\ x.len >= size)

(* Faulty variant: a block that fits is split, too.                        *)
MallocedSplit(b, n, size) ==
  InsertAt(ReplaceAt(b, n, [len |-> b[n].len - size, used |-> FALSE]), n, [len |-> size, used |-> TRUE])

(* The size is split off in front of it; if what is left has that size too,*)
(* it is marked as used like a block that fits.                            *)
Malloced(b, n, size) ==
  LET left == [len |-> b[n].len - size, used |-> b[n].len - size = size]
  IN  IF b[n].len > size
      THEN InsertAt(ReplaceAt(b, n, left), n, [len |-> size, used |-> TRUE])
      ELSE ReplaceAt(b, n, [b[n] EXCEPT !.used = TRUE])

(* bmem_free: the block is unlinked.  Its entry in the table of blocks may *)
(* stay used, since put_mem_block tests a pointer that is not assigned.    *)
Freed(b, a) ==
  IF \E n \in DOMAIN b : Offset(b, n) = a
  THEN RemoveAt(b, CHOOSE n \in DOMAIN b : Offset(b, n) = a)
  ELSE b

(***************************************************************************)
(* The tables of memories.                                                 *)
(***************************************************************************)
Used(i) == item[i].size > 0

(* They are searched from the newest on, and each from its first place on. *)
First(S) == CHOOSE i \in S : \A j \in S : i[1] > j[1] \/ (i[1] = j[1] /\ i[2] <= j[2])

(* What get_shm_mem may take: it skips a table that counts as full.        *)
Spare == {i \in Item : i[1] <= made /\ used_num[i[1]] # TabSize /\ ~ Used(i)}

(* What find_shm_mem may find: it skips a table that counts as empty, and  *)
(* does not look at the size.                                              *)
With(a) == {i \in Item : i[1] <= made /\ used_num[i[1]] # 0 /\ item[i].addr = a}

Total(refs) == FoldFunction(+, 0, refs)

MayCall(u) == busy[u].op = "none" /\ (InTurn => \A v \in User : busy[v].op = "none")

(***************************************************************************)
(* lwt_shm_alloc, of a thread in a process.  A new entry of the table of   *)
(* apps is made for each call, since they are filed under the thread and   *)
(* looked up by the process.                                               *)
(***************************************************************************)
TakeItem(u, i) ==
  /\ used_num' = [used_num EXCEPT ![i[1]] = @ + 1]
  /\ busy' = [busy EXCEPT ![u] = [op |-> "alloc", i |-> i, a |-> NoAddr]]
  /\ UNCHANGED <<bmem, item, holds>>

AllocFind(u) ==
  /\ MayCall(u)
  /\ \/ Spare # {} /\ TakeItem(u, First(Spare)) /\ UNCHANGED made
     \/ Spare = {} /\ made < TabMax /\ made' = made + 1 /\ TakeItem(u, <<made + 1, 1>>)
     \/ Spare = {} /\ UNCHANGED shmvars    \* no memory for a table

(* Without a block the place is unused, but counts as used from now on.    *)
AllocTake(u, size) ==
  /\ busy[u].op = "alloc"
  /\ LET n == Fits(bmem, size)
         a == Offset(bmem, n)
     IN  IF n = 0
         THEN item' = [item EXCEPT ![busy[u].i].addr = NoAddr] /\ UNCHANGED <<bmem, holds>>
         ELSE /\ bmem' = Malloced(bmem, n, size)
              /\ item' = [item EXCEPT ![busy[u].i] =
                            [addr |-> a, size |-> size,
                             refs |-> [item[busy[u].i].refs EXCEPT ![u] = @ + 1]]]
              /\ holds' = [holds EXCEPT ![u][a] = @ + 1]
  /\ busy' = [busy EXCEPT ![u] = Idling]
  /\ UNCHANGED <<made, used_num>>

(***************************************************************************)
(* lwt_shm_retain, of an address that another thread or the same one holds.*)
(***************************************************************************)
RetainFind(u, a) ==
  /\ MayCall(u) /\ holds[u][a] < RefMax
  /\ \E v \in User : holds[v][a] > 0
  /\ With(a) # {}
  /\ busy' = [busy EXCEPT ![u] = [op |-> "retain", i |-> First(With(a)), a |-> a]]
  /\ UNCHANGED <<bmem, item, made, used_num, holds>>

RetainLink(u) ==
  /\ busy[u].op = "retain"
  /\ item' = [item EXCEPT ![busy[u].i].refs[u] = @ + 1]
  /\ holds' = [holds EXCEPT ![u][busy[u].a] = @ + 1]
  /\ busy' = [busy EXCEPT ![u] = Idling]
  /\ UNCHANGED <<bmem, made, used_num>>

(***************************************************************************)
(* lwt_shm_free.  A thread without a reference would follow a null pointer;*)
(* the last reference frees the block.                                     *)
(***************************************************************************)
IsLast(i) == \A j \in Item : Used(j) => item[j].addr <= item[i].addr

(* Faulty variant: the block is freed with the last reference of a thread. *)
UnreferencedBy(i, u) == item[i].refs[u] = 1

Unreferenced(i, u) == Total(item[i].refs) = 1

Free(u, a) ==
  /\ MayCall(u) /\ holds[u][a] > 0
  /\ With(a) # {}
  /\ LET i == First(With(a)) IN
       /\ item[i].refs[u] > 0
       /\ Unreferenced(i, u) /\ LastFirst => IsLast(i)
       /\ bmem' = IF Unreferenced(i, u) THEN Freed(bmem, a) ELSE bmem
       /\ item' = [item EXCEPT ![i].refs[u] = @ - 1,
                               ![i].size = IF Unreferenced(i, u) THEN 0 ELSE @]
       /\ used_num' = IF Unreferenced(i, u) THEN [used_num EXCEPT ![i[1]] = @ - 1] ELSE used_num
  /\ holds' = [holds EXCEPT ![u][a] = @ - 1]
  /\ UNCHANGED <<made, busy>>

ShmNext ==
  \E u \in User :
    \/ AllocFind(u) \/ RetainLink(u)
    \/ \E size \in Sizes : AllocTake(u, size)
    \/ \E a \in Addr : RetainFind(u, a) \/ Free(u, a)

ShmSpec == ShmInit /\ [][ShmNext]_shmvars

(***************************************************************************)
(* Properties.                                                             *)
(***************************************************************************)
ShmTypeOK ==
  /\ bmem \in Seq([len : 1 .. Region, used : BOOLEAN])
  /\ item \in [Item -> [addr : Addr \cup {NoAddr}, size : {0} \cup Sizes, refs : [User -> Nat]]]
  /\ made \in 0 .. TabMax /\ used_num \in [Table -> 0 .. TabSize]
  /\ busy \in [User -> [op : {"none", "alloc", "retain"}, i : Item \cup {<<0, 0>>},
                        a : Addr \cup {NoAddr}]]
  /\ holds \in [User -> [Addr -> Nat]]

(* Memories in use lie within the region and do not overlap.               *)
MemoryDisjoint ==
  \A i \in Item : Used(i) =>
    /\ item[i].addr + item[i].size <= Region
    /\ \A j \in Item \ {i} :
         Used(j) => \/ item[i].addr + item[i].size <= item[j].addr
                    \/ item[j].addr + item[j].size <= item[i].addr

(* Each table counts the memories that are in use, or are being taken.     *)
InTable(n) == {i \in Item : i[1] = n /\ Used(i)}
Taking(n) == {u \in User : busy[u].op = "alloc" /\ busy[u].i[1] = n}
CountsTrue == \A n \in Table : used_num[n] = Cardinality(InTable(n)) + Cardinality(Taking(n))

(* What a thread has been given and has not freed is in use, and           *)
(* find_shm_mem finds it for that address, with as many references as that;*)
(* no memory is in use otherwise.                                          *)
HeldIsUsed ==
  /\ \A u \in User, a \in Addr : holds[u][a] > 0 => With(a) # {} /\ Used(First(With(a)))
  /\ \A i \in Item : \A u \in User : item[i].refs[u] = IF Used(i) THEN holds[u][item[i].addr] ELSE 0

(* The memories that processes share: no two overlap, whatever calls have  *)
(* failed; and each is found, by all who hold it, as long as no lwt_shm_   *)
(* alloc has failed after taking a place in a table, which counts as used  *)
(* ever since.  Once a table counts as full that is not, what its unused   *)
(* places still say of their addresses can hide a memory in an older table.*)
SharedExact == MemoryDisjoint /\ (CountsTrue => HeldIsUsed)
=============================================================================
