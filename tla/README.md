# TuduOS kernel: TLA+ models, checks and proofs

TuduOS is a small real-time system built on the RT-Thread kernel: preemptive
threads of fixed priorities on one core, the usual objects to wait on, and, of
its own, processes in user mode that talk over channels and share memory. This
directory models both from their source, checks the models with TLC and proves
their core with TLAPS. File and line references are to
`src/`; the build that is modelled is the uniprocessor one of
`src/bsp/stm32/stm32l475-atk-pandora`.

## 1. Inventory

| component | source | state | operations | what is hard | correct means |
|---|---|---|---|---|---|
| scheduler | `src/src/scheduler.c` | ready queues, priority bitmap, current thread, lock nesting | `rt_schedule`, insert, remove, lock, unlock | runs inside calls and in interrupts; queue and bitmap are kept apart | queues = ready threads, the highest one runs |
| thread life cycle | `thread.c`, `idle.c`, `clock.c` | `stat`, `tlist`, priority, timer, defunct list | create, startup, sleep, suspend, resume, timeout, control, delete, exit, reaping, time slice | calls on *other* threads read `stat` outside the lock | a node is in one list; a closed thread stays closed; nobody is lost |
| mutexes | `ipc.c` 520-900 | value, owner, hold, original priority, waiters | take, release, delete | handover against timeout, deletion and signal; inheritance | one owner; true results; priority restored; no inversion |
| semaphores | `ipc.c` 186-516 | count, waiters | take, release, control, delete | direct handover of the token | a bounded store of tokens |
| mailboxes | `ipc.c` 1286-1765 | ring, counters, receivers, senders | send, receive, control, delete | a woken thread may find its mail gone | a bounded FIFO; no lost wake-up |
| message queues | `ipc.c` 1767-2452 | free list, queue, two wait lists | send, urgent, receive, control, delete | copies with interrupts enabled, in between two locked regions | a bounded FIFO; a slot has one owner |
| event sets | `ipc.c` 904-1284 | bits, waiters with their condition | send, receive, control, delete | one send serves many, each may clear | no event missed or received twice |
| memory pools | `mempool.c` | free list, count, waiters | alloc, free, delete | wait, be woken, lose the race | a block has one owner |
| timers | `timer.c` | ordered lists, ticks modulo 2^32 | start, stop, control, check, soft-timer thread | callbacks with the lock given up; wrap-around | a timer fires once and not before its time |
| signals | `signal.c` | pending, mask, vectors, siginfo list | install, mask, wait, kill, deliver | interrupt a wait at any time | a wait ends with the truth |
| channels | `ipc.c` 2456-3100 | message pool, receivers, expected and arrived replies, the replying sender | open, close, receive, send, reply | several receivers and senders, one reply field | every reply reaches its sender |
| processes | `extends/bin-core/lwt.c` | pid map, reference counts, thread groups | new, exec, ref, clean-up, thread create | counts around thread start and exit | one process per pid; freed once, when unused |
| shared memory | `extends/bin-core/lwt_shm.c` | block list, tables of apps, blocks and references | alloc, retain, free | offsets are recomputed by summing up | blocks never overlap |
| server, process signals, MPU | `server.c`, `lwt_signal.c`, `mpu.c` | none of their own | a receive and reply loop | client of the channels | see channels |
| xip file system, heaps, objects, devices, irq, kernel services | `xipfs.c`, `mem.c`, `memheap.c`, `slab.c`, `object.c`, `device.c`, `irq.c`, `kservice.c` | tables and lists under one lock | | mostly sequential | |
| drivers, shell, dfs, libc, net, storage packages, ports | `src/components`, `src/extends`, `src/bsp`, `src/libcpu` | | | taken over or generated | not part of the core |

Everything interacts through two mechanisms. A service puts the current thread
into one of its own lists with interrupts disabled (`rt_ipc_list_suspend`),
perhaps starts its thread timer, enables interrupts and calls `rt_schedule`;
whoever wakes it (`rt_ipc_list_resume`, the timeout, a signal, a deletion)
takes it out and queues it as ready, and says in `thread->error` why. And all
kernel data is protected by disabling interrupts, so an interrupt, and with it
any other thread, comes in between any two such regions.

`PROJECT.json` lists the hazards that follow from this at the line where each
bites. Those with properties are checked below. The others carry a note.

## 2. Modules

| module | models | state and actions |
|---|---|---|
| `Kernel` | the primitives every other module is built from | one record `k`: `stat`, `prio`, `err`, ready queues `rq`, bitmap `group`, wait lists `wl`, running thread timers `tmr`, `defunct`, lock depth `nest`, current thread `cur`. Operators such as `Schedule(q)`, `Resume(q, t)`, `SuspendOn(q, t, l, flag)` are functions on that record, one per interrupt-disabled region. `at[t]` says where in a call thread `t` is |
| `Scheduler` | `scheduler.c`, `thread.c`, `idle.c`, `clock.c` | `Kernel` and `arg[t]`, the thread a call is about. Each locked region is an action; `rt_thread_resume`, `rt_thread_suspend` and `rt_thread_delete`, which look at a thread outside the lock, are several |
| `Mutex` | mutexes, and signals that interrupt a wait | `mx`, `call`, `timed`, `took` (what the callers believe to hold) and `sig` |
| `Ipc` | waiting, waking, reset and deletion as all services do them | `call`, `alive`, and the ghosts `last` (the item received last) and `epoch` (resets) |
| `Semaphore`, `Mailbox`, `MessageQueue`, `Mempool`, `Event` | the services | one variable or two each, one action per locked region of each function, thread and interrupt variants apart |
| `Store` | the abstract specification of the first four: a bounded store with put, get and reset | `items`, `last`, `epoch`, `capacity` |
| `Timer` | `timer.c`: both lists, the check in the clock interrupt, the soft-timer thread, and the calls from a thread, from handlers and from callbacks | `tick`, `q` (the lists and of each timer `timeout_tick`, `init_tick`, ACTIVATED), `clk`, `tt`, the `call` in progress of each thread, the ghost `left`. Ticks are numbers modulo `TickMod`. Every locked region of `rt_timer_start`, `rt_timer_stop` and of the timer thread is an action |
| `Channel` | the channels of `ipc.c`, over `Kernel` | `ch` (the sender that wants replies, the receivers that owe one, the replies that came, the position in the pool), `msgRet`, and the kind of program in `use` |
| `Lwt` | processes: `rt_lwt_new`, `lwt_execve`, further threads, exit, clean-up | `pids` (map and `lastpid`), `lwt`, `task` and the `exec` in progress, of which there is one at a time, as the shell makes them |
| `Shm` | `lwt_shm.c` | `bmem` (the list of blocks), `item` (the table of memories with its references), the look-up each thread is in, the ghost `holds` |
| `MCScheduler`, `MCMutex`, `MCIpc`, `MCTimer`, `MCBinCore` | instances for TLC | `MCIpc` chooses one service in the initial state, and holds the refinement mapping to `Store`; `MCBinCore` chooses among `Channel`, `Lwt` and `Shm` |
| `FoldSteps` | proofs | a fold over a list, taken one element at a time |
| `KernelProofs`, `SchedulerProofs`, `MutexProofs`, `IpcProofs`, `IpcKernelProofs`, `TimerProofs`, `BinCoreProofs` | proofs | lemmas about the primitives; the theorems |

Names starting as another definition and ending in `Keep...`, `Always`,
`Silent` and the like, marked "faulty variant", are not used by any
specification: they are the plausible mistakes that the properties are tested
against.

What is abstracted: stacks, contexts, addresses, names, message sizes, hooks
and logging. Ticks are left out except in `Timer`: a slice ends, and a timer that runs expires,
at any time when interrupts are enabled, which includes every real timing. For
the same reason the recomputation of a waiting time by a woken mailbox, queue or pool
call is a choice between "time is left" and "none is left" (`GivesUp`).

An interrupt handler that wakes a thread is one action, and the switch it asks
for happens as it returns. The interrupt of the clock is several in `Timer`, which no
thread can come in between.

`Timer`, `Lwt` and `Shm` stand beside `Kernel` and not on it: of the scheduler,
`Timer` keeps who runs when the timer thread is blocked and who does not, `Lwt` that a
thread which has been started runs at any time, and `Shm` that a call may be interrupted
between looking up and using.

## 3. Runs

| run | instance | shows |
|---|---|---|
| `scheduler_threads` | three threads of two priorities, idle thread, one wait list | `Inductive`, the invariant of the proofs; `NoLostThread`, `HighestRuns`, `ClosedStaysClosed` with interrupts anywhere, start, sleep, wait, kill and reaping |
| `scheduler_named` | two threads, every call that names another thread | `ReadyQueuesExact`, `OneListPerThread` and `TimeoutFindsSuspended` (an assertion of the code) also hold outside what is proved, if the callers lock the scheduler |
| `scheduler_slices` | three threads of one priority | `RoundRobin`: each of them runs again and again |
| `delete_race` | `rt_thread_delete` of a sleeping thread | *violation*: a timeout between its regions queues a thread that is then closed |
| `mutex_inherit` | three priorities, nested holds, timeouts, deletion | exclusion, true results, no lost wake-up, inheritance, restored priority |
| `mutex_signal` | two threads, signals, failing calls | all is sound up to the first interrupted wait, and the kernel lists even after it |
| `mutex_live` | three priorities | `TopWaiterServed`: no unbounded inversion |
| `mutex_signal_race` | a wait interrupted by a signal | *violation*: two owners after the jump to `__again` |
| `ipc_services` | one object of each service, two threads, handlers, timeouts, a reset, a deletion | `IsStore` (refinement of `Store`), `NoWaiterForgotten`, `SlotsExact`, `BlocksExact`, `NoMissedEvent`, `ReceivedOnce`, `KernelExact` |
| `timers` | a soft timer the thread starts, one its callback starts, a hard one of the handlers, the timer thread's own; a tick of 12 values that wraps around again and again | `InOrder`, `OnTime`: the lists are in the order of the time really left and nothing fires early or is left over; `StoppedStaysQuiet`; `NeverOversleeps`, `Punctual`: the timer thread serves its timers in time |
| `bin_core` | two senders and two receivers; two processes of four threads; a region of five units with two users | `NeverStuck`, `RepliesExact` and, under fairness, `SendReturns`; `CountExact`, `PidsExact`; `SharedExact` |
| `lwt_pid_reuse` | three processes, of which the first ends | *violation*: a new process takes the slot of the map that a living one has |

The violations are disagreements of the code with a comment of its own, quoted
in `PROJECT.json`. Three more disagreements came up while the models were written and
have no run: `rt_thread_yield` only calls `rt_schedule`, which keeps a running thread whose
priority is that of the highest one ready unless its slice has ended, so no peer gets to run;
`rt_mutex_release` restores the
priority the owner had when it took *this* mutex, which is a raised one if another
mutex, released since, had raised it; and `rt_ipc_list_resume_all` tests the list outside the region in which
it takes its head ("fault" in `Ipc` and `Mutex`).

### What the callers have to see to

Several properties hold only for programs that keep a rule nobody wrote down. Each
rule is a CONSTANT of its module, and lifting it makes the same instance violate a
property; the hazards in `PROJECT.json` say which.

| module | rule | without it |
|---|---|---|
| `Scheduler` | calls that name other threads are made with the scheduler locked, but for starting, killing and priorities | `delete_race` |
| `Mutex` | no signal interrupts a wait (`Signalled`) | `mutex_signal_race` |
| `Ipc` | an object is deleted when no woken call works on it (`Unused`) | the call works on freed memory |
| `Timer` | handlers start no soft timer, and no timer that threads start (`FromIsr`); nor does a callback start one that the thread starts (`FromCallback`, `FromThread`) | the timer thread suspends itself over a timer; a linked timer counts as stopped; a timer is linked twice |
| `Timer` | callbacks of soft timers stop no other one (`CallbackStops`) | `rt_soft_timer_check` fires the node it has kept |
| `Timer` | no soft timer is due at RT_TICK_MAX (`AvoidsMax`) | it is taken for "no timer" |
| `Timer` | times and delays are short against half the range of the tick (`Short`) | the order of the lists turns around |
| `Channel` | a send that wants replies finds a receiver and enough messages in the pool (`Careful`), and is over before the next (`TakeTurns`) | a sender sleeps for ever or uses a null message; replies wake the wrong sender |
| `Channel` | no timeouts of receivers in programs without replies (`Uses`) | a stale error keeps a message unread |
| `Lwt` | an exec is over before its thread runs (`Overtaken`), and succeeds (`Load`); there are two processes at most (`LiveMax`) | the count is set too late; the map keeps a freed process; `lwt_pid_reuse` |
| `Shm` | calls one after the other (`InTurn`); last allocated, first freed (`LastFirst`) | two threads get one entry; the places of all later blocks move |

### Bounds

Every bound is a CONSTANT. `NestMax` = 1: deeper nesting only counts.
`HoldMax` = 2 covers a release that does not free the mutex. `Resets` = 1 and
one deletion: what they leave behind is like the initial state. `MbSize` and
`Slot` of size 1 make an object that is empty or full after one step; a memory pool
of two blocks has the states in between and an order. `ValueMax` = 1 bounds the count of
a semaphore (the code's 65535 is unchecked). `SomeWants` is four receives:
AND and OR of two bits, with and without CLEAR, and one bit alone. `TickMod` = 12
with `Times` of one and two ticks makes the tick wrap around every few steps and leaves room
between a due timer, a late one and half the range; `Lag` = 1 lets a thread be one tick
late, enough to insert a timer that has expired already. `PoolSize` = 7 is two sends of
two replies each and one message to spare: the pool is never refilled, so channels run until it is
used up. Four `Task`s let a process end, and its thread be used again, while the other
process starts a second one; `PidMax` = 3 is a map with a slot to spare. A `Region` of 5 with
`Sizes` of 1 and 2 splits a block, fills one exactly, and runs out; three `Item`s and
`RefMax` = 2 share a memory between threads and within one. Two threads that
compete and one handler that comes in between are enough for every race of two
regions; the scheduler and mutex runs have a third thread for what needs a middle
priority or a peer.

### Fairness

Only the runs with liveness properties assume any. (1) The processor goes on with a call in
progress. (2) The clock interrupt comes: slices end and running timers expire.
(3) A thread that has locked the scheduler, or holds a mutex, releases it if it
runs often enough. The first two are the hardware; the third is what the
callers owe, and neither property holds without it. Nothing says that a thread
ever calls the kernel otherwise. The conditions are written out as
`[]<>~E \/ []<><<A>>_v` with the state predicate `E` under which `A` is enabled.

`Channel` assumes that the processor goes on with calls in progress, and that a
receiver with nothing else to do receives again, as the server loop does
(`SF(Progress)`), and that the clock takes the processor from a thread that computes
(`WF(ChSlice)`). `SendReturns` leaves out the programs in which receivers wait with timeouts:
one that times out again and again may keep a receiver of lower priority from replying.

## 4. Proofs

`SchedulerProofs` proves, for every set of threads, every number of priorities
and every set of wait lists:

- `InductiveHolds`: `Spec => []Inductive`
- `ReadyQueuesAreExact`: the bitmap names exactly the non-empty queues, a queue
  holds ready threads of its priority, each once, and every ready thread is in
  one
- `NodeInOneList`: no list node is linked twice
- `TimeoutsFindSuspended`: the assertion in `rt_thread_timeout` never fails
- `TypeCorrect`: types; among others, `rt_schedule` always finds a thread
- `NobodyLost`: a suspended thread can be woken: it is in a wait list, has a
  timer, or a living thread is on its way to resume it
- `ClosedForGood`: a closed thread becomes free and nothing else (`ClosedStaysClosed`)
- `HighestHasProcessor`: no ready thread has a higher priority than the current
  one, unless the scheduler is locked or `rt_schedule` is about to be called

Assumptions: those on the constants in `Kernel` and `Scheduler` (the idle thread
has the lowest priority, alone), and `Quiet`: programs name other threads only
to start them, to kill them, or to change their priority. That is needed, as
`delete_race` shows (and with `Api = {"resumeAny"}` the same is found of `rt_thread_resume`, which reads
`stat` outside the lock); what holds for the other calls under the scheduler lock
is model-checked (`scheduler_named`). `HighestHasProcessor` also leaves out `"prio"`:
RT_THREAD_CTRL_CHANGE_PRIORITY moves the thread to its new queue and does not schedule.

Exactness of the queues alone is not inductive. A step of `rt_thread_resume`
that unlinks a thread keeps the queues exact only if the thread is still as it
was when its state was read; `rt_schedule` finds a thread only if the idle
thread never blocks; it puts the right one back only if the current thread is the
only one that runs. `Inductive` adds these: `CurrentRuns`, `CallOK` (a thread
that is being started is suspended, in no list and without a timer; one that is
being released is closed and off the defunct list) and `DistinctArgs`.
`KernelProofs` shows of each primitive that it keeps a state well-formed, and, for the services, which
threads it lets go or suspends while it leaves all others as they are (`Releases`, `Suspends`);
`SchedulerProofs` has one lemma per action and puts them together in
`NextKeeps`. For the last three theorems a second lemma per action says how it moves
the other threads (`Moved`): one that is suspended and stays so keeps its wait list and its timer
(`Served`), except the threads that the action itself takes over. `NoLostThread` and
`HighestRuns` are inductive next to `Inductive`; of `rt_schedule` they need that it
leaves wait lists and timers alone and picks the top of the bitmap (`ScheduleChoice`).

`MutexProofs` proves, for every finite set of threads, every number of priorities and of
mutexes, and both ways of queueing:

- `MInductiveHolds`: `MSpec => [](MInductive \/ Interrupted)`: all is sound until a signal has
  ended a wait in `rt_mutex_take`, after which it need not be, as `mutex_signal_race` shows
- `SoundBeforeInterruption`: until then a thread whose takes have returned RT_EOK is the owner

and, under `Uninterrupted` (there are no signals):

- `MutexExcludes`: a thread whose takes have returned RT_EOK is the owner, and `hold` counts them
- `TakeReportsTruth`: a take reports RT_EOK exactly to the owner, whichever of timeout,
  handover and deletion came first
- `NoWakeupIsLost`, `DeleteEmptiesList`: who waits, waits for an owner; a deletion leaves
  nobody behind
- `MutexKernelExact`, `MutexTypeCorrect`: the lists of the kernel stay exact underneath, and
  the priority a release restores is one a thread can have
- `PriorityIsRestored`, if there is one mutex (`OneMutex`): only its owner has another priority
  than the one it was created with
- `OwnerIsRaised`, if there is one mutex, with a wait list by priority: no thread that
  waits is above the owner

None of these is inductive alone, since a mutex is handed over long before the take that
waited for it returns. `MInductive` says what holds in between: a thread inside
`rt_mutex_take` that is suspended has neither the mutex nor an error, and one that is not has
exactly one of them (`ResultKnown`); `hold` is one ahead of what the calls of the owner have
returned exactly while its take is on the way (`HoldsKnown`); the list of a mutex has only
threads inside a take of it (`MutexSound`); and the current thread runs unless it is
between suspending itself and `rt_schedule` (`KernelRuns`). Of deletion, it needs that a
mutex that is no longer alive has waiters only while a thread is in the loop that lets them go.
Of signals, that one which is pending belongs to a thread that is woken, in the take it has not
yet looked at (`SignalsPend`).

With two mutexes neither promise about priorities holds: a release restores the priority from
before the take of its own mutex, and a thread that waits for one mutex may be raised
as the owner of another, without moving up in the list. With one, the thread that takes it is at the
priority of its creation, since it is not yet the owner, and this is what the release
restores (`OrigKept`). A handover does not look at the threads that stay behind: that the
new owner is above them rests on the order of the list (`Ordered`), which `OInductive`
adds, and with a list in order of arrival `OwnerInherits` fails. `KernelProofs` shows which primitives leave
the wait lists in order (`Calm`) and that `rt_ipc_list_suspend` by priority links a thread
at its place.

`IpcProofs` proves, for every number of threads, priorities and resets, both ways of queueing,
and rings, queues and pools of every size:

- `BlocksStayExact`: a block of a memory pool is in the free list or with the one caller that
  got it, and the count `rt_mp_alloc` tests is the length of the list
- `SlotsStayExact`: a slot of a message queue is free, queued, or with one call between its
  two locked regions, also if the queue is reset there; what is copied out is what was taken
- `ServicesAreStores`: mailboxes, message queues and memory pools implement `Store`
  (`IsStore` where `Kinds` is `{"mb", "mq", "mp"}` or less), by `StoreInit` and `StoreNext`,
  which say that the first state is one of `Store` and that every step is a step of it or none

They need nothing of the kernel below: whatever it does with the waiters, each locked region
of a service leaves the object sound. They rest on lemmas on lists without repetition (what
taking from the front, linking at an end and splicing do to the elements). `SlotsExact` is not
inductive: `SlotSound` adds that a call has slots only between its regions, and
one at most, that every queued slot has a message in it, and (`CallSound`) what the call has
to link or to copy out. `RingSound` says that the `entry` mails lie from `out` on, round the
ring, up to `in`; `PoolSound` that the free list is exactly the blocks nobody holds, hence
that a count above 0 means a head to take. The room that a put finds follows by counting: a
list without repetition that lacks an element is shorter than the set (`RoomLeft`), which is
why the pool is assumed to be finite (`MpAssumption`).

`IpcKernelProofs` takes the services and the kernel together, for every finite set of threads
and everything else as above:

- `CInductiveHolds`: `CSpec => []CInductive`
- `KernelStaysExact`, `ServicesTypeCorrect`: the lists of the kernel stay exact under
  whatever the services do, and the variables of all five keep their types (`KernelExact`, `CTypeOK`)
- `NobodyIsForgotten`: while a thread waits for an item or for room, as many threads have been let
  go and have not looked again as there are items or places; and a deletion leaves nobody in
  the lists (`NoWaiterForgotten`, without the event set, for which it says nothing)
- `EventsAreNotMissed`, `EventsAreReceivedOnce`: nobody waits for bits that are in the set, and two
  threads that one send lets go and that clear have got different bits
- `EveryServiceIsAStore`: a semaphore too implements `Store`, if `ValueMax < 65536`, which
  is the width of its count

`CInductive` consists of the invariants of `IpcProofs`, of `IpcSound` and of `NobodyWaitsForIt`.
`IpcSound` relates what the code changes in different regions: a thread is in the list
of an object only in a call that waits there, and its error is RT_EOK until somebody lets it go, so that
what the call returns is what happened to it; a thread is suspended only between
suspending itself and looking again; and the current thread runs unless it is about to call
`rt_schedule`. `NobodyWaitsForIt` counts: while a receiver is in the list, the items
are at most as many as the receivers that were let go and have not looked yet; and so for
senders and room. For a semaphore, where the token goes to the waiter, it is that the
value is 0 while somebody waits. `NoWaiterForgotten` is that, but it is kept only
because of the rest: a timeout must not let a thread go that was counted already, and a wake-up
must find its thread in the list and still suspended.

Deletion, reset and `rt_event_send` wake a whole list, which the model writes as a fold. What a
fold returns is beyond SMT; `FoldSteps` shows that it is the last of a row of states of which
each comes from the one before by one element (`FoldsInSteps`), by unfolding the community
modules' definition over sets of indices and by `SetInduction`, which gets induction over the numbers out of finite
sets (a finite set that is mapped into itself one to one is mapped onto itself). A module
instantiates it with the body of its loop.

`TimerProofs` proves, for every set of hard and soft timers, every range of the tick, all
times and however slow threads are, under `Short` and `Disciplined`:

- `TInductiveHolds`: `Spec => []TInductive`
- `AlwaysInOrder`, `TypesHold`: both lists are in the order of the time left, no timer is linked
  twice, no tick leaves its range (`InOrder`, `TypeOK`)
- `FiresOnTime`: no timer is called back early, and the clock interrupt leaves none that is due (`OnTime`)
- `StoppedIsQuiet`: a timer that is in no list is not called back (`StoppedStaysQuiet`)
- `OversleepsNever`, `AlwaysPunctual`: the timer thread sleeps no longer than it may (`NeverOversleeps`,
  `Punctual`)

`Short` says that the longest time and twice that time, with the delay of a thread, are below
half the range of the tick, from where on the subtraction in `timer.c` takes later for
earlier. The code asserts only that the time itself is (timer.c:332); `Short` also leaves room for
a timer that is inserted late or served late. In a build it means times of less than 2^30
ticks. `Disciplined` is the rules for `Timer` in section 3. `MCTimer` assumes both, so that TLC evaluates
them for the instance it checks; with a tick of seven values, or a timer that both the thread and a
callback start, the same instance violates `InOrder`.

The order of the lists is about time, and the code only has ticks. `TInductive` ties them
together: the tick of a linked timer is the current one shifted by what is left (`Dated`), and
what is left stays in a range on which `Later` and `Expired` are the order of the numbers (`LaterIs`,
`ExpiredIs`). That range has a lower end because of the rest of the invariant: while the
timer thread is awake the next tick waits for it, and while it sleeps its own timer is due when
the soft timers are (`InTime`). Of the soft-timer check it says that the tick it has read, though old,
was read after the timers it looks at were set (`Aged`), and that the node it keeps
while it calls back is linked, or is the timer which the callback is just starting again
(`NodesSound`). What the actions share are a few moves: taking a timer out, dating it, putting
it in its place (`UnlinkedSound`, `StampedSound`, `InsertedSound`).

`BinCoreProofs` proves, for every finite set of threads and every set of receivers and size of
the pool, with the rules `Careful` and `TakeTurns` of section 3 and, as in the runs, no timeouts where no
reply is wanted (`ChRules`):

- `NeverStuckHolds`, `RepliesExactHolds`: `bin_channel_send` ends in none of its endless loops, and
  replies are expected of exactly the receivers that owe one
- `BInductiveHolds`, `BTypeCorrect`: so in the whole of `MCBinCore`, together with
  processes and shared memory under their own rules; the types of all variables (`BTypeOK`)

`ChInductive` adds what the loops rest on: the sender that wants replies is the one in
`reply`, and it is awake in its call only once a reply has come (`WithReplies`), since nothing
else wakes it: a thread is suspended in one of two ways, in the list of the receivers or as
that sender, and only the first may have a timer (`ChKernelSound`); who is in the list has read
its last message (`ChCallsSound`). Without replies no error has ever been
set, so that every message is read (`WithoutReplies`). That a send has messages enough for its replies
is counting: the list of the receivers has no thread twice, hence is not longer than there
are receivers (`ListenersAreFew`).

For every set of processes and threads and every size of the map:

- `CountIsExact`, `LwtTypeCorrect`: under `Orderly` (the rules for `Overtaken` and a
  thread for every exec), the count of references is exact and the process lives as long
  as a thread of it
- `PidsAreExact`, `PidsAreFree`: under `AtMostTwo` (two processes at most, no exec
  that fails), the map is exact and a new process takes an empty slot

`CountExact` alone is not inductive: that `lwt_execve` may set the count to 1
is so because it is 1 already (`ExecOK`), and that `sys_thread_startup` starts a thread that
is counted, for one thread only, needs `StartsOK`; `GroupOwn` says that the thread of a group
belongs to its process, so that the count that is increased is the right one. For the map,
`PidsInductive` adds that `lastpid` is 0 only before the first process. The search then
ends at an empty slot, since two slots that are taken would be two processes.

For every region, all sizes of requests, every table and any finite set of threads, under `ShmRules`
(`InTurn` and `LastFirst`):

- `ShmInductiveHolds`, `MemoryIsDisjoint`: memories in use do not overlap and stay inside the
  region, and have as many references as the threads hold (`SharedExact`)

A block has no address of its own: its place is the sum of the lengths before it. `ShmInductive` says
that the lengths add up to the region and that none is empty (`Tiled`), that every memory in the table
is a used block at its own address (`Placed`), that the table is filled from its first place
with rising addresses (`StackedUp`), and that what a call has looked up is still so when it uses
it (`FoundStays`). `StackedUp` is why the last memory may be freed although `bmem_free` unlinks a
block: only places behind it move, where nothing is in use. Both sums, of lengths and of
references, are folds, taken apart by `FoldOfOneMore` and `GathersInSomeOrder` of `FoldSteps`.

Only model-checked: the calls outside `Quiet`; the lists of the kernel after a signal has ended a
wait (`KernelStaysExact` in `mutex_signal`).
Every invariant and every action property that a passing run checks is thus stated by a
theorem. Out of the reach of the prover and left to TLC: liveness under fairness (`RoundRobin`,
`TopWaiterServed`, `SendReturns`), and ENABLED.

## 5. Not modelled

- the SMP branches, hooks, `rt_thread_detach` and the `detach` functions of static objects
  (the wake-up loops of the deletions, which are modelled)
- blocking calls with the scheduler locked or from a handler, which the code
  forbids by assertion; `MayBlock` is that assertion
- the wrap of the 8-bit `hold` of a mutex at 256 nested takes, and of the 16-bit
  count of a semaphore
- deletion of an object while a woken call has not looked at it again: the
  object is freed memory then, and the callers have to see to it
- signals in other services than mutexes; the masks, the queue of siginfo and the handlers
- in `Timer`: a thread that starts timers at a higher priority than the timer thread, and
  two threads that start the same one
- in `Channel`: opening and closing, which work on file descriptors; programs that mix sends
  with and without replies; a receiver that does not reply
- in `Lwt`: two execs at a time; parent and child links, descriptors, loading, the entry
  into user mode; process signals, which go on to `signal.c`
- in `Shm`: kernel threads as users, the counts of used table entries, which only grow
- the components of the last rows of the inventory: the heaps are sequential under one
  lock, the kernel services are formatting and string routines, devices are open counts
  around callbacks, and the rest is taken over, third-party, or register-level code

## 6. Plan

1. Signals in full (`signal.c`): masks, the siginfo list, the handler on the stack of an
   interrupted thread; then a wait of every service against a signal.
2. `Lwt` on `Scheduler`: exit and clean-up as the life cycle of its threads, with
   the idle thread that runs the clean-up.
3. `completion` and `dataqueue` of the driver framework over `Ipc`; `mem.c` against a
   reference allocator.
4. Proofs: the lists of the kernel after a signal has ended a wait for a mutex; `MCScheduler`
   with calls outside `Quiet`.

Questions about one module belong in one run, as in `MCIpc` and `MCBinCore`, so that the list of
runs stays short.
