-------------------------------- MODULE Lwt ---------------------------------
(***************************************************************************)
(* The processes of src/extends/bin-core/lwt.c: the map of process ids, the*)
(* count of references that decides when a process is freed, and the group *)
(* of its threads, through exec, the creation and the start of further     *)
(* threads, their exit, and the clean-up that the idle thread runs for each*)
(* thread that has ended.                                                  *)
(***************************************************************************)
EXTENDS Integers, FiniteSets

CONSTANTS
  Process,       \* addresses of struct rt_lwt
  Task,          \* the control blocks of the threads of processes
  Nobody,        \* RT_NULL
  PidMax,        \* LWT_PIDMAP_SIZE
  LiveMax,       \* bound: processes there are when another one is made
  Load,          \* how an exec may go: "ok", "noFile", "noThread"
  Overtaken      \* whether a thread that is started may run before the exec is over

ASSUME LwtAssumption ==
  /\ Nobody \notin Process \cup Task /\ IsFiniteSet(Process) /\ IsFiniteSet(Task)
  /\ PidMax \in Nat \ {0} /\ LiveMax \in Nat
  /\ Load \subseteq {"ok", "noFile", "noThread"} /\ Overtaken \in BOOLEAN

VARIABLES
  pids,    \* lwt_pid: pidmap and lastpid
  lwt,     \* of each process: allocated or free, ref, pid, t_grp
  task,    \* of each thread: how far it is, its lwp, and the thread it is starting
  exec     \* the lwt_execve in progress

lwtvars == <<pids, lwt, task, exec>>

Pid == 0 .. PidMax - 1
NoTask == [st |-> "none", lwp |-> Nobody, starts |-> Nobody]
NoExec == [at |-> "idle", l |-> Nobody, t |-> Nobody]

LwtInit ==
  /\ pids = [map |-> [p \in Pid |-> Nobody], last |-> 0]
  /\ lwt = [l \in Process |-> [live |-> FALSE, ref |-> 0, pid |-> 0, group |-> {}]]
  /\ task = [t \in Task |-> NoTask]
  /\ exec = NoExec

Live == {l \in Process : lwt[l].live}

(* While exec is past the start of the thread, and the thread that makes   *)
(* the call has a higher priority, no thread of a process runs.            *)
TasksRun == exec.at # "count" \/ Overtaken

Runs(t) == TasksRun /\ task[t].st = "started"

(***************************************************************************)
(* rt_lwt_new.                                                             *)
(***************************************************************************)
(* The first slot that is empty, or else the one at lastpid, whatever it   *)
(* holds.                                                                  *)
Found == CHOOSE p \in 0 .. pids.last :
  /\ p = pids.last \/ pids.map[p] = Nobody
  /\ \A o \in 0 .. p - 1 : pids.map[o] # Nobody

Full == Found >= PidMax

(* There is no slot, or no memory after lastpid has been set.              *)
NewFails ==
  /\ pids' = [pids EXCEPT !.last = IF Full THEN 0 ELSE Found + 1]
  /\ UNCHANGED <<lwt, task, exec>>

NewOk(l) ==
  /\ ~ Full /\ l \notin Live
  /\ pids' = [map |-> [pids.map EXCEPT ![Found] = l], last |-> Found + 1]
  /\ lwt' = [lwt EXCEPT ![l] = [live |-> TRUE, ref |-> 1, pid |-> Found, group |-> {}]]
  /\ exec' = [at |-> "load", l |-> l, t |-> Nobody]
  /\ UNCHANGED task

New ==
  /\ exec.at = "idle" /\ Cardinality(Live) < LiveMax
  /\ NewFails \/ \E l \in Process : NewOk(l)

(***************************************************************************)
(* lwt_execve.  If the file cannot be loaded, the structure is freed but   *)
(* stays in the map; if there is no thread for it, it stays for good.      *)
(***************************************************************************)
ExecLoad ==
  /\ exec.at = "load"
  /\ \E how \in Load, t \in Task :
       /\ task[t].st = "none"
       /\ IF how = "ok" THEN /\ task' = [task EXCEPT ![t] = [NoTask EXCEPT !.st = "created"]]
                             /\ exec' = [exec EXCEPT !.at = "link", !.t = t]
                        ELSE exec' = NoExec /\ UNCHANGED task
       /\ lwt' = IF how = "noFile" THEN [lwt EXCEPT ![exec.l].live = FALSE] ELSE lwt
  /\ UNCHANGED pids

ExecLink ==
  /\ exec.at = "link"
  /\ task' = [task EXCEPT ![exec.t].lwp = exec.l]
  /\ lwt' = [lwt EXCEPT ![exec.l].group = {exec.t}]
  /\ exec' = [exec EXCEPT !.at = "start"]
  /\ UNCHANGED pids

ExecStart ==
  /\ exec.at = "start"
  /\ task' = [task EXCEPT ![exec.t].st = "started"]
  /\ exec' = [exec EXCEPT !.at = "count"]
  /\ UNCHANGED <<pids, lwt>>

ExecCount ==
  /\ exec.at = "count"
  /\ lwt' = [lwt EXCEPT ![exec.l].ref = 1]
  /\ exec' = NoExec
  /\ UNCHANGED <<pids, task>>

(***************************************************************************)
(* sys_thread_create and sys_thread_startup, called by thread t of a       *)
(* process.                                                                *)
(***************************************************************************)
SubCreate(t, u) ==
  /\ Runs(t) /\ task[t].starts = Nobody /\ task[u].st = "none"
  /\ task' = [task EXCEPT ![u] = [st |-> "created", lwp |-> task[t].lwp, starts |-> Nobody]]
  /\ lwt' = [lwt EXCEPT ![task[t].lwp].group = @ \cup {u}]
  /\ UNCHANGED <<pids, exec>>

(* Faulty variant: only the first thread of a process is counted.          *)
SubCountFirst(t, u) ==
  /\ Runs(t) /\ task[t].starts = Nobody
  /\ task[u].st = "created" /\ u \in lwt[task[t].lwp].group
  /\ task' = [task EXCEPT ![t].starts = u, ![u].st = "counted"]
  /\ UNCHANGED <<pids, lwt, exec>>

SubCount(t, u) ==
  /\ Runs(t) /\ task[t].starts = Nobody
  /\ task[u].st = "created" /\ u \in lwt[task[t].lwp].group
  /\ lwt' = [lwt EXCEPT ![task[t].lwp].ref = @ + 1]
  /\ task' = [task EXCEPT ![t].starts = u, ![u].st = "counted"]
  /\ UNCHANGED <<pids, exec>>

SubStart(t) ==
  /\ Runs(t) /\ task[t].starts # Nobody
  /\ task' = [task EXCEPT ![t].starts = Nobody, ![task[t].starts].st = "started"]
  /\ UNCHANGED <<pids, lwt, exec>>

Exit(t) ==
  /\ Runs(t) /\ task[t].starts = Nobody
  /\ task' = [task EXCEPT ![t].st = "exited"]
  /\ UNCHANGED <<pids, lwt, exec>>

(***************************************************************************)
(* lwt_cleanup, or lwt_son_cleanup, and lwt_ref_dec, called by the idle    *)
(* thread with the scheduler locked: the last reference frees the process. *)
(***************************************************************************)
(* Faulty variant: the map keeps the process that is freed.                *)
LastFreedKept(l) == pids

LastFreed(l) == [pids EXCEPT !.map[lwt[l].pid] = Nobody]

Cleanup(t) ==
  /\ TasksRun /\ task[t].st = "exited"
  /\ LET l    == task[t].lwp
         less == [lwt[l] EXCEPT !.group = @ \ {t}, !.ref = IF @ > 0 THEN @ - 1 ELSE 0]
         last == lwt[l].ref = 1
     IN  /\ lwt' = [lwt EXCEPT ![l] = [less EXCEPT !.live = @ /\ ~ last]]
         /\ pids' = IF last THEN LastFreed(l) ELSE pids
  /\ task' = [task EXCEPT ![t] = NoTask]
  /\ UNCHANGED exec

LwtNext ==
  \/ New \/ ExecLoad \/ ExecLink \/ ExecStart \/ ExecCount
  \/ \E t \in Task :
       \/ SubStart(t) \/ Exit(t) \/ Cleanup(t)
       \/ \E u \in Task : SubCreate(t, u) \/ SubCount(t, u)

LwtSpec == LwtInit /\ [][LwtNext]_lwtvars

(***************************************************************************)
(* Properties.                                                             *)
(***************************************************************************)
LwtTypeOK ==
  /\ pids \in [map : [Pid -> Process \cup {Nobody}], last : 0 .. PidMax]
  /\ lwt \in [Process -> [live : BOOLEAN, ref : Nat, pid : Pid, group : SUBSET Task]]
  /\ task \in [Task -> [st : {"none", "created", "counted", "started", "exited"},
                        lwp : Process \cup {Nobody}, starts : Task \cup {Nobody}]]
  /\ exec \in [at : {"idle", "load", "link", "start", "count"},
               l : Process \cup {Nobody}, t : Task \cup {Nobody}]

(* Threads that hold a reference: from the moment it is counted, which is  *)
(* before they are started, until the idle thread has cleaned them up.     *)
Holders(l) == {t \in Task : task[t].lwp = l /\ task[t].st \in {"counted", "started", "exited"}}

InExec(l) == exec.l = l /\ exec.at \in {"load", "link", "start"}

(* A process lives exactly as long as a thread of it does, or its exec is  *)
(* on the way, and its count is the number of these: so that no thread     *)
(* runs, or is cleaned up, in a process that has been freed.               *)
CountExact ==
  /\ \A l \in Live :
       lwt[l].ref = Cardinality(Holders(l)) + (IF InExec(l) THEN 1 ELSE 0) /\ lwt[l].ref > 0
  /\ \A l \in Process \ Live : Holders(l) = {}
  /\ \A t \in Task : task[t].st \in {"counted", "started", "exited"} => t \in lwt[task[t].lwp].group

(* Each process keeps the process id it was given: the map leads to it.    *)
PidsLead == \A l \in Live : pids.map[lwt[l].pid] = l

(* The map leads to the processes there are, and to no other.              *)
PidsExact ==
  /\ PidsLead
  /\ \A p \in Pid : pids.map[p] # Nobody => pids.map[p] \in Live /\ lwt[pids.map[p]].pid = p

(* A new process gets a slot of the map that is empty.                     *)
TakesFreePid ==
  [][\A p \in Pid : pids'.map[p] # pids.map[p] => Nobody \in {pids.map[p], pids'.map[p]}]_lwtvars
=============================================================================
