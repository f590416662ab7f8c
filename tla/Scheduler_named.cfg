\* Every call that names another thread, under the scheduler lock where it needs it.
SPECIFICATION Spec
CONSTANTS
  A = A
  B = B
  C = C
  idle = idle
  Thread = {A, B, idle}
  Idle = idle
  Main = A
  PrioMax = 3
  InitPrio <- TwoLevels
  WaitList = {"q"}
  Api = {"resume", "suspend", "delete", "kill", "prio"}
  NestMax = 1
INVARIANTS
  ReadyQueuesExact
  OneListPerThread
  TimeoutFindsSuspended
