\* rt_thread_delete of a thread whose timeout is pending.
SPECIFICATION Spec
CONSTANTS
  A = A
  B = B
  C = C
  idle = idle
  Thread = {A, B, idle}
  Idle = idle
  Main = A
  PrioMax = 3
  InitPrio <- TwoLevels
  WaitList = {}
  Api = {"deleteAny"}
  NestMax = 1
INVARIANTS
  DeletedLeavesQueues
