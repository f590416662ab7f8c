\* Three threads of two priorities that start, sleep, wait, wake, lock, exit and kill.
SPECIFICATION Spec
CONSTANTS
  A = A
  B = B
  C = C
  idle = idle
  Thread = {A, B, C, idle}
  Idle = idle
  Main = A
  PrioMax = 3
  InitPrio <- ThreeLevels
  WaitList = {"q"}
  Api = {"kill"}
  NestMax = 1
INVARIANTS
  TypeOK
  Inductive
  HighestRuns
  NoLostThread
PROPERTIES
  ClosedStaysClosed
