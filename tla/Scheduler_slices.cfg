\* Time slicing among threads of one priority.
SPECIFICATION FairSpec
CONSTANTS
  A = A
  B = B
  C = C
  idle = idle
  Thread = {A, B, C, idle}
  Idle = idle
  Main = A
  PrioMax = 2
  InitPrio <- OneLevel
  WaitList = {}
  Api = {}
  NestMax = 1
PROPERTIES
  RoundRobin
