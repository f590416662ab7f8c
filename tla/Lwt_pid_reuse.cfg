\* Three processes at a time, of which an earlier one ends first.
SPECIFICATION BSpec
CONSTANTS
  S = S
  R1 = R1
  R2 = R2
  idle = idle
  Kinds = {"process"}
  Thread = {S, R1, R2, idle}
  Idle = idle
  PrioMax = 3
  InitPrio <- Prios
  WaitList = {"channel"}
  Sender = {S, R2}
  Receiver = {R1, R2}
  NoThread = NoThread
  PoolSize = 7
  Uses <- SomeUses
  Careful = TRUE
  TakeTurns = TRUE
  Process = {p1, p2, p3}
  Task = {t1, t2, t3, t4}
  Nobody = Nobody
  PidMax = 4
  LiveMax = 3
  Load = {"ok"}
  Overtaken = FALSE
  User = {u1, u2}
  Region = 5
  Sizes = {1, 2}
  TabSize = 1
  TabMax = 1
  RefMax = 2
  InTurn = TRUE
  LastFirst = TRUE
PROPERTY
  TakesFreePid
