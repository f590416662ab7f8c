\* One channel, or two processes with four threads, or a region of five units.
SPECIFICATION BSpec
CONSTANTS
  S = S
  R1 = R1
  R2 = R2
  idle = idle
  Kinds = {"channel", "process", "memory"}
  Thread = {S, R1, R2, idle}
  Idle = idle
  PrioMax = 3
  InitPrio <- Prios
  WaitList = {"channel"}
  Sender = {S, R2}
  Receiver = {R1, R2}
  NoThread = NoThread
  PoolSize = 7
  Uses <- SomeUses
  Careful = TRUE
  TakeTurns = TRUE
  Process = {p1, p2}
  Task = {t1, t2, t3, t4}
  Nobody = Nobody
  PidMax = 3
  LiveMax = 2
  Load = {"ok"}
  Overtaken = FALSE
  User = {u1, u2}
  Region = 5
  Sizes = {1, 2, 5}
  TabSize = 2
  TabMax = 2
  RefMax = 2
  InTurn = TRUE
  LastFirst = TRUE
INVARIANTS
  BTypeOK
  NeverStuck
  RepliesExact
  CountExact
  PidsExact
  SharedExact
PROPERTY
  SendReturns
