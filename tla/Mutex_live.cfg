\* A thread of the top priority waits while a middle one runs.
SPECIFICATION MFairSpec
CONSTANTS
  L = L
  M = M
  H = H
  idle = idle
  NoThread = NoThread
  Thread = {L, M, H, idle}
  Idle = idle
  PrioMax = 4
  InitPrio <- ThreeThreads
  WaitList = {"m"}
  MFlag = "prio"
  HoldMax = 1
  Uses = {"sleep"}
  Signalled = {}
  Deletable = {}
PROPERTIES
  TopWaiterServed
