\* One mutex with priority queueing, held twice, and deleted at any point.
SPECIFICATION MSpec
CONSTANTS
  L = L
  M = M
  H = H
  idle = idle
  NoThread = NoThread
  Thread = {L, M, H, idle}
  Idle = idle
  PrioMax = 4
  InitPrio <- ThreeThreads
  WaitList = {"m"}
  MFlag = "prio"
  HoldMax = 2
  Uses = {"sleep", "timed"}
  Signalled = {}
  Deletable = {"m"}
INVARIANTS
  MTypeOK
  KernelStaysExact
  MutualExclusion
  NoLostWakeup
  DeletedLetsGo
  ResultIsTrue
  OwnerInherits
  PriorityRestored
