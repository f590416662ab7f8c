\* A signal interrupts the waits of both threads.
SPECIFICATION MSpec
CONSTANTS
  L = L
  M = M
  H = H
  idle = idle
  NoThread = NoThread
  Thread = {L, H, idle}
  Idle = idle
  PrioMax = 3
  InitPrio <- TwoThreads
  WaitList = {"m"}
  MFlag = "prio"
  HoldMax = 1
  Uses = {"sleep", "timed", "try", "wrong"}
  Signalled = {L, H}
  Deletable = {}
INVARIANTS
  SoundUntilInterrupted
