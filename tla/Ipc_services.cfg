\* One object of each service, two threads of two priorities and the idle thread.
SPECIFICATION CSpec
CONSTANTS
  L = L
  H = H
  idle = idle
  Thread = {L, H, idle}
  Idle = idle
  PrioMax = 3
  InitPrio <- TwoThreads
  WaitList = {"recv", "send"}
  IpcFlag = "prio"
  Item = {1, 2}
  NoItem = 0
  Resets = 1
  ValueMax = 1
  MbSize = 2
  Slot = {1, 2}
  Bit = {1, 2}
  Wants <- SomeWants
  Kinds = {"sem", "mb", "mq", "mp", "ev"}
VIEW Live
INVARIANTS
  CTypeOK
  KernelExact
  NoWaiterForgotten
  SlotsExact
  BlocksExact
  NoMissedEvent
PROPERTIES
  IsStore
  ReceivedOnce
