\* Two soft timers, one of them started by callbacks, and a hard one that
\* interrupt handlers start.
SPECIFICATION Spec
CONSTANTS
  h1 = h1
  s1 = s1
  s2 = s2
  own = own
  End = End
  Hard = {own, h1}
  Soft = {s1, s2}
  Own = own
  Periodic = {s1, h1}
  TickMod = 12
  Times = {1, 2}
  InitTime <- Mixed
  Retimed = {s2}
  Lag = 1
  FromThread = {s1}
  FromCallback = {s2}
  FromIsr = {h1}
  CallbackStops = FALSE
  AvoidsMax = TRUE
INVARIANTS
  TypeOK
  InOrder
  NeverOversleeps
  Punctual
PROPERTIES
  OnTime
  StoppedStaysQuiet
