SPECIFICATION Spec
CONSTANTS
  Addr = {a1}
  Tablet = {t1}
  NoNode = NoNode
  MaxInc = 2
  MaxFaults = 1
  MayBeBusy = TRUE
  MetaTablet = {t1}
  RetryTimes = 0
  MaxTriedTs = 2
  SlowPeriod = 2
  MaxLoad = 1
  MaxUnload = 1
  MayBeUnsafe = TRUE
  MaxCommands = 1
INVARIANTS
  TypeOK
  LoadStartsUnserved
\* With the budgets for faults and commands used up and no procedure left, nothing happens.
CHECK_DEADLOCK FALSE
