SPECIFICATION Spec
CONSTANTS
  Addr = {a1, a2}
  Tablet = {t1}
  NoNode = NoNode
  MaxInc = 2
  MaxFaults = 1
  MayBeBusy = FALSE
  MetaTablet = {}
  RetryTimes = 0
  MaxTriedTs = 1
  SlowPeriod = 1
  MaxLoad = 1
  MaxUnload = 1
  MayBeUnsafe = FALSE
  MaxCommands = 1
SYMMETRY AddrSymmetry
INVARIANTS
  SingleServer
\* With the budgets for faults and commands used up and no procedure left, nothing happens.
CHECK_DEADLOCK FALSE
