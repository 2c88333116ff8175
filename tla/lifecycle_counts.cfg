SPECIFICATION Spec
CONSTANTS
  Addr = {a1, a2}
  Tablet = {t1, t2}
  NoNode = NoNode
  MaxInc = 2
  MaxFaults = 1
  MayBeBusy = FALSE
  MetaTablet = {}
  RetryTimes = 0
  MaxTriedTs = 2
  SlowPeriod = 1
  MaxLoad = 1
  MaxUnload = 1
  MayBeUnsafe = TRUE
  MaxCommands = 0
SYMMETRY AddrSymmetry
INVARIANTS
  CountsExact
\* With the budgets for faults and commands used up and no procedure left, nothing happens.
CHECK_DEADLOCK FALSE
