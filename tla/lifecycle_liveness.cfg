SPECIFICATION FairSpec
CONSTANTS
  Addr = {a1}
  Tablet = {t1}
  NoNode = NoNode
  MaxInc = 3
  MaxFaults = 2
  MayBeBusy = FALSE
  MetaTablet = {}
  RetryTimes = 0
  MaxTriedTs = 2
  SlowPeriod = 1
  MaxLoad = 1
  MaxUnload = 1
  MayBeUnsafe = FALSE
  MaxCommands = 0
PROPERTY TransitionEnds
\* With the budgets for faults and commands used up and no procedure left, nothing happens.
CHECK_DEADLOCK FALSE
