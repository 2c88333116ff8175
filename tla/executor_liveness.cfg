CONSTANTS
    Proc = {p1, p2}
    p1 = p1
    p2 = p2
    kLoad = kLoad
    LockType = {kLoad}
    NoLimit = NoLimit
    NoProc = NoProc
    ProcId <- UniqueIds
    TypeOf <- AllNoLimit
    InitLimit <- LimitOne
    NewLimits = {1}
    Stages <- TwoStages
    ThreadNum = 2
    UIntMod = 8
SPECIFICATION FairSpec
PROPERTY AddedFinishes
CHECK_DEADLOCK FALSE
