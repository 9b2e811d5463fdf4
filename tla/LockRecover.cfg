\* An abandoned lock, a crash, and recoveries that stand still.
SPECIFICATION FairSpec
CONSTANTS
    a = a
    b = b
    c = c
    Procs = {a, b}
    Dead = Dead
    NoProc = NoProc
    Dirs = {d1, d2, d3}
    NoDir = NoDir
    Torn = Torn
    HostOf <- OneHost
    MayStall <- StallRecovery
    Abandoned = TRUE
    MaxCrashes = 1
    MaxTouches = 1
INVARIANT Exclusive
PROPERTIES RemovesNoOtherLease 
CHECK_DEADLOCK FALSE
