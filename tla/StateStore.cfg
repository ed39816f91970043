CONSTANTS
    t1 = t1
    t2 = t2
    p1 = p1
    p2 = p2
    Threads <- MCThreads
    Procs <- MCProcs
    Homes <- MCHomes
    StateFields <- MCStateFields
    Lessons <- MCLessons
    MaxTries = 2
    BackupKeep = 1
    MaxCalls = 2
    Faults = {"unreadable", "copy", "disk", "busy", "kill"}
    FaultBound = 1
SPECIFICATION FairSpec
INVARIANT NeverTorn
PROPERTIES DroppedIsBackedUp UpdatesAreAtomic CallsEnd
CHECK_DEADLOCK FALSE
