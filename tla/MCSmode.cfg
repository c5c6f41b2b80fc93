CONSTANTS
    Builds <- BothBuilds
    StaskMax = 2
    Calls = 3
    Quantum = 2
    NTicks = 4
    MaxLate = 1
SPECIFICATION FairSpec
INVARIANTS TypeOK NoTickPastQuota ContextPreserved QuietAfterDone
PROPERTIES EventuallyReports ImplementsTickSched
