CONSTANTS
    PtaskMax = 2
    Calls = 3
    Quantum = 1
    NTicks = 4
    MaxLate = 2
    MaxExtra = 1
SPECIFICATION FairSpec
INVARIANTS TypeOK ContextPreserved OwnBody LatencyNonNegative StampsPaired SwitchesMeasured
PROPERTIES EventuallyReports ImplementsTickSched
