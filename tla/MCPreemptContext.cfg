CONSTANTS
    PtaskMax = 2
    Calls = 3
    Quantum = 2
    NTicks = 4
    MaxLate = 1
    MaxExtra = 1
SPECIFICATION Spec
INVARIANT FullContextPreserved
