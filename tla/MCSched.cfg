CONSTANTS
    MaxTasks = 2
    MaxJobs = 3
    MaxIter = 2
    Lines <- LinesAlone
SPECIFICATION FairSpec
INVARIANTS TypeOK StackOwnership SwitchDiscipline CountdownExact HaltOnlyWhenAllDone
PROPERTIES EventuallyHalts ImplementsRoundRobin
