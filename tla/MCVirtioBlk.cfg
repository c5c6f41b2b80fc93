SPECIFICATION FairSpec
CONSTANT
    Slots = 2
INVARIANTS
    TypeOK
    ReadyMeansConfigured
    ChainWhole
    SuccessMeansDone
PROPERTY
    EventuallyResult
    ImplementsBlockService
