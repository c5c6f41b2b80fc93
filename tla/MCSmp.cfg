SPECIFICATION FairSpec
CONSTANTS
    Timeout = 2
    MaxCycle = 3
INVARIANTS
    TypeOK
    NoLateClear
    ReportFaithful
PROPERTY
    EventuallyVerdict
    ImplementsRendezvous
