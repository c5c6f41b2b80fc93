CONSTANT Booted <- AllDemos
SPECIFICATION FairSpec
INVARIANTS TypeOK ChecksHold NoWildSave ContextKept
PROPERTY EventuallyVerdict
