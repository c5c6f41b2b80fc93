CONSTANT Booted <- MinimalDemo
SPECIFICATION FairSpec
INVARIANT MinimalSaveSuffices
