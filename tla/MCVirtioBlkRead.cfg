SPECIFICATION Spec
CONSTANT
    Slots = 1
INVARIANT
    ReadDone
