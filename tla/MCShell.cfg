SPECIFICATION Spec
CONSTANT LineMax = 5
INVARIANTS TypeOK ScreenShowsLine CommandAsTyped
