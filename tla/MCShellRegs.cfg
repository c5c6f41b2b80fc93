SPECIFICATION Spec
CONSTANT LineMax = 5
INVARIANT BankInMscratch
