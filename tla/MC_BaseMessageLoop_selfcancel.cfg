CONSTANT IdSpace <- MCIdSpace
SPECIFICATION Spec
INVARIANT ClosureStorageAlive
CHECK_DEADLOCK FALSE
