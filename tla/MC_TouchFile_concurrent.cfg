CONSTANTS
  PermInputs <- MCPermInputs
  MaxInterference = 1
SPECIFICATION Spec
INVARIANT TypeOK
\* The call returns; the system stops there.
CHECK_DEADLOCK FALSE
