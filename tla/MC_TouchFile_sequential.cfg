CONSTANTS
  PermInputs <- MCPermInputs
  MaxInterference = 0
SPECIFICATION Spec
INVARIANT TouchSuccessPostcondition
\* The call returns; the system stops there.
CHECK_DEADLOCK FALSE
