CONSTANTS
  PermInputs <- MCPermInputs
  MaxInterference = 1
SPECIFICATION Spec
INVARIANT DeletesOnlyWhatItJudged
\* The call returns; the system stops there.
CHECK_DEADLOCK FALSE
