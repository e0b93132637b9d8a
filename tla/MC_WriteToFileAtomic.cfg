CONSTANTS
  w1 = w1
  w2 = w2
  Writers <- MCOneWriter
  Calls = 3
  Size = 2
  RandBytes <- MCRandBytes
  SuffixLen = 1
  MaxCrashes = 1
SPECIFICATION Spec
INVARIANT DestOldOrComplete
\* Every call returns; with its calls made the writer stops.
CHECK_DEADLOCK FALSE
