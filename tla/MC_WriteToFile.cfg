CONSTANTS
  SizeBits = 5
  IntBits = 4
SPECIFICATION Spec
INVARIANT WriteReportsAllWritten
\* Both calls have returned; the system stops there.
CHECK_DEADLOCK FALSE
