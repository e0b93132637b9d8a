CONSTANT IdSpace <- MCIdSpace
SPECIFICATION Spec
INVARIANT TypeOK
INVARIANT DelayedMatchesTimers
INVARIANT RunOnceReportsOneClosure
\* A base Run() with no timer and no watch left blocks forever.
CHECK_DEADLOCK FALSE
