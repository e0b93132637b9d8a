CONSTANT IdSpace <- MCIdSpace
SPECIFICATION FairSpec
PROPERTY RunOnceReturns
\* A base Run() with no timer and no watch left blocks forever.
CHECK_DEADLOCK FALSE
