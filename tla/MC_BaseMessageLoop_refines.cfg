CONSTANT IdSpace <- MCIdSpace
SPECIFICATION Spec
PROPERTY ImplementsScheduler
\* A base Run() with no timer and no watch left blocks forever.
CHECK_DEADLOCK FALSE
