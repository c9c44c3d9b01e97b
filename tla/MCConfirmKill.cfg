SPECIFICATION Spec
CONSTANTS
    Processes <- AB
    Programs <- ConfirmedKill
    MaxNum = 2
INVARIANT
    NoDeadlock
CHECK_DEADLOCK FALSE
