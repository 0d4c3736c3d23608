SPECIFICATION Spec
CONSTANTS
    Transports = {"Worker"}
    MaxToken = 3
    MaxSuspend = 1
INVARIANT NoCompletionLost
CHECK_DEADLOCK FALSE
