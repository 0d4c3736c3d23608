SPECIFICATION Spec
CONSTANTS
    Transports = {"Worker"}
    MaxToken = 2
    MaxSuspend = 0
PROPERTY TimeoutAfterDrain
CHECK_DEADLOCK FALSE
