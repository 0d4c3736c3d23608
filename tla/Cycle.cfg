SPECIFICATION FairSpec
CONSTANTS
    Transports = {"Worker", "Synchronous"}
    MaxToken = 5
    MaxSuspend = 2
INVARIANTS LaneInv CompletionKept OwnershipHeld OnlyTimeoutsFail
PROPERTIES CommitSettles
CHECK_DEADLOCK FALSE
