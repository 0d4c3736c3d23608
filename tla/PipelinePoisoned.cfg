SPECIFICATION FairSpec
CONSTANTS
    Slots = {1, 2, 3}
    MaxTxn = 2
    Slip = 2
    MaxReplans = 1
    MaxGen = 1
    MaxAborts = 0
PROPERTIES
    PoisonEndsRuntime
CHECK_DEADLOCK FALSE
