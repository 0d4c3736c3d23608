SPECIFICATION FairSpec
CONSTANTS
    Slots = {1, 2, 3}
    MaxTxn = 4
    Slip = 2
    MaxReplans = 1
    MaxGen = 2
    MaxAborts = 1
INVARIANTS SlotExclusive LedgerInv
PROPERTIES ReuseAfterFence OneOutcome FramesSettle RecoveryEnds
CHECK_DEADLOCK FALSE
