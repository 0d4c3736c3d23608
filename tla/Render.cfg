SPECIFICATION FairSpec
CONSTANTS
  Capacity = 2
  MaxEpoch = 2
  MaxPool = 2
  MaxGen = 2
  MaxReload = 1
  Faults = {"refused", "partial", "panic", "maintenance", "timeout"}
INVARIANTS ProtocolInv RendersAsSynchronous PoolsBacked NoLostWakeup
PROPERTIES JobSettles QuiesceEnds
CHECK_DEADLOCK FALSE
