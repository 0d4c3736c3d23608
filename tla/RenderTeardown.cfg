SPECIFICATION FairSpec
CONSTANTS
  Capacity = 2
  MaxEpoch = 0
  MaxPool = 2
  MaxGen = 2
  MaxReload = 0
  Faults = {"panic", "timeout"}
PROPERTIES TeardownEnds
CHECK_DEADLOCK FALSE
