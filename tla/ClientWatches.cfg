\* The registry through suspensions, reconfigurations and failing calls.
SPECIFICATION FairSpec
CONSTANTS
  Roots = {r1}
  RootKinds = {"wait"}
  CachedKinds = {}
  ChildKinds = {"absent"}
  MaxCommit = 3
  QueueLimit = 2
  RenderWorkers = {FALSE, TRUE}
  MaxEpoch = 2
  MaxFaults = 1
INVARIANTS WatchesInv SyncSound
PROPERTIES ImplementsQueue TreesSettle
CHECK_DEADLOCK FALSE
