\* The render worker's promotion publishes an epoch over live watches.
SPECIFICATION Spec
CONSTANTS
  Roots = {r1}
  RootKinds = {"wait"}
  CachedKinds = {"wait"}
  ChildKinds = {"absent"}
  MaxCommit = 2
  QueueLimit = 2
  RenderWorkers = {TRUE}
  MaxEpoch = 2
  MaxFaults = 0
PROPERTY ParkedAtEpochChange
CHECK_DEADLOCK FALSE
