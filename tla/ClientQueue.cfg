\* The transaction queue against every environment that reports readiness
\* only after the acquire point signalled.
SPECIFICATION QueueSpec
CONSTANTS
  Roots = {r1}
  RootKinds = {"none", "remove", "ready", "wait"}
  CachedKinds = {"remove"}
  ChildKinds = {"absent", "wait"}
  MaxCommit = 3
  QueueLimit = 2
INVARIANTS QueueInv PublishedReady BuffersPartition ChangesAgree
PROPERTIES FifoSpaced
CHECK_DEADLOCK FALSE
