\* A bufferless commit hides the progress anchor from the merge guard.
SPECIFICATION QueueSpec
CONSTANTS
  Roots = {r1}
  RootKinds = {"none", "wait"}
  CachedKinds = {}
  ChildKinds = {"absent"}
  MaxCommit = 3
  QueueLimit = 2
PROPERTY AnchorKept
CHECK_DEADLOCK FALSE
