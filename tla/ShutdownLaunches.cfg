\* Violation: a launch still queued when the shutdown has ended.
SPECIFICATION Spec
CONSTANTS
  MaxRestarts = 0
  MaxId = 2
  MaxCaptures = 0
  MaxLaunches = 2
INVARIANT LaunchesSettled
