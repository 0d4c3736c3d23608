SPECIFICATION FairSpec
CONSTANTS
  MaxRestarts = 1
  MaxId = 4
  MaxCaptures = 2
  MaxLaunches = 0
INVARIANTS SupervisorInv KmsGivenBack StopsAsked
PROPERTIES OrderlyStops ExitsReaped ShutdownEnds
