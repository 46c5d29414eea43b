SPECIFICATION Spec
CONSTANTS
  Tables <- MCTables
  Families <- MCFamilies
  MaxFaults = 1
INVARIANTS
  SoundVerdict
  NothingUnreviewedRuns
  HintReleases
  ExitZeroMeansApplied
CHECK_DEADLOCK FALSE
