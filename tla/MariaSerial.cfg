SPECIFICATION Spec
CONSTANTS
  r1 = r1
  r2 = r2
  r3 = r3
  long = long
  noop = noop
  bad = bad
  hLong = hLong
  hNoop = hNoop
  hBad = hBad
  NoFile = NoFile
  NoRow = NoRow
  NullSum = NullSum
  Runs <- ThreeRuns
  N = 2
  Contents <- MCContents
  HasUp <- MCHasUp
  UpLen <- MCUpLen
  DownLen <- MCDownLen
  Valid <- MCHasUp
  Sha <- MCSha
  Commands = {"up", "sync", "down", "baseline", "reset", "status"}
  Options <- TargetOptions
  Serial = TRUE
  MaxEdits = 1
SYMMETRY Symmetric
INVARIANTS
  TypeOK
  RecordedWasRun
  ContiguousApplied
  TornAccountedFor
  ExecutesOnKnownHistory
  ValidatedBeforeRun
  RollbackWasReviewed
CHECK_DEADLOCK FALSE
