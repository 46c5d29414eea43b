SPECIFICATION FairSpec
CONSTANTS
  r1 = r1
  r2 = r2
  r3 = r3
  long = long
  noop = noop
  bad = bad
  hLong = hLong
  hNoop = hNoop
  hBad = hBad
  NoFile = NoFile
  NoRow = NoRow
  NullSum = NullSum
  Runs <- TwoRuns
  N = 2
  Contents <- MCContents
  HasUp <- MCHasUp
  UpLen <- MCUpLen
  DownLen <- MCDownLen
  Valid <- MCHasUp
  Sha <- MCSha
  Commands = {"up", "down", "baseline", "reset"}
  Options <- OnlyOptions
  Serial = FALSE
  MaxEdits = 0
PROPERTIES
  RunEnds
CHECK_DEADLOCK FALSE
