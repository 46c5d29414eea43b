SPECIFICATION Spec
CONSTANTS
  r1 = r1
  r2 = r2
  r3 = r3
  long = long
  noop = noop
  bad = bad
  hLong = hLong
  hNoop = hNoop
  hBad = hBad
  NoFile = NoFile
  NoRow = NoRow
  NullSum = NullSum
  Runs <- ThreeRuns
  N = 1
  Contents <- MCContents
  HasUp <- MCHasUp
  UpLen <- MCUpLen
  DownLen <- MCDownLen
  Valid <- MCHasUp
  Sha <- MCSha
  Commands = {"up", "down"}
  Options <- NoOptions
  Serial = TRUE
  MaxEdits = 1
SYMMETRY Symmetric
INVARIANT
  NoSilentDrift
CHECK_DEADLOCK FALSE
