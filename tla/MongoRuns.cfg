SPECIFICATION Spec
CONSTANTS
  r1 = r1
  r2 = r2
  one = one
  two = two
  h1 = h1
  h2 = h2
  NoFile = NoFile
  NullSum = NullSum
  Runs <- TwoRuns
  N = 2
  Contents <- MCContents
  HasUp <- MCContents
  HasDown <- MCContents
  Valid <- MCContents
  Sha <- MCSha
  Commands = {"up", "down", "baseline", "reset"}
  Counts = {1, 2}
  MayCreate = FALSE
  Policies = {"Forbid", "Allow"}
  MaxEdits <- EditsWhenApart
SYMMETRY Symmetric
INVARIANTS
  TypeOK
  EntriesMatchEffects
  OneEntryPerFile
  
  RollsBackNewest
  NoSilentDrift
PROPERTIES
  ImplementsOrder
  
CHECK_DEADLOCK FALSE
