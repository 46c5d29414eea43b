SPECIFICATION FairSpec
CONSTANTS
  full = full
  pre = pre
  nodown = nodown
  noup = noup
  Nothing = Nothing
  N = 2
  Contents <- MCContents
  HasUp <- MCHasUp
  HasDown <- MCHasDown
  HasPre <- MCHasPre
  HasPost <- MCHasPost
  CheckLen = 2
  Editable <- MCEditable
INVARIANTS
  TypeOK
  
  StopsAtFailure
  DownOnlyForCompleted
  
PROPERTIES
  RunEnds
CHECK_DEADLOCK FALSE
