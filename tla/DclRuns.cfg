SPECIFICATION Spec
CONSTANTS
  r1 = r1
  r2 = r2
  make = make
  rotate = rotate
  swap = swap
  NoFile = NoFile
  NoSum = NoSum
  NoAccount = NoAccount
  Given = Given
  Mute = Mute
  Runs <- TwoRuns
  Emails <- MCEmails
  Names <- MCNames
  Keep = 1
  Instances <- MCInstances
  Kind <- MCKind
  N = 2
  Contents <- MCContents
  Script <- MCScript
  Blocked <- MCBlocked
  Sha <- MCSha
  Accounts <- MCAccounts
  Commands <- MCCommands
  Layouts <- MCLayouts
  Created <- MCCreated
  Policies = {"Forbid", "Allow"}
  MaxEdits <- MCMaxEdits
  MaxFaults <- MCMaxFaults
SYMMETRY Symmetric
INVARIANTS
  TypeOK
  HandedOver
  
  NewestKept
PROPERTIES
  ExitZeroMeansApplied
CHECK_DEADLOCK FALSE
