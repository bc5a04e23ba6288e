CONSTANTS
  Files <- MCFiles
  Abis = {arm, x86}
  Stagers = {p, q}
  MaxRebuilds = 2
SYMMETRY StagingSymmetry
SPECIFICATION AndroidSpec
INVARIANTS
  AcceptedIsProtected
  StagedIsLoadable
  StagingInv
PROPERTY
  OneSetAtATime
CHECK_DEADLOCK FALSE
