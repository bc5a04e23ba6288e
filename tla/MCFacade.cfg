CONSTANTS
  s1 = s1
  s2 = s2
  version = version
  wrapper = wrapper
  Signers <- MCSigners
  Contract <- MCContract
  Answers <- MCAnswers
  MaxTries = 2
  Precision = 3
  U64Max = 63
  U8Max = 3
  Numerals <- MCIntegers
  Limits <- MCLimits
  Texts <- MCTexts
SPECIFICATION MCSpec
INVARIANTS
  RanOnce
  BoundaryIsExact
PROPERTY LeavingReleases
CHECK_DEADLOCK FALSE
