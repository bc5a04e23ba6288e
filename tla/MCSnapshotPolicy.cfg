SPECIFICATION Spec
CONSTANT MaxVersion = 2
INVARIANTS
  SnapshotInv
  UnsavedIsKnown
  InfoNeverHides
  FailureIsShown
PROPERTY UploadsFollowTheChoice
