CONSTANTS
  Configured <- MCConfigured
  Required <- MCRequired
  Occurs <- MCOccurs
  Environments <- FewEnvironments
  Artifacts <- MCArtifacts
  OverlayTargets = {ios, android}
  Unbuildable = {ios}
  Runs = {r}
  MaxEdits = 2
  MaxStarts = 2
  Routes = {"import", "directory", "clone"}
  Unapproved = {2}
  Payloads <- MCPayloads
  IosPayload = "ios"
  i1 = i1
  i2 = i2
  TargetsOf <- MCTargetsOf
  WrapperTargets <- MCWrapperTargets
  Procs = {p, q}
  MaxChanges = 2
  MaxStops = 1
  MaxDisturbances = 2
SYMMETRY Symmetry
SPECIFICATION MCSpec
INVARIANTS
  PreparationIsSound
  ArtifactsAreGenuine
PROPERTIES
  ManifestIsKept
  SetsAreWhole
CHECK_DEADLOCK FALSE
