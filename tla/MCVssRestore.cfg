\* Two nodes on one storage directory, renames kept in order by a power loss.
\* No symmetry: the run checks a liveness property.
CONSTANTS
  n1 = n1
  n2 = n2
  None = None
  Nodes <- TwoNodes
  MaxVersion = 2
  MaxFaults = 4
  OrderedRenames = TRUE
SPECIFICATION FairSpec
INVARIANTS
  RestoredIsWhole
  ResumeVerifies
  CheckNotSkipped
  AcknowledgedStays
PROPERTIES
  PreparationResumes
