SPECIFICATION Spec
CONSTANTS
  Loop = {w1}
  Conn = {k1}
  Completion = {m1}
  Shut = {s1, s2}
  Lock = {l1}
  None = None
INVARIANTS
  SessionInv
  NothingOutlivesTheSession
  CompletionsStayAdmitted
  FailureIsReported
  ShutdownWaits
SYMMETRY Symmetry
CHECK_DEADLOCK FALSE
