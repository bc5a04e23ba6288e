SPECIFICATION Spec
CONSTANTS
  Loop = {w1}
  Conn = {k1}
  Completion = {m1}
  Shut = {s1}
  Lock = {l1}
  None = None
PROPERTY ShutdownReturns
CHECK_DEADLOCK FALSE
