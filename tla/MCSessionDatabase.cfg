SPECIFICATION Spec
CONSTANTS
  Loop = {}
  Conn = {k1}
  Completion = {m1}
  Shut = {s1}
  Lock = {l1}
  None = None
INVARIANT TerminalClosesDatabase
CHECK_DEADLOCK FALSE
