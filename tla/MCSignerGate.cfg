CONSTANTS
  Threads = {t1, t2, t3, t4}
  None = None
SPECIFICATION Spec
PROPERTIES
  NoAdmissionAfterGate
  RevocationCompletes
  ImplementsPromise
