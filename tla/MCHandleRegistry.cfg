\* Two environments, two nodes and a signer, three identities.
CONSTANTS
  Envs = {e1, e2}
  Addrs = {a1, a2, a3}
  NodeObjs = {n1, n2}
  SignerObjs = {s1}
  MaxId = 3
  None = None
SPECIFICATION Spec
SYMMETRY Symmetry
INVARIANTS
  RegistryInv
  NativeContract
  LiveNodeCanSign
  RetainedOnlyAfterFailure
PROPERTY ImplementsOwnership
CHECK_DEADLOCK FALSE
