\* One environment, more objects than addresses and identities.  No symmetry:
\* the run checks a liveness property.
CONSTANTS
  Envs = {e1}
  Addrs = {a1, a2}
  NodeObjs = {n1, n2}
  SignerObjs = {s1, s2}
  MaxId = 2
  None = None
SPECIFICATION Spec
INVARIANT ExternalsNameTheirWrapper
PROPERTY TeardownCompletes
CHECK_DEADLOCK FALSE
