SPECIFICATION Spec
CONSTANTS
  s1 = s1
  s2 = s2
  main = main
  test = test
  Threads = {t1, t2, t3}
  Signers = {s1, s2}
  Identities = {main, test}
  Id <- MCId
  NodeOf <- MCNodeOf
  Foreign = Foreign
  None = None
INVARIANTS
  BoundIsAttached
  ProofIsTheWallets
PROPERTY
  NothingPublishedAfterShutdown
SYMMETRY Symmetry
