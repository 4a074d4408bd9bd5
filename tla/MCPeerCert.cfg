\* Both retrieval paths refine shared ownership, and the chain root is the last certificate of the verified chain.
\* Once the SSL is freed and the callers have released their certificates, nothing is left to do.
CHECK_DEADLOCK FALSE
CONSTANTS
  Callers = {c1, c2, c3, c4}
  Certs = {"leaf", "ca", "anchor", "selfsigned"}
  SelfIssued <- MCSelfIssued
  Chains <- MCChains
  NoChain = NoChain
  NoCert = NoCert
SPECIFICATION Spec
PROPERTY OwnershipRefined
INVARIANT RootIsLastOfChain
