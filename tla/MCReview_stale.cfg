\* One request at a time; evidence may expire after its registration.
CONSTANTS
  w1 = w1
  b1 = b1
  e1 = e1
  Worker = {w1}
  BatchId = {b1}
  EvidenceId = {e1}
  Recipient = {}
  NoBatch = NoBatch
  Never = Never
  Name <- MCOneName
  Policy <- MCPolicy
  OfferedKinds <- MCCertificates
  OfferedExpiries <- MCExpiries
  OfferedLists <- MCSingletons
  HasCommitter = TRUE
  MayDisconnect = FALSE
  MaxTime = 1
SPECIFICATION Spec
PROPERTIES
  ReviewStartsOnCurrentEvidence
