\* The store is administered at any moment of two requests at a time, or between
\* them.
CONSTANTS
  w1 = w1
  w2 = w2
  b1 = b1
  e1 = e1
  Worker = {w1, w2}
  BatchId = {b1}
  EvidenceId = {e1}
  Recipient = {}
  NoBatch = NoBatch
  Never = Never
  Name <- MCName
  Policy <- MCPolicy
  OfferedKinds <- MCCertificates
  OfferedExpiries <- MCNever
  OfferedLists <- MCSingletons
  HasCommitter = TRUE
  MayDisconnect = FALSE
  MaxTime = 0
  MaxAdministrations = 2
SPECIFICATION AdminSpec
SYMMETRY MCSymmetry
INVARIANTS
  CalmStoreIsWhole
PROPERTIES
  StoredVersionsDescend
