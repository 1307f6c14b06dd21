\* One request at a time; clients leave at any moment.
CONSTANTS
  w1 = w1
  b1 = b1
  e1 = e1
  Worker = {w1}
  BatchId = {b1}
  EvidenceId = {e1}
  Recipient = {}
  NoBatch = NoBatch
  Never = Never
  Name <- MCOneName
  Policy <- MCPolicy
  OfferedKinds <- MCCertificates
  OfferedExpiries <- MCNever
  OfferedLists <- MCSingletons
  HasCommitter = TRUE
  MayDisconnect = TRUE
  MaxTime = 0
SPECIFICATION Spec
INVARIANTS
  ReceiptsAreComplete
