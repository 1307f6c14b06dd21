\* Scopes of names that hold a colon: one request at a time is enough.
CONSTANTS
  w1 = w1
  b1 = b1
  e1 = e1
  Worker = {w1}
  BatchId = {b1}
  EvidenceId = {e1}
  Recipient = {}
  NoBatch = NoBatch
  Never = Never
  Name <- MCColonNames
  Policy <- MCPolicy
  OfferedKinds <- MCCertificates
  OfferedExpiries <- MCNever
  OfferedLists <- MCSingletons
  HasCommitter = TRUE
  MayDisconnect = FALSE
  MaxTime = 0
SPECIFICATION Spec
INVARIANTS
  EvidenceIsOfTheScope
