\* Three requests at a time on one batch and evidence of four scopes; no client
\* leaves; time stands still.
CONSTANTS
  w1 = w1
  w2 = w2
  w3 = w3
  b1 = b1
  e1 = e1
  Worker = {w1, w2, w3}
  BatchId = {b1}
  EvidenceId = {e1}
  Recipient = {"ann"}
  NoBatch = NoBatch
  Never = Never
  Name <- MCTwoNames
  Policy <- MCPolicy
  OfferedKinds <- MCCertificates
  OfferedExpiries <- MCNever
  OfferedLists <- MCSingletons
  HasCommitter = TRUE
  MayDisconnect = FALSE
  MaxTime = 0
SPECIFICATION Spec
SYMMETRY MCSymmetry
INVARIANTS
  TypeOK
  ReceiptsMatchHistory
  MissingRecordsAreOwed
  ConflictsAreReal
  EvidenceIsOfTheScope
