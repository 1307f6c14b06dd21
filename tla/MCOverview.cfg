\* Two requests at a time on a store without CommitSubmission: batches of items of
\* two kinds that expire, while the clock moves; what a query would find
\* at any moment.
CONSTANTS
  w1 = w1
  w2 = w2
  b1 = b1
  e1 = e1
  e2 = e2
  Worker = {w1, w2}
  BatchId = {b1}
  EvidenceId = {e1, e2}
  Recipient = {}
  NoBatch = NoBatch
  Never = Never
  Name <- MCName
  Policy <- MCPolicy
  OfferedKinds <- MCKinds
  OfferedExpiries <- MCDated
  OfferedLists <- MCLists
  HasCommitter = FALSE
  MayDisconnect = FALSE
  MaxTime = 1
SPECIFICATION Spec
SYMMETRY MCSymmetry
INVARIANTS
  PolicyIsStable
  ReceiptsTellHistory
  ReceiptsAreDatedAfterTheirState
  QueuedRiskIsExpiry
  MetricsBalance
PROPERTIES
  NoLostUpdate
