\* Two requests at a time on one batch; clients leave at any moment; every
\* worker is scheduled.
CONSTANTS
  w1 = w1
  w2 = w2
  b1 = b1
  e1 = e1
  Worker = {w1, w2}
  BatchId = {b1}
  EvidenceId = {e1}
  Recipient = {"ann"}
  NoBatch = NoBatch
  Never = Never
  Name <- MCOneName
  Policy <- MCPolicy
  OfferedKinds <- MCCertificates
  OfferedExpiries <- MCNever
  OfferedLists <- MCSingletons
  HasCommitter = TRUE
  MayDisconnect = TRUE
  MaxTime = 0
SPECIFICATION FairSpec
INVARIANTS
  AuditFollowsReceipt
  NoticesTellTheDecision
  AnsweredIsRecorded
PROPERTIES
  ImplementsLedger
  EveryStateIsReceipted
