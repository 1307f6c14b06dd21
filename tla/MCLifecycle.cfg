\* Two requests at a time on one batch next to the dispatcher; the signal at any
\* moment; the goroutines of the process are scheduled.  The end of main is the end.
CONSTANTS
  w1 = w1
  w2 = w2
  b1 = b1
  e1 = e1
  Worker = {w1, w2}
  BatchId = {b1}
  EvidenceId = {e1}
  Recipient = {"ann"}
  NoBatch = NoBatch
  Never = Never
  Name <- MCName
  Policy <- MCPolicy
  OfferedKinds <- MCCertificates
  OfferedExpiries <- MCNever
  OfferedLists <- MCSingletons
  HasCommitter = TRUE
  MayDisconnect = FALSE
  MaxTime = 0
  Limit = 1
  AttemptCap = 1
SPECIFICATION FairLifeSpec
INVARIANTS
  DrainedIsFiled
PROPERTIES
  ImplementsDelivery
  DecisionsReachTheirRecipient
CHECK_DEADLOCK FALSE
