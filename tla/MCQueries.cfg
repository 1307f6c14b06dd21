\* Two requests at a time on one batch while the clock moves and a reader asks for
\* its detail or for its scope.
CONSTANTS
  w1 = w1
  w2 = w2
  b1 = b1
  e1 = e1
  Worker = {w1, w2}
  BatchId = {b1}
  EvidenceId = {e1}
  Recipient = {}
  NoBatch = NoBatch
  Never = Never
  Name <- MCName
  Policy <- MCPolicy
  OfferedKinds <- MCCertificates
  OfferedExpiries <- MCNever
  OfferedLists <- MCSingletons
  HasCommitter = TRUE
  MayDisconnect = FALSE
  MaxTime = 1
SPECIFICATION QuerySpec
SYMMETRY MCSymmetry
INVARIANTS
  DetailTellsOneStory
  TimelineIsInOrder
  DashboardNeverGoesBack
  ReportLagsOnNewBatchesOnly
