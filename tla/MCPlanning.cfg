\* Two batches and two items of two kinds, through every window and past it.  The
\* behaviour ends when the clock does.
CONSTANTS
  BatchId = {1, 2}
  EvidenceId = {1, 2}
  Recipient = {}
  NoBatch = NoBatch
  Never = Never
  Name <- MCName
  Policy <- MCPolicy
  OfferedKinds <- MCKinds
  OfferedExpiries <- MCExpiries
  RenewWindow = 2
  StartWithin = 1
  DecideWithin = 1
  InvestigateWithin = 2
  Retention <- MCRetention
  MaxTime = 3
SPECIFICATION Spec
INVARIANTS
  PlanOrderIsTotal
  UrgencyShowsFirst
  CountsAgree
  ReportIsNotMilder
PROPERTIES
  WorkIsNotForgotten
  RetentionIsFinal
CHECK_DEADLOCK FALSE
