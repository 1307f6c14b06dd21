\* Three notices to two recipients, two in a round, all of one instant: the
\* rounds may list them in any order.  The dispatcher is scheduled.
CONSTANTS
  b1 = b1
  b2 = b2
  b3 = b3
  ann = ann
  bob = bob
  BatchId = {b1, b2, b3}
  EvidenceId = {}
  Recipient = {ann, bob}
  NoBatch = NoBatch
  Never = Never
  Name <- MCName
  Policy <- MCPolicy
  OfferedEvents <- MCEvents
  Limit = 2
  MaxTime = 0
  AttemptCap = 1
SPECIFICATION FairSpec
INVARIANTS
  TypeOK
  NoDuplicateDelivery
  OutcomeIsPreserved
  CopiesAreCurrent
PROPERTIES
  EventuallyDelivered
  EventuallyStops
