\* Every base and ceiling of five bits, more attempts than bits; items marked with
\* the declared states and with another string.  Behaviours end with the attempts.
CONSTANTS
  MaxDuration = 15
  MaxAttempt = 7
  Evidence = {"e1"}
  OfferedStates <- MCStates
SPECIFICATION UnwiredSpec
INVARIANTS
  DelaysAreWithinBounds
  CompleteIsSettled
PROPERTIES
  DelaysGrow
CHECK_DEADLOCK FALSE
