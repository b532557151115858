SPECIFICATION FairSpec
CONSTANTS
  MaxPayments = 3
  Foreign = {2}
  EventType = "mdfcge"
  Operators = {o1, o2}
  MaxReprocess = 1
  MaxFaults = 2
INVARIANTS TypeOK SuccessWasAcknowledged RecordedInOrder NoSilentSkip
PROPERTIES PaymentsAreRecorded
CHECK_DEADLOCK FALSE
