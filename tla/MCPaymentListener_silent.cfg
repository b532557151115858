SPECIFICATION FairSpec
CONSTANTS
  MaxPayments = 3
  Foreign = {2}
  EventType = "message"
  Operators = {o1}
  MaxReprocess = 1
  MaxFaults = 0
PROPERTIES ArrivingPaymentsAreHandled
CHECK_DEADLOCK FALSE
