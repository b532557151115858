SPECIFICATION FairSpec
CONSTANTS
  r1 = r1
  r2 = r2
  r3 = r3
  p1 = p1
  Requests = {r1, r2, r3}
  Ids = {p1}
  Pays <- PaysMC
  Protocols <- ProtocolsMC
  MaxTries = 1
  MaxFaults = 1
INVARIANTS TypeOK PaidOnce SentIsRecorded HonestSuccess
PROPERTIES RetriedIsSettled
CHECK_DEADLOCK FALSE
