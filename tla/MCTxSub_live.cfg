SPECIFICATION FairSpec
CONSTANTS
  s1 = s1
  s2 = s2
  alice = alice
  t1 = t1
  t2 = t2
  Requests = {s1, s2}
  Accounts = {alice}
  Txs = {t1, t2}
  Source <- SourceTwo
  SeqNum <- SeqNumTwo
  MaxSize = 2
  MaxSequence = 2
  Faults = {"db", "transport", "drop"}
PROPERTIES EveryRequestIsAnswered RoomIsGivenBack
