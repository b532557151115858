SPECIFICATION FairSpec
CONSTANTS
  Servers = {"s1"}
  Clis = {"cli"}
  MaxLedger = 3
  Contents <- SomeTrades
  Ranges <- SomeRanges
  Retentions = {0, 1}
  MaxFaults = 1
  MaxCommands = 1
INVARIANTS TypeOK GapFree WindowIsWhole CoreKeepsUnread
PROPERTIES KeepsRetained WindowSpec CatchesUp ReapCompletes CommandsEnd
CONSTRAINT NotAstray
