SPECIFICATION Spec
CONSTANTS
  d1 = d1
  d2 = d2
  a1 = a1
  a2 = a2
  Instances = {i1, i2}
  Serving = {i1}
  Deposits = {d1, d2}
  Accounts = {a1, a2}
  Block <- FirstBlocks
  Associations <- TogetherOrApart
  MaxBlock = 2
  MaxFaults = 1
INVARIANTS ReprocessingIsSafe
CHECK_DEADLOCK FALSE
