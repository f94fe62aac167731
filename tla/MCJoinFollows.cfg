SPECIFICATION JoinSpec
CHECK_DEADLOCK FALSE
CONSTANTS
  MaxId = 5
  FirstUser = 5
  Tokens = {0, 4}
  MaxInt = 100
  Supply = 30
  Fees = {1}
  GenesisFee = 1
  Amounts = {4}
  Routes <- JoinRoutes
  Holders = {5}
  MinBlocks = 2
  SlotsPerEpoch = 2
  MaxTransactionsPerBlock = 4
  MaxHeight = 6
INVARIANTS
  JoinerFollows
