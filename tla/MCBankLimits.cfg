SPECIFICATION Spec
CHECK_DEADLOCK FALSE
CONSTANTS
  MaxId = 6
  FirstUser = 5
  Tokens = {0, 4}
  MaxInt = 9
  Supply = 6
  Fees = {0, 1, 4}
  GenesisFee = 1
  Amounts = {2, 5}
  Routes <- LimitRoutes
  Holders = {5}
  MinBlocks = 3
  MaxTransactionsPerBlock = 2
  MaxHeight = 7
INVARIANTS
  
  RenewalWindow
  SystemAccountsLive
PROPERTIES
  RefusalSparesBank
