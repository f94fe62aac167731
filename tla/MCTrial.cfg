SPECIFICATION TrialSpec
CHECK_DEADLOCK FALSE
CONSTANTS
  MaxId = 6
  FirstUser = 5
  Tokens = {0, 4}
  MaxInt = 100
  Supply = 11
  Fees = {1, 2}
  GenesisFee = 2
  Amounts = {2}
  Routes <- MoneyRoutes
  Holders = {5}
  MinBlocks = 2
  MaxTransactionsPerBlock = 5
  MaxHeight = 4
INVARIANTS
  TypeOK
  CustomNonNegative
  
  
PROPERTIES
  SupplyChangesByWriteOff
  
  
