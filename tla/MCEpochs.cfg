SPECIFICATION Spec
CHECK_DEADLOCK FALSE
CONSTANTS
  Beacon = Beacon
  Miners = {1}
  Accounts = {1, 2, 3}
  Genesis <- Stakes0
  Payments <- OneUnit
  Hash <- Skewed
  MaxLeaderPoolSize = 2
  SlotsPerEpoch = 2
  Faults = {}
  MaxSlot = 6
  MaxRestarts = 2
INVARIANTS
  LeadersByLedger
  
  SameView
