SPECIFICATION Spec
CHECK_DEADLOCK FALSE
CONSTANTS
  Beacon = Beacon
  Miner = Miner
  Founders <- OldAccounts
  Updates <- Activity
  MinBlocks = 2
  Ages = {0, 3, 6}
  SlotsPerEpoch = 1
  SlotDuration = 2
  MaxTime = 13
  MaxHeight = 6
  MaxRestarts = 1
INVARIANTS
  
  
  JudgedAlikeByBlocks
PROPERTIES
  JoinPointForward
