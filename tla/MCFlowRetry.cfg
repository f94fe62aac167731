SPECIFICATION Spec
CHECK_DEADLOCK FALSE
CONSTANTS
  Beacon = Beacon
  Relay = Relay
  t1 = t1
  t2 = t2
  Miners = {1}
  Leader <- AloneLong
  Upstreams <- ViaRelay
  Txs = {t1, t2}
  MaxTransactionsPerBlock = 2
  MaxSlot = 4
  MaxSubmits = 2
  MaxRestarts = 1
  Faults = {"drop", "late"}
INVARIANTS
  Reloadable
  SameBlocks
