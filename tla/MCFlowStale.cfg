SPECIFICATION Spec
CHECK_DEADLOCK FALSE
CONSTANTS
  Beacon = Beacon
  Relay = Relay
  t1 = t1
  t2 = t2
  Miners = {1, 2}
  Leader <- BackToBack
  Upstreams <- ViaRelay
  Txs = {t1, t2}
  MaxTransactionsPerBlock = 2
  MaxSlot = 2
  MaxSubmits = 1
  MaxRestarts = 0
  Faults = {}
INVARIANTS
  Reloadable
