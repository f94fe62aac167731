SPECIFICATION Spec
CHECK_DEADLOCK FALSE
CONSTANTS
  Beacon = Beacon
  Relay = Relay
  t1 = t1
  t2 = t2
  Miners = {1, 2}
  Leader <- InTurns
  Upstreams <- ViaRelay
  Txs = {t1, t2}
  MaxTransactionsPerBlock = 2
  MaxSlot = 3
  MaxSubmits = 2
  MaxRestarts = 0
  Faults = {"drop", "lostAck"}
INVARIANTS
  OneBlockPerSlot
  LedgerTxOnce
  BeaconHasAllBlocks
