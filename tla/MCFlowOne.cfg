SPECIFICATION FairSpec
CHECK_DEADLOCK FALSE
CONSTANTS
  Beacon = Beacon
  Relay = Relay
  t1 = t1
  t2 = t2
  Miners = {1}
  Leader <- AloneLong
  Upstreams <- ViaRelay
  Txs = {t1, t2}
  MaxTransactionsPerBlock = 1
  MaxSlot = 4
  MaxSubmits = 1
  MaxRestarts = 0
  Faults = {"late"}
INVARIANTS
  TxKept
PROPERTIES
  LeaderProduces
  ImplementsChain
