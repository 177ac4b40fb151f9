SPECIFICATION FairSpec
CONSTANTS
  Hub = {h1, h2}
  Wallet = {w1}
  Envelope <- AllEnvelopes
  Capacity = 1
  MayDrop = TRUE
  MaxFaults = 1
  NoHub = NoHub
  NoEnvelope = NoEnvelope
  NoReorg = NoReorg
  mainnet = mainnet
  testnet = testnet
  t1 = t1
  t2 = t2
INVARIANTS
  HistoryReplays
  ServesStoredHistory
  WalletSeesHistory
  NoWindow
PROPERTIES
  ImplementsLog
  StoredIsDelivered
CHECK_DEADLOCK FALSE
