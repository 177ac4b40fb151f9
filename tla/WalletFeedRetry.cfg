SPECIFICATION Spec
CONSTANTS
  Hub = {h1}
  Wallet = {w1}
  Envelope <- ShortFeed
  Capacity = 1
  MayDrop = TRUE
  MaxFaults = 1
  NoHub = NoHub
  NoEnvelope = NoEnvelope
  NoReorg = NoReorg
  mainnet = mainnet
  testnet = testnet
  t1 = t1
  t2 = t2
INVARIANT RedeliveryIgnored
CHECK_DEADLOCK FALSE
