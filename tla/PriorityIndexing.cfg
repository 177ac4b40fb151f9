\* Three registrations, two loops, batches of one address.
SPECIFICATION FairSpec
CONSTANTS
  a1 = a1
  a2 = a2
  bitcoin = bitcoin
  solana = solana
  mainnet = mainnet
  testnet = testnet
  w1 = w1
  w2 = w2
  Registration <- MCRegistration
  Level = {"high", "low"}
  Rank <- MCRank
  Adapter = {bitcoin}
  MaxBatchSize = 1
  Loop = {l1, l2}
  NoRow = NoRow
  NoNetwork = NoNetwork
  MaxTime = 1
  MaxRequests = 2
  MaxStops = 1
  MaxFaults = 1
INVARIANTS
  RecordsAreAnswers
  AskedOnceMore
  RunningIsServed
PROPERTIES
  IndexedAgainAndAgain
CHECK_DEADLOCK FALSE
