\* Two daemons and an operator over one chain of up to three blocks.
SPECIFICATION FairSyncSpec
CONSTANTS
  c1 = c1
  d1 = d1
  d2 = d2
  Chain = {c1}
  Daemon = {d1, d2}
  ChainOf <- MCChainOf
  Operator = {o1}
  StartBlock <- MCStartBlock
  Override = {0}
  BatchSize = 2
  NoProgress = NoProgress
  MaxHeight = 3
  MaxFailures = 1
  MaxCommands = 1
INVARIANTS
  NoSkippedBlock
PROPERTIES
  CatchesUp
CHECK_DEADLOCK FALSE
