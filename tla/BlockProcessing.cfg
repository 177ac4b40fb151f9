\* Each of the five adapters on a ledger of two or three heights, of which
\* the end is replaced once; two requests fail.
SPECIFICATION Spec
CONSTANTS
  NoSanad = NoSanad
  NotFound = NotFound
  Failed = Failed
  ListCap = 2
  Absent = Absent
  NotText = NotText
  Relevant = {"ann"}
  AptosLimit = 2
  Branches <- MCBranches
  Adapters = {"sui", "aptos", "solana", "bitcoin", "ethereum"}
  MaxFaults = 2
INVARIANTS
  AnswersListTheBlock
