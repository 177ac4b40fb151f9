\* Two sanads, three transfers, two seals, a contract and two enhanced seals,
\* stored and updated by at most six statements.
SPECIFICATION Spec
CONSTANTS
  NoSanad = NoSanad
  NotFound = NotFound
  Failed = Failed
  ListCap = 2
  SanadRows <- MCSanadRows
  TransferRows <- MCTransferRows
  SealRows <- MCSealRows
  ContractRows <- MCContractRows
  EnhancedSealRows <- MCEnhancedSealRows
  TransferStatuses = {"completed", "failed"}
  SealStatuses = {"consumed"}
  TransferQuestions <- MCTransferQuestions
  SealQuestions <- MCSealQuestions
  ContractQuestions <- MCContractQuestions
  Limits = {1}
  Addresses = {"ann"}
  MaxWrites = 6
INVARIANTS
  PagingMissesNothing
  QuietPagingMissesNothing
  LinksCanBeFollowed
  StatsBracketed
  AddressSeesItsTransfers
