SPECIFICATION Spec
CONSTANTS
  Providers <- AllProviders
  MaxBlocks = 3
  MaxPieces = 3
  Closing = {2}
  Signatures = {2, 3}
INVARIANTS AnswerArrives StoredIsStreamed
PROPERTY ContractSpec
CHECK_DEADLOCK FALSE
