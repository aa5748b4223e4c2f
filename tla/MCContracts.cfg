SPECIFICATION ContractSpec
CONSTANTS
  Unit = 1
  MaxExcerpt = 2
  MaxText = 6
  MaxAlterations = 2
  Payloads <- MCPayloads
  Metadata <- MCMetadata
INVARIANTS
  TruthIsAccepted
  AcceptedIsSound
  NoDifferenceMeansSameTrades
CHECK_DEADLOCK FALSE
