SPECIFICATION TokenSpec
CONSTANTS
  Names = {alice, bob, carol, ghost}
  OnChain = {alice, bob, carol}
  Codes = {SYS}
  Precisions = {0, 4}
  Amounts <- MCAmounts
  MaxAmount = 3
INVARIANTS TokenTypeOK Conservation SupplyWithinMax SymbolsAgree TransfersFit
PROPERTY LedgerImplemented
CHECK_DEADLOCK FALSE
