SPECIFICATION RecordsSpec
CONSTANTS
  alice = alice
  bob = bob
  Ids = {i1, i2}
  Names = {alice, bob, ghost}
  OnChain = {alice, bob}
  Symbols = {SYS, EUR}
  Amounts <- MCAmounts
  MaxAmount = 1
  Payloads = {x}
  MaxKey = 1
SYMMETRY RecordSymmetry
INVARIANTS RecordsTypeOK OneRowPerId
PROPERTY BooksImplemented
CHECK_DEADLOCK FALSE
