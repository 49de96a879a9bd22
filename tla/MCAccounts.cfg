SPECIFICATION AccountsSpec
CONSTANTS
  eosio = eosio
  eosio_stake = eosio_stake
  eosio_saving = eosio_saving
  a = a
  b_a = b_a
  bb = bb
  bab = bab
  core = core
  other = other
  NoSymbol = NoSymbol
  Accounts = {eosio, eosio_stake, eosio_saving, a, b_a, bb, bab}
  System = eosio
  StakeAccount = eosio_stake
  SavingAccount = eosio_saving
  Founders = {eosio, eosio_stake, eosio_saving, a}
  Creators = {eosio, a}
  Receivers = {a, b_a}
  Signers = {a}
  Limited = {}
  NameLength = 3
  NameOf <- MCNameOf
  Issued = {core, other}
  Symbols = {core, other}
  FeeAmounts = {0, 1, 2}
  MaxFee <- MCMaxFee
  Holdings <- MCHoldings
  Endowment <- MCEndowment
  refund_delay_sec = 1
  CpuLimits = {5}
  Quantities = {1}
  Candidates = {}
  Keys = {}
  NoKey = NoKey
  TypeInputs = {}
  WeightInputs = {}
  MinWeight = 100
  MaxWeight = 1000
  TopSize = 1
  MaxVotes = 1
  UpdateInterval = 120
  BootSchedule <- EmptyTable
  FirstSlot = 3
  Int64Half = 100000
  MaxStake = 2
  MaxSlot = 4
INVARIANTS AccountsTypeOK NamesAreGranted NobodyBeforeItsTime TotalsInOneToken LimitFollowsTotal
PROPERTIES OnlyInitSplitsSymbols ClaimsComeBackInKind OnlyRestakingShortens
CHECK_DEADLOCK FALSE
