SPECIFICATION StakingSpec
CONSTANTS
  alice = alice
  bob = bob
  eosio_stake = eosio_stake
  Accounts = {alice, bob, eosio_stake}
  StakeAccount = eosio_stake
  Signers = {alice, bob}
  Limited = {alice, bob}
  Endowment <- MCEndowment
  refund_delay_sec = 1
  CpuLimits = {5}
  Quantities = {1, 2}
  Candidates = {}
  Keys = {k1}
  NoKey = NoKey
  TypeInputs = {}
  WeightInputs = {}
  MinWeight = 100
  MaxWeight = 1000
  TopSize = 1
  MaxVotes = 1
  UpdateInterval = 120
  BootSchedule <- EmptyTable
  FirstSlot = 3
  Int64Half = 100000
  MaxStake = 3
  MaxSlot = 6
INVARIANT Solvent
SYMMETRY HolderSymmetry
CHECK_DEADLOCK FALSE
