SPECIFICATION VotingSpec
CONSTANTS
  Accounts = {a1}
  Candidates = {1}
  k1 = k1
  Keys = {k1}
  NoKey = NoKey
  TypeInputs = {a1}
  WeightInputs = {}
  MinWeight = 100
  MaxWeight = 1000
  TopSize = 1
  MaxVotes = 1
  UpdateInterval = 120
  BootSchedule <- EmptyTable
  FirstSlot = 2
  Int64Half = 150
  MaxStake = 2
  MaxSlot = 2
PROPERTY UnstakingLosesPower
CHECK_DEADLOCK FALSE
