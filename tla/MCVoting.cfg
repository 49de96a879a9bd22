SPECIFICATION VotingSpec
CONSTANTS
  Accounts = {a1, a2}
  Candidates = {1, 2, 3}
  k1 = k1
  Keys = {k1}
  NoKey = NoKey
  TypeInputs = {a1, a2}
  WeightInputs = {0, 3}
  MinWeight = 1
  MaxWeight = 3
  TopSize = 2
  MaxVotes = 2
  UpdateInterval = 0
  BootSchedule <- MCBootSchedule
  FirstSlot = 2
  Int64Half = 4
  MaxStake = 2
  MaxSlot = 4
SYMMETRY AccountSymmetry
INVARIANTS VotingTypeOK TallyCorrect BallotsAreTyped StakedBallotsAreRegistered ActiveHasKey
           WeightIsOfVotes
PROPERTIES ElectionIsFair ScheduleNeverShrinks
CHECK_DEADLOCK FALSE
