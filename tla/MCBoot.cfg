SPECIFICATION BootSpec
CONSTANTS
  abi1 = abi1
  abi2 = abi2
  prod = prod
  Accounts = {eosio, acnt}
  Params <- MCParams
  BootParams <- MCBootParams
  Absent = Absent
  Abis = {abi1, abi2}
  sha256 <- MCSha256
  Weights = {7}
  Schedules <- MCSchedules
  Cpus = {2, 3, 4, 5}
  DefaultCpu = 2
  MaxCpu = 4
  Blocks = {1, 2}
INVARIANTS BootTypeOK RecordsMirrorChain
CHECK_DEADLOCK FALSE
