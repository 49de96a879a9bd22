-------------------------------- MODULE Boot --------------------------------
(***************************************************************************)
(* The account eosio before and after the system contract: eosio.bios.hpp, *)
(* then, once the system contract is deployed over it, the actions of      *)
(* eosio.system.cpp and upgrade.cpp that keep a record of what they tell   *)
(* the chain.  Both contracts keep abihash, in the same table.             *)
(*                                                                         *)
(* The system contract loads its singletons in its constructor and writes  *)
(* all of them back in its destructor, so every action saves the global    *)
(* state, the first one what the chain had under the bios.                 *)
(***************************************************************************)
EXTENDS Integers, Tables

CONSTANTS
  Accounts,    \* accounts the actions may name
  Params,      \* blockchain_parameters, records with max_authority_depth
  BootParams,  \* those the chain starts with
  Absent,      \* stands for a singleton that was never saved
  Abis,        \* ABIs an account may set
  sha256,      \* ABI -> its hash
  Weights,     \* CPU weights the bios may grant
  Schedules,   \* schedules the bios may propose
  Cpus,        \* guarantees setgrtdcpu may be called with
  DefaultCpu,  \* 2 seconds
  MaxCpu,      \* 60 seconds
  Blocks       \* block numbers setupgrade may be called with

ASSUME BootAssumption ==
  /\ BootParams \in Params /\ Absent \notin Params
  /\ \A p \in Params : p.max_authority_depth \in Nat
  /\ Weights \subseteq Int /\ Cpus \subseteq Nat /\ Blocks \subseteq Nat
  /\ DefaultCpu \in Nat /\ MaxCpu \in Nat /\ DefaultCpu <= MaxCpu

VARIABLES
  contract,    \* the contract eosio runs, "bios" or "system"
  params,      \* the chain's parameters
  privileged,  \* the chain's privileged accounts
  weight,      \* table: account -> CPU weight the bios had the chain grant it
  schedule,    \* producers the bios last proposed
  target,      \* the chain's upgrade block, 0 for none
  abi,         \* table: account -> the ABI the chain holds for it
  global,      \* singleton: the system contract's record of the parameters
  upgrade,     \* singleton: its record of the upgrade block
  guaranteed_cpu,  \* of the singleton global2
  abihash,     \* table: account -> hash of its ABI
  cwl          \* table: the white list, which nothing reads

chainVars == <<contract, params, privileged, weight, schedule, target, abi>>
recordVars == <<global, upgrade, guaranteed_cpu, abihash, cwl>>
bootVars == <<chainVars, recordVars>>

BootInit ==
  /\ contract = "bios"
  /\ params = BootParams
  /\ privileged = {}
  /\ weight = EmptyTable
  /\ schedule = {}
  /\ target = 0
  /\ abi = EmptyTable
  /\ global = Absent
  /\ upgrade = 0
  /\ guaranteed_cpu = DefaultCpu
  /\ abihash = EmptyTable
  /\ cwl = {}

SetPrivileged(account, is_priv) ==
  privileged' = IF is_priv THEN privileged \cup {account} ELSE privileged \ {account}

(* The chain takes the ABI, then the contract's action keeps its hash.     *)
SetAbi(account, a) ==
  /\ abi' = Upsert(abi, account, a)
  /\ abihash' = Upsert(abihash, account, sha256[a])

-----------------------------------------------------------------------------
(* eosio.bios                                                              *)

bios_setpriv(account, is_priv) ==
  /\ SetPrivileged(account, is_priv)
  /\ UNCHANGED <<contract, params, weight, schedule, target, abi, recordVars>>

bios_setalimits(account, cpu_weight) ==
  /\ weight' = Upsert(weight, account, cpu_weight)
  /\ UNCHANGED <<contract, params, privileged, schedule, target, abi, recordVars>>

bios_setprods(s) ==
  /\ schedule' = s
  /\ UNCHANGED <<contract, params, privileged, weight, target, abi, recordVars>>

bios_setparams(p) ==
  /\ params' = p
  /\ UNCHANGED <<contract, privileged, weight, schedule, target, abi, recordVars>>

bios_setabi(account, a) ==
  /\ SetAbi(account, a)
  /\ UNCHANGED <<contract, params, privileged, weight, schedule, target,
                 global, upgrade, guaranteed_cpu, cwl>>

(* eosio sets its own code to the system contract, under the bios.         *)
Deploy ==
  /\ contract' = "system"
  /\ UNCHANGED <<params, privileged, weight, schedule, target, abi, recordVars>>

BiosNext ==
  \/ \E a \in Accounts :
       \/ \E b \in BOOLEAN : bios_setpriv(a, b)
       \/ \E w \in Weights : bios_setalimits(a, w)
       \/ \E x \in Abis : bios_setabi(a, x)
  \/ \E s \in Schedules : bios_setprods(s)
  \/ \E p \in Params : bios_setparams(p)
  \/ Deploy

-----------------------------------------------------------------------------
(* eosio.system                                                            *)

(* Mutant of Loaded: the record starts from parameters of its own.         *)
Loaded_Fresh == IF global = Absent THEN BootParams ELSE global

(* The constructor: get_default_parameters asks the chain.                 *)
Loaded == IF global = Absent THEN params ELSE global

(* The destructor, after an action that left the parameters alone.         *)
Saved == global' = Loaded

setparams(p) ==
  /\ p.max_authority_depth >= 3
  /\ global' = p
  /\ params' = p
  /\ UNCHANGED <<contract, privileged, weight, schedule, target, abi,
                 upgrade, guaranteed_cpu, abihash, cwl>>

(* Mutant of setgrtdcpu: no upper limit.                                   *)
setgrtdcpu_Unbounded(cpu) ==
  /\ cpu > guaranteed_cpu
  /\ guaranteed_cpu' = cpu
  /\ Saved
  /\ UNCHANGED <<chainVars, upgrade, abihash, cwl>>

setgrtdcpu(cpu) ==
  /\ cpu <= MaxCpu
  /\ cpu > guaranteed_cpu
  /\ guaranteed_cpu' = cpu
  /\ Saved
  /\ UNCHANGED <<chainVars, upgrade, abihash, cwl>>

setpriv(account, is_priv) ==
  /\ SetPrivileged(account, is_priv)
  /\ Saved
  /\ UNCHANGED <<contract, params, weight, schedule, target, abi,
                 upgrade, guaranteed_cpu, abihash, cwl>>

setupgrade(target_block_num) ==
  /\ upgrade' = target_block_num
  /\ target' = target_block_num
  /\ Saved
  /\ UNCHANGED <<contract, params, privileged, weight, schedule, abi,
                 guaranteed_cpu, abihash, cwl>>

awlset(action, account) ==
  /\ IF action = "add"
     THEN account \notin cwl /\ cwl' = cwl \cup {account}
     ELSE account \in cwl /\ cwl' = cwl \ {account}
  /\ Saved
  /\ UNCHANGED <<chainVars, upgrade, guaranteed_cpu, abihash>>

setabi(account, a) ==
  /\ SetAbi(account, a)
  /\ Saved
  /\ UNCHANGED <<contract, params, privileged, weight, schedule, target,
                 upgrade, guaranteed_cpu, cwl>>

(* Actions that keep none of these records themselves and save all of them:*)
(* onblock, setcode, buyram and buyrambytes of nothing, staking, voting ...*)
AnyOther ==
  /\ Saved
  /\ UNCHANGED <<chainVars, upgrade, guaranteed_cpu, abihash, cwl>>

SystemNext ==
  \/ \E p \in Params : setparams(p)
  \/ \E c \in Cpus : setgrtdcpu(c)
  \/ \E n \in Blocks : setupgrade(n)
  \/ \E a \in Accounts :
       \/ \E b \in BOOLEAN : setpriv(a, b)
       \/ \E x \in Abis : setabi(a, x)
       \/ \E action \in {"add", "delete"} : awlset(action, a)
  \/ AnyOther

BootNext ==
  \/ contract = "bios" /\ BiosNext
  \/ contract = "system" /\ SystemNext

BootSpec == BootInit /\ [][BootNext]_bootVars

-----------------------------------------------------------------------------
(* Both sides hold values of their declared kind, a guarantee within the   *)
(* limit, and the system contract no record before it is deployed.         *)
BootTypeOK ==
  /\ contract \in {"bios", "system"}
  /\ params \in Params /\ global \in Params \cup {Absent}
  /\ privileged \subseteq Accounts /\ cwl \subseteq Accounts
  /\ IsTable(weight, Accounts, Weights)
  /\ schedule \in Schedules \cup {{}}
  /\ {target, upgrade} \subseteq Nat
  /\ IsTable(abi, Accounts, Abis)
  /\ DOMAIN abihash \subseteq Accounts
  /\ guaranteed_cpu \in DefaultCpu..MaxCpu
  /\ contract = "bios" => global = Absent

(* What the system contract has on record is what the chain runs with, the *)
(* parameters the bios left behind included: no action writes back a copy  *)
(* that is out of date.                                                    *)
RecordsMirrorChain ==
  /\ global # Absent => global = params
  /\ upgrade = target

=============================================================================
