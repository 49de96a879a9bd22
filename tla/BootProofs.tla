----------------------------- MODULE BootProofs -----------------------------
(***************************************************************************)
(* Proofs about Boot, for any accounts, parameters and ABIs.  The record of*)
(* the parameters mirrors the chain because it starts as a copy of the     *)
(* chain's and only setparams changes either, once the system contract is  *)
(* deployed; before that there is no record.                               *)
(***************************************************************************)
EXTENDS Boot, TLAPS

USE BootAssumption

BootInv == BootTypeOK /\ RecordsMirrorChain

(* Setting an ABI keeps both tables of ABIs typed.                         *)
LEMMA SetAbiKeeps ==
  ASSUME BootTypeOK, NEW a \in Accounts, NEW x \in Abis, SetAbi(a, x)
  PROVE  IsTable(abi', Accounts, Abis) /\ DOMAIN abihash' \subseteq Accounts
BY DEF SetAbi, Upsert, IsTable, BootTypeOK

(* Saving what was loaded: the record is the chain's parameters afterwards.*)
LEMMA SavedKeeps ==
  ASSUME BootTypeOK, RecordsMirrorChain, Saved
  PROVE  global' = params /\ global' \in Params
BY DEF BootTypeOK, RecordsMirrorChain, Saved, Loaded

LEMMA BiosKeeps ==
  ASSUME BootInv, contract = "bios", BiosNext
  PROVE  BootInv'
<1>. USE DEF BootInv, chainVars, recordVars
<1>1. ASSUME NEW a \in Accounts, NEW x \in Abis, bios_setabi(a, x)
      PROVE  BootInv'
  <2>1. IsTable(abi', Accounts, Abis) /\ DOMAIN abihash' \subseteq Accounts
    BY <1>1, SetAbiKeeps DEF bios_setabi
  <2>. QED  BY <1>1, <2>1 DEF bios_setabi, BootTypeOK, RecordsMirrorChain
<1>2. ASSUME NEW a \in Accounts, NEW w \in Weights, bios_setalimits(a, w)
      PROVE  BootInv'
  <2>1. IsTable(weight', Accounts, Weights)
    BY <1>2 DEF bios_setalimits, BootTypeOK, IsTable, Upsert
  <2>. QED  BY <1>2, <2>1 DEF bios_setalimits, BootTypeOK, RecordsMirrorChain
<1>3. ASSUME NEW a \in Accounts, NEW b \in BOOLEAN, bios_setpriv(a, b)
      PROVE  BootInv'
  BY <1>3 DEF bios_setpriv, SetPrivileged, BootTypeOK, RecordsMirrorChain
<1>4. ASSUME NEW s \in Schedules, bios_setprods(s)
      PROVE  BootInv'
  BY <1>4 DEF bios_setprods, BootTypeOK, RecordsMirrorChain
<1>5. ASSUME NEW p \in Params, bios_setparams(p)
      PROVE  BootInv'
  BY <1>5 DEF bios_setparams, BootTypeOK, RecordsMirrorChain
<1>6. CASE Deploy
  BY <1>6 DEF Deploy, BootTypeOK, RecordsMirrorChain
<1>. QED  BY <1>1, <1>2, <1>3, <1>4, <1>5, <1>6 DEF BiosNext

LEMMA SystemKeeps ==
  ASSUME BootInv, contract = "system", SystemNext
  PROVE  BootInv'
<1>. USE DEF BootInv, chainVars, recordVars
<1>1. ASSUME NEW p \in Params, setparams(p)
      PROVE  BootInv'
  BY <1>1 DEF setparams, BootTypeOK, RecordsMirrorChain
<1>2. ASSUME NEW c \in Cpus, setgrtdcpu(c)
      PROVE  BootInv'
  <2>1. guaranteed_cpu' \in DefaultCpu..MaxCpu
    BY <1>2 DEF setgrtdcpu, BootTypeOK
  <2>. QED  BY <1>2, <2>1, SavedKeeps
            DEF setgrtdcpu, BootTypeOK, RecordsMirrorChain
<1>3. ASSUME NEW n \in Blocks, setupgrade(n)
      PROVE  BootInv'
  BY <1>3, SavedKeeps DEF setupgrade, BootTypeOK, RecordsMirrorChain
<1>4. ASSUME NEW a \in Accounts, NEW b \in BOOLEAN, setpriv(a, b)
      PROVE  BootInv'
  BY <1>4, SavedKeeps
     DEF setpriv, SetPrivileged, BootTypeOK, RecordsMirrorChain
<1>5. ASSUME NEW a \in Accounts, NEW x \in Abis, setabi(a, x)
      PROVE  BootInv'
  <2>1. IsTable(abi', Accounts, Abis) /\ DOMAIN abihash' \subseteq Accounts
    BY <1>5, SetAbiKeeps DEF setabi
  <2>. QED  BY <1>5, <2>1, SavedKeeps DEF setabi, BootTypeOK, RecordsMirrorChain
<1>6. ASSUME NEW a \in Accounts, NEW action, awlset(action, a)
      PROVE  BootInv'
  BY <1>6, SavedKeeps DEF awlset, BootTypeOK, RecordsMirrorChain
<1>7. CASE AnyOther
  BY <1>7, SavedKeeps DEF AnyOther, BootTypeOK, RecordsMirrorChain
<1>. QED  BY <1>1, <1>2, <1>3, <1>4, <1>5, <1>6, <1>7 DEF SystemNext

LEMMA BootInvInit == BootInit => BootInv
BY DEF BootInit, BootInv, BootTypeOK, RecordsMirrorChain, IsTable, EmptyTable

LEMMA BootInvStep == BootInv /\ [BootNext]_bootVars => BootInv'
<1>. SUFFICES ASSUME BootInv, [BootNext]_bootVars PROVE BootInv'
  OBVIOUS
<1>1. CASE UNCHANGED bootVars
  BY <1>1 DEF bootVars, chainVars, recordVars, BootInv, BootTypeOK, RecordsMirrorChain
<1>. QED  BY <1>1, BiosKeeps, SystemKeeps DEF BootNext

(* Both contracts keep their tables typed, and the system contract makes no*)
(* record before it is deployed.                                           *)
THEOREM BootTypeCorrect == BootSpec => []BootTypeOK
<1>1. BootInv => BootTypeOK
  BY DEF BootInv
<1>. QED  BY <1>1, BootInvInit, BootInvStep, PTL DEF BootSpec

(* The constructor and destructor of the system contract never write back  *)
(* parameters that the chain does not run with.                            *)
THEOREM RecordsAlwaysMirror == BootSpec => []RecordsMirrorChain
<1>1. BootInv => RecordsMirrorChain
  BY DEF BootInv
<1>. QED  BY <1>1, BootInvInit, BootInvStep, PTL DEF BootSpec

=============================================================================
