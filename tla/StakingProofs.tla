---------------------------- MODULE StakingProofs ----------------------------
(***************************************************************************)
(* Proofs about Staking.  One call of changebw adds the same amount to one *)
(* delband entry, to the total of the receiver and to the voting stake of  *)
(* the account it is charged to, so the sums of rows and columns of        *)
(* delband stay equal to the other two.                                    *)
(***************************************************************************)
EXTENDS Staking, VotingProofs

USE VotingAssumption, StakingAssumption

-----------------------------------------------------------------------------
(* Tables of amounts.                                                      *)

(* PutOrErase changes the amount of one key.                               *)
LEMMA PutAmount ==
  ASSUME NEW t, NEW k, NEW w
  PROVE  \A x : AmountAt(PutOrErase(t, k, w), x) = IF x = k THEN w ELSE AmountAt(t, x)
BY DEF PutOrErase, Upsert, Erase, AmountAt

(* It keeps a table of naturals one.                                       *)
LEMMA PutTable ==
  ASSUME NEW t, NEW Key, NEW Num, Num \in {Nat, Nat \ {0}}, IsTable(t, Key, Num),
         NEW k \in Key, NEW w \in Nat
  PROVE  IsTable(PutOrErase(t, k, w), Key, Num)
BY DEF PutOrErase, Upsert, Erase, IsTable

(* An amount of a table of naturals is a natural.                          *)
LEMMA AmountAtType ==
  ASSUME NEW t, NEW Key, NEW Num, Num \in {Nat, Nat \ {0}}, IsTable(t, Key, Num), NEW k
  PROVE  AmountAt(t, k) \in Nat
BY DEF AmountAt, IsTable

-----------------------------------------------------------------------------
(* Type correctness.                                                       *)

LEMMA PaidType ==
  ASSUME balance \in [Accounts -> Nat], NEW from \in Accounts, NEW to \in Accounts,
         from # to, NEW n \in Nat, Paid(from, to, n)
  PROVE  balance' \in [Accounts -> Nat]
BY DEF Paid

RefundsOK == /\ IsTable(refunds, Accounts, Refund)
             /\ \A a \in DOMAIN refunds : refunds[a].cpu_amount > 0

LEMMA PendingType == RefundsOK => \A a : Pending(a) \in Nat
BY DEF RefundsOK, IsTable, Refund, Pending

LEMMA UpdateRefundType ==
  ASSUME RefundsOK, IsTable(deferred, Accounts, Nat), slot \in Nat,
         NEW from \in Accounts, NEW delta \in Int, delta # 0, update_refund(from, delta)
  PROVE  RefundsOK' /\ IsTable(deferred', Accounts, Nat)
<1>. DEFINE left == RefundLeft(from, delta)
            row == [request_time |-> IF delta < 0 THEN seconds ELSE refunds[from].request_time,
                    cpu_amount |-> left]
            due == slot + 2 * refund_delay_sec
<1>1. Pending(from) \in Nat
  BY PendingType
<1>2. left \in Nat /\ (left # 0 /\ delta >= 0 => from \in DOMAIN refunds)
  BY <1>1 DEF RefundLeft, Pending
<1>3. /\ refunds' = IF left = 0 THEN Erase(refunds, from) ELSE Upsert(refunds, from, row)
      /\ deferred' = IF left = 0 THEN Erase(deferred, from) ELSE Upsert(deferred, from, due)
  BY DEF update_refund, DueSlot
<1>4. seconds \in Nat
  BY DEF seconds
<1>5. left # 0 => row \in Refund /\ row.cpu_amount > 0
  <2>1. CASE delta < 0
    BY <2>1, <1>2, <1>4 DEF Refund
  <2>2. CASE delta >= 0 /\ left # 0
    <3>1. refunds[from] \in Refund
      BY <2>2, <1>2 DEF RefundsOK, IsTable
    <3>. HIDE DEF left
    <3>. QED  BY <3>1, <2>2, <1>2 DEF Refund
  <2>. HIDE DEF left
  <2>. QED  BY <2>1, <2>2, <1>2
<1>6. due \in Nat
  OBVIOUS
<1>. HIDE DEF left, row, due
<1>7. CASE left = 0
  BY <1>3, <1>7 DEF RefundsOK, Erase, IsTable
<1>8. CASE left # 0
  BY <1>3, <1>5, <1>6, <1>8 DEF RefundsOK, Upsert, IsTable
<1>. QED  BY <1>7, <1>8

LEMMA EraseType ==
  ASSUME NEW t, NEW Key, NEW Row, IsTable(t, Key, Row), NEW k
  PROVE  IsTable(Erase(t, k), Key, Row)
BY DEF Erase, IsTable

LEMMA ChargeType ==
  ASSUME NEW from, NEW r, NEW delta \in Int, NEW t
  PROVE  Charge(from, r, delta, t) \in Nat
BY DEF Charge

StakeTypeOK == /\ IsTable(delband, Accounts \X Accounts, Nat \ {0})
               /\ IsTable(userres, Accounts, Nat)
               /\ RefundsOK
               /\ IsTable(deferred, Accounts, Nat)
               /\ cpuLimit \in [Accounts -> Int]
               /\ balance \in [Accounts -> Nat]

LEMMA ChangebwType ==
  ASSUME StakeTypeOK, slot \in Nat, NEW source \in Accounts, NEW receiver \in Accounts,
         NEW delta \in Int, delta # 0, NEW transfer \in BOOLEAN,
         changebw(source, receiver, delta, transfer)
  PROVE  StakeTypeOK'
<1>. USE DEF StakeTypeOK
<1>. DEFINE from == IF transfer THEN receiver ELSE source
            charge == Charge(from, receiver, delta, transfer)
<1>1. from \in Accounts /\ charge \in Nat
  BY ChargeType
<1>2. /\ update_delband(from, receiver, delta)
      /\ update_totals(receiver, delta)
      /\ IF source = StakeAccount
         THEN UNCHANGED <<refunds, deferred, balance>>
         ELSE /\ IF TouchesRefund(from, receiver, delta, transfer)
                 THEN update_refund(from, delta)
                 ELSE deferred' = Erase(deferred, from) /\ UNCHANGED refunds
              /\ IF charge > 0 THEN Paid(source, StakeAccount, charge) ELSE UNCHANGED balance
  BY DEF changebw
<1>. HIDE DEF from, charge
<1>3. IsTable(delband', Accounts \X Accounts, Nat \ {0})
  <2>. DEFINE w == AmountAt(delband, <<from, receiver>>) + delta
  <2>1. w \in Nat /\ delband' = PutOrErase(delband, <<from, receiver>>, w)
    BY <1>2, AmountAtType DEF update_delband
  <2>2. <<from, receiver>> \in Accounts \X Accounts
    BY <1>1
  <2>. HIDE DEF w
  <2>. QED  BY <2>1, <2>2, PutTable
<1>4. IsTable(userres', Accounts, Nat) /\ cpuLimit' \in [Accounts -> Int]
  <2>. DEFINE w == AmountAt(userres, receiver) + delta
  <2>1. w \in Nat /\ userres' = PutOrErase(userres, receiver, w)
        /\ cpuLimit' = [cpuLimit EXCEPT ![receiver] = w]
    BY <1>2, AmountAtType DEF update_totals
  <2>. HIDE DEF w
  <2>. QED  BY <2>1, PutTable
<1>5. RefundsOK' /\ IsTable(deferred', Accounts, Nat)
  <2>1. CASE UNCHANGED <<refunds, deferred>>
    BY <2>1 DEF RefundsOK
  <2>2. CASE update_refund(from, delta)
    BY <2>2, <1>1, UpdateRefundType
  <2>3. CASE deferred' = Erase(deferred, from) /\ UNCHANGED refunds
    BY <2>3, EraseType DEF RefundsOK
  <2>. QED  BY <1>2, <2>1, <2>2, <2>3
<1>6. balance' \in [Accounts -> Nat]
  <2>1. CASE source # StakeAccount /\ charge > 0
    BY <2>1, <1>1, <1>2, PaidType
  <2>2. CASE ~ (source # StakeAccount /\ charge > 0)
    BY <2>2, <1>2
  <2>. QED  BY <2>1, <2>2
<1>. QED  BY <1>3, <1>4, <1>5, <1>6

LEMMA PaidStakeType ==
  ASSUME StakeTypeOK, NEW a \in Accounts, a # StakeAccount, refund(a)
  PROVE  RefundsOK' /\ balance' \in [Accounts -> Nat]
<1>1. refunds[a] \in Refund /\ refunds' = Erase(refunds, a)
      /\ Paid(StakeAccount, a, refunds[a].cpu_amount)
  BY DEF refund, StakeTypeOK, RefundsOK, IsTable
<1>2. refunds[a].cpu_amount \in Nat
  BY <1>1 DEF Refund
<1>3. RefundsOK'
  BY <1>1 DEF StakeTypeOK, RefundsOK, Erase, IsTable
<1>. QED  BY <1>1, <1>2, <1>3, PaidType DEF StakeTypeOK

(* The step of each action, by the parts of the state it may touch.        *)
LEMMA StakingCases ==
  ASSUME StakingNext
  PROVE  \/ \E s, r \in Accounts, d \in Int, t \in BOOLEAN : d # 0 /\ changebw(s, r, d, t)
         \/ \E a \in Accounts : RefundByOwner(a) \/ RunDeferred(a)
         \/ \E a \in Accounts, l \in CpuLimits : setalimits(a, l)
         \/ \E a, b \in Accounts, q \in Quantities : TokenTransfer(a, b, q)
         \/ VotingActions /\ UNCHANGED stakeVars
<1>1. ASSUME NEW s \in Signers, NEW r \in Accounts, NEW q \in Quantities, NEW t \in BOOLEAN,
             delegatebw(s, r, q, t) \/ undelegatebw(s, r, q)
      PROVE  \E ss, rr \in Accounts, d \in Int, tt \in BOOLEAN : d # 0 /\ changebw(ss, rr, d, tt)
  <2>1. s \in Accounts /\ q \in Nat \ {0}
    OBVIOUS
  <2>2. CASE delegatebw(s, r, q, t)
    <3>1. changebw(s, r, q, t) /\ q # 0 /\ q \in Int
      BY <2>1, <2>2 DEF delegatebw
    <3>. QED  BY <2>1, <3>1
  <2>3. CASE undelegatebw(s, r, q)
    <3>. DEFINE d == 0 - q
    <3>1. changebw(s, r, d, FALSE)
      BY <2>3 DEF undelegatebw
    <3>2. d # 0 /\ d \in Int
      BY <2>1
    <3>. HIDE DEF d
    <3>. QED  BY <2>1, <3>1, <3>2
  <2>. QED  BY <1>1, <2>2, <2>3
<1>. QED  BY <1>1 DEF StakingNext, StakingActions, dlgtcpu, undlgtcpu

LEMMA StakingTypeStep ==
  StakingTypeOK /\ [StakingNext]_stakingVars => StakingTypeOK'
<1>. SUFFICES ASSUME VotingTypeOK, StakeTypeOK, [StakingNext]_stakingVars
              PROVE  VotingTypeOK' /\ StakeTypeOK'
  BY DEF StakingTypeOK, StakeTypeOK, RefundsOK
<1>1. ASSUME NEW s \in Accounts, NEW r \in Accounts, NEW d \in Int, NEW t \in BOOLEAN,
             d # 0, changebw(s, r, d, t)
      PROVE  VotingTypeOK' /\ StakeTypeOK'
  <2>. DEFINE from == IF t THEN r ELSE s
  <2>1. update_voting_power(from, d) /\ UNCHANGED <<acntype, vwstate, gstate, slot, proposed>>
        /\ from \in Accounts /\ slot \in Nat
    BY <1>1 DEF changebw, VotingTypeOK
  <2>. HIDE DEF from
  <2>2. VotingTypeOK'
    BY <2>1, UpdateVotingPowerType DEF VotingTypeOK
  <2>. QED  BY <2>1, <2>2, <1>1, ChangebwType
<1>2. ASSUME NEW a \in Accounts, RefundByOwner(a)
      PROVE  VotingTypeOK' /\ StakeTypeOK'
  BY <1>2, PaidStakeType DEF RefundByOwner, refund, StakeTypeOK, VotingTypeOK, votingVars
<1>3. ASSUME NEW a \in Accounts, RunDeferred(a)
      PROVE  VotingTypeOK' /\ StakeTypeOK'
  <2>1. VotingTypeOK'
    BY <1>3 DEF RunDeferred, VotingTypeOK, votingVars
  <2>2. RefundsOK' /\ balance' \in [Accounts -> Nat]
    <3>1. CASE refund(a)
      BY <3>1, PaidStakeType DEF refund
    <3>2. CASE UNCHANGED <<refunds, balance>>
      BY <3>2 DEF StakeTypeOK, RefundsOK
    <3>. QED  BY <1>3, <3>1, <3>2 DEF RunDeferred
  <2>3. IsTable(deferred', Accounts, Nat)
    BY <1>3, EraseType DEF RunDeferred, StakeTypeOK
  <2>. QED  BY <1>3, <2>1, <2>2, <2>3 DEF RunDeferred, StakeTypeOK
<1>4. ASSUME NEW a \in Accounts, NEW l \in CpuLimits, setalimits(a, l)
      PROVE  VotingTypeOK' /\ StakeTypeOK'
  BY <1>4 DEF setalimits, StakeTypeOK, RefundsOK, VotingTypeOK, votingVars
<1>5. ASSUME NEW a \in Accounts, NEW b \in Accounts, NEW q \in Quantities,
             TokenTransfer(a, b, q)
      PROVE  VotingTypeOK' /\ StakeTypeOK'
  <2>1. balance' \in [Accounts -> Nat]
    BY <1>5, PaidType DEF TokenTransfer, StakeTypeOK
  <2>. QED  BY <1>5, <2>1 DEF TokenTransfer, StakeTypeOK, RefundsOK, VotingTypeOK, votingVars
<1>6. CASE VotingActions /\ UNCHANGED stakeVars
  <2>1. VotingNext
    BY <1>6 DEF VotingNext
  <2>2. VotingTypeOK'
    BY <2>1, VotingTypeStep
  <2>. QED  BY <1>6, <2>2 DEF stakeVars, StakeTypeOK, RefundsOK
<1>7. CASE UNCHANGED stakingVars
  BY <1>7 DEF stakingVars, stakeVars, votingVars, StakeTypeOK, RefundsOK, VotingTypeOK
<1>. QED  BY <1>1, <1>2, <1>3, <1>4, <1>5, <1>6, <1>7, StakingCases

LEMMA StakingTypeInit == StakingInit => StakingTypeOK
<1>. SUFFICES ASSUME StakingInit PROVE StakingTypeOK
  OBVIOUS
<1>1. VotingTypeOK
  BY VotingTypeInit DEF StakingInit
<1>. QED  BY <1>1 DEF StakingInit, StakingTypeOK, IsTable, EmptyTable

(* Staking is type correct: no amount of any table is ever negative.       *)
THEOREM StakingTypeCorrect == StakingSpec => []StakingTypeOK
BY StakingTypeInit, StakingTypeStep, PTL DEF StakingSpec

-----------------------------------------------------------------------------
(* Stake, rows and columns.                                                *)

LEMMA DelegatedType ==
  StakeTypeOK => \A a, b : Delegated(a, b) \in Nat
BY AmountAtType DEF StakeTypeOK, Delegated

(* One delband entry grows by delta, and so does its row's sum ...         *)
LEMMA RowSum ==
  ASSUME StakeTypeOK, StakeTypeOK', NEW from \in Accounts, NEW to \in Accounts, NEW delta \in Int,
         \A a, b : Delegated(a, b)' = IF <<a, b>> = <<from, to>>
                                     THEN Delegated(a, b) + delta ELSE Delegated(a, b)
  PROVE  \A a \in Accounts :
           DelegatedBy(a)' = IF a = from THEN DelegatedBy(a) + delta ELSE DelegatedBy(a)
<1>. SUFFICES ASSUME NEW a \in Accounts
              PROVE  DelegatedBy(a)'
                       = IF a = from THEN DelegatedBy(a) + delta ELSE DelegatedBy(a)
  OBVIOUS
<1>. DEFINE f == [b \in Accounts |-> Delegated(a, b)]
            g == [b \in Accounts |-> Delegated(a, b)']
<1>0. \A b : Delegated(a, b) \in Int
  BY DelegatedType
<1>1. \A b \in Accounts : f[b] \in Int /\ g[b] \in Int
  BY <1>0
<1>2. \A b \in Accounts \ {to} : f[b] = g[b]
  OBVIOUS
<1>3. g[to] = IF a = from THEN f[to] + delta ELSE f[to]
  OBVIOUS
<1>4. DelegatedBy(a) = SumFunctionOnSet(f, Accounts)
      /\ DelegatedBy(a)' = SumFunctionOnSet(g, Accounts)
  BY DEF DelegatedBy
<1>. HIDE DEF f, g
<1>5. SumFunctionOnSet(g, Accounts) = SumFunctionOnSet(f, Accounts) + g[to] - f[to]
  BY <1>1, <1>2, SumUpdate
<1>6. SumFunctionOnSet(f, Accounts) \in Int
  BY <1>1, SumType
<1>. QED  BY <1>1, <1>3, <1>4, <1>5, <1>6

(* ... and its column's.                                                   *)
LEMMA ColumnSum ==
  ASSUME StakeTypeOK, StakeTypeOK', NEW from \in Accounts, NEW to \in Accounts, NEW delta \in Int,
         \A a, b : Delegated(a, b)' = IF <<a, b>> = <<from, to>>
                                     THEN Delegated(a, b) + delta ELSE Delegated(a, b)
  PROVE  \A b \in Accounts :
           DelegatedTo(b)' = IF b = to THEN DelegatedTo(b) + delta ELSE DelegatedTo(b)
<1>. SUFFICES ASSUME NEW b \in Accounts
              PROVE  DelegatedTo(b)'
                       = IF b = to THEN DelegatedTo(b) + delta ELSE DelegatedTo(b)
  OBVIOUS
<1>. DEFINE f == [a \in Accounts |-> Delegated(a, b)]
            g == [a \in Accounts |-> Delegated(a, b)']
<1>0. \A a : Delegated(a, b) \in Int
  BY DelegatedType
<1>1. \A a \in Accounts : f[a] \in Int /\ g[a] \in Int
  BY <1>0
<1>2. \A a \in Accounts \ {from} : f[a] = g[a]
  OBVIOUS
<1>3. g[from] = IF b = to THEN f[from] + delta ELSE f[from]
  OBVIOUS
<1>4. DelegatedTo(b) = SumFunctionOnSet(f, Accounts)
      /\ DelegatedTo(b)' = SumFunctionOnSet(g, Accounts)
  BY DEF DelegatedTo
<1>. HIDE DEF f, g
<1>5. SumFunctionOnSet(g, Accounts) = SumFunctionOnSet(f, Accounts) + g[from] - f[from]
  <2>1. from \in Accounts /\ IsFiniteSet(Accounts)
    OBVIOUS
  <2>. QED  BY ONLY <1>1, <1>2, <2>1, SumUpdate
<1>6. SumFunctionOnSet(f, Accounts) \in Int
  BY <1>1, SumType
<1>. QED  BY <1>1, <1>3, <1>4, <1>5, <1>6

StakingInv == /\ StakingTypeOK
              /\ VotingInv
              /\ VotingPowerIsStake
              /\ TotalsAreDelegations
              /\ LimitFollowsTotal

LEMMA StakingTypeSplit == StakingTypeOK <=> VotingTypeOK /\ StakeTypeOK
BY DEF StakingTypeOK, StakeTypeOK, RefundsOK

LEMMA ChangebwKeeps ==
  ASSUME StakingInv, StakingTypeOK', NEW s \in Accounts, NEW r \in Accounts,
         NEW d \in Int, NEW t \in BOOLEAN, changebw(s, r, d, t)
  PROVE  StakingInv'
<1>. DEFINE from == IF t THEN r ELSE s
<1>1. /\ update_delband(from, r, d) /\ update_totals(r, d) /\ update_voting_power(from, d)
      /\ acntype' = acntype /\ from \in Accounts
  BY DEF changebw
<1>2. /\ VotingTypeOK /\ StakeTypeOK /\ VotingTypeOK' /\ StakeTypeOK'
      /\ VotingInv /\ VotingPowerIsStake /\ TotalsAreDelegations /\ LimitFollowsTotal
  BY StakingTypeSplit DEF StakingInv, StakingTypeOK, StakeTypeOK, RefundsOK
<1>. HIDE DEF from
<1>3. \A a, b : Delegated(a, b)' = IF <<a, b>> = <<from, r>>
                                  THEN Delegated(a, b) + d ELSE Delegated(a, b)
  <2>. DEFINE w == AmountAt(delband, <<from, r>>) + d
  <2>1. delband' = PutOrErase(delband, <<from, r>>, w)
    BY <1>1 DEF update_delband
  <2>. HIDE DEF w
  <2>2. \A x : AmountAt(delband', x) = IF x = <<from, r>> THEN w ELSE AmountAt(delband, x)
    BY <2>1, PutAmount
  <2>. QED  BY <2>2 DEF Delegated, w
<1>4. VotingPowerIsStake'
  <2>1. \A a \in Accounts :
          DelegatedBy(a)' = IF a = from THEN DelegatedBy(a) + d ELSE DelegatedBy(a)
    BY <1>1, <1>2, <1>3, RowSum
  <2>2. \A a : StakedBy(a)' = IF a = from THEN StakedBy(a) + d ELSE StakedBy(a)
    BY <1>1, <1>2, StakeEffect
  <2>. QED  BY <1>2, <2>1, <2>2 DEF VotingPowerIsStake
<1>. DEFINE w == AmountAt(userres, r) + d
<1>5. userres' = PutOrErase(userres, r, w) /\ cpuLimit' = [cpuLimit EXCEPT ![r] = w]
  BY <1>1 DEF update_totals
<1>6. TotalsAreDelegations'
  <2>1. \A b \in Accounts :
          DelegatedTo(b)' = IF b = r THEN DelegatedTo(b) + d ELSE DelegatedTo(b)
    BY <1>1, <1>2, <1>3, ColumnSum
  <2>2. \A x : AmountAt(userres', x) = IF x = r THEN w ELSE AmountAt(userres, x)
    <3>. HIDE DEF w
    <3>. QED  BY <1>5, PutAmount
  <2>. QED  BY <1>2, <2>1, <2>2 DEF TotalsAreDelegations
<1>7. LimitFollowsTotal'
  <2>. HIDE DEF w
  <2>1. cpuLimit \in [Accounts -> Int] /\ DOMAIN userres \subseteq Accounts
    BY <1>2 DEF StakeTypeOK, IsTable
  <2>2. \A a \in DOMAIN userres' : userres'[a] = IF a = r THEN w ELSE userres[a]
    BY <1>5 DEF PutOrErase, Upsert, Erase
  <2>3. \A a \in DOMAIN userres' : a = r \/ a \in DOMAIN userres
    BY <1>5 DEF PutOrErase, Upsert, Erase
  <2>. QED  BY <1>2, <1>5, <2>1, <2>2, <2>3 DEF LimitFollowsTotal
<1>8. VotingInv'
  BY <1>1, <1>2, VotingPowerKeeps
<1>. QED  BY <1>4, <1>6, <1>7, <1>8 DEF StakingInv

(* A step that changes no stake, no delegation and no total.               *)
LEMMA RecordsUntouched ==
  ASSUME StakingInv, delband' = delband, userres' = userres,
         \A a : StakedBy(a)' = StakedBy(a)
  PROVE  VotingPowerIsStake' /\ TotalsAreDelegations'
<1>1. \A a, b : Delegated(a, b)' = Delegated(a, b)
  BY DEF Delegated
<1>2. \A a : DelegatedBy(a)' = DelegatedBy(a) /\ DelegatedTo(a)' = DelegatedTo(a)
  BY <1>1 DEF DelegatedBy, DelegatedTo
<1>3. VotingPowerIsStake'
  BY <1>2 DEF StakingInv, VotingPowerIsStake
<1>4. TotalsAreDelegations'
  BY <1>2 DEF StakingInv, TotalsAreDelegations
<1>. QED  BY <1>3, <1>4

LEMMA StakingInvStep == StakingInv /\ [StakingNext]_stakingVars => StakingInv'
<1>. SUFFICES ASSUME StakingInv, [StakingNext]_stakingVars
              PROVE  StakingInv'
  OBVIOUS
<1>0. StakingTypeOK' /\ VotingTypeOK /\ VotingInv
  BY StakingTypeStep DEF StakingInv, VotingInv
<1>1. ASSUME NEW s \in Accounts, NEW r \in Accounts, NEW d \in Int, NEW t \in BOOLEAN,
             changebw(s, r, d, t)
      PROVE  StakingInv'
  BY <1>0, <1>1, ChangebwKeeps
<1>2. ASSUME UNCHANGED votingVars
      PROVE  VotingInv' /\ \A a : StakedBy(a)' = StakedBy(a)
  <2>1. VotingInv'
    BY <1>0, <1>2, VotingInvStep
  <2>. QED  BY <2>1, <1>2 DEF votingVars, StakedBy, VoterRow
<1>3. ASSUME UNCHANGED <<delband, userres, cpuLimit, votingVars>>
      PROVE  StakingInv'
  <2>1. VotingPowerIsStake' /\ TotalsAreDelegations'
    BY <1>2, <1>3, RecordsUntouched
  <2>. QED  BY <1>0, <1>2, <1>3, <2>1 DEF StakingInv, LimitFollowsTotal
<1>4. ASSUME NEW a \in Accounts, RefundByOwner(a) \/ RunDeferred(a)
      PROVE  StakingInv'
  BY <1>3, <1>4 DEF RefundByOwner, RunDeferred
<1>5. ASSUME NEW a \in Accounts, NEW l \in CpuLimits, setalimits(a, l)
      PROVE  StakingInv'
  <2>1. VotingPowerIsStake' /\ TotalsAreDelegations'
    BY <1>2, <1>5, RecordsUntouched DEF setalimits
  <2>2. LimitFollowsTotal'
    BY <1>5 DEF setalimits, StakingInv, LimitFollowsTotal, StakingTypeOK
  <2>. QED  BY <1>0, <1>2, <1>5, <2>1, <2>2 DEF setalimits, StakingInv
<1>6. ASSUME NEW a \in Accounts, NEW b \in Accounts, NEW q \in Quantities, TokenTransfer(a, b, q)
      PROVE  StakingInv'
  BY <1>3, <1>6 DEF TokenTransfer
<1>7. CASE VotingActions /\ UNCHANGED stakeVars
  <2>1. VotingInv'
    <3>1. VotingNext
      BY <1>7 DEF VotingNext
    <3>. QED  BY <1>0, <3>1, VotingInvStep
  <2>2. \A a : StakedBy(a)' = StakedBy(a)
    BY <1>0, <1>7, VotingKeepsStake
  <2>3. VotingPowerIsStake' /\ TotalsAreDelegations'
    BY <1>7, <2>2, RecordsUntouched DEF stakeVars
  <2>. QED  BY <1>0, <1>7, <2>1, <2>3 DEF stakeVars, StakingInv, LimitFollowsTotal
<1>8. CASE UNCHANGED stakingVars
  BY <1>3, <1>8 DEF stakingVars, stakeVars
<1>. QED  BY <1>1, <1>4, <1>5, <1>6, <1>7, <1>8, StakingCases

LEMMA StakingInvInit == StakingInit => StakingInv
<1>. SUFFICES ASSUME StakingInit PROVE StakingInv
  OBVIOUS
<1>1. VotingInv
  BY VotingInvInit DEF StakingInit
<1>2. \A a, b : Delegated(a, b) = 0
  BY DEF StakingInit, EmptyTable, Delegated, AmountAt
<1>3. \A a : DelegatedBy(a) = 0 /\ DelegatedTo(a) = 0
  <2>1. \A a : DelegatedBy(a) = 0
    BY <1>2, SumZero DEF DelegatedBy
  <2>2. \A a : DelegatedTo(a) = 0
    BY <1>2, SumZero DEF DelegatedTo
  <2>. QED  BY <2>1, <2>2
<1>4. VotingPowerIsStake
  BY <1>3 DEF StakingInit, VotingInit, EmptyTable, VotingPowerIsStake, StakedBy, VoterRow
<1>5. TotalsAreDelegations /\ LimitFollowsTotal
  BY <1>3 DEF StakingInit, TotalsAreDelegations, AmountAt, LimitFollowsTotal
<1>. QED  BY <1>1, <1>4, <1>5, StakingTypeInit DEF StakingInv

LEMMA StakingInvAlways == StakingSpec => []StakingInv
BY StakingInvInit, StakingInvStep, PTL DEF StakingSpec

(* An account's voting stake is the sum of its delband rows, in every      *)
(* reachable state and for any number of accounts.                         *)
THEOREM VotingPowerAlwaysStake == StakingSpec => []VotingPowerIsStake
<1>1. StakingInv => VotingPowerIsStake
  BY DEF StakingInv
<1>. QED  BY <1>1, StakingInvAlways, PTL

(* An account's userres total is the sum of the delegations to it.         *)
THEOREM TotalsAlwaysDelegations == StakingSpec => []TotalsAreDelegations
<1>1. StakingInv => TotalsAreDelegations
  BY DEF StakingInv
<1>. QED  BY <1>1, StakingInvAlways, PTL

(* The chain's CPU limit of an account with a row is that total.           *)
THEOREM LimitAlwaysFollows == StakingSpec => []LimitFollowsTotal
<1>1. StakingInv => LimitFollowsTotal
  BY DEF StakingInv
<1>. QED  BY <1>1, StakingInvAlways, PTL

(* The tallies are right also when the stakes change as changebw does it.  *)
THEOREM TalliesFollowStake == StakingSpec => []TallyCorrect
<1>1. StakingInv => TallyCorrect
  BY DEF StakingInv, VotingInv
<1>. QED  BY <1>1, StakingInvAlways, PTL

-----------------------------------------------------------------------------
(* What each action does to stakes, pending refunds and balances.          *)

LEMMA StakingSteps ==
  ASSUME StakingNext
  PROVE  \/ \E s \in Signers, r \in Accounts, q \in Quantities, t \in BOOLEAN : changebw(s, r, q, t)
         \/ \E s \in Signers, r \in Accounts, q \in Quantities : undelegatebw(s, r, q)
         \/ \E a \in Accounts : RefundByOwner(a) \/ RunDeferred(a)
         \/ \E a \in Accounts, l \in CpuLimits : setalimits(a, l)
         \/ \E a \in Signers, b \in Accounts, q \in Quantities : TokenTransfer(a, b, q)
         \/ VotingActions /\ UNCHANGED stakeVars
BY DEF StakingNext, StakingActions, dlgtcpu, undlgtcpu, delegatebw

(* A refund row is a pending amount that is not zero.                      *)
LEMMA RowIfPending ==
  ASSUME RefundsOK
  PROVE  \A a : (a \in DOMAIN refunds <=> Pending(a) > 0) /\ SinceRequest(a) \in Nat
BY DEF RefundsOK, IsTable, Refund, Pending, SinceRequest

LEMMA RefundEffect ==
  ASSUME NEW from, NEW delta, update_refund(from, delta)
  PROVE  \A a :
           /\ Pending(a)' = IF a = from THEN RefundLeft(from, delta) ELSE Pending(a)
           /\ SinceRequest(a)' = IF a # from THEN SinceRequest(a)
                                 ELSE IF RefundLeft(from, delta) = 0 THEN 0
                                 ELSE IF delta < 0 THEN seconds
                                 ELSE refunds[from].request_time
<1>. DEFINE left == RefundLeft(from, delta)
            row == [request_time |-> IF delta < 0 THEN seconds ELSE refunds[from].request_time,
                    cpu_amount |-> left]
<1>1. refunds' = IF left = 0 THEN Erase(refunds, from) ELSE Upsert(refunds, from, row)
  BY DEF update_refund
<1>2. /\ row.cpu_amount = left
      /\ row.request_time = IF delta < 0 THEN seconds ELSE refunds[from].request_time
  OBVIOUS
<1>. HIDE DEF left, row
<1>3. CASE left = 0
  BY <1>1, <1>3 DEF Pending, SinceRequest, Erase, left
<1>4. CASE left # 0
  BY <1>1, <1>2, <1>4 DEF Pending, SinceRequest, Upsert, left
<1>. QED  BY <1>3, <1>4

LEMMA SameRefunds ==
  ASSUME refunds' = refunds
  PROVE  \A a : Pending(a)' = Pending(a) /\ SinceRequest(a)' = SinceRequest(a)
BY DEF Pending, SinceRequest

(* Staking: a grant by the stake account, a restake or a locking.          *)
LEMMA StakeMoves ==
  ASSUME VotingTypeOK, StakeTypeOK, NEW s \in Accounts, NEW r \in Accounts,
         NEW q \in Nat \ {0}, NEW t \in BOOLEAN, changebw(s, r, q, t)
  PROVE  LET from == IF t THEN r ELSE s
         IN  /\ \A a : StakedBy(a)' = IF a = from THEN StakedBy(a) + q ELSE StakedBy(a)
             /\ seconds' = seconds
             /\ \/ /\ s = StakeAccount
                   /\ UNCHANGED <<refunds, balance>>
                \/ /\ s # StakeAccount /\ from \in DOMAIN refunds
                   /\ \A a : Pending(a)' = IF a # from THEN Pending(a)
                                           ELSE IF q < Pending(from) THEN Pending(from) - q ELSE 0
                   /\ \A a : SinceRequest(a)' =
                               IF a = from /\ ~ (q < Pending(from)) THEN 0 ELSE SinceRequest(a)
                   /\ UNCHANGED balance
                \/ /\ s # StakeAccount
                   /\ Paid(s, StakeAccount, q)
                   /\ \A a : Pending(a)' = Pending(a) /\ SinceRequest(a)' = SinceRequest(a)
<1>. DEFINE from == IF t THEN r ELSE s
<1>1. /\ update_voting_power(from, q) /\ slot' = slot /\ from \in Accounts
      /\ s # StakeAccount =>
           /\ IF TouchesRefund(from, r, q, t)
              THEN update_refund(from, q) ELSE UNCHANGED refunds
           /\ IF Charge(from, r, q, t) > 0
              THEN Paid(s, StakeAccount, Charge(from, r, q, t)) ELSE UNCHANGED balance
      /\ s = StakeAccount => UNCHANGED <<refunds, balance>>
  BY DEF changebw
<1>. HIDE DEF from
<1>2. /\ \A a : StakedBy(a)' = IF a = from THEN StakedBy(a) + q ELSE StakedBy(a)
      /\ seconds' = seconds
  BY <1>1, StakeEffect DEF seconds
<1>3. \A a : Pending(a) \in Nat /\ (a \in DOMAIN refunds <=> Pending(a) > 0)
  BY PendingType, RowIfPending DEF StakeTypeOK
<1>4. CASE s # StakeAccount /\ TouchesRefund(from, r, q, t) /\ from \in DOMAIN refunds
  <2>1. update_refund(from, q) /\ UNCHANGED balance
    BY <1>1, <1>4 DEF Charge
  <2>2. RefundLeft(from, q) = IF q < Pending(from) THEN Pending(from) - q ELSE 0
    BY <1>3 DEF RefundLeft
  <2>3. RefundLeft(from, q) = 0 <=> ~ (q < Pending(from))
    BY <1>3, <2>2
  <2>4. SinceRequest(from) = refunds[from].request_time
    BY <1>4 DEF SinceRequest
  <2>. QED  BY <1>2, <1>4, <2>1, <2>2, <2>3, <2>4, RefundEffect DEF from
<1>5. CASE s # StakeAccount /\ ~ (TouchesRefund(from, r, q, t) /\ from \in DOMAIN refunds)
  <2>1. Charge(from, r, q, t) = q
    BY <1>5 DEF Charge
  <2>2. Paid(s, StakeAccount, q)
    BY <1>1, <1>5, <2>1
  <2>3. \A a : Pending(a)' = Pending(a) /\ SinceRequest(a)' = SinceRequest(a)
    <3>1. CASE UNCHANGED refunds
      BY <3>1, SameRefunds
    <3>2. CASE update_refund(from, q) /\ from \notin DOMAIN refunds
      <4>1. Pending(from) = 0 /\ SinceRequest(from) = 0 /\ RefundLeft(from, q) = 0
        BY <3>2 DEF Pending, SinceRequest, RefundLeft
      <4>. QED  BY <3>2, <4>1, RefundEffect
    <3>. QED  BY <1>1, <1>5, <3>1, <3>2
  <2>. QED  BY <1>2, <1>5, <2>2, <2>3 DEF from
<1>. QED  BY <1>1, <1>2, <1>4, <1>5 DEF from

(* Unstaking: the amount becomes pending, and its delay starts now.        *)
LEMMA UnstakeMoves ==
  ASSUME VotingTypeOK, StakeTypeOK, NEW s \in Accounts, NEW r \in Accounts,
         NEW q \in Nat \ {0}, undelegatebw(s, r, q)
  PROVE  /\ \A a : StakedBy(a)' = IF a = s THEN StakedBy(a) - q ELSE StakedBy(a)
         /\ StakedBy(s) >= q
         /\ seconds' = seconds /\ balance' = balance
         /\ s = StakeAccount => UNCHANGED refunds
         /\ s # StakeAccount =>
              /\ \A a : Pending(a)' = IF a = s THEN Pending(a) + q ELSE Pending(a)
              /\ \A a : SinceRequest(a)' = IF a = s THEN seconds ELSE SinceRequest(a)
              /\ s \in DOMAIN deferred' /\ deferred'[s] > slot
              /\ s \in DOMAIN refunds' /\ refunds'[s].request_time = seconds
<1>. DEFINE d == 0 - q
<1>1. d \in Int /\ d < 0
  OBVIOUS
<1>2. changebw(s, r, d, FALSE)
  BY DEF undelegatebw
<1>. HIDE DEF d
<1>3. /\ update_voting_power(s, d) /\ slot' = slot /\ balance' = balance
      /\ s # StakeAccount => update_refund(s, d)
      /\ s = StakeAccount => UNCHANGED refunds
  <2>1. Charge(s, r, d, FALSE) = 0 /\ TouchesRefund(s, r, d, FALSE)
    BY <1>1 DEF Charge, TouchesRefund
  <2>2. /\ update_voting_power(s, d) /\ slot' = slot
        /\ IF s = StakeAccount
           THEN UNCHANGED <<refunds, deferred, balance>>
           ELSE /\ IF TouchesRefund(s, r, d, FALSE)
                   THEN update_refund(s, d)
                   ELSE deferred' = Erase(deferred, s) /\ UNCHANGED refunds
                /\ IF Charge(s, r, d, FALSE) > 0
                   THEN Paid(s, StakeAccount, Charge(s, r, d, FALSE))
                   ELSE UNCHANGED balance
    BY <1>2 DEF changebw
  <2>3. ~ (Charge(s, r, d, FALSE) > 0)
    BY <1>1 DEF Charge
  <2>4. CASE s = StakeAccount
    BY <2>2, <2>4
  <2>5. CASE s # StakeAccount
    BY <2>1, <2>2, <2>3, <2>5
  <2>. QED  BY <2>4, <2>5
<1>4. \A a : StakedBy(a)' = IF a = s THEN StakedBy(a) + d ELSE StakedBy(a)
  BY <1>1, <1>3, StakeEffect
<1>5. StakedBy(s) \in Nat /\ StakedBy(s) + d >= 0
  BY <1>3, StakedType DEF update_voting_power, StakedBy
<1>6. \A a : Pending(a) \in Nat
  BY PendingType DEF StakeTypeOK
<1>7. ASSUME s # StakeAccount
      PROVE  /\ \A a : Pending(a)' = IF a = s THEN Pending(a) + q ELSE Pending(a)
             /\ \A a : SinceRequest(a)' = IF a = s THEN seconds ELSE SinceRequest(a)
             /\ s \in DOMAIN deferred' /\ deferred'[s] > slot
             /\ s \in DOMAIN refunds' /\ refunds'[s].request_time = seconds
  <2>1. RefundLeft(s, d) = Pending(s) + q /\ RefundLeft(s, d) # 0
    BY <1>1, <1>6 DEF RefundLeft, d
  <2>2. update_refund(s, d)
    BY <1>3, <1>7
  <2>. DEFINE row == [request_time |-> IF d < 0 THEN seconds ELSE refunds[s].request_time,
                      cpu_amount |-> RefundLeft(s, d)]
  <2>3. refunds' = Upsert(refunds, s, row) /\ deferred' = Upsert(deferred, s, DueSlot)
        /\ row.request_time = seconds
    BY <1>1, <2>1, <2>2 DEF update_refund
  <2>4. DueSlot > slot
    BY DEF DueSlot, VotingTypeOK
  <2>. HIDE DEF row
  <2>5. s \in DOMAIN deferred' /\ deferred'[s] > slot
        /\ s \in DOMAIN refunds' /\ refunds'[s].request_time = seconds
    BY <2>3, <2>4 DEF Upsert
  <2>6. \A a : Pending(a)' = IF a = s THEN Pending(a) + q ELSE Pending(a)
    BY <2>1, <2>2, RefundEffect
  <2>7. \A a : SinceRequest(a)' = IF a = s THEN seconds ELSE SinceRequest(a)
    BY <1>1, <2>1, <2>2, RefundEffect
  <2>. QED  BY <2>5, <2>6, <2>7
<1>. QED  BY <1>1, <1>3, <1>4, <1>5, <1>7 DEF d, seconds

(* A refund is paid in full, after its delay, out of the stake account.    *)
LEMMA RefundMoves ==
  ASSUME VotingTypeOK, StakeTypeOK, NEW a \in Accounts, refund(a)
  PROVE  /\ Pending(a) > 0 /\ seconds >= SinceRequest(a) + refund_delay_sec
         /\ a # StakeAccount /\ Paid(StakeAccount, a, Pending(a))
         /\ \A b : Pending(b)' = IF b = a THEN 0 ELSE Pending(b)
         /\ \A b : SinceRequest(b)' = IF b = a THEN 0 ELSE SinceRequest(b)
<1>1. /\ a \in DOMAIN refunds /\ Paid(StakeAccount, a, refunds[a].cpu_amount)
      /\ a # StakeAccount /\ 2 * (refunds[a].request_time + refund_delay_sec) <= slot
      /\ refunds' = Erase(refunds, a)
  BY DEF refund
<1>2. Pending(a) = refunds[a].cpu_amount /\ SinceRequest(a) = refunds[a].request_time
  BY <1>1 DEF Pending, SinceRequest
<1>3. Pending(a) > 0 /\ SinceRequest(a) \in Nat /\ slot \in Nat
  BY <1>1, RowIfPending DEF StakeTypeOK, VotingTypeOK
<1>4. seconds >= SinceRequest(a) + refund_delay_sec
  <2>. DEFINE x == SinceRequest(a) + refund_delay_sec
  <2>1. x \in Nat /\ 2 * x <= slot
    BY <1>1, <1>2, <1>3
  <2>. HIDE DEF x
  <2>2. slot \div 2 >= x
    BY <1>3, <2>1
  <2>. QED  BY <2>2 DEF x, seconds
<1>. QED  BY <1>1, <1>2, <1>3, <1>4 DEF Erase, Pending, SinceRequest

-----------------------------------------------------------------------------
(* Deferred refunds.  Cutting the time to whole seconds makes a request    *)
(* look earlier, never later, so a transaction scheduled a delay from now  *)
(* finds the refund available.                                             *)

RequestedBefore == \A a \in DOMAIN refunds : 2 * refunds[a].request_time <= slot

DeferredInv == StakingTypeOK /\ RequestedBefore /\ DeferredIsNotEarly

LEMMA UpdateRefundOnTime ==
  ASSUME DeferredInv, NEW from, NEW delta \in Int, update_refund(from, delta), slot' = slot,
         delta < 0 \/ from \in DOMAIN refunds \/ RefundLeft(from, delta) = 0
  PROVE  RequestedBefore' /\ DeferredIsNotEarly'
<1>. DEFINE left == RefundLeft(from, delta)
            time == IF delta < 0 THEN seconds ELSE refunds[from].request_time
            row == [request_time |-> time, cpu_amount |-> left]
            due == slot + 2 * refund_delay_sec
<1>1. /\ refunds' = IF left = 0 THEN Erase(refunds, from) ELSE Upsert(refunds, from, row)
      /\ deferred' = IF left = 0 THEN Erase(deferred, from) ELSE Upsert(deferred, from, due)
  BY DEF update_refund, DueSlot
<1>2. slot \in Nat /\ \A a \in DOMAIN refunds : refunds[a].request_time \in Nat
  BY DEF DeferredInv, StakingTypeOK, VotingTypeOK, IsTable, Refund
<1>3. 2 * seconds <= slot /\ seconds \in Nat
  BY <1>2 DEF seconds
<1>4. left # 0 => time \in Nat /\ 2 * time <= slot
  BY <1>2, <1>3 DEF DeferredInv, RequestedBefore
<1>5. left # 0 => due >= 2 * (time + refund_delay_sec)
  <2>. HIDE DEF left, time
  <2>. QED  BY <1>2, <1>4
<1>6. row.request_time = time
  OBVIOUS
<1>. HIDE DEF left, time, row, due
<1>7. CASE left = 0
  <2>1. /\ DOMAIN refunds' \subseteq DOMAIN refunds
        /\ DOMAIN deferred' \subseteq DOMAIN deferred
        /\ \A a \in DOMAIN refunds' : refunds'[a] = refunds[a]
        /\ \A a \in DOMAIN deferred' : deferred'[a] = deferred[a]
    BY <1>1, <1>7 DEF Erase
  <2>. QED  BY <2>1 DEF DeferredInv, RequestedBefore, DeferredIsNotEarly
<1>8. CASE left # 0
  <2>1. /\ DOMAIN refunds' = DOMAIN refunds \cup {from} /\ refunds'[from] = row
        /\ DOMAIN deferred' = DOMAIN deferred \cup {from} /\ deferred'[from] = due
        /\ \A a \in DOMAIN refunds \ {from} : refunds'[a] = refunds[a]
        /\ \A a \in DOMAIN deferred \ {from} : deferred'[a] = deferred[a]
    BY <1>1, <1>8 DEF Upsert
  <2>. QED  BY <1>4, <1>5, <1>6, <1>8, <2>1 DEF DeferredInv, RequestedBefore, DeferredIsNotEarly
<1>. QED  BY <1>7, <1>8

(* Rows that go, and time that passes, make nothing early.                 *)
LEMMA FewerRefundsOnTime ==
  ASSUME DeferredInv, slot' \in Nat, slot <= slot',
         DOMAIN refunds' \subseteq DOMAIN refunds, DOMAIN deferred' \subseteq DOMAIN deferred,
         \A a \in DOMAIN refunds' : refunds'[a] = refunds[a],
         \A a \in DOMAIN deferred' : deferred'[a] = deferred[a]
  PROVE  RequestedBefore' /\ DeferredIsNotEarly'
<1>1. slot \in Nat /\ \A a \in DOMAIN refunds : refunds[a].request_time \in Nat
  BY DEF DeferredInv, StakingTypeOK, VotingTypeOK, IsTable, Refund
<1>2. RequestedBefore'
  <2>. SUFFICES ASSUME NEW a \in DOMAIN refunds'
                PROVE  2 * refunds'[a].request_time <= slot'
    BY DEF RequestedBefore
  <2>. DEFINE x == refunds[a].request_time
  <2>1. refunds'[a].request_time = x /\ x \in Nat /\ 2 * x <= slot
    BY <1>1 DEF DeferredInv, RequestedBefore
  <2>. HIDE DEF x
  <2>. QED  BY <1>1, <2>1
<1>3. DeferredIsNotEarly'
  BY DEF DeferredInv, DeferredIsNotEarly
<1>. QED  BY <1>2, <1>3

LEMMA ChangebwOnTime ==
  ASSUME DeferredInv, NEW s \in Accounts, NEW r \in Accounts, NEW d \in Int, d # 0,
         NEW t \in BOOLEAN, changebw(s, r, d, t)
  PROVE  RequestedBefore' /\ DeferredIsNotEarly'
<1>. DEFINE from == IF t THEN r ELSE s
<1>1. /\ slot' = slot
      /\ \/ UNCHANGED <<refunds, deferred>>
         \/ update_refund(from, d)
         \/ deferred' = Erase(deferred, from) /\ UNCHANGED refunds
  BY DEF changebw
<1>. HIDE DEF from
<1>2. slot' \in Nat /\ slot <= slot'
  BY <1>1 DEF DeferredInv, StakingTypeOK, VotingTypeOK
<1>3. CASE UNCHANGED <<refunds, deferred>>
  BY <1>2, <1>3, FewerRefundsOnTime
<1>4. CASE deferred' = Erase(deferred, from) /\ UNCHANGED refunds
  <2>1. DOMAIN deferred' \subseteq DOMAIN deferred
        /\ \A a \in DOMAIN deferred' : deferred'[a] = deferred[a]
    BY <1>4 DEF Erase
  <2>. QED  BY <1>2, <1>4, <2>1, FewerRefundsOnTime
<1>5. CASE update_refund(from, d)
  <2>1. d < 0 \/ from \in DOMAIN refunds \/ RefundLeft(from, d) = 0
    BY DEF RefundLeft, Pending
  <2>. QED  BY <1>1, <1>5, <2>1, UpdateRefundOnTime
<1>. QED  BY <1>1, <1>3, <1>4, <1>5

LEMMA DeferredStep == DeferredInv /\ [StakingNext]_stakingVars => DeferredInv'
<1>. SUFFICES ASSUME DeferredInv, [StakingNext]_stakingVars
              PROVE  DeferredInv'
  OBVIOUS
<1>0. StakingTypeOK'
  BY StakingTypeStep DEF DeferredInv
<1>1. ASSUME NEW s \in Accounts, NEW r \in Accounts, NEW d \in Int, NEW t \in BOOLEAN,
             d # 0, changebw(s, r, d, t)
      PROVE  DeferredInv'
  BY <1>0, <1>1, ChangebwOnTime DEF DeferredInv
<1>2. slot \in Nat
  BY DEF DeferredInv, StakingTypeOK, VotingTypeOK
<1>3. ASSUME UNCHANGED <<refunds, deferred>>, slot' \in Nat, slot <= slot'
      PROVE  DeferredInv'
  BY <1>0, <1>3, FewerRefundsOnTime DEF DeferredInv
<1>4. ASSUME NEW o \in Accounts, RefundByOwner(o) \/ RunDeferred(o)
      PROVE  DeferredInv'
  <2>1. slot' = slot /\ (refunds' = refunds \/ refunds' = Erase(refunds, o))
        /\ (deferred' = deferred \/ deferred' = Erase(deferred, o))
    BY <1>4 DEF RefundByOwner, RunDeferred, refund, votingVars
  <2>2. /\ DOMAIN refunds' \subseteq DOMAIN refunds
        /\ DOMAIN deferred' \subseteq DOMAIN deferred
        /\ \A a \in DOMAIN refunds' : refunds'[a] = refunds[a]
        /\ \A a \in DOMAIN deferred' : deferred'[a] = deferred[a]
    BY <2>1 DEF Erase
  <2>3. slot' \in Nat /\ slot <= slot'
    BY <1>2, <2>1
  <2>. QED  BY <1>0, <2>2, <2>3, FewerRefundsOnTime DEF DeferredInv
<1>5. ASSUME NEW a \in Accounts, NEW l \in CpuLimits, setalimits(a, l)
      PROVE  DeferredInv'
  BY <1>2, <1>3, <1>5 DEF setalimits, votingVars
<1>6. ASSUME NEW a \in Accounts, NEW b \in Accounts, NEW q \in Quantities, TokenTransfer(a, b, q)
      PROVE  DeferredInv'
  BY <1>2, <1>3, <1>6 DEF TokenTransfer, votingVars
<1>7. CASE VotingActions /\ UNCHANGED stakeVars
  <2>1. slot' \in Nat /\ slot <= slot'
    BY <1>2, <1>7, VotingKeepsTime
  <2>. QED  BY <1>3, <1>7, <2>1 DEF stakeVars
<1>8. CASE UNCHANGED stakingVars
  BY <1>2, <1>3, <1>8 DEF stakingVars, stakeVars, votingVars
<1>. QED  BY <1>1, <1>4, <1>5, <1>6, <1>7, <1>8, StakingCases

(* A deferred refund that is due is available.                             *)
THEOREM DeferredNeverEarly == StakingSpec => []DeferredIsNotEarly
<1>1. StakingInit => DeferredInv
  BY StakingTypeInit DEF StakingInit, EmptyTable, DeferredInv, RequestedBefore, DeferredIsNotEarly
<1>2. DeferredInv => DeferredIsNotEarly
  BY DEF DeferredInv
<1>. QED  BY <1>1, <1>2, DeferredStep, PTL DEF StakingSpec

(* No step runs time backwards.                                            *)
LEMMA TimeGoesOn ==
  ASSUME slot \in Nat, [StakingNext]_stakingVars
  PROVE  slot' \in Nat /\ slot <= slot'
<1>1. CASE VotingActions
  BY <1>1, VotingKeepsTime
<1>2. ASSUME slot' = slot
      PROVE  slot' \in Nat /\ slot <= slot'
  BY <1>2
<1>3. CASE \E s, r \in Accounts, d \in Int, t \in BOOLEAN : d # 0 /\ changebw(s, r, d, t)
  BY <1>2, <1>3 DEF changebw
<1>4. CASE \E a \in Accounts : RefundByOwner(a) \/ RunDeferred(a)
  BY <1>2, <1>4 DEF RefundByOwner, RunDeferred, votingVars
<1>5. CASE \E a \in Accounts, l \in CpuLimits : setalimits(a, l)
  BY <1>2, <1>5 DEF setalimits, votingVars
<1>6. CASE \E a, b \in Accounts, q \in Quantities : TokenTransfer(a, b, q)
  BY <1>2, <1>6 DEF TokenTransfer, votingVars
<1>7. CASE UNCHANGED stakingVars
  BY <1>2, <1>7 DEF stakingVars, votingVars
<1>. QED  BY <1>1, <1>3, <1>4, <1>5, <1>6, <1>7, StakingCases

-----------------------------------------------------------------------------
(* Only unstaking takes stake away, and it asks for its refund anew.       *)

LEMMA UnstakeStep ==
  ASSUME StakingTypeOK, [StakingNext]_stakingVars, NEW a \in Accounts,
         StakedBy(a)' < StakedBy(a), a # StakeAccount
  PROVE  /\ a \in DOMAIN refunds' /\ refunds'[a].request_time = seconds
         /\ a \in DOMAIN deferred' /\ deferred'[a] > slot
<1>0. VotingTypeOK /\ StakeTypeOK /\ StakedBy(a) \in Nat
  BY StakingTypeSplit, StakedType
<1>1. ASSUME StakedBy(a)' = StakedBy(a)
      PROVE  FALSE
  BY <1>0, <1>1
<1>2. ASSUME voters' = voters
      PROVE  FALSE
  BY <1>1, <1>2 DEF StakedBy, VoterRow
<1>3. ASSUME NEW s \in Signers, NEW r \in Accounts, NEW q \in Quantities, NEW t \in BOOLEAN,
             changebw(s, r, q, t)
      PROVE  FALSE
  <2>1. s \in Accounts /\ q \in Nat \ {0}
    OBVIOUS
  <2>2. StakedBy(a)' = IF a = (IF t THEN r ELSE s) THEN StakedBy(a) + q ELSE StakedBy(a)
    BY <1>0, <1>3, <2>1, StakeMoves
  <2>. QED  BY <1>0, <2>1, <2>2
<1>4. ASSUME NEW s \in Signers, NEW r \in Accounts, NEW q \in Quantities, undelegatebw(s, r, q)
      PROVE  /\ a \in DOMAIN refunds' /\ refunds'[a].request_time = seconds
             /\ a \in DOMAIN deferred' /\ deferred'[a] > slot
  <2>1. s \in Accounts /\ q \in Nat \ {0}
    OBVIOUS
  <2>. QED  BY <1>0, <1>1, <1>4, <2>1, UnstakeMoves
<1>5. CASE \E b \in Accounts : RefundByOwner(b) \/ RunDeferred(b)
  BY <1>2, <1>5 DEF RefundByOwner, RunDeferred, votingVars
<1>6. CASE \E b \in Accounts, l \in CpuLimits : setalimits(b, l)
  BY <1>2, <1>6 DEF setalimits, votingVars
<1>7. CASE \E b \in Signers, c \in Accounts, q \in Quantities : TokenTransfer(b, c, q)
  BY <1>2, <1>7 DEF TokenTransfer, votingVars
<1>8. CASE VotingActions /\ UNCHANGED stakeVars
  BY <1>0, <1>1, <1>8, VotingKeepsStake
<1>9. CASE UNCHANGED stakingVars
  BY <1>2, <1>9 DEF stakingVars, votingVars
<1>. QED  BY <1>3, <1>4, <1>5, <1>6, <1>7, <1>8, <1>9, StakingSteps

(* Every loss of stake is pending, with its delay ahead of it.             *)
THEOREM UnstakingAlwaysRestarts == StakingSpec => UnstakingRestartsDelay
<1>1. StakingTypeOK /\ [StakingNext]_stakingVars =>
        [\A a \in Accounts :
           StakedBy(a)' < StakedBy(a) /\ a # StakeAccount =>
             /\ a \in DOMAIN refunds' /\ refunds'[a].request_time = seconds
             /\ a \in DOMAIN deferred' /\ deferred'[a] > slot]_stakingVars
  BY UnstakeStep
<1>. QED  BY <1>1, StakingTypeInit, StakingTypeStep, PTL DEF StakingSpec, UnstakingRestartsDelay

-----------------------------------------------------------------------------
(* Staking implements the escrow.                                          *)


LEMMA EscrowStep ==
  ASSUME StakingTypeOK, StakingNext
  PROVE  Promise!EscrowNext \/ UNCHANGED Promise!escrowVars
<1>. DEFINE pending == [a \in Accounts |-> Pending(a)]
            since == [a \in Accounts |-> SinceRequest(a)]
<1>0. VotingTypeOK /\ StakeTypeOK
  BY StakingTypeSplit
<1>1. /\ \A a : StakedBy(a) \in Nat /\ Pending(a) \in Nat /\ SinceRequest(a) \in Nat
      /\ seconds \in Nat /\ balance \in [Accounts -> Nat]
  BY <1>0, StakedType, PendingType, RowIfPending
     DEF StakeTypeOK, VotingTypeOK, seconds
<1>2. ASSUME NEW s \in Signers, NEW r \in Accounts, NEW q \in Quantities, NEW t \in BOOLEAN,
             changebw(s, r, q, t)
      PROVE  Promise!EscrowNext
  <2>. DEFINE from == IF t THEN r ELSE s
  <2>1. s \in Accounts /\ q \in Nat \ {0} /\ from \in Accounts
    OBVIOUS
  <2>2. /\ \A a : StakedBy(a)' = IF a = from THEN StakedBy(a) + q ELSE StakedBy(a)
        /\ seconds' = seconds
    BY <1>0, <1>2, <2>1, StakeMoves
  <2>3. Staked' = [Staked EXCEPT ![from] = @ + q]
    BY <2>1, <2>2 DEF Staked
  <2>4. CASE s = StakeAccount /\ UNCHANGED <<refunds, balance>>
    <3>1. pending' = pending /\ since' = since
      BY <2>4, SameRefunds
    <3>2. Promise!Grant(from, q)
      BY <2>1, <2>2, <2>3, <2>4, <3>1 DEF Promise!Grant
    <3>. QED  BY <2>1, <3>2 DEF Promise!EscrowNext
  <2>5. CASE /\ s # StakeAccount /\ from \in DOMAIN refunds
             /\ \A a : Pending(a)' = IF a # from THEN Pending(a)
                                     ELSE IF q < Pending(from) THEN Pending(from) - q ELSE 0
             /\ \A a : SinceRequest(a)' =
                         IF a = from /\ ~ (q < Pending(from)) THEN 0 ELSE SinceRequest(a)
             /\ UNCHANGED balance
    <3>. DEFINE left == IF q < Pending(from) THEN Pending(from) - q ELSE 0
    <3>1. pending[from] = Pending(from) /\ Pending(from) > 0
      BY <1>0, <2>1, <2>5, RowIfPending DEF StakeTypeOK
    <3>2. pending' = [pending EXCEPT ![from] = left]
      BY <2>1, <2>5
    <3>3. since' = [since EXCEPT ![from] = IF left = 0 THEN 0 ELSE @]
      <4>1. left = 0 <=> ~ (q < Pending(from))
        BY <1>1, <2>1
      <4>. QED  BY <2>1, <2>5, <4>1
    <3>4. Promise!Relock(from, q)
      BY <2>2, <2>3, <2>5, <3>1, <3>2, <3>3 DEF Promise!Relock
    <3>. QED  BY <2>1, <3>4 DEF Promise!EscrowNext
  <2>6. CASE /\ s # StakeAccount
             /\ Paid(s, StakeAccount, q)
             /\ \A a : Pending(a)' = Pending(a) /\ SinceRequest(a)' = SinceRequest(a)
    <3>1. pending' = pending /\ since' = since
      BY <2>6
    <3>2. Promise!Lock(s, from, q)
      BY <2>2, <2>3, <2>6, <3>1 DEF Promise!Lock, Promise!Moved, Paid
    <3>. QED  BY <2>1, <3>2 DEF Promise!EscrowNext
  <2>. QED  BY <1>0, <1>2, <2>1, <2>4, <2>5, <2>6, StakeMoves
<1>3. ASSUME NEW s \in Signers, NEW r \in Accounts, NEW q \in Quantities, undelegatebw(s, r, q)
      PROVE  Promise!EscrowNext
  <2>1. s \in Accounts /\ q \in Nat \ {0}
    OBVIOUS
  <2>2. /\ \A a : StakedBy(a)' = IF a = s THEN StakedBy(a) - q ELSE StakedBy(a)
        /\ StakedBy(s) >= q
        /\ seconds' = seconds /\ balance' = balance
        /\ s = StakeAccount => UNCHANGED refunds
        /\ s # StakeAccount =>
             /\ \A a : Pending(a)' = IF a = s THEN Pending(a) + q ELSE Pending(a)
             /\ \A a : SinceRequest(a)' = IF a = s THEN seconds ELSE SinceRequest(a)
    BY <1>0, <1>3, <2>1, UnstakeMoves
  <2>3. Staked' = [Staked EXCEPT ![s] = @ - q] /\ Staked[s] >= q
    BY <2>1, <2>2 DEF Staked
  <2>4. CASE s = StakeAccount
    <3>1. pending' = pending /\ since' = since
      BY <2>2, <2>4, SameRefunds
    <3>2. Promise!Withdraw(q)
      BY <2>2, <2>3, <2>4, <3>1 DEF Promise!Withdraw
    <3>. QED  BY <2>1, <3>2 DEF Promise!EscrowNext
  <2>5. CASE s # StakeAccount
    <3>1. pending' = [pending EXCEPT ![s] = @ + q] /\ since' = [since EXCEPT ![s] = seconds]
      BY <2>1, <2>2, <2>5
    <3>2. Promise!Release(s, q)
      BY <2>2, <2>3, <2>5, <3>1 DEF Promise!Release
    <3>. QED  BY <2>1, <3>2 DEF Promise!EscrowNext
  <2>. QED  BY <2>4, <2>5
<1>4. ASSUME UNCHANGED <<voters, slot, refunds, balance>>
      PROVE  UNCHANGED Promise!escrowVars
  <2>1. Staked' = Staked /\ pending' = pending /\ since' = since /\ seconds' = seconds
    BY <1>4, SameRefunds DEF Staked, StakedBy, VoterRow, seconds
  <2>. QED  BY <1>4, <2>1 DEF Promise!escrowVars
<1>5. ASSUME NEW o \in Accounts, refund(o), UNCHANGED votingVars
      PROVE  Promise!EscrowNext
  <2>1. /\ Pending(o) > 0 /\ seconds >= SinceRequest(o) + refund_delay_sec
        /\ o # StakeAccount /\ Paid(StakeAccount, o, Pending(o))
        /\ \A b : Pending(b)' = IF b = o THEN 0 ELSE Pending(b)
        /\ \A b : SinceRequest(b)' = IF b = o THEN 0 ELSE SinceRequest(b)
    BY <1>0, <1>5, RefundMoves
  <2>2. pending' = [pending EXCEPT ![o] = 0] /\ since' = [since EXCEPT ![o] = 0]
        /\ pending[o] = Pending(o) /\ since[o] = SinceRequest(o)
    BY <2>1
  <2>3. Staked' = Staked /\ seconds' = seconds
    BY <1>5 DEF votingVars, Staked, StakedBy, VoterRow, seconds
  <2>4. Promise!Pay(o)
    BY <2>1, <2>2, <2>3 DEF Promise!Pay, Promise!Moved, Paid
  <2>. QED  BY <2>4 DEF Promise!EscrowNext
<1>6. ASSUME NEW o \in Accounts, RefundByOwner(o) \/ RunDeferred(o)
      PROVE  Promise!EscrowNext \/ UNCHANGED Promise!escrowVars
  BY <1>4, <1>5, <1>6 DEF RefundByOwner, RunDeferred, votingVars
<1>7. ASSUME NEW a \in Accounts, NEW l \in CpuLimits, setalimits(a, l)
      PROVE  UNCHANGED Promise!escrowVars
  BY <1>4, <1>7 DEF setalimits, votingVars
<1>8. ASSUME NEW a \in Signers, NEW b \in Accounts, NEW q \in Quantities, TokenTransfer(a, b, q)
      PROVE  Promise!EscrowNext
  <2>1. a \in Accounts
    OBVIOUS
  <2>2. Staked' = Staked /\ pending' = pending /\ since' = since /\ seconds' = seconds
    BY <1>8, SameRefunds DEF TokenTransfer, votingVars, Staked, StakedBy, VoterRow, seconds
  <2>3. Promise!Move(a, b, q)
    BY <1>8, <2>2 DEF Promise!Move, Promise!Moved, TokenTransfer, Paid
  <2>. QED  BY <2>1, <2>3 DEF Promise!EscrowNext
<1>9. CASE VotingActions /\ UNCHANGED stakeVars
  <2>1. slot \in Nat /\ slot' \in Nat /\ slot <= slot'
    BY <1>0, <1>9, VotingKeepsTime DEF VotingTypeOK
  <2>2. Staked' = Staked
    BY <1>0, <1>9, VotingKeepsStake DEF Staked
  <2>3. pending' = pending /\ since' = since /\ balance' = balance
    BY <1>9, SameRefunds DEF stakeVars
  <2>4. seconds' \in Nat /\ (seconds' = seconds \/ seconds' > seconds)
    <3>1. \A x, y \in Nat : x <= y => x \div 2 \in Nat /\ y \div 2 \in Nat
                                      /\ x \div 2 <= y \div 2
      OBVIOUS
    <3>2. /\ seconds \in Nat /\ seconds' \in Nat /\ seconds <= seconds'
      BY <2>1, <3>1 DEF seconds
    <3>. QED  BY <3>2
  <2>5. CASE seconds' = seconds
    BY <2>2, <2>3, <2>5 DEF Promise!escrowVars
  <2>6. CASE seconds' > seconds
    <3>1. Promise!Tick
      BY <2>2, <2>3, <2>4, <2>6 DEF Promise!Tick
    <3>. QED  BY <3>1 DEF Promise!EscrowNext
  <2>. QED  BY <2>4, <2>5, <2>6
<1>. QED  BY <1>2, <1>3, <1>6, <1>7, <1>8, <1>9, StakingSteps

LEMMA EscrowStart == StakingInit => Promise!EscrowInit
<1>. SUFFICES ASSUME StakingInit PROVE Promise!EscrowInit
  OBVIOUS
<1>1. Staked = [a \in Accounts |-> 0]
  BY DEF StakingInit, VotingInit, EmptyTable, Staked, StakedBy, VoterRow
<1>2. \A a : Pending(a) = 0 /\ SinceRequest(a) = 0
  BY DEF StakingInit, EmptyTable, Pending, SinceRequest
<1>3. seconds = FirstSlot \div 2 /\ balance = Endowment
  BY DEF StakingInit, VotingInit, seconds
<1>. QED  BY <1>1, <1>2, <1>3 DEF Promise!EscrowInit

(* Whatever changebw does to its five tables, a holder sees tokens locked, *)
(* locked again, released and, after the delay, paid once.                 *)
THEOREM StakingImplementsEscrow == StakingSpec => EscrowImplemented
<1>1. StakingTypeOK /\ [StakingNext]_stakingVars =>
        [Promise!EscrowNext]_(Promise!escrowVars)
  <2>. SUFFICES ASSUME StakingTypeOK, [StakingNext]_stakingVars
                PROVE  Promise!EscrowNext \/ UNCHANGED Promise!escrowVars
    OBVIOUS
  <2>1. CASE UNCHANGED stakingVars
    <3>1. UNCHANGED <<voters, slot, refunds, balance>>
      BY <2>1 DEF stakingVars, stakeVars, votingVars
    <3>2. Staked' = Staked /\ seconds' = seconds
          /\ \A a : Pending(a)' = Pending(a) /\ SinceRequest(a)' = SinceRequest(a)
      BY <3>1, SameRefunds DEF Staked, StakedBy, VoterRow, seconds
    <3>. QED  BY <3>1, <3>2 DEF Promise!escrowVars
  <2>. QED  BY <2>1, EscrowStep
<1>. QED  BY <1>1, EscrowStart, StakingTypeInit, StakingTypeStep, PTL
          DEF StakingSpec, EscrowImplemented, Promise!EscrowSpec

-----------------------------------------------------------------------------
(* Tokens owed and tokens held.                                            *)

LEMMA OwedChange ==
  ASSUME VotingTypeOK, StakeTypeOK, NEW x \in Accounts, NEW sv \in Int, NEW pv \in Int,
         \A a : StakedBy(a)' = IF a = x THEN StakedBy(a) + sv ELSE StakedBy(a),
         \A a : Pending(a)' = IF a = x THEN Pending(a) + pv ELSE Pending(a)
  PROVE  Owed \in Int /\ Owed' = Owed + sv + pv
<1>. DEFINE p == [a \in Accounts |-> Pending(a)]
            s2 == [a \in Accounts |-> StakedBy(a)']
            p2 == [a \in Accounts |-> Pending(a)']
<1>1. \A a : StakedBy(a) \in Nat /\ Pending(a) \in Nat
  BY StakedType, PendingType DEF StakeTypeOK
<1>2. /\ \A a \in Accounts : Staked[a] \in Int /\ s2[a] \in Int /\ p[a] \in Int /\ p2[a] \in Int
      /\ \A a \in Accounts \ {x} : Staked[a] = s2[a] /\ p[a] = p2[a]
      /\ s2[x] - Staked[x] = sv /\ p2[x] - p[x] = pv
  BY <1>1 DEF Staked
<1>3. /\ Owed = SumFunctionOnSet(Staked, Accounts) + SumFunctionOnSet(p, Accounts)
      /\ Owed' = SumFunctionOnSet(s2, Accounts) + SumFunctionOnSet(p2, Accounts)
  BY DEF Owed, Staked
<1>. HIDE DEF p, s2, p2
<1>4. SumFunctionOnSet(s2, Accounts) = SumFunctionOnSet(Staked, Accounts) + s2[x] - Staked[x]
  <2>1. /\ IsFiniteSet(Accounts) /\ x \in Accounts
        /\ \A a \in Accounts : Staked[a] \in Int /\ s2[a] \in Int
        /\ \A a \in Accounts \ {x} : Staked[a] = s2[a]
    BY <1>2
  <2>. QED  BY ONLY <2>1, SumUpdate
<1>5. SumFunctionOnSet(p2, Accounts) = SumFunctionOnSet(p, Accounts) + p2[x] - p[x]
  <2>1. /\ IsFiniteSet(Accounts) /\ x \in Accounts
        /\ \A a \in Accounts : p[a] \in Int /\ p2[a] \in Int
        /\ \A a \in Accounts \ {x} : p[a] = p2[a]
    BY <1>2
  <2>. QED  BY ONLY <2>1, SumUpdate
<1>6. SumFunctionOnSet(Staked, Accounts) \in Int /\ SumFunctionOnSet(p, Accounts) \in Int
  BY <1>2, SumType
<1>. QED  BY <1>2, <1>3, <1>4, <1>5, <1>6

LEMMA OwedSame ==
  ASSUME \A a : StakedBy(a)' = StakedBy(a), \A a : Pending(a)' = Pending(a)
  PROVE  Owed' = Owed
BY DEF Owed, Staked

LEMMA OwedType == StakingTypeOK => Owed \in Int
<1>. SUFFICES ASSUME StakingTypeOK PROVE Owed \in Int
  OBVIOUS
<1>. DEFINE p == [a \in Accounts |-> Pending(a)]
<1>1. \A a \in Accounts : Staked[a] \in Int /\ p[a] \in Int
  BY StakingTypeSplit, StakedType, PendingType DEF StakeTypeOK, Staked
<1>2. Owed = SumFunctionOnSet(Staked, Accounts) + SumFunctionOnSet(p, Accounts)
  BY DEF Owed
<1>. HIDE DEF p
<1>. QED  BY <1>1, <1>2, SumType

LEMMA OwedTypeNext == (StakingTypeOK => Owed \in Int)'
BY OwedType, PTL

LEMMA UncoveredStep ==
  ASSUME StakeAccount \notin Signers, StakingTypeOK, StakingTypeOK', [StakingNext]_stakingVars,
         Uncovered' > Uncovered
  PROVE  \E a \in Accounts :
           /\ RestakesBeyondRefund(a)
           /\ Uncovered' - Uncovered
                = StakedBy(a)' - StakedBy(a) - refunds[a].cpu_amount
<1>0. VotingTypeOK /\ StakeTypeOK
  BY StakingTypeSplit
<1>1. /\ \A a : StakedBy(a) \in Nat /\ Pending(a) \in Nat
      /\ balance \in [Accounts -> Nat] /\ balance' \in [Accounts -> Nat]
      /\ Uncovered = Owed - balance[StakeAccount]
      /\ Uncovered' = Owed' - balance'[StakeAccount]
  BY <1>0, StakedType, PendingType DEF StakeTypeOK, StakingTypeOK, Uncovered
<1>2. Owed \in Int /\ Owed' \in Int
  BY OwedType, OwedTypeNext
<1>3. ASSUME Owed' <= Owed, balance'[StakeAccount] >= balance[StakeAccount]
      PROVE  FALSE
  BY <1>1, <1>2, <1>3
<1>4. ASSUME UNCHANGED <<voters, refunds, balance>>
      PROVE  FALSE
  <2>1. Owed' = Owed
    BY <1>4, OwedSame, SameRefunds DEF StakedBy, VoterRow
  <2>. QED  BY <1>1, <1>2, <1>3, <1>4, <2>1
<1>5. ASSUME NEW s \in Signers, NEW r \in Accounts, NEW q \in Quantities, NEW t \in BOOLEAN,
             changebw(s, r, q, t)
      PROVE  \E a \in Accounts :
               /\ RestakesBeyondRefund(a)
               /\ Uncovered' - Uncovered = StakedBy(a)' - StakedBy(a) - refunds[a].cpu_amount
  <2>. DEFINE from == IF t THEN r ELSE s
  <2>1. s \in Accounts /\ q \in Nat \ {0} /\ from \in Accounts /\ s # StakeAccount
    OBVIOUS
  <2>2. \A a : StakedBy(a)' = IF a = from THEN StakedBy(a) + q ELSE StakedBy(a)
    BY <1>0, <1>5, <2>1, StakeMoves
  <2>3. CASE /\ from \in DOMAIN refunds
             /\ \A a : Pending(a)' = IF a # from THEN Pending(a)
                                     ELSE IF q < Pending(from) THEN Pending(from) - q ELSE 0
             /\ UNCHANGED balance
    <3>. DEFINE pv == IF q < Pending(from) THEN 0 - q ELSE 0 - Pending(from)
    <3>1. Pending(from) \in Nat /\ Pending(from) = refunds[from].cpu_amount
      BY <1>1, <2>3 DEF Pending
    <3>2. pv \in Int
      BY <2>1, <3>1
    <3>3. \A a : Pending(a)' = IF a = from THEN Pending(a) + pv ELSE Pending(a)
      BY <2>1, <2>3, <3>1
    <3>. HIDE DEF pv, from
    <3>4. Owed' = Owed + q + pv
      BY <1>0, <2>1, <2>2, <3>2, <3>3, OwedChange
    <3>5. ~ (q <= Pending(from))
      <4>1. ASSUME q <= Pending(from)
            PROVE  FALSE
        <5>1. q + pv = 0
          BY <2>1, <3>1, <4>1 DEF pv
        <5>2. Owed' = Owed
          BY <1>2, <2>1, <3>2, <3>4, <5>1
        <5>. QED  BY <1>1, <1>2, <1>3, <2>3, <5>2
      <4>. QED  BY <4>1
    <3>6. pv = 0 - refunds[from].cpu_amount /\ Pending(from)' = 0
      BY <2>1, <2>3, <3>1, <3>5 DEF pv
    <3>7. StakedBy(from)' - StakedBy(from) = q
      BY <1>1, <2>1, <2>2
    <3>8. from \notin DOMAIN refunds'
      <4>1. RefundsOK'
        BY DEF StakingTypeOK, RefundsOK
      <4>2. from \in DOMAIN refunds' => Pending(from)' > 0
        BY <4>1 DEF RefundsOK, Pending
      <4>. QED  BY <3>6, <4>2
    <3>9. RestakesBeyondRefund(from)
      BY <2>1, <2>3, <3>1, <3>5, <3>7, <3>8 DEF RestakesBeyondRefund
    <3>10. Uncovered' - Uncovered = q - refunds[from].cpu_amount
      <4>1. balance[StakeAccount] \in Nat /\ balance'[StakeAccount] = balance[StakeAccount]
        BY <1>1, <2>3
      <4>. QED  BY <1>1, <1>2, <2>1, <3>1, <3>4, <3>6, <4>1
    <3>. QED  BY <2>1, <3>7, <3>9, <3>10
  <2>4. CASE Paid(s, StakeAccount, q) /\ \A a : Pending(a)' = Pending(a)
    <3>1. \A a : Pending(a)' = IF a = from THEN Pending(a) + 0 ELSE Pending(a)
      BY <1>1, <2>4
    <3>2. Owed' = Owed + q + 0
      <4>1. q \in Int /\ 0 \in Int
        BY <2>1
      <4>. HIDE DEF from
      <4>. QED  BY <1>0, <2>1, <2>2, <3>1, <4>1, OwedChange
    <3>3. balance'[StakeAccount] = balance[StakeAccount] + q
      BY <1>1, <2>1, <2>4 DEF Paid
    <3>4. balance[StakeAccount] \in Nat
      BY <1>1
    <3>. QED  BY <1>1, <1>2, <2>1, <3>2, <3>3, <3>4
  <2>. QED  BY <1>0, <1>5, <2>1, <2>3, <2>4, StakeMoves
<1>6. ASSUME NEW s \in Signers, NEW r \in Accounts, NEW q \in Quantities, undelegatebw(s, r, q)
      PROVE  FALSE
  <2>1. s \in Accounts /\ q \in Nat \ {0} /\ s # StakeAccount /\ 0 - q \in Int
    OBVIOUS
  <2>2. /\ \A a : StakedBy(a)' = IF a = s THEN StakedBy(a) - q ELSE StakedBy(a)
        /\ \A a : Pending(a)' = IF a = s THEN Pending(a) + q ELSE Pending(a)
        /\ balance' = balance
    BY <1>0, <1>6, <2>1, UnstakeMoves
  <2>3. \A a : StakedBy(a)' = IF a = s THEN StakedBy(a) + (0 - q) ELSE StakedBy(a)
    BY <1>1, <2>1, <2>2
  <2>4. Owed' = Owed + (0 - q) + q
    <3>. DEFINE m == 0 - q
    <3>1. m \in Int /\ \A a : StakedBy(a)' = IF a = s THEN StakedBy(a) + m ELSE StakedBy(a)
      BY <2>1, <2>3
    <3>2. q \in Int
      BY <2>1
    <3>. HIDE DEF m
    <3>3. Owed' = Owed + m + q
      BY <1>0, <2>1, <2>2, <3>1, <3>2, OwedChange
    <3>. QED  BY <3>3 DEF m
  <2>. QED  BY <1>1, <1>2, <1>3, <2>1, <2>2, <2>4
<1>7. ASSUME NEW o \in Accounts, refund(o), UNCHANGED votingVars
      PROVE  FALSE
  <2>1. /\ Paid(StakeAccount, o, Pending(o)) /\ o # StakeAccount
        /\ \A b : Pending(b)' = IF b = o THEN 0 ELSE Pending(b)
    BY <1>0, <1>7, RefundMoves
  <2>. DEFINE m == 0 - Pending(o)
  <2>2. /\ m \in Int
        /\ \A a : Pending(a)' = IF a = o THEN Pending(a) + m ELSE Pending(a)
        /\ \A a : StakedBy(a)' = IF a = o THEN StakedBy(a) + 0 ELSE StakedBy(a)
    <3>1. \A a : StakedBy(a)' = StakedBy(a)
      BY <1>7 DEF votingVars, StakedBy, VoterRow
    <3>. QED  BY <1>1, <2>1, <3>1
  <2>3. balance'[StakeAccount] = balance[StakeAccount] - Pending(o)
    BY <1>1, <2>1 DEF Paid
  <2>4. balance[StakeAccount] \in Nat /\ Pending(o) \in Nat
    BY <1>1
  <2>5. Owed' = Owed + 0 + m
    <3>. HIDE DEF m
    <3>. QED  BY <1>0, <2>2, OwedChange
  <2>. QED  BY <1>1, <1>2, <2>3, <2>4, <2>5
<1>8. ASSUME NEW o \in Accounts, RefundByOwner(o) \/ RunDeferred(o)
      PROVE  FALSE
  BY <1>4, <1>7, <1>8 DEF RefundByOwner, RunDeferred, votingVars
<1>9. ASSUME NEW a \in Accounts, NEW l \in CpuLimits, setalimits(a, l)
      PROVE  FALSE
  BY <1>4, <1>9 DEF setalimits, votingVars
<1>10. ASSUME NEW a \in Signers, NEW b \in Accounts, NEW q \in Quantities, TokenTransfer(a, b, q)
       PROVE  FALSE
  <2>1. Owed' = Owed
    BY <1>10, OwedSame, SameRefunds DEF TokenTransfer, votingVars, StakedBy, VoterRow
  <2>2. balance'[StakeAccount] >= balance[StakeAccount]
    <3>1. a # StakeAccount /\ q \in Nat /\ a \in Accounts
      OBVIOUS
    <3>. QED  BY <1>1, <1>10, <3>1 DEF TokenTransfer, Paid
  <2>. QED  BY <1>2, <1>3, <2>1, <2>2
<1>11. CASE VotingActions /\ UNCHANGED stakeVars
  <2>1. Owed' = Owed
    BY <1>0, <1>11, OwedSame, SameRefunds, VotingKeepsStake DEF stakeVars
  <2>. QED  BY <1>1, <1>2, <1>3, <1>11, <2>1 DEF stakeVars
<1>12. CASE UNCHANGED stakingVars
  BY <1>4, <1>12 DEF stakingVars, stakeVars, votingVars
<1>. QED  BY <1>5, <1>6, <1>8, <1>9, <1>10, <1>11, <1>12, StakingSteps

(* As long as the stake account submits nothing, only a restake beyond the *)
(* pending refund leaves it with less than it owes, by the difference.     *)
THEOREM OnlyRestakingEverUncovers ==
  ASSUME StakeAccount \notin Signers
  PROVE  StakingSpec => OnlyRestakingUncovers
<1>1. StakingTypeOK /\ StakingTypeOK' /\ [StakingNext]_stakingVars =>
        [Uncovered' > Uncovered =>
           \E a \in Accounts :
             /\ RestakesBeyondRefund(a)
             /\ Uncovered' - Uncovered
                  = StakedBy(a)' - StakedBy(a) - refunds[a].cpu_amount]_stakingVars
  BY UncoveredStep
<1>. QED  BY <1>1, StakingTypeInit, StakingTypeStep, PTL DEF StakingSpec, OnlyRestakingUncovers

-----------------------------------------------------------------------------
(* Staking implements voting.  Voting lets the stake of any account change *)
(* by any amount the bound allows; changebw, whatever else it does, changes*)
(* one stake by an amount that the bound allows.                           *)

(* What is owed is at least what is staked.                                *)
LEMMA OwedParts ==
  StakingTypeOK =>
    /\ SumFunctionOnSet(Staked, Accounts) \in Nat /\ Owed \in Nat
    /\ SumFunctionOnSet(Staked, Accounts) <= Owed
    /\ \A a \in Accounts : StakedBy(a) <= SumFunctionOnSet(Staked, Accounts)
    /\ \A a \in Accounts : Pending(a) <= Owed
<1>. SUFFICES ASSUME StakingTypeOK
              PROVE  /\ SumFunctionOnSet(Staked, Accounts) \in Nat /\ Owed \in Nat
                     /\ SumFunctionOnSet(Staked, Accounts) <= Owed
                     /\ \A a \in Accounts : StakedBy(a) <= SumFunctionOnSet(Staked, Accounts)
                     /\ \A a \in Accounts : Pending(a) <= Owed
  OBVIOUS
<1>. DEFINE p == [a \in Accounts |-> Pending(a)]
<1>1. /\ \A a \in Accounts : Staked[a] \in Nat /\ p[a] \in Nat
      /\ \A a \in Accounts : Staked[a] = StakedBy(a) /\ p[a] = Pending(a)
  BY StakingTypeSplit, StakedType, PendingType DEF StakeTypeOK, Staked
<1>2. Owed = SumFunctionOnSet(Staked, Accounts) + SumFunctionOnSet(p, Accounts)
  BY DEF Owed
<1>. HIDE DEF p
<1>3. SumFunctionOnSet(Staked, Accounts) \in Nat /\ SumFunctionOnSet(p, Accounts) \in Nat
  BY <1>1, SumType
<1>4. \A a \in Accounts : /\ Staked[a] <= SumFunctionOnSet(Staked, Accounts)
                          /\ p[a] <= SumFunctionOnSet(p, Accounts)
  BY <1>1, SumBoundsTerm
<1>5. ASSUME NEW a \in Accounts
      PROVE  StakedBy(a) <= SumFunctionOnSet(Staked, Accounts) /\ Pending(a) <= Owed
  <2>1. Pending(a) \in Nat /\ Pending(a) <= SumFunctionOnSet(p, Accounts)
        /\ StakedBy(a) <= SumFunctionOnSet(Staked, Accounts)
    BY <1>1, <1>4
  <2>. QED  BY <1>2, <1>3, <2>1
<1>. QED  BY <1>2, <1>3, <1>5

(* A change of stake by changebw is one Voting allows.                     *)
LEMMA ChangebwIsChange ==
  ASSUME StakingTypeOK, StakeBounded, NEW s \in Accounts, NEW r \in Accounts,
         NEW d \in Int, d # 0, NEW t \in BOOLEAN, changebw(s, r, d, t),
         SumFunctionOnSet(Staked, Accounts) + d <= MaxStake,
         d \in (0 - MaxStake)..MaxStake
  PROVE  VotingNext
<1>. DEFINE from == IF t THEN r ELSE s
<1>1. /\ from \in Accounts /\ update_voting_power(from, d)
      /\ UNCHANGED <<acntype, vwstate, gstate, slot, proposed>>
  BY DEF changebw
<1>. HIDE DEF from
<1>2. ChangeStake(from, d)
  BY <1>1 DEF ChangeStake
<1>. QED  BY <1>1, <1>2 DEF VotingNext

LEMMA StakingIsVoting ==
  ASSUME StakingTypeOK, StakeBounded, [StakingNext]_stakingVars
  PROVE  [VotingNext]_votingVars
<1>0. /\ SumFunctionOnSet(Staked, Accounts) \in Nat /\ Owed \in Nat
      /\ SumFunctionOnSet(Staked, Accounts) <= Owed
      /\ \A a \in Accounts : StakedBy(a) <= SumFunctionOnSet(Staked, Accounts)
      /\ SumFunctionOnSet(Staked, Accounts) <= MaxStake
      /\ \A a : StakedBy(a) \in Nat
      /\ VotingTypeOK /\ StakeTypeOK
  BY OwedParts, StakedType, StakingTypeSplit DEF StakeBounded
<1>1. ASSUME NEW s \in Signers, NEW r \in Accounts, NEW q \in Quantities, NEW t \in BOOLEAN,
             delegatebw(s, r, q, t)
      PROVE  VotingNext
  <2>1. /\ s \in Accounts /\ q \in Int /\ q # 0 /\ q \in Nat
        /\ Owed + q <= MaxStake /\ changebw(s, r, q, t)
    BY <1>1 DEF delegatebw
  <2>2. SumFunctionOnSet(Staked, Accounts) + q <= MaxStake /\ q \in (0 - MaxStake)..MaxStake
    BY <1>0, <2>1
  <2>. QED  BY <2>1, <2>2, ChangebwIsChange
<1>2. ASSUME NEW s \in Signers, NEW r \in Accounts, NEW q \in Quantities, undelegatebw(s, r, q)
      PROVE  VotingNext
  <2>. DEFINE d == 0 - q
  <2>1. s \in Accounts /\ q \in Nat \ {0}
    OBVIOUS
  <2>2. StakedBy(s) >= q
    BY <1>0, <1>2, <2>1, UnstakeMoves
  <2>3. /\ d \in Int /\ d # 0 /\ d \in (0 - MaxStake)..MaxStake
        /\ SumFunctionOnSet(Staked, Accounts) + d <= MaxStake
    BY <1>0, <2>1, <2>2
  <2>4. changebw(s, r, d, FALSE)
    BY <1>2 DEF undelegatebw
  <2>. HIDE DEF d
  <2>. QED  BY <2>1, <2>3, <2>4, ChangebwIsChange
<1>3. CASE UNCHANGED votingVars
  BY <1>3
<1>4. CASE \E a \in Accounts : RefundByOwner(a) \/ RunDeferred(a)
  BY <1>3, <1>4 DEF RefundByOwner, RunDeferred
<1>5. CASE \E a \in Accounts, l \in CpuLimits : setalimits(a, l)
  BY <1>3, <1>5 DEF setalimits
<1>6. CASE \E a \in Signers, b \in Accounts, q \in Quantities : TokenTransfer(a, b, q)
  BY <1>3, <1>6 DEF TokenTransfer
<1>7. CASE VotingActions
  BY <1>7 DEF VotingNext
<1>8. CASE UNCHANGED stakingVars
  BY <1>3, <1>8 DEF stakingVars
<1>. QED  BY <1>1, <1>2, <1>4, <1>5, <1>6, <1>7, <1>8
          DEF StakingNext, StakingActions, dlgtcpu, undlgtcpu

LEMMA BoundKept ==
  ASSUME VotingTypeOK, StakeBounded, [VotingNext]_votingVars
  PROVE  StakeBounded'
<1>1. ASSUME \A a : StakedBy(a)' = StakedBy(a)
      PROVE  StakeBounded'
  BY <1>1 DEF StakeBounded, Staked
<1>2. CASE VotingActions
  BY <1>1, <1>2, VotingKeepsStake
<1>3. CASE UNCHANGED votingVars
  BY <1>1, <1>3 DEF votingVars, StakedBy, VoterRow
<1>4. ASSUME NEW v \in Accounts, NEW d \in (0 - MaxStake)..MaxStake, ChangeStake(v, d)
      PROVE  StakeBounded'
  BY <1>4, ChangeStakeBounded
<1>. QED  BY <1>2, <1>3, <1>4 DEF VotingNext

(* What an observer of the ballots, the producers and the schedule sees of *)
(* a chain on which accounts stake, unstake and are refunded is a behaviour*)
(* of Voting: whatever is proved of Voting holds under real staking.       *)
THEOREM StakingImplementsVoting == StakingSpec => VotingSpec
<1>. DEFINE Bounded == StakingTypeOK /\ StakeBounded
<1>1. StakingInit => Bounded /\ VotingInit
  <2>. QED  BY BoundedAtFirst, StakingTypeInit DEF StakingInit
<1>2. Bounded /\ [StakingNext]_stakingVars => Bounded' /\ [VotingNext]_votingVars
  BY StakingTypeStep, StakingTypeSplit, StakingIsVoting, BoundKept
<1>. HIDE DEF Bounded
<1>. QED  BY <1>1, <1>2, PTL DEF StakingSpec, VotingSpec

(* So elections are fair whatever the stakers do.                          *)
THEOREM FairUnderStaking ==
  StakingSpec => ElectionIsFair /\ ScheduleNeverShrinks /\ []WeightIsOfVotes
BY StakingImplementsVoting, ElectionAlwaysFair, ScheduleKeepsSize, WeightsAreOfVotes, PTL

-----------------------------------------------------------------------------
(* Tokens.  Every step that changes a balance pays somebody what it takes. *)

LEMMA BalanceSteps ==
  ASSUME StakingTypeOK, [StakingNext]_stakingVars
  PROVE  \/ balance' = balance
         \/ \E x, y \in Accounts, n \in Nat : x # y /\ Paid(x, y, n)
<1>0. VotingTypeOK /\ StakeTypeOK
  BY StakingTypeSplit
<1>1. ASSUME NEW s \in Accounts, NEW r \in Accounts, NEW d \in Int, NEW t \in BOOLEAN,
             changebw(s, r, d, t)
      PROVE  balance' = balance \/ \E x, y \in Accounts, n \in Nat : x # y /\ Paid(x, y, n)
  <2>. DEFINE from == IF t THEN r ELSE s
              charge == Charge(from, r, d, t)
  <2>1. charge \in Nat
    BY ChargeType
  <2>2. IF s = StakeAccount
        THEN UNCHANGED balance
        ELSE IF charge > 0 THEN Paid(s, StakeAccount, charge) ELSE UNCHANGED balance
    <3>1. CASE s = StakeAccount
      BY <1>1, <3>1 DEF changebw
    <3>2. CASE s # StakeAccount
      BY <1>1, <3>2 DEF changebw
    <3>. QED  BY <3>1, <3>2
  <2>. HIDE DEF from, charge
  <2>. QED  BY <2>1, <2>2
<1>2. ASSUME NEW a \in Accounts, refund(a)
      PROVE  \E x, y \in Accounts, n \in Nat : x # y /\ Paid(x, y, n)
  <2>1. a # StakeAccount /\ Paid(StakeAccount, a, Pending(a)) /\ Pending(a) \in Nat
    BY <1>0, <1>2, RefundMoves, PendingType DEF StakeTypeOK
  <2>. QED  BY <2>1
<1>3. ASSUME NEW a \in Accounts, RefundByOwner(a) \/ RunDeferred(a)
      PROVE  balance' = balance \/ \E x, y \in Accounts, n \in Nat : x # y /\ Paid(x, y, n)
  BY <1>2, <1>3 DEF RefundByOwner, RunDeferred
<1>4. CASE \E a \in Accounts, l \in CpuLimits : setalimits(a, l)
  BY <1>4 DEF setalimits
<1>5. CASE \E a, b \in Accounts, q \in Quantities : TokenTransfer(a, b, q)
  BY <1>5 DEF TokenTransfer
<1>6. CASE UNCHANGED stakeVars
  BY <1>6 DEF stakeVars
<1>7. CASE UNCHANGED stakingVars
  BY <1>7 DEF stakingVars, stakeVars
<1>. QED  BY <1>1, <1>3, <1>4, <1>5, <1>6, <1>7, StakingCases

LEMMA PaidKeepsSum ==
  ASSUME balance \in [Accounts -> Nat], NEW x \in Accounts, NEW y \in Accounts, x # y,
         NEW n \in Nat, Paid(x, y, n)
  PROVE  SumFunctionOnSet(balance', Accounts) = SumFunctionOnSet(balance, Accounts)
<1>1. /\ IsFiniteSet(Accounts) /\ x \in Accounts /\ y \in Accounts /\ x # y
      /\ n \in Int /\ \A a \in Accounts : balance[a] \in Int
      /\ \A a \in Accounts :
           balance'[a] = IF a = x THEN balance[a] - n
                         ELSE IF a = y THEN balance[a] + n ELSE balance[a]
  BY DEF Paid
<1>. QED  BY ONLY <1>1, SumMove

TokensConserved == SumFunctionOnSet(balance, Accounts) = SumFunctionOnSet(Endowment, Accounts)

(* Staking, refunds and the uncharged restake included, neither make nor   *)
(* lose tokens: what the endowment was is what the balances are.           *)
THEOREM StakingConservesTokens == StakingSpec => []TokensConserved
<1>1. StakingInit => TokensConserved
  BY DEF StakingInit, TokensConserved
<1>2. StakingTypeOK /\ TokensConserved /\ [StakingNext]_stakingVars => TokensConserved'
  BY BalanceSteps, PaidKeepsSum DEF StakingTypeOK, TokensConserved
<1>. QED  BY <1>1, <1>2, StakingTypeInit, StakingTypeStep, PTL DEF StakingSpec

-----------------------------------------------------------------------------
(* Claims.                                                                 *)

LEMMA ClaimStep ==
  ASSUME StakingTypeOK, [StakingNext]_stakingVars,
         NEW a \in Accounts, a # StakeAccount, Claim(a)' < Claim(a)
  PROVE  /\ seconds >= refunds[a].request_time + refund_delay_sec
         /\ Pending(a)' = 0 /\ StakedBy(a)' = StakedBy(a)
         /\ balance'[a] = balance[a] + Pending(a)
<1>. DEFINE PaidInFull == /\ seconds >= refunds[a].request_time + refund_delay_sec
                          /\ Pending(a)' = 0 /\ StakedBy(a)' = StakedBy(a)
                          /\ balance'[a] = balance[a] + Pending(a)
<1>. SUFFICES PaidInFull
  OBVIOUS
<1>. HIDE DEF PaidInFull
<1>0. /\ VotingTypeOK /\ StakeTypeOK /\ StakedBy(a) \in Nat /\ Pending(a) \in Nat
      /\ balance \in [Accounts -> Nat]
  BY StakingTypeSplit, StakedType, PendingType DEF StakeTypeOK
<1>1. ASSUME StakedBy(a)' = StakedBy(a), Pending(a)' = Pending(a)
      PROVE  FALSE
  BY <1>0, <1>1 DEF Claim
<1>2. ASSUME UNCHANGED <<voters, refunds>>
      PROVE  FALSE
  BY <1>1, <1>2, SameRefunds DEF StakedBy, VoterRow
<1>3. ASSUME NEW s \in Signers, NEW r \in Accounts, NEW q \in Quantities, NEW t \in BOOLEAN,
             changebw(s, r, q, t)
      PROVE  FALSE
  <2>. DEFINE from == IF t THEN r ELSE s
  <2>1. s \in Accounts /\ q \in Nat \ {0} /\ from \in Accounts
    OBVIOUS
  <2>2. /\ \A b : StakedBy(b)' = IF b = from THEN StakedBy(b) + q ELSE StakedBy(b)
        /\ \/ UNCHANGED refunds
           \/ \A b : Pending(b)' = IF b # from THEN Pending(b)
                                   ELSE IF q < Pending(from) THEN Pending(from) - q ELSE 0
           \/ \A b : Pending(b)' = Pending(b)
    BY <1>0, <1>3, <2>1, StakeMoves
  <2>. HIDE DEF from
  <2>3. \/ Pending(a)' = Pending(a)
        \/ a = from /\ Pending(a)' = IF q < Pending(a) THEN Pending(a) - q ELSE 0
    BY <2>2, SameRefunds
  <2>4. StakedBy(a)' = IF a = from THEN StakedBy(a) + q ELSE StakedBy(a)
    BY <2>2
  <2>. QED  BY <1>0, <2>1, <2>3, <2>4 DEF Claim
<1>4. ASSUME NEW s \in Signers, NEW r \in Accounts, NEW q \in Quantities, undelegatebw(s, r, q)
      PROVE  FALSE
  <2>1. s \in Accounts /\ q \in Nat \ {0}
    OBVIOUS
  <2>2. /\ \A b : StakedBy(b)' = IF b = s THEN StakedBy(b) - q ELSE StakedBy(b)
        /\ s = StakeAccount => UNCHANGED refunds
        /\ s # StakeAccount =>
             \A b : Pending(b)' = IF b = s THEN Pending(b) + q ELSE Pending(b)
    BY <1>0, <1>4, <2>1, UnstakeMoves
  <2>3. /\ StakedBy(a)' = IF a = s THEN StakedBy(a) - q ELSE StakedBy(a)
        /\ Pending(a)' = IF a = s THEN Pending(a) + q ELSE Pending(a)
    BY <2>2, SameRefunds
  <2>. QED  BY <1>0, <2>1, <2>3 DEF Claim
<1>5. ASSUME NEW o \in Accounts, refund(o), UNCHANGED votingVars
      PROVE  PaidInFull
  <2>1. /\ Pending(o) > 0 /\ seconds >= SinceRequest(o) + refund_delay_sec
        /\ o # StakeAccount /\ Paid(StakeAccount, o, Pending(o))
        /\ \A b : Pending(b)' = IF b = o THEN 0 ELSE Pending(b)
    BY <1>0, <1>5, RefundMoves
  <2>2. StakedBy(a)' = StakedBy(a)
    BY <1>5 DEF votingVars, StakedBy, VoterRow
  <2>3. a = o
    BY <1>1, <2>1, <2>2
  <2>4. balance'[a] = balance[a] + Pending(a)
    BY <1>0, <2>1, <2>3 DEF Paid
  <2>5. SinceRequest(a) = refunds[a].request_time
    BY <2>1, <2>3 DEF Pending, SinceRequest
  <2>. QED  BY <2>1, <2>2, <2>3, <2>4, <2>5 DEF PaidInFull
<1>6. ASSUME NEW o \in Accounts, RefundByOwner(o) \/ RunDeferred(o)
      PROVE  PaidInFull
  BY <1>2, <1>5, <1>6 DEF RefundByOwner, RunDeferred, votingVars
<1>7. CASE \E b \in Accounts, l \in CpuLimits : setalimits(b, l)
  BY <1>2, <1>7 DEF setalimits, votingVars
<1>8. CASE \E b \in Signers, c \in Accounts, q \in Quantities : TokenTransfer(b, c, q)
  BY <1>2, <1>8 DEF TokenTransfer, votingVars
<1>9. CASE VotingActions /\ UNCHANGED stakeVars
  <2>1. StakedBy(a)' = StakedBy(a) /\ Pending(a)' = Pending(a)
    BY <1>0, <1>9, VotingKeepsStake, SameRefunds DEF stakeVars
  <2>. QED  BY <1>1, <2>1
<1>10. CASE UNCHANGED stakingVars
  BY <1>2, <1>10 DEF stakingVars, stakeVars, votingVars
<1>. QED  BY <1>3, <1>4, <1>6, <1>7, <1>8, <1>9, <1>10, StakingSteps

(* Staked and pending tokens never vanish, whoever acts on them: the two   *)
(* together fall only when the whole pending amount is paid to its owner.  *)
THEOREM ClaimsAlwaysComeBack == StakingSpec => ClaimsComeBack
<1>1. StakingTypeOK /\ [StakingNext]_stakingVars =>
        [\A a \in Accounts \ {StakeAccount} :
           Claim(a)' < Claim(a) =>
             /\ seconds >= refunds[a].request_time + refund_delay_sec
             /\ Pending(a)' = 0 /\ StakedBy(a)' = StakedBy(a)
             /\ balance'[a] = balance[a] + Pending(a)]_stakingVars
  BY ClaimStep
<1>. QED  BY <1>1, StakingTypeInit, StakingTypeStep, PTL DEF StakingSpec, ClaimsComeBack

-----------------------------------------------------------------------------
(* What the documentation promises, and when it holds.                     *)

(* Nobody stakes to itself more than it has pending.                       *)
RestakesArePaid == [][~ \E a \in Accounts : RestakesBeyondRefund(a)]_stakingVars

LEMMA SolventStep ==
  ASSUME StakeAccount \notin Signers, StakingTypeOK, StakingTypeOK', Solvent,
         [StakingNext]_stakingVars, [~ \E a \in Accounts : RestakesBeyondRefund(a)]_stakingVars
  PROVE  Solvent'
<1>1. Owed \in Int /\ Owed' \in Int
  BY OwedType, OwedTypeNext
<1>2. /\ balance[StakeAccount] \in Int /\ balance'[StakeAccount] \in Int
      /\ Uncovered = Owed - balance[StakeAccount]
      /\ Uncovered' = Owed' - balance'[StakeAccount]
  BY DEF StakingTypeOK, Uncovered
<1>3. CASE ~ (Uncovered' > Uncovered)
  BY <1>1, <1>2, <1>3 DEF Solvent
<1>4. CASE Uncovered' > Uncovered
  <2>1. \E a \in Accounts : RestakesBeyondRefund(a)
    BY <1>4, UncoveredStep
  <2>2. UNCHANGED stakingVars
    BY <2>1
  <2>3. Owed' = Owed /\ balance' = balance
    <3>1. UNCHANGED <<voters, refunds, balance>>
      BY <2>2 DEF stakingVars, stakeVars, votingVars
    <3>. QED  BY <3>1, OwedSame, SameRefunds DEF StakedBy, VoterRow
  <2>. QED  BY <2>3 DEF Solvent
<1>. QED  BY <1>3, <1>4

LEMMA SolventAtFirst == StakingInit => Solvent
<1>. SUFFICES ASSUME StakingInit PROVE Solvent
  OBVIOUS
<1>. DEFINE p == [a \in Accounts |-> Pending(a)]
<1>1. /\ \A a \in Accounts : Staked[a] = 0 /\ p[a] = 0
      /\ Owed = SumFunctionOnSet(Staked, Accounts) + SumFunctionOnSet(p, Accounts)
  BY DEF StakingInit, VotingInit, EmptyTable, Staked, StakedBy, VoterRow, Pending, Owed
<1>. HIDE DEF p
<1>2. SumFunctionOnSet(Staked, Accounts) = 0 /\ SumFunctionOnSet(p, Accounts) = 0
  BY <1>1, SumZero
<1>3. balance[StakeAccount] \in Nat
  BY DEF StakingInit
<1>. QED  BY <1>1, <1>2, <1>3 DEF Solvent

(* The uncharged restake is the only way to insolvency: as long as nobody  *)
(* stakes to itself more than it has pending, and the stake account submits*)
(* nothing, that account holds everything that is staked or pending.       *)
THEOREM SolventIfRestakesPaid ==
  ASSUME StakeAccount \notin Signers
  PROVE  StakingSpec /\ RestakesArePaid => []Solvent
<1>1. /\ StakingTypeOK /\ StakingTypeOK' /\ Solvent /\ [StakingNext]_stakingVars
      /\ [~ \E a \in Accounts : RestakesBeyondRefund(a)]_stakingVars
      => Solvent'
  BY SolventStep
<1>. QED  BY <1>1, SolventAtFirst, StakingTypeInit, StakingTypeStep, PTL
          DEF StakingSpec, RestakesArePaid

(* refund's inline transfer finds the tokens.                              *)
RefundsCovered ==
  Solvent => \A a \in DOMAIN refunds : balance[StakeAccount] >= refunds[a].cpu_amount

(* A refund that is due can fail only for want of tokens in a stake account*)
(* that owes more than it holds: what RefundComes leaves to fairness is    *)
(* that a block comes and that the owner asks.                             *)
THEOREM RefundsAlwaysCovered == StakingSpec => []RefundsCovered
<1>1. ASSUME StakingTypeOK
      PROVE  RefundsCovered
  <2>. SUFFICES ASSUME Solvent, NEW a \in DOMAIN refunds
                PROVE  balance[StakeAccount] >= refunds[a].cpu_amount
    BY DEF RefundsCovered
  <2>1. a \in Accounts /\ Pending(a) = refunds[a].cpu_amount /\ Pending(a) \in Nat
    BY <1>1, StakingTypeSplit, PendingType DEF StakeTypeOK, RefundsOK, IsTable, Pending
  <2>2. Pending(a) <= Owed /\ Owed \in Nat /\ balance[StakeAccount] \in Nat
    BY <1>1, <2>1, OwedParts DEF StakingTypeOK
  <2>. QED  BY <2>1, <2>2 DEF Solvent
<1>. QED  BY <1>1, StakingTypeCorrect, PTL

(* a gets stake while its pending refund is left as it is: it delegates to *)
(* somebody else, or is staked to with the transfer flag.                  *)
StakesAside(a) ==
  /\ StakedBy(a)' > StakedBy(a)
  /\ a \in DOMAIN refunds \cap DOMAIN refunds' /\ refunds'[a] = refunds[a]

NobodyStakesAside == [][~ \E a \in Accounts : StakesAside(a)]_stakingVars

ScheduledOrDue ==
  \A a \in DOMAIN refunds :
    a \in DOMAIN deferred \/ 2 * (refunds[a].request_time + refund_delay_sec) <= slot

(* What a step does to the transactions of the refunds that stay pending.  *)
LEMMA ScheduleStep ==
  ASSUME StakingTypeOK, [StakingNext]_stakingVars,
         [~ \E a \in Accounts : StakesAside(a)]_stakingVars, NEW a \in DOMAIN refunds'
  PROVE  \/ a \in DOMAIN deferred'
         \/ /\ a \in DOMAIN refunds /\ refunds'[a] = refunds[a]
            /\ a \in DOMAIN deferred => deferred[a] <= slot
<1>0. VotingTypeOK /\ StakeTypeOK /\ DOMAIN refunds \subseteq Accounts
  BY StakingTypeSplit DEF StakeTypeOK, RefundsOK, IsTable
<1>1. CASE UNCHANGED <<refunds, deferred>>
  BY <1>1
<1>2. ASSUME NEW s \in Accounts, NEW r \in Accounts, NEW d \in Int, NEW t \in BOOLEAN,
             d # 0, changebw(s, r, d, t)
      PROVE  \/ a \in DOMAIN deferred'
             \/ /\ a \in DOMAIN refunds /\ refunds'[a] = refunds[a]
                /\ a \in DOMAIN deferred => deferred[a] <= slot
  <2>. DEFINE from == IF t THEN r ELSE s
  <2>1. /\ update_voting_power(from, d) /\ from \in Accounts
        /\ \/ UNCHANGED <<refunds, deferred>>
           \/ update_refund(from, d)
           \/ /\ ~ TouchesRefund(from, r, d, t)
              /\ deferred' = Erase(deferred, from) /\ UNCHANGED refunds
    BY <1>2 DEF changebw
  <2>. HIDE DEF from
  <2>2. CASE update_refund(from, d)
    <3>1. CASE RefundLeft(from, d) = 0
      <4>1. refunds' = Erase(refunds, from) /\ deferred' = Erase(deferred, from)
        BY <2>2, <3>1 DEF update_refund
      <4>. QED  BY <4>1 DEF Erase
    <3>2. CASE RefundLeft(from, d) # 0
      <4>. DEFINE row == [request_time |-> IF d < 0 THEN seconds
                                           ELSE refunds[from].request_time,
                          cpu_amount |-> RefundLeft(from, d)]
      <4>1. /\ refunds' = Upsert(refunds, from, row)
            /\ deferred' = Upsert(deferred, from, DueSlot)
        BY <2>2, <3>2 DEF update_refund
      <4>. HIDE DEF row
      <4>. QED  BY <4>1 DEF Upsert
    <3>. QED  BY <3>1, <3>2
  <2>3. CASE /\ ~ TouchesRefund(from, r, d, t)
             /\ deferred' = Erase(deferred, from) /\ UNCHANGED refunds
    <3>1. a # from => (a \in DOMAIN deferred => a \in DOMAIN deferred')
      BY <2>3 DEF Erase
    <3>2. ASSUME a = from
          PROVE  FALSE
      <4>1. d > 0
        BY <1>2, <2>3 DEF TouchesRefund
      <4>2. StakedBy(from)' > StakedBy(from)
        <5>1. StakedBy(from) \in Nat /\ StakedBy(from)' = StakedBy(from) + d
          BY <1>0, <2>1, StakedType, StakeEffect
        <5>. QED  BY <4>1, <5>1
      <4>3. StakesAside(from)
        BY <2>3, <3>2, <4>2 DEF StakesAside
      <4>4. voters' # voters
        <5>1. StakedBy(from) \in Nat
          BY <1>0, StakedType
        <5>2. voters' = voters => StakedBy(from)' = StakedBy(from)
          BY DEF StakedBy, VoterRow
        <5>. QED  BY <4>2, <5>1, <5>2
      <4>. QED  BY <2>1, <4>3, <4>4 DEF stakingVars, votingVars
    <3>. QED  BY <2>3, <3>1, <3>2
  <2>. QED  BY <2>1, <2>2, <2>3
<1>3. ASSUME NEW o \in Accounts, RefundByOwner(o) \/ RunDeferred(o)
      PROVE  \/ a \in DOMAIN deferred'
             \/ /\ a \in DOMAIN refunds /\ refunds'[a] = refunds[a]
                /\ a \in DOMAIN deferred => deferred[a] <= slot
  <2>1. /\ refunds' = refunds \/ refunds' = Erase(refunds, o)
        /\ \/ deferred' = deferred
           \/ deferred' = Erase(deferred, o) /\ deferred[o] <= slot
    BY <1>3 DEF RefundByOwner, RunDeferred, refund
  <2>. QED  BY <2>1 DEF Erase
<1>4. CASE \E b \in Accounts, l \in CpuLimits : setalimits(b, l)
  BY <1>1, <1>4 DEF setalimits
<1>5. CASE \E b, c \in Accounts, q \in Quantities : TokenTransfer(b, c, q)
  BY <1>1, <1>5 DEF TokenTransfer
<1>6. CASE UNCHANGED stakeVars
  BY <1>1, <1>6 DEF stakeVars
<1>7. CASE UNCHANGED stakingVars
  BY <1>1, <1>7 DEF stakingVars, stakeVars
<1>. QED  BY <1>2, <1>3, <1>4, <1>5, <1>6, <1>7, StakingCases

LEMMA ScheduledStep ==
  ASSUME DeferredInv, ScheduledOrDue, [StakingNext]_stakingVars,
         [~ \E a \in Accounts : StakesAside(a)]_stakingVars
  PROVE  ScheduledOrDue'
<1>. SUFFICES ASSUME NEW a \in DOMAIN refunds', a \notin DOMAIN deferred'
              PROVE  2 * (refunds'[a].request_time + refund_delay_sec) <= slot'
  BY DEF ScheduledOrDue
<1>1. /\ a \in DOMAIN refunds /\ refunds'[a] = refunds[a]
      /\ a \in DOMAIN deferred => deferred[a] <= slot
  BY ScheduleStep DEF DeferredInv
<1>2. /\ slot \in Nat /\ refunds[a].request_time \in Nat
      /\ \A b \in DOMAIN deferred : deferred[b] \in Nat
  BY <1>1 DEF DeferredInv, StakingTypeOK, VotingTypeOK, IsTable, Refund
<1>. DEFINE due == 2 * (refunds[a].request_time + refund_delay_sec)
<1>3. due \in Nat
  BY <1>2
<1>4. due <= slot
  BY <1>1, <1>2, <1>3 DEF ScheduledOrDue, DeferredInv, DeferredIsNotEarly
<1>5. slot' \in Nat /\ slot <= slot'
  BY <1>2, TimeGoesOn
<1>. HIDE DEF due
<1>6. due <= slot'
  BY <1>2, <1>3, <1>4, <1>5
<1>. QED  BY <1>1, <1>6 DEF due

(* A pending refund loses its transaction only to a stake that leaves it   *)
(* pending.  Without those, README.md:55 and eosio.system.hpp:263 are      *)
(* kept: the transaction stays until it is due, and a refund without one   *)
(* is one the owner can already ask for.                                   *)
THEOREM ScheduledUnlessStakedAside ==
  StakingSpec /\ NobodyStakesAside => PendingRefundStaysScheduled /\ []ScheduledOrDue
<1>1. /\ StakingTypeOK /\ [StakingNext]_stakingVars
      /\ [~ \E a \in Accounts : StakesAside(a)]_stakingVars
      => [\A a \in DOMAIN deferred :
            /\ deferred[a] > slot
            /\ a \in DOMAIN refunds'
            => a \in DOMAIN deferred']_stakingVars
  <2>1. ASSUME StakingTypeOK, [StakingNext]_stakingVars,
               [~ \E a \in Accounts : StakesAside(a)]_stakingVars,
               NEW a \in DOMAIN deferred, deferred[a] > slot, a \in DOMAIN refunds'
        PROVE  a \in DOMAIN deferred'
    <3>1. deferred[a] \in Nat /\ slot \in Nat
      BY <2>1 DEF StakingTypeOK, VotingTypeOK, IsTable
    <3>. QED  BY <2>1, <3>1, ScheduleStep
  <2>. QED  BY <2>1
<1>2. StakingInit => DeferredInv /\ ScheduledOrDue
  BY StakingTypeInit DEF StakingInit, EmptyTable, DeferredInv, RequestedBefore,
                         DeferredIsNotEarly, ScheduledOrDue
<1>3. /\ DeferredInv /\ ScheduledOrDue /\ [StakingNext]_stakingVars
      /\ [~ \E a \in Accounts : StakesAside(a)]_stakingVars
      => ScheduledOrDue'
  BY ScheduledStep
<1>4. DeferredInv => StakingTypeOK
  BY DEF DeferredInv
<1>. QED  BY <1>1, <1>2, <1>3, <1>4, DeferredStep, PTL
          DEF StakingSpec, NobodyStakesAside, PendingRefundStaysScheduled

=============================================================================
