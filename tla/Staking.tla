------------------------------ MODULE Staking ------------------------------
(***************************************************************************)
(* Staking for CPU: delegate_bandwidth.cpp and setalimits, on top of the   *)
(* voting they change the weight of.  Tokens are held in the ledger        *)
(* EosioToken implements; here only the core symbol's balances appear.     *)
(*                                                                         *)
(* slot is the time: blocks come at half seconds.  current_time_point() is *)
(* the current block's slot, and a refund request keeps whole seconds of   *)
(* it.  The deferred refund transaction is run by the chain, once, at some *)
(* block after its delay, and may fail there.                              *)
(***************************************************************************)
EXTENDS Voting

CONSTANTS
  StakeAccount,     \* eosio.stake, which holds what is staked
  Signers,          \* accounts that submit staking actions and transfers
  Limited,          \* accounts made by newaccount: a row and a limit of zero
  Endowment,        \* account -> tokens it starts with
  refund_delay_sec, \* 3 days
  CpuLimits,        \* limits setalimits may be called with
  Quantities        \* amounts staked, unstaked or transferred at once

ASSUME StakingAssumption ==
  /\ StakeAccount \in Accounts /\ Signers \subseteq Accounts /\ Limited \subseteq Accounts
  /\ Endowment \in [Accounts -> Nat]
  /\ refund_delay_sec \in Nat \ {0}
  /\ CpuLimits \subseteq Int
  /\ Quantities \subseteq Nat \ {0}

VARIABLES
  delband,   \* table: <<from, to>> -> tokens from delegates to to
  userres,   \* table: account -> tokens delegated to it
  refunds,   \* table: account -> tokens on their way back and when asked for
  deferred,  \* table: account -> slot its deferred refund is due at
  cpuLimit,  \* account -> CPU weight the chain grants it, -1 for no limit
  balance    \* account -> tokens in its balance

stakeVars == <<delband, userres, refunds, deferred, cpuLimit, balance>>
stakingVars == <<stakeVars, votingVars>>

Refund == [request_time: Nat, cpu_amount: Nat]

StakingInit ==
  /\ VotingInit
  /\ delband = EmptyTable
  /\ userres = [a \in Limited |-> 0]
  /\ refunds = EmptyTable
  /\ deferred = EmptyTable
  /\ cpuLimit = [a \in Accounts |-> IF a \in Limited THEN 0 ELSE 0 - 1]
  /\ balance = Endowment

seconds == slot \div 2

-----------------------------------------------------------------------------
(* changebw, block by block.                                               *)

AmountAt(t, k) == IF k \in DOMAIN t THEN t[k] ELSE 0

(* Mutant of PutOrErase: an empty row stays.                               *)
PutOrErase_Keeping(t, k, amount) == Upsert(t, k, amount)

(* A row that reaches zero is erased, as is_empty() asks.                  *)
PutOrErase(t, k, amount) == IF amount = 0 THEN Erase(t, k) ELSE Upsert(t, k, amount)

(* Mutants of update_delband and update_totals: = where += was meant.      *)
update_delband_Replacing(from, receiver, delta) ==
  /\ AmountAt(delband, <<from, receiver>>) + delta >= 0
  /\ delband' = PutOrErase(delband, <<from, receiver>>, delta)

update_totals_Replacing(receiver, delta) ==
  /\ AmountAt(userres, receiver) + delta >= 0
  /\ userres' = PutOrErase(userres, receiver, delta)
  /\ cpuLimit' = [cpuLimit EXCEPT ![receiver] = delta]

update_delband(from, receiver, delta) ==
  LET weight == AmountAt(delband, <<from, receiver>>) + delta
  IN  /\ weight >= 0
      /\ delband' = PutOrErase(delband, <<from, receiver>>, weight)

update_totals(receiver, delta) ==
  LET weight == AmountAt(userres, receiver) + delta
  IN  /\ weight >= 0
      /\ userres' = PutOrErase(userres, receiver, weight)
      /\ cpuLimit' = [cpuLimit EXCEPT ![receiver] = weight]

(* Mutant of TouchesRefund: unstaking from somebody else forgets it.       *)
TouchesRefund_SelfOnly(from, receiver, delta, transfer) ==
  ~transfer /\ from = receiver

(* Staking to oneself takes from the pending refund first, unstaking adds  *)
(* to it and restarts its delay.                                           *)
TouchesRefund(from, receiver, delta, transfer) ==
  (~transfer /\ from = receiver) \/ delta < 0

Pending(a) == IF a \in DOMAIN refunds THEN refunds[a].cpu_amount ELSE 0

(* Mutant of RefundLeft: restaking a part forgets the rest.                *)
RefundLeft_Dropping(from, delta) ==
  IF delta < 0 THEN Pending(from) - delta ELSE 0

RefundLeft(from, delta) ==
  LET left == Pending(from) - delta
  IN  IF left < 0 THEN 0 ELSE left

(* Mutant of DueSlot: the delay taken for slots.                           *)
DueSlot_Early == slot + refund_delay_sec

DueSlot == slot + 2 * refund_delay_sec

update_refund(from, delta) ==
  LET left == RefundLeft(from, delta)
  IN  /\ refunds' = IF left = 0
                    THEN Erase(refunds, from)
                    ELSE Upsert(refunds, from,
                           [request_time |-> IF delta < 0 THEN seconds
                                             ELSE refunds[from].request_time,
                            cpu_amount |-> left])
      /\ deferred' = IF left = 0
                     THEN Erase(deferred, from)
                     ELSE Upsert(deferred, from, DueSlot)

(* Mutant of Charge: any stake while a refund is pending is free.          *)
Charge_Free(from, receiver, delta, transfer) ==
  IF delta < 0 \/ from \in DOMAIN refunds THEN 0 ELSE delta

(* Tokens charged for a stake.  When a pending refund is smaller than the  *)
(* stake, delegate_bandwidth.cpp:159 zeroes the refund before line 160     *)
(* reads the difference from it, so nothing is charged for the difference. *)
Charge(from, receiver, delta, transfer) ==
  IF \/ delta < 0
     \/ TouchesRefund(from, receiver, delta, transfer) /\ from \in DOMAIN refunds
  THEN 0
  ELSE delta

Paid(from, to, amount) ==
  /\ balance[from] >= amount
  /\ balance' = [balance EXCEPT ![from] = @ - amount, ![to] = @ + amount]

changebw(source, receiver, delta, transfer) ==
  LET from == IF transfer THEN receiver ELSE source
      charge == Charge(from, receiver, delta, transfer)
  IN  /\ update_delband(from, receiver, delta)
      /\ update_totals(receiver, delta)
      /\ IF source = StakeAccount
         THEN UNCHANGED <<refunds, deferred, balance>>
         ELSE /\ IF TouchesRefund(from, receiver, delta, transfer)
                 THEN update_refund(from, delta)
                 ELSE /\ deferred' = Erase(deferred, from)
                      /\ UNCHANGED refunds
              /\ IF charge > 0
                 THEN Paid(source, StakeAccount, charge)
                 ELSE UNCHANGED balance
      /\ update_voting_power(from, delta)
      /\ UNCHANGED <<acntype, vwstate, gstate, slot, proposed>>

-----------------------------------------------------------------------------
(* Staked tokens and tokens on their way back.                             *)
Owed == SumFunctionOnSet(Staked, Accounts)
          + SumFunctionOnSet([a \in Accounts |-> Pending(a)], Accounts)

(* MaxStake bounds what is owed: with the charge above, and when the stake *)
(* account stakes, that is not bounded by the tokens that exist.           *)
delegatebw(from, receiver, stake, transfer) ==
  /\ ~transfer \/ from # receiver
  /\ Owed + stake <= MaxStake
  /\ changebw(from, receiver, stake, transfer)

undelegatebw(from, receiver, unstake) == changebw(from, receiver, 0 - unstake, FALSE)

dlgtcpu(from, receiver, stake, transfer) == delegatebw(from, receiver, stake, transfer)
undlgtcpu(from, receiver, unstake) == undelegatebw(from, receiver, unstake)

(* Mutant of refund: the very second the delay is over is still too early. *)
refund_Late(owner) ==
  /\ owner \in DOMAIN refunds
  /\ 2 * (refunds[owner].request_time + refund_delay_sec) < slot
  /\ owner # StakeAccount
  /\ Paid(StakeAccount, owner, refunds[owner].cpu_amount)
  /\ refunds' = Erase(refunds, owner)

(* The inline transfer fails only if the stake account has not the tokens, *)
(* or the owner is the stake account.                                      *)
refund(owner) ==
  /\ owner \in DOMAIN refunds
  /\ 2 * (refunds[owner].request_time + refund_delay_sec) <= slot
  /\ owner # StakeAccount
  /\ Paid(StakeAccount, owner, refunds[owner].cpu_amount)
  /\ refunds' = Erase(refunds, owner)

RefundByOwner(owner) ==
  /\ refund(owner)
  /\ UNCHANGED <<delband, userres, deferred, cpuLimit, votingVars>>

(* The chain runs a deferred transaction that is due, once.  It has no     *)
(* effect if its action fails, or if the chain cannot run it in time.      *)
RunDeferred(owner) ==
  /\ owner \in DOMAIN deferred /\ deferred[owner] <= slot
  /\ deferred' = Erase(deferred, owner)
  /\ refund(owner) \/ UNCHANGED <<refunds, balance>>
  /\ UNCHANGED <<delband, userres, cpuLimit, votingVars>>

setalimits(account, cpu) ==
  /\ account \notin DOMAIN userres
  /\ cpuLimit' = [cpuLimit EXCEPT ![account] = cpu]
  /\ UNCHANGED <<delband, userres, refunds, deferred, balance, votingVars>>

(* The token contract's transfer.                                          *)
TokenTransfer(from, to, amount) ==
  /\ from # to
  /\ Paid(from, to, amount)
  /\ UNCHANGED <<delband, userres, refunds, deferred, cpuLimit, votingVars>>

StakingActions ==
  \/ \E from \in Signers, r \in Accounts, q \in Quantities :
       \/ \E t \in BOOLEAN : delegatebw(from, r, q, t) \/ dlgtcpu(from, r, q, t)
       \/ undelegatebw(from, r, q) \/ undlgtcpu(from, r, q)
       \/ TokenTransfer(from, r, q)
  \/ \E a \in Signers : RefundByOwner(a)
  \/ \E a \in Accounts : RunDeferred(a)
  \/ \E a \in Accounts, l \in CpuLimits : setalimits(a, l)

StakingNext ==
  \/ StakingActions
  \/ VotingActions /\ UNCHANGED stakeVars

StakingSpec == StakingInit /\ [][StakingNext]_stakingVars

(* Blocks keep coming, and an owner keeps asking for a refund that is due. *)
(* Nobody is obliged to do anything else, the chain's scheduler included.  *)
FairStakingSpec ==
  /\ StakingSpec
  /\ WF_stakingVars(UNCHANGED stakeVars /\ \E t \in FirstSlot..MaxSlot : onblock(t))
  /\ \A a \in Signers : WF_stakingVars(RefundByOwner(a))

-----------------------------------------------------------------------------
(* Every table holds rows of its declared shape, and none that is empty    *)
(* but those newaccount made.                                              *)
StakingTypeOK ==
  /\ VotingTypeOK
  /\ IsTable(delband, Accounts \X Accounts, Nat \ {0})
  /\ IsTable(userres, Accounts, Nat)
  /\ IsTable(refunds, Accounts, Refund)
  /\ \A a \in DOMAIN refunds : refunds[a].cpu_amount > 0
  /\ IsTable(deferred, Accounts, Nat)
  /\ cpuLimit \in [Accounts -> Int]
  /\ balance \in [Accounts -> Nat]

Delegated(from, to) == AmountAt(delband, <<from, to>>)
DelegatedBy(from) == SumFunctionOnSet([to \in Accounts |-> Delegated(from, to)], Accounts)
DelegatedTo(to) == SumFunctionOnSet([from \in Accounts |-> Delegated(from, to)], Accounts)

(* An account votes with exactly what it has delegated, to itself and to   *)
(* others, and what others gave it with the transfer flag: voters.staked   *)
(* and the delband rows are two records of the same stake.                 *)
VotingPowerIsStake == \A a \in Accounts : StakedBy(a) = DelegatedBy(a)

(* The total of an account is the sum of what everybody delegates to it,   *)
(* though rows come and go on both sides.                                  *)
TotalsAreDelegations ==
  \A a \in Accounts : AmountAt(userres, a) = DelegatedTo(a)

(* The CPU weight the chain was last given is the recorded total, whichever*)
(* of changebw and setalimits came last.                                   *)
LimitFollowsTotal ==
  \A a \in DOMAIN userres : cpuLimit[a] = userres[a]

(* A deferred refund never runs into "refund is not available yet", also   *)
(* when restaking rescheduled it and whole seconds were cut off the time.  *)
DeferredIsNotEarly ==
  \A a \in DOMAIN deferred \cap DOMAIN refunds :
    deferred[a] >= 2 * (refunds[a].request_time + refund_delay_sec)

Uncovered == Owed - balance[StakeAccount]

(* One account stakes more to itself than its pending refund returns.      *)
RestakesBeyondRefund(a) ==
  /\ a \in DOMAIN refunds /\ a \notin DOMAIN refunds'
  /\ StakedBy(a)' - StakedBy(a) > refunds[a].cpu_amount

(* No step but that one takes on a debt the stake account gets no tokens   *)
(* for, as long as the stake account itself neither stakes nor pays out.   *)
OnlyRestakingUncovers ==
  [][Uncovered' > Uncovered =>
       \E a \in Accounts :
         /\ RestakesBeyondRefund(a)
         /\ Uncovered' - Uncovered
              = StakedBy(a)' - StakedBy(a) - refunds[a].cpu_amount]_stakingVars

(* Unstaking restarts the clock of everything the account has pending, the *)
(* transaction included, whoever the stake had been delegated to.          *)
UnstakingRestartsDelay ==
  [][\A a \in Accounts :
       StakedBy(a)' < StakedBy(a) /\ a # StakeAccount =>
         /\ a \in DOMAIN refunds' /\ refunds'[a].request_time = seconds
         /\ a \in DOMAIN deferred' /\ deferred'[a] > slot]_stakingVars

(* Staked and pending tokens never vanish, whoever acts on them and through*)
(* whichever row: the two together fall only when everything that is       *)
(* pending is paid to its owner, when the delay is over.                   *)
Claim(a) == StakedBy(a) + Pending(a)

ClaimsComeBack ==
  [][\A a \in Accounts \ {StakeAccount} :
       Claim(a)' < Claim(a) =>
         /\ seconds >= refunds[a].request_time + refund_delay_sec
         /\ Pending(a)' = 0 /\ StakedBy(a)' = StakedBy(a)
         /\ balance'[a] = balance[a] + Pending(a)]_stakingVars

(* Staking keeps the escrow's promise: what delband, userres, voters and   *)
(* the chain's weights record about a stake is one locked amount, a refund *)
(* row and its deferred transaction are one pending amount, and every path *)
(* through changebw locks, relocks or releases.                            *)
SinceRequest(a) == IF a \in DOMAIN refunds THEN refunds[a].request_time ELSE 0

Promise == INSTANCE Escrow WITH
  Owners <- Accounts, Vault <- StakeAccount, Held <- Endowment,
  Start <- FirstSlot \div 2, Delay <- refund_delay_sec,
  Grantees <- IF StakeAccount \in Signers THEN Accounts ELSE {},
  Amounts <- Quantities,
  locked <- Staked, pending <- [a \in Accounts |-> Pending(a)],
  since <- [a \in Accounts |-> SinceRequest(a)], tokens <- balance, now <- seconds

EscrowImplemented == Promise!EscrowSpec

(* A refund asked for in a second whose delay ends before the last block.  *)
Requested(a, s) ==
  /\ a \in DOMAIN refunds /\ refunds[a].request_time = s
  /\ 2 * (s + refund_delay_sec) <= MaxSlot

(* Whatever the others do, and whether or not the chain runs the deferred  *)
(* transaction, an owner gets a refund it keeps asking for, unless it      *)
(* stakes the tokens again or asks for more; only a stake account that has *)
(* been left short by an uncharged restake can keep it waiting.            *)
RefundComes ==
  \A a \in Signers, s \in (FirstSlot \div 2)..(MaxSlot \div 2) :
    Requested(a, s) ~> (~Requested(a, s) \/ Uncovered > 0)

-----------------------------------------------------------------------------
(* What the repository's own words promise and the code does not keep.     *)

(* eosio.system.hpp:244: delegatebw "stakes SYS from the balance of from". *)
(* Then the stake account always holds what it owes, as long as it neither *)
(* stakes nor pays out itself; the uncharged restake breaks that.          *)
Solvent == Owed <= balance[StakeAccount]

(* README.md:55 and eosio.system.hpp:263: unstaked tokens come back by a   *)
(* deferred transaction.  So a refund that is pending has one until it is  *)
(* due; any other staking of the account cancels it.                       *)
PendingRefundStaysScheduled ==
  [][\A a \in DOMAIN deferred :
       /\ deferred[a] > slot
       /\ a \in DOMAIN refunds'
       => a \in DOMAIN deferred']_stakingVars

=============================================================================
