------------------------------ MODULE Accounts ------------------------------
(***************************************************************************)
(* How accounts come into being and in which token they stake: newaccount, *)
(* setacntfee and init of eosio.system.cpp, on top of the staking and      *)
(* voting the new accounts take part in.                                   *)
(*                                                                         *)
(* The founders were made while the bios contract was in place: they have  *)
(* no row in userres.  Every row that holds an asset has its symbol, and   *)
(* every account a balance in each token.  What Staking counts in voters   *)
(* and in balance are bare units, whatever their token, as the code does in*)
(* voters.staked (delegate_bandwidth.cpp:223).                             *)
(***************************************************************************)
EXTENDS Staking, Names

CONSTANTS
  System,         \* eosio, the account of the system contract
  SavingAccount,  \* eosio.saving, which receives the fees
  Founders,       \* accounts older than the system contract
  NameOf,         \* account -> its name
  Creators,       \* accounts that submit newaccount
  Receivers,      \* accounts that are staked or transferred to, or limited
  NoSymbol,       \* the default-constructed symbol
  Issued,         \* symbols of the tokens that exist and have a supply
  Holdings,       \* <<account, symbol>> -> tokens it starts with
  Symbols,        \* symbols init and setacntfee may be called with
  FeeAmounts,     \* amounts setacntfee may be called with
  MaxFee          \* symbol -> amount of 10 tokens, the highest fee accepted

ASSUME AccountsAssumption ==
  /\ Founders \cup Receivers \cup Creators \subseteq Accounts
  /\ {System, StakeAccount, SavingAccount} \subseteq Founders
  /\ Limited = {}
  /\ NameOf \in [Accounts -> Name]
  /\ \A a, b \in Accounts : NameOf[a] = NameOf[b] => a = b
  /\ IsFiniteSet(Issued) /\ Issued \subseteq Symbols /\ NoSymbol \notin Symbols
  /\ Holdings \in [Accounts \X Issued -> Nat]
  /\ FeeAmounts \subseteq Int /\ MaxFee \in [Symbols -> Nat]

ASSUME EndowmentAssumption ==
  \A a \in Accounts :
    Endowment[a] = SumFunctionOnSet([s \in Issued |-> Holdings[<<a, s>>]], Issued)

VARIABLES
  madeBy,                \* table: account made by newaccount -> its creator
  core_symbol,           \* singleton: the symbol init was last run with
  account_creation_fee,  \* singleton: symbol and amount of the fee
  userresSymbol,         \* the symbol of every row of userres,
  delbandSymbol,         \* of delband
  refundSymbol,          \* and of refunds
  held                   \* <<account, symbol>> -> tokens in its balance

accountVars == <<madeBy, core_symbol, account_creation_fee>>
symbolVars == <<userresSymbol, delbandSymbol, refundSymbol>>
accountsVars == <<accountVars, symbolVars, held, stakingVars>>

AccountsInit ==
  /\ StakingInit
  /\ madeBy = EmptyTable
  /\ core_symbol = NoSymbol
  /\ account_creation_fee = [symbol |-> NoSymbol, amount |-> 0]
  /\ userresSymbol = EmptyTable
  /\ delbandSymbol = EmptyTable
  /\ refundSymbol = EmptyTable
  /\ held = Holdings

Exists(a) == a \in Founders \cup DOMAIN madeBy

-----------------------------------------------------------------------------
(* Tokens of several symbols.                                              *)

(* A row keeps the symbol it was made in, which is the core symbol then.   *)
Tagged(symbols, rows) ==
  [k \in DOMAIN rows |-> IF k \in DOMAIN symbols THEN symbols[k] ELSE core_symbol]

RowsTagged ==
  /\ userresSymbol' = Tagged(userresSymbol, userres')
  /\ delbandSymbol' = Tagged(delbandSymbol, delband')
  /\ refundSymbol' = Tagged(refundSymbol, refunds')

(* An inline transfer, or one the holder submits, as one symbol sees it.   *)
Moved(symbol, from, to, amount) ==
  /\ held[<<from, symbol>>] >= amount
  /\ held' = [held EXCEPT ![<<from, symbol>>] = @ - amount, ![<<to, symbol>>] = @ + amount]

-----------------------------------------------------------------------------
(* init, setacntfee, newaccount.                                           *)

(* Nothing keeps init from being run again.                                *)
init(core) ==
  /\ core \in Issued
  /\ core_symbol' = core
  /\ UNCHANGED <<madeBy, account_creation_fee, held, stakingVars>>

(* Mutant of setacntfee: a fee in any token that exists.                   *)
setacntfee_AnySymbol(symbol, amount) ==
  /\ symbol \in Issued
  /\ 0 < amount /\ amount <= MaxFee[symbol]
  /\ account_creation_fee' = [symbol |-> symbol, amount |-> amount]
  /\ UNCHANGED <<madeBy, core_symbol, held, stakingVars>>

setacntfee(symbol, amount) ==
  /\ core_symbol = symbol
  /\ 0 < amount /\ amount <= MaxFee[symbol]
  /\ account_creation_fee' = [symbol |-> symbol, amount |-> amount]
  /\ UNCHANGED <<madeBy, core_symbol, held, stakingVars>>

(* The inline transfer of the fee.  The token contract refuses one to      *)
(* oneself.                                                                *)
PayFee(creator) ==
  LET fee == account_creation_fee
  IN  /\ fee.amount > 0
      /\ creator # SavingAccount
      /\ Moved(fee.symbol, creator, SavingAccount, fee.amount)
      /\ Paid(creator, SavingAccount, fee.amount)

(* Mutant of newaccount: the new account keeps the chain's default, which  *)
(* is no limit.                                                            *)
newaccount_Unlimited(creator, newact) ==
  /\ core_symbol # NoSymbol
  /\ IF creator = System
     THEN UNCHANGED <<held, balance>>
     ELSE MayName(NameOf[creator], NameOf[newact]) /\ PayFee(creator)
  /\ newact \notin DOMAIN userres
  /\ userres' = Upsert(userres, newact, 0)
  /\ madeBy' = Upsert(madeBy, newact, creator)
  /\ UNCHANGED <<core_symbol, account_creation_fee, cpuLimit,
                 delband, refunds, deferred, votingVars>>

(* A row in the default symbol would be refused by asset's constructor.    *)
newaccount(creator, newact) ==
  /\ core_symbol # NoSymbol
  /\ IF creator = System
     THEN UNCHANGED <<held, balance>>
     ELSE MayName(NameOf[creator], NameOf[newact]) /\ PayFee(creator)
  /\ newact \notin DOMAIN userres
  /\ userres' = Upsert(userres, newact, 0)
  /\ cpuLimit' = [cpuLimit EXCEPT ![newact] = 0]
  /\ madeBy' = Upsert(madeBy, newact, creator)
  /\ UNCHANGED <<core_symbol, account_creation_fee,
                 delband, refunds, deferred, votingVars>>

-----------------------------------------------------------------------------
(* Staking and voting among the accounts that exist.                       *)

(* Mutants of SymbolsFit: an amount is added to the total of the receiver, *)
(* or taken from the pending refund, whatever token that is in.            *)
SymbolsFit_AnyTotal(from, receiver, touchesRefund) ==
  /\ <<from, receiver>> \in DOMAIN delband => delbandSymbol[<<from, receiver>>] = core_symbol
  /\ touchesRefund /\ from \in DOMAIN refunds => refundSymbol[from] = core_symbol

SymbolsFit_AnyRefund(from, receiver, touchesRefund) ==
  /\ <<from, receiver>> \in DOMAIN delband => delbandSymbol[<<from, receiver>>] = core_symbol
  /\ receiver \in DOMAIN userres => userresSymbol[receiver] = core_symbol

(* asset adds and subtracts amounts of one symbol only.                    *)
SymbolsFit(from, receiver, touchesRefund) ==
  /\ <<from, receiver>> \in DOMAIN delband => delbandSymbol[<<from, receiver>>] = core_symbol
  /\ receiver \in DOMAIN userres => userresSymbol[receiver] = core_symbol
  /\ touchesRefund /\ from \in DOMAIN refunds => refundSymbol[from] = core_symbol

(* changebw as the tokens see it: delegatebw and undelegatebw refuse any   *)
(* amount that is not in the core symbol, and so does every row it meets.  *)
InCoreSymbol(source, receiver, delta, transfer) ==
  LET from == IF transfer THEN receiver ELSE source
      paying == source # StakeAccount
      charge == Charge(from, receiver, delta, transfer)
  IN  /\ core_symbol # NoSymbol
      /\ SymbolsFit(from, receiver, paying /\ TouchesRefund(from, receiver, delta, transfer))
      /\ IF paying /\ charge > 0
         THEN Moved(core_symbol, source, StakeAccount, charge)
         ELSE UNCHANGED held

(* Mutant of Known: the chain is not asked for the receiver.               *)
Known_Unborn(from, receiver) == Exists(from)

(* The chain sets limits of accounts that exist only.                      *)
Known(from, receiver) == Exists(from) /\ Exists(receiver)

StakeFrom(from, receiver) ==
  /\ Known(from, receiver)
  /\ \E q \in Quantities :
       \/ \E t \in BOOLEAN :
            /\ delegatebw(from, receiver, q, t) \/ dlgtcpu(from, receiver, q, t)
            /\ InCoreSymbol(from, receiver, q, t)
       \/ /\ undelegatebw(from, receiver, q) \/ undlgtcpu(from, receiver, q)
          /\ InCoreSymbol(from, receiver, 0 - q, FALSE)

(* Mutant of PaysBack: refunds are paid in the core symbol of the day.     *)
PaysBack_InCore(owner) ==
  Moved(core_symbol, StakeAccount, owner, refunds[owner].cpu_amount)

(* The inline transfer of a refund, in the token that was staked.          *)
PaysBack(owner) ==
  Moved(refundSymbol[owner], StakeAccount, owner, refunds[owner].cpu_amount)

(* Steps that involve no asset of the caller's and no new row.             *)
OtherSteps ==
  \/ \E a \in Signers : RefundByOwner(a) /\ PaysBack(a)
  \/ \E a \in Accounts :
       /\ RunDeferred(a)
       /\ IF refunds' = refunds THEN UNCHANGED held ELSE PaysBack(a)
  \/ \E a \in Receivers, l \in CpuLimits :
       Exists(a) /\ setalimits(a, l) /\ UNCHANGED held
  \/ \E from \in Signers, to \in Receivers, q \in Quantities, s \in Issued :
       /\ Exists(from) /\ Exists(to)
       /\ TokenTransfer(from, to, q) /\ Moved(s, from, to, q)
  \/ /\ VotingActions
     /\ \A a \in DOMAIN acntype' : Exists(a)
     /\ UNCHANGED <<stakeVars, held>>

AccountsActions ==
  \/ \E s \in Symbols : init(s)
  \/ \E s \in Symbols, n \in FeeAmounts : setacntfee(s, n)
  \/ \E c \in Creators, a \in Accounts : Exists(c) /\ ~Exists(a) /\ newaccount(c, a)
  \/ (\E from \in Signers, r \in Receivers : StakeFrom(from, r)) /\ UNCHANGED accountVars
  \/ OtherSteps /\ UNCHANGED accountVars

AccountsNext == AccountsActions /\ RowsTagged

AccountsSpec == AccountsInit /\ [][AccountsNext]_accountsVars

-----------------------------------------------------------------------------
(* The new tables hold rows of their declared shape, every row that holds  *)
(* an asset has a symbol, and balance counts the units of all tokens.      *)
AccountsTypeOK ==
  /\ StakingTypeOK
  /\ IsTable(madeBy, Accounts \ Founders, Accounts)
  /\ core_symbol \in Issued \cup {NoSymbol}
  /\ account_creation_fee \in [symbol: Issued \cup {NoSymbol}, amount: Nat]
  /\ account_creation_fee.amount > 0 => account_creation_fee.symbol \in Issued
  /\ userresSymbol \in [DOMAIN userres -> Issued]
  /\ delbandSymbol \in [DOMAIN delband -> Issued]
  /\ refundSymbol \in [DOMAIN refunds -> Issued]
  /\ held \in [Accounts \X Issued -> Nat]
  /\ \A a \in Accounts :
       balance[a] = SumFunctionOnSet([s \in Issued |-> held[<<a, s>>]], Issued)

(* eosio.system.cpp:102-104: an account that somebody but the system made  *)
(* has a name of full length without dots, or one under its creator's.  A  *)
(* short name is the system's to give, and with it everything under it.    *)
NamesAreGranted ==
  \A a \in DOMAIN madeBy :
    \/ madeBy[a] = System
    \/ FullLength(NameOf[a])
    \/ UnderNameOf(NameOf[a], NameOf[madeBy[a]])

(* Nothing is recorded for an account before it exists: it finds no stake, *)
(* no refund and no ballot of somebody else's under its name.              *)
NobodyBeforeItsTime ==
  \A a \in Accounts : ~Exists(a) =>
    /\ a \notin DOMAIN userres \cup DOMAIN refunds \cup DOMAIN voters \cup DOMAIN acntype
    /\ a \notin DOMAIN deferred
    /\ \A b \in Accounts : {<<a, b>>, <<b, a>>} \cap DOMAIN delband = {}
    /\ balance[a] = Endowment[a]

(* Whatever is delegated to an account is in the token its total is in,    *)
(* although init may have named another one since either row was made, and *)
(* rows come and go: a total is an amount of one token.  (The stake in     *)
(* voters is not: it counts the units of all.)                             *)
TotalsInOneToken ==
  \A f, t \in Accounts : <<f, t>> \in DOMAIN delband =>
    t \in DOMAIN userres /\ delbandSymbol[<<f, t>>] = userresSymbol[t]

(* What an account has staked and pending in one token.                    *)
DelegatedIn(a, t, s) ==
  IF <<a, t>> \in DOMAIN delband /\ delbandSymbol[<<a, t>>] = s
  THEN delband[<<a, t>>] ELSE 0

PendingIn(a, s) ==
  IF a \in DOMAIN refunds /\ refundSymbol[a] = s THEN refunds[a].cpu_amount ELSE 0

ClaimIn(a, s) ==
  SumFunctionOnSet([t \in Accounts |-> DelegatedIn(a, t, s)], Accounts) + PendingIn(a, s)

(* Tokens staked come back as tokens of the same kind, though init may have*)
(* named others in between: what an account has staked and pending in one  *)
(* token falls only when all that is pending in it is paid out in it, when *)
(* the delay is over.                                                      *)
ClaimsComeBackInKind ==
  [][\A a \in Accounts \ {StakeAccount}, s \in Issued :
       ClaimIn(a, s)' < ClaimIn(a, s) =>
         /\ a \in DOMAIN refunds /\ a \notin DOMAIN refunds' /\ refundSymbol[a] = s
         /\ seconds >= refunds[a].request_time + refund_delay_sec
         /\ ClaimIn(a, s)' = ClaimIn(a, s) - refunds[a].cpu_amount
         /\ held'[<<a, s>>] = held[<<a, s>>] + refunds[a].cpu_amount]_accountsVars

(* What the stake account lacks to give everybody back what is staked and  *)
(* pending in one token.                                                   *)
ShortOf(s) == SumFunctionOnSet([a \in Accounts |-> ClaimIn(a, s)], Accounts)
                - held[<<StakeAccount, s>>]

(* The tokens of one kind never pay for those of another: the stake account*)
(* comes to lack tokens of a kind only by a restake beyond the pending     *)
(* refund, in that kind, as long as it does not act itself.                *)
OnlyRestakingShortens ==
  [][\A s \in Issued : ShortOf(s)' > ShortOf(s) =>
       s = core_symbol /\ \E a \in Accounts : RestakesBeyondRefund(a)]_accountsVars

(* The fee and every row are in the core symbol.                           *)
SymbolsInStep ==
  /\ account_creation_fee.amount > 0 => account_creation_fee.symbol = core_symbol
  /\ \A a \in DOMAIN userresSymbol : userresSymbol[a] = core_symbol
  /\ \A k \in DOMAIN delbandSymbol : delbandSymbol[k] = core_symbol
  /\ \A a \in DOMAIN refundSymbol : refundSymbol[a] = core_symbol

(* Only init, naming another symbol than before, leaves a fee in another   *)
(* token, an account nobody can stake to, or a stake nobody can take back. *)
OnlyInitSplitsSymbols ==
  [][SymbolsInStep /\ ~SymbolsInStep' =>
       core_symbol' # core_symbol]_accountsVars

=============================================================================
