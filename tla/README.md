# EBOS contracts in TLA+

A TLA+ development of the contracts in `src/contracts`: the bios, the token, the
system contract, the multi-signature wallet and the record keeper. Each contract
is a state machine whose steps are the contract's actions; TLC checks small
instances, TLAPS proves the properties marked below for every value of the
constants.

## How the contracts map to state machines

The chain runs transactions one after the other. An action either passes all
its checks and its writes are committed, or one `check` fails and nothing has
happened. Inline actions commit or fail with the action that sent them, so one
action with its inline actions is **one step**: its checks are conjuncts of the
guard, its table writes the primed variables. Concurrency is the order in which
accounts' actions, blocks (`onblock`, the clock) and deferred transactions
arrive; everything in it is nondeterministic.

`require_auth(x)` says who submits an action: it is the meaning of a parameter.
A `multi_index` scope is a function from the primary keys that have a row
(`Tables.tla`). Memos, URLs, RAM payers and notifications are left out. Time is
the block's slot; blocks come at half seconds, so `slot \div 2` is the second.

## Inventory

| component | state | operations | talks to | modelled in |
|---|---|---|---|---|
| eosio.token | `stat`, `accounts` | create, issue, retire, transfer, open, close | itself (inline transfer) | `EosioToken`, abstract `TokenLedger` |
| eosio.system: producers and voting | `producers`, `voters`, `acntype`, `voteweight`, the election fields of `global` | regproducer, unregprod, rmvproducer, voteproducer, setvweight, setacntype, onblock | staking (stake changes), the chain (proposed schedule) | `Voting` |
| eosio.system: staking | `delband`, `userres`, `refunds` | delegatebw, dlgtcpu, undelegatebw, undlgtcpu, refund, setalimits | voting, the token, the chain (limits, deferred transactions) | `Staking`, abstract `Escrow` |
| eosio.system: accounts, core symbol | core symbol and fee in `global2`, first row of `userres` | newaccount, setacntfee, init | token (fee), staking (first row, symbols), the chain (names, limits) | `Accounts`, `Names` |
| eosio.system: parameters, upgrades | `global`, `upgrade`, the CPU guarantee in `global2`, `cwl`, `abihash` | setparams, setgrtdcpu, setpriv, setupgrade, awlset, setabi; setcode, buyram, buyrambytes, claimrewards | the chain | `Boot` |
| eosio.msig | `proposal`, `approvals2`, `approvals`, `invals` | propose, approve, unapprove, cancel, exec, invalidate | the chain (authorities, deferred transactions) | `Msig`, abstract `Consent` |
| transorderdebt | `transrecords`, `orders`, `debts` | three upserts, three erases | nobody | `TransOrderDebt`, abstract `RecordBook` |
| eosio.bios | `abihash` | setpriv, setalimits, setprods, setparams, setabi; setglimits, reqauth | the chain, the system contract that replaces it | `Boot` |

What is hard in this code, and what makes each part correct:

- **Voting** keeps the tallies by differences, credited and debited by four
  operations at different times; a ballot is re-applied long after it was cast.
  Correct when every tally is the stake behind the current ballots
  (`TallyCorrect`) and no stored ballot can make a later action abort.
- **Election** scans an index that negates the weight of active producers and
  stops early. Correct when nobody electable is passed over
  (`ElectionIsFair`), the schedule never shrinks, and every weight is that of the
  producer's current votes (`WeightIsOfVotes`). The `int64_t` a weight is
  computed in may wrap around; what that breaks is run wrapped_weight.
- **Staking** writes one stake into four places and lets restaking eat into a
  pending refund whose payment is a deferred transaction. Correct when the four
  places agree, the stake account can pay what it owes, and a refund comes once,
  after the delay and not before (`Escrow`), and comes at all (`RefundComes`).
- **Accounts** come into being at any time, while `init` may change the token
  the system works in. Correct when only the owner of a name gives out names
  under it, nothing waits under the name of an account to come, no total mixes
  two tokens (`TotalsInOneToken`), a stake comes back in the token it was made
  in (`ClaimsComeBackInKind`), and the tokens held for one kind of claims never
  pay another (`OnlyRestakingShortens`). `voters.staked` alone counts the units
  of all tokens alike (`delegate_bandwidth.cpp:223`).
- **Boot**: two contracts with one table, and singletons that every action
  writes back. Correct when no action saves what is out of date.
- **Token**: supply and balances agree through the inline transfer of an issue.
- **Wallet**: exactly the levels that stand behind a proposal count, whatever
  was approved, revoked and invalidated in whichever order and block.
- **Records**: one row per identifier, although the index allows more.

## Modules

| module | what it is |
|---|---|
| `Tables` | tables as functions; `Upsert` is emplace-or-modify, `Erase` is erase |
| `TokenLedger` | abstract: a balance for everybody, changed by minting, burning and moving |
| `EosioToken` | `eosio.token.cpp`, action by action; asset's symbol and range checks; an inline transfer is part of `issue` |
| `Voting` | `voting.cpp`, `onblock`, the governance actions on producers, `update_voting_power`; a stake change is any change (`ChangeStake`) |
| `Staking` | EXTENDS `Voting` and replaces `ChangeStake` by the contract's own operations; `changebw` block by block; the chain's deferred refund |
| `Escrow` | abstract: tokens locked, released and paid back after a delay |
| `Names` | account names, their suffix, and who may give which name |
| `Accounts` | EXTENDS `Staking` and `Names`: newaccount, setacntfee, init, and staking and voting among the accounts that exist |
| `Boot` | the account eosio under the bios, then under the system contract: what each records of what it tells the chain |
| `Consent` | abstract: a proposal and the levels that stand behind it now |
| `Msig` | `eosio.msig.cpp`: both table formats, times, expiry, changing authorities |
| `RecordBook` | abstract: the record written last under an identifier |
| `TransOrderDebt` | `transorderdebt.cpp`: primary keys and the non-unique secondary index |
| `SumLemmas` | facts about `SumFunctionOnSet`, and the maximum, over finite sets |
| `EosioTokenProofs`, `VotingProofs`, `StakingProofs`, `AccountsProofs`, `BootProofs`, `MsigProofs`, `RecordsProofs` | theorems about the module of that name (`RecordsProofs`: `TransOrderDebt`) |
| `MC...` | instances for TLC |

Correspondences worth knowing:

- `proposed` in `Voting` is the schedule the chain last accepted. The chain may
  answer a proposal with a negative number, so an election may also change only
  `last_update`.
- The vote weight is computed in `int64_t` (`ToInt64`), then held as a double;
  a double's rounding above 2^53 is not modelled. Signed overflow wraps: the
  contracts run as WebAssembly, whose i64 arithmetic is modulo 2^64. Nothing in
  the contracts keeps `stake * weight` below 2^63, so nothing in `Voting` does.
- `BootSchedule` is the schedule the bios left. `last_producer_schedule_size` is
  zero until the first election, so that one may be shorter; from then on the
  schedule never shrinks.
- A strictly sorted vector of names is a set. A name without a producer row
  aborts the action (modify of the end iterator), `VisitAccepted`.
- In `Staking` an amount is its bare units and `balance` stands for the token
  contract (its `transfer` is `TokenTransfer`, and `Paid` the inline one):
  `voters.staked` and the checks of `changebw` read nothing else. `Limited` are the
  accounts `newaccount` made, which start with an empty `userres` row; in
  `Accounts` they are made by a step of the model and `Limited` is empty.
- `Charge` reproduces `delegate_bandwidth.cpp:158-161` as written.
- `deferred` holds the slot a deferred transaction is due at. The chain runs it
  once, at some block from then on, or drops it; a failing one is not retried.
- In `Escrow` the four records of a stake are one locked amount, and a refund row
  with its transaction one pending amount. Like the code it lets an owner lock
  pending tokens again, and more than those, uncharged.
- In `Accounts`, `Founders` are accounts made under the bios, without a row in
  `userres`; `Exists` is the chain's `is_account`. The
  tables of rows that hold an asset have a twin with the symbol of every row
  (`userresSymbol`, `delbandSymbol`, `refundSymbol`): a row is made in the core
  symbol of the day and keeps it (`RowsTagged`), and adding to it or subtracting
  from it aborts unless the symbols agree (`SymbolsFit`). `held` is the balance
  per account and token; every payment moves it (`Moved`) as well as the bare
  `balance`, which is its sum over the tokens (`AccountsTypeOK`). After an
  `init` with another symbol stakes are accepted in that one, and those in the
  first can be neither added to nor taken back, though a refund already asked
  for is paid, until the first is named again (`eosio.system.hpp:246` says one
  "can unstake at any time"; `OnlyInitSplitsSymbols` says this is the only way).
  A token nobody issued cannot be staked or pay a fee.
- A name in `Names` is a sequence of characters; the bits of the 64-bit value
  the loop of newaccount shifts through are its positions from right to left.
- In `Boot`, `chainVars` is what the chain holds and `recordVars` what the
  contracts' tables do. The singletons are read and saved by every action of the
  system contract (`Loaded`, `Saved`); an action that touches none is `AnyOther`.
- In `Msig`, `authority` is what `check_transaction_authorization` compares
  with: for every transaction the sets of levels that suffice. It may change at
  any time. A list with a repeated level is accepted, as the chain reads it into
  a set. `Legacy` are proposals the earlier version of the contract left.
- Definitions named `X_Something` directly before `X` are mutants: `X` with a
  plausible mistake. Nothing uses them; each is known to break a property.

## Runs

| run | module, cfg | checks |
|---|---|---|
| token | `MCEosioToken` | `TokenTypeOK`, `Conservation`, `SupplyWithinMax`, `SymbolsAgree`, `TransfersFit`; implements `TokenLedger` (`LedgerImplemented`) |
| voting | `MCVoting` | `VotingTypeOK`, `TallyCorrect`, `BallotsAreTyped`, `StakedBallotsAreRegistered`, `ActiveHasKey`, `WeightIsOfVotes`; `ElectionIsFair`, `ScheduleNeverShrinks` |
| staking | `MCStaking` | `StakingTypeOK`, `VotingPowerIsStake`, `TotalsAreDelegations`, `DeferredIsNotEarly`; `OnlyRestakingUncovers`, `UnstakingRestartsDelay`, `ClaimsComeBack`; implements `Escrow` (`EscrowImplemented`); liveness `RefundComes` |
| accounts | `MCAccounts` | `AccountsTypeOK`, `NamesAreGranted`, `NobodyBeforeItsTime`, `TotalsInOneToken`, `LimitFollowsTotal`; `OnlyInitSplitsSymbols`, `ClaimsComeBackInKind`, `OnlyRestakingShortens` |
| boot | `MCBoot` | `BootTypeOK`, `RecordsMirrorChain` |
| wallet | `MCMsig` | `MsigTypeOK`, `OneRowOfApprovals`, `NobodyIsLost`; implements `Consent` (`ConsentImplemented`) |
| records | `MCTransOrderDebt` | `RecordsTypeOK`, `OneRowPerId`; implements three `RecordBook`s (`BooksImplemented`) |

Bounds, and why they are enough:

- *token*: one symbol code in two precisions, four names of which one is not an
  account, amounts from -1 to one above the greatest representable amount (3).
  Three accounts let an issue pass through an issuer to somebody else and on.
- *voting*: two accounts of either type and three producers for two places
  (`TopSize`), so that ties, a candidate left out and departures between
  elections occur; weights of the least and the greatest accepted value and one
  outside, stake up to `MaxStake` = 2 altogether, blocks 2 to 4. `UpdateInterval`
  is 0, which allows an election at every block and so every history a longer
  interval allows. `Int64Half` = 4 scales the 64 bits down with the stakes and
  weights (1 to 3): 1, 2 and 3 fit and 2 * 3 wraps to -2, so every history of
  wrapped and proper weights, and a producer that hides others by leaving with a
  negative one, is in the run.
- *staking*: two holders with one token each and the stake account, a delay of
  one second (two slots), four blocks; `MaxStake` = 3 bounds what the stake
  account owes, which the restaking flaw would otherwise make unbounded. It is
  enough for two stakes, a partial restake and one beyond the pending refund,
  and a refund asked for in the first or second second is due before the last
  block. No symmetry, since a liveness property is checked.
- *accounts*: the three system accounts and one founder with one token of each of
  two kinds; names of three characters, one of each kind the rule tells apart:
  short (`bb`), under a founder's (`b.a`), of full length (`bab`). Fees of 0, 1
  and 2 against a limit of 1. The founder stakes one unit at a time to itself and
  to `b.a` in either token, `MaxStake` = 2 lets a stake in each stand at once, and
  a delay of one second within two blocks lets refunds in either be due. A unit
  never exceeds a pending refund, so the escape of `OnlyRestakingShortens` (a
  restake beyond the refund) does not occur here: the run says that the stake
  account is never short of a token at all; run staking has the escape, and
  `OnlyRestakingEverShortens` proves the rest. Nobody votes in this run; that
  elections and ballots are as before among new accounts is proved.
- *boot*: two accounts, two ABIs, three sets of parameters of which one is
  refused, guarantees from the default to one above the limit. No bound in a
  guard.
- *wallet*: two levels, two transactions, one proposal name used again and
  again, one proposal in the old format to begin with, two sets of authorities,
  five slots: expiry lies between second 1 and 2.
- *records*: two identifiers, two primary keys, so keys run out and are reused;
  two symbols, amounts below, in and above the range. Zero, which a fee may be
  and a quantity may not, would multiply the states by eight; `RecordsTypeCorrect`
  is proved for all amounts.

Every run bounds the model, never the code: `MaxStake`, `MaxSlot` are the only
bounds in guards; `MaxKey` and `MaxAmount` are limits of the code itself.
`CHECK_DEADLOCK FALSE` is set because bounded instances end at their last block,
and a contract nobody calls is a legitimate state. Symmetry is used over
accounts that no constant distinguishes, with safety properties only.

Runs that are expected to fail state what a document, comment or assertion of
the repository says and the code does not do:

| run | property | finding |
|---|---|---|
| insolvent | `Solvent` | restaking beyond the pending refund is not charged (`delegate_bandwidth.cpp:159`) |
| lost_refund | `PendingRefundStaysScheduled` | unrelated staking cancels the deferred refund (`delegate_bandwidth.cpp:192`) |
| locked_ballot | `BallotCanBeWithdrawn` | a producer that left blocks its voters (`voting.cpp:127`) |
| locked_stake | `VotersCanStake` | a ballot with no stake is not checked (`voting.cpp:144`), and one that names nobody makes staking abort (`delegate_bandwidth.cpp:233`) |
| wrapped_weight | `UnstakingLosesPower` | the product of stake and weight wraps around (`voting.cpp:138`): unstaking makes a producer rise |

## Fairness

`FairStakingSpec` is the only specification with fairness, for `RefundComes`:

- blocks keep coming (weak fairness of `onblock`): they do not depend on anybody
  calling a contract;
- an owner keeps asking for a refund (weak fairness of `RefundByOwner`): the code
  promises a refund to nobody else once the deferred transaction is lost, which
  run lost_refund shows can happen.

Nothing is assumed of the deferred transaction, of other accounts or of the
owner's other actions. `RefundComes` says that a request made in some second,
whose delay ends within the blocks considered, does not stay as it is: it is
paid, staked again, or renewed by unstaking more. Its one escape is a stake
account left short (`Uncovered > 0`) by the flaw run insolvent shows. Weak
fairness is enough, because nothing but the owner's own actions disables a
refund that is due and covered.

## Proofs

Every theorem holds for any finite set of accounts, names, candidates and
identifiers and any amounts that satisfy the modules' named assumptions. Some
assume more, and say so:

- `OnlyRestakingEverUncovers`, `OnlyRestakingEverShortens`, `SolventIfRestakesPaid`,
  `SolventAmongNew` and `SolventInEveryKind` need
  that nobody acts as eosio.stake (`StakeAccount \notin Signers`, and not in
  `Creators` either), which may otherwise stake to itself, transfer what it
  holds or pay fees with it.
- The theorems under *When the broken promises hold* below.

### How the theorems build on each other

`Accounts` is proved to implement `Voting` and `Escrow`, and so is `Staking`:

    AccountsSpec  => VotingSpec      AccountsImplementVoting
    AccountsSpec  => EscrowKept      AccountsImplementEscrow  (fees are Moves)
    AccountsSpec  => ledger moves    TokensAreOnlyTransferred
    StakingSpec   => VotingSpec      StakingImplementsVoting
    StakingSpec   => Promise!EscrowSpec   StakingImplementsEscrow
    TokenSpec     => ledger          TokenImplementsLedger

`Voting` allows any stake change within its bound; what staking does is one of
those, since the voting power is the stake and every restake is bounded. So
what is proved of `Voting` (`ElectionAlwaysFair`, `ScheduleKeepsSize`,
`WeightsAreOfVotes`, the theorems about ballots) holds under the contract's own
staking and among new accounts by one temporal step (`FairUnderStaking`,
`FairAmongNewAccounts`, `BallotsAmongNewAccounts`). The properties that Voting's
variables cannot express are proved again for `Accounts`, where the only new step
that reaches the stakes is the payment of a fee (`NewAccountPays`).
`TokensAreOnlyTransferred` joins the other side: every change of what is `held`,
in whatever token, is a `Move` of `TokenLedger`, of no more than there is, and
the sum in every token stays (`HoldingsConserved`), so `held` stands for what
`EosioToken` implements.

`ClaimsAlwaysComeBack` is what holders rely on, from one operation's point of
view: whatever anybody does, what an account has staked or pending together
falls only when its whole pending amount is paid to it and the delay is over.
No invariant beyond the types is needed, but every branch of changebw is.

`NamingRuleIsExact`: the rule newaccount computes (the suffix after the last dot
of the name) and the rule its comment states are the same, for every name and
creator and for names of any length. The proof finds the last dot as the maximum
of a set of positions and compares the two texts from the end.

### When the broken promises hold

Five runs show promises the code does not keep. For each there is a theorem
that names a condition under which it is kept, so that every way to break the
promise goes through the run's scenario. The last row is a promise of the wallet
without a run of its own (a level listed twice has two approvals to take back,
and unapprove takes one, `eosio.msig.cpp:106`):

| promise | holds when | theorem |
|---|---|---|
| `Solvent` | nobody stakes to itself more than it has pending (`RestakesArePaid`) | `SolventIfRestakesPaid`, `SolventAmongNew` |
| `PendingRefundStaysScheduled` | no stake leaves a refund pending as it was (`NobodyStakesAside`); a refund without a transaction is then one that is due (`ScheduledOrDue`) | `ScheduledUnlessStakedAside`, `ScheduledAmongNew` |
| `VotersCanStake` | a ballot is cast only for registered producers (`BallotsChecked`): the check `voting.cpp:144` skips when there is no stake | `VotersCanStakeIfChecked` |
| `BallotCanBeWithdrawn` | besides, a producer leaves only while no ballot names it (`LeaversUnnamed`) | `BallotsCanBeWithdrawnIfUnnamed` |
| `UnstakingLosesPower` | all stake at the highest weight stays below the limit of int64 (`StakeFits`); with a weight of 1000, below 2^63 / 1000 | `UnstakingLosesIfStakeFits` |
| `RevokedIsGone` | no request lists a level twice (`RequestsAreSets`) | `RevokedIfAskedOnce` |

The conditions but `StakeFits` are about the actions users submit, not about the
state, and leave room for all of them: behaviours that satisfy them stake, unstake, restake,
vote, leave and revoke.

### The inductive invariants

The inductive invariants and why they are needed:

- **SumLemmas.** Conservation laws are equations between sums over a finite
  set. `SumFunctionOnSet` is a recursive function chosen by CHOOSE; that it
  satisfies its recursion, and what a sum does when one term changes
  (`SumUpdate`), is proved by a minimal counterexample in the well-founded
  strict-subset ordering.
- **EosioTokenProofs.** `TokenInv` joins typing, non-negative balances, symbols in
  agreement, conservation and the maximum: `retire` never looks at the supply,
  so that the supply stays non-negative follows only from conservation, and that
  an addition stays in range only from conservation with the maximum.
  `TokenImplementsLedger` maps every step to a ledger step or a stutter; an
  issue to somebody else is one mint although it writes the issuer's row twice.
- **VotingProofs.** `VotingInv` = `VotingTypeOK`, `TallyCorrect`,
  `BallotsAreTyped`, `StakedBallotsAreRegistered`, `ActiveHasKey`. The tallies
  alone are not inductive: a voter without a type would change its stake under
  an unchanged tally, and a ballot naming a missing row would lose a vote.
  `WeightsInv` adds `WeightIsOfVotes` and the range of the weights in force.
  `ElectionAlwaysFair` needs no bound on stakes or weights: an inactive producer
  sorts by its weight instead of minus its weight, so it stops the scan in front
  of an electable one only if it left with a negative weight, which is what
  `HiddenByWrap` says. `UnstakingLosesIfStakeFits` counts the votes of a producer
  as part of the sum of all stakes (`SumPairBound`), which keeps the product
  where `ToInt64` changes nothing and so follows the votes down.
  `SizeInv` says that the recorded size is that of the schedule in force. The two
  theorems about ballots carry `BallotsNameRows` and `BallotsNameActive`, for
  which rows of producers never disappear.
- **StakingProofs.** `StakingInv` = `VotingInv` under the contract's own staking,
  with the equalities between `voters`, `delband`, `userres` and the CPU weights;
  each operation changes one term on either side. `DeferredInv` adds that no
  request is from the future, without which rescheduling by a partial restake
  could be early. `StakingImplementsEscrow` takes the branches of changebw one by
  one to Lock, Relock, Release or Grant; `OnlyRestakingEverUncovers` counts what
  each of those does to the sum of stakes and refunds. `TokensConserved` is
  inductive with the types: every step that changes a balance is a payment
  between two accounts (`BalanceSteps`, `SumMove`). For `ScheduledUnlessStakedAside`
  the invariant is `ScheduledOrDue`: a deferred transaction leaves at its due
  time, and only the delay being over lets a refund without one remain.
- **AccountsProofs.** `AccountsInv` = `StakingInv`, the tables' types,
  `TotalsInOneToken`, `NobodyBeforeItsTime`, `NamesAreGranted`. That a new row
  of zero keeps the equalities of staking needs that nothing is recorded under
  the name, and that needs that each staking operation asks for both accounts.
  `TotalsInOneToken` is inductive only with the equalities: a total erased at
  zero may come back in another token because no delegation is left under it.
  `BooksOK` says that the bare `balance` is the sum of `held`. For
  `ClaimsAlwaysInKind` every step is one of three (`ClaimCases`): it leaves the
  claims alone, changes one in the core symbol (`ChangeClaims`), or pays a
  refund in the symbol of its row (`RefundClaims`). `OnlyRestakingEverShortens`
  sums those over the accounts, token by token.
- **BootProofs.** `BootInv` = the two invariants of the run.
- **RecordsProofs.** `RecordsInv`: sound rows, one per identifier, under keys up to
  the last one. A key handed out is free because it is above the largest
  (`MaxIsLargest`), although keys are reused. Then each table is a book.
- **MsigProofs.** `MsigInv` = `MsigTypeOK`, `OneRowOfApprovals` and that no approval
  is from the future, so that an invalidation voids all there are: without it
  `exec` would count levels `Consent` no longer does. `NobodyIsEverLost` counts
  the places of a level in the two lists, across RemoveAt and Append
  (`PlacesKept`); `RevokedIfAskedOnce` needs that a level asked for once has one
  place (`AskedOnce`), so that one still asked for has not approved.

Only model-checked: `RefundComes`. Liveness under fairness, and ENABLED, stay
with TLC. What a proof can say of it is proved: a pending refund falls only by
being paid in full (`ClaimsAlwaysComeBack`), a stake account that holds what it
owes covers every single refund (`RefundsAlwaysCovered`), and under which
condition it does (`SolventIfRestakesPaid`). What remains for fairness is that a
block comes and that the owner asks.

## Not modelled

- Overflow of `voters.staked` and of the tallies themselves: each is an `int64_t`
  sum of amounts below 2^62 that only uncharged restakes, or stakes in several
  core tokens of huge supply, could drive there. Their
  product with the weights, a thousand times sooner, is modelled.
- The white list: awlset keeps it (`Boot`), and nothing reads it. The check in
  setcode is commented out (`eosio.system.cpp:158-161`), although
  `eosio.system/README.md:22` says "only account added can deploy smart
  contract".
- Actions with nothing to model: the empty handlers of both contracts
  (updateauth, deleteauth, linkauth, unlinkauth, canceldelay, onerror, setcode
  and the bios's newaccount), setglimits and reqauth, which only check an
  authority, buyram and buyrambytes, which accept only zero, and claimrewards,
  which always fails.
- Fields nothing reads or writes: the counters of `global` that earlier versions
  of the contract used, `global3`, `normal_votes`, `unpaid_blocks`.
- RAM, memos, URLs, locations and notifications; permissions and signatures
  beyond who submits an action; the rounding of doubles above 2^53.
- The build files.
