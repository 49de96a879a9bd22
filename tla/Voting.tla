------------------------------- MODULE Voting -------------------------------
(***************************************************************************)
(* Producer registration, voting and election in the system contract:      *)
(* voting.cpp, onblock of producer_pay.cpp, the governance actions on      *)
(* producers, weights and account types of eosio.system.cpp, and           *)
(* update_voting_power of delegate_bandwidth.cpp.                          *)
(*                                                                         *)
(* A step is one action of a transaction: the contract's checks either all *)
(* pass and its writes are committed, or one fails and nothing happens.    *)
(* require_auth(x) says who submits the action, so it is the meaning of a  *)
(* parameter and not a guard.                                              *)
(***************************************************************************)
EXTENDS Integers, FiniteSets, Functions, Tables

CONSTANTS
  Accounts,        \* accounts that may hold stake
  Candidates,      \* names producers register under, as name.value
  Keys,            \* block signing keys a producer may register
  NoKey,           \* the default-constructed public_key
  TypeInputs,      \* accounts setacntype may be called with
  WeightInputs,    \* weights setvweight may be called with
  MinWeight,       \* 100: lower end of the accepted weights, and the default
  MaxWeight,       \* 1000: upper end of the accepted weights
  TopSize,         \* 21: longest schedule proposed
  MaxVotes,        \* 30: longest ballot accepted
  UpdateInterval,  \* 120: slots between two elections
  BootSchedule,    \* schedule the bios contract left: producer -> key
  FirstSlot,       \* slot of the block the contract was deployed in
  Int64Half,       \* 2^63: the vote weight is computed in an int64_t
  MaxStake,        \* bound: tokens staked altogether
  MaxSlot          \* bound: last block considered

AccountTypes == {"company", "government"}

ASSUME VotingAssumption ==
  /\ IsFiniteSet(Accounts)
  /\ IsFiniteSet(Candidates) /\ Candidates \subseteq Nat
  /\ NoKey \notin Keys
  /\ MinWeight \in Nat /\ MaxWeight \in Nat /\ MinWeight <= MaxWeight
  /\ TypeInputs \subseteq Accounts /\ WeightInputs \subseteq Nat
  /\ TopSize \in Nat \ {0} /\ MaxVotes \in Nat
  /\ UpdateInterval \in Nat /\ FirstSlot \in Nat
  /\ IsTable(BootSchedule, Candidates, Keys)
  /\ Int64Half \in Nat \ {0}
  /\ MaxStake \in Nat /\ MaxSlot \in Nat

VARIABLES
  voters,     \* table: account -> its ballot and the stake it votes with
  producers,  \* table: candidate -> tallies, weight, key, active flag
  acntype,    \* table: account -> "company" or "government"
  vwstate,    \* singleton: weight of a company and of a government vote
  gstate,     \* singleton: slot and size of the last election
  slot,       \* slot of the latest block
  proposed    \* schedule last accepted by the chain: producer -> key

votingVars == <<voters, producers, acntype, vwstate, gstate, slot, proposed>>

Voter == [producers: SUBSET Candidates, staked: Nat]
Producer == [company_votes: Int, government_votes: Int, total_vote_weight: Int,
             producer_key: Keys \cup {NoKey}, is_active: BOOLEAN]

VotingInit ==
  /\ voters = EmptyTable
  /\ producers = EmptyTable
  /\ acntype = EmptyTable
  /\ vwstate = [company |-> MinWeight, government |-> MinWeight]
  /\ gstate = [last_update |-> 0, last_size |-> 0]
  /\ slot = FirstSlot
  /\ proposed = BootSchedule

-----------------------------------------------------------------------------
(* Registration: regproducer, unregprod, rmvproducer.                      *)

regproducer(p, key) ==
  /\ key # NoKey
  /\ producers' = Upsert(producers, p,
       IF p \in DOMAIN producers
       THEN [producers[p] EXCEPT !.producer_key = key, !.is_active = TRUE]
       ELSE [company_votes |-> 0, government_votes |-> 0, total_vote_weight |-> 0,
             producer_key |-> key, is_active |-> TRUE])
  /\ UNCHANGED <<voters, acntype, vwstate, gstate, slot, proposed>>

(* Mutants of deactivate: the row is erased; the key is kept.              *)
deactivate_Erasing(p) ==
  /\ p \in DOMAIN producers
  /\ producers' = Erase(producers, p)
  /\ UNCHANGED <<voters, acntype, vwstate, gstate, slot, proposed>>

deactivate_KeepingKey(p) ==
  /\ p \in DOMAIN producers
  /\ producers' = [producers EXCEPT ![p].is_active = FALSE]
  /\ UNCHANGED <<voters, acntype, vwstate, gstate, slot, proposed>>

deactivate(p) ==
  /\ p \in DOMAIN producers
  /\ producers' = [producers EXCEPT ![p].producer_key = NoKey, ![p].is_active = FALSE]
  /\ UNCHANGED <<voters, acntype, vwstate, gstate, slot, proposed>>

unregprod(p) == deactivate(p)    \* submitted by the producer
rmvproducer(p) == deactivate(p)  \* submitted by the system account

-----------------------------------------------------------------------------
(* Governance: setvweight, setacntype.  A type is never changed or removed.*)

setvweight(company_weight, government_weight) ==
  /\ company_weight \in MinWeight..MaxWeight
  /\ government_weight \in MinWeight..MaxWeight
  /\ vwstate' = [company |-> company_weight, government |-> government_weight]
  /\ UNCHANGED <<voters, producers, acntype, gstate, slot, proposed>>

setacntype(acnt, type) ==
  /\ acnt \notin DOMAIN acntype
  /\ type \in AccountTypes
  /\ acntype' = Upsert(acntype, acnt, type)
  /\ UNCHANGED <<voters, producers, vwstate, gstate, slot, proposed>>

-----------------------------------------------------------------------------
(* Tallies: update_producers_votes and its two callers.                    *)

(* Nothing bounds a product of stake and weight: in an int64_t it wraps.   *)
ToInt64(n) == ((n + Int64Half) % (2 * Int64Half)) - Int64Half

(* Mutant of Credited: weighed before the votes are counted.               *)
Credited_Before(prod, type, votes) ==
  [prod EXCEPT !.company_votes = @ + (IF type = "company" THEN votes ELSE 0),
               !.government_votes = @ + (IF type = "company" THEN 0 ELSE votes),
               !.total_vote_weight = ToInt64(prod.government_votes * vwstate.government
                                             + prod.company_votes * vwstate.company)]

Credited(prod, type, votes) ==
  LET company == prod.company_votes + (IF type = "company" THEN votes ELSE 0)
      government == prod.government_votes + (IF type = "company" THEN 0 ELSE votes)
  IN  [prod EXCEPT !.company_votes = company,
                   !.government_votes = government,
                   !.total_vote_weight = ToInt64(government * vwstate.government
                                                 + company * vwstate.company)]

(* Mutant of Visited: the producers of the old ballot are left as they are.*)
Visited_NewOnly(old_producers, old_staked, new_producers, new_staked) ==
  IF new_staked # 0 THEN new_producers ELSE {}

(* The producers either loop visits: a loop over a ballot with no stake    *)
(* behind it is skipped.                                                   *)
Visited(old_producers, old_staked, new_producers, new_staked) ==
    (IF old_staked # 0 THEN old_producers ELSE {})
      \cup (IF new_staked # 0 THEN new_producers ELSE {})

(* A name without a row aborts the action: modify refuses the end iterator,*)
(* whatever the read of is_active through it returned.                     *)
VisitAccepted(voting, visited) ==
  /\ visited \subseteq DOMAIN producers
  /\ voting => \A p \in visited : producers[p].is_active

update_producers_votes(type, voting, old_producers, old_staked, new_producers, new_staked) ==
  LET visited == Visited(old_producers, old_staked, new_producers, new_staked)
      votes(p) == (IF p \in new_producers THEN new_staked ELSE 0)
                    - (IF p \in old_producers THEN old_staked ELSE 0)
  IN  /\ VisitAccepted(voting, visited)
      /\ producers' = [p \in DOMAIN producers |->
                         IF p \in visited
                         THEN Credited(producers[p], type, votes(p))
                         ELSE producers[p]]

(* Mutant of voteproducer: an account without a type votes all the same.   *)
voteproducer_Untyped(voter, ballot) ==
  /\ Cardinality(ballot) <= MaxVotes
  /\ voter \in DOMAIN voters
  /\ LET staked == voters[voter].staked
         type == IF voter \in DOMAIN acntype THEN acntype[voter] ELSE "government"
     IN  update_producers_votes(type, TRUE,
                                voters[voter].producers, staked, ballot, staked)
  /\ voters' = [voters EXCEPT ![voter].producers = ballot]
  /\ UNCHANGED <<acntype, vwstate, gstate, slot, proposed>>

(* A strictly sorted vector of names is a set of names.                    *)
voteproducer(voter, ballot) ==
  /\ Cardinality(ballot) <= MaxVotes
  /\ voter \in DOMAIN voters
  /\ voter \in DOMAIN acntype
  /\ LET staked == voters[voter].staked
     IN  update_producers_votes(acntype[voter], TRUE,
                                voters[voter].producers, staked, ballot, staked)
  /\ voters' = [voters EXCEPT ![voter].producers = ballot]
  /\ UNCHANGED <<acntype, vwstate, gstate, slot, proposed>>

VoterRow(voter) == IF voter \in DOMAIN voters
                   THEN voters[voter]
                   ELSE [producers |-> {}, staked |-> 0]

(* Mutant of update_voting_power: more can be taken away than there is.    *)
update_voting_power_Unchecked(voter, total_update) ==
  /\ voters' = Upsert(voters, voter,
                      [VoterRow(voter) EXCEPT !.staked = @ + total_update])
  /\ UNCHANGED producers

update_voting_power(voter, total_update) ==
  LET row == VoterRow(voter)
      new_staked == row.staked + total_update
  IN  /\ new_staked >= 0
      /\ voters' = Upsert(voters, voter, [row EXCEPT !.staked = new_staked])
      /\ IF row.producers # {} /\ voter \in DOMAIN acntype
         THEN update_producers_votes(acntype[voter], FALSE, row.producers,
                                     row.staked, row.producers, new_staked)
         ELSE UNCHANGED producers

-----------------------------------------------------------------------------
(* Election: onblock and update_elected_producers.                         *)

(* Mutant of by_votes: an inactive producer ranks by its votes as well.    *)
by_votes_Inactive(p) == 0 - producers[p].total_vote_weight

by_votes(p) == IF producers[p].is_active
               THEN 0 - producers[p].total_vote_weight
               ELSE producers[p].total_vote_weight

(* The order of the index "prototalvote": by_votes, then the primary key.  *)
Before(p, q) == \/ by_votes(p) < by_votes(q)
                \/ by_votes(p) = by_votes(q) /\ p < q

Scannable(p) == producers[p].total_vote_weight > 0 /\ producers[p].is_active

(* What the loop over the index collects: it stops at the first row that   *)
(* is not scannable, or when it has TopSize producers.                     *)
TopProducers ==
  {p \in DOMAIN producers :
     LET ahead == {q \in DOMAIN producers : Before(q, p)}
     IN  /\ \A q \in ahead \cup {p} : Scannable(q)
         /\ Cardinality(ahead) < TopSize}

(* Mutant of Proposable: any schedule with somebody in it.                 *)
Proposable_Shorter(top) == top # {}

Proposable(top) == top # {} /\ Cardinality(top) >= gstate.last_size

(* The chain answers a negative version when another schedule is pending   *)
(* or nothing would change: either answer is possible.                     *)
update_elected_producers(block_time) ==
  LET top == TopProducers
  IN  \/ /\ gstate' = [gstate EXCEPT !.last_update = block_time]
         /\ UNCHANGED proposed
      \/ /\ Proposable(top)
         /\ proposed' = [p \in top |-> producers[p].producer_key]
         /\ gstate' = [last_update |-> block_time, last_size |-> Cardinality(top)]

onblock(timestamp) ==
  /\ slot < timestamp /\ timestamp <= MaxSlot
  /\ slot' = timestamp
  /\ IF timestamp - gstate.last_update > UpdateInterval
     THEN update_elected_producers(timestamp)
     ELSE UNCHANGED <<gstate, proposed>>
  /\ UNCHANGED <<voters, producers, acntype, vwstate>>

-----------------------------------------------------------------------------
StakedBy(v) == VoterRow(v).staked
Staked == [v \in Accounts |-> StakedBy(v)]

(* changebw as this module sees it: any change of an account's stake, as   *)
(* long as the tokens for it exist.                                        *)
ChangeStake(voter, total_update) ==
  /\ total_update # 0
  /\ SumFunctionOnSet(Staked, Accounts) + total_update <= MaxStake
  /\ update_voting_power(voter, total_update)
  /\ UNCHANGED <<acntype, vwstate, gstate, slot, proposed>>

(* Every action here but the change of stake, which Staking replaces by    *)
(* the contract's own.                                                     *)
VotingActions ==
  \/ \E p \in Candidates : \/ \E key \in Keys \cup {NoKey} : regproducer(p, key)
                           \/ unregprod(p)
                           \/ rmvproducer(p)
  \/ \E c, g \in WeightInputs : setvweight(c, g)
  \/ \E a \in TypeInputs, t \in AccountTypes : setacntype(a, t)
  \/ \E v \in Accounts, ballot \in SUBSET Candidates : voteproducer(v, ballot)
  \/ \E t \in FirstSlot..MaxSlot : onblock(t)

VotingNext ==
  \/ VotingActions
  \/ \E v \in Accounts, d \in (0 - MaxStake)..MaxStake : ChangeStake(v, d)

VotingSpec == VotingInit /\ [][VotingNext]_votingVars

-----------------------------------------------------------------------------
(* Every table holds rows of its declared shape.                           *)
VotingTypeOK ==
  /\ IsTable(voters, Accounts, Voter)
  /\ IsTable(producers, Candidates, Producer)
  /\ IsTable(acntype, Accounts, AccountTypes)
  /\ vwstate \in [company: Nat, government: Nat]
  /\ gstate \in [last_update: Nat, last_size: Nat]
  /\ slot \in Nat
  /\ IsTable(proposed, Candidates, Keys \cup {NoKey})

(* The stake account v puts behind candidate p as a voter of one type, and *)
(* what all voters of that type put behind it.                             *)
Backing(type, p, v) ==
  IF /\ v \in DOMAIN voters /\ p \in voters[v].producers
     /\ v \in DOMAIN acntype /\ acntype[v] = type
  THEN voters[v].staked
  ELSE 0

Support(type, p) ==
  SumFunctionOnSet([v \in Accounts |-> Backing(type, p, v)], Accounts)

(* The incrementally maintained tallies of update_producers_votes are the  *)
(* stakes of the accounts whose current ballot names the producer, counted *)
(* once, through every order of voting, re-voting, staking, unstaking,     *)
(* (un)registering and typing of accounts.                                 *)
TallyCorrect ==
  \A p \in DOMAIN producers :
    /\ producers[p].company_votes = Support("company", p)
    /\ producers[p].government_votes = Support("government", p)

(* update_voting_power skips the tallies of an account without a type;     *)
(* that loses nothing because such an account has no ballot.               *)
BallotsAreTyped ==
  \A v \in DOMAIN voters : voters[v].producers # {} => v \in DOMAIN acntype

(* A ballot with stake behind it names only producers that have a row, so  *)
(* a later stake change of that account cannot abort on a missing producer.*)
StakedBallotsAreRegistered ==
  \A v \in DOMAIN voters :
    voters[v].staked > 0 => voters[v].producers \subseteq DOMAIN producers

(* A deactivated producer keeps no key: a schedule built from active rows  *)
(* never carries the default key, which the chain would reject.            *)
ActiveHasKey ==
  \A p \in DOMAIN producers :
    producers[p].is_active <=> producers[p].producer_key # NoKey

(* The weight a producer is ranked by is that of the votes it has now, and *)
(* of no others, under some pair of accepted weights: those in force when  *)
(* its votes last changed.  Leaving, coming back and later changes of the  *)
(* weights keep the two together, also where the product wraps.            *)
WeightIsOfVotes ==
  \A p \in DOMAIN producers : \E c, g \in MinWeight..MaxWeight :
    producers[p].total_vote_weight
      = ToInt64(producers[p].government_votes * g + producers[p].company_votes * c)

Electable(p) == /\ producers[p].is_active
                /\ producers[p].total_vote_weight > 0

(* A producer that left with a weight wrapped below zero sorts among those *)
(* that stay, and stops the scan in front of the lighter ones.             *)
HiddenByWrap(q) ==
  \E p \in DOMAIN producers :
    /\ ~producers[p].is_active
    /\ producers[p].total_vote_weight <= 0 - producers[q].total_vote_weight

(* Whenever a schedule is proposed, everyone in it is electable, has a real*)
(* key, and is outweighed by no electable producer left out; the early stop*)
(* of the index scan leaves one out only when the schedule is full or when *)
(* a wrapped weight hides it.                                              *)
ElectionIsFair ==
  [][proposed' # proposed =>
       LET in == DOMAIN proposed'
           out == {p \in DOMAIN producers : Electable(p)} \ in
       IN  /\ \A p \in in : Electable(p) /\ proposed'[p] # NoKey
           /\ \A p \in in, q \in out :
                producers[q].total_vote_weight <= producers[p].total_vote_weight
           /\ Cardinality(in) <= TopSize
           /\ \A q \in out : Cardinality(in) = TopSize \/ HiddenByWrap(q)]_votingVars

(* From the first election on the schedule never shrinks: losing producers *)
(* or votes leaves the last one in force rather than handing the chain to  *)
(* fewer producers.  (The first election may well propose fewer than the   *)
(* bios had: the contract starts from a size of zero.)                     *)
ScheduleNeverShrinks ==
  [][gstate.last_size > 0 /\ proposed' # proposed =>
       Cardinality(DOMAIN proposed') >= Cardinality(DOMAIN proposed)]_votingVars

-----------------------------------------------------------------------------
(* What the repository's own words promise and the code does not keep.     *)

(* README.md:36-37: a voter can vote for a list of at most 30 producers.   *)
(* An account that may vote can at least take its ballot back; the code    *)
(* refuses while a producer on the OLD ballot is not registered.           *)
BallotCanBeWithdrawn ==
  \A v \in DOMAIN voters \cap DOMAIN acntype :
    VisitAccepted(TRUE, Visited(voters[v].producers, voters[v].staked, {}, 0))

(* voting.cpp:127 and :146 insist "producer is not currently registered",  *)
(* so that a ballot names producers with a row and staking, which README.md*)
(* line 5 offers to everybody, cannot abort on it.  With no stake behind   *)
(* the ballot the loops are skipped, and the check with them; the account  *)
(* cannot stake until it votes otherwise.                                  *)
VotersCanStake ==
  \A v \in DOMAIN voters \cap DOMAIN acntype :
    VisitAccepted(FALSE, Visited({}, 0, voters[v].producers, 1))

(* The weight p would be given now for the votes it has.                   *)
CurrentWeight(p) == ToInt64(producers[p].government_votes * vwstate.government
                            + producers[p].company_votes * vwstate.company)

(* eosio.system.hpp:268-269: by unstaking, an account "loses voting power  *)
(* ... and all producer tallies are updated".  So no producer whose weight *)
(* is up to date gains weight by it, least of all those the account voted  *)
(* for; where the product wrapped, the lesser stake weighs more.           *)
UnstakingLosesPower ==
  [][(\E v \in Accounts : StakedBy(v)' < StakedBy(v)) =>
       \A p \in DOMAIN producers :
         producers[p].total_vote_weight = CurrentWeight(p) =>
           producers'[p].total_vote_weight <= producers[p].total_vote_weight]_votingVars

=============================================================================
