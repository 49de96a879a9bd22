---------------------------- MODULE VotingProofs ----------------------------
(***************************************************************************)
(* Proofs about Voting.  The tallies kept in the producers table are right *)
(* because three facts hold together: a ballot is cast by a typed account  *)
(* only, a ballot with stake behind it names producers that have a row,    *)
(* and every row's tallies are the stakes behind it.  The second is what   *)
(* lets regproducer open a row with zero votes.                            *)
(***************************************************************************)
EXTENDS Voting, SumLemmas

USE VotingAssumption DEF AccountTypes

-----------------------------------------------------------------------------
(* A table keeps its type when a row of that type is put into it.          *)

LEMMA UpsertTable ==
  ASSUME NEW t, NEW Key, NEW Row, IsTable(t, Key, Row), NEW k \in Key, NEW row \in Row
  PROVE  IsTable(Upsert(t, k, row), Key, Row)
BY DEF IsTable, Upsert

-----------------------------------------------------------------------------
(* Type correctness.                                                       *)

LEMMA ToInt64Type == \A n \in Int : ToInt64(n) \in Int
BY DEF ToInt64

LEMMA CreditedType ==
  ASSUME NEW prod \in Producer, NEW type, NEW votes \in Int,
         vwstate \in [company: Nat, government: Nat]
  PROVE  Credited(prod, type, votes) \in Producer
<1>. DEFINE company == prod.company_votes + (IF type = "company" THEN votes ELSE 0)
            government == prod.government_votes + (IF type = "company" THEN 0 ELSE votes)
            weight == government * vwstate.government + company * vwstate.company
<1>1. company \in Int /\ government \in Int
  BY DEF Producer
<1>2. weight \in Int
  BY <1>1
<1>3. ToInt64(weight) \in Int
  BY <1>2, ToInt64Type
<1>4. Credited(prod, type, votes)
        = [prod EXCEPT !.company_votes = company, !.government_votes = government,
                       !.total_vote_weight = ToInt64(weight)]
  BY DEF Credited
<1>. HIDE DEF company, government, weight
<1>. QED  BY <1>1, <1>3, <1>4 DEF Producer

LEMMA UpdateVotesType ==
  ASSUME IsTable(producers, Candidates, Producer),
         vwstate \in [company: Nat, government: Nat],
         NEW type, NEW voting, NEW old, NEW new, NEW os \in Int, NEW ns \in Int,
         update_producers_votes(type, voting, old, os, new, ns)
  PROVE  IsTable(producers', Candidates, Producer)
<1>. DEFINE votes(p) == (IF p \in new THEN ns ELSE 0) - (IF p \in old THEN os ELSE 0)
<1>1. producers' = [p \in DOMAIN producers |->
                      IF p \in Visited(old, os, new, ns)
                      THEN Credited(producers[p], type, votes(p))
                      ELSE producers[p]]
  BY DEF update_producers_votes
<1>2. \A p \in DOMAIN producers : producers[p] \in Producer /\ votes(p) \in Int
  BY DEF IsTable
<1>3. \A p \in DOMAIN producers : Credited(producers[p], type, votes(p)) \in Producer
  BY <1>2, CreditedType
<1>. HIDE DEF votes
<1>. QED  BY <1>1, <1>2, <1>3 DEF IsTable

LEMMA VoterRowType ==
  ASSUME IsTable(voters, Accounts, Voter), NEW v
  PROVE  VoterRow(v) \in Voter
BY DEF VoterRow, IsTable, Voter

LEMMA UpdateVotingPowerType ==
  ASSUME VotingTypeOK, NEW v \in Accounts, NEW d \in Int, update_voting_power(v, d)
  PROVE  IsTable(voters', Accounts, Voter) /\ IsTable(producers', Candidates, Producer)
<1>. DEFINE row == VoterRow(v)
            ns == row.staked + d
<1>1. row \in Voter
  BY VoterRowType DEF VotingTypeOK
<1>2. ns \in Nat /\ row.staked \in Nat
  BY <1>1 DEF update_voting_power, Voter
<1>3. voters' = Upsert(voters, v, [row EXCEPT !.staked = ns])
  BY DEF update_voting_power
<1>4. [row EXCEPT !.staked = ns] \in Voter
  BY <1>1, <1>2 DEF Voter
<1>5. IsTable(voters', Accounts, Voter)
  <2>. HIDE DEF row, ns
  <2>. QED  BY <1>3, <1>4, UpsertTable DEF VotingTypeOK
<1>6. IsTable(producers', Candidates, Producer)
  <2>1. CASE UNCHANGED producers
    BY <2>1 DEF VotingTypeOK
  <2>2. CASE update_producers_votes(acntype[v], FALSE, row.producers, row.staked,
                                    row.producers, ns)
    <3>1. row.staked \in Int /\ ns \in Int
      BY <1>2
    <3>2. /\ IsTable(producers, Candidates, Producer)
          /\ vwstate \in [company: Nat, government: Nat]
      BY DEF VotingTypeOK
    <3>. HIDE DEF row, ns
    <3>. QED  BY <2>2, <3>1, <3>2, UpdateVotesType
  <2>. QED  BY <2>1, <2>2 DEF update_voting_power
<1>. QED  BY <1>5, <1>6

LEMMA TopIsFinite ==
  ASSUME IsTable(producers, Candidates, Producer)
  PROVE  TopProducers \subseteq DOMAIN producers /\ TopProducers \subseteq Candidates
         /\ IsFiniteSet(TopProducers) /\ Cardinality(TopProducers) \in Nat
<1>1. TopProducers \subseteq DOMAIN producers /\ TopProducers \subseteq Candidates
  BY DEF TopProducers, IsTable
<1>2. IsFiniteSet(TopProducers)
  BY <1>1, FS_Subset
<1>. QED  BY <1>1, <1>2, FS_CardinalityType

LEMMA ElectionType ==
  ASSUME VotingTypeOK, NEW now \in Nat, update_elected_producers(now)
  PROVE  /\ gstate' \in [last_update: Nat, last_size: Nat]
         /\ IsTable(proposed', Candidates, Keys \cup {NoKey})
<1>1. /\ TopProducers \subseteq DOMAIN producers /\ TopProducers \subseteq Candidates
      /\ Cardinality(TopProducers) \in Nat
  BY TopIsFinite DEF VotingTypeOK
<1>2. \A p \in TopProducers : producers[p].producer_key \in Keys \cup {NoKey}
  BY <1>1 DEF VotingTypeOK, IsTable, Producer
<1>. QED  BY <1>1, <1>2 DEF update_elected_producers, VotingTypeOK, IsTable

(* Every row of every table keeps its declared shape.                      *)
LEMMA VotingTypeStep == VotingTypeOK /\ [VotingNext]_votingVars => VotingTypeOK'
<1>. SUFFICES ASSUME VotingTypeOK, [VotingNext]_votingVars
              PROVE  VotingTypeOK'
  OBVIOUS
<1>1. ASSUME NEW p \in Candidates, NEW key \in Keys \cup {NoKey}, regproducer(p, key)
      PROVE  VotingTypeOK'
  <2>. DEFINE row == IF p \in DOMAIN producers
                     THEN [producers[p] EXCEPT !.producer_key = key, !.is_active = TRUE]
                     ELSE [company_votes |-> 0, government_votes |-> 0,
                           total_vote_weight |-> 0, producer_key |-> key, is_active |-> TRUE]
  <2>1. row \in Producer
    <3>1. CASE p \in DOMAIN producers
      <4>1. producers[p] \in Producer
        BY <3>1 DEF VotingTypeOK, IsTable
      <4>. QED  BY <3>1, <4>1 DEF Producer
    <3>2. CASE p \notin DOMAIN producers
      BY <3>2 DEF Producer
    <3>. QED  BY <3>1, <3>2
  <2>2. producers' = Upsert(producers, p, row)
    BY <1>1 DEF regproducer
  <2>3. IsTable(producers', Candidates, Producer)
    <3>. HIDE DEF row
    <3>. QED  BY <2>1, <2>2, UpsertTable DEF VotingTypeOK
  <2>. QED  BY <1>1, <2>3 DEF regproducer, VotingTypeOK
<1>2. ASSUME NEW p \in Candidates, deactivate(p)
      PROVE  VotingTypeOK'
  <2>1. IsTable(producers', Candidates, Producer)
    BY <1>2 DEF deactivate, VotingTypeOK, IsTable, Producer
  <2>. QED  BY <1>2, <2>1 DEF deactivate, VotingTypeOK
<1>3. ASSUME NEW c \in WeightInputs, NEW g \in WeightInputs, setvweight(c, g)
      PROVE  VotingTypeOK'
  BY <1>3 DEF setvweight, VotingTypeOK
<1>4. ASSUME NEW a \in TypeInputs, NEW t \in AccountTypes, setacntype(a, t)
      PROVE  VotingTypeOK'
  <2>1. IsTable(acntype', Accounts, AccountTypes)
    BY <1>4, UpsertTable DEF setacntype, VotingTypeOK
  <2>. QED  BY <1>4, <2>1 DEF setacntype, VotingTypeOK
<1>5. ASSUME NEW v \in Accounts, NEW ballot \in SUBSET Candidates, voteproducer(v, ballot)
      PROVE  VotingTypeOK'
  <2>1. voters[v].staked \in Int
    BY <1>5 DEF voteproducer, VotingTypeOK, IsTable, Voter
  <2>2. IsTable(producers', Candidates, Producer)
    <3>1. update_producers_votes(acntype[v], TRUE, voters[v].producers, voters[v].staked,
                                 ballot, voters[v].staked)
      BY <1>5 DEF voteproducer
    <3>2. /\ IsTable(producers, Candidates, Producer)
          /\ vwstate \in [company: Nat, government: Nat]
      BY DEF VotingTypeOK
    <3>. QED  BY <2>1, <3>1, <3>2, UpdateVotesType
  <2>3. IsTable(voters', Accounts, Voter)
    BY <1>5 DEF voteproducer, VotingTypeOK, IsTable, Voter
  <2>. QED  BY <1>5, <2>2, <2>3 DEF voteproducer, VotingTypeOK
<1>6. ASSUME NEW v \in Accounts, NEW d \in (0 - MaxStake)..MaxStake, ChangeStake(v, d)
      PROVE  VotingTypeOK'
  BY <1>6, UpdateVotingPowerType DEF ChangeStake, VotingTypeOK
<1>7. ASSUME NEW t \in FirstSlot..MaxSlot, onblock(t)
      PROVE  VotingTypeOK'
  <2>1. t \in Nat
    OBVIOUS
  <2>. QED  BY <1>7, <2>1, ElectionType DEF onblock, VotingTypeOK
<1>8. CASE UNCHANGED votingVars
  BY <1>8 DEF votingVars, VotingTypeOK
<1>. QED  BY <1>1, <1>2, <1>3, <1>4, <1>5, <1>6, <1>7, <1>8
          DEF VotingNext, VotingActions, unregprod, rmvproducer

LEMMA VotingTypeInit == VotingInit => VotingTypeOK
BY DEF VotingInit, VotingTypeOK, IsTable, EmptyTable

(* Voting is type correct for any accounts, candidates, weights and sizes. *)
THEOREM VotingTypeCorrect == VotingSpec => []VotingTypeOK
BY VotingTypeInit, VotingTypeStep, PTL DEF VotingSpec

-----------------------------------------------------------------------------
(* Tallies.                                                                *)

VotingInv == /\ VotingTypeOK
             /\ TallyCorrect
             /\ BallotsAreTyped
             /\ StakedBallotsAreRegistered
             /\ ActiveHasKey

LEMMA BackingType ==
  ASSUME VotingTypeOK
  PROVE  \A type, p, v : Backing(type, p, v) \in Nat
BY DEF Backing, VotingTypeOK, IsTable, Voter

(* Support is a sum of backings, so it changes by what they change.        *)
LEMMA SupportChange ==
  ASSUME VotingTypeOK, VotingTypeOK', NEW type, NEW p, NEW v \in Accounts,
         \A w \in Accounts \ {v} : Backing(type, p, w)' = Backing(type, p, w)
  PROVE  Support(type, p)' = Support(type, p) + Backing(type, p, v)' - Backing(type, p, v)
<1>. DEFINE f == [w \in Accounts |-> Backing(type, p, w)]
            g == [w \in Accounts |-> Backing(type, p, w)']
<1>1. \A w \in Accounts : f[w] \in Int /\ g[w] \in Int
  <2>1. \A w \in Accounts : Backing(type, p, w) \in Nat
    BY BackingType
  <2>2. \A w \in Accounts : Backing(type, p, w)' \in Nat
    BY DEF Backing, VotingTypeOK, IsTable, Voter
  <2>. QED  BY <2>1, <2>2
<1>2. \A w \in Accounts \ {v} : f[w] = g[w]
  OBVIOUS
<1>3. f[v] = Backing(type, p, v) /\ g[v] = Backing(type, p, v)'
  OBVIOUS
<1>4. Support(type, p) = SumFunctionOnSet(f, Accounts)
      /\ Support(type, p)' = SumFunctionOnSet(g, Accounts)
  BY DEF Support
<1>. HIDE DEF f, g
<1>5. SumFunctionOnSet(g, Accounts) = SumFunctionOnSet(f, Accounts) + g[v] - f[v]
  BY <1>1, <1>2, SumUpdate
<1>. QED  BY <1>3, <1>4, <1>5

LEMMA SupportSame ==
  ASSUME NEW type, NEW p,
         \A w \in Accounts : Backing(type, p, w)' = Backing(type, p, w)
  PROVE  Support(type, p)' = Support(type, p)
BY DEF Support

(* One call of update_producers_votes moves the tallies of every producer  *)
(* by as much as the caller's change to the account's ballot or stake      *)
(* moves its support.                                                      *)
LEMMA TalliesFollow ==
  ASSUME VotingTypeOK, VotingTypeOK', TallyCorrect,
         NEW v \in Accounts, v \in DOMAIN acntype, acntype' = acntype,
         NEW old, NEW new, NEW os \in Nat, NEW ns \in Nat, NEW voting,
         update_producers_votes(acntype[v], voting, old, os, new, ns),
         VoterRow(v).producers = old, VoterRow(v).staked = os,
         v \in DOMAIN voters', voters'[v].producers = new, voters'[v].staked = ns,
         \A w \in Accounts \ {v} : /\ w \in DOMAIN voters' <=> w \in DOMAIN voters
                                   /\ w \in DOMAIN voters => voters'[w] = voters[w]
  PROVE  TallyCorrect'
<1>. DEFINE votes(p) == (IF p \in new THEN ns ELSE 0) - (IF p \in old THEN os ELSE 0)
<1>1. producers' = [p \in DOMAIN producers |->
                      IF p \in Visited(old, os, new, ns)
                      THEN Credited(producers[p], acntype[v], votes(p))
                      ELSE producers[p]]
  BY DEF update_producers_votes
<1>2. \A p : p \notin Visited(old, os, new, ns) => votes(p) = 0
  BY DEF Visited
<1>3. ASSUME NEW p \in DOMAIN producers, NEW type \in AccountTypes
      PROVE  Support(type, p)'
               = Support(type, p) + (IF type = acntype[v] THEN votes(p) ELSE 0)
  <2>1. \A w \in Accounts \ {v} : Backing(type, p, w)' = Backing(type, p, w)
    BY DEF Backing
  <2>2. Backing(type, p, v) = IF p \in old /\ type = acntype[v] THEN os ELSE 0
    BY DEF Backing, VoterRow
  <2>3. Backing(type, p, v)' = IF p \in new /\ type = acntype[v] THEN ns ELSE 0
    BY DEF Backing
  <2>4. Support(type, p)' = Support(type, p) + Backing(type, p, v)' - Backing(type, p, v)
    BY <2>1, SupportChange
  <2>5. Support(type, p) = producers[p].company_votes
        \/ Support(type, p) = producers[p].government_votes
    BY DEF TallyCorrect
  <2>6. Support(type, p) \in Int
    BY <2>5 DEF VotingTypeOK, IsTable, Producer
  <2>. QED  BY <2>2, <2>3, <2>4, <2>6
<1>4. ASSUME NEW p \in DOMAIN producers
      PROVE  /\ producers'[p].company_votes = producers[p].company_votes
                   + (IF acntype[v] = "company" THEN votes(p) ELSE 0)
             /\ producers'[p].government_votes = producers[p].government_votes
                   + (IF acntype[v] = "company" THEN 0 ELSE votes(p))
  <2>1. producers[p] \in Producer
    BY DEF VotingTypeOK, IsTable
  <2>2. CASE p \in Visited(old, os, new, ns)
    <3>1. producers'[p] = Credited(producers[p], acntype[v], votes(p))
      BY <1>1, <2>2
    <3>. HIDE DEF votes
    <3>. QED  BY <2>1, <3>1 DEF Credited, Producer
  <2>3. CASE p \notin Visited(old, os, new, ns)
    <3>1. producers'[p] = producers[p] /\ votes(p) = 0
      BY <1>1, <1>2, <2>3
    <3>. HIDE DEF votes
    <3>. QED  BY <2>1, <3>1 DEF Producer
  <2>. QED  BY <2>2, <2>3
<1>5. DOMAIN producers' = DOMAIN producers
  BY <1>1
<1>6. acntype[v] \in AccountTypes
  BY DEF VotingTypeOK, IsTable
<1>7. ASSUME NEW p \in DOMAIN producers
      PROVE  /\ producers'[p].company_votes = Support("company", p)'
             /\ producers'[p].government_votes = Support("government", p)'
  <2>1. /\ Support("company", p)' = Support("company", p)
             + (IF "company" = acntype[v] THEN votes(p) ELSE 0)
        /\ Support("government", p)' = Support("government", p)
             + (IF "government" = acntype[v] THEN votes(p) ELSE 0)
    <3>. HIDE DEF votes
    <3>. QED  BY <1>3
  <2>2. /\ producers[p].company_votes = Support("company", p)
        /\ producers[p].government_votes = Support("government", p)
    BY DEF TallyCorrect
  <2>. HIDE DEF votes
  <2>. QED  BY <1>4, <1>6, <2>1, <2>2
<1>. QED  BY <1>5, <1>7 DEF TallyCorrect

(* update_producers_votes touches nothing of a row but its tallies.        *)
LEMMA VotesKeepRows ==
  ASSUME VotingTypeOK, NEW type, NEW voting, NEW old, NEW os, NEW new, NEW ns,
         update_producers_votes(type, voting, old, os, new, ns)
  PROVE  /\ DOMAIN producers' = DOMAIN producers
         /\ \A p \in DOMAIN producers :
              /\ producers'[p].is_active = producers[p].is_active
              /\ producers'[p].producer_key = producers[p].producer_key
<1>. DEFINE votes(p) == (IF p \in new THEN ns ELSE 0) - (IF p \in old THEN os ELSE 0)
<1>1. producers' = [p \in DOMAIN producers |->
                      IF p \in Visited(old, os, new, ns)
                      THEN Credited(producers[p], type, votes(p))
                      ELSE producers[p]]
  BY DEF update_producers_votes
<1>2. ASSUME NEW p \in DOMAIN producers
      PROVE  /\ producers'[p].is_active = producers[p].is_active
             /\ producers'[p].producer_key = producers[p].producer_key
  <2>1. producers[p] \in Producer
    BY DEF VotingTypeOK, IsTable
  <2>2. CASE p \in Visited(old, os, new, ns)
    <3>1. producers'[p] = Credited(producers[p], type, votes(p))
      BY <1>1, <2>2
    <3>. HIDE DEF votes
    <3>. QED  BY <2>1, <3>1 DEF Credited, Producer
  <2>3. CASE p \notin Visited(old, os, new, ns)
    BY <1>1, <2>3
  <2>. QED  BY <2>2, <2>3
<1>. HIDE DEF votes
<1>. QED  BY <1>1, <1>2

LEMMA VotesKeepRegistration ==
  ASSUME VotingTypeOK, ActiveHasKey, NEW type, NEW voting, NEW old, NEW os, NEW new, NEW ns,
         update_producers_votes(type, voting, old, os, new, ns)
  PROVE  DOMAIN producers' = DOMAIN producers /\ ActiveHasKey'
BY VotesKeepRows DEF ActiveHasKey

LEMMA RegproducerKeeps ==
  ASSUME VotingInv, VotingTypeOK', NEW p \in Candidates, NEW key, regproducer(p, key)
  PROVE  VotingInv'
<1>. USE DEF VotingInv
<1>1. \A type, q : Support(type, q)' = Support(type, q)
  BY SupportSame DEF regproducer, Backing
<1>2. DOMAIN producers' = DOMAIN producers \cup {p}
  BY DEF regproducer, Upsert
<1>3. ASSUME NEW q \in DOMAIN producers
      PROVE  /\ producers'[q].company_votes = producers[q].company_votes
             /\ producers'[q].government_votes = producers[q].government_votes
             /\ q # p => producers'[q] = producers[q]
  <2>1. producers[q] \in Producer
    BY DEF VotingTypeOK, IsTable
  <2>. QED  BY <2>1 DEF regproducer, Upsert, Producer
<1>4. ASSUME p \notin DOMAIN producers
      PROVE  /\ producers'[p].company_votes = 0 /\ producers'[p].government_votes = 0
             /\ \A type : Support(type, p) = 0
  <2>1. producers'[p].company_votes = 0 /\ producers'[p].government_votes = 0
    BY <1>4 DEF regproducer, Upsert
  <2>2. \A type, v : Backing(type, p, v) = 0
    BY <1>4 DEF StakedBallotsAreRegistered, Backing, VotingTypeOK, IsTable, Voter
  <2>3. \A type : Support(type, p) = 0
    BY <2>2, SumZero DEF Support
  <2>. QED  BY <2>1, <2>3
<1>5. TallyCorrect'
  BY <1>1, <1>2, <1>3, <1>4 DEF TallyCorrect
<1>6. ActiveHasKey'
  <2>1. producers'[p].producer_key = key /\ producers'[p].is_active = TRUE /\ key # NoKey
    <3>1. CASE p \in DOMAIN producers
      <4>1. producers[p] \in Producer
        BY <3>1 DEF VotingTypeOK, IsTable
      <4>. QED  BY <3>1, <4>1 DEF regproducer, Upsert, Producer
    <3>2. CASE p \notin DOMAIN producers
      BY <3>2 DEF regproducer, Upsert
    <3>. QED  BY <3>1, <3>2
  <2>. QED  BY <2>1, <1>2, <1>3 DEF ActiveHasKey
<1>7. BallotsAreTyped' /\ StakedBallotsAreRegistered'
  BY <1>2 DEF regproducer, BallotsAreTyped, StakedBallotsAreRegistered
<1>. QED  BY <1>5, <1>6, <1>7

LEMMA DeactivateKeeps ==
  ASSUME VotingInv, VotingTypeOK', NEW p \in Candidates, deactivate(p)
  PROVE  VotingInv'
<1>. USE DEF VotingInv
<1>1. \A type, q : Support(type, q)' = Support(type, q)
  BY SupportSame DEF deactivate, Backing
<1>2. DOMAIN producers' = DOMAIN producers
  BY DEF deactivate
<1>3. ASSUME NEW q \in DOMAIN producers
      PROVE  /\ producers'[q].company_votes = producers[q].company_votes
             /\ producers'[q].government_votes = producers[q].government_votes
             /\ producers'[q].is_active <=> producers'[q].producer_key # NoKey
  <2>1. producers[q] \in Producer
    BY DEF VotingTypeOK, IsTable
  <2>. QED  BY <2>1 DEF deactivate, Producer, ActiveHasKey
<1>. QED  BY <1>1, <1>2, <1>3
          DEF deactivate, TallyCorrect, ActiveHasKey, BallotsAreTyped, StakedBallotsAreRegistered

LEMMA SetacntypeKeeps ==
  ASSUME VotingInv, VotingTypeOK', NEW a \in Accounts, NEW t, setacntype(a, t)
  PROVE  VotingInv'
<1>. USE DEF VotingInv
<1>1. DOMAIN acntype' = DOMAIN acntype \cup {a} /\ a \notin DOMAIN acntype
      /\ \A w \in DOMAIN acntype : acntype'[w] = acntype[w]
  BY DEF setacntype, Upsert
<1>2. a \in DOMAIN voters => voters[a].producers = {}
  BY <1>1 DEF BallotsAreTyped
<1>3. \A type, q, w : Backing(type, q, w)' = Backing(type, q, w)
  BY <1>1, <1>2 DEF Backing, setacntype
<1>4. \A type, q : Support(type, q)' = Support(type, q)
  BY <1>3, SupportSame
<1>. QED  BY <1>1, <1>4
          DEF setacntype, TallyCorrect, ActiveHasKey, BallotsAreTyped, StakedBallotsAreRegistered

LEMMA VoteproducerKeeps ==
  ASSUME VotingInv, VotingTypeOK', NEW v \in Accounts, NEW ballot, voteproducer(v, ballot)
  PROVE  VotingInv'
<1>. USE DEF VotingInv
<1>. DEFINE staked == voters[v].staked
            old == voters[v].producers
<1>1. update_producers_votes(acntype[v], TRUE, old, staked, ballot, staked)
      /\ v \in DOMAIN voters /\ v \in DOMAIN acntype
      /\ voters' = [voters EXCEPT ![v].producers = ballot] /\ acntype' = acntype
  BY DEF voteproducer
<1>2. voters[v] \in Voter
  BY <1>1 DEF VotingTypeOK, IsTable
<1>3. /\ DOMAIN voters' = DOMAIN voters
      /\ voters'[v].producers = ballot /\ voters'[v].staked = staked
      /\ \A w \in DOMAIN voters \ {v} : voters'[w] = voters[w]
  BY <1>1, <1>2 DEF Voter
<1>4. DOMAIN producers' = DOMAIN producers /\ ActiveHasKey'
  BY <1>1, VotesKeepRegistration
<1>5. VoterRow(v) = voters[v] /\ staked \in Nat
  BY <1>1, <1>2 DEF VoterRow, Voter
<1>6. TallyCorrect'
  <2>1. VoterRow(v).producers = old /\ VoterRow(v).staked = staked /\ v \in DOMAIN voters'
        /\ \A w \in Accounts \ {v} : /\ w \in DOMAIN voters' <=> w \in DOMAIN voters
                                     /\ w \in DOMAIN voters => voters'[w] = voters[w]
    BY <1>1, <1>3, <1>5
  <2>2. /\ v \in DOMAIN acntype /\ acntype' = acntype /\ staked \in Nat
        /\ voters'[v].producers = ballot /\ voters'[v].staked = staked
    BY <1>1, <1>3, <1>5
  <2>. HIDE DEF staked, old
  <2>. QED  BY <1>1, <2>1, <2>2, TalliesFollow
<1>7. BallotsAreTyped'
  BY <1>1, <1>3 DEF BallotsAreTyped
<1>8. staked # 0 => ballot \subseteq DOMAIN producers
  BY <1>1 DEF update_producers_votes, VisitAccepted, Visited
<1>9. StakedBallotsAreRegistered'
  BY <1>3, <1>4, <1>8 DEF StakedBallotsAreRegistered
<1>. QED  BY <1>4, <1>6, <1>7, <1>9

(* Any change of an account's stake, delegate_bandwidth.cpp's included.    *)
LEMMA VotingPowerKeeps ==
  ASSUME VotingInv, VotingTypeOK', NEW v \in Accounts, NEW d \in Int,
         update_voting_power(v, d), acntype' = acntype
  PROVE  VotingInv'
<1>. USE DEF VotingInv
<1>. DEFINE old == VoterRow(v).producers
            os == VoterRow(v).staked
            ns == os + d
<1>1. VoterRow(v) \in Voter
  BY VoterRowType DEF VotingTypeOK
<1>2. os \in Nat /\ ns \in Nat
  BY <1>1 DEF update_voting_power, Voter
<1>3. /\ DOMAIN voters' = DOMAIN voters \cup {v}
      /\ \A w \in DOMAIN voters : w # v => voters'[w] = voters[w]
      /\ voters'[v].producers = old /\ voters'[v].staked = ns
  <2>1. voters' = Upsert(voters, v, [VoterRow(v) EXCEPT !.staked = ns])
    BY DEF update_voting_power
  <2>2. [VoterRow(v) EXCEPT !.staked = ns].producers = old
        /\ [VoterRow(v) EXCEPT !.staked = ns].staked = ns
    BY <1>1 DEF Voter
  <2>. DEFINE row == [VoterRow(v) EXCEPT !.staked = ns]
  <2>3. voters' = Upsert(voters, v, row) /\ row.producers = old /\ row.staked = ns
    BY <2>1, <2>2
  <2>. HIDE DEF row, old, ns
  <2>4. /\ DOMAIN Upsert(voters, v, row) = DOMAIN voters \cup {v}
        /\ Upsert(voters, v, row)[v] = row
        /\ \A w \in DOMAIN voters : w # v => Upsert(voters, v, row)[w] = voters[w]
    BY DEF Upsert
  <2>. QED  BY <2>3, <2>4
<1>4. BallotsAreTyped'
  BY <1>3 DEF BallotsAreTyped, VoterRow
<1>5. CASE old # {} /\ v \in DOMAIN acntype
  <2>1. update_producers_votes(acntype[v], FALSE, old, os, old, ns)
    BY <1>5 DEF update_voting_power
  <2>2. DOMAIN producers' = DOMAIN producers /\ ActiveHasKey'
    BY <2>1, VotesKeepRegistration
  <2>3. TallyCorrect'
    <3>1. VoterRow(v).producers = old /\ VoterRow(v).staked = os /\ v \in DOMAIN voters'
          /\ \A w \in Accounts \ {v} : /\ w \in DOMAIN voters' <=> w \in DOMAIN voters
                                       /\ w \in DOMAIN voters => voters'[w] = voters[w]
      BY <1>3
    <3>. HIDE DEF old, os, ns
    <3>. QED  BY <1>2, <1>3, <1>5, <2>1, <3>1, TalliesFollow
  <2>4. ns # 0 => old \subseteq DOMAIN producers
    BY <2>1 DEF update_producers_votes, VisitAccepted, Visited
  <2>5. StakedBallotsAreRegistered'
    BY <1>3, <2>2, <2>4 DEF StakedBallotsAreRegistered
  <2>. QED  BY <1>4, <2>2, <2>3, <2>5
<1>6. CASE ~ (old # {} /\ v \in DOMAIN acntype)
  <2>1. producers' = producers
    BY <1>6 DEF update_voting_power
  <2>2. \A type, q, w : Backing(type, q, w)' = Backing(type, q, w)
    BY <1>3, <1>6 DEF Backing, VoterRow
  <2>3. \A type, q : Support(type, q)' = Support(type, q)
    BY <2>2, SupportSame
  <2>4. old = {}
    BY <1>6 DEF BallotsAreTyped, VoterRow
  <2>5. StakedBallotsAreRegistered'
    BY <1>3, <2>1, <2>4 DEF StakedBallotsAreRegistered
  <2>. QED  BY <1>4, <2>1, <2>3, <2>5 DEF TallyCorrect, ActiveHasKey
<1>. QED  BY <1>5, <1>6

LEMMA VotingInvStep == VotingInv /\ [VotingNext]_votingVars => VotingInv'
<1>. SUFFICES ASSUME VotingInv, [VotingNext]_votingVars
              PROVE  VotingInv'
  OBVIOUS
<1>0. VotingTypeOK'
  BY VotingTypeStep DEF VotingInv
<1>1. ASSUME NEW p \in Candidates, NEW key \in Keys \cup {NoKey}, regproducer(p, key)
      PROVE  VotingInv'
  BY <1>0, <1>1, RegproducerKeeps
<1>2. ASSUME NEW p \in Candidates, deactivate(p)
      PROVE  VotingInv'
  BY <1>0, <1>2, DeactivateKeeps
<1>3. ASSUME NEW a \in TypeInputs, NEW t \in AccountTypes, setacntype(a, t)
      PROVE  VotingInv'
  BY <1>0, <1>3, SetacntypeKeeps
<1>4. ASSUME NEW v \in Accounts, NEW ballot \in SUBSET Candidates, voteproducer(v, ballot)
      PROVE  VotingInv'
  BY <1>0, <1>4, VoteproducerKeeps
<1>5. ASSUME NEW v \in Accounts, NEW d \in (0 - MaxStake)..MaxStake, ChangeStake(v, d)
      PROVE  VotingInv'
  <2>1. d \in Int
    OBVIOUS
  <2>. QED  BY <1>0, <1>5, <2>1, VotingPowerKeeps DEF ChangeStake
<1>6. ASSUME UNCHANGED <<voters, producers, acntype>>
      PROVE  VotingInv'
  <2>1. \A type, p : Support(type, p)' = Support(type, p)
    BY <1>6, SupportSame DEF Backing
  <2>. QED  BY <1>0, <1>6, <2>1 DEF VotingInv, TallyCorrect, BallotsAreTyped,
                                   StakedBallotsAreRegistered, ActiveHasKey
<1>7. CASE \E c, g \in WeightInputs : setvweight(c, g)
  BY <1>6, <1>7 DEF setvweight
<1>8. CASE \E t \in FirstSlot..MaxSlot : onblock(t)
  BY <1>6, <1>8 DEF onblock
<1>9. CASE UNCHANGED votingVars
  BY <1>6, <1>9 DEF votingVars
<1>. QED  BY <1>1, <1>2, <1>3, <1>4, <1>5, <1>7, <1>8, <1>9
          DEF VotingNext, VotingActions, unregprod, rmvproducer

LEMMA VotingInvInit == VotingInit => VotingInv
BY VotingTypeInit DEF VotingInit, VotingInv, TallyCorrect, BallotsAreTyped,
                      StakedBallotsAreRegistered, ActiveHasKey, EmptyTable

(* The tallies that rank the producers are exactly the stakes behind the   *)
(* ballots in force, after any sequence of votes, stakes and registrations *)
(* of any number of accounts.                                              *)
THEOREM TalliesAreCorrect == VotingSpec => []TallyCorrect
<1>1. VotingInv => TallyCorrect
  BY DEF VotingInv
<1>. QED  BY <1>1, VotingInvInit, VotingInvStep, PTL DEF VotingSpec

(* A ballot with stake names producers that have a row, so update_voting_  *)
(* power never aborts on modify for an account that has stake.             *)
THEOREM StakedBallotsHaveRows == VotingSpec => []StakedBallotsAreRegistered
<1>1. VotingInv => StakedBallotsAreRegistered
  BY DEF VotingInv
<1>. QED  BY <1>1, VotingInvInit, VotingInvStep, PTL DEF VotingSpec

(* update_voting_power skips only accounts without a ballot.               *)
THEOREM BallotsAlwaysTyped == VotingSpec => []BallotsAreTyped
<1>1. VotingInv => BallotsAreTyped
  BY DEF VotingInv
<1>. QED  BY <1>1, VotingInvInit, VotingInvStep, PTL DEF VotingSpec

(* The active producers are those with a key to sign blocks with.          *)
THEOREM ActiveAlwaysHasKey == VotingSpec => []ActiveHasKey
<1>1. VotingInv => ActiveHasKey
  BY DEF VotingInv
<1>. QED  BY <1>1, VotingInvInit, VotingInvStep, PTL DEF VotingSpec

-----------------------------------------------------------------------------
(* Stakes.                                                                 *)

(* update_voting_power moves the stake of one account.                     *)
LEMMA StakeEffect ==
  ASSUME VotingTypeOK, NEW v \in Accounts, NEW d \in Int, update_voting_power(v, d)
  PROVE  \A a : StakedBy(a)' = IF a = v THEN StakedBy(a) + d ELSE StakedBy(a)
<1>. DEFINE row == [VoterRow(v) EXCEPT !.staked = VoterRow(v).staked + d]
<1>1. VoterRow(v) \in Voter
  BY VoterRowType DEF VotingTypeOK
<1>2. voters' = Upsert(voters, v, row) /\ row.staked = VoterRow(v).staked + d
  BY <1>1 DEF update_voting_power, Voter
<1>. HIDE DEF row
<1>. QED  BY <1>2 DEF Upsert, StakedBy, VoterRow

(* No other action of the voting part touches a stake.                     *)
LEMMA VotingKeepsStake ==
  ASSUME VotingTypeOK, VotingActions
  PROVE  \A a : StakedBy(a)' = StakedBy(a)
<1>1. ASSUME voters' = voters
      PROVE  \A a : StakedBy(a)' = StakedBy(a)
  BY <1>1 DEF StakedBy, VoterRow
<1>2. ASSUME NEW v \in Accounts, NEW ballot, voteproducer(v, ballot)
      PROVE  \A a : StakedBy(a)' = StakedBy(a)
  <2>1. v \in DOMAIN voters /\ voters' = [voters EXCEPT ![v].producers = ballot]
    BY <1>2 DEF voteproducer
  <2>2. voters[v] \in Voter
    BY <2>1 DEF VotingTypeOK, IsTable
  <2>3. voters'[v].staked = voters[v].staked
    BY <2>1, <2>2 DEF Voter
  <2>4. DOMAIN voters' = DOMAIN voters /\ \A a \in DOMAIN voters \ {v} : voters'[a] = voters[a]
    BY <2>1
  <2>. QED  BY <2>3, <2>4 DEF StakedBy, VoterRow
<1>. QED  BY <1>1, <1>2 DEF VotingActions, regproducer, unregprod, rmvproducer, deactivate,
                            setvweight, setacntype, onblock

(* And none lets time run backwards.                                       *)
LEMMA VotingKeepsTime ==
  ASSUME VotingActions, slot \in Nat
  PROVE  slot' \in Nat /\ slot <= slot' /\ (slot' # slot => UNCHANGED <<voters, producers>>)
<1>1. ASSUME NEW t \in FirstSlot..MaxSlot, onblock(t)
      PROVE  slot' \in Nat /\ slot <= slot' /\ UNCHANGED <<voters, producers>>
  BY <1>1 DEF onblock
<1>0. ASSUME slot' = slot
      PROVE  slot' \in Nat /\ slot <= slot'
  BY <1>0
<1>2. CASE \E v \in Accounts, ballot \in SUBSET Candidates : voteproducer(v, ballot)
  <2>1. slot' = slot
    BY <1>2 DEF voteproducer
  <2>. QED  BY <1>0, <2>1
<1>3. CASE \E c, g \in WeightInputs : setvweight(c, g)
  <2>1. slot' = slot
    BY <1>3 DEF setvweight
  <2>. QED  BY <1>0, <2>1
<1>4. CASE \E a \in TypeInputs, t \in AccountTypes : setacntype(a, t)
  <2>1. slot' = slot
    BY <1>4 DEF setacntype
  <2>. QED  BY <1>0, <2>1
<1>5. CASE \E p \in Candidates : \/ \E key \in Keys \cup {NoKey} : regproducer(p, key)
                                 \/ deactivate(p)
  <2>1. slot' = slot
    BY <1>5 DEF regproducer, deactivate
  <2>. QED  BY <1>0, <2>1
<1>. QED  BY <1>1, <1>2, <1>3, <1>4, <1>5 DEF VotingActions, unregprod, rmvproducer

-----------------------------------------------------------------------------
(* Vote weights.  A row keeps the weight of its votes: whoever changes the *)
(* votes weighs them anew, with the accepted weights of that moment.       *)

WeightsInRange == /\ vwstate.company \in MinWeight..MaxWeight
                  /\ vwstate.government \in MinWeight..MaxWeight

WeightOf(row, c, g) == ToInt64(row.government_votes * g + row.company_votes * c)

Weighed(row) == \E c, g \in MinWeight..MaxWeight : row.total_vote_weight = WeightOf(row, c, g)

LEMMA WeighedRows == WeightIsOfVotes <=> \A p \in DOMAIN producers : Weighed(producers[p])
BY DEF WeightIsOfVotes, Weighed, WeightOf

LEMMA WeighedRowsNext ==
  (WeightIsOfVotes <=> \A p \in DOMAIN producers : Weighed(producers[p]))'
BY WeighedRows, PTL

(* Below half its range the conversion to int64_t changes nothing.         *)
LEMMA ToInt64Exact ==
  ASSUME NEW n \in Nat, n < Int64Half
  PROVE  ToInt64(n) = n
<1>1. n + Int64Half \in 0..(2 * Int64Half - 1) /\ 2 * Int64Half \in Nat \ {0}
  OBVIOUS
<1>2. \A m, k \in Nat : m < k => m % k = m
  OBVIOUS
<1>3. (n + Int64Half) % (2 * Int64Half) = n + Int64Half
  BY <1>1, <1>2
<1>. QED  BY <1>3 DEF ToInt64

LEMMA CreditedWeighed ==
  ASSUME WeightsInRange, NEW row \in Producer, NEW type, NEW n
  PROVE  Weighed(Credited(row, type, n))
<1>. DEFINE c == row.company_votes + (IF type = "company" THEN n ELSE 0)
            g == row.government_votes + (IF type = "company" THEN 0 ELSE n)
            new == Credited(row, type, n)
<1>1. /\ new.company_votes = c /\ new.government_votes = g
      /\ new.total_vote_weight = ToInt64(g * vwstate.government + c * vwstate.company)
  BY DEF Credited, Producer
<1>. HIDE DEF c, g, new
<1>2. Weighed(new)
  BY <1>1 DEF Weighed, WeightOf, WeightsInRange
<1>. QED  BY <1>2 DEF new

LEMMA RecomputedWeighed ==
  ASSUME VotingTypeOK, WeightsInRange, WeightIsOfVotes,
         NEW type, NEW voting, NEW old, NEW os, NEW new, NEW ns,
         update_producers_votes(type, voting, old, os, new, ns)
  PROVE  WeightIsOfVotes'
<1>. DEFINE votes(p) == (IF p \in new THEN ns ELSE 0) - (IF p \in old THEN os ELSE 0)
<1>1. producers' = [p \in DOMAIN producers |->
                      IF p \in Visited(old, os, new, ns)
                      THEN Credited(producers[p], type, votes(p))
                      ELSE producers[p]]
  BY DEF update_producers_votes
<1>2. \A p \in DOMAIN producers : producers[p] \in Producer /\ Weighed(producers[p])
  BY WeighedRows DEF VotingTypeOK, IsTable
<1>. HIDE DEF votes
<1>3. \A p \in DOMAIN producers' : Weighed(producers'[p])
  BY <1>1, <1>2, CreditedWeighed
<1>4. \A p \in DOMAIN producers' : Weighed(producers[p])'
  BY <1>3 DEF Weighed, WeightOf, ToInt64
<1>. QED  BY <1>4, WeighedRowsNext

WeightsInv == VotingTypeOK /\ WeightsInRange /\ WeightIsOfVotes

(* Rows whose votes and weight stay, or begin with none.                   *)
LEMMA RowsWeighed ==
  ASSUME WeightsInv,
         \A p \in DOMAIN producers' :
           IF p \in DOMAIN producers
           THEN /\ producers'[p].total_vote_weight = producers[p].total_vote_weight
                /\ producers'[p].company_votes = producers[p].company_votes
                /\ producers'[p].government_votes = producers[p].government_votes
           ELSE /\ producers'[p].total_vote_weight = 0
                /\ producers'[p].company_votes = 0
                /\ producers'[p].government_votes = 0
  PROVE  WeightIsOfVotes'
<1>1. 0 * MinWeight + 0 * MinWeight = 0 /\ MinWeight \in MinWeight..MaxWeight /\ ToInt64(0) = 0
  BY ToInt64Exact
<1>2. \A p \in DOMAIN producers' : Weighed(producers'[p])
  BY <1>1, WeighedRows DEF WeightsInv, Weighed, WeightOf
<1>3. \A p \in DOMAIN producers' : Weighed(producers[p])'
  BY <1>2 DEF Weighed, WeightOf, ToInt64
<1>. QED  BY <1>3, WeighedRowsNext

LEMMA WeightsStep == WeightsInv /\ [VotingNext]_votingVars => WeightsInv'
<1>. SUFFICES ASSUME WeightsInv, [VotingNext]_votingVars
              PROVE  WeightsInv'
  OBVIOUS
<1>. USE DEF WeightsInv
<1>0. VotingTypeOK'
  BY VotingTypeStep
<1>1. ASSUME NEW p \in Candidates, NEW key \in Keys \cup {NoKey}, regproducer(p, key)
      PROVE  WeightsInv'
  <2>1. DOMAIN producers' = DOMAIN producers \cup {p} /\ UNCHANGED vwstate
    BY <1>1 DEF regproducer, Upsert
  <2>2. \A q \in DOMAIN producers : producers[q] \in Producer
    BY DEF VotingTypeOK, IsTable
  <2>3. \A q \in DOMAIN producers :
           /\ producers'[q].total_vote_weight = producers[q].total_vote_weight
           /\ producers'[q].company_votes = producers[q].company_votes
           /\ producers'[q].government_votes = producers[q].government_votes
    BY <1>1, <2>2 DEF regproducer, Upsert, Producer
  <2>4. p \notin DOMAIN producers =>
           /\ producers'[p].total_vote_weight = 0
           /\ producers'[p].company_votes = 0 /\ producers'[p].government_votes = 0
    BY <1>1 DEF regproducer, Upsert
  <2>5. WeightIsOfVotes'
    BY <2>1, <2>3, <2>4, RowsWeighed
  <2>. QED  BY <1>0, <2>1, <2>5 DEF WeightsInRange
<1>2. ASSUME NEW p \in Candidates, deactivate(p)
      PROVE  WeightsInv'
  <2>1. DOMAIN producers' = DOMAIN producers /\ UNCHANGED vwstate
    BY <1>2 DEF deactivate
  <2>2. \A q \in DOMAIN producers : producers[q] \in Producer
    BY DEF VotingTypeOK, IsTable
  <2>3. \A q \in DOMAIN producers :
           /\ producers'[q].total_vote_weight = producers[q].total_vote_weight
           /\ producers'[q].company_votes = producers[q].company_votes
           /\ producers'[q].government_votes = producers[q].government_votes
    BY <1>2, <2>2 DEF deactivate, Producer
  <2>4. WeightIsOfVotes'
    BY <2>1, <2>3, RowsWeighed
  <2>. QED  BY <1>0, <2>1, <2>4 DEF WeightsInRange
<1>3. ASSUME UNCHANGED producers, WeightsInRange'
      PROVE  WeightsInv'
  BY <1>0, <1>3 DEF WeightIsOfVotes, ToInt64
<1>4. CASE \E c, g \in WeightInputs : setvweight(c, g)
  <2>1. WeightsInRange' /\ UNCHANGED producers
    BY <1>4 DEF setvweight, WeightsInRange
  <2>. QED  BY <1>3, <2>1
<1>5. ASSUME NEW type, NEW voting, NEW old, NEW os, NEW new, NEW ns,
             update_producers_votes(type, voting, old, os, new, ns), UNCHANGED vwstate
      PROVE  WeightsInv'
  BY <1>0, <1>5, RecomputedWeighed DEF WeightsInRange
<1>6. CASE \E v \in Accounts, ballot \in SUBSET Candidates : voteproducer(v, ballot)
  BY <1>5, <1>6 DEF voteproducer
<1>7. ASSUME NEW v \in Accounts, NEW d, ChangeStake(v, d)
      PROVE  WeightsInv'
  <2>1. update_voting_power(v, d) /\ UNCHANGED vwstate
    BY <1>7 DEF ChangeStake
  <2>2. CASE UNCHANGED producers
    BY <1>3, <2>1, <2>2 DEF WeightsInRange
  <2>3. CASE ~ UNCHANGED producers
    <3>1. update_producers_votes(acntype[v], FALSE, VoterRow(v).producers, VoterRow(v).staked,
                                 VoterRow(v).producers, VoterRow(v).staked + d)
      BY <2>1, <2>3 DEF update_voting_power
    <3>. QED  BY <1>5, <2>1, <3>1
  <2>. QED  BY <2>2, <2>3
<1>8. ASSUME UNCHANGED <<producers, vwstate>>
      PROVE  WeightsInv'
  BY <1>3, <1>8 DEF WeightsInRange
<1>9. CASE \E a \in TypeInputs, t \in AccountTypes : setacntype(a, t)
  BY <1>8, <1>9 DEF setacntype
<1>10. CASE \E t \in FirstSlot..MaxSlot : onblock(t)
  BY <1>8, <1>10 DEF onblock
<1>11. CASE UNCHANGED votingVars
  BY <1>8, <1>11 DEF votingVars
<1>. HIDE DEF WeightsInv
<1>. QED  BY <1>1, <1>2, <1>4, <1>6, <1>7, <1>9, <1>10, <1>11
          DEF VotingNext, VotingActions, unregprod, rmvproducer

LEMMA WeightsInit == VotingInit => WeightsInv
BY VotingTypeInit DEF VotingInit, WeightsInv, WeightsInRange, WeightIsOfVotes, EmptyTable

(* The weight on record is that of the votes on record, wrapped or not,    *)
(* through every order of voting, staking, leaving and coming back.        *)
THEOREM WeightsAreOfVotes == VotingSpec => []WeightIsOfVotes
<1>1. WeightsInv => WeightIsOfVotes
  BY DEF WeightsInv
<1>. QED  BY <1>1, WeightsInit, WeightsStep, PTL DEF VotingSpec

-----------------------------------------------------------------------------
(* The stake behind a producer.                                            *)

StakeBounded == SumFunctionOnSet(Staked, Accounts) <= MaxStake

LEMMA StakedType == VotingTypeOK => \A v : StakedBy(v) \in Nat
BY DEF VotingTypeOK, IsTable, Voter, StakedBy, VoterRow

(* No stake counts for a producer twice.                                   *)
LEMMA SupportBounded ==
  VotingTypeOK => \A p : /\ Support("company", p) \in Nat /\ Support("government", p) \in Nat
                         /\ Support("company", p) + Support("government", p)
                              <= SumFunctionOnSet(Staked, Accounts)
<1>. SUFFICES ASSUME VotingTypeOK, NEW p
              PROVE  /\ Support("company", p) \in Nat /\ Support("government", p) \in Nat
                     /\ Support("company", p) + Support("government", p)
                          <= SumFunctionOnSet(Staked, Accounts)
  OBVIOUS
<1>. DEFINE c == [v \in Accounts |-> Backing("company", p, v)]
            g == [v \in Accounts |-> Backing("government", p, v)]
<1>1. \A v \in Accounts : c[v] \in Nat /\ g[v] \in Nat /\ Staked[v] \in Nat
  BY BackingType, StakedType DEF Staked
<1>2. \A v \in Accounts : c[v] + g[v] <= Staked[v]
  <2>. SUFFICES ASSUME NEW v \in Accounts
                PROVE  c[v] + g[v] <= Staked[v]
    OBVIOUS
  <2>1. Staked[v] = StakedBy(v) /\ StakedBy(v) \in Nat
    BY StakedType DEF Staked
  <2>2. Backing("company", p, v) = 0 \/ Backing("government", p, v) = 0
    BY DEF Backing
  <2>3. /\ Backing("company", p, v) \in {0, StakedBy(v)}
        /\ Backing("government", p, v) \in {0, StakedBy(v)}
    BY DEF Backing, StakedBy, VoterRow
  <2>. QED  BY <2>1, <2>2, <2>3
<1>3. Support("company", p) = SumFunctionOnSet(c, Accounts)
      /\ Support("government", p) = SumFunctionOnSet(g, Accounts)
  BY DEF Support
<1>. HIDE DEF c, g
<1>4. SumFunctionOnSet(c, Accounts) \in Nat /\ SumFunctionOnSet(g, Accounts) \in Nat
  BY <1>1, SumType
<1>5. SumFunctionOnSet(c, Accounts) + SumFunctionOnSet(g, Accounts)
        <= SumFunctionOnSet(Staked, Accounts)
  BY <1>1, <1>2, SumPairBound
<1>. QED  BY <1>3, <1>4, <1>5

LEMMA TimesMonotonic ==
  ASSUME NEW x \in Nat, NEW a \in Nat, NEW b \in Nat, a <= b
  PROVE  x * a <= x * b /\ a * x <= b * x
OBVIOUS

LEMMA StakedSum == VotingTypeOK => SumFunctionOnSet(Staked, Accounts) \in Nat
<1>. SUFFICES ASSUME VotingTypeOK PROVE SumFunctionOnSet(Staked, Accounts) \in Nat
  OBVIOUS
<1>1. \A v \in Accounts : Staked[v] \in Nat
  BY StakedType DEF Staked
<1>. QED  BY <1>1, SumType

LEMMA ChangeStakeBounded ==
  ASSUME VotingTypeOK, NEW v \in Accounts, NEW d \in Int, ChangeStake(v, d)
  PROVE  StakeBounded'
<1>. DEFINE f == Staked
            g == [a \in Accounts |-> StakedBy(a)']
<1>1. update_voting_power(v, d) /\ SumFunctionOnSet(Staked, Accounts) + d <= MaxStake
  BY DEF ChangeStake
<1>2. \A a : StakedBy(a)' = IF a = v THEN StakedBy(a) + d ELSE StakedBy(a)
  BY <1>1, StakeEffect
<1>3. /\ \A a \in Accounts : f[a] \in Int /\ g[a] \in Int
      /\ \A a \in Accounts \ {v} : f[a] = g[a]
      /\ g[v] - f[v] = d
  BY <1>2, StakedType DEF Staked
<1>4. SumFunctionOnSet(Staked, Accounts)' = SumFunctionOnSet(g, Accounts)
  BY DEF Staked
<1>5. SumFunctionOnSet(f, Accounts) \in Nat
  BY StakedSum
<1>. HIDE DEF f, g
<1>6. SumFunctionOnSet(g, Accounts) = SumFunctionOnSet(f, Accounts) + g[v] - f[v]
  BY <1>3, SumUpdate
<1>7. SumFunctionOnSet(g, Accounts) = SumFunctionOnSet(f, Accounts) + d
  BY <1>3, <1>5, <1>6
<1>. QED  BY <1>1, <1>4, <1>7 DEF StakeBounded, f

LEMMA BoundedAtFirst == VotingInit => StakeBounded
<1>. SUFFICES ASSUME VotingInit PROVE StakeBounded
  OBVIOUS
<1>1. \A a \in Accounts : Staked[a] = 0
  BY DEF VotingInit, EmptyTable, Staked, StakedBy, VoterRow
<1>2. SumFunctionOnSet(Staked, Accounts) = 0
  BY <1>1, SumZero
<1>. QED  BY <1>2 DEF StakeBounded

-----------------------------------------------------------------------------
(* Elections.  The order of the index is total, so the scan that stops at  *)
(* its first unelectable row, or when it is full, collects the producers   *)
(* ahead of the first electable one it leaves out, or all of them.         *)

(* The types that make Before an order.                                    *)
Ranked == \A p \in DOMAIN producers : p \in Nat /\ by_votes(p) \in Int

LEMMA RankedIfTyped == VotingTypeOK => Ranked
BY DEF VotingTypeOK, IsTable, Producer, Ranked, by_votes

LEMMA BeforeIsOrder ==
  ASSUME Ranked
  PROVE  /\ \A p \in DOMAIN producers : ~ Before(p, p)
         /\ \A p, q, r \in DOMAIN producers : Before(p, q) /\ Before(q, r) => Before(p, r)
         /\ \A p, q \in DOMAIN producers : p # q => Before(p, q) \/ Before(q, p)
BY DEF Ranked, Before

(* A finite set of producers has a first and a last one.                   *)
LEMMA FirstAndLast ==
  ASSUME Ranked, NEW S, S \subseteq DOMAIN producers, IsFiniteSet(S), S # {}
  PROVE  /\ \E m \in S : \A q \in S : ~ Before(q, m)
         /\ \E m \in S : \A q \in S : ~ Before(m, q)
<1>1. \E m \in S : \A q \in S : ~ Before(q, m)
  <2>. DEFINE ahead(p) == {q \in S : Before(q, p)}
              W == {ahead(p) : p \in S}
  <2>1. W \in SUBSET (SUBSET S) /\ W # {}
    OBVIOUS
  <2>2. PICK T \in W : \A U \in SUBSET T : U # T => U \notin W
    <3>. HIDE DEF W
    <3>. QED  BY <2>1, MinimalSubset
  <2>3. PICK m \in S : T = ahead(m)
    OBVIOUS
  <2>4. ASSUME NEW q \in S, Before(q, m)
        PROVE  FALSE
    <3>1. ahead(q) \in W
      OBVIOUS
    <3>2. ahead(q) \in SUBSET T /\ q \in T /\ q \notin ahead(q)
      BY <2>3, <2>4, BeforeIsOrder
    <3>. HIDE DEF ahead, W
    <3>. QED  BY <2>2, <3>1, <3>2
  <2>. QED  BY <2>4
<1>2. \E m \in S : \A q \in S : ~ Before(m, q)
  <2>. DEFINE behind(p) == {q \in S : Before(p, q)}
              W == {behind(p) : p \in S}
  <2>1. W \in SUBSET (SUBSET S) /\ W # {}
    OBVIOUS
  <2>2. PICK T \in W : \A U \in SUBSET T : U # T => U \notin W
    <3>. HIDE DEF W
    <3>. QED  BY <2>1, MinimalSubset
  <2>3. PICK m \in S : T = behind(m)
    OBVIOUS
  <2>4. ASSUME NEW q \in S, Before(m, q)
        PROVE  FALSE
    <3>1. behind(q) \in W
      OBVIOUS
    <3>2. behind(q) \in SUBSET T /\ q \in T /\ q \notin behind(q)
      BY <2>3, <2>4, BeforeIsOrder
    <3>. HIDE DEF behind, W
    <3>. QED  BY <2>2, <3>1, <3>2
  <2>. QED  BY <2>4
<1>. QED  BY <1>1, <1>2

(* The rows ahead of p in the index.                                       *)
Ahead(p) == {q \in DOMAIN producers : Before(q, p)}

LEMMA TopUnfold ==
  TopProducers = {p \in DOMAIN producers : /\ \A q \in Ahead(p) \cup {p} : Scannable(q)
                                           /\ Cardinality(Ahead(p)) < TopSize}
BY DEF TopProducers, Ahead

LEMMA ProducersFinite ==
  ASSUME VotingTypeOK, NEW S, S \subseteq DOMAIN producers
  PROVE  IsFiniteSet(S) /\ Cardinality(S) \in Nat
<1>1. S \subseteq Candidates
  BY DEF VotingTypeOK, IsTable
<1>2. IsFiniteSet(S)
  BY <1>1, FS_Subset
<1>. QED  BY <1>2, FS_CardinalityType

(* Only electable producers rank ahead of one no wrapped weight hides.     *)
LEMMA AheadIsScannable ==
  ASSUME VotingTypeOK, NEW p \in DOMAIN producers, Scannable(p), ~HiddenByWrap(p)
  PROVE  \A q \in Ahead(p) : Scannable(q)
<1>1. \A q \in DOMAIN producers : producers[q].total_vote_weight \in Int
                                  /\ producers[q].is_active \in BOOLEAN
  BY DEF VotingTypeOK, IsTable, Producer
<1>. QED  BY <1>1 DEF Ahead, Before, by_votes, Scannable, HiddenByWrap

(* What the scan collects.                                                 *)
LEMMA TopIsFair ==
  ASSUME VotingTypeOK
  PROVE  /\ \A p \in TopProducers : Electable(p)
         /\ \A p \in TopProducers, q \in DOMAIN producers \ TopProducers :
              Electable(q) =>
                producers[q].total_vote_weight <= producers[p].total_vote_weight
         /\ Cardinality(TopProducers) <= TopSize
         /\ \A q \in DOMAIN producers \ TopProducers :
              Electable(q) => Cardinality(TopProducers) = TopSize \/ HiddenByWrap(q)
<1>. DEFINE top == TopProducers
            out == {q \in DOMAIN producers : Electable(q)} \ top
<1>0. /\ Ranked
      /\ \A p : Electable(p) <=> Scannable(p)
      /\ \A q \in DOMAIN producers :
           Electable(q) /\ ~HiddenByWrap(q) => \A r \in Ahead(q) : Scannable(r)
      /\ top \subseteq DOMAIN producers
      /\ \A p \in DOMAIN producers :
           p \in top <=> /\ \A q \in Ahead(p) \cup {p} : Scannable(q)
                         /\ Cardinality(Ahead(p)) < TopSize
      /\ \A q \in DOMAIN producers : Ahead(q) \subseteq DOMAIN producers
      /\ \A S : S \subseteq DOMAIN producers => IsFiniteSet(S) /\ Cardinality(S) \in Nat
  <2>1. \A p : Electable(p) <=> Scannable(p)
    BY DEF Electable, Scannable
  <2>2. \A q \in DOMAIN producers :
          Electable(q) /\ ~HiddenByWrap(q) => \A r \in Ahead(q) : Scannable(r)
    BY <2>1, AheadIsScannable
  <2>3. \A S : S \subseteq DOMAIN producers => IsFiniteSet(S) /\ Cardinality(S) \in Nat
    BY ProducersFinite
  <2>4. \A q \in DOMAIN producers : Ahead(q) \subseteq DOMAIN producers
    BY DEF Ahead
  <2>. QED  BY <2>1, <2>2, <2>3, <2>4, RankedIfTyped, TopUnfold
<1>1. \A p \in top : Electable(p)
  BY <1>0
<1>. HIDE DEF top
(* Nobody left out is ahead of anybody taken.                              *)
<1>2. ASSUME NEW p \in top, NEW q \in out
      PROVE  Before(p, q)
  <2>1. p \in DOMAIN producers /\ q \in DOMAIN producers /\ p # q
    BY <1>0
  <2>2. ASSUME Before(q, p)
        PROVE  FALSE
    <3>1. Ahead(q) \subseteq Ahead(p)
      BY <1>0, <2>1, <2>2, BeforeIsOrder DEF Ahead
    <3>2. IsFiniteSet(Ahead(p)) /\ Cardinality(Ahead(q)) \in Nat
          /\ Cardinality(Ahead(p)) \in Nat
      BY <1>0, <2>1
    <3>3. Cardinality(Ahead(q)) <= Cardinality(Ahead(p))
      BY <3>1, <3>2, FS_Subset
    <3>4. Cardinality(Ahead(p)) < TopSize
      BY <1>0, <2>1
    <3>5. Cardinality(Ahead(q)) < TopSize
      BY <3>2, <3>3, <3>4
    <3>6. \A r \in Ahead(q) \cup {q} : Scannable(r)
      BY <1>0, <2>1, <3>1
    <3>. QED  BY <1>0, <2>1, <3>5, <3>6
  <2>. QED  BY <1>0, <2>1, <2>2, BeforeIsOrder
<1>3. ASSUME NEW p \in top, NEW q \in out
      PROVE  producers[q].total_vote_weight <= producers[p].total_vote_weight
  <2>1. p \in DOMAIN producers /\ q \in DOMAIN producers /\ Electable(p) /\ Electable(q)
    BY <1>0, <1>1
  <2>2. producers[p] \in Producer /\ producers[q] \in Producer
    BY <2>1 DEF VotingTypeOK, IsTable
  <2>3. by_votes(p) = 0 - producers[p].total_vote_weight
        /\ by_votes(q) = 0 - producers[q].total_vote_weight
    BY <2>1 DEF Electable, by_votes
  <2>4. by_votes(p) <= by_votes(q)
    <3>1. Before(p, q) /\ by_votes(p) \in Int /\ by_votes(q) \in Int
      BY <1>0, <1>2, <2>1 DEF Ranked
    <3>. QED  BY <3>1 DEF Before
  <2>. QED  BY <2>2, <2>3, <2>4 DEF Producer
<1>4. Cardinality(top) <= TopSize
  <2>1. CASE top = {}
    BY <2>1, FS_EmptySet
  <2>2. CASE top # {}
    <3>1. PICK m \in top : \A q \in top : ~ Before(m, q)
      BY <1>0, <2>2, FirstAndLast
    <3>2. m \in DOMAIN producers /\ Cardinality(Ahead(m)) < TopSize
          /\ Cardinality(Ahead(m)) \in Nat /\ IsFiniteSet(Ahead(m))
      BY <1>0
    <3>3. top \ {m} \subseteq Ahead(m)
      BY <1>0, <3>1, BeforeIsOrder DEF Ahead
    <3>4. Cardinality(top \ {m}) <= Cardinality(Ahead(m))
      BY <3>2, <3>3, FS_Subset
    <3>5. Cardinality(top \ {m}) = Cardinality(top) - 1 /\ Cardinality(top) \in Nat
      BY <1>0, FS_RemoveElement
    <3>. QED  BY <3>2, <3>4, <3>5
  <2>. QED  BY <2>1, <2>2
(* When one left out is not hidden, everybody ahead of the first one left  *)
(* out is taken, and nobody else.                                          *)
<1>5. ASSUME NEW q0 \in out, ~HiddenByWrap(q0)
      PROVE  Cardinality(top) = TopSize
  <2>1. out \subseteq DOMAIN producers /\ IsFiniteSet(out) /\ out # {}
    BY <1>0
  <2>0. q0 \in DOMAIN producers /\ Electable(q0)
    OBVIOUS
  <2>. HIDE DEF out
  <2>2. PICK q \in out : \A r \in out : ~ Before(r, q)
    BY <1>0, <2>1, FirstAndLast
  <2>3. q \in DOMAIN producers /\ Electable(q) /\ q \notin top
    BY <2>2 DEF out
  <2>4. Ahead(q) \subseteq Ahead(q0)
    <3>1. q = q0 \/ Before(q, q0)
      BY <1>0, <2>0, <2>2, <2>3, BeforeIsOrder
    <3>. QED  BY <1>0, <2>0, <2>3, <3>1, BeforeIsOrder DEF Ahead
  <2>5. \A r \in Ahead(q) : Scannable(r)
    BY <1>0, <1>5, <2>0, <2>4
  <2>6. Ahead(q) \subseteq top
    <3>. SUFFICES ASSUME NEW r \in Ahead(q), r \notin top
                  PROVE  FALSE
      OBVIOUS
    <3>1. r \in DOMAIN producers /\ Before(r, q) /\ Scannable(r)
      BY <2>5 DEF Ahead
    <3>2. r \in out
      BY <1>0, <3>1 DEF out
    <3>. QED  BY <2>2, <3>1, <3>2
  <2>7. IsFiniteSet(top) /\ Cardinality(top) \in Nat /\ Cardinality(Ahead(q)) \in Nat
    BY <1>0, <2>3
  <2>8. Cardinality(Ahead(q)) <= Cardinality(top)
    BY <2>6, <2>7, FS_Subset
  <2>9. ~ (Cardinality(Ahead(q)) < TopSize)
    BY <1>0, <2>3, <2>5
  <2>. QED  BY <1>4, <2>7, <2>8, <2>9
<1>. QED  BY <1>1, <1>3, <1>4, <1>5 DEF top

(* Only update_elected_producers changes the schedule.                     *)
LEMMA OnlyElectionProposes ==
  ASSUME VotingTypeOK, [VotingNext]_votingVars, <<gstate, proposed>>' # <<gstate, proposed>>
  PROVE  \E t \in Nat : update_elected_producers(t)
<1>1. ASSUME NEW t \in FirstSlot..MaxSlot, onblock(t)
      PROVE  update_elected_producers(t)
  BY <1>1 DEF onblock
<1>2. CASE \E v \in Accounts, ballot \in SUBSET Candidates : voteproducer(v, ballot)
  BY <1>2 DEF voteproducer
<1>3. CASE \E v \in Accounts, d \in (0 - MaxStake)..MaxStake : ChangeStake(v, d)
  BY <1>3 DEF ChangeStake
<1>4. CASE \E c, g \in WeightInputs : setvweight(c, g)
  BY <1>4 DEF setvweight
<1>5. CASE \E a \in TypeInputs, t \in AccountTypes : setacntype(a, t)
  BY <1>5 DEF setacntype
<1>6. CASE \E p \in Candidates : \/ \E key \in Keys \cup {NoKey} : regproducer(p, key)
                                 \/ deactivate(p)
  BY <1>6 DEF regproducer, deactivate
<1>7. ~ UNCHANGED votingVars
  BY DEF votingVars
<1>8. FirstSlot..MaxSlot \subseteq Nat
  OBVIOUS
<1>. QED  BY <1>1, <1>2, <1>3, <1>4, <1>5, <1>6, <1>7, <1>8
          DEF VotingNext, VotingActions, unregprod, rmvproducer

LEMMA FairStep ==
  ASSUME VotingInv, [VotingNext]_votingVars, proposed' # proposed
  PROVE  LET in == DOMAIN proposed'
             out == {p \in DOMAIN producers : Electable(p)} \ in
         IN  /\ \A p \in in : Electable(p) /\ proposed'[p] # NoKey
             /\ \A p \in in, q \in out :
                  producers[q].total_vote_weight <= producers[p].total_vote_weight
             /\ Cardinality(in) <= TopSize
             /\ \A q \in out : Cardinality(in) = TopSize \/ HiddenByWrap(q)
<1>1. VotingTypeOK /\ ActiveHasKey
  BY DEF VotingInv
<1>2. PICK t \in Nat : update_elected_producers(t)
  BY <1>1, OnlyElectionProposes
<1>3. proposed' = [p \in TopProducers |-> producers[p].producer_key]
  BY <1>2 DEF update_elected_producers
<1>4. \A p \in TopProducers : p \in DOMAIN producers
  BY DEF TopProducers
<1>5. \A p \in TopProducers : Electable(p) /\ producers[p].producer_key # NoKey
  BY <1>1, <1>4, TopIsFair DEF Electable, ActiveHasKey
<1>6. DOMAIN proposed' = TopProducers
      /\ \A p \in TopProducers : proposed'[p] = producers[p].producer_key
  BY <1>3
<1>. QED  BY <1>1, <1>5, <1>6, TopIsFair

(* Every schedule the chain accepts is made of the electable producers with*)
(* the highest weights, as many as there are up to TopSize, but for those  *)
(* a wrapped weight hides: whatever is staked and weighed.                 *)
THEOREM ElectionAlwaysFair == VotingSpec => ElectionIsFair
<1>1. VotingInv /\ [VotingNext]_votingVars =>
        [proposed' # proposed =>
           LET in == DOMAIN proposed'
               out == {p \in DOMAIN producers : Electable(p)} \ in
           IN  /\ \A p \in in : Electable(p) /\ proposed'[p] # NoKey
               /\ \A p \in in, q \in out :
                    producers[q].total_vote_weight <= producers[p].total_vote_weight
               /\ Cardinality(in) <= TopSize
               /\ \A q \in out : Cardinality(in) = TopSize \/ HiddenByWrap(q)]_votingVars
  BY FairStep
<1>. QED  BY <1>1, VotingInvInit, VotingInvStep, PTL DEF VotingSpec, ElectionIsFair

-----------------------------------------------------------------------------
(* The size on record is that of the schedule in force.                    *)
SizeInv == /\ VotingTypeOK
           /\ gstate.last_size > 0 => Cardinality(DOMAIN proposed) = gstate.last_size

LEMMA SizeStep ==
  ASSUME SizeInv, [VotingNext]_votingVars
  PROVE  /\ SizeInv'
         /\ gstate.last_size > 0 /\ proposed' # proposed =>
              Cardinality(DOMAIN proposed') >= Cardinality(DOMAIN proposed)
<1>1. VotingTypeOK'
  BY VotingTypeStep DEF SizeInv
<1>2. CASE <<gstate, proposed>>' = <<gstate, proposed>>
  BY <1>1, <1>2 DEF SizeInv
<1>3. CASE <<gstate, proposed>>' # <<gstate, proposed>>
  <2>1. PICK t \in Nat : update_elected_producers(t)
    BY <1>3, OnlyElectionProposes DEF SizeInv
  <2>2. gstate \in [last_update: Nat, last_size: Nat]
    BY DEF SizeInv, VotingTypeOK
  <2>3. CASE gstate' = [gstate EXCEPT !.last_update = t] /\ UNCHANGED proposed
    BY <1>1, <2>2, <2>3 DEF SizeInv
  <2>4. CASE /\ Proposable(TopProducers)
             /\ proposed' = [p \in TopProducers |-> producers[p].producer_key]
             /\ gstate' = [last_update |-> t, last_size |-> Cardinality(TopProducers)]
    <3>1. DOMAIN proposed' = TopProducers /\ gstate'.last_size = Cardinality(TopProducers)
          /\ Cardinality(TopProducers) >= gstate.last_size
      BY <2>4 DEF Proposable
    <3>. QED  BY <1>1, <3>1 DEF SizeInv
  <2>. QED  BY <2>1, <2>3, <2>4 DEF update_elected_producers
<1>. QED  BY <1>2, <1>3

(* After the first election no schedule is replaced by a shorter one.      *)
THEOREM ScheduleKeepsSize == VotingSpec => ScheduleNeverShrinks
<1>1. VotingInit => SizeInv
  BY VotingTypeInit DEF VotingInit, SizeInv
<1>2. SizeInv /\ [VotingNext]_votingVars =>
        /\ SizeInv'
        /\ [gstate.last_size > 0 /\ proposed' # proposed =>
              Cardinality(DOMAIN proposed') >= Cardinality(DOMAIN proposed)]_votingVars
  BY SizeStep
<1>. QED  BY <1>1, <1>2, PTL DEF VotingSpec, ScheduleNeverShrinks

-----------------------------------------------------------------------------
(* When the promises about ballots hold that the contract does not keep in *)
(* general: what voters and producers would have to observe for them.      *)
BallotOf(v) == VoterRow(v).producers

(* A ballot changes only to registered producers, stake behind it or not.  *)
BallotsChecked ==
  \A v \in Accounts : BallotOf(v)' # BallotOf(v) => VisitAccepted(TRUE, BallotOf(v)')

(* A producer leaves only while no ballot names it.                        *)
LeaversUnnamed ==
  \A p \in DOMAIN producers :
    producers[p].is_active /\ ~producers'[p].is_active =>
      \A v \in Accounts : p \notin BallotOf(v)

(* A step changes ballots or registrations, not both, and removes no row.  *)
LEMMA BallotStep ==
  ASSUME VotingInv, [VotingNext]_votingVars
  PROVE  /\ DOMAIN producers \subseteq DOMAIN producers'
         /\ \/ \A v \in Accounts : BallotOf(v)' = BallotOf(v)
            \/ \A p \in DOMAIN producers : producers'[p].is_active = producers[p].is_active
<1>. DEFINE Kept == /\ DOMAIN producers \subseteq DOMAIN producers'
                    /\ \/ \A v \in Accounts : BallotOf(v)' = BallotOf(v)
                       \/ \A p \in DOMAIN producers :
                            producers'[p].is_active = producers[p].is_active
<1>. SUFFICES Kept
  OBVIOUS
<1>0. VotingTypeOK
  BY DEF VotingInv
<1>1. ASSUME voters' = voters, DOMAIN producers \subseteq DOMAIN producers'
      PROVE  Kept
  BY <1>1 DEF BallotOf, VoterRow
<1>2. ASSUME NEW p \in Candidates, NEW key, regproducer(p, key)
      PROVE  Kept
  BY <1>1, <1>2 DEF regproducer, Upsert
<1>3. ASSUME NEW p \in Candidates, deactivate(p)
      PROVE  Kept
  BY <1>1, <1>3 DEF deactivate
<1>4. ASSUME NEW v \in Accounts, NEW ballot, voteproducer(v, ballot)
      PROVE  Kept
  <2>1. update_producers_votes(acntype[v], TRUE, voters[v].producers, voters[v].staked,
                               ballot, voters[v].staked)
    BY <1>4 DEF voteproducer
  <2>. QED  BY <1>0, <2>1, VotesKeepRows
<1>5. ASSUME NEW v \in Accounts, NEW d \in Int, update_voting_power(v, d)
      PROVE  Kept
  <2>. DEFINE row == [VoterRow(v) EXCEPT !.staked = VoterRow(v).staked + d]
  <2>1. VoterRow(v) \in Voter
    BY <1>0, VoterRowType DEF VotingTypeOK
  <2>2. voters' = Upsert(voters, v, row) /\ row.producers = VoterRow(v).producers
    BY <1>5, <2>1 DEF update_voting_power, Voter
  <2>. HIDE DEF row
  <2>3. \A a \in Accounts : BallotOf(a)' = BallotOf(a)
    BY <2>2 DEF Upsert, BallotOf, VoterRow
  <2>4. DOMAIN producers' = DOMAIN producers
    <3>1. CASE VoterRow(v).producers # {} /\ v \in DOMAIN acntype
      BY <1>0, <1>5, <3>1, VotesKeepRows DEF update_voting_power
    <3>2. CASE ~ (VoterRow(v).producers # {} /\ v \in DOMAIN acntype)
      BY <1>5, <3>2 DEF update_voting_power
    <3>. QED  BY <3>1, <3>2
  <2>. QED  BY <2>3, <2>4
<1>6. ASSUME UNCHANGED <<voters, producers>>
      PROVE  Kept
  BY <1>1, <1>6
<1>7. CASE \E c, g \in WeightInputs : setvweight(c, g)
  BY <1>6, <1>7 DEF setvweight
<1>8. CASE \E a \in TypeInputs, t \in AccountTypes : setacntype(a, t)
  BY <1>6, <1>8 DEF setacntype
<1>9. CASE \E t \in FirstSlot..MaxSlot : onblock(t)
  BY <1>6, <1>9 DEF onblock
<1>10. CASE \E v \in Accounts, d \in (0 - MaxStake)..MaxStake : ChangeStake(v, d)
  <2>1. PICK v \in Accounts, d \in (0 - MaxStake)..MaxStake : ChangeStake(v, d)
    BY <1>10
  <2>2. d \in Int /\ update_voting_power(v, d)
    BY <2>1 DEF ChangeStake
  <2>. QED  BY <1>5, <2>2
<1>11. CASE UNCHANGED votingVars
  BY <1>6, <1>11 DEF votingVars
<1>. HIDE DEF Kept
<1>12. CASE \E p \in Candidates : \/ \E key \in Keys \cup {NoKey} : regproducer(p, key)
                                  \/ deactivate(p)
  BY <1>2, <1>3, <1>12
<1>13. CASE \E v \in Accounts, ballot \in SUBSET Candidates : voteproducer(v, ballot)
  BY <1>4, <1>13
<1>. QED
  BY <1>7, <1>8, <1>9, <1>10, <1>11, <1>12, <1>13
     DEF VotingNext, VotingActions, unregprod, rmvproducer

(* Every ballot, stake behind it or not, names rows, or active ones.       *)
BallotsNameRows == \A v \in Accounts : VisitAccepted(FALSE, BallotOf(v))
BallotsNameActive == \A v \in Accounts : VisitAccepted(TRUE, BallotOf(v))

LEMMA BallotsStayNamed ==
  ASSUME VotingInv, [VotingNext]_votingVars, BallotsChecked
  PROVE  /\ BallotsNameRows => BallotsNameRows'
         /\ LeaversUnnamed /\ BallotsNameActive => BallotsNameActive'
<1>1. /\ DOMAIN producers \subseteq DOMAIN producers'
      /\ \/ \A v \in Accounts : BallotOf(v)' = BallotOf(v)
         \/ \A p \in DOMAIN producers : producers'[p].is_active = producers[p].is_active
  BY BallotStep
<1>2. BallotsNameRows => BallotsNameRows'
  BY <1>1 DEF BallotsNameRows, BallotsChecked, VisitAccepted
<1>3. ASSUME LeaversUnnamed, BallotsNameActive
      PROVE  BallotsNameActive'
  <2>1. \A v \in Accounts : VisitAccepted(TRUE, BallotOf(v)')
    BY <1>3 DEF BallotsNameActive, BallotsChecked
  <2>2. ASSUME NEW v \in Accounts, NEW p \in BallotOf(v)'
        PROVE  p \in DOMAIN producers' /\ producers'[p].is_active
    <3>1. p \in DOMAIN producers /\ producers[p].is_active
      BY <2>1 DEF VisitAccepted
    <3>. QED  BY <1>1, <1>3, <3>1 DEF LeaversUnnamed
  <2>. QED  BY <2>2 DEF BallotsNameActive, VisitAccepted
<1>. QED  BY <1>2, <1>3

LEMMA NoBallotAtFirst == VotingInit => BallotsNameRows /\ BallotsNameActive
BY DEF VotingInit, BallotsNameRows, BallotsNameActive, BallotOf, VoterRow, VisitAccepted,
       EmptyTable

(* The check that is skipped for a ballot without stake is all that keeps  *)
(* an account from staking: where every ballot cast names registered       *)
(* producers, update_voting_power never aborts on a missing row.           *)
THEOREM VotersCanStakeIfChecked ==
  VotingSpec /\ [][BallotsChecked]_votingVars => []VotersCanStake
<1>1. VotingInv /\ BallotsNameRows /\ [VotingNext]_votingVars /\ [BallotsChecked]_votingVars
        => VotingInv' /\ BallotsNameRows'
  <2>. SUFFICES ASSUME VotingInv, BallotsNameRows, [VotingNext]_votingVars,
                       [BallotsChecked]_votingVars
                PROVE  VotingInv' /\ BallotsNameRows'
    OBVIOUS
  <2>1. BallotsChecked
    BY DEF votingVars, BallotsChecked, BallotOf, VoterRow
  <2>. QED  BY <2>1, VotingInvStep, BallotsStayNamed
<1>2. VotingInv /\ BallotsNameRows => VotersCanStake
  BY DEF VotingInv, VotingTypeOK, IsTable, BallotsNameRows, VotersCanStake, BallotOf,
         VoterRow, VisitAccepted, Visited
<1>. QED  BY <1>1, <1>2, VotingInvInit, NoBallotAtFirst, PTL DEF VotingSpec

(* And if besides a producer leaves only while no ballot names it, every   *)
(* account can take its ballot back whenever it likes: what locks a ballot *)
(* is a producer leaving under it, or having been named before it came.    *)
THEOREM BallotsCanBeWithdrawnIfUnnamed ==
  VotingSpec /\ [][BallotsChecked /\ LeaversUnnamed]_votingVars => []BallotCanBeWithdrawn
<1>1. /\ VotingInv /\ BallotsNameActive
      /\ [VotingNext]_votingVars /\ [BallotsChecked /\ LeaversUnnamed]_votingVars
      => VotingInv' /\ BallotsNameActive'
  <2>. SUFFICES ASSUME VotingInv, BallotsNameActive, [VotingNext]_votingVars,
                       [BallotsChecked /\ LeaversUnnamed]_votingVars
                PROVE  VotingInv' /\ BallotsNameActive'
    OBVIOUS
  <2>1. BallotsChecked /\ LeaversUnnamed
    BY DEF votingVars, BallotsChecked, LeaversUnnamed, BallotOf, VoterRow
  <2>. QED  BY <2>1, VotingInvStep, BallotsStayNamed
<1>2. VotingInv /\ BallotsNameActive => BallotCanBeWithdrawn
  BY DEF VotingInv, VotingTypeOK, IsTable, BallotsNameActive, BallotCanBeWithdrawn, BallotOf,
         VoterRow, VisitAccepted, Visited
<1>. QED  BY <1>1, <1>2, VotingInvInit, NoBallotAtFirst, PTL DEF VotingSpec

-----------------------------------------------------------------------------
(* When unstaking costs votes: while the product of what is staked and the *)
(* highest weight stays in the int64_t.                                    *)
StakeFits == MaxWeight * SumFunctionOnSet(Staked, Accounts) < Int64Half

(* The weight of votes backed by disjoint parts of a stake that fits.      *)
LEMMA WeightExact ==
  ASSUME NEW sum \in Nat, MaxWeight * sum < Int64Half,
         NEW c \in Nat, NEW g \in Nat, c + g <= sum,
         NEW wc \in MinWeight..MaxWeight, NEW wg \in MinWeight..MaxWeight
  PROVE  ToInt64(g * wg + c * wc) = g * wg + c * wc
<1>1. g * wg <= g * MaxWeight /\ c * wc <= c * MaxWeight
  BY TimesMonotonic
<1>2. MaxWeight * (c + g) <= MaxWeight * sum
  BY TimesMonotonic
<1>3. MaxWeight * (c + g) = c * MaxWeight + g * MaxWeight
  OBVIOUS
<1>4. /\ g * wg \in Nat /\ c * wc \in Nat /\ g * MaxWeight \in Nat /\ c * MaxWeight \in Nat
      /\ MaxWeight * sum \in Nat
  OBVIOUS
<1>5. g * wg + c * wc < Int64Half /\ g * wg + c * wc \in Nat
  BY ONLY <1>1, <1>2, <1>3, <1>4, MaxWeight * sum < Int64Half, VotingAssumption
<1>. QED  BY <1>5, ToInt64Exact

LEMMA VotesOnRecord ==
  VotingInv /\ WeightsInRange /\ StakeFits =>
    \A p \in DOMAIN producers :
      /\ producers[p].company_votes \in Nat /\ producers[p].government_votes \in Nat
      /\ CurrentWeight(p) = producers[p].government_votes * vwstate.government
                              + producers[p].company_votes * vwstate.company
<1>. SUFFICES ASSUME VotingInv, WeightsInRange, StakeFits, NEW p \in DOMAIN producers
              PROVE  /\ producers[p].company_votes \in Nat
                     /\ producers[p].government_votes \in Nat
                     /\ CurrentWeight(p) = producers[p].government_votes * vwstate.government
                                             + producers[p].company_votes * vwstate.company
  OBVIOUS
<1>. DEFINE sum == SumFunctionOnSet(Staked, Accounts)
            c == producers[p].company_votes
            g == producers[p].government_votes
<1>1. sum \in Nat /\ MaxWeight * sum < Int64Half
  BY StakedSum DEF VotingInv, StakeFits
<1>2. c \in Nat /\ g \in Nat /\ c + g <= sum
  BY SupportBounded DEF VotingInv, TallyCorrect
<1>3. CurrentWeight(p) = ToInt64(g * vwstate.government + c * vwstate.company)
  BY DEF CurrentWeight
<1>4. vwstate.company \in MinWeight..MaxWeight /\ vwstate.government \in MinWeight..MaxWeight
  BY DEF WeightsInRange
<1>. HIDE DEF sum, c, g
<1>5. ToInt64(g * vwstate.government + c * vwstate.company)
        = g * vwstate.government + c * vwstate.company
  <2>. DEFINE wc == vwstate.company
              wg == vwstate.government
  <2>1. wc \in MinWeight..MaxWeight /\ wg \in MinWeight..MaxWeight
    BY <1>4
  <2>. HIDE DEF wc, wg
  <2>2. /\ sum \in Nat /\ MaxWeight * sum < Int64Half /\ c \in Nat /\ g \in Nat /\ c + g <= sum
        /\ wc \in MinWeight..MaxWeight /\ wg \in MinWeight..MaxWeight
    BY <1>1, <1>2, <2>1
  <2>3. ToInt64(g * wg + c * wc) = g * wg + c * wc
    BY ONLY <2>2, WeightExact
  <2>. QED  BY <2>3 DEF wc, wg
<1>6. CurrentWeight(p) = g * vwstate.government + c * vwstate.company
  BY <1>3, <1>5
<1>. QED  BY <1>2, <1>6 DEF c, g

LEMMA VotesOnRecordNext ==
  ((VotingInv /\ WeightsInRange /\ StakeFits) =>
     \A p \in DOMAIN producers :
       /\ producers[p].company_votes \in Nat /\ producers[p].government_votes \in Nat
       /\ CurrentWeight(p) = producers[p].government_votes * vwstate.government
                               + producers[p].company_votes * vwstate.company)'
BY VotesOnRecord, PTL

(* What less stake does to the row of a producer.                          *)
LEMMA UnstakeLowersVotes ==
  ASSUME VotingTypeOK, NEW v \in Accounts, NEW d \in Int, d < 0, update_voting_power(v, d),
         NEW p \in DOMAIN producers
  PROVE  /\ p \in DOMAIN producers'
         /\ \/ producers'[p] = producers[p]
            \/ /\ producers'[p].company_votes <= producers[p].company_votes
               /\ producers'[p].government_votes <= producers[p].government_votes
               /\ producers'[p].total_vote_weight
                    = ToInt64(producers'[p].government_votes * vwstate.government
                              + producers'[p].company_votes * vwstate.company)
<1>. DEFINE row == VoterRow(v)
            ns == row.staked + d
            votes(q) == (IF q \in row.producers THEN ns ELSE 0)
                          - (IF q \in row.producers THEN row.staked ELSE 0)
<1>1. row \in Voter /\ row.staked \in Int
  <2>1. row \in Voter
    BY VoterRowType DEF VotingTypeOK
  <2>. QED  BY <2>1 DEF Voter
<1>2. producers[p] \in Producer
  BY DEF VotingTypeOK, IsTable
<1>3. votes(p) \in Int /\ votes(p) <= 0
  BY <1>1
<1>4. CASE UNCHANGED producers
  BY <1>4
<1>5. CASE ~ UNCHANGED producers
  <2>1. producers' = [q \in DOMAIN producers |->
                        IF q \in Visited(row.producers, row.staked, row.producers, ns)
                        THEN Credited(producers[q], acntype[v], votes(q))
                        ELSE producers[q]]
    BY <1>5 DEF update_voting_power, update_producers_votes
  <2>. HIDE DEF row, ns, votes
  <2>2. ASSUME producers'[p] = Credited(producers[p], acntype[v], votes(p))
        PROVE  /\ producers'[p].company_votes <= producers[p].company_votes
               /\ producers'[p].government_votes <= producers[p].government_votes
               /\ producers'[p].total_vote_weight
                    = ToInt64(producers'[p].government_votes * vwstate.government
                              + producers'[p].company_votes * vwstate.company)
    <3>. DEFINE c == producers[p].company_votes
                       + (IF acntype[v] = "company" THEN votes(p) ELSE 0)
                g == producers[p].government_votes
                       + (IF acntype[v] = "company" THEN 0 ELSE votes(p))
    <3>1. /\ producers'[p].company_votes = c /\ producers'[p].government_votes = g
          /\ producers'[p].total_vote_weight
               = ToInt64(g * vwstate.government + c * vwstate.company)
      BY <1>2, <2>2 DEF Credited, Producer
    <3>2. c <= producers[p].company_votes /\ g <= producers[p].government_votes
      BY <1>2, <1>3 DEF Producer
    <3>. HIDE DEF c, g
    <3>. QED  BY <3>1, <3>2
  <2>. QED  BY <2>1, <2>2
<1>. QED  BY <1>4, <1>5

LEMMA UnstakeStepLoses ==
  ASSUME VotingInv, VotingInv', WeightsInRange, WeightsInRange', StakeFits, StakeFits',
         [VotingNext]_votingVars, \E v \in Accounts : StakedBy(v)' < StakedBy(v),
         NEW p \in DOMAIN producers, producers[p].total_vote_weight = CurrentWeight(p)
  PROVE  producers'[p].total_vote_weight <= producers[p].total_vote_weight
<1>0. VotingTypeOK /\ \A v : StakedBy(v) \in Nat
  BY StakedType DEF VotingInv
<1>1. PICK v \in Accounts, d \in (0 - MaxStake)..MaxStake : ChangeStake(v, d)
  <2>1. ~ UNCHANGED votingVars
    BY <1>0 DEF votingVars, StakedBy, VoterRow
  <2>2. ~ VotingActions
    BY <1>0, VotingKeepsStake
  <2>. QED  BY <2>1, <2>2 DEF VotingNext
<1>2. d \in Int /\ update_voting_power(v, d) /\ UNCHANGED vwstate
  BY <1>1 DEF ChangeStake
<1>3. d < 0
  BY <1>0, <1>2, StakeEffect
<1>4. /\ p \in DOMAIN producers'
      /\ \/ producers'[p] = producers[p]
         \/ /\ producers'[p].company_votes <= producers[p].company_votes
            /\ producers'[p].government_votes <= producers[p].government_votes
            /\ producers'[p].total_vote_weight
                 = ToInt64(producers'[p].government_votes * vwstate.government
                           + producers'[p].company_votes * vwstate.company)
  BY <1>0, <1>2, <1>3, UnstakeLowersVotes
<1>. DEFINE c == producers[p].company_votes
            g == producers[p].government_votes
            c2 == producers'[p].company_votes
            g2 == producers'[p].government_votes
            wc == vwstate.company
            wg == vwstate.government
<1>5. producers[p] \in Producer
  BY <1>0 DEF VotingTypeOK, IsTable
<1>6. /\ c \in Nat /\ g \in Nat /\ producers[p].total_vote_weight = g * wg + c * wc
  BY VotesOnRecord
<1>7. /\ c2 \in Nat /\ g2 \in Nat
      /\ ToInt64(g2 * wg + c2 * wc) = g2 * wg + c2 * wc
  <2>1. (/\ producers[p].company_votes \in Nat /\ producers[p].government_votes \in Nat
         /\ CurrentWeight(p) = producers[p].government_votes * vwstate.government
                                 + producers[p].company_votes * vwstate.company)'
    BY <1>4, VotesOnRecordNext
  <2>. QED  BY <1>2, <2>1 DEF CurrentWeight, ToInt64
<1>8. wc \in Nat /\ wg \in Nat
  BY DEF WeightsInRange
<1>9. CASE producers'[p] = producers[p]
  BY <1>5, <1>9 DEF Producer
<1>10. CASE c2 <= c /\ g2 <= g /\ producers'[p].total_vote_weight = ToInt64(g2 * wg + c2 * wc)
  <2>1. /\ producers'[p].total_vote_weight = g2 * wg + c2 * wc
        /\ producers[p].total_vote_weight = g * wg + c * wc
    BY <1>6, <1>7, <1>10
  <2>. HIDE DEF c, g, c2, g2, wc, wg
  <2>2. c2 * wc <= c * wc /\ g2 * wg <= g * wg
    BY <1>6, <1>7, <1>8, <1>10, TimesMonotonic
  <2>3. c2 * wc \in Nat /\ c * wc \in Nat /\ g2 * wg \in Nat /\ g * wg \in Nat
    BY <1>6, <1>7, <1>8
  <2>. QED  BY <2>1, <2>2, <2>3
<1>. QED  BY <1>4, <1>9, <1>10

(* While what all accounts have staked, weighed with the highest weight,   *)
(* stays below 2^63, unstaking gives nobody weight: a wrapped product is   *)
(* all that breaks the comment's promise.                                  *)
THEOREM UnstakingLosesIfStakeFits ==
  VotingSpec /\ []StakeFits => UnstakingLosesPower
<1>. DEFINE Inv == VotingInv /\ WeightsInv
<1>1. VotingInit => Inv
  BY VotingInvInit, WeightsInit
<1>2. Inv /\ [VotingNext]_votingVars => Inv'
  BY VotingInvStep, WeightsStep
<1>3. Inv /\ Inv' /\ StakeFits /\ StakeFits' /\ [VotingNext]_votingVars =>
        [(\E v \in Accounts : StakedBy(v)' < StakedBy(v)) =>
           \A p \in DOMAIN producers :
             producers[p].total_vote_weight = CurrentWeight(p) =>
               producers'[p].total_vote_weight <= producers[p].total_vote_weight]_votingVars
  BY UnstakeStepLoses DEF WeightsInv
<1>. HIDE DEF Inv
<1>. QED  BY <1>1, <1>2, <1>3, PTL DEF VotingSpec, UnstakingLosesPower

=============================================================================
