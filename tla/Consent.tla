------------------------------- MODULE Consent -------------------------------
(***************************************************************************)
(* What a multi-signature wallet promises: a proposal is a transaction and *)
(* the set of permission levels that stand behind it now; it is executed   *)
(* at most once, and only while that set satisfies the authority the       *)
(* transaction needs.  When and how an approval was given, the two formats *)
(* of the tables and the clock are not visible here.  Msig is shown to     *)
(* implement it.                                                           *)
(***************************************************************************)
EXTENDS Tables

CONSTANTS
  Ids,          \* proposals, by proposer and name
  Trxs,         \* transactions
  Accounts,
  Levels,       \* permission levels
  Actor,        \* level -> its account
  Authorities   \* transaction -> sets of levels that satisfy it, over time

VARIABLES
  open,       \* table: proposal -> its transaction
  consent,    \* table: proposal -> levels that stand behind it
  scheduled,  \* table: proposal -> transaction handed to the chain
  authority   \* the authorities in force

consentVars == <<open, consent, scheduled, authority>>

ConsentInit ==
  /\ DOMAIN open \subseteq Ids /\ open \in [DOMAIN open -> Trxs]
  /\ consent \in [DOMAIN open -> SUBSET Levels]
  /\ scheduled = EmptyTable
  /\ authority \in Authorities

Close(k) == /\ open' = Erase(open, k)
            /\ consent' = Erase(consent, k)

Propose(k, trx) ==
  /\ k \notin DOMAIN open
  /\ open' = Upsert(open, k, trx)
  /\ consent' = Upsert(consent, k, {})
  /\ UNCHANGED <<scheduled, authority>>

Agree(k, l) ==
  /\ k \in DOMAIN open
  /\ consent' = [consent EXCEPT ![k] = @ \cup {l}]
  /\ UNCHANGED <<open, scheduled, authority>>

Withdraw(k, l) ==
  /\ k \in DOMAIN open
  /\ consent' = [consent EXCEPT ![k] = @ \ {l}]
  /\ UNCHANGED <<open, scheduled, authority>>

WithdrawEverywhere(account) ==
  /\ consent' = [k \in DOMAIN consent |-> {l \in consent[k] : Actor[l] # account}]
  /\ UNCHANGED <<open, scheduled, authority>>

Abandon(k) ==
  /\ k \in DOMAIN open
  /\ Close(k)
  /\ UNCHANGED <<scheduled, authority>>

Execute(k) ==
  /\ k \in DOMAIN open /\ k \notin DOMAIN scheduled
  /\ consent[k] \in authority[open[k]]
  /\ scheduled' = Upsert(scheduled, k, open[k])
  /\ Close(k)
  /\ UNCHANGED authority

Deliver(k) ==
  /\ k \in DOMAIN scheduled
  /\ scheduled' = Erase(scheduled, k)
  /\ UNCHANGED <<open, consent, authority>>

ChangeAuthority ==
  /\ authority' \in Authorities
  /\ UNCHANGED <<open, consent, scheduled>>

ConsentNext ==
  \/ \E k \in Ids : \/ \E trx \in Trxs : Propose(k, trx)
                    \/ \E l \in Levels : Agree(k, l) \/ Withdraw(k, l)
                    \/ Abandon(k) \/ Execute(k) \/ Deliver(k)
  \/ \E a \in Accounts : WithdrawEverywhere(a)
  \/ ChangeAuthority

ConsentSpec == ConsentInit /\ [][ConsentNext]_consentVars
=============================================================================
