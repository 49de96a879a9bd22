------------------------------- MODULE Escrow -------------------------------
(***************************************************************************)
(* What staking promises a token holder: tokens are locked in a vault, and *)
(* after they are released they come back once, when the delay is over.    *)
(* Who the stake is delegated to, the CPU it buys, the votes behind it and *)
(* the transactions that bring it back are not visible here.               *)
(*                                                                         *)
(* Two steps lock tokens the vault is not given: the vault's own, if it    *)
(* makes any (Grant), and a Relock of more than the owner has pending.     *)
(***************************************************************************)
EXTENDS Integers

CONSTANTS
  Owners,   \* accounts
  Vault,    \* the account that holds what is locked or pending
  Held,     \* account -> tokens it starts with
  Start,    \* time at the start
  Delay,    \* time from a release to its payment
  Grantees, \* accounts the vault may lock tokens for, having none to give
  Amounts   \* amounts locked, released or moved at once

VARIABLES
  locked,   \* account -> tokens it has locked
  pending,  \* account -> tokens released and not yet paid
  since,    \* account -> time of its last release, 0 when none is pending
  tokens,   \* account -> tokens it holds
  now       \* the time

escrowVars == <<locked, pending, since, tokens, now>>

EscrowInit ==
  /\ locked = [a \in Owners |-> 0]
  /\ pending = [a \in Owners |-> 0]
  /\ since = [a \in Owners |-> 0]
  /\ tokens = Held
  /\ now = Start

Moved(from, to, n) ==
  /\ from # to
  /\ tokens[from] >= n
  /\ tokens' = [tokens EXCEPT ![from] = @ - n, ![to] = @ + n]

(* payer locks tokens, and makes them owner's.                             *)
Lock(payer, owner, n) ==
  /\ payer # Vault
  /\ Moved(payer, Vault, n)
  /\ locked' = [locked EXCEPT ![owner] = @ + n]
  /\ UNCHANGED <<pending, since, now>>

(* Pending tokens are locked again before any others are asked for.        *)
Relock(owner, n) ==
  LET left == IF n < pending[owner] THEN pending[owner] - n ELSE 0
  IN  /\ pending[owner] > 0
      /\ locked' = [locked EXCEPT ![owner] = @ + n]
      /\ pending' = [pending EXCEPT ![owner] = left]
      /\ since' = [since EXCEPT ![owner] = IF left = 0 THEN 0 ELSE @]
      /\ UNCHANGED <<tokens, now>>

(* A release restarts the delay of everything the owner has pending.       *)
Release(owner, n) ==
  /\ owner # Vault
  /\ locked[owner] >= n
  /\ locked' = [locked EXCEPT ![owner] = @ - n]
  /\ pending' = [pending EXCEPT ![owner] = @ + n]
  /\ since' = [since EXCEPT ![owner] = now]
  /\ UNCHANGED <<tokens, now>>

Pay(owner) ==
  /\ pending[owner] > 0
  /\ now >= since[owner] + Delay
  /\ Moved(Vault, owner, pending[owner])
  /\ pending' = [pending EXCEPT ![owner] = 0]
  /\ since' = [since EXCEPT ![owner] = 0]
  /\ UNCHANGED <<locked, now>>

(* The vault locks for others, and releases its own, for nothing.          *)
Grant(owner, n) ==
  /\ owner \in Grantees
  /\ locked' = [locked EXCEPT ![owner] = @ + n]
  /\ UNCHANGED <<pending, since, tokens, now>>

Withdraw(n) ==
  /\ locked[Vault] >= n
  /\ locked' = [locked EXCEPT ![Vault] = @ - n]
  /\ UNCHANGED <<pending, since, tokens, now>>

Move(from, to, n) ==
  /\ Moved(from, to, n)
  /\ UNCHANGED <<locked, pending, since, now>>

Tick == /\ now' \in Nat /\ now' > now
        /\ UNCHANGED <<locked, pending, since, tokens>>

EscrowNext ==
  \/ \E owner \in Owners, n \in Amounts :
       \/ \E other \in Owners : Lock(other, owner, n) \/ Move(other, owner, n)
       \/ Relock(owner, n) \/ Release(owner, n) \/ Grant(owner, n)
       \/ Withdraw(n)
  \/ \E owner \in Owners : Pay(owner)
  \/ Tick

EscrowSpec == EscrowInit /\ [][EscrowNext]_escrowVars
=============================================================================
