----------------------------- MODULE MCStaking -----------------------------
(* Small instances of Staking for TLC: two holders and the stake account.  *)
EXTENDS Staking, TLC

CONSTANTS alice, bob, eosio_stake

MCEndowment == [a \in Accounts |-> IF a = eosio_stake THEN 0 ELSE 1]

(* alice and bob start alike.                                              *)
HolderSymmetry == Permutations({alice, bob})
=============================================================================
