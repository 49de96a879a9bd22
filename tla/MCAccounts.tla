----------------------------- MODULE MCAccounts -----------------------------
(* A small instance of Accounts for TLC.  Names have three characters: a   *)
(* has a short one, b.a is under it, bb is short, bab is of full length.   *)
EXTENDS Accounts, TLC

CONSTANTS eosio, eosio_stake, eosio_saving, a, b_a, bb, bab, core, other

MCHoldings == [h \in Accounts \X Issued |-> IF h[1] = a THEN 1 ELSE 0]
MCEndowment == [x \in Accounts |-> IF x = a THEN 2 ELSE 0]

MCNameOf == [x \in Accounts |->
  CASE x = a   -> <<1, 0, 0>>
    [] x = b_a -> <<2, 0, 1>>
    [] x = bb  -> <<2, 2, 0>>
    [] x = bab -> <<2, 1, 2>>
    [] x = eosio -> <<5, 0, 0>>
    [] x = eosio_stake -> <<5, 0, 3>>
    [] x = eosio_saving -> <<5, 0, 4>>]

MCMaxFee == [s \in Symbols |-> 1]
=============================================================================
