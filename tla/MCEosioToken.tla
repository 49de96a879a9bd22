--------------------------- MODULE MCEosioToken ---------------------------
(* A small instance of EosioToken for TLC: amounts below, at and above     *)
(* every limit, and a name that is not an account.                         *)
EXTENDS EosioToken

MCAmounts == -1..4
===========================================================================
