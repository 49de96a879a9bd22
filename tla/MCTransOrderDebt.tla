-------------------------- MODULE MCTransOrderDebt --------------------------
(* A small instance of TransOrderDebt for TLC: two keys, so that they run  *)
(* out and are handed out again, and a name that is not an account.        *)
EXTENDS TransOrderDebt, TLC

CONSTANTS alice, bob

MCAmounts == {-1, 1, 2}
RecordSymmetry == Permutations({alice, bob}) \cup Permutations(Ids) \cup Permutations(Symbols)
=============================================================================
