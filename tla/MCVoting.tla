------------------------------ MODULE MCVoting ------------------------------
(* Small instances of Voting for TLC.                                      *)
EXTENDS Voting, TLC

CONSTANT k1

(* The bios had everybody produce.                                         *)
MCBootSchedule == [p \in Candidates |-> k1]

AccountSymmetry == Permutations(Accounts)
=============================================================================
