------------------------------- MODULE MCBoot -------------------------------
(* A small instance of Boot for TLC.                                       *)
EXTENDS Boot, TLC

CONSTANTS abi1, abi2, prod

MCBootParams == [max_authority_depth |-> 6, max_block_cpu_usage |-> 1]
MCParams == {MCBootParams,
             [max_authority_depth |-> 3, max_block_cpu_usage |-> 2],
             [max_authority_depth |-> 2, max_block_cpu_usage |-> 1]}
MCSha256 == [x \in Abis |-> <<"sha256", x>>]
MCSchedules == {{prod}}
=============================================================================
