---------------------------- MODULE TokenLedger ----------------------------
(***************************************************************************)
(* What a token promises its holders: a balance for everybody, changed by  *)
(* minting, burning and moving units and by nothing else.  Rows, the       *)
(* issuer's detour of an issue and the opening and closing of balances are *)
(* not visible here.  EosioToken is shown to implement it, and Staking and *)
(* the other users of the token are written against it.                    *)
(***************************************************************************)
EXTENDS Integers

CONSTANTS
  Holders,  \* names that may hold a balance
  Codes,    \* symbol codes
  Limit     \* most units of one symbol that can ever exist

VARIABLES
  supply,   \* code -> units in existence
  balance   \* <<holder, code>> -> units held

ledgerVars == <<supply, balance>>

LedgerInit ==
  /\ supply = [c \in Codes |-> 0]
  /\ balance = [hc \in Holders \X Codes |-> 0]

Mint(to, c, n) ==
  /\ supply[c] + n <= Limit
  /\ supply' = [supply EXCEPT ![c] = @ + n]
  /\ balance' = [balance EXCEPT ![<<to, c>>] = @ + n]

Burn(from, c, n) ==
  /\ balance[<<from, c>>] >= n
  /\ supply' = [supply EXCEPT ![c] = @ - n]
  /\ balance' = [balance EXCEPT ![<<from, c>>] = @ - n]

Move(from, to, c, n) ==
  /\ from # to
  /\ balance[<<from, c>>] >= n
  /\ balance' = [balance EXCEPT ![<<from, c>>] = @ - n, ![<<to, c>>] = @ + n]
  /\ UNCHANGED supply

LedgerNext ==
  \E c \in Codes, n \in 1..Limit, a \in Holders :
    \/ Mint(a, c, n)
    \/ Burn(a, c, n)
    \/ \E b \in Holders : Move(a, b, c, n)

LedgerSpec == LedgerInit /\ [][LedgerNext]_ledgerVars
=============================================================================
