----------------------------- MODULE EosioToken -----------------------------
(***************************************************************************)
(* The token contract, eosio.token.cpp: one action of the contract is one  *)
(* step, the inline transfer of an issue included, because both commit or  *)
(* fail together.  require_auth(x) is the meaning of a parameter, except   *)
(* where x is read from a row: then x must be an account to have signed.   *)
(* Memos, RAM payers and the notification of from and to are left out.     *)
(***************************************************************************)
EXTENDS Integers, FiniteSets, Functions, Tables

CONSTANTS
  Names,       \* names an action may mention
  OnChain,     \* those that are accounts
  Codes,       \* valid symbol codes
  Precisions,  \* decimals a symbol may have
  Amounts,     \* amounts actions are called with
  MaxAmount    \* 2^62 - 1, asset::max_amount

ASSUME TokenAssumption ==
  /\ IsFiniteSet(Names) /\ OnChain \subseteq Names
  /\ Amounts \subseteq Int
  /\ MaxAmount \in Nat

VARIABLES
  stat,     \* table: code -> supply, maximum supply and issuer
  accounts  \* table: <<owner, code>> -> balance

tokenVars == <<stat, accounts>>

Asset == [code: Codes, precision: Precisions, amount: Int]
Inputs == [code: Codes, precision: Precisions, amount: Amounts]
Stat == [precision: Precisions, supply: Int, max_supply: Int, issuer: Names]
Account == [precision: Precisions, amount: Int]

TokenInit == stat = EmptyTable /\ accounts = EmptyTable

InRange(amount) == (0 - MaxAmount) <= amount /\ amount <= MaxAmount

-----------------------------------------------------------------------------
(* sub_balance and add_balance on the rows they find.  asset's += and -=   *)
(* refuse another symbol and a result out of range.                        *)

SubAllowed(rows, owner, value) ==
  /\ <<owner, value.code>> \in DOMAIN rows
  /\ LET row == rows[<<owner, value.code>>]
     IN  /\ row.amount >= value.amount
         /\ row.precision = value.precision
         /\ InRange(row.amount - value.amount)

sub_balance(rows, owner, value) ==
  [rows EXCEPT ![<<owner, value.code>>].amount = @ - value.amount]

AddAllowed(rows, owner, value) ==
  <<owner, value.code>> \in DOMAIN rows =>
    LET row == rows[<<owner, value.code>>]
    IN  row.precision = value.precision /\ InRange(row.amount + value.amount)

add_balance(rows, owner, value) ==
  IF <<owner, value.code>> \in DOMAIN rows
  THEN [rows EXCEPT ![<<owner, value.code>>].amount = @ + value.amount]
  ELSE Upsert(rows, <<owner, value.code>>,
              [precision |-> value.precision, amount |-> value.amount])

(* The checks issue, retire and transfer share.                            *)
ValidQuantity(quantity) ==
  /\ quantity.code \in DOMAIN stat
  /\ InRange(quantity.amount) /\ quantity.amount > 0
  /\ quantity.precision = stat[quantity.code].precision

TransferAllowed(rows, from, to, quantity) ==
  /\ from # to
  /\ to \in OnChain
  /\ ValidQuantity(quantity)
  /\ SubAllowed(rows, from, quantity)
  /\ AddAllowed(sub_balance(rows, from, quantity), to, quantity)

(* Mutant of Transferred: the sender keeps what the receiver gets.         *)
Transferred_Copied(rows, from, to, quantity) == add_balance(rows, to, quantity)

Transferred(rows, from, to, quantity) ==
  add_balance(sub_balance(rows, from, quantity), to, quantity)

-----------------------------------------------------------------------------
(* The actions.                                                            *)

create(issuer, maximum_supply) ==
  /\ InRange(maximum_supply.amount) /\ maximum_supply.amount > 0
  /\ maximum_supply.code \notin DOMAIN stat
  /\ stat' = Upsert(stat, maximum_supply.code,
                    [precision |-> maximum_supply.precision, supply |-> 0,
                     max_supply |-> maximum_supply.amount, issuer |-> issuer])
  /\ UNCHANGED accounts

(* Mutant of Issuable: what was issued before is forgotten.                *)
Issuable_Afresh(st, quantity) == quantity.amount <= st.max_supply

Issuable(st, quantity) == quantity.amount <= st.max_supply - st.supply

issue(to, quantity) ==
  /\ ValidQuantity(quantity)
  /\ LET st == stat[quantity.code]
         issued == add_balance(accounts, st.issuer, quantity)
     IN  /\ st.issuer \in OnChain
         /\ Issuable(st, quantity)
         /\ InRange(st.supply + quantity.amount)
         /\ AddAllowed(accounts, st.issuer, quantity)
         /\ stat' = [stat EXCEPT ![quantity.code].supply = @ + quantity.amount]
         /\ IF to = st.issuer
            THEN accounts' = issued
            ELSE /\ TransferAllowed(issued, st.issuer, to, quantity)
                 /\ accounts' = Transferred(issued, st.issuer, to, quantity)

(* Mutant of retire: the supply stays.                                     *)
retire_KeepingSupply(quantity) ==
  /\ ValidQuantity(quantity)
  /\ LET st == stat[quantity.code]
     IN  /\ st.issuer \in OnChain
         /\ SubAllowed(accounts, st.issuer, quantity)
         /\ accounts' = sub_balance(accounts, st.issuer, quantity)
  /\ UNCHANGED stat

(* The supply is not compared with the quantity: only the issuer's balance *)
(* is.                                                                     *)
retire(quantity) ==
  /\ ValidQuantity(quantity)
  /\ LET st == stat[quantity.code]
     IN  /\ st.issuer \in OnChain
         /\ InRange(st.supply - quantity.amount)
         /\ SubAllowed(accounts, st.issuer, quantity)
         /\ accounts' = sub_balance(accounts, st.issuer, quantity)
  /\ stat' = [stat EXCEPT ![quantity.code].supply = @ - quantity.amount]

transfer(from, to, quantity) ==
  /\ TransferAllowed(accounts, from, to, quantity)
  /\ accounts' = Transferred(accounts, from, to, quantity)
  /\ UNCHANGED stat

(* Mutants of open: scope and key of the row swapped; any precision.       *)
open_Swapped(owner, code, precision) ==
  /\ code \in DOMAIN stat /\ stat[code].precision = precision
  /\ accounts' = Upsert(accounts, <<code, owner>>,
                        [precision |-> precision, amount |-> 0])
  /\ UNCHANGED stat

open_AnyPrecision(owner, code, precision) ==
  /\ code \in DOMAIN stat
  /\ accounts' = IF <<owner, code>> \in DOMAIN accounts
                 THEN accounts
                 ELSE Upsert(accounts, <<owner, code>>,
                             [precision |-> precision, amount |-> 0])
  /\ UNCHANGED stat

(* The owner need not be an account, and an open balance stays as it is.   *)
open(owner, code, precision) ==
  /\ code \in DOMAIN stat /\ stat[code].precision = precision
  /\ accounts' = IF <<owner, code>> \in DOMAIN accounts
                 THEN accounts
                 ELSE Upsert(accounts, <<owner, code>>,
                             [precision |-> precision, amount |-> 0])
  /\ UNCHANGED stat

close(owner, code) ==
  /\ <<owner, code>> \in DOMAIN accounts
  /\ accounts[<<owner, code>>].amount = 0
  /\ accounts' = Erase(accounts, <<owner, code>>)
  /\ UNCHANGED stat

TokenNext ==
  \/ \E n \in Names, q \in Inputs : create(n, q) \/ issue(n, q)
  \/ \E q \in Inputs : retire(q)
  \/ \E from \in OnChain, to \in Names, q \in Inputs : transfer(from, to, q)
  \/ \E n \in Names, c \in Codes, d \in Precisions : open(n, c, d)
  \/ \E n \in OnChain, c \in Codes : close(n, c)

TokenSpec == TokenInit /\ [][TokenNext]_tokenVars

-----------------------------------------------------------------------------
(* Both tables hold rows of their declared shape.                          *)
TokenTypeOK == /\ IsTable(stat, Codes, Stat)
               /\ IsTable(accounts, Names \X Codes, Account)

(* An absent row is a balance of zero.                                     *)
AmountIn(rows, owner, code) ==
  IF <<owner, code>> \in DOMAIN rows THEN rows[<<owner, code>>].amount ELSE 0

TotalIn(rows, code) ==
  SumFunctionOnSet([n \in Names |-> AmountIn(rows, n, code)], Names)

Held(owner, code) == AmountIn(accounts, owner, code)

(* The supply issue and retire maintain is the sum of the balances that    *)
(* add_balance and sub_balance maintain: nothing is created by an inline   *)
(* transfer or lost when a row is opened, closed or opened again.          *)
Conservation ==
  \A c \in Codes :
    TotalIn(accounts, c) = IF c \in DOMAIN stat THEN stat[c].supply ELSE 0

(* The supply stays between zero and the maximum the token was created     *)
(* with, although retire never looks at it.                                *)
SupplyWithinMax ==
  \A c \in DOMAIN stat :
    0 <= stat[c].supply /\ stat[c].supply <= stat[c].max_supply

(* A balance exists for created tokens only and in their precision, so the *)
(* symbol check of += and -= never aborts an action the other checks pass. *)
SymbolsAgree ==
  \A oc \in DOMAIN accounts :
    oc[2] \in DOMAIN stat /\ accounts[oc].precision = stat[oc[2]].precision

(* No two holders have more than asset can represent between them, so the  *)
(* range check of += never blocks the receiver of a transfer.              *)
TransfersFit ==
  \A a, b \in Names, c \in Codes : a # b => InRange(Held(a, c) + Held(b, c))

-----------------------------------------------------------------------------
(* The contract implements the ledger: an absent row is a balance of zero, *)
(* an issue to anybody is one mint to that account, and open and close     *)
(* change nothing.                                                         *)
Ledger == INSTANCE TokenLedger
            WITH Holders <- Names,
                 Limit <- MaxAmount,
                 supply <- [c \in Codes |-> IF c \in DOMAIN stat
                                            THEN stat[c].supply ELSE 0],
                 balance <- [oc \in Names \X Codes |-> Held(oc[1], oc[2])]

LedgerImplemented == Ledger!LedgerSpec
=============================================================================
