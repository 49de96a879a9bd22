--------------------------- MODULE TransOrderDebt ---------------------------
(***************************************************************************)
(* The record-keeping contract, transorderdebt.cpp: transfers, orders and  *)
(* debts that happened elsewhere, each kept under an identifier the        *)
(* operator of the contract brings along.  A row lives under a primary key *)
(* the table hands out and is found through a secondary index on the       *)
(* identifier, which allows duplicates.  All actions are submitted by the  *)
(* contract's own account.  Memo, logistics and the like are one payload;  *)
(* the timestamp of the last write is stored, never read, and left out.    *)
(***************************************************************************)
EXTENDS Integers, FiniteSets, FiniteSetsExt, Tables

CONSTANTS
  Ids,        \* trans_id, order_id and debt_id
  Names,      \* names a record may mention
  OnChain,    \* those that are accounts
  Symbols,
  Amounts,    \* amounts actions are called with
  MaxAmount,  \* 2^62 - 1, asset::max_amount
  Payloads,   \* everything else a record says
  MaxKey      \* last key available_primary_key hands out

ASSUME RecordsAssumption ==
  /\ IsFiniteSet(Ids)
  /\ OnChain \subseteq Names /\ Amounts \subseteq Int
  /\ MaxAmount \in Nat /\ MaxKey \in Nat

VARIABLES
  transrecords,  \* table: pkey -> transfer
  orders,        \* table: pkey -> order
  debts          \* table: pkey -> debt

recordsVars == <<transrecords, orders, debts>>

Inputs == [symbol: Symbols, amount: Amounts]
Order == [account: Names, merchant: Names, payload: Payloads]

(* A row is its identifier and what it says.                               *)
Row(Content) == [id: Ids, content: Content]

RecordsInit ==
  /\ transrecords = EmptyTable
  /\ orders = EmptyTable
  /\ debts = EmptyTable

-----------------------------------------------------------------------------
(* The table library: the key emplace is given, and the secondary index,   *)
(* which finds the row with the least primary key among equals.            *)

(* Mutant of available_primary_key: the number of rows.                    *)
available_primary_key_Count(table) == Cardinality(DOMAIN table)

available_primary_key(table) ==
  IF DOMAIN table = {} THEN 0 ELSE Max(DOMAIN table) + 1

RowsOf(table, id) == {k \in DOMAIN table : table[k].id = id}

(* What the upserts and erases of all three tables do.                     *)

(* Mutant of UpsertBy: always a new row.                                   *)
UpsertBy_Appending(table, id, content) ==
  Upsert(table, available_primary_key(table),
         [id |-> id, content |-> content])

UpsertBy(table, id, content) ==
  LET found == RowsOf(table, id)
  IN  Upsert(table,
             IF found = {} THEN available_primary_key(table) ELSE Min(found),
             [id |-> id, content |-> content])

(* multi_index runs out of keys, and emplace needs one only for a new row. *)
HasRoom(table, id) ==
  RowsOf(table, id) = {} => available_primary_key(table) <= MaxKey

EraseBy(table, id) == Erase(table, Min(RowsOf(table, id)))

-----------------------------------------------------------------------------
(* The actions.                                                            *)

InRange(amount) == (0 - MaxAmount) <= amount /\ amount <= MaxAmount

(* Mutant of Sound: a negative quantity is not refused.                    *)
Sound_AnySign(from, to, quantity, fee) ==
  /\ from # to /\ from \in OnChain /\ to \in OnChain
  /\ InRange(quantity.amount) /\ InRange(fee.amount)
  /\ fee.amount >= 0
  /\ quantity.symbol = fee.symbol

(* The checks of transupsert and debtupsert.                               *)
Sound(from, to, quantity, fee) ==
  /\ from # to /\ from \in OnChain /\ to \in OnChain
  /\ InRange(quantity.amount) /\ InRange(fee.amount)
  /\ quantity.amount > 0 /\ fee.amount >= 0
  /\ quantity.symbol = fee.symbol

Recorded(from, to, quantity, fee, payload) ==
  [from |-> from, to |-> to, quantity |-> quantity, fee |-> fee, payload |-> payload]

transupsert(trans_id, from, to, quantity, memo, fee) ==
  /\ Sound(from, to, quantity, fee)
  /\ HasRoom(transrecords, trans_id)
  /\ transrecords' = UpsertBy(transrecords, trans_id,
                              Recorded(from, to, quantity, fee, memo))
  /\ UNCHANGED <<orders, debts>>

transerase(trans_id) ==
  /\ RowsOf(transrecords, trans_id) # {}
  /\ transrecords' = EraseBy(transrecords, trans_id)
  /\ UNCHANGED <<orders, debts>>

(* An order is taken as it comes: neither name has to be an account.       *)
orderupsert(order_id, account, goods_info, merchant) ==
  /\ HasRoom(orders, order_id)
  /\ orders' = UpsertBy(orders, order_id,
                 [account |-> account, merchant |-> merchant, payload |-> goods_info])
  /\ UNCHANGED <<transrecords, debts>>

ordererase(order_id) ==
  /\ RowsOf(orders, order_id) # {}
  /\ orders' = EraseBy(orders, order_id)
  /\ UNCHANGED <<transrecords, debts>>

debtupsert(debt_id, debtor, creditor, quantity, fee, profile) ==
  /\ Sound(debtor, creditor, quantity, fee)
  /\ HasRoom(debts, debt_id)
  /\ debts' = UpsertBy(debts, debt_id,
                       Recorded(debtor, creditor, quantity, fee, profile))
  /\ UNCHANGED <<transrecords, orders>>

debterase(debt_id) ==
  /\ RowsOf(debts, debt_id) # {}
  /\ debts' = EraseBy(debts, debt_id)
  /\ UNCHANGED <<transrecords, orders>>

RecordsNext ==
  \E id \in Ids :
       \/ \E a, b \in Names, q, f \in Inputs, p \in Payloads :
            transupsert(id, a, b, q, p, f) \/ debtupsert(id, a, b, q, f, p)
       \/ \E a, b \in Names, p \in Payloads : orderupsert(id, a, p, b)
       \/ transerase(id) \/ ordererase(id) \/ debterase(id)

RecordsSpec == RecordsInit /\ [][RecordsNext]_recordsVars

-----------------------------------------------------------------------------
(* Every table holds rows of its declared shape, and the rows of transfers *)
(* and debts what their checks admit, at every rewrite too.                *)
SoundMoney ==
  {m \in [from: OnChain, to: OnChain,
          quantity: [symbol: Symbols, amount: 1..MaxAmount],
          fee: [symbol: Symbols, amount: 0..MaxAmount], payload: Payloads] :
     m.from # m.to /\ m.fee.symbol = m.quantity.symbol}

RecordsTypeOK ==
  /\ IsTable(transrecords, 0..MaxKey, Row(SoundMoney))
  /\ IsTable(orders, 0..MaxKey, Row(Order))
  /\ IsTable(debts, 0..MaxKey, Row(SoundMoney))

(* The secondary index allows duplicates, but no identifier has two rows:  *)
(* otherwise an erase would bring an older version of the record back.     *)
OneRowPerId ==
  \A id \in Ids : /\ Cardinality(RowsOf(transrecords, id)) <= 1
                  /\ Cardinality(RowsOf(orders, id)) <= 1
                  /\ Cardinality(RowsOf(debts, id)) <= 1

(* By identifier, each table is a book of records.                         *)
ByIdentifier(table) ==
  [id \in {table[k].id : k \in DOMAIN table} |-> table[Min(RowsOf(table, id))].content]

Transfers == INSTANCE RecordBook
  WITH BookIds <- Ids, Contents <- SoundMoney, records <- ByIdentifier(transrecords)
Orders == INSTANCE RecordBook
  WITH BookIds <- Ids, Contents <- Order, records <- ByIdentifier(orders)
Debts == INSTANCE RecordBook
  WITH BookIds <- Ids, Contents <- SoundMoney, records <- ByIdentifier(debts)

(* The contract implements the three books, though erasing the last row    *)
(* makes the next one reuse its primary key.                               *)
BooksImplemented == Transfers!BookSpec /\ Orders!BookSpec /\ Debts!BookSpec
=============================================================================
