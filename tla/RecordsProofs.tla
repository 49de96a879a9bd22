---------------------------- MODULE RecordsProofs ----------------------------
(***************************************************************************)
(* Proofs about TransOrderDebt.  The three tables obey one argument: two   *)
(* rows never share an identifier, because the upsert looks for it first   *)
(* and a new row gets a key that no row has; so what an upsert or an erase *)
(* finds under an identifier is the only row there is.                     *)
(***************************************************************************)
EXTENDS TransOrderDebt, SumLemmas

USE RecordsAssumption

-----------------------------------------------------------------------------
(* Keys.                                                                   *)

(* The key a new row is given belongs to no row.                           *)
LEMMA NextKeyIsFree ==
  ASSUME NEW table, DOMAIN table \subseteq 0..MaxKey
  PROVE  available_primary_key(table) \in Nat
         /\ available_primary_key(table) \notin DOMAIN table
<1>1. CASE DOMAIN table = {}
  BY <1>1 DEF available_primary_key
<1>2. CASE DOMAIN table # {}
  <2>1. IsFiniteSet(0..MaxKey)
    BY FS_Interval
  <2>2. IsFiniteSet(DOMAIN table)
    BY <2>1, FS_Subset
  <2>3. Max(DOMAIN table) \in DOMAIN table /\ \A x \in DOMAIN table : x <= Max(DOMAIN table)
    BY <1>2, <2>2, MaxIsLargest
  <2>4. available_primary_key(table) = Max(DOMAIN table) + 1
    BY <1>2 DEF available_primary_key
  <2>. QED  BY <2>3, <2>4
<1>. QED  BY <1>1, <1>2

-----------------------------------------------------------------------------
(* One table.                                                              *)

Unique(table) == \A j, k \in DOMAIN table : table[j].id = table[k].id => j = k

KeptBook(table, Content) == IsTable(table, 0..MaxKey, Row(Content)) /\ Unique(table)

(* What the secondary index finds is the only row.                         *)
LEMMA FoundIsOnly ==
  ASSUME NEW table, DOMAIN table \subseteq Int, Unique(table), NEW k \in DOMAIN table
  PROVE  RowsOf(table, table[k].id) = {k} /\ Min(RowsOf(table, table[k].id)) = k
<1>1. RowsOf(table, table[k].id) = {k}
  BY DEF RowsOf, Unique
<1>2. Min({k}) = k
  BY DEF Min
<1>. QED  BY <1>1, <1>2

(* By identifier: who has a record, and which one.                         *)
LEMMA Lookup ==
  ASSUME NEW table, DOMAIN table \subseteq Int, Unique(table)
  PROVE  /\ DOMAIN ByIdentifier(table) = {table[k].id : k \in DOMAIN table}
         /\ \A k \in DOMAIN table : ByIdentifier(table)[table[k].id] = table[k].content
BY FoundIsOnly DEF ByIdentifier

(* Two tables that say the same by identifier are the same book.           *)
LEMMA SameBook ==
  ASSUME NEW S, NEW T, NEW f, NEW g, f = [x \in S |-> f[x]], g = [x \in T |-> g[x]],
         S = T, \A x \in S : f[x] = g[x]
  PROVE  f = g
OBVIOUS

LEMMA UpsertKeepsBook ==
  ASSUME NEW table, NEW Content, KeptBook(table, Content),
         NEW id \in Ids, NEW content \in Content, HasRoom(table, id)
  PROVE  /\ KeptBook(UpsertBy(table, id, content), Content)
         /\ ByIdentifier(UpsertBy(table, id, content))
              = Upsert(ByIdentifier(table), id, content)
<1>. DEFINE found == RowsOf(table, id)
            k == IF found = {} THEN available_primary_key(table) ELSE Min(found)
            row == [id |-> id, content |-> content]
            new == UpsertBy(table, id, content)
<1>1. DOMAIN table \subseteq 0..MaxKey /\ Unique(table)
      /\ \A j \in DOMAIN table : table[j] \in Row(Content)
  BY DEF KeptBook, IsTable
<1>2. new = Upsert(table, k, row)
  BY DEF UpsertBy
<1>3. /\ k \in 0..MaxKey
      /\ \A j \in DOMAIN table : j # k => table[j].id # id
      /\ k \in DOMAIN table => table[k].id = id
  <2>1. CASE found = {}
    <3>1. k = available_primary_key(table) /\ k <= MaxKey
      BY <2>1 DEF HasRoom
    <3>2. \A j \in DOMAIN table : table[j].id # id
      BY <2>1 DEF RowsOf
    <3>. HIDE DEF k
    <3>. QED  BY <1>1, <3>1, <3>2, NextKeyIsFree
  <2>2. CASE found # {}
    <3>1. PICK j \in DOMAIN table : table[j].id = id
      BY <2>2 DEF RowsOf
    <3>2. k = j
      BY <1>1, <2>2, <3>1, FoundIsOnly
    <3>. HIDE DEF k
    <3>. QED  BY <1>1, <3>1, <3>2 DEF Unique
  <2>. QED  BY <2>1, <2>2
<1>4. row \in Row(Content) /\ row.id = id /\ row.content = content
  BY DEF Row
<1>. HIDE DEF k, row, new, found
<1>5. /\ DOMAIN new = DOMAIN table \cup {k} /\ new[k] = row
      /\ \A j \in DOMAIN table : j # k => new[j] = table[j]
      /\ new = [j \in DOMAIN new |-> new[j]]
  BY <1>2 DEF Upsert
<1>6. Unique(new)
  BY <1>1, <1>3, <1>4, <1>5 DEF Unique
<1>7. KeptBook(new, Content)
  BY <1>1, <1>3, <1>4, <1>5, <1>6 DEF KeptBook, IsTable
<1>8. ByIdentifier(new) = Upsert(ByIdentifier(table), id, content)
  <2>. DEFINE f == ByIdentifier(new)
              g == Upsert(ByIdentifier(table), id, content)
  <2>1. /\ DOMAIN f = {new[j].id : j \in DOMAIN new}
        /\ \A j \in DOMAIN new : f[new[j].id] = new[j].content
        /\ f = [x \in DOMAIN f |-> f[x]]
    <3>1. DOMAIN new \subseteq Int
      BY <1>1, <1>3, <1>5
    <3>2. f = [x \in DOMAIN f |-> f[x]]
      BY DEF ByIdentifier
    <3>. QED  BY <1>6, <3>1, <3>2, Lookup
  <2>2. /\ DOMAIN g = {table[j].id : j \in DOMAIN table} \cup {id}
        /\ g[id] = content
        /\ \A j \in DOMAIN table : table[j].id # id => g[table[j].id] = table[j].content
        /\ g = [x \in DOMAIN g |-> g[x]]
    <3>1. DOMAIN table \subseteq Int
      BY <1>1
    <3>2. /\ DOMAIN ByIdentifier(table) = {table[j].id : j \in DOMAIN table}
          /\ \A j \in DOMAIN table : ByIdentifier(table)[table[j].id] = table[j].content
      BY <1>1, <3>1, Lookup
    <3>. QED  BY <3>2 DEF Upsert
  <2>. HIDE DEF f, g
  <2>3. DOMAIN f = DOMAIN g
    BY <1>3, <1>4, <1>5, <2>1, <2>2
  <2>4. \A x \in DOMAIN f : f[x] = g[x]
    <3>. SUFFICES ASSUME NEW j \in DOMAIN new
                  PROVE  f[new[j].id] = g[new[j].id]
      BY <2>1
    <3>1. CASE j = k
      BY <1>4, <1>5, <2>1, <2>2, <3>1
    <3>2. CASE j # k
      BY <1>3, <1>5, <2>1, <2>2, <3>2
    <3>. QED  BY <3>1, <3>2
  <2>5. f = g
    BY <2>1, <2>2, <2>3, <2>4, SameBook
  <2>. QED  BY <2>5 DEF f, g
<1>. QED  BY <1>7, <1>8 DEF new

LEMMA EraseKeepsBook ==
  ASSUME NEW table, NEW Content, KeptBook(table, Content), NEW id, RowsOf(table, id) # {}
  PROVE  /\ KeptBook(EraseBy(table, id), Content)
         /\ id \in DOMAIN ByIdentifier(table)
         /\ ByIdentifier(EraseBy(table, id)) = Erase(ByIdentifier(table), id)
<1>. DEFINE new == EraseBy(table, id)
<1>1. DOMAIN table \subseteq 0..MaxKey /\ DOMAIN table \subseteq Int /\ Unique(table)
      /\ \A j \in DOMAIN table : table[j] \in Row(Content)
  BY DEF KeptBook, IsTable
<1>2. PICK k \in DOMAIN table : table[k].id = id
  BY DEF RowsOf
<1>3. new = Erase(table, k)
  BY <1>1, <1>2, FoundIsOnly DEF EraseBy
<1>. HIDE DEF new
<1>4. /\ DOMAIN new = DOMAIN table \ {k} /\ \A j \in DOMAIN new : new[j] = table[j]
      /\ new = [j \in DOMAIN new |-> new[j]]
  BY <1>3 DEF Erase
<1>5. \A j \in DOMAIN new : table[j].id # id
  BY <1>1, <1>2, <1>4 DEF Unique
<1>6. Unique(new) /\ KeptBook(new, Content)
  BY <1>1, <1>4 DEF Unique, KeptBook, IsTable
<1>. DEFINE f == ByIdentifier(new)
            b == ByIdentifier(table)
            g == Erase(b, id)
<1>7. /\ DOMAIN f = {new[j].id : j \in DOMAIN new}
      /\ \A j \in DOMAIN new : f[new[j].id] = new[j].content
      /\ f = [x \in DOMAIN f |-> f[x]]
  <2>1. DOMAIN new \subseteq Int
    BY <1>1, <1>4
  <2>2. f = [x \in DOMAIN f |-> f[x]]
    BY DEF ByIdentifier
  <2>. QED  BY <1>6, <2>1, <2>2, Lookup
<1>8. /\ DOMAIN b = {table[j].id : j \in DOMAIN table}
      /\ \A j \in DOMAIN table : b[table[j].id] = table[j].content
  BY <1>1, Lookup
<1>9. /\ DOMAIN g = DOMAIN b \ {id} /\ \A x \in DOMAIN g : g[x] = b[x]
      /\ g = [x \in DOMAIN g |-> g[x]]
  BY DEF Erase
<1>. HIDE DEF f, g, b
<1>10. DOMAIN f = DOMAIN g
  BY <1>2, <1>4, <1>5, <1>7, <1>8, <1>9
<1>11. \A x \in DOMAIN f : f[x] = g[x]
  <2>. SUFFICES ASSUME NEW j \in DOMAIN new
                PROVE  f[new[j].id] = g[new[j].id]
    BY <1>7
  <2>1. new[j].id \in DOMAIN g
    BY <1>7, <1>10
  <2>. QED  BY <1>4, <1>7, <1>8, <1>9, <2>1
<1>12. f = g
  BY <1>7, <1>9, <1>10, <1>11, SameBook
<1>13. id \in DOMAIN b
  BY <1>2, <1>8
<1>. QED  BY <1>6, <1>12, <1>13 DEF f, g, b, new

-----------------------------------------------------------------------------
(* The contract.                                                           *)

RecordsInv == /\ KeptBook(transrecords, SoundMoney)
              /\ KeptBook(orders, Order)
              /\ KeptBook(debts, SoundMoney)

LEMMA RecordedIsSound ==
  ASSUME NEW from \in Names, NEW to \in Names, NEW quantity \in Inputs, NEW fee \in Inputs,
         NEW payload \in Payloads, Sound(from, to, quantity, fee)
  PROVE  Recorded(from, to, quantity, fee, payload) \in SoundMoney
<1>. DEFINE asset(q) == [symbol |-> q.symbol, amount |-> q.amount]
<1>1. \A q \in Inputs : q.amount \in Int /\ q.symbol \in Symbols /\ q = asset(q)
  <2>. TAKE q \in Inputs
  <2>1. q.amount \in Amounts /\ q.symbol \in Symbols
    BY DEF Inputs
  <2>2. q.amount \in Int
    BY <2>1
  <2>3. q = asset(q)
    BY DEF Inputs
  <2>. QED  BY <2>1, <2>2, <2>3
<1>2. quantity.amount \in 1..MaxAmount /\ fee.amount \in 0..MaxAmount
  BY <1>1 DEF Sound, InRange
<1>3. \A q \in Inputs, n \in Nat : q.amount \in n..MaxAmount =>
        asset(q) \in [symbol: Symbols, amount: n..MaxAmount]
  BY <1>1
<1>4. /\ quantity \in [symbol: Symbols, amount: 1..MaxAmount]
      /\ fee \in [symbol: Symbols, amount: 0..MaxAmount]
  BY <1>1, <1>2, <1>3
<1>. HIDE DEF asset
<1>. QED  BY <1>4 DEF Sound, SoundMoney, Recorded

(* What a step does to one table, and to its book.                         *)
LEMMA RecordsStep ==
  ASSUME RecordsInv, [RecordsNext]_recordsVars
  PROVE  /\ RecordsInv'
         /\ [Transfers!BookNext]_(ByIdentifier(transrecords))
         /\ [Orders!BookNext]_(ByIdentifier(orders))
         /\ [Debts!BookNext]_(ByIdentifier(debts))
<1>. USE DEF RecordsInv
<1>1. ASSUME NEW id \in Ids, NEW a \in Names, NEW b \in Names, NEW q \in Inputs, NEW f \in Inputs,
             NEW p \in Payloads, transupsert(id, a, b, q, p, f)
      PROVE  RecordsInv' /\ Transfers!BookNext /\ UNCHANGED <<orders, debts>>
  <2>. DEFINE c == Recorded(a, b, q, f, p)
  <2>1. /\ c \in SoundMoney /\ HasRoom(transrecords, id) /\ UNCHANGED <<orders, debts>>
        /\ transrecords' = UpsertBy(transrecords, id, c)
    BY <1>1, RecordedIsSound DEF transupsert
  <2>. HIDE DEF c
  <2>2. /\ KeptBook(transrecords', SoundMoney)
        /\ ByIdentifier(transrecords)' = Upsert(ByIdentifier(transrecords), id, c)
    BY <2>1, UpsertKeepsBook
  <2>. QED  BY <2>1, <2>2 DEF Transfers!BookNext, Transfers!Write, Transfers!Upsert, Upsert
<1>2. ASSUME NEW id \in Ids, NEW a \in Names, NEW b \in Names, NEW q \in Inputs, NEW f \in Inputs,
             NEW p \in Payloads, debtupsert(id, a, b, q, f, p)
      PROVE  RecordsInv' /\ Debts!BookNext /\ UNCHANGED <<transrecords, orders>>
  <2>. DEFINE c == Recorded(a, b, q, f, p)
  <2>1. /\ c \in SoundMoney /\ HasRoom(debts, id) /\ UNCHANGED <<transrecords, orders>>
        /\ debts' = UpsertBy(debts, id, c)
    BY <1>2, RecordedIsSound DEF debtupsert
  <2>. HIDE DEF c
  <2>2. /\ KeptBook(debts', SoundMoney)
        /\ ByIdentifier(debts)' = Upsert(ByIdentifier(debts), id, c)
    BY <2>1, UpsertKeepsBook
  <2>. QED  BY <2>1, <2>2 DEF Debts!BookNext, Debts!Write, Debts!Upsert, Upsert
<1>3. ASSUME NEW id \in Ids, NEW a \in Names, NEW b \in Names, NEW p \in Payloads,
             orderupsert(id, a, p, b)
      PROVE  RecordsInv' /\ Orders!BookNext /\ UNCHANGED <<transrecords, debts>>
  <2>. DEFINE c == [account |-> a, merchant |-> b, payload |-> p]
  <2>1. /\ c \in Order /\ HasRoom(orders, id) /\ UNCHANGED <<transrecords, debts>>
        /\ orders' = UpsertBy(orders, id, c)
    BY <1>3 DEF orderupsert, Order
  <2>. HIDE DEF c
  <2>2. /\ KeptBook(orders', Order)
        /\ ByIdentifier(orders)' = Upsert(ByIdentifier(orders), id, c)
    BY <2>1, UpsertKeepsBook
  <2>. QED  BY <2>1, <2>2 DEF Orders!BookNext, Orders!Write, Orders!Upsert, Upsert
<1>4. ASSUME NEW id \in Ids, transerase(id)
      PROVE  RecordsInv' /\ Transfers!BookNext /\ UNCHANGED <<orders, debts>>
  <2>1. /\ KeptBook(transrecords', SoundMoney) /\ id \in DOMAIN ByIdentifier(transrecords)
        /\ ByIdentifier(transrecords)' = Erase(ByIdentifier(transrecords), id)
        /\ UNCHANGED <<orders, debts>>
    BY <1>4, EraseKeepsBook DEF transerase
  <2>. QED  BY <2>1 DEF Transfers!BookNext, Transfers!Delete, Transfers!Erase, Erase
<1>5. ASSUME NEW id \in Ids, ordererase(id)
      PROVE  RecordsInv' /\ Orders!BookNext /\ UNCHANGED <<transrecords, debts>>
  <2>1. /\ KeptBook(orders', Order) /\ id \in DOMAIN ByIdentifier(orders)
        /\ ByIdentifier(orders)' = Erase(ByIdentifier(orders), id)
        /\ UNCHANGED <<transrecords, debts>>
    BY <1>5, EraseKeepsBook DEF ordererase
  <2>. QED  BY <2>1 DEF Orders!BookNext, Orders!Delete, Orders!Erase, Erase
<1>6. ASSUME NEW id \in Ids, debterase(id)
      PROVE  RecordsInv' /\ Debts!BookNext /\ UNCHANGED <<transrecords, orders>>
  <2>1. /\ KeptBook(debts', SoundMoney) /\ id \in DOMAIN ByIdentifier(debts)
        /\ ByIdentifier(debts)' = Erase(ByIdentifier(debts), id)
        /\ UNCHANGED <<transrecords, orders>>
    BY <1>6, EraseKeepsBook DEF debterase
  <2>. QED  BY <2>1 DEF Debts!BookNext, Debts!Delete, Debts!Erase, Erase
<1>7. ASSUME UNCHANGED recordsVars
      PROVE  RecordsInv' /\ UNCHANGED <<transrecords, orders, debts>>
  BY <1>7 DEF recordsVars
<1>8. /\ transrecords' = transrecords => ByIdentifier(transrecords)' = ByIdentifier(transrecords)
      /\ orders' = orders => ByIdentifier(orders)' = ByIdentifier(orders)
      /\ debts' = debts => ByIdentifier(debts)' = ByIdentifier(debts)
  OBVIOUS
<1>. QED  BY <1>1, <1>2, <1>3, <1>4, <1>5, <1>6, <1>7, <1>8 DEF RecordsNext

LEMMA RecordsInvInit == RecordsInit => RecordsInv
BY DEF RecordsInit, RecordsInv, KeptBook, IsTable, Unique, EmptyTable

(* Every row of a transfer or a debt is what the checks admit.             *)
THEOREM RecordsTypeCorrect == RecordsSpec => []RecordsTypeOK
<1>1. RecordsInv => RecordsTypeOK
  BY DEF RecordsInv, KeptBook, RecordsTypeOK
<1>2. RecordsInv /\ [RecordsNext]_recordsVars => RecordsInv'
  BY RecordsStep
<1>. QED  BY <1>1, <1>2, RecordsInvInit, PTL DEF RecordsSpec

LEMMA UniqueIsOne ==
  ASSUME NEW table, DOMAIN table \subseteq Int, Unique(table), NEW id
  PROVE  Cardinality(RowsOf(table, id)) <= 1
<1>1. CASE RowsOf(table, id) = {}
  BY <1>1, FS_EmptySet
<1>2. CASE RowsOf(table, id) # {}
  <2>1. PICK k \in DOMAIN table : table[k].id = id
    BY <1>2 DEF RowsOf
  <2>2. RowsOf(table, id) = {k}
    BY <2>1, FoundIsOnly
  <2>. QED  BY <2>2, FS_Singleton
<1>. QED  BY <1>1, <1>2

(* No identifier ever has two rows, though the index would allow it.       *)
THEOREM OneRowPerIdAlways == RecordsSpec => []OneRowPerId
<1>1. RecordsInv => OneRowPerId
  <2>. SUFFICES ASSUME RecordsInv PROVE OneRowPerId
    OBVIOUS
  <2>1. /\ DOMAIN transrecords \subseteq Int /\ Unique(transrecords)
        /\ DOMAIN orders \subseteq Int /\ Unique(orders)
        /\ DOMAIN debts \subseteq Int /\ Unique(debts)
    BY DEF RecordsInv, KeptBook, IsTable
  <2>. QED  BY <2>1, UniqueIsOne DEF OneRowPerId
<1>2. RecordsInv /\ [RecordsNext]_recordsVars => RecordsInv'
  BY RecordsStep
<1>. QED  BY <1>1, <1>2, RecordsInvInit, PTL DEF RecordsSpec

(* Each table is a book of records: the last one written is the one kept.  *)
THEOREM ContractKeepsBooks == RecordsSpec => BooksImplemented
<1>1. RecordsInit => Transfers!BookInit /\ Orders!BookInit /\ Debts!BookInit
  BY DEF RecordsInit, EmptyTable, ByIdentifier,
         Transfers!BookInit, Orders!BookInit, Debts!BookInit,
         Transfers!EmptyTable, Orders!EmptyTable, Debts!EmptyTable
<1>2. RecordsInv /\ [RecordsNext]_recordsVars =>
        /\ RecordsInv'
        /\ [Transfers!BookNext]_(ByIdentifier(transrecords))
        /\ [Orders!BookNext]_(ByIdentifier(orders))
        /\ [Debts!BookNext]_(ByIdentifier(debts))
  BY RecordsStep
<1>. QED  BY <1>1, <1>2, RecordsInvInit, PTL
          DEF RecordsSpec, BooksImplemented, Transfers!BookSpec, Orders!BookSpec, Debts!BookSpec

=============================================================================
