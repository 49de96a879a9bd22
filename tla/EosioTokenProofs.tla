-------------------------- MODULE EosioTokenProofs --------------------------
(***************************************************************************)
(* Proofs about EosioToken.  The rows of accounts are followed through     *)
(* sub_balance and add_balance by what they do to one balance and to the   *)
(* sum of all; an issue to somebody else is then an add, a sub and an add. *)
(***************************************************************************)
EXTENDS EosioToken, SumLemmas

USE TokenAssumption

NoOverdraft(rows) == \A oc \in DOMAIN rows : rows[oc].amount >= 0

Precise(rows) ==
  \A oc \in DOMAIN rows :
    oc[2] \in DOMAIN stat /\ rows[oc].precision = stat[oc[2]].precision

(* What every table of balances an action computes satisfies, the one in   *)
(* the middle of an issue included.                                        *)
RowsOK(rows) == /\ IsTable(rows, Names \X Codes, Account)
                /\ NoOverdraft(rows)
                /\ Precise(rows)

-----------------------------------------------------------------------------
(* Balances and their sums.                                                *)

LEMMA AmountType ==
  ASSUME NEW rows, RowsOK(rows)
  PROVE  \A n, c : AmountIn(rows, n, c) \in Nat
<1>. SUFFICES ASSUME NEW n, NEW c, <<n, c>> \in DOMAIN rows
              PROVE  rows[<<n, c>>].amount \in Nat
  BY DEF AmountIn
<1>1. rows[<<n, c>>] \in Account /\ rows[<<n, c>>].amount >= 0
  BY DEF RowsOK, IsTable, NoOverdraft
<1>. QED  BY <1>1 DEF Account

LEMMA TotalChange ==
  ASSUME NEW rows, NEW after, RowsOK(rows), RowsOK(after), NEW o \in Names, NEW c,
         \A n \in Names \ {o} : AmountIn(after, n, c) = AmountIn(rows, n, c)
  PROVE  TotalIn(after, c) = TotalIn(rows, c) + AmountIn(after, o, c) - AmountIn(rows, o, c)
<1>. DEFINE f == [n \in Names |-> AmountIn(rows, n, c)]
            g == [n \in Names |-> AmountIn(after, n, c)]
<1>1. \A n \in Names : f[n] \in Int /\ g[n] \in Int
  BY AmountType
<1>2. \A n \in Names \ {o} : f[n] = g[n]
  OBVIOUS
<1>3. f[o] = AmountIn(rows, o, c) /\ g[o] = AmountIn(after, o, c)
  OBVIOUS
<1>4. TotalIn(rows, c) = SumFunctionOnSet(f, Names)
      /\ TotalIn(after, c) = SumFunctionOnSet(g, Names)
BY DEF TotalIn
<1>. HIDE DEF f, g
<1>5. SumFunctionOnSet(g, Names) = SumFunctionOnSet(f, Names) + g[o] - f[o]
  BY <1>1, <1>2, SumUpdate
<1>. QED  BY <1>3, <1>4, <1>5

LEMMA TotalSame ==
  ASSUME NEW rows, NEW after, NEW c,
         \A n \in Names : AmountIn(after, n, c) = AmountIn(rows, n, c)
  PROVE  TotalIn(after, c) = TotalIn(rows, c)
BY DEF TotalIn

LEMMA TotalType ==
  ASSUME NEW rows, RowsOK(rows), NEW c
  PROVE  /\ TotalIn(rows, c) \in Nat
         /\ \A n \in Names : AmountIn(rows, n, c) <= TotalIn(rows, c)
<1>. DEFINE f == [n \in Names |-> AmountIn(rows, n, c)]
<1>1. \A n \in Names : f[n] \in Nat /\ f[n] = AmountIn(rows, n, c)
  BY AmountType
<1>2. TotalIn(rows, c) = SumFunctionOnSet(f, Names)
  BY DEF TotalIn
<1>. HIDE DEF f
<1>3. SumFunctionOnSet(f, Names) \in Nat
  BY <1>1, SumType
<1>4. \A n \in Names : f[n] <= SumFunctionOnSet(f, Names)
  BY <1>1, SumBoundsTerm
<1>. QED  BY <1>1, <1>2, <1>3, <1>4

(* add_balance credits one balance and leaves a sound table.               *)
LEMMA AddEffect ==
  ASSUME NEW rows, RowsOK(rows), NEW o \in Names, NEW value \in Asset,
         value.amount > 0, value.code \in DOMAIN stat,
         value.precision = stat[value.code].precision
  PROVE  /\ RowsOK(add_balance(rows, o, value))
         /\ AmountIn(add_balance(rows, o, value), o, value.code)
              = AmountIn(rows, o, value.code) + value.amount
         /\ \A n, c : <<n, c>> # <<o, value.code>> =>
              AmountIn(add_balance(rows, o, value), n, c) = AmountIn(rows, n, c)
<1>. DEFINE k == <<o, value.code>>
            after == add_balance(rows, o, value)
<1>0. value.amount \in Int /\ value.code \in Codes /\ value.precision \in Precisions
      /\ k \in Names \X Codes
  BY DEF Asset
<1>1. CASE k \in DOMAIN rows
  <2>1. rows[k] \in Account /\ rows[k].amount >= 0
        /\ rows[k].precision = stat[value.code].precision
    BY <1>1 DEF RowsOK, IsTable, NoOverdraft, Precise
  <2>2. after = [rows EXCEPT ![k].amount = @ + value.amount]
    BY <1>1 DEF add_balance
  <2>3. DOMAIN after = DOMAIN rows /\ \A oc \in DOMAIN rows : oc # k => after[oc] = rows[oc]
    BY <2>2
  <2>4. after[k].amount = rows[k].amount + value.amount
        /\ after[k].precision = rows[k].precision /\ after[k] \in Account
    BY <2>1, <2>2, <1>0, <1>1 DEF Account
  <2>. HIDE DEF after
  <2>5. RowsOK(after)
    <3>1. IsTable(after, Names \X Codes, Account)
      <4>1. \A oc \in DOMAIN after : after[oc] \in Account
        BY <2>3, <2>4 DEF RowsOK, IsTable
      <4>2. after = [oc \in DOMAIN after |-> after[oc]]
        BY <2>2
      <4>. QED  BY <2>3, <4>1, <4>2 DEF RowsOK, IsTable
    <3>2. NoOverdraft(after)
      BY <2>1, <2>3, <2>4, <1>0 DEF RowsOK, NoOverdraft, Account
    <3>3. Precise(after)
      BY <2>1, <2>3, <2>4 DEF RowsOK, Precise
    <3>. QED  BY <3>1, <3>2, <3>3 DEF RowsOK
  <2>6. AmountIn(after, o, value.code) = AmountIn(rows, o, value.code) + value.amount
    BY <1>1, <2>3, <2>4 DEF AmountIn
  <2>7. \A n, c : <<n, c>> # k => AmountIn(after, n, c) = AmountIn(rows, n, c)
    BY <2>3 DEF AmountIn
  <2>. QED  BY <2>5, <2>6, <2>7 DEF after
<1>2. CASE k \notin DOMAIN rows
  <2>. DEFINE row == [precision |-> value.precision, amount |-> value.amount]
  <2>1. after = Upsert(rows, k, row) /\ row \in Account
    BY <1>2, <1>0 DEF add_balance, Account
  <2>2. DOMAIN after = DOMAIN rows \cup {k} /\ after[k] = row
        /\ \A oc \in DOMAIN rows : after[oc] = rows[oc]
    BY <1>2, <2>1 DEF Upsert
  <2>3. IsTable(after, Names \X Codes, Account)
    BY <1>0, <2>1 DEF RowsOK, IsTable, Upsert
  <2>. HIDE DEF after
  <2>4. RowsOK(after)
    BY <1>0, <2>2, <2>3 DEF RowsOK, NoOverdraft, Precise
  <2>5. AmountIn(after, o, value.code) = AmountIn(rows, o, value.code) + value.amount
    BY <1>0, <1>2, <2>2 DEF AmountIn
  <2>6. \A n, c : <<n, c>> # k => AmountIn(after, n, c) = AmountIn(rows, n, c)
    BY <2>2 DEF AmountIn
  <2>. QED  BY <2>4, <2>5, <2>6 DEF after
<1>. QED  BY <1>1, <1>2

(* sub_balance debits one balance, which has enough.                       *)
LEMMA SubEffect ==
  ASSUME NEW rows, RowsOK(rows), NEW o \in Names, NEW value \in Asset,
         SubAllowed(rows, o, value)
  PROVE  /\ RowsOK(sub_balance(rows, o, value))
         /\ AmountIn(sub_balance(rows, o, value), o, value.code)
              = AmountIn(rows, o, value.code) - value.amount
         /\ \A n, c : <<n, c>> # <<o, value.code>> =>
              AmountIn(sub_balance(rows, o, value), n, c) = AmountIn(rows, n, c)
<1>. DEFINE k == <<o, value.code>>
            after == sub_balance(rows, o, value)
<1>0. value.amount \in Int /\ k \in DOMAIN rows /\ rows[k].amount >= value.amount
  BY DEF Asset, SubAllowed
<1>1. rows[k] \in Account
  BY <1>0 DEF RowsOK, IsTable
<1>2. after = [rows EXCEPT ![k].amount = @ - value.amount]
  BY DEF sub_balance
<1>3. DOMAIN after = DOMAIN rows /\ \A oc \in DOMAIN rows : oc # k => after[oc] = rows[oc]
  BY <1>2
<1>4. after[k].amount = rows[k].amount - value.amount
      /\ after[k].precision = rows[k].precision /\ after[k] \in Account
  BY <1>0, <1>1, <1>2 DEF Account
<1>5. after = [oc \in DOMAIN after |-> after[oc]]
  BY <1>2
<1>. HIDE DEF after
<1>6. IsTable(after, Names \X Codes, Account)
  <2>1. \A oc \in DOMAIN after : after[oc] \in Account
    BY <1>3, <1>4 DEF RowsOK, IsTable
  <2>. QED  BY <1>3, <1>5, <2>1 DEF RowsOK, IsTable
<1>7. NoOverdraft(after)
  BY <1>0, <1>1, <1>3, <1>4 DEF RowsOK, NoOverdraft, Account
<1>8. Precise(after)
  BY <1>3, <1>4, <1>0 DEF RowsOK, Precise
<1>9. AmountIn(after, o, value.code) = AmountIn(rows, o, value.code) - value.amount
  BY <1>0, <1>3, <1>4 DEF AmountIn
<1>10. \A n, c : <<n, c>> # k => AmountIn(after, n, c) = AmountIn(rows, n, c)
  BY <1>3 DEF AmountIn
<1>. QED  BY <1>6, <1>7, <1>8, <1>9, <1>10 DEF after, RowsOK

(* Sums: what an add, a sub and a transfer do to the total of each symbol. *)

LEMMA AddTotal ==
  ASSUME NEW rows, RowsOK(rows), NEW o \in Names, NEW value \in Asset,
         value.amount > 0, value.code \in DOMAIN stat,
         value.precision = stat[value.code].precision, NEW c
  PROVE  TotalIn(add_balance(rows, o, value), c)
           = TotalIn(rows, c) + (IF c = value.code THEN value.amount ELSE 0)
<1>. DEFINE after == add_balance(rows, o, value)
<1>1. /\ RowsOK(after)
      /\ AmountIn(after, o, value.code) = AmountIn(rows, o, value.code) + value.amount
      /\ \A n, d : <<n, d>> # <<o, value.code>> => AmountIn(after, n, d) = AmountIn(rows, n, d)
  BY AddEffect
<1>. HIDE DEF after
<1>2. TotalIn(after, c) = TotalIn(rows, c) + AmountIn(after, o, c) - AmountIn(rows, o, c)
  BY <1>1, TotalChange
<1>3. AmountIn(rows, o, c) \in Nat /\ TotalIn(rows, c) \in Nat /\ value.amount \in Int
  BY AmountType, TotalType DEF Asset
<1>4. AmountIn(after, o, c) = AmountIn(rows, o, c) + (IF c = value.code THEN value.amount ELSE 0)
  BY <1>1, <1>3
<1>. QED  BY <1>2, <1>3, <1>4 DEF after

LEMMA SubTotal ==
  ASSUME NEW rows, RowsOK(rows), NEW o \in Names, NEW value \in Asset,
         SubAllowed(rows, o, value), NEW c
  PROVE  TotalIn(sub_balance(rows, o, value), c)
           = TotalIn(rows, c) - (IF c = value.code THEN value.amount ELSE 0)
<1>. DEFINE after == sub_balance(rows, o, value)
<1>1. /\ RowsOK(after)
      /\ AmountIn(after, o, value.code) = AmountIn(rows, o, value.code) - value.amount
      /\ \A n, d : <<n, d>> # <<o, value.code>> => AmountIn(after, n, d) = AmountIn(rows, n, d)
  BY SubEffect
<1>. HIDE DEF after
<1>2. TotalIn(after, c) = TotalIn(rows, c) + AmountIn(after, o, c) - AmountIn(rows, o, c)
  BY <1>1, TotalChange
<1>3. AmountIn(rows, o, c) \in Nat /\ TotalIn(rows, c) \in Nat /\ value.amount \in Int
  BY AmountType, TotalType DEF Asset
<1>4. AmountIn(after, o, c) = AmountIn(rows, o, c) - (IF c = value.code THEN value.amount ELSE 0)
  BY <1>1, <1>3
<1>. QED  BY <1>2, <1>3, <1>4 DEF after

LEMMA TransferTotal ==
  ASSUME NEW rows, RowsOK(rows), NEW from \in Names, NEW to \in Names, NEW value \in Asset,
         TransferAllowed(rows, from, to, value)
  PROVE  /\ RowsOK(Transferred(rows, from, to, value))
         /\ \A c : TotalIn(Transferred(rows, from, to, value), c) = TotalIn(rows, c)
<1>. DEFINE mid == sub_balance(rows, from, value)
<1>1. /\ value.code \in DOMAIN stat /\ value.amount > 0 /\ value.amount \in Int
      /\ value.precision = stat[value.code].precision /\ SubAllowed(rows, from, value)
  BY DEF TransferAllowed, ValidQuantity, Asset
<1>2. RowsOK(mid)
  BY <1>1, SubEffect
<1>3. \A c : TotalIn(mid, c) = TotalIn(rows, c) - (IF c = value.code THEN value.amount ELSE 0)
  BY <1>1, SubTotal
<1>. HIDE DEF mid
<1>4. RowsOK(add_balance(mid, to, value))
  BY <1>1, <1>2, AddEffect
<1>5. \A c : TotalIn(add_balance(mid, to, value), c)
               = TotalIn(mid, c) + (IF c = value.code THEN value.amount ELSE 0)
  BY <1>1, <1>2, AddTotal
<1>6. \A c : TotalIn(rows, c) \in Nat
  BY TotalType
<1>7. \A c : TotalIn(add_balance(mid, to, value), c) = TotalIn(rows, c)
  BY <1>1, <1>3, <1>5, <1>6
<1>. QED  BY <1>4, <1>7 DEF Transferred, mid

-----------------------------------------------------------------------------
(* The invariant.  retire keeps the supply natural because the issuer's    *)
(* balance, which it does check, is one term of the sum the supply is.     *)

SupplyOf(c) == IF c \in DOMAIN stat THEN stat[c].supply ELSE 0

TokenInv == /\ IsTable(stat, Codes, Stat)
            /\ \A c \in DOMAIN stat : InRange(stat[c].max_supply)
            /\ SupplyWithinMax
            /\ RowsOK(accounts)
            /\ \A c \in Codes : TotalIn(accounts, c) = SupplyOf(c)

LEMMA RowsCarryOver ==
  ASSUME NEW rows, RowsOK(rows), accounts' = rows, DOMAIN stat \subseteq DOMAIN stat',
         \A c \in DOMAIN stat : stat'[c].precision = stat[c].precision
  PROVE  RowsOK(accounts)'
BY DEF RowsOK, NoOverdraft, Precise

(* A change of the supply of one code keeps the rest of the row.           *)
LEMMA SupplyUpdate ==
  ASSUME TokenInv, NEW c \in DOMAIN stat, NEW s \in Int,
         stat' = [stat EXCEPT ![c].supply = s],
         0 <= s, s <= stat[c].max_supply
  PROVE  /\ IsTable(stat', Codes, Stat)
         /\ DOMAIN stat' = DOMAIN stat
         /\ \A d \in DOMAIN stat : /\ stat'[d].precision = stat[d].precision
                                  /\ InRange(stat'[d].max_supply)
         /\ SupplyWithinMax'
         /\ \A d : SupplyOf(d)' = IF d = c THEN s ELSE SupplyOf(d)
<1>1. \A d \in DOMAIN stat : stat[d] \in Stat
  BY DEF TokenInv, IsTable
<1>2. DOMAIN stat' = DOMAIN stat /\ \A d \in DOMAIN stat : d # c => stat'[d] = stat[d]
  OBVIOUS
<1>3. /\ stat'[c] \in Stat /\ stat'[c].supply = s
      /\ stat'[c].precision = stat[c].precision
      /\ stat'[c].max_supply = stat[c].max_supply
  BY <1>1 DEF Stat
<1>4. stat' = [d \in DOMAIN stat' |-> stat'[d]]
  OBVIOUS
<1>5. \A d \in DOMAIN stat' : stat'[d] \in Stat
  BY <1>1, <1>2, <1>3
<1>6. IsTable(stat', Codes, Stat)
  BY <1>2, <1>4, <1>5 DEF TokenInv, IsTable
<1>7. \A d \in DOMAIN stat : /\ stat'[d].precision = stat[d].precision
                            /\ InRange(stat'[d].max_supply)
  BY <1>2, <1>3 DEF TokenInv
<1>8. SupplyWithinMax'
  BY <1>2, <1>3 DEF TokenInv, SupplyWithinMax
<1>. QED  BY <1>2, <1>3, <1>6, <1>7, <1>8 DEF SupplyOf

LEMMA CreateKeeps ==
  ASSUME TokenInv, NEW issuer \in Names, NEW q \in Inputs, create(issuer, q)
  PROVE  TokenInv'
<1>. DEFINE c == q.code
            row == [precision |-> q.precision, supply |-> 0, max_supply |-> q.amount,
                    issuer |-> issuer]
<1>1. /\ c \in Codes /\ c \notin DOMAIN stat /\ InRange(q.amount) /\ q.amount > 0
      /\ q.amount \in Int /\ stat' = Upsert(stat, c, row) /\ accounts' = accounts
  BY DEF create, Inputs
<1>2. row \in Stat
  BY <1>1 DEF Inputs, Stat
<1>3. DOMAIN stat' = DOMAIN stat \cup {c} /\ stat'[c] = row
      /\ \A d \in DOMAIN stat : stat'[d] = stat[d]
  BY <1>1 DEF Upsert
<1>4. IsTable(stat', Codes, Stat)
  BY <1>1, <1>2 DEF Upsert, IsTable, TokenInv
<1>5. RowsOK(accounts)'
  BY <1>1, <1>3, RowsCarryOver DEF TokenInv
<1>6. SupplyWithinMax' /\ \A d \in DOMAIN stat' : InRange(stat'[d].max_supply)
  BY <1>1, <1>3 DEF TokenInv, SupplyWithinMax
<1>7. \A d \in Codes : SupplyOf(d)' = SupplyOf(d)
  BY <1>3, <1>1 DEF SupplyOf
<1>8. \A d \in Codes : TotalIn(accounts, d)' = TotalIn(accounts, d)
  BY <1>1, TotalSame DEF AmountIn
<1>. QED  BY <1>4, <1>5, <1>6, <1>7, <1>8 DEF TokenInv

LEMMA IssueKeeps ==
  ASSUME TokenInv, NEW to \in Names, NEW q \in Inputs, issue(to, q)
  PROVE  TokenInv'
<1>. DEFINE c == q.code
            issuer == stat[c].issuer
            issued == add_balance(accounts, issuer, q)
            final == IF to = issuer THEN issued ELSE Transferred(issued, issuer, to, q)
<1>1. /\ c \in DOMAIN stat /\ c \in Codes /\ q.amount > 0 /\ q.amount \in Int
      /\ q.precision = stat[c].precision /\ q \in Asset
      /\ stat[c] \in Stat /\ issuer \in Names
  BY DEF issue, ValidQuantity, Inputs, Asset, TokenInv, IsTable, Stat
<1>2. /\ stat' = [stat EXCEPT ![c].supply = stat[c].supply + q.amount]
      /\ q.amount <= stat[c].max_supply - stat[c].supply
      /\ to # issuer => TransferAllowed(issued, issuer, to, q)
      /\ accounts' = final
  BY DEF issue, Issuable
<1>3. stat[c].supply \in Int /\ stat[c].max_supply \in Int /\ 0 <= stat[c].supply
  BY <1>1 DEF Stat, TokenInv, SupplyWithinMax
<1>4. /\ IsTable(stat', Codes, Stat)
      /\ DOMAIN stat' = DOMAIN stat
      /\ \A d \in DOMAIN stat : /\ stat'[d].precision = stat[d].precision
                               /\ InRange(stat'[d].max_supply)
      /\ SupplyWithinMax'
      /\ \A d : SupplyOf(d)' = IF d = c THEN stat[c].supply + q.amount ELSE SupplyOf(d)
  <2>. DEFINE s == stat[c].supply + q.amount
  <2>1. s \in Int /\ 0 <= s /\ s <= stat[c].max_supply
    BY <1>1, <1>2, <1>3
  <2>2. stat' = [stat EXCEPT ![c].supply = s]
    BY <1>2
  <2>. HIDE DEF s
  <2>3. /\ IsTable(stat', Codes, Stat)
        /\ DOMAIN stat' = DOMAIN stat
        /\ \A d \in DOMAIN stat : /\ stat'[d].precision = stat[d].precision
                                 /\ InRange(stat'[d].max_supply)
        /\ SupplyWithinMax'
        /\ \A d : SupplyOf(d)' = IF d = c THEN s ELSE SupplyOf(d)
    BY <2>1, <2>2, <1>1, SupplyUpdate
  <2>. QED  BY <2>3 DEF s
<1>5. RowsOK(issued)
      /\ \A d : TotalIn(issued, d) = TotalIn(accounts, d) + (IF d = c THEN q.amount ELSE 0)
  <2>1. RowsOK(accounts)
    BY DEF TokenInv
  <2>. QED  BY <2>1, <1>1, AddEffect, AddTotal
<1>6. RowsOK(final)
      /\ \A d : TotalIn(final, d) = TotalIn(accounts, d) + (IF d = c THEN q.amount ELSE 0)
  <2>1. CASE to = issuer
    BY <2>1, <1>5
  <2>2. CASE to # issuer
    <3>. HIDE DEF issued, issuer, c
    <3>1. RowsOK(Transferred(issued, issuer, to, q))
          /\ \A d : TotalIn(Transferred(issued, issuer, to, q), d) = TotalIn(issued, d)
      BY <1>1, <1>2, <1>5, <2>2, TransferTotal
    <3>. QED  BY <3>1, <1>5, <2>2
  <2>. QED  BY <2>1, <2>2
<1>7. RowsOK(accounts)'
  <2>. HIDE DEF final
  <2>. QED  BY <1>2, <1>4, <1>6, RowsCarryOver
<1>8. \A d \in Codes : TotalIn(accounts, d)' = SupplyOf(d)'
  <2>1. \A d : TotalIn(accounts, d)' = TotalIn(final, d)
    BY <1>2 DEF TotalIn, AmountIn
  <2>2. \A d \in Codes : TotalIn(accounts, d) = SupplyOf(d)
    BY DEF TokenInv
  <2>3. \A d \in Codes \ {c} : SupplyOf(d) \in Int
    BY DEF SupplyOf, TokenInv, IsTable, Stat
  <2>4. SupplyOf(c) = stat[c].supply
    BY <1>1 DEF SupplyOf
  <2>. HIDE DEF final, c
  <2>. QED  BY <2>1, <2>2, <2>3, <2>4, <1>1, <1>3, <1>4, <1>6
<1>. QED  BY <1>4, <1>7, <1>8 DEF TokenInv

LEMMA RetireKeeps ==
  ASSUME TokenInv, NEW q \in Inputs, retire(q)
  PROVE  TokenInv'
<1>. DEFINE c == q.code
            issuer == stat[c].issuer
            s == stat[c].supply - q.amount
            final == sub_balance(accounts, issuer, q)
<1>1. /\ c \in DOMAIN stat /\ c \in Codes /\ q.amount > 0 /\ q.amount \in Int
      /\ q \in Asset /\ stat[c] \in Stat /\ issuer \in Names
  BY DEF retire, ValidQuantity, Inputs, Asset, TokenInv, IsTable, Stat
<1>2. /\ stat' = [stat EXCEPT ![c].supply = s]
      /\ SubAllowed(accounts, issuer, q)
      /\ accounts' = final
      /\ RowsOK(accounts)
  BY DEF retire, TokenInv
<1>3. q.amount <= stat[c].supply
  <2>1. q.amount <= AmountIn(accounts, issuer, c)
    BY <1>2 DEF SubAllowed, AmountIn
  <2>2. AmountIn(accounts, issuer, c) <= TotalIn(accounts, c)
        /\ AmountIn(accounts, issuer, c) \in Nat /\ TotalIn(accounts, c) \in Nat
    BY <1>1, <1>2, TotalType, AmountType
  <2>3. TotalIn(accounts, c) = stat[c].supply
    BY <1>1 DEF TokenInv, SupplyOf
  <2>. HIDE DEF c, issuer
  <2>. QED  BY <1>1, <2>1, <2>2, <2>3
<1>4. s \in Int /\ 0 <= s /\ s <= stat[c].max_supply /\ stat[c].supply \in Int
  BY <1>1, <1>3 DEF Stat, TokenInv, SupplyWithinMax
<1>. HIDE DEF s
<1>5. /\ IsTable(stat', Codes, Stat)
      /\ DOMAIN stat' = DOMAIN stat
      /\ \A d \in DOMAIN stat : /\ stat'[d].precision = stat[d].precision
                               /\ InRange(stat'[d].max_supply)
      /\ SupplyWithinMax'
      /\ \A d : SupplyOf(d)' = IF d = c THEN s ELSE SupplyOf(d)
  BY <1>1, <1>2, <1>4, SupplyUpdate
<1>6. RowsOK(final)
      /\ \A d : TotalIn(final, d) = TotalIn(accounts, d) - (IF d = c THEN q.amount ELSE 0)
  BY <1>1, <1>2, SubEffect, SubTotal
<1>7. RowsOK(accounts)'
  <2>. HIDE DEF final
  <2>. QED  BY <1>2, <1>5, <1>6, RowsCarryOver
<1>8. \A d \in Codes : TotalIn(accounts, d)' = SupplyOf(d)'
  <2>1. \A d : TotalIn(accounts, d)' = TotalIn(final, d)
    BY <1>2 DEF TotalIn, AmountIn
  <2>2. \A d \in Codes : TotalIn(accounts, d) = SupplyOf(d)
    BY DEF TokenInv
  <2>3. \A d \in Codes \ {c} : SupplyOf(d) \in Int
    BY DEF SupplyOf, TokenInv, IsTable, Stat
  <2>4. SupplyOf(c) = stat[c].supply
    BY <1>1 DEF SupplyOf
  <2>. HIDE DEF final, c
  <2>. QED  BY <2>1, <2>2, <2>3, <2>4, <1>1, <1>4, <1>5, <1>6 DEF s
<1>. QED  BY <1>5, <1>7, <1>8 DEF TokenInv

(* The actions that leave stat alone.                                      *)
LEMMA RowsChange ==
  ASSUME TokenInv, stat' = stat, NEW after, accounts' = after, RowsOK(after),
         \A c : TotalIn(after, c) = TotalIn(accounts, c)
  PROVE  TokenInv'
<1>1. RowsOK(accounts)'
  BY RowsCarryOver
<1>2. \A c : TotalIn(accounts, c)' = TotalIn(after, c)
  BY DEF TotalIn, AmountIn
<1>. QED  BY <1>1, <1>2 DEF TokenInv, SupplyWithinMax, SupplyOf

LEMMA TransferKeeps ==
  ASSUME TokenInv, NEW from \in OnChain, NEW to \in Names, NEW q \in Inputs,
         transfer(from, to, q)
  PROVE  TokenInv'
<1>. DEFINE after == Transferred(accounts, from, to, q)
<1>1. q \in Asset /\ from \in Names /\ RowsOK(accounts)
  BY DEF Inputs, Asset, TokenInv
<1>2. TransferAllowed(accounts, from, to, q) /\ accounts' = after /\ stat' = stat
  BY DEF transfer
<1>3. RowsOK(after) /\ \A c : TotalIn(after, c) = TotalIn(accounts, c)
  BY <1>1, <1>2, TransferTotal
<1>. HIDE DEF after
<1>. QED  BY <1>2, <1>3, RowsChange

LEMMA OpenKeeps ==
  ASSUME TokenInv, NEW o \in Names, NEW c \in Codes, NEW d \in Precisions, open(o, c, d)
  PROVE  TokenInv'
<1>1. CASE <<o, c>> \in DOMAIN accounts
  <2>1. accounts' = accounts /\ stat' = stat /\ RowsOK(accounts)
    BY <1>1 DEF open, TokenInv
  <2>. QED  BY <2>1, RowsChange
<1>2. CASE <<o, c>> \notin DOMAIN accounts
  <2>. DEFINE row == [precision |-> d, amount |-> 0]
              after == Upsert(accounts, <<o, c>>, row)
  <2>1. accounts' = after /\ stat' = stat /\ row \in Account /\ RowsOK(accounts)
        /\ c \in DOMAIN stat /\ stat[c].precision = d
    BY <1>2 DEF open, Account, TokenInv
  <2>2. DOMAIN after = DOMAIN accounts \cup {<<o, c>>} /\ after[<<o, c>>] = row
        /\ \A oc \in DOMAIN accounts : after[oc] = accounts[oc]
    BY <1>2 DEF Upsert
  <2>3. IsTable(after, Names \X Codes, Account)
    BY <2>1 DEF RowsOK, IsTable, Upsert
  <2>. HIDE DEF after
  <2>4. RowsOK(after)
    BY <2>1, <2>2, <2>3 DEF RowsOK, NoOverdraft, Precise
  <2>5. \A n, e : AmountIn(after, n, e) = AmountIn(accounts, n, e)
    BY <1>2, <2>2 DEF AmountIn
  <2>6. \A e : TotalIn(after, e) = TotalIn(accounts, e)
    BY <2>5, TotalSame
  <2>. QED  BY <2>1, <2>4, <2>6, RowsChange
<1>. QED  BY <1>1, <1>2

LEMMA CloseKeeps ==
  ASSUME TokenInv, NEW o \in OnChain, NEW c \in Codes, close(o, c)
  PROVE  TokenInv'
<1>. DEFINE after == Erase(accounts, <<o, c>>)
<1>1. accounts' = after /\ stat' = stat /\ RowsOK(accounts)
      /\ <<o, c>> \in DOMAIN accounts /\ accounts[<<o, c>>].amount = 0
  BY DEF close, TokenInv
<1>2. DOMAIN after = DOMAIN accounts \ {<<o, c>>}
      /\ \A oc \in DOMAIN after : after[oc] = accounts[oc]
  BY DEF Erase
<1>3. IsTable(after, Names \X Codes, Account)
  BY <1>1 DEF RowsOK, IsTable, Erase
<1>. HIDE DEF after
<1>4. RowsOK(after)
  BY <1>1, <1>2, <1>3 DEF RowsOK, NoOverdraft, Precise
<1>5. \A n, e : AmountIn(after, n, e) = AmountIn(accounts, n, e)
  BY <1>1, <1>2 DEF AmountIn
<1>6. \A e : TotalIn(after, e) = TotalIn(accounts, e)
  BY <1>5, TotalSame
<1>. QED  BY <1>1, <1>4, <1>6, RowsChange

LEMMA TokenInvStep == TokenInv /\ [TokenNext]_tokenVars => TokenInv'
<1>. SUFFICES ASSUME TokenInv, [TokenNext]_tokenVars
              PROVE  TokenInv'
  OBVIOUS
<1>1. ASSUME NEW n \in Names, NEW q \in Inputs, create(n, q)
      PROVE  TokenInv'
  BY <1>1, CreateKeeps
<1>2. ASSUME NEW n \in Names, NEW q \in Inputs, issue(n, q)
      PROVE  TokenInv'
  BY <1>2, IssueKeeps
<1>3. ASSUME NEW q \in Inputs, retire(q)
      PROVE  TokenInv'
  BY <1>3, RetireKeeps
<1>4. ASSUME NEW from \in OnChain, NEW to \in Names, NEW q \in Inputs, transfer(from, to, q)
      PROVE  TokenInv'
  BY <1>4, TransferKeeps
<1>5. ASSUME NEW n \in Names, NEW c \in Codes, NEW d \in Precisions, open(n, c, d)
      PROVE  TokenInv'
  BY <1>5, OpenKeeps
<1>6. ASSUME NEW n \in OnChain, NEW c \in Codes, close(n, c)
      PROVE  TokenInv'
  BY <1>6, CloseKeeps
<1>7. CASE UNCHANGED tokenVars
  <2>1. accounts' = accounts /\ stat' = stat /\ RowsOK(accounts)
    BY <1>7 DEF tokenVars, TokenInv
  <2>. QED  BY <2>1, RowsChange
<1>. QED  BY <1>1, <1>2, <1>3, <1>4, <1>5, <1>6, <1>7 DEF TokenNext

LEMMA TokenInvInit == TokenInit => TokenInv
<1>. SUFFICES ASSUME TokenInit PROVE TokenInv
  OBVIOUS
<1>1. \A n, c : AmountIn(accounts, n, c) = 0
  BY DEF TokenInit, EmptyTable, AmountIn
<1>2. \A c : TotalIn(accounts, c) = 0
  BY <1>1, SumZero DEF TotalIn
<1>. QED  BY <1>2 DEF TokenInit, EmptyTable, TokenInv, IsTable, SupplyWithinMax, RowsOK,
                      NoOverdraft, Precise, SupplyOf

LEMMA TokenInvAlways == TokenSpec => []TokenInv
BY TokenInvInit, TokenInvStep, PTL DEF TokenSpec

(* Both tables keep their shape, for any names, codes and amounts.         *)
THEOREM TokenTypeCorrect == TokenSpec => []TokenTypeOK
<1>1. TokenInv => TokenTypeOK
  BY DEF TokenInv, RowsOK, TokenTypeOK
<1>. QED  BY <1>1, TokenInvAlways, PTL

(* The supply of every token is the sum of its balances, always.           *)
THEOREM SupplyIsConserved == TokenSpec => []Conservation
<1>1. TokenInv => Conservation
  BY DEF TokenInv, Conservation, SupplyOf
<1>. QED  BY <1>1, TokenInvAlways, PTL

(* retire cannot take the supply below zero nor issue above its maximum.   *)
THEOREM SupplyIsBounded == TokenSpec => []SupplyWithinMax
<1>1. TokenInv => SupplyWithinMax
  BY DEF TokenInv
<1>. QED  BY <1>1, TokenInvAlways, PTL

(* Every balance row has the symbol of a created token, so += and -= never *)
(* meet two symbols.                                                       *)
THEOREM SymbolsAlwaysAgree == TokenSpec => []SymbolsAgree
<1>1. TokenInv => SymbolsAgree
  BY DEF TokenInv, RowsOK, Precise, SymbolsAgree
<1>. QED  BY <1>1, TokenInvAlways, PTL

(* Whoever receives a transfer, their balance plus the amount is an amount *)
(* asset can represent.                                                    *)
THEOREM TransfersAlwaysFit == TokenSpec => []TransfersFit
<1>1. ASSUME TokenInv, NEW a \in Names, NEW b \in Names, a # b, NEW c \in Codes
      PROVE  InRange(Held(a, c) + Held(b, c))
  <2>. DEFINE f == [n \in Names |-> AmountIn(accounts, n, c)]
  <2>1. \A n \in Names : f[n] \in Nat
    BY <1>1, AmountType DEF TokenInv
  <2>2. TotalIn(accounts, c) = SumFunctionOnSet(f, Names) /\ f[a] = Held(a, c) /\ f[b] = Held(b, c)
    BY DEF TotalIn, Held
  <2>3. TotalIn(accounts, c) <= MaxAmount /\ TotalIn(accounts, c) \in Nat
    <3>1. TotalIn(accounts, c) \in Nat
      BY <1>1, TotalType DEF TokenInv
    <3>2. CASE c \in DOMAIN stat
      <4>1. stat[c] \in Stat
        BY <1>1, <3>2 DEF TokenInv, IsTable
      <4>. QED  BY <1>1, <3>1, <3>2, <4>1 DEF TokenInv, SupplyOf, SupplyWithinMax, InRange, Stat
    <3>3. CASE c \notin DOMAIN stat
      BY <1>1, <3>1, <3>3 DEF TokenInv, SupplyOf
    <3>. QED  BY <3>2, <3>3, <3>1
  <2>. HIDE DEF f
  <2>4. SumFunctionOnSet(f, Names) = f[a] + SumFunctionOnSet(f, Names \ {a})
    BY <2>1, SumTakeOut
  <2>5. IsFiniteSet(Names \ {a}) /\ b \in Names \ {a}
    BY <1>1, FS_RemoveElement
  <2>6. f[b] <= SumFunctionOnSet(f, Names \ {a}) /\ SumFunctionOnSet(f, Names \ {a}) \in Nat
    BY <2>1, <2>5, SumBoundsTerm, SumType
  <2>. QED  BY <2>1, <2>2, <2>3, <2>4, <2>6 DEF InRange
<1>2. TokenInv => TransfersFit
  BY <1>1 DEF TransfersFit
<1>. QED  BY <1>2, TokenInvAlways, PTL

-----------------------------------------------------------------------------
(* Refinement: one action is one move of the ledger, or none.              *)

SupplyMap == [c \in Codes |-> SupplyOf(c)]
BalanceMap == [oc \in Names \X Codes |-> AmountIn(accounts, oc[1], oc[2])]

(* What a transfer does to single balances.                                *)
LEMMA TransferEffect ==
  ASSUME NEW rows, RowsOK(rows), NEW from \in Names, NEW to \in Names, NEW value \in Asset,
         TransferAllowed(rows, from, to, value)
  PROVE  /\ AmountIn(Transferred(rows, from, to, value), from, value.code)
              = AmountIn(rows, from, value.code) - value.amount
         /\ AmountIn(Transferred(rows, from, to, value), to, value.code)
              = AmountIn(rows, to, value.code) + value.amount
         /\ \A n, c : <<n, c>> \notin {<<from, value.code>>, <<to, value.code>>} =>
              AmountIn(Transferred(rows, from, to, value), n, c) = AmountIn(rows, n, c)
<1>. DEFINE mid == sub_balance(rows, from, value)
            k == <<from, value.code>>
            after == add_balance(mid, to, value)
<1>1. /\ value.code \in DOMAIN stat /\ value.amount > 0 /\ from # to
      /\ value.precision = stat[value.code].precision /\ SubAllowed(rows, from, value)
  BY DEF TransferAllowed, ValidQuantity
<1>2. /\ RowsOK(mid)
      /\ AmountIn(mid, from, value.code) = AmountIn(rows, from, value.code) - value.amount
      /\ \A n, c : <<n, c>> # k => AmountIn(mid, n, c) = AmountIn(rows, n, c)
  BY <1>1, SubEffect
<1>. HIDE DEF mid
<1>3. /\ AmountIn(after, to, value.code) = AmountIn(mid, to, value.code) + value.amount
      /\ \A n, c : <<n, c>> # <<to, value.code>> => AmountIn(after, n, c) = AmountIn(mid, n, c)
  BY <1>1, <1>2, AddEffect
<1>4. after = Transferred(rows, from, to, value)
  BY DEF Transferred, mid
<1>. HIDE DEF after
<1>5. <<from, value.code>> # <<to, value.code>>
  BY <1>1
<1>6. AmountIn(after, from, value.code) = AmountIn(rows, from, value.code) - value.amount
  BY <1>2, <1>3, <1>5
<1>7. AmountIn(after, to, value.code) = AmountIn(rows, to, value.code) + value.amount
  BY <1>2, <1>3, <1>5
<1>8. \A n, c : <<n, c>> \notin {<<from, value.code>>, <<to, value.code>>} =>
              AmountIn(after, n, c) = AmountIn(rows, n, c)
  BY <1>2, <1>3
<1>. QED  BY <1>4, <1>6, <1>7, <1>8

(* Two tables with the same balances are the same ledger.                  *)
LEMMA BalancesAgree ==
  ASSUME \A n, c : AmountIn(accounts, n, c)' = AmountIn(accounts, n, c)
  PROVE  BalanceMap' = BalanceMap
BY DEF BalanceMap

LEMMA SuppliesAgree ==
  ASSUME \A c \in Codes : SupplyOf(c)' = SupplyOf(c)
  PROVE  SupplyMap' = SupplyMap
BY DEF SupplyMap

LEMMA CreateRefines ==
  ASSUME TokenInv, NEW issuer \in Names, NEW q \in Inputs, create(issuer, q)
  PROVE  SupplyMap' = SupplyMap /\ BalanceMap' = BalanceMap
<1>1. \A c \in Codes : SupplyOf(c)' = SupplyOf(c)
  BY DEF create, Upsert, SupplyOf, Inputs
<1>2. \A n, c : AmountIn(accounts, n, c)' = AmountIn(accounts, n, c)
  BY DEF create, AmountIn
<1>. QED  BY <1>1, <1>2, SuppliesAgree, BalancesAgree

LEMMA SupplyAfter ==
  ASSUME NEW c \in DOMAIN stat, NEW s, IsTable(stat, Codes, Stat),
         stat' = [stat EXCEPT ![c].supply = s]
  PROVE  SupplyMap' = [SupplyMap EXCEPT ![c] = s]
<1>1. stat[c] \in Stat /\ c \in Codes
  BY DEF IsTable
<1>2. stat'[c].supply = s
  BY <1>1 DEF Stat
<1>3. \A d \in Codes : SupplyOf(d)' = IF d = c THEN s ELSE SupplyOf(d)
  BY <1>2 DEF SupplyOf
<1>. QED  BY <1>1, <1>3 DEF SupplyMap

LEMMA IssueRefines ==
  ASSUME TokenInv, NEW to \in Names, NEW q \in Inputs, issue(to, q)
  PROVE  /\ SupplyMap' = [SupplyMap EXCEPT ![q.code] = @ + q.amount]
         /\ BalanceMap' = [BalanceMap EXCEPT ![<<to, q.code>>] = @ + q.amount]
         /\ SupplyMap[q.code] + q.amount <= MaxAmount
         /\ q.amount \in 1..MaxAmount
<1>. DEFINE c == q.code
            issuer == stat[c].issuer
            issued == add_balance(accounts, issuer, q)
            final == IF to = issuer THEN issued ELSE Transferred(issued, issuer, to, q)
<1>1. /\ c \in DOMAIN stat /\ c \in Codes /\ q.amount > 0 /\ q.amount \in Int
      /\ q.precision = stat[c].precision /\ q \in Asset /\ InRange(q.amount)
      /\ stat[c] \in Stat /\ issuer \in Names
  BY DEF issue, ValidQuantity, Inputs, Asset, TokenInv, IsTable, Stat
<1>2. /\ stat' = [stat EXCEPT ![c].supply = stat[c].supply + q.amount]
      /\ InRange(stat[c].supply + q.amount)
      /\ to # issuer => TransferAllowed(issued, issuer, to, q)
      /\ accounts' = final
  BY DEF issue
<1>3. SupplyMap[c] = stat[c].supply
  BY <1>1 DEF SupplyMap, SupplyOf
<1>4. SupplyMap' = [SupplyMap EXCEPT ![c] = stat[c].supply + q.amount]
  <2>. DEFINE s == stat[c].supply + q.amount
  <2>1. stat' = [stat EXCEPT ![c].supply = s] /\ IsTable(stat, Codes, Stat)
    BY <1>2 DEF TokenInv
  <2>. HIDE DEF s
  <2>2. SupplyMap' = [SupplyMap EXCEPT ![c] = s]
    BY <1>1, <2>1, SupplyAfter
  <2>. QED  BY <2>2 DEF s
<1>5. /\ RowsOK(issued)
      /\ AmountIn(issued, issuer, c) = AmountIn(accounts, issuer, c) + q.amount
      /\ \A n, d : <<n, d>> # <<issuer, c>> => AmountIn(issued, n, d) = AmountIn(accounts, n, d)
  <2>1. RowsOK(accounts)
    BY DEF TokenInv
  <2>. QED  BY <2>1, <1>1, AddEffect
<1>6. \A n, d : AmountIn(accounts, n, d) \in Nat
  BY AmountType DEF TokenInv
<1>7. \A n, d : AmountIn(final, n, d)
                 = AmountIn(accounts, n, d) + (IF <<n, d>> = <<to, c>> THEN q.amount ELSE 0)
  <2>1. CASE to = issuer
    <3>1. final = issued
      BY <2>1
    <3>. HIDE DEF issued, issuer, c, final
    <3>. QED  BY <2>1, <3>1, <1>5, <1>6
  <2>2. CASE to # issuer
    <3>1. final = Transferred(issued, issuer, to, q) /\ TransferAllowed(issued, issuer, to, q)
      BY <2>2, <1>2
    <3>. HIDE DEF issued, issuer, final
    <3>2. /\ AmountIn(final, issuer, c) = AmountIn(issued, issuer, c) - q.amount
          /\ AmountIn(final, to, c) = AmountIn(issued, to, c) + q.amount
          /\ \A n, d : <<n, d>> \notin {<<issuer, c>>, <<to, c>>} =>
               AmountIn(final, n, d) = AmountIn(issued, n, d)
      BY <3>1, <1>1, <1>5, TransferEffect
    <3>. HIDE DEF c
    <3>3. AmountIn(final, issuer, c) = AmountIn(accounts, issuer, c)
      BY <3>2, <1>1, <1>5, <1>6
    <3>4. AmountIn(final, to, c) = AmountIn(accounts, to, c) + q.amount
      BY <3>2, <1>5, <2>2
    <3>5. \A n, d : <<n, d>> \notin {<<issuer, c>>, <<to, c>>} =>
            AmountIn(final, n, d) = AmountIn(accounts, n, d)
      BY <3>2, <1>5
    <3>. QED  BY <2>2, <3>3, <3>4, <3>5, <1>6
  <2>. QED  BY <2>1, <2>2
<1>8. BalanceMap' = [BalanceMap EXCEPT ![<<to, c>>] = @ + q.amount]
  <2>1. \A n, d : AmountIn(accounts, n, d)' = AmountIn(final, n, d)
    BY <1>2 DEF AmountIn
  <2>2. <<to, c>> \in Names \X Codes
    BY <1>1
  <2>. HIDE DEF final, c
  <2>3. \A n, d : AmountIn(accounts, n, d)'
                   = AmountIn(accounts, n, d) + (IF <<n, d>> = <<to, c>> THEN q.amount ELSE 0)
    BY <2>1, <1>7
  <2>4. \A oc \in Names \X Codes : BalanceMap'[oc]
          = IF oc = <<to, c>> THEN BalanceMap[oc] + q.amount ELSE BalanceMap[oc]
    BY <2>3, <1>6 DEF BalanceMap
  <2>. QED  BY <2>2, <2>4 DEF BalanceMap
<1>. QED  BY <1>1, <1>2, <1>3, <1>4, <1>8 DEF InRange

LEMMA RetireRefines ==
  ASSUME TokenInv, NEW q \in Inputs, retire(q)
  PROVE  \E issuer \in Names :
           /\ SupplyMap' = [SupplyMap EXCEPT ![q.code] = @ - q.amount]
           /\ BalanceMap' = [BalanceMap EXCEPT ![<<issuer, q.code>>] = @ - q.amount]
           /\ BalanceMap[<<issuer, q.code>>] >= q.amount
           /\ q.code \in Codes /\ q.amount \in 1..MaxAmount
<1>. DEFINE c == q.code
            issuer == stat[c].issuer
            final == sub_balance(accounts, issuer, q)
            s == stat[c].supply - q.amount
<1>1. /\ c \in DOMAIN stat /\ c \in Codes /\ q.amount > 0 /\ q.amount \in Int
      /\ q \in Asset /\ InRange(q.amount) /\ stat[c] \in Stat /\ issuer \in Names
  BY DEF retire, ValidQuantity, Inputs, Asset, TokenInv, IsTable, Stat
<1>2. stat' = [stat EXCEPT ![c].supply = s] /\ IsTable(stat, Codes, Stat)
      /\ SubAllowed(accounts, issuer, q) /\ accounts' = final /\ RowsOK(accounts)
  BY DEF retire, TokenInv
<1>3. SupplyMap[c] = stat[c].supply
  BY <1>1 DEF SupplyMap, SupplyOf
<1>4. SupplyMap' = [SupplyMap EXCEPT ![c] = s]
  <2>. HIDE DEF s
  <2>. QED  BY <1>1, <1>2, SupplyAfter
<1>5. /\ AmountIn(final, issuer, c) = AmountIn(accounts, issuer, c) - q.amount
      /\ \A n, d : <<n, d>> # <<issuer, c>> => AmountIn(final, n, d) = AmountIn(accounts, n, d)
  BY <1>1, <1>2, SubEffect
<1>6. BalanceMap[<<issuer, c>>] = AmountIn(accounts, issuer, c)
      /\ AmountIn(accounts, issuer, c) >= q.amount
  BY <1>1, <1>2 DEF BalanceMap, SubAllowed, AmountIn
<1>7. BalanceMap' = [BalanceMap EXCEPT ![<<issuer, c>>] = @ - q.amount]
  <2>1. \A n, d : AmountIn(accounts, n, d)' = AmountIn(final, n, d)
    BY <1>2 DEF AmountIn
  <2>2. <<issuer, c>> \in Names \X Codes
    BY <1>1
  <2>. HIDE DEF final, c, issuer
  <2>3. \A oc \in Names \X Codes : BalanceMap'[oc]
          = IF oc = <<issuer, c>> THEN BalanceMap[oc] - q.amount ELSE BalanceMap[oc]
    BY <2>1, <1>5 DEF BalanceMap
  <2>. QED  BY <2>2, <2>3 DEF BalanceMap
<1>8. q.amount \in 1..MaxAmount
  BY <1>1 DEF InRange
<1>. QED  BY <1>1, <1>3, <1>4, <1>6, <1>7, <1>8

LEMMA TransferRefines ==
  ASSUME TokenInv, NEW from \in OnChain, NEW to \in Names, NEW q \in Inputs,
         transfer(from, to, q)
  PROVE  /\ SupplyMap' = SupplyMap
         /\ from # to /\ BalanceMap[<<from, q.code>>] >= q.amount
         /\ BalanceMap' = [BalanceMap EXCEPT ![<<from, q.code>>] = @ - q.amount,
                                             ![<<to, q.code>>] = @ + q.amount]
         /\ q.code \in Codes /\ q.amount \in 1..MaxAmount /\ from \in Names
<1>. DEFINE c == q.code
            after == Transferred(accounts, from, to, q)
<1>1. /\ q \in Asset /\ from \in Names /\ RowsOK(accounts) /\ c \in Codes /\ q.amount \in Int
      /\ TransferAllowed(accounts, from, to, q) /\ accounts' = after /\ stat' = stat
  BY DEF Inputs, Asset, TokenInv, transfer
<1>2. from # to /\ q.amount > 0 /\ InRange(q.amount) /\ AmountIn(accounts, from, c) >= q.amount
  BY <1>1 DEF TransferAllowed, ValidQuantity, SubAllowed, AmountIn
<1>3. /\ AmountIn(after, from, c) = AmountIn(accounts, from, c) - q.amount
      /\ AmountIn(after, to, c) = AmountIn(accounts, to, c) + q.amount
      /\ \A n, d : <<n, d>> \notin {<<from, c>>, <<to, c>>} =>
           AmountIn(after, n, d) = AmountIn(accounts, n, d)
  BY <1>1, TransferEffect
<1>4. SupplyMap' = SupplyMap
  BY <1>1, SuppliesAgree DEF SupplyOf
<1>5. BalanceMap' = [BalanceMap EXCEPT ![<<from, c>>] = @ - q.amount, ![<<to, c>>] = @ + q.amount]
  <2>1. \A n, d : AmountIn(accounts, n, d)' = AmountIn(after, n, d)
    BY <1>1 DEF AmountIn
  <2>2. <<from, c>> \in Names \X Codes /\ <<to, c>> \in Names \X Codes
        /\ <<from, c>> # <<to, c>>
    BY <1>1, <1>2
  <2>. HIDE DEF after, c
  <2>3. \A oc \in Names \X Codes : BalanceMap'[oc]
          = IF oc = <<from, c>> THEN BalanceMap[oc] - q.amount
            ELSE IF oc = <<to, c>> THEN BalanceMap[oc] + q.amount ELSE BalanceMap[oc]
    BY <2>1, <1>3 DEF BalanceMap
  <2>. QED  BY <2>2, <2>3 DEF BalanceMap
<1>6. BalanceMap[<<from, c>>] = AmountIn(accounts, from, c)
  BY <1>1 DEF BalanceMap
<1>7. q.amount \in 1..MaxAmount
  BY <1>1, <1>2 DEF InRange
<1>. QED  BY <1>1, <1>2, <1>4, <1>5, <1>6, <1>7

LEMMA OpenRefines ==
  ASSUME NEW o, NEW c, NEW d, open(o, c, d)
  PROVE  SupplyMap' = SupplyMap /\ BalanceMap' = BalanceMap
<1>1. \A n, e : AmountIn(accounts, n, e)' = AmountIn(accounts, n, e)
  BY DEF open, Upsert, AmountIn
<1>. QED  BY <1>1, SuppliesAgree, BalancesAgree DEF open, SupplyOf

LEMMA CloseRefines ==
  ASSUME NEW o, NEW c, close(o, c)
  PROVE  SupplyMap' = SupplyMap /\ BalanceMap' = BalanceMap
<1>1. \A n, e : AmountIn(accounts, n, e)' = AmountIn(accounts, n, e)
  BY DEF close, Erase, AmountIn
<1>. QED  BY <1>1, SuppliesAgree, BalancesAgree DEF close, SupplyOf

LEMMA LedgerInitHolds == TokenInit => Ledger!LedgerInit
BY DEF TokenInit, EmptyTable, Ledger!LedgerInit, Held, AmountIn

(* The mapping of the INSTANCE is the one the lemmas above speak of.       *)
LEMMA LedgerStep ==
  ASSUME TokenInv, [TokenNext]_tokenVars
  PROVE  [Ledger!LedgerNext]_(Ledger!ledgerVars)
<1>. USE DEF SupplyMap, BalanceMap, SupplyOf, Held, Ledger!ledgerVars
<1>1. ASSUME SupplyMap' = SupplyMap, BalanceMap' = BalanceMap
      PROVE  UNCHANGED Ledger!ledgerVars
  BY <1>1
<1>2. ASSUME NEW n \in Names, NEW q \in Inputs, create(n, q)
      PROVE  UNCHANGED Ledger!ledgerVars
  BY <1>1, <1>2, CreateRefines
<1>3. ASSUME NEW n \in Names, NEW q \in Inputs, issue(n, q)
      PROVE  Ledger!LedgerNext
  <2>1. q.code \in Codes
    BY DEF Inputs
  <2>2. Ledger!Mint(n, q.code, q.amount) /\ q.amount \in 1..MaxAmount
    BY <1>3, IssueRefines DEF Ledger!Mint
  <2>. QED  BY <2>1, <2>2 DEF Ledger!LedgerNext
<1>4. ASSUME NEW q \in Inputs, retire(q)
      PROVE  Ledger!LedgerNext
  <2>1. PICK issuer \in Names :
           /\ SupplyMap' = [SupplyMap EXCEPT ![q.code] = @ - q.amount]
           /\ BalanceMap' = [BalanceMap EXCEPT ![<<issuer, q.code>>] = @ - q.amount]
           /\ BalanceMap[<<issuer, q.code>>] >= q.amount
           /\ q.code \in Codes /\ q.amount \in 1..MaxAmount
    <3>. HIDE DEF SupplyMap, BalanceMap
    <3>. QED  BY <1>4, RetireRefines
  <2>2. Ledger!Burn(issuer, q.code, q.amount)
    BY <2>1 DEF Ledger!Burn
  <2>. QED  BY <2>1, <2>2 DEF Ledger!LedgerNext
<1>5. ASSUME NEW from \in OnChain, NEW to \in Names, NEW q \in Inputs, transfer(from, to, q)
      PROVE  Ledger!LedgerNext
  <2>1. /\ SupplyMap' = SupplyMap
        /\ from # to /\ BalanceMap[<<from, q.code>>] >= q.amount
        /\ BalanceMap' = [BalanceMap EXCEPT ![<<from, q.code>>] = @ - q.amount,
                                            ![<<to, q.code>>] = @ + q.amount]
        /\ q.code \in Codes /\ q.amount \in 1..MaxAmount /\ from \in Names
    <3>. HIDE DEF SupplyMap, BalanceMap
    <3>. QED  BY <1>5, TransferRefines
  <2>2. Ledger!Move(from, to, q.code, q.amount)
    BY <2>1 DEF Ledger!Move
  <2>. QED  BY <2>1, <2>2 DEF Ledger!LedgerNext
<1>6. ASSUME NEW n \in Names, NEW c \in Codes, NEW d \in Precisions, open(n, c, d)
      PROVE  UNCHANGED Ledger!ledgerVars
  BY <1>1, <1>6, OpenRefines
<1>7. ASSUME NEW n \in OnChain, NEW c \in Codes, close(n, c)
      PROVE  UNCHANGED Ledger!ledgerVars
  BY <1>1, <1>7, CloseRefines
<1>8. CASE UNCHANGED tokenVars
  BY <1>8 DEF tokenVars, AmountIn
<1>. QED  BY <1>2, <1>3, <1>4, <1>5, <1>6, <1>7, <1>8 DEF TokenNext

(* Seen from outside, the token contract is the ledger: every issue is one *)
(* mint to the account named, and no other action makes or moves units.    *)
THEOREM TokenImplementsLedger == TokenSpec => LedgerImplemented
<1>1. TokenInv /\ [TokenNext]_tokenVars => [Ledger!LedgerNext]_(Ledger!ledgerVars)
  BY LedgerStep
<1>. QED  BY <1>1, LedgerInitHolds, TokenInvAlways, PTL
          DEF TokenSpec, LedgerImplemented, Ledger!LedgerSpec

=============================================================================
