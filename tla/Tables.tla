------------------------------- MODULE Tables -------------------------------
(***************************************************************************)
(* One scope of an eosio::multi_index table, as the contracts use it: a    *)
(* function from the primary keys that have a row to their rows.           *)
(* t.find(k) != t.end() is k \in DOMAIN t.                                 *)
(***************************************************************************)

EmptyTable == [k \in {} |-> {}]

(* emplace when k has no row, modify when it has one.                      *)
Upsert(t, k, row) == [x \in DOMAIN t \cup {k} |-> IF x = k THEN row ELSE t[x]]

Erase(t, k) == [x \in DOMAIN t \ {k} |-> t[x]]

IsTable(t, Key, Row) == /\ DOMAIN t \subseteq Key
                        /\ t \in [DOMAIN t -> Row]

=============================================================================
