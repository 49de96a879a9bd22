----------------------------- MODULE RecordBook -----------------------------
(***************************************************************************)
(* What a book of records promises: under every business identifier there  *)
(* is at most one record, the one written last, until it is erased.  The   *)
(* primary keys of the rows are not visible here.                          *)
(***************************************************************************)
EXTENDS Tables

CONSTANTS
  BookIds,   \* business identifiers
  Contents   \* what a record may say

VARIABLES records  \* table: identifier -> its record

BookInit == records = EmptyTable

(* A record is written, whatever it says, and no other changes.            *)
Write(id) ==
  /\ id \in DOMAIN records' /\ records'[id] \in Contents
  /\ records' = Upsert(records, id, records'[id])

Delete(id) == id \in DOMAIN records /\ records' = Erase(records, id)

BookNext == \E id \in BookIds : Write(id) \/ Delete(id)

BookSpec == BookInit /\ [][BookNext]_records
=============================================================================
