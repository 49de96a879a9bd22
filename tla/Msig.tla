-------------------------------- MODULE Msig --------------------------------
(***************************************************************************)
(* The multi-signature wallet, eosio.msig.cpp.  A proposal is a row of     *)
(* proposal and a row of approvals2, or of approvals when an earlier       *)
(* version of the contract wrote it.  A step is one action of the contract;*)
(* time advances by blocks at half seconds, and the chain later runs what  *)
(* exec has handed to it.  The time a level was asked again at is stored   *)
(* but never read, and left out.                                           *)
(***************************************************************************)
EXTENDS Integers, SequencesExt, Tables

CONSTANTS
  Accounts,
  Proposers,     \* accounts that propose
  Names,         \* proposal names
  Trxs,          \* transactions
  NoTrx,         \* approve called without a proposal hash
  Expiration,    \* transaction -> second it expires at
  Levels,        \* permission levels
  Actor,         \* level -> its account
  RequestLists,  \* lists of levels propose may be called with
  Authorities,   \* transaction -> sets of levels that satisfy it, over time
  Legacy,        \* proposals of the earlier version: id -> its rows
  MaxSlot        \* bound: last block considered

Ids == Proposers \X Names
Approval == [level: Levels, time: Nat]
Approvals == [requested: Seq(Levels), provided: Seq(Approval)]
OldApprovals == [requested: Seq(Levels), provided: Seq(Levels)]

ASSUME MsigAssumption ==
  /\ Proposers \subseteq Accounts
  /\ NoTrx \notin Trxs /\ Expiration \in [Trxs -> Nat]
  /\ Actor \in [Levels -> Accounts]
  /\ RequestLists \subseteq Seq(Levels)
  /\ Authorities \subseteq [Trxs -> SUBSET SUBSET Levels]
  /\ DOMAIN Legacy \subseteq Ids
  /\ \A k \in DOMAIN Legacy : Legacy[k].trx \in Trxs /\ Legacy[k].approvals \in OldApprovals
  /\ MaxSlot \in Nat

VARIABLES
  proposals,      \* table: id -> transaction
  approvals,      \* table "approvals2": id -> levels asked for and given
  old_approvals,  \* table "approvals": the same, without times
  invals,         \* table: account -> slot of its last invalidation
  deferred,       \* table: id -> transaction handed to the chain
  authority,      \* what the permissions of the accounts ask for now
  slot            \* the current block

msigVars == <<proposals, approvals, old_approvals, invals, deferred, authority, slot>>

MsigInit ==
  /\ proposals = [k \in DOMAIN Legacy |-> Legacy[k].trx]
  /\ approvals = EmptyTable
  /\ old_approvals = [k \in DOMAIN Legacy |-> Legacy[k].approvals]
  /\ invals = EmptyTable
  /\ deferred = EmptyTable
  /\ authority \in Authorities
  /\ slot = 0

(* time_point_sec of the current block.                                    *)
seconds == slot \div 2

-----------------------------------------------------------------------------
propose(k, requested, trx) ==
  /\ Expiration[trx] >= seconds
  /\ k \notin DOMAIN proposals /\ k \notin DOMAIN approvals
  /\ ToSet(requested) \in authority[trx]
  /\ proposals' = Upsert(proposals, k, trx)
  /\ approvals' = Upsert(approvals, k, [requested |-> requested, provided |-> <<>>])
  /\ UNCHANGED <<old_approvals, invals, deferred, authority, slot>>

LevelsOf(provided) == [i \in DOMAIN provided |-> provided[i].level]

(* Where a level is in a list; the first of equals.                        *)
IndexOf(levels, level) == SelectInSeq(levels, LAMBDA l : l = level)

(* Mutant of NewApproval: the format of the old table.                     *)
NewApproval_Untimed(level) == level

NewApproval(level) == [level |-> level, time |-> slot]

approve(k, level, hash_of) ==
  /\ hash_of # NoTrx => k \in DOMAIN proposals /\ proposals[k] = hash_of
  /\ IF k \in DOMAIN approvals
     THEN LET row == approvals[k]
          IN  /\ Contains(row.requested, level)
              /\ approvals' = [approvals EXCEPT ![k] =
                   [requested |-> RemoveAt(row.requested, IndexOf(row.requested, level)),
                    provided |-> Append(row.provided, NewApproval(level))]]
              /\ UNCHANGED old_approvals
     ELSE /\ k \in DOMAIN old_approvals
          /\ LET row == old_approvals[k]
             IN  /\ Contains(row.requested, level)
                 /\ old_approvals' = [old_approvals EXCEPT ![k] =
                      [requested |-> RemoveAt(row.requested, IndexOf(row.requested, level)),
                       provided |-> Append(row.provided, level)]]
          /\ UNCHANGED approvals
  /\ UNCHANGED <<proposals, invals, deferred, authority, slot>>

(* Mutant of unapprove: the level can never approve again.                 *)
unapprove_Dropping(k, level) ==
  /\ k \in DOMAIN approvals
  /\ Contains(LevelsOf(approvals[k].provided), level)
  /\ approvals' = [approvals EXCEPT ![k].provided =
                     RemoveAt(@, IndexOf(LevelsOf(@), level))]
  /\ UNCHANGED <<proposals, old_approvals, invals, deferred, authority, slot>>

unapprove(k, level) ==
  /\ IF k \in DOMAIN approvals
     THEN LET row == approvals[k]
              given == LevelsOf(row.provided)
          IN  /\ Contains(given, level)
              /\ approvals' = [approvals EXCEPT ![k] =
                   [requested |-> Append(row.requested, level),
                    provided |-> RemoveAt(row.provided, IndexOf(given, level))]]
              /\ UNCHANGED old_approvals
     ELSE /\ k \in DOMAIN old_approvals
          /\ LET row == old_approvals[k]
             IN  /\ Contains(row.provided, level)
                 /\ old_approvals' = [old_approvals EXCEPT ![k] =
                      [requested |-> Append(row.requested, level),
                       provided |-> RemoveAt(row.provided, IndexOf(row.provided, level))]]
          /\ UNCHANGED approvals
  /\ UNCHANGED <<proposals, invals, deferred, authority, slot>>

(* Mutant of EraseApprovals: only the table of the new version.            *)
EraseApprovals_NewOnly(k) ==
  /\ approvals' = Erase(approvals, k)
  /\ UNCHANGED old_approvals

(* cancel and exec drop the row of whichever version there is.             *)
EraseApprovals(k) ==
  IF k \in DOMAIN approvals
  THEN approvals' = Erase(approvals, k) /\ UNCHANGED old_approvals
  ELSE /\ k \in DOMAIN old_approvals
       /\ old_approvals' = Erase(old_approvals, k)
       /\ UNCHANGED approvals

cancel(k, canceler) ==
  /\ k \in DOMAIN proposals
  /\ canceler # k[1] => Expiration[proposals[k]] < seconds
  /\ proposals' = Erase(proposals, k)
  /\ EraseApprovals(k)
  /\ UNCHANGED <<invals, deferred, authority, slot>>

(* Mutant of Counted: an invalidation spares approvals of its own block.   *)
Counted_SameBlock(k) ==
  IF k \in DOMAIN approvals
  THEN {a.level : a \in {b \in ToSet(approvals[k].provided) :
                           Actor[b.level] \in DOMAIN invals =>
                             invals[Actor[b.level]] <= b.time}}
  ELSE ToSet(old_approvals[k].provided)

(* The approvals exec counts.  Those of the old version carry no time, so  *)
(* any invalidation by the account, however old, voids them.               *)
Counted(k) ==
  IF k \in DOMAIN approvals
  THEN {a.level : a \in {b \in ToSet(approvals[k].provided) :
                           Actor[b.level] \in DOMAIN invals =>
                             invals[Actor[b.level]] < b.time}}
  ELSE {l \in ToSet(old_approvals[k].provided) : Actor[l] \notin DOMAIN invals}

(* send_deferred refuses an id the chain still has a transaction for.      *)
exec(k) ==
  /\ k \in DOMAIN proposals
  /\ Expiration[proposals[k]] >= seconds
  /\ EraseApprovals(k)
  /\ Counted(k) \in authority[proposals[k]]
  /\ k \notin DOMAIN deferred
  /\ deferred' = Upsert(deferred, k, proposals[k])
  /\ proposals' = Erase(proposals, k)
  /\ UNCHANGED <<invals, authority, slot>>

invalidate(account) ==
  /\ invals' = Upsert(invals, account, slot)
  /\ UNCHANGED <<proposals, approvals, old_approvals, deferred, authority, slot>>

-----------------------------------------------------------------------------
(* The chain.                                                              *)

NextBlock ==
  /\ slot < MaxSlot
  /\ slot' = slot + 1
  /\ UNCHANGED <<proposals, approvals, old_approvals, invals, deferred, authority>>

(* A deferred transaction is run once, or dropped when it has expired.     *)
RunDeferred(k) ==
  /\ k \in DOMAIN deferred
  /\ deferred' = Erase(deferred, k)
  /\ UNCHANGED <<proposals, approvals, old_approvals, invals, authority, slot>>

(* Permissions of the accounts change under the wallet's feet.             *)
UpdateAuth ==
  /\ authority' \in Authorities
  /\ UNCHANGED <<proposals, approvals, old_approvals, invals, deferred, slot>>

MsigNext ==
  \/ \E k \in Ids :
       \/ \E r \in RequestLists, t \in Trxs : propose(k, r, t)
       \/ \E l \in Levels : \/ \E h \in Trxs \cup {NoTrx} : approve(k, l, h)
                            \/ unapprove(k, l)
       \/ \E c \in Accounts : cancel(k, c)
       \/ exec(k)
       \/ RunDeferred(k)
  \/ \E a \in Accounts : invalidate(a)
  \/ NextBlock
  \/ UpdateAuth

MsigSpec == MsigInit /\ [][MsigNext]_msigVars

-----------------------------------------------------------------------------
(* Every table holds rows of its declared shape.                           *)
MsigTypeOK ==
  /\ IsTable(proposals, Ids, Trxs)
  /\ IsTable(approvals, Ids, Approvals)
  /\ IsTable(old_approvals, Ids, OldApprovals)
  /\ IsTable(invals, Accounts, Nat)
  /\ IsTable(deferred, Ids, Trxs)
  /\ authority \in Authorities
  /\ slot \in Nat

(* A proposal has exactly one row of approvals, in one of the two tables:  *)
(* exec and cancel always find it, and a name that is free is free in all  *)
(* three tables, so no approval outlives the proposal it was given to.     *)
OneRowOfApprovals ==
  /\ DOMAIN proposals = DOMAIN approvals \cup DOMAIN old_approvals
  /\ DOMAIN approvals \cap DOMAIN old_approvals = {}

Copies(levels, level) == Cardinality({i \in DOMAIN levels : levels[i] = level})

(* How often a level is on the two lists of a proposal together.           *)
Places(k, level) ==
  IF k \in DOMAIN approvals
  THEN Copies(approvals[k].requested, level) + Copies(LevelsOf(approvals[k].provided), level)
  ELSE Copies(old_approvals[k].requested, level) + Copies(old_approvals[k].provided, level)

(* Approving and taking back only move a level between the lists: nobody   *)
(* is added to or lost from an open proposal, however often levels change  *)
(* their mind or are invalidated.                                          *)
NobodyIsLost ==
  [][\A k \in DOMAIN proposals \cap DOMAIN proposals', l \in Levels :
       Places(k, l)' = Places(k, l)]_msigVars

-----------------------------------------------------------------------------
(* The wallet implements Consent: a level stands behind a proposal from    *)
(* its approval to its taking it back or its account's next invalidation,  *)
(* in the same block too, and exec counts exactly the levels that do.      *)
Standing(k) ==
  IF k \in DOMAIN approvals
  THEN {l \in Levels : \E i \in DOMAIN approvals[k].provided :
          /\ approvals[k].provided[i].level = l
          /\ \/ Actor[l] \notin DOMAIN invals
             \/ approvals[k].provided[i].time > invals[Actor[l]]}
  ELSE {l \in Levels : /\ Contains(old_approvals[k].provided, l)
                       /\ Actor[l] \notin DOMAIN invals}

Wallet == INSTANCE Consent
            WITH open <- proposals,
                 consent <- [k \in DOMAIN proposals |-> Standing(k)],
                 scheduled <- deferred

ConsentImplemented == Wallet!ConsentSpec

-----------------------------------------------------------------------------
(* README.md:24-28: unapprove revokes an approval, "permission level       *)
(* revoking approval from the transaction".  A level listed twice in the   *)
(* request keeps standing behind the proposal after it revoked, because    *)
(* only one of its two approvals goes.                                     *)
RevokedIsGone ==
  [][\A k \in DOMAIN approvals \cap DOMAIN approvals', l \in Levels :
       Copies(approvals'[k].requested, l) > Copies(approvals[k].requested, l)
         => l \notin Standing(k)']_msigVars
=============================================================================
