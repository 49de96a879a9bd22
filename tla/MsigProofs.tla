------------------------------ MODULE MsigProofs ------------------------------
(***************************************************************************)
(* Proofs about Msig.  What a level's consent depends on is the set of the *)
(* approvals on a row, not their order: approving adds one to the set,     *)
(* taking back removes one, and both leave the other levels' alone.  With  *)
(* the fact that no approval is from the future, every step of the wallet  *)
(* is then one of Consent's, or a stutter.                                 *)
(***************************************************************************)
EXTENDS Msig, SequenceTheorems, FiniteSetTheorems, WellFoundedInduction, TLAPS

USE MsigAssumption

-----------------------------------------------------------------------------
(* Lists.                                                                  *)

(* A list and the set of what is on it.                                    *)
LEMMA SetOfList ==
  ASSUME NEW S, NEW s \in Seq(S)
  PROVE  ToSet(s) \subseteq S /\ ToSet(s) = {s[i] : i \in 1..Len(s)}
<1>1. DOMAIN s = 1..Len(s) /\ s \in [1..Len(s) -> S]
  BY LenProperties
<1>. QED  BY <1>1 DEF ToSet

LEMMA AppendSet ==
  ASSUME NEW S, NEW s \in Seq(S), NEW e \in S
  PROVE  Append(s, e) \in Seq(S) /\ ToSet(Append(s, e)) = ToSet(s) \cup {e}
<1>. DEFINE r == Append(s, e)
<1>1. /\ r \in Seq(S) /\ Len(r) = Len(s) + 1 /\ Len(s) \in Nat
      /\ \A i \in 1..Len(s) : r[i] = s[i]
      /\ r[Len(s) + 1] = e
  BY AppendProperties, LenProperties
<1>. HIDE DEF r
<1>2. ToSet(r) = {r[i] : i \in 1..Len(r)} /\ ToSet(s) = {s[i] : i \in 1..Len(s)}
  BY <1>1, SetOfList
<1>3. 1..Len(r) = 1..Len(s) \cup {Len(s) + 1}
  BY <1>1
<1>. QED  BY <1>1, <1>2, <1>3 DEF r

(* r is s without the entry at i.                                          *)
IsWithout(r, s, i) ==
  Len(r) = Len(s) - 1 /\ \A j \in 1..Len(r) : r[j] = IF j < i THEN s[j] ELSE s[j + 1]

(* r is s with e appended.                                                 *)
IsWith(r, s, e) == /\ Len(r) = Len(s) + 1 /\ r[Len(s) + 1] = e
                   /\ \A j \in 1..Len(s) : r[j] = s[j]

LEMMA RemoveIndex ==
  ASSUME NEW S, NEW s \in Seq(S), NEW i \in 1..Len(s)
  PROVE  RemoveAt(s, i) \in Seq(S) /\ IsWithout(RemoveAt(s, i), s, i)
<1>. DEFINE a == SubSeq(s, 1, i - 1)
            b == SubSeq(s, i + 1, Len(s))
            r == RemoveAt(s, i)
<1>0. Len(s) \in Nat /\ \A j \in 1..Len(s) : s[j] \in S
  BY LenProperties, ElementOfSeq
<1>1. a \in Seq(S) /\ Len(a) = i - 1 /\ \A j \in 1..(i - 1) : a[j] = s[j]
  <2>1. \A j \in 1..(i - 1) : s[j] \in S
    BY <1>0
  <2>2. /\ SubSeq(s, 1, i - 1) \in Seq(S)
        /\ Len(SubSeq(s, 1, i - 1)) = IF 1 <= i - 1 THEN i - 1 - 1 + 1 ELSE 0
        /\ \A j \in 1..(i - 1 - 1 + 1) : SubSeq(s, 1, i - 1)[j] = s[1 + j - 1]
    <3>1. 1 \in Int /\ i - 1 \in Int
      OBVIOUS
    <3>. QED  BY <2>1, <3>1, SubSeqProperties
  <2>3. Len(a) = i - 1
    BY <2>2
  <2>4. ASSUME NEW j \in 1..(i - 1)
        PROVE  a[j] = s[j]
    <3>1. j \in 1..(i - 1 - 1 + 1) /\ 1 + j - 1 = j
      OBVIOUS
    <3>. QED  BY <2>2, <3>1
  <2>. QED  BY <2>2, <2>3, <2>4
<1>2. b \in Seq(S) /\ Len(b) = Len(s) - i /\ \A j \in 1..(Len(s) - i) : b[j] = s[i + j]
  <2>1. \A j \in (i + 1)..Len(s) : s[j] \in S
    BY <1>0
  <2>2. /\ SubSeq(s, i + 1, Len(s)) \in Seq(S)
        /\ Len(SubSeq(s, i + 1, Len(s))) =
             IF i + 1 <= Len(s) THEN Len(s) - (i + 1) + 1 ELSE 0
        /\ \A j \in 1..(Len(s) - (i + 1) + 1) : SubSeq(s, i + 1, Len(s))[j] = s[i + 1 + j - 1]
    <3>1. i + 1 \in Int /\ Len(s) \in Int
      BY <1>0
    <3>. QED  BY <2>1, <3>1, SubSeqProperties
  <2>3. Len(b) = Len(s) - i
    BY <1>0, <2>2
  <2>4. ASSUME NEW j \in 1..(Len(s) - i)
        PROVE  b[j] = s[i + j]
    <3>1. j \in 1..(Len(s) - (i + 1) + 1) /\ i + 1 + j - 1 = i + j
      BY <1>0
    <3>. QED  BY <2>2, <3>1
  <2>. QED  BY <2>2, <2>3, <2>4
<1>3. r = a \o b
  BY DEF RemoveAt
<1>. HIDE DEF a, b, r
<1>4. /\ r \in Seq(S) /\ Len(r) = Len(a) + Len(b)
      /\ \A j \in 1..(Len(a) + Len(b)) : r[j] = IF j <= Len(a) THEN a[j] ELSE b[j - Len(a)]
  <2>1. a \in Seq(S) /\ b \in Seq(S)
    BY <1>1, <1>2
  <2>. QED  BY ONLY <1>3, <2>1, ConcatProperties, Zenon
<1>5. /\ Len(r) = Len(s) - 1
      /\ \A j \in 1..Len(r) : r[j] = IF j < i THEN s[j] ELSE s[j + 1]
  <2>1. Len(r) = Len(s) - 1
    BY <1>0, <1>1, <1>2, <1>4
  <2>2. ASSUME NEW j \in 1..Len(r)
        PROVE  r[j] = IF j < i THEN s[j] ELSE s[j + 1]
    <3>1. CASE j < i
      BY <1>0, <1>1, <1>2, <1>4, <2>1, <3>1
    <3>2. CASE ~(j < i)
      <4>1. j - (i - 1) \in 1..(Len(s) - i) /\ i + (j - (i - 1)) = j + 1
        BY <1>0, <2>1, <3>2
      <4>2. r[j] = b[j - (i - 1)]
        BY <1>0, <1>1, <1>2, <1>4, <2>1, <3>2
      <4>. QED  BY <1>2, <3>2, <4>1, <4>2
    <3>. QED  BY <3>1, <3>2
  <2>. QED  BY <2>1, <2>2
<1>. QED  BY <1>4, <1>5 DEF r, IsWithout

(* Removing one entry removes its value, unless it is on the list again.   *)
LEMMA RemoveSet ==
  ASSUME NEW S, NEW s \in Seq(S), NEW i \in 1..Len(s)
  PROVE  RemoveAt(s, i) \in Seq(S) /\ ToSet(RemoveAt(s, i)) \cup {s[i]} = ToSet(s)
<1>. DEFINE r == RemoveAt(s, i)
<1>0. Len(s) \in Nat
  BY LenProperties
<1>4. r \in Seq(S)
  BY RemoveIndex
<1>5. /\ Len(r) = Len(s) - 1
      /\ \A j \in 1..Len(r) : r[j] = IF j < i THEN s[j] ELSE s[j + 1]
  BY RemoveIndex DEF IsWithout
<1>. HIDE DEF r
<1>6. ToSet(r) = {r[j] : j \in 1..Len(r)} /\ ToSet(s) = {s[j] : j \in 1..Len(s)}
  BY <1>4, SetOfList
<1>7. ASSUME NEW j \in 1..Len(r)
      PROVE  r[j] \in ToSet(s)
  BY <1>0, <1>5, <1>6
<1>8. ASSUME NEW j \in 1..Len(s), j # i
      PROVE  s[j] \in ToSet(r)
  <2>1. CASE j < i
    <3>1. j \in 1..Len(r) /\ r[j] = s[j]
      BY <1>0, <1>5, <2>1
    <3>. QED  BY <1>6, <3>1
  <2>2. CASE j > i
    <3>1. j - 1 \in 1..Len(r) /\ ~(j - 1 < i) /\ j - 1 + 1 = j
      BY <1>0, <1>5, <2>2
    <3>2. r[j - 1] = s[j]
      BY <1>5, <3>1
    <3>. QED  BY <1>6, <3>1, <3>2
  <2>. QED  BY <1>8, <2>1, <2>2
<1>9. ToSet(r) \cup {s[i]} = ToSet(s)
  BY <1>6, <1>7, <1>8
<1>. QED  BY <1>4, <1>9 DEF r

(* The index of a level that is on the list.                               *)
LEMMA IndexIsThere ==
  ASSUME NEW S, NEW s \in Seq(S), NEW level, Contains(s, level)
  PROVE  IndexOf(s, level) \in 1..Len(s) /\ s[IndexOf(s, level)] = level
<1>. DEFINE I == {i \in 1..Len(s) : s[i] = level}
            R == OpToRel(<, Nat)
<1>1. I \subseteq Nat /\ I # {}
  BY LenProperties DEF Contains
<1>2. PICK m \in I : \A j \in I : ~(<<j, m>> \in R)
  <2>. HIDE DEF I, R
  <2>1. IsWellFoundedOn(R, Nat)
    BY NatLessThanWellFounded DEF R
  <2>. QED  BY <1>1, <2>1, WFMin
<1>3. \A j \in I : m <= j
  <2>. TAKE j \in I
  <2>1. j \in Nat /\ m \in Nat
    BY <1>1
  <2>2. j < m => <<j, m>> \in R
    BY <2>1 DEF OpToRel
  <2>. HIDE DEF I, R
  <2>. QED  BY <1>2, <2>1, <2>2
<1>4. Min(I) \in I
  BY <1>3 DEF Min
<1>5. IndexOf(s, level) = Min(I)
  BY <1>1 DEF IndexOf, SelectInSeq
<1>. QED  BY <1>4, <1>5

(* The levels of a list of approvals.                                      *)
LEMMA LevelsList ==
  ASSUME NEW p \in Seq(Approval)
  PROVE  /\ LevelsOf(p) \in Seq(Levels) /\ Len(LevelsOf(p)) = Len(p)
         /\ \A i \in 1..Len(p) : LevelsOf(p)[i] = p[i].level
<1>1. Len(p) \in Nat /\ DOMAIN p = 1..Len(p) /\ p \in [1..Len(p) -> Approval]
  BY LenProperties
<1>2. LevelsOf(p) = [i \in 1..Len(p) |-> p[i].level]
  BY <1>1 DEF LevelsOf
<1>3. \A i \in 1..Len(p) : p[i].level \in Levels
  BY <1>1 DEF Approval
<1>4. LevelsOf(p) \in [1..Len(p) -> Levels]
  BY <1>2, <1>3
<1>. QED  BY <1>1, <1>2, <1>4

-----------------------------------------------------------------------------
(* Types.                                                                  *)

(* No approval is from the future: an invalidation voids all there are.    *)
NoneFromTheFuture ==
  \A k \in DOMAIN approvals : \A e \in ToSet(approvals[k].provided) : e.time <= slot

MsigInv == MsigTypeOK /\ OneRowOfApprovals /\ NoneFromTheFuture

LEMMA UpsertTable ==
  ASSUME NEW t, NEW Key, NEW R, IsTable(t, Key, R), NEW k \in Key, NEW r \in R
  PROVE  /\ IsTable(Upsert(t, k, r), Key, R)
         /\ DOMAIN Upsert(t, k, r) = DOMAIN t \cup {k}
         /\ Upsert(t, k, r)[k] = r
         /\ \A j \in DOMAIN t : j # k => Upsert(t, k, r)[j] = t[j]
BY DEF IsTable, Upsert

LEMMA EraseTable ==
  ASSUME NEW t, NEW Key, NEW R, IsTable(t, Key, R), NEW k
  PROVE  /\ IsTable(Erase(t, k), Key, R)
         /\ DOMAIN Erase(t, k) = DOMAIN t \ {k}
         /\ \A j \in DOMAIN t : j # k => Erase(t, k)[j] = t[j]
BY DEF IsTable, Erase

LEMMA ExceptTable ==
  ASSUME NEW t, NEW Key, NEW R, IsTable(t, Key, R), NEW k \in DOMAIN t, NEW r \in R
  PROVE  /\ IsTable([t EXCEPT ![k] = r], Key, R)
         /\ DOMAIN [t EXCEPT ![k] = r] = DOMAIN t
         /\ [t EXCEPT ![k] = r][k] = r
         /\ \A j \in DOMAIN t : j # k => [t EXCEPT ![k] = r][j] = t[j]
BY DEF IsTable

(* A level moves from one list of a row to the other.                      *)
LEMMA MoveToProvided ==
  ASSUME NEW S, NEW row \in [requested: Seq(Levels), provided: Seq(S)],
         NEW level, Contains(row.requested, level), NEW e \in S
  PROVE  [requested |-> RemoveAt(row.requested, IndexOf(row.requested, level)),
          provided |-> Append(row.provided, e)] \in [requested: Seq(Levels), provided: Seq(S)]
<1>1. row.requested \in Seq(Levels) /\ row.provided \in Seq(S)
  OBVIOUS
<1>2. Append(row.provided, e) \in Seq(S)
  BY <1>1, AppendSet
<1>3. IndexOf(row.requested, level) \in 1..Len(row.requested)
  BY <1>1, IndexIsThere
<1>4. RemoveAt(row.requested, IndexOf(row.requested, level)) \in Seq(Levels)
  BY <1>1, <1>3, RemoveSet
<1>. QED  BY <1>2, <1>4

LEMMA MoveToRequested ==
  ASSUME NEW S, NEW row \in [requested: Seq(Levels), provided: Seq(S)],
         NEW level \in Levels, NEW i \in 1..Len(row.provided)
  PROVE  [requested |-> Append(row.requested, level),
          provided |-> RemoveAt(row.provided, i)] \in [requested: Seq(Levels), provided: Seq(S)]
<1>1. row.requested \in Seq(Levels) /\ row.provided \in Seq(S)
  OBVIOUS
<1>2. Append(row.requested, level) \in Seq(Levels)
  BY <1>1, AppendSet
<1>3. RemoveAt(row.provided, i) \in Seq(S)
  BY <1>1, RemoveSet
<1>. QED  BY <1>2, <1>3

-----------------------------------------------------------------------------
(* Consent, as a function of the set of approvals.                         *)

Holds(level, time) == Actor[level] \notin DOMAIN invals \/ time > invals[Actor[level]]

Backers(k) ==
  IF k \in DOMAIN approvals
  THEN {l \in Levels : \E e \in ToSet(approvals[k].provided) : e.level = l /\ Holds(l, e.time)}
  ELSE {l \in Levels : l \in ToSet(old_approvals[k].provided) /\ Actor[l] \notin DOMAIN invals}

LEMMA StandingIsBackers ==
  MsigTypeOK => \A k \in DOMAIN approvals \cup DOMAIN old_approvals : Standing(k) = Backers(k)
<1>. SUFFICES ASSUME MsigTypeOK, NEW k \in DOMAIN approvals \cup DOMAIN old_approvals
              PROVE  Standing(k) = Backers(k)
  OBVIOUS
<1>1. CASE k \in DOMAIN approvals
  BY <1>1 DEF Standing, Backers, Holds, ToSet
<1>2. CASE k \notin DOMAIN approvals
  <2>1. old_approvals[k].provided \in Seq(Levels)
    BY <1>2 DEF MsigTypeOK, IsTable, OldApprovals
  <2>2. DOMAIN old_approvals[k].provided = 1..Len(old_approvals[k].provided)
    BY <2>1, LenProperties
  <2>. QED  BY <1>2, <2>2 DEF Standing, Backers, ToSet, Contains
<1>. QED  BY <1>1, <1>2

LEMMA StandingIsBackersNext ==
  (MsigTypeOK => \A k \in DOMAIN approvals \cup DOMAIN old_approvals : Standing(k) = Backers(k))'
BY StandingIsBackers, PTL

(* exec counts exactly the levels that stand behind the proposal.          *)
LEMMA CountedIsStanding ==
  ASSUME MsigInv, NEW k \in DOMAIN proposals
  PROVE  Counted(k) = Standing(k)
<1>1. k \in DOMAIN approvals \cup DOMAIN old_approvals
  BY DEF MsigInv, OneRowOfApprovals
<1>2. Standing(k) = Backers(k)
  BY <1>1, StandingIsBackers DEF MsigInv
<1>3. CASE k \in DOMAIN approvals
  <2>1. approvals[k].provided \in Seq(Approval)
    BY <1>3 DEF MsigInv, MsigTypeOK, IsTable, Approvals
  <2>2. ToSet(approvals[k].provided) \subseteq Approval
    BY <2>1, SetOfList
  <2>3. \A e \in Approval : e.level \in Levels /\ e.time \in Nat /\ Actor[e.level] \in Accounts
    BY DEF Approval
  <2>4. \A a \in DOMAIN invals : invals[a] \in Nat
    BY DEF MsigInv, MsigTypeOK, IsTable
  <2>. QED  BY <1>2, <1>3, <2>2, <2>3, <2>4 DEF Counted, Backers, Holds
<1>4. CASE k \notin DOMAIN approvals
  <2>1. old_approvals[k].provided \in Seq(Levels)
    BY <1>1, <1>4 DEF MsigInv, MsigTypeOK, IsTable, OldApprovals
  <2>2. ToSet(old_approvals[k].provided) \subseteq Levels
    BY <2>1, SetOfList
  <2>. QED  BY <1>2, <1>4, <2>2 DEF Counted, Backers
<1>. QED  BY <1>3, <1>4

-----------------------------------------------------------------------------
(* The steps.  Each keeps the invariant and is one of Consent's.           *)

Book == [k \in DOMAIN proposals |-> Standing(k)]

ConsentStep == [Wallet!ConsentNext]_<<proposals, Book, deferred, authority>>

(* A step that changes what one level says to one proposal.                *)
LEMMA OneVoice ==
  ASSUME UNCHANGED <<proposals, deferred, authority>>,
         NEW k \in Ids, k \in DOMAIN proposals, NEW l \in Levels,
         \A j \in DOMAIN proposals : j # k => Standing(j)' = Standing(j),
         \A x \in Levels : x # l => (x \in Standing(k)' <=> x \in Standing(k)),
         Standing(k) \subseteq Levels, Standing(k)' \subseteq Levels
  PROVE  ConsentStep
<1>1. \/ Standing(k)' = Standing(k)
      \/ Standing(k)' = Standing(k) \cup {l}
      \/ Standing(k)' = Standing(k) \ {l}
  <2>1. CASE l \in Standing(k)'
    <3>1. \A x \in Levels : x \in Standing(k)' <=> x \in Standing(k) \cup {l}
      BY <2>1
    <3>. QED  BY <3>1
  <2>2. CASE l \notin Standing(k)'
    <3>1. \A x \in Levels : x \in Standing(k)' <=> x \in Standing(k) \ {l}
      BY <2>2
    <3>. QED  BY <3>1
  <2>. QED  BY <2>1, <2>2
<1>2. /\ DOMAIN Book = DOMAIN proposals /\ Book[k] = Standing(k)
      /\ Book' = [j \in DOMAIN proposals |-> Standing(j)']
  BY DEF Book
<1>3. Book' = [Book EXCEPT ![k] = Standing(k)']
  BY <1>2 DEF Book
<1>4. CASE Standing(k)' = Standing(k)
  <2>1. Book' = Book
    BY <1>3, <1>4, <1>2 DEF Book
  <2>. QED  BY <2>1 DEF ConsentStep
<1>5. CASE Standing(k)' = Standing(k) \cup {l}
  <2>1. Book' = [Book EXCEPT ![k] = Book[k] \cup {l}]
    BY <1>2, <1>3, <1>5
  <2>2. Wallet!Agree(k, l)
    BY <2>1 DEF Wallet!Agree, Book
  <2>. QED  BY <2>2 DEF ConsentStep, Wallet!ConsentNext
<1>6. CASE Standing(k)' = Standing(k) \ {l}
  <2>1. Book' = [Book EXCEPT ![k] = Book[k] \ {l}]
    BY <1>2, <1>3, <1>6
  <2>2. Wallet!Withdraw(k, l)
    BY <2>1 DEF Wallet!Withdraw, Book
  <2>. QED  BY <2>2 DEF ConsentStep, Wallet!ConsentNext
<1>. QED  BY <1>1, <1>4, <1>5, <1>6

LEMMA InvParts ==
  ASSUME MsigInv
  PROVE  /\ IsTable(proposals, Ids, Trxs) /\ IsTable(approvals, Ids, Approvals)
         /\ IsTable(old_approvals, Ids, OldApprovals) /\ IsTable(invals, Accounts, Nat)
         /\ IsTable(deferred, Ids, Trxs) /\ authority \in Authorities /\ slot \in Nat
         /\ DOMAIN proposals = DOMAIN approvals \cup DOMAIN old_approvals
         /\ DOMAIN approvals \cap DOMAIN old_approvals = {}
         /\ \A k \in DOMAIN approvals : /\ approvals[k] \in Approvals /\ k \in Ids
                                        /\ approvals[k].requested \in Seq(Levels)
                                        /\ approvals[k].provided \in Seq(Approval)
         /\ \A k \in DOMAIN old_approvals : /\ old_approvals[k] \in OldApprovals /\ k \in Ids
                                            /\ old_approvals[k].requested \in Seq(Levels)
                                            /\ old_approvals[k].provided \in Seq(Levels)
         /\ \A k \in DOMAIN approvals : \A e \in ToSet(approvals[k].provided) : e.time <= slot
BY DEF MsigInv, MsigTypeOK, OneRowOfApprovals, NoneFromTheFuture, IsTable, Approvals, OldApprovals

(* Rewriting a row of either table, for one level.                         *)
LEMMA RowRewritten ==
  ASSUME MsigInv, UNCHANGED <<proposals, old_approvals, invals, deferred, authority, slot>>,
         NEW k \in DOMAIN approvals, NEW l \in Levels, NEW row \in Approvals,
         approvals' = [approvals EXCEPT ![k] = row],
         \A e \in ToSet(row.provided) : e.time <= slot,
         \A e \in ToSet(row.provided) : e.level # l => e \in ToSet(approvals[k].provided),
         \A e \in ToSet(approvals[k].provided) : e.level # l => e \in ToSet(row.provided)
  PROVE  MsigInv' /\ ConsentStep
<1>1. /\ IsTable(approvals', Ids, Approvals) /\ DOMAIN approvals' = DOMAIN approvals
      /\ approvals'[k] = row /\ \A j \in DOMAIN approvals : j # k => approvals'[j] = approvals[j]
  BY InvParts, ExceptTable
<1>2. MsigTypeOK' /\ OneRowOfApprovals' /\ NoneFromTheFuture'
  BY <1>1, InvParts DEF MsigTypeOK, OneRowOfApprovals, NoneFromTheFuture
<1>3. /\ \A j \in DOMAIN proposals : Standing(j) = Backers(j) /\ Standing(j)' = Backers(j)'
      /\ k \in DOMAIN proposals
  BY <1>1, <1>2, InvParts, StandingIsBackers, StandingIsBackersNext DEF MsigInv
<1>4. \A j \in DOMAIN proposals : j # k => Backers(j)' = Backers(j)
  BY <1>1 DEF Backers, Holds
<1>5. \A x \in Levels : x # l => (x \in Backers(k)' <=> x \in Backers(k))
  BY <1>1 DEF Backers, Holds
<1>6. Backers(k) \subseteq Levels /\ Backers(k)' \subseteq Levels
  BY DEF Backers
<1>7. ConsentStep
  BY <1>3, <1>4, <1>5, <1>6, InvParts, OneVoice
<1>. QED  BY <1>2, <1>7 DEF MsigInv

LEMMA OldRowRewritten ==
  ASSUME MsigInv, UNCHANGED <<proposals, approvals, invals, deferred, authority, slot>>,
         NEW k \in DOMAIN old_approvals, NEW l \in Levels, NEW row \in OldApprovals,
         old_approvals' = [old_approvals EXCEPT ![k] = row],
         \A x \in Levels : x # l =>
           (x \in ToSet(row.provided) <=> x \in ToSet(old_approvals[k].provided))
  PROVE  MsigInv' /\ ConsentStep
<1>1. /\ IsTable(old_approvals', Ids, OldApprovals) /\ DOMAIN old_approvals' = DOMAIN old_approvals
      /\ old_approvals'[k] = row
      /\ \A j \in DOMAIN old_approvals : j # k => old_approvals'[j] = old_approvals[j]
  BY InvParts, ExceptTable
<1>2. MsigTypeOK' /\ OneRowOfApprovals' /\ NoneFromTheFuture'
  BY <1>1, InvParts DEF MsigTypeOK, OneRowOfApprovals, NoneFromTheFuture
<1>3. /\ \A j \in DOMAIN proposals : Standing(j) = Backers(j) /\ Standing(j)' = Backers(j)'
      /\ k \in DOMAIN proposals /\ k \notin DOMAIN approvals
  BY <1>1, <1>2, InvParts, StandingIsBackers, StandingIsBackersNext DEF MsigInv
<1>4. \A j \in DOMAIN proposals : j # k => Backers(j)' = Backers(j)
  BY <1>1, InvParts DEF Backers, Holds
<1>5. \A x \in Levels : x # l => (x \in Backers(k)' <=> x \in Backers(k))
  BY <1>1, <1>3 DEF Backers, Holds
<1>6. Backers(k) \subseteq Levels /\ Backers(k)' \subseteq Levels
  BY DEF Backers
<1>7. ConsentStep
  BY <1>3, <1>4, <1>5, <1>6, InvParts, OneVoice
<1>. QED  BY <1>2, <1>7 DEF MsigInv

LEMMA ApproveSteps ==
  ASSUME MsigInv, NEW k \in Ids, NEW l \in Levels, NEW h, approve(k, l, h)
  PROVE  MsigInv' /\ ConsentStep
<1>1. CASE k \in DOMAIN approvals
  <2>. DEFINE row == approvals[k]
              e == NewApproval(l)
              new == [requested |-> RemoveAt(row.requested, IndexOf(row.requested, l)),
                      provided |-> Append(row.provided, e)]
  <2>1. /\ Contains(row.requested, l) /\ approvals' = [approvals EXCEPT ![k] = new]
        /\ UNCHANGED <<proposals, old_approvals, invals, deferred, authority, slot>>
    BY <1>1 DEF approve
  <2>2. e \in Approval /\ e.time = slot /\ e.level = l
    BY InvParts DEF Approval, NewApproval
  <2>3. row \in Approvals /\ row.provided \in Seq(Approval)
    BY <1>1, InvParts
  <2>4. \A x \in ToSet(row.provided) : x.time <= slot
    BY <1>1, InvParts
  <2>. HIDE DEF row, e
  <2>5. new \in Approvals
    BY <2>1, <2>2, <2>3, MoveToProvided DEF Approvals
  <2>6. new.provided = Append(row.provided, e)
    OBVIOUS
  <2>7. ToSet(new.provided) = ToSet(row.provided) \cup {e}
    BY <2>2, <2>3, <2>6, AppendSet
  <2>. HIDE DEF new
  <2>8. /\ \A x \in ToSet(new.provided) : x.time <= slot
        /\ \A x \in ToSet(new.provided) : x.level # l => x \in ToSet(approvals[k].provided)
        /\ \A x \in ToSet(approvals[k].provided) : x.level # l => x \in ToSet(new.provided)
    BY <2>2, <2>4, <2>7, InvParts DEF row
  <2>. QED  BY <1>1, <2>1, <2>5, <2>8, RowRewritten
<1>2. CASE k \notin DOMAIN approvals
  <2>. DEFINE row == old_approvals[k]
              new == [requested |-> RemoveAt(row.requested, IndexOf(row.requested, l)),
                      provided |-> Append(row.provided, l)]
  <2>1. /\ k \in DOMAIN old_approvals
        /\ Contains(row.requested, l) /\ old_approvals' = [old_approvals EXCEPT ![k] = new]
        /\ UNCHANGED <<proposals, approvals, invals, deferred, authority, slot>>
    BY <1>2 DEF approve
  <2>2. row \in OldApprovals /\ row.provided \in Seq(Levels)
    BY <2>1, InvParts
  <2>. HIDE DEF row
  <2>3. new \in OldApprovals
    BY <2>1, <2>2, MoveToProvided DEF OldApprovals
  <2>4. ToSet(new.provided) = ToSet(row.provided) \cup {l}
    BY <2>2, AppendSet
  <2>. HIDE DEF new
  <2>. QED  BY <2>1, <2>3, <2>4, OldRowRewritten DEF row
<1>. QED  BY <1>1, <1>2

LEMMA UnapproveSteps ==
  ASSUME MsigInv, NEW k \in Ids, NEW l \in Levels, unapprove(k, l)
  PROVE  MsigInv' /\ ConsentStep
<1>1. CASE k \in DOMAIN approvals
  <2>. DEFINE row == approvals[k]
              i == IndexOf(LevelsOf(row.provided), l)
              new == [requested |-> Append(row.requested, l),
                      provided |-> RemoveAt(row.provided, i)]
  <2>1. /\ Contains(LevelsOf(row.provided), l) /\ approvals' = [approvals EXCEPT ![k] = new]
        /\ UNCHANGED <<proposals, old_approvals, invals, deferred, authority, slot>>
    BY <1>1 DEF unapprove
  <2>2. row \in Approvals /\ row.provided \in Seq(Approval)
    BY <1>1, InvParts
  <2>3. \A x \in ToSet(row.provided) : x.time <= slot
    BY <1>1, InvParts
  <2>. HIDE DEF row
  <2>4. i \in 1..Len(row.provided) /\ row.provided[i].level = l
    BY <2>1, <2>2, LevelsList, IndexIsThere
  <2>. HIDE DEF i
  <2>5. new \in Approvals
    BY <2>2, <2>4, MoveToRequested DEF Approvals
  <2>6. ToSet(new.provided) \cup {row.provided[i]} = ToSet(row.provided)
    BY <2>2, <2>4, RemoveSet
  <2>. HIDE DEF new
  <2>7. /\ \A x \in ToSet(new.provided) : x.time <= slot
        /\ \A x \in ToSet(new.provided) : x.level # l => x \in ToSet(approvals[k].provided)
        /\ \A x \in ToSet(approvals[k].provided) : x.level # l => x \in ToSet(new.provided)
    BY <2>3, <2>4, <2>6 DEF row
  <2>. QED  BY <1>1, <2>1, <2>5, <2>7, RowRewritten
<1>2. CASE k \notin DOMAIN approvals
  <2>. DEFINE row == old_approvals[k]
              i == IndexOf(row.provided, l)
              new == [requested |-> Append(row.requested, l),
                      provided |-> RemoveAt(row.provided, i)]
  <2>1. /\ k \in DOMAIN old_approvals
        /\ Contains(row.provided, l) /\ old_approvals' = [old_approvals EXCEPT ![k] = new]
        /\ UNCHANGED <<proposals, approvals, invals, deferred, authority, slot>>
    BY <1>2 DEF unapprove
  <2>2. row \in OldApprovals /\ row.provided \in Seq(Levels)
    BY <2>1, InvParts
  <2>. HIDE DEF row
  <2>3. i \in 1..Len(row.provided) /\ row.provided[i] = l
    BY <2>1, <2>2, IndexIsThere
  <2>. HIDE DEF i
  <2>4. new \in OldApprovals
    BY <2>2, <2>3, MoveToRequested DEF OldApprovals
  <2>5. ToSet(new.provided) \cup {row.provided[i]} = ToSet(row.provided)
    BY <2>2, <2>3, RemoveSet
  <2>. HIDE DEF new
  <2>. QED  BY <2>1, <2>3, <2>4, <2>5, OldRowRewritten DEF row
<1>. QED  BY <1>1, <1>2

LEMMA ProposeSteps ==
  ASSUME MsigInv, NEW k \in Ids, NEW r \in RequestLists, NEW trx \in Trxs, propose(k, r, trx)
  PROVE  MsigInv' /\ ConsentStep
<1>. DEFINE row == [requested |-> r, provided |-> <<>>]
<1>1. /\ k \notin DOMAIN proposals /\ k \notin DOMAIN approvals /\ k \notin DOMAIN old_approvals
      /\ proposals' = Upsert(proposals, k, trx) /\ approvals' = Upsert(approvals, k, row)
      /\ UNCHANGED <<old_approvals, invals, deferred, authority, slot>>
  BY InvParts DEF propose
<1>2. row \in Approvals /\ ToSet(row.provided) = {}
  <2>1. <<>> \in Seq(Approval) /\ ToSet(<<>>) = {}
    BY DEF ToSet
  <2>. QED  BY <2>1 DEF Approvals
<1>. HIDE DEF row
<1>3. /\ IsTable(proposals', Ids, Trxs) /\ DOMAIN proposals' = DOMAIN proposals \cup {k}
      /\ IsTable(approvals', Ids, Approvals) /\ DOMAIN approvals' = DOMAIN approvals \cup {k}
      /\ approvals'[k] = row /\ \A j \in DOMAIN approvals : approvals'[j] = approvals[j]
  <2>1. IsTable(proposals, Ids, Trxs) /\ IsTable(approvals, Ids, Approvals)
    BY InvParts
  <2>2. /\ IsTable(Upsert(proposals, k, trx), Ids, Trxs)
        /\ DOMAIN Upsert(proposals, k, trx) = DOMAIN proposals \cup {k}
    BY <2>1 DEF IsTable, Upsert
  <2>3. /\ IsTable(Upsert(approvals, k, row), Ids, Approvals)
        /\ DOMAIN Upsert(approvals, k, row) = DOMAIN approvals \cup {k}
        /\ Upsert(approvals, k, row)[k] = row
        /\ \A j \in DOMAIN approvals : j # k => Upsert(approvals, k, row)[j] = approvals[j]
    BY <1>2, <2>1 DEF IsTable, Upsert
  <2>. QED  BY <1>1, <2>2, <2>3
<1>4. MsigTypeOK' /\ OneRowOfApprovals' /\ NoneFromTheFuture'
  <2>1. MsigTypeOK'
    BY <1>1, <1>3, InvParts DEF MsigTypeOK
  <2>2. OneRowOfApprovals'
    BY <1>1, <1>3, InvParts DEF OneRowOfApprovals
  <2>3. \A j \in DOMAIN approvals' : \A e \in ToSet(approvals'[j].provided) : e.time <= slot
    BY <1>2, <1>3, InvParts
  <2>. QED  BY <1>1, <2>1, <2>2, <2>3 DEF NoneFromTheFuture
<1>5. /\ \A j \in DOMAIN proposals : Standing(j) = Backers(j) /\ Standing(j)' = Backers(j)'
      /\ Standing(k)' = Backers(k)'
  BY <1>1, <1>3, <1>4, InvParts, StandingIsBackers, StandingIsBackersNext DEF MsigInv
<1>6. \A j \in DOMAIN proposals : Backers(j)' = Backers(j)
  BY <1>1, <1>3, InvParts DEF Backers, Holds
<1>7. Backers(k)' = {}
  BY <1>2, <1>3 DEF Backers
<1>8. Book' = Upsert(Book, k, {})
  <2>1. Book' = [j \in DOMAIN proposals \cup {k} |-> Standing(j)']
    BY <1>3 DEF Book
  <2>. QED  BY <1>1, <1>5, <1>6, <1>7, <2>1 DEF Book, Upsert
<1>9. Wallet!Propose(k, trx)
  BY <1>1, <1>8 DEF Wallet!Propose, Wallet!Upsert, Upsert, Book
<1>. QED  BY <1>4, <1>9 DEF MsigInv, ConsentStep, Wallet!ConsentNext

(* A proposal goes together with whichever row of approvals it has.        *)
LEMMA Closed ==
  ASSUME MsigInv, NEW k \in DOMAIN proposals, EraseApprovals(k),
         proposals' = Erase(proposals, k), IsTable(deferred', Ids, Trxs),
         UNCHANGED <<invals, authority, slot>>
  PROVE  MsigInv' /\ Book' = Erase(Book, k)
<1>1. /\ IsTable(proposals', Ids, Trxs) /\ DOMAIN proposals' = DOMAIN proposals \ {k}
  BY InvParts, EraseTable
<1>2. /\ IsTable(approvals', Ids, Approvals) /\ DOMAIN approvals' = DOMAIN approvals \ {k}
      /\ \A j \in DOMAIN approvals : j # k => approvals'[j] = approvals[j]
  <2>1. CASE k \in DOMAIN approvals
    <3>1. approvals' = Erase(approvals, k)
      BY <2>1 DEF EraseApprovals
    <3>. QED  BY <3>1, InvParts, EraseTable
  <2>2. CASE k \notin DOMAIN approvals
    <3>1. approvals' = approvals
      BY <2>2 DEF EraseApprovals
    <3>. QED  BY <2>2, <3>1, InvParts
  <2>. QED  BY <2>1, <2>2
<1>3. /\ IsTable(old_approvals', Ids, OldApprovals)
      /\ DOMAIN old_approvals' = DOMAIN old_approvals \ {k}
      /\ \A j \in DOMAIN old_approvals : j # k => old_approvals'[j] = old_approvals[j]
  <2>1. CASE k \in DOMAIN approvals
    <3>1. old_approvals' = old_approvals /\ k \notin DOMAIN old_approvals
      BY <2>1, InvParts DEF EraseApprovals
    <3>. QED  BY <3>1, InvParts
  <2>2. CASE k \notin DOMAIN approvals
    <3>1. old_approvals' = Erase(old_approvals, k)
      BY <2>2 DEF EraseApprovals
    <3>2. IsTable(old_approvals, Ids, OldApprovals)
      BY InvParts
    <3>. QED  BY ONLY <3>1, <3>2, EraseTable, Zenon
  <2>. QED  BY <2>1, <2>2
<1>4. MsigTypeOK' /\ OneRowOfApprovals' /\ NoneFromTheFuture'
  BY <1>1, <1>2, <1>3, InvParts DEF MsigTypeOK, OneRowOfApprovals, NoneFromTheFuture
<1>5. \A j \in DOMAIN proposals : j # k => Standing(j) = Backers(j) /\ Standing(j)' = Backers(j)'
  BY <1>1, <1>2, <1>3, <1>4, InvParts, StandingIsBackers, StandingIsBackersNext DEF MsigInv
<1>6. \A j \in DOMAIN proposals : j # k => Backers(j)' = Backers(j)
  BY <1>2, <1>3, InvParts DEF Backers, Holds
<1>7. Book' = Erase(Book, k)
  BY <1>1, <1>5, <1>6 DEF Book, Erase
<1>. QED  BY <1>4, <1>7 DEF MsigInv

LEMMA CancelSteps ==
  ASSUME MsigInv, NEW k \in Ids, NEW c \in Accounts, cancel(k, c)
  PROVE  MsigInv' /\ ConsentStep
<1>1. /\ k \in DOMAIN proposals /\ EraseApprovals(k) /\ proposals' = Erase(proposals, k)
      /\ UNCHANGED <<invals, deferred, authority, slot>>
  BY DEF cancel
<1>2. MsigInv' /\ Book' = Erase(Book, k)
  BY <1>1, InvParts, Closed
<1>3. Wallet!Abandon(k)
  BY <1>1, <1>2 DEF Wallet!Abandon, Wallet!Close, Wallet!Erase, Erase, Book
<1>. QED  BY <1>2, <1>3 DEF ConsentStep, Wallet!ConsentNext

LEMMA ExecSteps ==
  ASSUME MsigInv, NEW k \in Ids, exec(k)
  PROVE  MsigInv' /\ ConsentStep
<1>1. /\ k \in DOMAIN proposals /\ EraseApprovals(k) /\ proposals' = Erase(proposals, k)
      /\ Counted(k) \in authority[proposals[k]] /\ k \notin DOMAIN deferred
      /\ deferred' = Upsert(deferred, k, proposals[k])
      /\ UNCHANGED <<invals, authority, slot>>
  BY DEF exec
<1>2. IsTable(deferred', Ids, Trxs)
  <2>1. proposals[k] \in Trxs
    BY <1>1, InvParts DEF IsTable
  <2>. QED  BY <1>1, <2>1, InvParts, UpsertTable
<1>3. MsigInv' /\ Book' = Erase(Book, k)
  BY <1>1, <1>2, Closed
<1>4. Book[k] = Counted(k)
  BY <1>1, CountedIsStanding DEF Book
<1>5. Wallet!Execute(k)
  BY <1>1, <1>3, <1>4
     DEF Wallet!Execute, Wallet!Close, Wallet!Erase, Erase, Wallet!Upsert, Upsert, Book
<1>. QED  BY <1>3, <1>5 DEF ConsentStep, Wallet!ConsentNext

LEMMA InvalidateSteps ==
  ASSUME MsigInv, NEW a \in Accounts, invalidate(a)
  PROVE  MsigInv' /\ ConsentStep
<1>1. /\ invals' = Upsert(invals, a, slot)
      /\ UNCHANGED <<proposals, approvals, old_approvals, deferred, authority, slot>>
  BY DEF invalidate
<1>2. /\ IsTable(invals', Accounts, Nat) /\ DOMAIN invals' = DOMAIN invals \cup {a}
      /\ invals'[a] = slot /\ \A b \in DOMAIN invals : b # a => invals'[b] = invals[b]
  <2>1. IsTable(invals, Accounts, Nat) /\ slot \in Nat
    BY InvParts
  <2>2. /\ IsTable(Upsert(invals, a, slot), Accounts, Nat)
        /\ DOMAIN Upsert(invals, a, slot) = DOMAIN invals \cup {a}
        /\ Upsert(invals, a, slot)[a] = slot
        /\ \A b \in DOMAIN invals : b # a => Upsert(invals, a, slot)[b] = invals[b]
    BY <2>1 DEF IsTable, Upsert
  <2>. QED  BY <1>1, <2>2
<1>3. MsigTypeOK' /\ OneRowOfApprovals' /\ NoneFromTheFuture'
  BY <1>1, <1>2, InvParts DEF MsigTypeOK, OneRowOfApprovals, NoneFromTheFuture
<1>4. \A k \in DOMAIN proposals : Standing(k) = Backers(k) /\ Standing(k)' = Backers(k)'
  BY <1>1, <1>3, InvParts, StandingIsBackers, StandingIsBackersNext DEF MsigInv
<1>5. ASSUME NEW k \in DOMAIN proposals
      PROVE  Backers(k)' = {l \in Backers(k) : Actor[l] # a}
  <2>1. CASE k \in DOMAIN approvals
    <3>1. \A e \in ToSet(approvals[k].provided) : e.time \in Nat /\ e.time <= slot
      <4>1. ToSet(approvals[k].provided) \subseteq Approval
        BY <2>1, InvParts, SetOfList
      <4>. QED  BY <2>1, <4>1, InvParts DEF Approval
    <3>2. \A l \in Levels, e \in ToSet(approvals[k].provided) :
            Holds(l, e.time)' <=> Holds(l, e.time) /\ Actor[l] # a
      BY <1>2, <3>1, InvParts DEF Holds
    <3>3. \A l \in Levels : l \in Backers(k)' <=> l \in Backers(k) /\ Actor[l] # a
      BY <1>1, <2>1, <3>2 DEF Backers
    <3>4. Backers(k) \subseteq Levels /\ Backers(k)' \subseteq Levels
      BY DEF Backers
    <3>. QED  BY <3>3, <3>4
  <2>2. CASE k \notin DOMAIN approvals
    BY <1>1, <1>2, <2>2 DEF Backers
  <2>. QED  BY <2>1, <2>2
<1>6. Book' = [k \in DOMAIN Book |-> {l \in Book[k] : Actor[l] # a}]
  <2>1. Book' = [k \in DOMAIN proposals |-> Standing(k)']
    BY <1>1 DEF Book
  <2>2. DOMAIN Book = DOMAIN proposals /\ \A k \in DOMAIN proposals : Book[k] = Standing(k)
    BY DEF Book
  <2>3. \A k \in DOMAIN proposals : Standing(k)' = {l \in Book[k] : Actor[l] # a}
    BY <1>4, <1>5, <2>2
  <2>. QED  BY <2>1, <2>2, <2>3
<1>7. Wallet!WithdrawEverywhere(a)
  BY <1>1, <1>6 DEF Wallet!WithdrawEverywhere, Book
<1>. QED  BY <1>3, <1>7 DEF MsigInv, ConsentStep, Wallet!ConsentNext

(* The chain's own steps do not touch what stands behind a proposal.       *)
LEMMA ChainSteps ==
  ASSUME MsigInv,
         \/ NextBlock
         \/ \E k \in Ids : RunDeferred(k)
         \/ UpdateAuth
         \/ UNCHANGED msigVars
  PROVE  MsigInv' /\ ConsentStep
<1>1. UNCHANGED <<proposals, approvals, old_approvals, invals>>
  BY DEF NextBlock, RunDeferred, UpdateAuth, msigVars
<1>2. slot' \in Nat /\ slot' >= slot
  BY InvParts DEF NextBlock, RunDeferred, UpdateAuth, msigVars
<1>3. authority' \in Authorities
  BY InvParts DEF NextBlock, RunDeferred, UpdateAuth, msigVars
<1>4. IsTable(deferred', Ids, Trxs)
  <2>1. IsTable(deferred, Ids, Trxs)
    BY InvParts
  <2>2. ASSUME NEW k \in Ids, RunDeferred(k)
        PROVE  IsTable(deferred', Ids, Trxs)
    <3>1. deferred' = Erase(deferred, k)
      BY <2>2 DEF RunDeferred
    <3>. QED  BY <2>1, <3>1, EraseTable
  <2>3. CASE NextBlock \/ UpdateAuth \/ UNCHANGED msigVars
    BY <2>1, <2>3 DEF NextBlock, UpdateAuth, msigVars
  <2>. QED  BY <2>2, <2>3
<1>5. NoneFromTheFuture'
  <2>. SUFFICES ASSUME NEW k \in DOMAIN approvals, NEW e \in ToSet(approvals[k].provided)
                PROVE  e.time <= slot'
    BY <1>1 DEF NoneFromTheFuture
  <2>1. e \in Approval
    BY InvParts, SetOfList
  <2>2. e.time \in Nat /\ e.time <= slot /\ slot \in Nat
    BY <2>1, InvParts DEF Approval
  <2>. QED  BY <1>2, <2>2
<1>6. MsigInv'
  BY <1>1, <1>2, <1>3, <1>4, <1>5, InvParts DEF MsigInv, MsigTypeOK, OneRowOfApprovals
<1>7. Book' = Book
  BY <1>1 DEF Book, Standing
<1>8. CASE UpdateAuth
  <2>1. Wallet!ChangeAuthority
    BY <1>1, <1>7, <1>8 DEF UpdateAuth, Wallet!ChangeAuthority, Book
  <2>. QED  BY <1>6, <2>1 DEF ConsentStep, Wallet!ConsentNext
<1>9. ASSUME NEW k \in Ids, RunDeferred(k)
      PROVE  ConsentStep
  <2>1. Wallet!Deliver(k)
    BY <1>1, <1>7, <1>9 DEF RunDeferred, Wallet!Deliver, Wallet!Erase, Erase, Book
  <2>. QED  BY <2>1 DEF ConsentStep, Wallet!ConsentNext
<1>10. CASE NextBlock \/ UNCHANGED msigVars
  BY <1>1, <1>6, <1>7, <1>10 DEF NextBlock, msigVars, ConsentStep
<1>. QED  BY <1>6, <1>8, <1>9, <1>10

LEMMA MsigStep == MsigInv /\ [MsigNext]_msigVars => MsigInv' /\ ConsentStep
<1>. SUFFICES ASSUME MsigInv, [MsigNext]_msigVars
              PROVE  MsigInv' /\ ConsentStep
  OBVIOUS
<1>1. ASSUME NEW k \in Ids, NEW l \in Levels,
             (\E h \in Trxs \cup {NoTrx} : approve(k, l, h)) \/ unapprove(k, l)
      PROVE  MsigInv' /\ ConsentStep
  BY <1>1, ApproveSteps, UnapproveSteps
<1>2. ASSUME NEW k \in Ids,
             \/ \E r \in RequestLists, t \in Trxs : propose(k, r, t)
             \/ \E c \in Accounts : cancel(k, c)
             \/ exec(k)
      PROVE  MsigInv' /\ ConsentStep
  BY <1>2, ProposeSteps, CancelSteps, ExecSteps
<1>3. ASSUME NEW a \in Accounts, invalidate(a)
      PROVE  MsigInv' /\ ConsentStep
  BY <1>3, InvalidateSteps
<1>4. ASSUME \/ NextBlock
             \/ \E k \in Ids : RunDeferred(k)
             \/ UpdateAuth
             \/ UNCHANGED msigVars
      PROVE  MsigInv' /\ ConsentStep
  BY <1>4, ChainSteps
<1>. QED  BY <1>1, <1>2, <1>3, <1>4 DEF MsigNext

LEMMA MsigInvInit == MsigInit => MsigInv /\ Wallet!ConsentInit
<1>. SUFFICES ASSUME MsigInit
              PROVE  MsigInv /\ Wallet!ConsentInit
  OBVIOUS
<1>1. /\ proposals = [k \in DOMAIN Legacy |-> Legacy[k].trx] /\ approvals = EmptyTable
      /\ old_approvals = [k \in DOMAIN Legacy |-> Legacy[k].approvals]
      /\ invals = EmptyTable /\ deferred = EmptyTable
      /\ authority \in Authorities /\ slot = 0
  BY DEF MsigInit
<1>2. MsigTypeOK
  BY <1>1 DEF MsigTypeOK, IsTable, EmptyTable
<1>3. OneRowOfApprovals /\ NoneFromTheFuture
  BY <1>1 DEF OneRowOfApprovals, NoneFromTheFuture, EmptyTable
<1>4. Book \in [DOMAIN proposals -> SUBSET Levels]
  BY DEF Book, Standing
<1>5. Wallet!ConsentInit
  BY <1>1, <1>2, <1>4
     DEF Wallet!ConsentInit, MsigTypeOK, IsTable, EmptyTable, Wallet!EmptyTable, Book
<1>. QED  BY <1>2, <1>3, <1>5 DEF MsigInv

(* Every row of the wallet's tables keeps its declared shape.              *)
THEOREM MsigTypeCorrect == MsigSpec => []MsigTypeOK
<1>1. MsigInv => MsigTypeOK
  BY DEF MsigInv
<1>. QED  BY <1>1, MsigInvInit, MsigStep, PTL DEF MsigSpec

(* exec and cancel always find the one row of approvals a proposal has, in *)
(* whichever of the two tables it is.                                      *)
THEOREM OneRowAlways == MsigSpec => []OneRowOfApprovals
<1>1. MsigInv => OneRowOfApprovals
  BY DEF MsigInv
<1>. QED  BY <1>1, MsigInvInit, MsigStep, PTL DEF MsigSpec

(* The wallet executes a proposal only with the consent that stands at that*)
(* moment: approvals in either format, withdrawn or invalidated, in the    *)
(* same block or earlier, count as the abstract wallet says.               *)
THEOREM WalletImplementsConsent == MsigSpec => ConsentImplemented
<1>1. MsigInit => Wallet!ConsentInit
  BY MsigInvInit
<1>2. MsigInv /\ [MsigNext]_msigVars => [Wallet!ConsentNext]_Wallet!consentVars
  BY MsigStep DEF ConsentStep, Book, Wallet!consentVars
<1>. QED  BY <1>1, <1>2, MsigInvInit, MsigStep, PTL
          DEF MsigSpec, ConsentImplemented, Wallet!ConsentSpec

-----------------------------------------------------------------------------
(* How often a level is on a list.                                         *)

Places1(s, x) == {i \in 1..Len(s) : s[i] = x}

LEMMA CopiesIs ==
  ASSUME NEW S, NEW s \in Seq(S), NEW x
  PROVE  /\ Copies(s, x) = Cardinality(Places1(s, x)) /\ IsFiniteSet(Places1(s, x))
         /\ Copies(s, x) \in Nat
<1>1. DOMAIN s = 1..Len(s) /\ Len(s) \in Nat
  BY LenProperties
<1>2. IsFiniteSet(Places1(s, x))
  <2>1. IsFiniteSet(1..Len(s))
    BY <1>1, FS_Interval
  <2>2. Places1(s, x) \subseteq 1..Len(s)
    BY DEF Places1
  <2>. QED  BY <2>1, <2>2, FS_Subset
<1>3. Copies(s, x) = Cardinality(Places1(s, x))
  BY <1>1 DEF Copies, Places1
<1>. QED  BY <1>2, <1>3, FS_CardinalityType

LEMMA AppendCopies ==
  ASSUME NEW S, NEW s \in Seq(S), NEW r \in Seq(S), NEW e, IsWith(r, s, e)
  PROVE  \A x : Copies(r, x) = Copies(s, x) + (IF e = x THEN 1 ELSE 0)
<1>. TAKE x
<1>. DEFINE n == Len(r)
<1>1. Len(s) \in Nat /\ n = Len(s) + 1 /\ r[n] = e /\ \A i \in 1..Len(s) : r[i] = s[i]
  BY LenProperties DEF IsWith
<1>2. /\ Copies(r, x) = Cardinality(Places1(r, x)) /\ Copies(s, x) = Cardinality(Places1(s, x))
      /\ IsFiniteSet(Places1(s, x)) /\ Copies(s, x) \in Nat
  BY CopiesIs
<1>3. n \notin Places1(s, x)
  BY <1>1 DEF Places1
<1>4. CASE r[n] = x
  <2>1. Places1(r, x) = Places1(s, x) \cup {n}
    BY <1>1, <1>4 DEF Places1
  <2>2. Cardinality(Places1(s, x) \cup {n}) = Cardinality(Places1(s, x)) + 1
    BY <1>2, <1>3, FS_AddElement
  <2>. QED  BY <1>1, <1>2, <1>4, <2>1, <2>2
<1>5. CASE r[n] # x
  <2>1. Places1(r, x) = Places1(s, x)
    BY <1>1, <1>5 DEF Places1
  <2>. QED  BY <1>1, <1>2, <1>5, <2>1
<1>. QED  BY <1>1, <1>4, <1>5

LEMMA RemoveCopies ==
  ASSUME NEW S, NEW s \in Seq(S), NEW i \in 1..Len(s), NEW r \in Seq(S), IsWithout(r, s, i)
  PROVE  \A x : Copies(s, x) = Copies(r, x) + (IF s[i] = x THEN 1 ELSE 0)
<1>. TAKE x
<1>. DEFINE A == Places1(r, x)
            B == Places1(s, x) \ {i}
            f == [j \in A |-> IF j < i THEN j ELSE j + 1]
<1>1. /\ Len(s) \in Nat /\ Len(r) = Len(s) - 1
      /\ \A j \in 1..Len(r) : r[j] = IF j < i THEN s[j] ELSE s[j + 1]
  BY LenProperties DEF IsWithout
<1>2. /\ Copies(r, x) = Cardinality(A) /\ IsFiniteSet(A) /\ Copies(r, x) \in Nat
      /\ Copies(s, x) = Cardinality(Places1(s, x)) /\ IsFiniteSet(Places1(s, x))
      /\ Copies(s, x) \in Nat
  BY CopiesIs
<1>3. ASSUME NEW j \in A
      PROVE  f[j] \in B
  <2>1. j \in 1..Len(r) /\ r[j] = x
    BY DEF Places1
  <2>2. CASE j < i
    BY <1>1, <2>1, <2>2 DEF Places1
  <2>3. CASE ~(j < i)
    <3>1. j + 1 \in 1..Len(s) /\ s[j + 1] = x /\ j + 1 # i
      BY <1>1, <2>1, <2>3
    <3>. QED  BY <2>3, <3>1 DEF Places1
  <2>. QED  BY <2>2, <2>3
<1>4. ASSUME NEW t \in B
      PROVE  \E j \in A : f[j] = t
  <2>1. t \in 1..Len(s) /\ s[t] = x /\ t # i
    BY DEF Places1
  <2>2. CASE t < i
    <3>1. t \in 1..Len(r) /\ r[t] = x
      BY <1>1, <2>1, <2>2
    <3>2. t \in A
      BY <3>1 DEF Places1
    <3>. QED  BY <2>2, <3>2
  <2>3. CASE t > i
    <3>1. t - 1 \in 1..Len(r) /\ ~(t - 1 < i) /\ t - 1 + 1 = t
      BY <1>1, <2>1, <2>3
    <3>2. r[t - 1] = x
      BY <1>1, <2>1, <3>1
    <3>3. t - 1 \in A
      BY <3>1, <3>2 DEF Places1
    <3>4. f[t - 1] = t
      BY <3>1, <3>3
    <3>. QED  BY <3>3, <3>4
  <2>. QED  BY <2>1, <2>2, <2>3
<1>5. ASSUME NEW j \in A, NEW l \in A, f[j] = f[l]
      PROVE  j = l
  <2>1. j \in Int /\ l \in Int
    BY DEF Places1
  <2>. QED  BY <1>5, <2>1
<1>6. ExistsBijection(A, B)
  <2>. HIDE DEF A, B
  <2>1. f \in [A -> B]
    BY <1>3
  <2>2. DOMAIN f = A
    OBVIOUS
  <2>. HIDE DEF f
  <2>3. f \in Bijection(A, B)
    BY <1>4, <1>5, <2>1, <2>2 DEF Bijection, Injection, Surjection, IsInjective
  <2>. QED  BY <2>3 DEF ExistsBijection
<1>. HIDE DEF A, f
<1>7. Cardinality(B) = Cardinality(A)
  <2>. HIDE DEF B
  <2>. QED  BY <1>2, <1>6, FS_Bijection
<1>8. Cardinality(B) = IF i \in Places1(s, x) THEN Cardinality(Places1(s, x)) - 1
                                              ELSE Cardinality(Places1(s, x))
  BY <1>2, FS_RemoveElement
<1>9. i \in Places1(s, x) <=> s[i] = x
  BY DEF Places1
<1>. HIDE DEF B
<1>. QED  BY <1>2, <1>7, <1>8, <1>9

(* Taking the levels commutes with removing and appending.                 *)
LEMMA LevelsAfter ==
  ASSUME NEW p \in Seq(Approval)
  PROVE  /\ \A i \in 1..Len(p) : IsWithout(LevelsOf(RemoveAt(p, i)), LevelsOf(p), i)
         /\ \A e \in Approval :
              /\ Len(LevelsOf(Append(p, e))) = Len(LevelsOf(p)) + 1
              /\ \A i \in 1..Len(LevelsOf(p)) : LevelsOf(Append(p, e))[i] = LevelsOf(p)[i]
              /\ LevelsOf(Append(p, e))[Len(LevelsOf(p)) + 1] = e.level
<1>0. Len(p) \in Nat
  BY LenProperties
<1>1. ASSUME NEW i \in 1..Len(p)
      PROVE  IsWithout(LevelsOf(RemoveAt(p, i)), LevelsOf(p), i)
  <2>. DEFINE r == RemoveAt(p, i)
  <2>1. r \in Seq(Approval) /\ IsWithout(r, p, i)
    BY RemoveIndex
  <2>. HIDE DEF r
  <2>2. /\ Len(r) = Len(p) - 1 /\ Len(LevelsOf(r)) = Len(r) /\ Len(LevelsOf(p)) = Len(p)
        /\ \A j \in 1..Len(r) : LevelsOf(r)[j] = r[j].level
        /\ \A j \in 1..Len(p) : LevelsOf(p)[j] = p[j].level
        /\ \A j \in 1..Len(r) : r[j] = IF j < i THEN p[j] ELSE p[j + 1]
    BY <2>1, LevelsList DEF IsWithout
  <2>3. \A j \in 1..Len(r) : LevelsOf(r)[j] = IF j < i THEN LevelsOf(p)[j] ELSE LevelsOf(p)[j + 1]
    <3>. TAKE j \in 1..Len(r)
    <3>1. j \in 1..Len(p) /\ j + 1 \in 1..Len(p)
      BY <1>0, <2>2
    <3>. QED  BY <2>2, <3>1
  <2>4. IsWithout(LevelsOf(r), LevelsOf(p), i)
    BY <2>2, <2>3 DEF IsWithout
  <2>. QED  BY <2>4 DEF r
<1>2. ASSUME NEW e \in Approval
      PROVE  /\ Len(LevelsOf(Append(p, e))) = Len(LevelsOf(p)) + 1
             /\ \A i \in 1..Len(LevelsOf(p)) : LevelsOf(Append(p, e))[i] = LevelsOf(p)[i]
             /\ LevelsOf(Append(p, e))[Len(LevelsOf(p)) + 1] = e.level
  <2>. DEFINE r == Append(p, e)
  <2>1. /\ r \in Seq(Approval) /\ Len(r) = Len(p) + 1 /\ r[Len(p) + 1] = e
        /\ \A i \in 1..Len(p) : r[i] = p[i]
    BY AppendProperties
  <2>. HIDE DEF r
  <2>2. /\ Len(LevelsOf(r)) = Len(r) /\ Len(LevelsOf(p)) = Len(p)
        /\ \A j \in 1..Len(r) : LevelsOf(r)[j] = r[j].level
        /\ \A j \in 1..Len(p) : LevelsOf(p)[j] = p[j].level
    BY <2>1, LevelsList
  <2>3. 1..Len(p) \subseteq 1..Len(r) /\ Len(p) + 1 \in 1..Len(r)
    BY <1>0, <2>1
  <2>4. /\ Len(LevelsOf(r)) = Len(LevelsOf(p)) + 1
        /\ \A i \in 1..Len(LevelsOf(p)) : LevelsOf(r)[i] = LevelsOf(p)[i]
        /\ LevelsOf(r)[Len(LevelsOf(p)) + 1] = e.level
    BY <2>1, <2>2, <2>3
  <2>. QED  BY <2>4 DEF r
<1>. QED  BY <1>1, <1>2

(* One level leaves a list and joins the other.                            *)
LEMMA CopiesMove ==
  ASSUME NEW from \in Seq(Levels), NEW from2 \in Seq(Levels),
         NEW to \in Seq(Levels), NEW to2 \in Seq(Levels),
         NEW i \in 1..Len(from), IsWithout(from2, from, i), IsWith(to2, to, from[i])
  PROVE  \A x : Copies(from2, x) + Copies(to2, x) = Copies(from, x) + Copies(to, x)
<1>. TAKE x
<1>1. Copies(from, x) = Copies(from2, x) + (IF from[i] = x THEN 1 ELSE 0)
  BY RemoveCopies
<1>2. Copies(to2, x) = Copies(to, x) + (IF from[i] = x THEN 1 ELSE 0)
  BY AppendCopies
<1>3. Copies(from, x) \in Nat /\ Copies(from2, x) \in Nat
      /\ Copies(to, x) \in Nat /\ Copies(to2, x) \in Nat
  BY CopiesIs
<1>. QED  BY <1>1, <1>2, <1>3

LEMMA ApproveLosesNobody ==
  ASSUME MsigInv, NEW k \in Ids, NEW l \in Levels, NEW h, approve(k, l, h),
         NEW j \in DOMAIN proposals, NEW x \in Levels
  PROVE  Places(j, x)' = Places(j, x)
<1>1. CASE k \in DOMAIN approvals
  <2>. DEFINE row == approvals[k]
              e == NewApproval(l)
              i == IndexOf(row.requested, l)
              new == [requested |-> RemoveAt(row.requested, i), provided |-> Append(row.provided, e)]
  <2>1. /\ Contains(row.requested, l) /\ approvals' = [approvals EXCEPT ![k] = new]
        /\ UNCHANGED old_approvals
    BY <1>1 DEF approve
  <2>2. /\ row.requested \in Seq(Levels) /\ row.provided \in Seq(Approval) /\ e \in Approval
        /\ e.level = l
    BY <1>1, InvParts DEF Approval, NewApproval
  <2>3. /\ new.requested = RemoveAt(row.requested, i) /\ new.provided = Append(row.provided, e)
    OBVIOUS
  <2>4. DOMAIN approvals' = DOMAIN approvals /\ approvals'[k] = new
        /\ \A y \in DOMAIN approvals : y # k => approvals'[y] = approvals[y]
    BY <1>1, <2>1
  <2>. HIDE DEF row, e, i, new
  <2>5. i \in 1..Len(row.requested) /\ row.requested[i] = l
    BY <2>1, <2>2, IndexIsThere DEF i
  <2>6. RemoveAt(row.requested, i) \in Seq(Levels)
        /\ IsWithout(RemoveAt(row.requested, i), row.requested, i)
    BY <2>2, <2>5, RemoveIndex
  <2>7. LevelsOf(row.provided) \in Seq(Levels) /\ LevelsOf(Append(row.provided, e)) \in Seq(Levels)
    BY <2>2, AppendProperties, LevelsList
  <2>8. /\ Len(LevelsOf(Append(row.provided, e))) = Len(LevelsOf(row.provided)) + 1
        /\ \A y \in 1..Len(LevelsOf(row.provided)) :
             LevelsOf(Append(row.provided, e))[y] = LevelsOf(row.provided)[y]
        /\ LevelsOf(Append(row.provided, e))[Len(LevelsOf(row.provided)) + 1] = row.requested[i]
    BY <2>2, <2>5, LevelsAfter
  <2>9. IsWith(LevelsOf(Append(row.provided, e)), LevelsOf(row.provided), row.requested[i])
    BY <2>8 DEF IsWith
  <2>10. Copies(RemoveAt(row.requested, i), x) + Copies(LevelsOf(Append(row.provided, e)), x)
          = Copies(row.requested, x) + Copies(LevelsOf(row.provided), x)
    BY ONLY <2>2, <2>5, <2>6, <2>7, <2>9, CopiesMove
  <2>11. Copies(new.requested, x) + Copies(LevelsOf(new.provided), x)
          = Copies(row.requested, x) + Copies(LevelsOf(row.provided), x)
    BY ONLY <2>3, <2>10
  <2>. QED  BY <2>1, <2>4, <2>11 DEF Places, row
<1>2. CASE k \notin DOMAIN approvals
  <2>. DEFINE row == old_approvals[k]
              i == IndexOf(row.requested, l)
              new == [requested |-> RemoveAt(row.requested, i), provided |-> Append(row.provided, l)]
  <2>1. /\ Contains(row.requested, l) /\ old_approvals' = [old_approvals EXCEPT ![k] = new]
        /\ UNCHANGED approvals /\ k \in DOMAIN old_approvals
    BY <1>2 DEF approve
  <2>2. row.requested \in Seq(Levels) /\ row.provided \in Seq(Levels)
    BY <2>1, InvParts
  <2>3. /\ new.requested = RemoveAt(row.requested, i) /\ new.provided = Append(row.provided, l)
    OBVIOUS
  <2>4. DOMAIN old_approvals' = DOMAIN old_approvals /\ old_approvals'[k] = new
        /\ \A y \in DOMAIN old_approvals : y # k => old_approvals'[y] = old_approvals[y]
    BY <2>1
  <2>. HIDE DEF row, i, new
  <2>5. i \in 1..Len(row.requested) /\ row.requested[i] = l
    BY <2>1, <2>2, IndexIsThere DEF i
  <2>6. RemoveAt(row.requested, i) \in Seq(Levels)
        /\ IsWithout(RemoveAt(row.requested, i), row.requested, i)
    BY <2>2, <2>5, RemoveIndex
  <2>7. /\ Append(row.provided, l) \in Seq(Levels)
        /\ Len(Append(row.provided, l)) = Len(row.provided) + 1
        /\ \A y \in 1..Len(row.provided) : Append(row.provided, l)[y] = row.provided[y]
        /\ Append(row.provided, l)[Len(row.provided) + 1] = row.requested[i]
    BY <2>2, <2>5, AppendProperties
  <2>8. Copies(new.requested, x) + Copies(new.provided, x)
          = Copies(row.requested, x) + Copies(row.provided, x)
    <3>. DEFINE longer == Append(row.provided, l)
    <3>1. longer \in Seq(Levels) /\ IsWith(longer, row.provided, row.requested[i])
      BY <2>7 DEF IsWith
    <3>. HIDE DEF longer
    <3>2. Copies(RemoveAt(row.requested, i), x) + Copies(longer, x)
            = Copies(row.requested, x) + Copies(row.provided, x)
      BY ONLY <2>2, <2>5, <2>6, <3>1, CopiesMove
    <3>. QED  BY <2>3, <3>2 DEF longer
  <2>9. j \in DOMAIN approvals \/ j \in DOMAIN old_approvals
    BY InvParts
  <2>. QED  BY <2>1, <2>4, <2>8, <2>9 DEF Places, row
<1>. QED  BY <1>1, <1>2

LEMMA UnapproveLosesNobody ==
  ASSUME MsigInv, NEW k \in Ids, NEW l \in Levels, unapprove(k, l),
         NEW j \in DOMAIN proposals, NEW x \in Levels
  PROVE  Places(j, x)' = Places(j, x)
<1>1. CASE k \in DOMAIN approvals
  <2>. DEFINE row == approvals[k]
              given == LevelsOf(row.provided)
              i == IndexOf(given, l)
              new == [requested |-> Append(row.requested, l), provided |-> RemoveAt(row.provided, i)]
  <2>1. /\ Contains(given, l) /\ approvals' = [approvals EXCEPT ![k] = new]
        /\ UNCHANGED old_approvals
    BY <1>1 DEF unapprove
  <2>2. row.requested \in Seq(Levels) /\ row.provided \in Seq(Approval)
    BY <1>1, InvParts
  <2>3. /\ new.requested = Append(row.requested, l) /\ new.provided = RemoveAt(row.provided, i)
    OBVIOUS
  <2>4. DOMAIN approvals' = DOMAIN approvals /\ approvals'[k] = new
        /\ \A y \in DOMAIN approvals : y # k => approvals'[y] = approvals[y]
    BY <1>1, <2>1
  <2>5. given \in Seq(Levels) /\ Len(given) = Len(row.provided)
    BY <2>2, LevelsList
  <2>. HIDE DEF row, given, i, new
  <2>6. i \in 1..Len(given) /\ given[i] = l
    BY <2>1, <2>5, IndexIsThere DEF i
  <2>7. RemoveAt(row.provided, i) \in Seq(Approval) /\ IsWithout(LevelsOf(RemoveAt(row.provided, i)), given, i)
    BY <2>2, <2>5, <2>6, RemoveIndex, LevelsAfter DEF given
  <2>8. LevelsOf(RemoveAt(row.provided, i)) \in Seq(Levels)
    BY <2>7, LevelsList
  <2>9. /\ Append(row.requested, l) \in Seq(Levels)
        /\ Len(Append(row.requested, l)) = Len(row.requested) + 1
        /\ \A y \in 1..Len(row.requested) : Append(row.requested, l)[y] = row.requested[y]
        /\ Append(row.requested, l)[Len(row.requested) + 1] = given[i]
    BY <2>2, <2>6, AppendProperties
  <2>10. Copies(LevelsOf(new.provided), x) + Copies(new.requested, x)
           = Copies(given, x) + Copies(row.requested, x)
    <3>. DEFINE longer == Append(row.requested, l)
                shorter == LevelsOf(RemoveAt(row.provided, i))
    <3>1. longer \in Seq(Levels) /\ IsWith(longer, row.requested, given[i])
      BY <2>9 DEF IsWith
    <3>2. shorter \in Seq(Levels) /\ IsWithout(shorter, given, i)
      BY <2>7, <2>8
    <3>3. row.requested \in Seq(Levels)
      BY <2>2
    <3>. HIDE DEF longer, shorter
    <3>4. Copies(shorter, x) + Copies(longer, x) = Copies(given, x) + Copies(row.requested, x)
      BY ONLY <2>5, <2>6, <3>1, <3>2, <3>3, CopiesMove
    <3>. QED  BY <2>3, <3>4 DEF longer, shorter
  <2>11. /\ Copies(LevelsOf(new.provided), x) \in Nat /\ Copies(new.requested, x) \in Nat
         /\ Copies(given, x) \in Nat /\ Copies(row.requested, x) \in Nat
    BY <2>2, <2>3, <2>5, <2>8, <2>9, CopiesIs
  <2>12. Copies(new.requested, x) + Copies(LevelsOf(new.provided), x)
           = Copies(row.requested, x) + Copies(LevelsOf(row.provided), x)
    BY <2>10, <2>11 DEF given
  <2>. QED  BY <2>1, <2>4, <2>12 DEF Places, row
<1>2. CASE k \notin DOMAIN approvals
  <2>. DEFINE row == old_approvals[k]
              i == IndexOf(row.provided, l)
              new == [requested |-> Append(row.requested, l), provided |-> RemoveAt(row.provided, i)]
  <2>1. /\ Contains(row.provided, l) /\ old_approvals' = [old_approvals EXCEPT ![k] = new]
        /\ UNCHANGED approvals /\ k \in DOMAIN old_approvals
    BY <1>2 DEF unapprove
  <2>2. row.requested \in Seq(Levels) /\ row.provided \in Seq(Levels)
    BY <2>1, InvParts
  <2>3. /\ new.requested = Append(row.requested, l) /\ new.provided = RemoveAt(row.provided, i)
    OBVIOUS
  <2>4. DOMAIN old_approvals' = DOMAIN old_approvals /\ old_approvals'[k] = new
        /\ \A y \in DOMAIN old_approvals : y # k => old_approvals'[y] = old_approvals[y]
    BY <2>1
  <2>. HIDE DEF row, i, new
  <2>5. i \in 1..Len(row.provided) /\ row.provided[i] = l
    BY <2>1, <2>2, IndexIsThere DEF i
  <2>6. RemoveAt(row.provided, i) \in Seq(Levels)
        /\ IsWithout(RemoveAt(row.provided, i), row.provided, i)
    BY <2>2, <2>5, RemoveIndex
  <2>7. /\ Append(row.requested, l) \in Seq(Levels)
        /\ Len(Append(row.requested, l)) = Len(row.requested) + 1
        /\ \A y \in 1..Len(row.requested) : Append(row.requested, l)[y] = row.requested[y]
        /\ Append(row.requested, l)[Len(row.requested) + 1] = row.provided[i]
    BY <2>2, <2>5, AppendProperties
  <2>8. Copies(new.provided, x) + Copies(new.requested, x)
          = Copies(row.provided, x) + Copies(row.requested, x)
    <3>. DEFINE longer == Append(row.requested, l)
    <3>1. longer \in Seq(Levels) /\ IsWith(longer, row.requested, row.provided[i])
      BY <2>7 DEF IsWith
    <3>. HIDE DEF longer
    <3>2. Copies(RemoveAt(row.provided, i), x) + Copies(longer, x)
            = Copies(row.provided, x) + Copies(row.requested, x)
      BY ONLY <2>2, <2>5, <2>6, <3>1, CopiesMove
    <3>. QED  BY <2>3, <3>2 DEF longer
  <2>9. /\ Copies(new.provided, x) \in Nat /\ Copies(new.requested, x) \in Nat
        /\ Copies(row.provided, x) \in Nat /\ Copies(row.requested, x) \in Nat
    BY <2>2, <2>3, <2>6, <2>7, CopiesIs
  <2>10. Copies(new.requested, x) + Copies(new.provided, x)
           = Copies(row.requested, x) + Copies(row.provided, x)
    BY <2>8, <2>9
  <2>. QED  BY <2>1, <2>4, <2>10 DEF Places, row
<1>. QED  BY <1>1, <1>2

(* Steps that leave the rows of a proposal alone, or drop them with it.    *)
LEMMA OthersLoseNobody ==
  ASSUME MsigInv,
         \/ \E k \in Ids : \/ \E r \in RequestLists, t \in Trxs : propose(k, r, t)
                           \/ \E c \in Accounts : cancel(k, c)
                           \/ exec(k)
                           \/ RunDeferred(k)
         \/ \E a \in Accounts : invalidate(a)
         \/ NextBlock \/ UpdateAuth \/ UNCHANGED msigVars,
         NEW j \in DOMAIN proposals, j \in DOMAIN proposals', NEW x \in Levels
  PROVE  Places(j, x)' = Places(j, x)
<1>1. ASSUME NEW k \in Ids, NEW r \in RequestLists, NEW t \in Trxs, propose(k, r, t)
      PROVE  Places(j, x)' = Places(j, x)
  <2>1. approvals' = Upsert(approvals, k, [requested |-> r, provided |-> <<>>])
        /\ UNCHANGED old_approvals /\ j # k
    BY <1>1 DEF propose
  <2>2. (j \in DOMAIN approvals' <=> j \in DOMAIN approvals)
        /\ (j \in DOMAIN approvals => approvals'[j] = approvals[j])
    BY <2>1 DEF Upsert
  <2>. QED  BY <2>1, <2>2 DEF Places
<1>2. ASSUME NEW k \in Ids, EraseApprovals(k), proposals' = Erase(proposals, k)
      PROVE  Places(j, x)' = Places(j, x)
  <2>1. j # k
    BY <1>2 DEF Erase
  <2>2. /\ j \in DOMAIN approvals' <=> j \in DOMAIN approvals
        /\ j \in DOMAIN approvals => approvals'[j] = approvals[j]
        /\ j \in DOMAIN old_approvals => old_approvals'[j] = old_approvals[j]
    BY <1>2, <2>1 DEF EraseApprovals, Erase
  <2>3. j \in DOMAIN approvals \/ j \in DOMAIN old_approvals
    BY InvParts
  <2>. QED  BY <2>2, <2>3 DEF Places
<1>3. ASSUME UNCHANGED <<approvals, old_approvals>>
      PROVE  Places(j, x)' = Places(j, x)
  BY <1>3 DEF Places
<1>. QED  BY <1>1, <1>2, <1>3
          DEF cancel, exec, RunDeferred, invalidate, NextBlock, UpdateAuth, msigVars

LEMMA PlacesKept ==
  ASSUME MsigInv, [MsigNext]_msigVars,
         NEW j \in DOMAIN proposals \cap DOMAIN proposals', NEW x \in Levels
  PROVE  Places(j, x)' = Places(j, x)
<1>1. ASSUME NEW k \in Ids, NEW l \in Levels,
             (\E h \in Trxs \cup {NoTrx} : approve(k, l, h)) \/ unapprove(k, l)
      PROVE  Places(j, x)' = Places(j, x)
  BY <1>1, ApproveLosesNobody, UnapproveLosesNobody
<1>. QED  BY <1>1, OthersLoseNobody DEF MsigNext

(* Nobody is added to an open proposal or lost from it.                    *)
THEOREM NobodyIsEverLost == MsigSpec => NobodyIsLost
<1>1. MsigInv /\ [MsigNext]_msigVars =>
        [\A k \in DOMAIN proposals \cap DOMAIN proposals', l \in Levels :
           Places(k, l)' = Places(k, l)]_msigVars
  BY PlacesKept
<1>. QED  BY <1>1, MsigInvInit, MsigStep, PTL DEF MsigSpec, NobodyIsLost

-----------------------------------------------------------------------------
(* When taking back an approval revokes it.                                *)

RequestsAreSets == \A r \in RequestLists, l \in Levels : Copies(r, l) <= 1

(* A level has one place on a proposal, approved or not.                   *)
AskedOnce == \A k \in DOMAIN approvals, l \in Levels : Places(k, l) <= 1

(* A row of approvals2 is the one there was, or has just been proposed.    *)
LEMMA NewRows ==
  ASSUME MsigInv, [MsigNext]_msigVars, NEW j \in DOMAIN approvals', j \notin DOMAIN approvals
  PROVE  \E r \in RequestLists : approvals'[j] = [requested |-> r, provided |-> <<>>]
<1>1. ASSUME DOMAIN approvals' \subseteq DOMAIN approvals
      PROVE  FALSE
  BY <1>1
<1>2. ASSUME NEW k \in Ids, NEW r \in RequestLists, NEW t \in Trxs, propose(k, r, t)
      PROVE  \E q \in RequestLists : approvals'[j] = [requested |-> q, provided |-> <<>>]
  <2>1. approvals' = Upsert(approvals, k, [requested |-> r, provided |-> <<>>])
    BY <1>2 DEF propose
  <2>2. j = k
    BY <2>1 DEF Upsert
  <2>. QED  BY <2>1, <2>2 DEF Upsert
<1>3. ASSUME NEW k \in Ids, NEW l \in Levels,
             (\E h \in Trxs \cup {NoTrx} : approve(k, l, h)) \/ unapprove(k, l)
      PROVE  FALSE
  <2>1. DOMAIN approvals' = DOMAIN approvals
    BY <1>3 DEF approve, unapprove
  <2>. QED  BY <1>1, <2>1
<1>4. ASSUME NEW k \in Ids, EraseApprovals(k)
      PROVE  FALSE
  <2>1. DOMAIN approvals' \subseteq DOMAIN approvals
    BY <1>4 DEF EraseApprovals, Erase
  <2>. QED  BY <1>1, <2>1
<1>5. CASE \E k \in Ids : (\E c \in Accounts : cancel(k, c)) \/ exec(k)
  BY <1>4, <1>5 DEF cancel, exec
<1>6. CASE \/ \E k \in Ids : RunDeferred(k)
           \/ \E a \in Accounts : invalidate(a)
           \/ NextBlock \/ UpdateAuth \/ UNCHANGED msigVars
  BY <1>1, <1>6 DEF RunDeferred, invalidate, NextBlock, UpdateAuth, msigVars
<1>. QED  BY <1>2, <1>3, <1>5, <1>6 DEF MsigNext

LEMMA StaysAskedOnce ==
  ASSUME RequestsAreSets, MsigInv, AskedOnce, [MsigNext]_msigVars
  PROVE  AskedOnce'
<1>. SUFFICES ASSUME NEW j \in DOMAIN approvals', NEW x \in Levels
              PROVE  Places(j, x)' <= 1
  BY DEF AskedOnce
<1>1. MsigInv'
  BY MsigStep
<1>2. CASE j \in DOMAIN approvals
  <2>1. j \in DOMAIN proposals /\ j \in DOMAIN proposals'
    BY <1>1, <1>2 DEF MsigInv, OneRowOfApprovals
  <2>2. Places(j, x)' = Places(j, x)
    BY <2>1, PlacesKept
  <2>3. Places(j, x) <= 1
    BY <1>2 DEF AskedOnce
  <2>. QED  BY <2>2, <2>3
<1>3. CASE j \notin DOMAIN approvals
  <2>1. PICK r \in RequestLists : approvals'[j] = [requested |-> r, provided |-> <<>>]
    BY <1>3, NewRows
  <2>2. approvals'[j].requested = r /\ approvals'[j].provided = <<>>
    BY <2>1
  <2>3. Places(j, x)' = Copies(r, x) + Copies(LevelsOf(<<>>), x)
    BY <2>2 DEF Places
  <2>4. Copies(LevelsOf(<<>>), x) = 0
    <3>1. {i \in DOMAIN LevelsOf(<<>>) : LevelsOf(<<>>)[i] = x} = {}
      BY DEF LevelsOf
    <3>. QED  BY <3>1, FS_EmptySet DEF Copies
  <2>5. Copies(r, x) <= 1 /\ Copies(r, x) \in Nat
    <3>1. r \in Seq(Levels)
      OBVIOUS
    <3>. QED  BY <3>1, CopiesIs DEF RequestsAreSets
  <2>. QED  BY <2>3, <2>4, <2>5
<1>. QED  BY <1>2, <1>3

(* A level that is still asked for has not approved.                       *)
LEMMA AskedIsNotStanding ==
  MsigInv /\ AskedOnce =>
    \A k \in DOMAIN approvals, l \in Levels :
      Copies(approvals[k].requested, l) > 0 => l \notin Standing(k)
<1>. SUFFICES ASSUME MsigInv, AskedOnce, NEW k \in DOMAIN approvals, NEW l \in Levels,
                     Copies(approvals[k].requested, l) > 0
              PROVE  l \notin Standing(k)
  OBVIOUS
<1>. DEFINE given == LevelsOf(approvals[k].provided)
<1>1. /\ approvals[k].requested \in Seq(Levels) /\ approvals[k].provided \in Seq(Approval)
  BY InvParts
<1>2. /\ given \in Seq(Levels) /\ Len(given) = Len(approvals[k].provided)
      /\ \A i \in 1..Len(approvals[k].provided) : given[i] = approvals[k].provided[i].level
  BY <1>1, LevelsList
<1>3. Copies(approvals[k].requested, l) + Copies(given, l) <= 1
  BY DEF AskedOnce, Places
<1>. HIDE DEF given
<1>4. Copies(given, l) = 0
  <2>1. Copies(approvals[k].requested, l) \in Nat /\ Copies(given, l) \in Nat
    BY <1>1, <1>2, CopiesIs
  <2>. QED  BY <1>3, <2>1
<1>5. Places1(given, l) = {}
  BY <1>2, <1>4, CopiesIs, FS_EmptySet
<1>6. DOMAIN approvals[k].provided = 1..Len(approvals[k].provided)
  BY <1>1, LenProperties
<1>. QED  BY <1>2, <1>5, <1>6 DEF Standing, Places1

LEMMA AskedIsNotStandingNext ==
  (MsigInv /\ AskedOnce =>
     \A k \in DOMAIN approvals, l \in Levels :
       Copies(approvals[k].requested, l) > 0 => l \notin Standing(k))'
BY AskedIsNotStanding, PTL

(* Where no request lists a level twice, unapprove does what it says: the  *)
(* level no longer stands behind the proposal.  Repeated levels are all    *)
(* that lets a revoked approval count.                                     *)
THEOREM RevokedIfAskedOnce ==
  ASSUME RequestsAreSets
  PROVE  MsigSpec => RevokedIsGone
<1>1. MsigInit => AskedOnce
  BY DEF MsigInit, AskedOnce, EmptyTable
<1>2. MsigInv /\ AskedOnce /\ [MsigNext]_msigVars => AskedOnce'
  BY StaysAskedOnce
<1>3. MsigInv /\ MsigInv' /\ AskedOnce' =>
        [\A k \in DOMAIN approvals \cap DOMAIN approvals', l \in Levels :
           Copies(approvals'[k].requested, l) > Copies(approvals[k].requested, l)
             => l \notin Standing(k)']_msigVars
  <2>. SUFFICES ASSUME MsigInv, MsigInv', AskedOnce',
                       NEW k \in DOMAIN approvals \cap DOMAIN approvals', NEW l \in Levels,
                       Copies(approvals'[k].requested, l) > Copies(approvals[k].requested, l)
                PROVE  l \notin Standing(k)'
    OBVIOUS
  <2>1. /\ approvals[k].requested \in Seq(Levels)
        /\ approvals'[k].requested \in Seq(Levels)
    <3>1. approvals[k] \in Approvals /\ approvals'[k] \in Approvals
      BY DEF MsigInv, MsigTypeOK, IsTable
    <3>. QED  BY <3>1 DEF Approvals
  <2>2. /\ Copies(approvals[k].requested, l) \in Nat
        /\ Copies(approvals'[k].requested, l) \in Nat
    BY <2>1, CopiesIs
  <2>3. Copies(approvals'[k].requested, l) > 0
    BY <2>2
  <2>. QED  BY <2>3, AskedIsNotStandingNext
<1>. QED  BY <1>1, <1>2, <1>3, MsigInvInit, MsigStep, PTL DEF MsigSpec, RevokedIsGone

=============================================================================
