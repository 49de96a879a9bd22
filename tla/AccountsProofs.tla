---------------------------- MODULE AccountsProofs ----------------------------
(***************************************************************************)
(* Proofs about Accounts.  A new account only adds an empty row, so what   *)
(* holds of staking among accounts that are all there from the start still *)
(* holds while they come into being; and every action records something    *)
(* only for accounts it has made sure of.                                  *)
(***************************************************************************)
EXTENDS Accounts, StakingProofs, SequenceTheorems

USE NamesAssumption

-----------------------------------------------------------------------------
(* Names.                                                                  *)

LEMMA FunctionIsList ==
  ASSUME NEW S, NEW k \in Nat, NEW f \in [1..k -> S]
  PROVE  f \in Seq(S) /\ Len(f) = k
OBVIOUS

(* Comparing from the end.                                                 *)
LEMMA SuffixByIndex ==
  ASSUME NEW S, NEW s \in Seq(S), NEW t \in Seq(S), Len(s) <= Len(t),
         \A i \in 1..Len(s) : s[i] = t[Len(t) - Len(s) + i]
  PROVE  IsSuffix(s, t)
<1>. DEFINE r == Reverse(s)
            q == Reverse(t)
<1>0. Len(s) \in Nat /\ Len(t) \in Nat /\ (\A i \in 1..Len(s) : s[i] \in S)
      /\ (\A i \in 1..Len(t) : t[i] \in S)
  BY LenProperties, ElementOfSeq
<1>1. r = [i \in 1..Len(s) |-> s[Len(s) - i + 1]] /\ q = [i \in 1..Len(t) |-> t[Len(t) - i + 1]]
  BY DEF Reverse
<1>2. r \in [1..Len(s) -> S] /\ q \in [1..Len(t) -> S]
  BY <1>0, <1>1
<1>. HIDE DEF r, q
<1>3. r \in Seq(S) /\ Len(r) = Len(s) /\ q \in Seq(S) /\ Len(q) = Len(t)
  BY <1>0, <1>2, FunctionIsList
<1>4. \A i \in 1..Len(r) : r[i] \in S /\ r[i] = q[i]
  <2>. SUFFICES ASSUME NEW i \in 1..Len(s)
                PROVE  r[i] \in S /\ r[i] = q[i]
    BY <1>3
  <2>1. i \in 1..Len(t) /\ Len(s) - i + 1 \in 1..Len(s)
    BY <1>0
  <2>2. r[i] = s[Len(s) - i + 1] /\ q[i] = t[Len(t) - i + 1]
    BY <1>1, <2>1
  <2>3. s[Len(s) - i + 1] = t[Len(t) - Len(s) + (Len(s) - i + 1)]
    BY <2>1
  <2>4. Len(t) - Len(s) + (Len(s) - i + 1) = Len(t) - i + 1
    BY <1>0
  <2>. QED  BY <1>2, <2>2, <2>3, <2>4
<1>5. SubSeq(r, 1, Len(r)) = SubSeq(q, 1, Len(r))
  BY <1>0, <1>3, <1>4
<1>. QED  BY <1>0, <1>3, <1>5 DEF IsSuffix, IsPrefix, r, q

(* Where the text of a name ends.                                          *)
LastChar(n) == Max({0} \cup {i \in 1..NameLength : n[i] # 0})

LEMMA TextOf ==
  ASSUME NEW n \in Name
  PROVE  /\ LastChar(n) \in 0..NameLength
         /\ LastChar(n) # 0 => n[LastChar(n)] # 0
         /\ \A i \in 1..NameLength : n[i] # 0 => i <= LastChar(n)
         /\ Text(n) \in Seq(Nat) /\ Len(Text(n)) = LastChar(n)
         /\ \A i \in 1..LastChar(n) : Text(n)[i] = n[i] /\ n[i] \in Nat
<1>. DEFINE X == {0} \cup {i \in 1..NameLength : n[i] # 0}
<1>1. X \subseteq 0..NameLength /\ X \subseteq Int /\ X # {}
  OBVIOUS
<1>2. IsFiniteSet(X)
  <2>1. IsFiniteSet(0..NameLength)
    BY FS_Interval
  <2>. QED  BY <1>1, <2>1, FS_Subset
<1>3. LastChar(n) \in X /\ \A x \in X : x <= LastChar(n)
  <2>. HIDE DEF X
  <2>1. Max(X) \in X /\ \A x \in X : x <= Max(X)
    BY <1>1, <1>2, MaxIsLargest
  <2>. QED  BY <2>1 DEF X, LastChar
<1>. HIDE DEF X
<1>4. LastChar(n) \in 0..NameLength
  BY <1>1, <1>3
<1>5. Text(n) = SubSeq(n, 1, LastChar(n))
  BY DEF Text, LastChar
<1>6. \A i \in 1..LastChar(n) : n[i] \in Nat
  <2>1. \A i \in 1..NameLength : n[i] \in Nat
    BY DEF Name
  <2>2. 1..LastChar(n) \subseteq 1..NameLength
    BY <1>4
  <2>. QED  BY <2>1, <2>2
<1>7. /\ SubSeq(n, 1, LastChar(n)) \in Seq(Nat)
      /\ Len(SubSeq(n, 1, LastChar(n))) = IF 1 <= LastChar(n) THEN LastChar(n) - 1 + 1 ELSE 0
      /\ \A i \in 1..(LastChar(n) - 1 + 1) : SubSeq(n, 1, LastChar(n))[i] = n[1 + i - 1]
  <2>1. 1 \in Int /\ LastChar(n) \in Int
    BY <1>4
  <2>. QED  BY <1>6, <2>1, SubSeqProperties
<1>8. \A i \in 1..LastChar(n) : Text(n)[i] = n[i] /\ n[i] \in Nat
  <2>. TAKE i \in 1..LastChar(n)
  <2>1. i \in 1..(LastChar(n) - 1 + 1) /\ 1 + i - 1 = i
    BY <1>4
  <2>. QED  BY <1>5, <1>6, <1>7, <2>1
<1>9. Len(Text(n)) = LastChar(n)
  BY <1>4, <1>5, <1>7
<1>. QED  BY <1>3, <1>4, <1>5, <1>7, <1>8, <1>9 DEF X

(* A name without any dot is of full length.                               *)
LEMMA UndottedIsFull ==
  ASSUME NEW n \in Name, ~has_dot(n)
  PROVE  FullLength(n)
<1>1. \A i \in 1..NameLength : n[i] # 0
  BY DEF has_dot
<1>2. LastChar(n) = NameLength
  BY <1>1, TextOf
<1>3. Len(Text(n)) = NameLength /\ DOMAIN Text(n) = 1..NameLength
      /\ \A i \in 1..NameLength : Text(n)[i] # 0
  BY <1>1, <1>2, TextOf, LenProperties
<1>. QED  BY <1>3 DEF FullLength, Range

(* A dotted name that newaccount takes is its creator's behind a dot.      *)
LEMMA DottedIsUnder ==
  ASSUME NEW n \in Name, NEW c \in Name, has_dot(n), MayName(c, n)
  PROVE  UnderNameOf(n, c)
<1>. DEFINE D == ActualDots(n)
            d == Max(D)
            e == LastChar(n)
            m == e - d
<1>1. c = suffix(n) /\ D # {}
  BY DEF MayName, suffix
<1>2. d \in D /\ \A i \in D : i <= d
  <2>1. D \subseteq 1..NameLength /\ D \subseteq Int
    BY DEF ActualDots
  <2>2. IsFiniteSet(D)
    <3>1. IsFiniteSet(1..NameLength)
      BY FS_Interval
    <3>. QED  BY <2>1, <3>1, FS_Subset
  <2>. HIDE DEF D
  <2>. QED  BY <1>1, <2>1, <2>2, MaxIsLargest
<1>3. c = [i \in 1..NameLength |-> IF d + i <= NameLength THEN n[d + i] ELSE 0]
  BY <1>1 DEF suffix
<1>4. /\ e \in 0..NameLength /\ (e # 0 => n[e] # 0)
      /\ \A i \in 1..NameLength : n[i] # 0 => i <= e
      /\ Text(n) \in Seq(Nat) /\ Len(Text(n)) = e
      /\ \A i \in 1..e : Text(n)[i] = n[i]
  BY TextOf
<1>. HIDE DEF d, e
<1>5. d \in 1..NameLength /\ n[d] = 0 /\ d < e
  BY <1>2, <1>4 DEF ActualDots
<1>6. ASSUME NEW i \in (d + 1)..e
      PROVE  n[i] # 0
  <2>1. i \in 1..NameLength /\ e \in i..NameLength /\ n[e] # 0 /\ ~(i <= d)
    BY <1>4, <1>5
  <2>2. n[i] = 0 => i \in D
    BY <2>1 DEF ActualDots
  <2>. QED  BY <1>2, <2>1, <2>2
<1>. HIDE DEF D
<1>7. m \in 1..NameLength /\ d + m = e
  BY <1>4, <1>5
<1>. HIDE DEF m
<1>8. \A i \in 1..m : c[i] = n[d + i] /\ c[i] # 0
  <2>. TAKE i \in 1..m
  <2>1. i \in 1..NameLength /\ d + i <= NameLength /\ d + i \in (d + 1)..e
    BY <1>4, <1>5, <1>7
  <2>. QED  BY <1>3, <1>6, <2>1
<1>9. LastChar(c) = m
  <2>1. LastChar(c) \in 0..NameLength /\ (LastChar(c) # 0 => c[LastChar(c)] # 0)
        /\ m <= LastChar(c)
    <3>1. c[m] # 0
      BY <1>7, <1>8
    <3>. QED  BY <1>7, <3>1, TextOf
  <2>2. CASE LastChar(c) > m
    <3>1. LastChar(c) \in 1..NameLength /\ c[LastChar(c)] # 0
      BY <1>7, <2>1, <2>2
    <3>2. d + LastChar(c) <= NameLength /\ n[d + LastChar(c)] # 0
      BY <1>3, <3>1
    <3>3. d + LastChar(c) \in 1..NameLength
      BY <1>5, <3>1, <3>2
    <3>4. d + LastChar(c) <= e
      BY <1>4, <3>2, <3>3
    <3>. QED  BY <1>4, <1>5, <1>7, <2>2, <3>1, <3>4
  <2>. QED  BY <1>7, <2>1, <2>2
<1>10. /\ Text(c) \in Seq(Nat) /\ Len(Text(c)) = m /\ DOMAIN Text(c) = 1..m
       /\ \A i \in 1..m : Text(c)[i] = c[i]
  BY <1>9, TextOf, LenProperties
<1>11. 0 \notin Range(Text(c))
  BY <1>8, <1>10 DEF Range
<1>. DEFINE s == <<0>> \o Text(c)
<1>12. /\ s \in Seq(Nat) /\ Len(s) = m + 1 /\ s[1] = 0
       /\ \A i \in 2..(m + 1) : s[i] = Text(c)[i - 1]
  <2>1. <<0>> \in Seq(Nat) /\ Len(<<0>>) = 1 /\ <<0>>[1] = 0
    OBVIOUS
  <2>2. /\ s \in Seq(Nat) /\ Len(s) = 1 + m
        /\ \A i \in 1..(1 + m) : s[i] = IF i <= 1 THEN <<0>>[i] ELSE Text(c)[i - 1]
    BY <1>10, <2>1, ConcatProperties
  <2>. HIDE DEF s
  <2>3. s[1] = 0
    BY <1>7, <2>1, <2>2
  <2>. QED  BY <1>7, <2>2, <2>3
<1>. HIDE DEF s
<1>13. Len(s) <= Len(Text(n)) /\ \A i \in 1..Len(s) : s[i] = Text(n)[Len(Text(n)) - Len(s) + i]
  <2>1. Len(s) = m + 1 /\ Len(Text(n)) = d + m /\ m + 1 <= d + m
    BY <1>4, <1>5, <1>7, <1>12
  <2>2. ASSUME NEW i \in 1..(m + 1)
        PROVE  s[i] = Text(n)[d + m - (m + 1) + i]
    <3>1. d + m - (m + 1) + i = d - 1 + i /\ d - 1 + i \in 1..e
      BY <1>5, <1>7
    <3>2. Text(n)[d - 1 + i] = n[d - 1 + i]
      BY <1>4, <3>1
    <3>3. CASE i = 1
      BY <1>5, <1>12, <3>1, <3>2, <3>3
    <3>4. CASE i # 1
      <4>1. i \in 2..(m + 1) /\ i - 1 \in 1..m /\ d + (i - 1) = d - 1 + i
        BY <1>5, <1>7, <3>4
      <4>2. s[i] = c[i - 1]
        BY <1>10, <1>12, <4>1
      <4>3. c[i - 1] = n[d - 1 + i]
        BY <1>8, <4>1
      <4>. QED  BY <3>1, <3>2, <4>2, <4>3
    <3>. QED  BY <3>3, <3>4
  <2>3. 1..Len(s) = 1..(m + 1) /\ Len(Text(n)) - Len(s) = d + m - (m + 1)
    BY <1>5, <1>7, <2>1
  <2>. QED  BY <2>1, <2>2, <2>3
<1>14. IsSuffix(s, Text(n))
  BY <1>4, <1>12, <1>13, SuffixByIndex
<1>. QED  BY <1>11, <1>14 DEF UnderNameOf, s

(* And the other way: what ends in a dot and the creator's undotted name   *)
(* is taken.                                                               *)
LEMMA SuffixIndexed ==
  ASSUME NEW S, NEW s \in Seq(S), NEW t \in Seq(S), IsSuffix(s, t)
  PROVE  /\ Len(s) <= Len(t)
         /\ \A i \in 1..Len(s) : s[i] = t[Len(t) - Len(s) + i]
<1>. DEFINE r == Reverse(s)
            q == Reverse(t)
<1>0. Len(s) \in Nat /\ Len(t) \in Nat /\ (\A i \in 1..Len(s) : s[i] \in S)
      /\ (\A i \in 1..Len(t) : t[i] \in S)
  BY LenProperties, ElementOfSeq
<1>1. r = [i \in 1..Len(s) |-> s[Len(s) - i + 1]] /\ q = [i \in 1..Len(t) |-> t[Len(t) - i + 1]]
  BY DEF Reverse
<1>2. r \in [1..Len(s) -> S] /\ q \in [1..Len(t) -> S]
  BY <1>0, <1>1
<1>3. IsPrefix(r, q)
  BY DEF IsSuffix
<1>. HIDE DEF r, q
<1>4. r \in Seq(S) /\ Len(r) = Len(s) /\ q \in Seq(S) /\ Len(q) = Len(t)
  BY <1>0, <1>2, FunctionIsList
<1>5. Len(s) <= Len(t) /\ SubSeq(r, 1, Len(s)) = SubSeq(q, 1, Len(s))
  BY <1>3, <1>4 DEF IsPrefix
<1>6. ASSUME NEW i \in 1..Len(s)
      PROVE  s[i] = t[Len(t) - Len(s) + i]
  <2>. DEFINE j == Len(s) - i + 1
  <2>1. j \in 1..Len(s) /\ j \in 1..Len(t) /\ Len(s) - j + 1 = i
        /\ Len(t) - j + 1 = Len(t) - Len(s) + i
    BY <1>0, <1>5
  <2>. HIDE DEF j
  <2>2. SubSeq(r, 1, Len(s))[j] = r[j] /\ SubSeq(q, 1, Len(s))[j] = q[j]
    BY <1>0, <1>4, <1>5, <2>1
  <2>3. r[j] = s[Len(s) - j + 1] /\ q[j] = t[Len(t) - j + 1]
    BY <1>1, <2>1
  <2>. QED  BY <1>5, <2>1, <2>2, <2>3
<1>. QED  BY <1>5, <1>6

LEMMA UnderIsTaken ==
  ASSUME NEW n \in Name, NEW c \in Name, UnderNameOf(n, c)
  PROVE  MayName(c, n)
<1>. DEFINE D == ActualDots(n)
            e == LastChar(n)
            m == LastChar(c)
            d == e - m
            s == <<0>> \o Text(c)
<1>1. /\ e \in 0..NameLength /\ (e # 0 => n[e] # 0)
      /\ \A i \in 1..NameLength : n[i] # 0 => i <= e
      /\ Text(n) \in Seq(Nat) /\ Len(Text(n)) = e
      /\ \A i \in 1..e : Text(n)[i] = n[i]
  BY TextOf
<1>2. /\ m \in 0..NameLength /\ \A i \in 1..NameLength : c[i] # 0 => i <= m
      /\ Text(c) \in Seq(Nat) /\ Len(Text(c)) = m
      /\ \A i \in 1..m : Text(c)[i] = c[i]
  BY TextOf
<1>3. \A i \in 1..m : c[i] # 0
  <2>1. DOMAIN Text(c) = 1..m /\ 0 \notin Range(Text(c))
    BY <1>2, LenProperties DEF UnderNameOf
  <2>. QED  BY <1>2, <2>1 DEF Range
<1>. HIDE DEF e, m, D
<1>4. /\ s \in Seq(Nat) /\ Len(s) = m + 1 /\ s[1] = 0
      /\ \A i \in 1..m : s[i + 1] = Text(c)[i]
  <2>1. <<0>> \in Seq(Nat) /\ Len(<<0>>) = 1 /\ <<0>>[1] = 0
    OBVIOUS
  <2>2. /\ s \in Seq(Nat) /\ Len(s) = 1 + m
        /\ \A i \in 1..(1 + m) : s[i] = IF i <= 1 THEN <<0>>[i] ELSE Text(c)[i - 1]
    BY <1>2, <2>1, ConcatProperties
  <2>. HIDE DEF s
  <2>3. s[1] = 0
    BY <1>2, <2>1, <2>2
  <2>4. ASSUME NEW i \in 1..m
        PROVE  s[i + 1] = Text(c)[i]
    <3>1. i + 1 \in 1..(1 + m) /\ ~(i + 1 <= 1) /\ (i + 1) - 1 = i
      BY <1>2
    <3>. QED  BY <2>2, <3>1
  <2>. QED  BY <1>2, <2>2, <2>3, <2>4
<1>5. IsSuffix(s, Text(n))
  BY DEF UnderNameOf
<1>. HIDE DEF s
<1>6. /\ m + 1 <= e
      /\ \A i \in 1..(m + 1) : s[i] = Text(n)[d + (i - 1)]
  <2>1. Len(s) <= Len(Text(n)) /\ \A i \in 1..Len(s) : s[i] = Text(n)[Len(Text(n)) - Len(s) + i]
    <3>1. s \in Seq(Nat) /\ Text(n) \in Seq(Nat) /\ IsSuffix(s, Text(n))
      BY <1>1, <1>4, <1>5
    <3>. QED  BY ONLY <3>1, SuffixIndexed
  <2>2. ASSUME NEW i \in 1..(m + 1)
        PROVE  s[i] = Text(n)[d + (i - 1)]
    <3>1. e - (m + 1) + i = d + (i - 1)
      BY <1>1, <1>2
    <3>. QED  BY <1>1, <1>4, <2>1, <3>1
  <2>. QED  BY <1>1, <1>4, <2>1, <2>2
<1>7. d \in 1..e /\ d + m = e /\ d \in 1..NameLength
  BY <1>1, <1>2, <1>6
<1>. HIDE DEF d
<1>8. n[d] = 0
  <2>1. s[1] = Text(n)[d + (1 - 1)] /\ d + (1 - 1) = d
    BY <1>2, <1>6, <1>7
  <2>. QED  BY <1>1, <1>4, <1>7, <2>1
<1>9. \A i \in 1..m : n[d + i] = c[i]
  <2>. TAKE i \in 1..m
  <2>1. i + 1 \in 1..(m + 1) /\ d + ((i + 1) - 1) = d + i /\ d + i \in 1..e
    BY <1>2, <1>7
  <2>2. s[i + 1] = Text(n)[d + i]
    BY <1>6, <2>1
  <2>. QED  BY <1>1, <1>2, <1>4, <2>1, <2>2
<1>10. d \in D /\ \A i \in D : i <= d
  <2>1. e # 0 /\ n[e] # 0 /\ e \in d..NameLength
    BY <1>1, <1>7
  <2>2. d \in D
    BY <1>7, <1>8, <2>1 DEF D, ActualDots
  <2>3. ASSUME NEW i \in D, ~(i <= d)
        PROVE  FALSE
    <3>1. i \in 1..NameLength /\ n[i] = 0 /\ \E j \in i..NameLength : n[j] # 0
      BY DEF D, ActualDots
    <3>2. i <= e
      <4>1. PICK j \in i..NameLength : n[j] # 0
        BY <3>1
      <4>. QED  BY <1>1, <3>1, <4>1
    <3>3. i - d \in 1..m /\ d + (i - d) = i
      BY <1>1, <1>2, <1>7, <2>3, <3>1, <3>2
    <3>4. n[i] = c[i - d] /\ c[i - d] # 0
      BY <1>3, <1>9, <3>3
    <3>. QED  BY <3>1, <3>4
  <2>4. \A i \in D : i <= d
    BY <2>3
  <2>. QED  BY <2>2, <2>4
<1>11. Max(D) = d
  <2>1. D \subseteq 1..NameLength /\ D \subseteq Int
    BY DEF D, ActualDots
  <2>2. IsFiniteSet(D) /\ D # {}
    <3>1. IsFiniteSet(1..NameLength)
      BY FS_Interval
    <3>. QED  BY <1>10, <2>1, <3>1, FS_Subset
  <2>3. Max(D) \in D /\ d <= Max(D)
    BY <1>10, <2>1, <2>2, MaxIsLargest
  <2>4. Max(D) \in Int /\ d \in Int /\ Max(D) <= d
    BY <1>10, <2>1, <2>3
  <2>. QED  BY <2>3, <2>4
<1>12. suffix(n) = [i \in 1..NameLength |-> IF d + i <= NameLength THEN n[d + i] ELSE 0]
  <2>1. D # {}
    BY <1>10
  <2>. QED  BY <1>11, <2>1 DEF suffix, D
<1>13. c = suffix(n)
  <2>1. ASSUME NEW i \in 1..NameLength
        PROVE  c[i] = (IF d + i <= NameLength THEN n[d + i] ELSE 0)
    <3>1. CASE i <= m
      <4>1. i \in 1..m /\ d + i <= NameLength
        BY <1>1, <1>2, <1>7, <3>1
      <4>. QED  BY <1>9, <4>1
    <3>2. CASE i > m
      <4>1. c[i] = 0
        BY <1>2, <3>2
      <4>2. CASE d + i <= NameLength
        <5>1. d + i \in 1..NameLength /\ ~(d + i <= e)
          BY <1>1, <1>2, <1>7, <3>2, <4>2
        <5>. QED  BY <1>1, <4>1, <4>2, <5>1
      <4>. QED  BY <4>1, <4>2
    <3>. QED  BY <1>2, <3>1, <3>2
  <2>2. c \in [1..NameLength -> Nat]
    BY DEF Name
  <2>. QED  BY <1>12, <2>1, <2>2
<1>14. c # n
  <2>1. CASE c = n
    <3>1. n[e] # 0 /\ e \in 1..NameLength
      BY <1>1, <1>7
    <3>. QED  BY <1>1, <1>2, <1>6, <2>1, <3>1
  <2>. QED  BY <2>1
<1>. QED  BY <1>13, <1>14 DEF MayName

(* The naming rule newaccount computes, from the last dot of the name, is  *)
(* the one its comment states, on names of any length.                     *)
THEOREM NamingRuleIsExact ==
  ASSUME NEW n \in Name, NEW c \in Name
  PROVE  MayName(c, n) <=> FullLength(n) \/ UnderNameOf(n, c)
<1>1. MayName(c, n) => FullLength(n) \/ UnderNameOf(n, c)
  BY UndottedIsFull, DottedIsUnder
<1>2. ASSUME FullLength(n)
      PROVE  MayName(c, n)
  <2>1. /\ Text(n) \in Seq(Nat) /\ Len(Text(n)) = NameLength
        /\ \A i \in 1..NameLength : Text(n)[i] = n[i]
    BY <1>2, TextOf DEF FullLength
  <2>2. DOMAIN Text(n) = 1..NameLength /\ 0 \notin Range(Text(n))
    BY <1>2, <2>1, LenProperties DEF FullLength
  <2>. QED  BY <2>1, <2>2 DEF MayName, has_dot, Range
<1>. QED  BY <1>1, <1>2, UnderIsTaken

-----------------------------------------------------------------------------
USE VotingAssumption, StakingAssumption, AccountsAssumption

-----------------------------------------------------------------------------
(* Staking goes on as before.                                              *)

SymbolTablesOK ==
  /\ userresSymbol \in [DOMAIN userres -> Issued]
  /\ delbandSymbol \in [DOMAIN delband -> Issued]
  /\ refundSymbol \in [DOMAIN refunds -> Issued]

(* The tokens an account holds, whatever their symbols.                    *)
HeldBy(a) == SumFunctionOnSet([s \in Issued |-> held[<<a, s>>]], Issued)

BooksOK ==
  /\ held \in [Accounts \X Issued -> Nat]
  /\ \A a \in Accounts : balance[a] = HeldBy(a)

FeeOK(fee) ==
  /\ fee \in [symbol: Issued \cup {NoSymbol}, amount: Nat]
  /\ fee.amount > 0 => fee.symbol \in Issued

SinglesOK ==
  /\ IsTable(madeBy, Accounts \ Founders, Accounts)
  /\ core_symbol \in Issued \cup {NoSymbol}
  /\ FeeOK(account_creation_fee)

AccountTablesOK ==
  /\ SinglesOK
  /\ SymbolTablesOK
  /\ BooksOK

(* Whoever stakes or unstakes runs changebw, in the core symbol.           *)
LEMMA StakeFromIsChange ==
  ASSUME NEW from \in Signers, NEW r \in Receivers, StakeFrom(from, r)
  PROVE  /\ Known(from, r)
         /\ \E d \in Int, t \in BOOLEAN :
              /\ d # 0 /\ (d < 0 => ~t)
              /\ changebw(from, r, d, t) /\ InCoreSymbol(from, r, d, t)
<1>1. Known(from, r)
  BY DEF StakeFrom
<1>2. ASSUME NEW q \in Quantities, NEW t \in BOOLEAN,
             delegatebw(from, r, q, t) \/ dlgtcpu(from, r, q, t), InCoreSymbol(from, r, q, t)
      PROVE  /\ q \in Int /\ q > 0
             /\ changebw(from, r, q, t) /\ InCoreSymbol(from, r, q, t)
  BY <1>2 DEF dlgtcpu, delegatebw
<1>3. ASSUME NEW q \in Quantities,
             undelegatebw(from, r, q) \/ undlgtcpu(from, r, q), InCoreSymbol(from, r, 0 - q, FALSE)
      PROVE  \E d \in Int :
               d < 0 /\ changebw(from, r, d, FALSE) /\ InCoreSymbol(from, r, d, FALSE)
  <2>. DEFINE d == 0 - q
  <2>1. d \in Int /\ d < 0
    OBVIOUS
  <2>2. changebw(from, r, d, FALSE) /\ InCoreSymbol(from, r, d, FALSE)
    BY <1>3 DEF undlgtcpu, undelegatebw
  <2>. HIDE DEF d
  <2>. QED  BY <2>1, <2>2
<1>4. \E q \in Quantities :
        \/ \E t \in BOOLEAN :
             /\ delegatebw(from, r, q, t) \/ dlgtcpu(from, r, q, t)
             /\ InCoreSymbol(from, r, q, t)
        \/ /\ undelegatebw(from, r, q) \/ undlgtcpu(from, r, q)
           /\ InCoreSymbol(from, r, 0 - q, FALSE)
  BY DEF StakeFrom
<1>5. CASE \E q \in Quantities, t \in BOOLEAN :
             q \in Int /\ q > 0 /\ changebw(from, r, q, t) /\ InCoreSymbol(from, r, q, t)
  BY <1>1, <1>5
<1>6. CASE \E d \in Int :
             d < 0 /\ changebw(from, r, d, FALSE) /\ InCoreSymbol(from, r, d, FALSE)
  <2>1. PICK d \in Int : d < 0 /\ changebw(from, r, d, FALSE) /\ InCoreSymbol(from, r, d, FALSE)
    BY <1>6
  <2>2. d # 0 /\ FALSE \in BOOLEAN
    BY <2>1
  <2>. QED  BY <1>1, <2>1, <2>2
<1>7. \/ \E q \in Quantities, t \in BOOLEAN :
              q \in Int /\ q > 0 /\ changebw(from, r, q, t) /\ InCoreSymbol(from, r, q, t)
      \/ \E d \in Int :
             d < 0 /\ changebw(from, r, d, FALSE) /\ InCoreSymbol(from, r, d, FALSE)
  BY <1>2, <1>3, <1>4
<1>. QED  BY <1>5, <1>6, <1>7

LEMMA StakeFromIsStaking ==
  ASSUME NEW from \in Signers, NEW r \in Receivers, StakeFrom(from, r)
  PROVE  StakingNext
<1>1. r \in Accounts
  OBVIOUS
<1>2. \E q \in Quantities :
        \/ \E t \in BOOLEAN : delegatebw(from, r, q, t) \/ dlgtcpu(from, r, q, t)
        \/ undelegatebw(from, r, q) \/ undlgtcpu(from, r, q)
  BY DEF StakeFrom
<1>. QED  BY <1>1, <1>2 DEF StakingNext, StakingActions

LEMMA OtherIsStaking ==
  ASSUME OtherSteps
  PROVE  StakingNext
<1>1. Receivers \subseteq Accounts
  OBVIOUS
<1>. QED  BY <1>1 DEF OtherSteps, StakingNext, StakingActions

LEMMA PayFeeType ==
  ASSUME AccountTablesOK, balance \in [Accounts -> Nat], NEW c \in Accounts, PayFee(c)
  PROVE  /\ balance' \in [Accounts -> Nat]
         /\ \A x \in Accounts \ {c, SavingAccount} : balance'[x] = balance[x]
<1>. DEFINE n == account_creation_fee.amount
<1>1. n \in Nat /\ SavingAccount \in Accounts /\ c # SavingAccount
  BY DEF AccountTablesOK, SinglesOK, FeeOK, PayFee
<1>2. Paid(c, SavingAccount, n)
  BY DEF PayFee
<1>. HIDE DEF n
<1>. QED  BY <1>1, <1>2, PaidType DEF Paid

LEMMA NewAccountEffect ==
  ASSUME AccountTablesOK, balance \in [Accounts -> Nat],
         NEW c \in Accounts, NEW a \in Accounts, newaccount(c, a)
  PROVE  /\ balance' \in [Accounts -> Nat]
         /\ \A x \in Accounts \ {c, SavingAccount} : balance'[x] = balance[x]
         /\ a \notin DOMAIN userres
         /\ userres' = Upsert(userres, a, 0)
         /\ cpuLimit' = [cpuLimit EXCEPT ![a] = 0]
         /\ core_symbol # NoSymbol
         /\ madeBy' = Upsert(madeBy, a, c)
         /\ UNCHANGED <<core_symbol, account_creation_fee, delband, refunds, deferred, votingVars>>
<1>1. PayFee(c) \/ UNCHANGED balance
  BY DEF newaccount
<1>. QED  BY <1>1, PayFeeType DEF newaccount

LEMMA NewAccountKeepsStaking ==
  ASSUME StakingInv, AccountTablesOK,
         NEW c \in Accounts, NEW a \in Accounts, newaccount(c, a)
  PROVE  StakingInv'
<1>1. VotingTypeOK /\ StakeTypeOK /\ VotingInv /\ LimitFollowsTotal
      /\ VotingPowerIsStake /\ TotalsAreDelegations
  BY StakingTypeSplit DEF StakingInv
<1>2. balance \in [Accounts -> Nat]
  BY <1>1 DEF StakeTypeOK
<1>3. /\ balance' \in [Accounts -> Nat] /\ a \notin DOMAIN userres
      /\ userres' = Upsert(userres, a, 0) /\ cpuLimit' = [cpuLimit EXCEPT ![a] = 0]
      /\ UNCHANGED <<delband, refunds, deferred, votingVars>>
  BY <1>2, NewAccountEffect
<1>4. VotingInv' /\ VotingTypeOK'
  BY <1>1, <1>3, VotingInvStep, VotingTypeStep
<1>5. IsTable(userres', Accounts, Nat) /\ cpuLimit' \in [Accounts -> Int]
  BY <1>1, <1>3, UpsertTable DEF StakeTypeOK
<1>6. StakeTypeOK'
  BY <1>1, <1>3, <1>5 DEF StakeTypeOK, RefundsOK
<1>7. \A x \in Accounts : AmountAt(userres', x) = AmountAt(userres, x)
  BY <1>3 DEF AmountAt, Upsert
<1>8. \A x, y : Delegated(x, y)' = Delegated(x, y)
  BY <1>3 DEF Delegated
<1>9. \A x : DelegatedBy(x)' = DelegatedBy(x) /\ DelegatedTo(x)' = DelegatedTo(x)
  BY <1>8 DEF DelegatedBy, DelegatedTo
<1>10. \A x : StakedBy(x)' = StakedBy(x)
  BY <1>3 DEF votingVars, StakedBy, VoterRow
<1>11. VotingPowerIsStake' /\ TotalsAreDelegations'
  BY <1>1, <1>7, <1>9, <1>10 DEF VotingPowerIsStake, TotalsAreDelegations
<1>12. LimitFollowsTotal'
  <2>1. DOMAIN userres' = DOMAIN userres \cup {a} /\ userres'[a] = 0
        /\ \A x \in DOMAIN userres : userres'[x] = userres[x]
    BY <1>3 DEF Upsert
  <2>2. cpuLimit'[a] = 0 /\ \A x \in DOMAIN userres : cpuLimit'[x] = cpuLimit[x]
    BY <1>1, <1>3 DEF StakeTypeOK, IsTable
  <2>. QED  BY <1>1, <2>1, <2>2 DEF LimitFollowsTotal
<1>. QED  BY <1>4, <1>6, <1>11, <1>12, StakingTypeSplit
          DEF StakingInv, StakingTypeOK, StakeTypeOK, RefundsOK

LEMMA StakingGoesOn ==
  ASSUME StakingInv, AccountTablesOK, [AccountsNext]_accountsVars
  PROVE  StakingInv'
<1>1. ASSUME StakingNext \/ UNCHANGED stakingVars
      PROVE  StakingInv'
  BY <1>1, StakingInvStep
<1>2. ASSUME NEW c \in Creators, NEW a \in Accounts, newaccount(c, a)
      PROVE  StakingInv'
  <2>1. c \in Accounts
    OBVIOUS
  <2>. QED  BY <1>2, <2>1, NewAccountKeepsStaking
<1>3. ASSUME \/ \E s \in Symbols : init(s)
             \/ \E s \in Symbols, n \in FeeAmounts : setacntfee(s, n)
             \/ UNCHANGED accountsVars
      PROVE  UNCHANGED stakingVars
  BY <1>3 DEF init, setacntfee, accountsVars
<1>. QED  BY <1>1, <1>2, <1>3, StakeFromIsStaking, OtherIsStaking
          DEF AccountsNext, AccountsActions

-----------------------------------------------------------------------------
(* The tokens.  Every step that changes a balance moves tokens of one kind *)
(* from one account to another.                                            *)
TokensMoved ==
  \E s \in Issued, x, y \in Accounts, n \in Nat :
    x # y /\ Moved(s, x, y, n) /\ Paid(x, y, n)

(* A payment of changebw is in the core symbol.                            *)
LEMMA ChangeMoves ==
  ASSUME AccountTablesOK, NEW from \in Accounts, NEW r \in Accounts, NEW d \in Int,
         NEW t \in BOOLEAN, changebw(from, r, d, t), InCoreSymbol(from, r, d, t)
  PROVE  LET charge == Charge(IF t THEN r ELSE from, r, d, t)
         IN  /\ core_symbol \in Issued
             /\ \/ /\ UNCHANGED <<held, balance>>
                   /\ from = StakeAccount \/ charge = 0
                \/ /\ from # StakeAccount /\ charge > 0 /\ charge \in Nat
                   /\ Moved(core_symbol, from, StakeAccount, charge)
                   /\ Paid(from, StakeAccount, charge)
<1>. DEFINE charge == Charge(IF t THEN r ELSE from, r, d, t)
<1>1. charge \in Nat
  BY ChargeType
<1>2. core_symbol \in Issued
  BY DEF InCoreSymbol, AccountTablesOK, SinglesOK, FeeOK
<1>3. CASE from = StakeAccount
  BY <1>2, <1>3 DEF changebw, InCoreSymbol
<1>4. CASE from # StakeAccount
  BY <1>1, <1>2, <1>4 DEF changebw, InCoreSymbol
<1>. QED  BY <1>3, <1>4

LEMMA RefundMovesTokens ==
  ASSUME StakingTypeOK, AccountTablesOK, NEW a \in Accounts, refund(a), PaysBack(a)
  PROVE  TokensMoved
<1>1. a \in DOMAIN refunds /\ a # StakeAccount /\ Paid(StakeAccount, a, refunds[a].cpu_amount)
  BY DEF refund
<1>2. refunds[a].cpu_amount \in Nat
  BY <1>1 DEF StakingTypeOK, IsTable, Refund
<1>3. refundSymbol[a] \in Issued
  BY <1>1 DEF AccountTablesOK, SymbolTablesOK
<1>. QED  BY <1>1, <1>2, <1>3 DEF TokensMoved, PaysBack

LEMMA FeeMovesTokens ==
  ASSUME AccountTablesOK, NEW c \in Accounts, NEW a \in Accounts, newaccount(c, a)
  PROVE  UNCHANGED <<held, balance>> \/ TokensMoved
<1>. DEFINE n == account_creation_fee.amount
            s == account_creation_fee.symbol
<1>1. CASE UNCHANGED <<held, balance>>
  BY <1>1
<1>2. CASE PayFee(c)
  <2>1. n > 0 /\ n \in Nat /\ s \in Issued /\ c # SavingAccount /\ SavingAccount \in Accounts
    BY <1>2 DEF PayFee, AccountTablesOK, SinglesOK, FeeOK
  <2>2. Moved(s, c, SavingAccount, n) /\ Paid(c, SavingAccount, n)
    BY <1>2 DEF PayFee
  <2>. HIDE DEF n, s
  <2>. QED  BY <2>1, <2>2 DEF TokensMoved
<1>. QED  BY <1>1, <1>2 DEF newaccount

(* A deferred refund that is run is paid in its token or does nothing.     *)
LEMMA DeferredPays ==
  ASSUME NEW a, RunDeferred(a), IF refunds' = refunds THEN UNCHANGED held ELSE PaysBack(a)
  PROVE  (refund(a) /\ PaysBack(a)) \/ UNCHANGED <<refunds, held, balance>>
<1>1. CASE refund(a)
  <2>1. a \in DOMAIN refunds /\ refunds' = Erase(refunds, a)
    BY <1>1 DEF refund
  <2>2. refunds' # refunds
    BY <2>1 DEF Erase
  <2>. QED  BY <1>1, <2>2
<1>2. CASE UNCHANGED <<refunds, balance>>
  BY <1>2
<1>. QED  BY <1>1, <1>2 DEF RunDeferred

LEMMA HeldCases ==
  ASSUME StakingTypeOK, AccountTablesOK, [AccountsNext]_accountsVars
  PROVE  UNCHANGED <<held, balance>> \/ TokensMoved
<1>1. ASSUME \/ \E s \in Symbols : init(s)
             \/ \E s \in Symbols, n \in FeeAmounts : setacntfee(s, n)
             \/ UNCHANGED accountsVars
      PROVE  UNCHANGED <<held, balance>>
  BY <1>1 DEF init, setacntfee, accountsVars, stakingVars, stakeVars
<1>2. ASSUME NEW c \in Creators, NEW a \in Accounts, newaccount(c, a)
      PROVE  UNCHANGED <<held, balance>> \/ TokensMoved
  <2>1. c \in Accounts
    OBVIOUS
  <2>. QED  BY <1>2, <2>1, FeeMovesTokens
<1>3. ASSUME NEW from \in Signers, NEW r \in Receivers, StakeFrom(from, r)
      PROVE  UNCHANGED <<held, balance>> \/ TokensMoved
  <2>1. PICK d \in Int, t \in BOOLEAN : changebw(from, r, d, t) /\ InCoreSymbol(from, r, d, t)
    BY <1>3, StakeFromIsChange
  <2>2. from \in Accounts /\ r \in Accounts /\ StakeAccount \in Accounts
    OBVIOUS
  <2>. QED  BY <2>1, <2>2, ChangeMoves DEF TokensMoved
<1>4. CASE OtherSteps
  <2>1. ASSUME NEW a \in Accounts, RefundByOwner(a), PaysBack(a)
        PROVE  TokensMoved
    BY <2>1, RefundMovesTokens DEF RefundByOwner
  <2>2. ASSUME NEW a \in Accounts, RunDeferred(a),
               IF refunds' = refunds THEN UNCHANGED held ELSE PaysBack(a)
        PROVE  UNCHANGED <<held, balance>> \/ TokensMoved
    BY <2>2, DeferredPays, RefundMovesTokens
  <2>3. ASSUME NEW a, NEW l, setalimits(a, l), UNCHANGED held
        PROVE  UNCHANGED <<held, balance>>
    BY <2>3 DEF setalimits
  <2>4. ASSUME NEW from \in Signers, NEW to \in Receivers, NEW q \in Quantities, NEW s \in Issued,
               TokenTransfer(from, to, q), Moved(s, from, to, q)
        PROVE  TokensMoved
    <3>1. from \in Accounts /\ to \in Accounts /\ q \in Nat
      OBVIOUS
    <3>. QED  BY <2>4, <3>1 DEF TokenTransfer, TokensMoved
  <2>5. CASE UNCHANGED <<stakeVars, held>>
    BY <2>5 DEF stakeVars
  <2>6. Signers \subseteq Accounts
    OBVIOUS
  <2>. QED  BY <1>4, <2>1, <2>2, <2>3, <2>4, <2>5, <2>6 DEF OtherSteps
<1>. QED  BY <1>1, <1>2, <1>3, <1>4 DEF AccountsNext, AccountsActions

(* What a move does to every balance of every token.                       *)
LEMMA MovedTokens ==
  ASSUME held \in [Accounts \X Issued -> Nat], NEW s \in Issued,
         NEW x \in Accounts, NEW y \in Accounts, x # y, NEW n \in Nat, Moved(s, x, y, n)
  PROVE  /\ held' \in [Accounts \X Issued -> Nat] /\ n <= held[<<x, s>>]
         /\ \A a \in Accounts, z \in Issued :
              held'[<<a, z>>] = IF z # s THEN held[<<a, z>>]
                                ELSE IF a = x THEN held[<<a, z>>] - n
                                ELSE IF a = y THEN held[<<a, z>>] + n
                                ELSE held[<<a, z>>]
<1>. DEFINE S == Accounts \X Issued
            j == <<x, s>>
            k == <<y, s>>
<1>1. j \in S /\ k \in S /\ j # k
  OBVIOUS
<1>2. held \in [S -> Nat] /\ held[j] >= n /\ held' = [held EXCEPT ![j] = @ - n, ![k] = @ + n]
  BY DEF Moved
<1>3. \A a \in Accounts, z \in Issued :
        /\ <<a, z>> \in S
        /\ <<a, z>> = j <=> a = x /\ z = s
        /\ <<a, z>> = k <=> a = y /\ z = s
  OBVIOUS
<1>. HIDE DEF S, j, k
<1>4. held[j] \in Nat /\ held[k] \in Nat
  BY <1>1, <1>2
<1>5. held' \in [S -> Nat]
  BY <1>1, <1>2, <1>4
<1>6. \A i \in S : held'[i] = IF i = j THEN held[i] - n ELSE IF i = k THEN held[i] + n ELSE held[i]
  BY <1>1, <1>2, <1>4
<1>7. ASSUME NEW a \in Accounts, NEW z \in Issued
      PROVE  held'[<<a, z>>] = IF z # s THEN held[<<a, z>>]
                               ELSE IF a = x THEN held[<<a, z>>] - n
                               ELSE IF a = y THEN held[<<a, z>>] + n
                               ELSE held[<<a, z>>]
  <2>. DEFINE i == <<a, z>>
  <2>1. i \in S /\ (i = j <=> a = x /\ z = s) /\ (i = k <=> a = y /\ z = s)
    BY <1>3
  <2>. HIDE DEF i
  <2>2. held'[i] = IF i = j THEN held[i] - n ELSE IF i = k THEN held[i] + n ELSE held[i]
    BY <1>6, <2>1
  <2>3. held'[i] = IF z # s THEN held[i]
                   ELSE IF a = x THEN held[i] - n ELSE IF a = y THEN held[i] + n ELSE held[i]
    BY <2>1, <2>2
  <2>. QED  BY <2>3 DEF i
<1>8. held' \in [Accounts \X Issued -> Nat] /\ n <= held[<<x, s>>]
  BY <1>2, <1>4, <1>5 DEF S, j
<1>. QED  BY <1>7, <1>8

LEMMA MovedKeepsBooks ==
  ASSUME BooksOK, balance \in [Accounts -> Nat], TokensMoved
  PROVE  BooksOK'
<1>1. PICK s \in Issued, x \in Accounts, y \in Accounts, n \in Nat :
        x # y /\ Moved(s, x, y, n) /\ Paid(x, y, n)
  BY DEF TokensMoved
<1>2. /\ held \in [Accounts \X Issued -> Nat] /\ held' \in [Accounts \X Issued -> Nat]
      /\ \A a \in Accounts, z \in Issued :
           held'[<<a, z>>] = IF z # s THEN held[<<a, z>>]
                             ELSE IF a = x THEN held[<<a, z>>] - n
                             ELSE IF a = y THEN held[<<a, z>>] + n
                             ELSE held[<<a, z>>]
  <2>1. /\ held \in [Accounts \X Issued -> Nat] /\ s \in Issued
        /\ x \in Accounts /\ y \in Accounts /\ x # y /\ n \in Nat /\ Moved(s, x, y, n)
    BY <1>1 DEF BooksOK
  <2>2. /\ held' \in [Accounts \X Issued -> Nat] /\ n <= held[<<x, s>>]
        /\ \A a \in Accounts, z \in Issued :
             held'[<<a, z>>] = IF z # s THEN held[<<a, z>>]
                               ELSE IF a = x THEN held[<<a, z>>] - n
                               ELSE IF a = y THEN held[<<a, z>>] + n
                               ELSE held[<<a, z>>]
    BY ONLY <2>1, MovedTokens, VotingAssumption, StakingAssumption, AccountsAssumption
  <2>. QED  BY ONLY <2>1, <2>2
<1>3. \A a \in Accounts :
        balance'[a] = IF a = x THEN balance[a] - n
                      ELSE IF a = y THEN balance[a] + n ELSE balance[a]
  BY <1>1 DEF Paid
<1>4. ASSUME NEW a \in Accounts
      PROVE  balance'[a] = HeldBy(a)'
  <2>. DEFINE f == [z \in Issued |-> held[<<a, z>>]]
              g == [z \in Issued |-> held'[<<a, z>>]]
  <2>1. /\ \A z \in Issued : f[z] \in Int /\ g[z] \in Int
        /\ \A z \in Issued \ {s} : f[z] = g[z]
        /\ f[s] = held[<<a, s>>] /\ g[s] = held'[<<a, s>>]
    <3>1. \A z \in Issued : held[<<a, z>>] \in Int /\ held'[<<a, z>>] \in Int
      BY <1>2
    <3>. QED  BY <1>2, <3>1
  <2>2. balance[a] = SumFunctionOnSet(f, Issued) /\ HeldBy(a)' = SumFunctionOnSet(g, Issued)
    BY DEF BooksOK, HeldBy
  <2>. HIDE DEF f, g
  <2>3. SumFunctionOnSet(g, Issued) = SumFunctionOnSet(f, Issued) + g[s] - f[s]
    <3>1. /\ IsFiniteSet(Issued) /\ s \in Issued
          /\ \A z \in Issued : f[z] \in Int /\ g[z] \in Int
          /\ \A z \in Issued \ {s} : f[z] = g[z]
      BY <2>1
    <3>. QED  BY ONLY <3>1, SumUpdate
  <2>4. balance[a] \in Nat /\ f[s] \in Int /\ g[s] \in Int
    BY <2>1
  <2>5. g[s] = IF a = x THEN f[s] - n ELSE IF a = y THEN f[s] + n ELSE f[s]
    BY <1>2, <2>1
  <2>. QED  BY <1>3, <2>2, <2>3, <2>4, <2>5
<1>. QED  BY <1>2, <1>4 DEF BooksOK

-----------------------------------------------------------------------------
(* The new tables.                                                         *)

(* Rows keep their symbols, and a new one is in the core symbol.           *)
LEMMA TaggedType ==
  ASSUME NEW symbols, NEW rows, NEW after, symbols \in [DOMAIN rows -> Issued],
         core_symbol \in Issued \/ DOMAIN after \subseteq DOMAIN rows
  PROVE  Tagged(symbols, after) \in [DOMAIN after -> Issued]
BY DEF Tagged

LEMMA TaggedSame ==
  ASSUME NEW symbols, NEW rows, symbols \in [DOMAIN rows -> Issued]
  PROVE  Tagged(symbols, rows) = symbols
BY DEF Tagged

(* Rows appear only when there is a core symbol.                           *)
LEMMA RowsAppear ==
  ASSUME AccountTablesOK, [AccountsNext]_accountsVars
  PROVE  \/ core_symbol \in Issued
         \/ /\ DOMAIN userres' \subseteq DOMAIN userres
            /\ DOMAIN delband' \subseteq DOMAIN delband
            /\ DOMAIN refunds' \subseteq DOMAIN refunds
<1>1. ASSUME \/ \E s \in Symbols : init(s)
             \/ \E s \in Symbols, n \in FeeAmounts : setacntfee(s, n)
             \/ UNCHANGED accountsVars
      PROVE  UNCHANGED <<userres, delband, refunds>>
  BY <1>1 DEF init, setacntfee, accountsVars, stakingVars, stakeVars
<1>2. ASSUME NEW c \in Creators, NEW a \in Accounts, newaccount(c, a)
      PROVE  core_symbol \in Issued
  BY <1>2 DEF newaccount, AccountTablesOK, SinglesOK, FeeOK
<1>3. ASSUME NEW from \in Signers, NEW r \in Receivers, StakeFrom(from, r)
      PROVE  core_symbol \in Issued
  BY <1>3, StakeFromIsChange DEF InCoreSymbol, AccountTablesOK, SinglesOK, FeeOK
<1>4. ASSUME OtherSteps
      PROVE  /\ userres' = userres /\ delband' = delband
             /\ DOMAIN refunds' \subseteq DOMAIN refunds
  <2>1. UNCHANGED <<userres, delband>>
    BY <1>4 DEF OtherSteps, RefundByOwner, RunDeferred, setalimits, TokenTransfer, stakeVars
  <2>2. refunds' = refunds \/ \E a : refunds' = Erase(refunds, a)
    BY <1>4 DEF OtherSteps, RefundByOwner, RunDeferred, refund, setalimits, TokenTransfer, stakeVars
  <2>. QED  BY <2>1, <2>2 DEF Erase
<1>. QED  BY <1>1, <1>2, <1>3, <1>4 DEF AccountsNext, AccountsActions

LEMMA SymbolTablesStep ==
  ASSUME AccountTablesOK, [AccountsNext]_accountsVars
  PROVE  SymbolTablesOK'
<1>1. CASE UNCHANGED accountsVars
  BY <1>1 DEF accountsVars, symbolVars, stakingVars, stakeVars, AccountTablesOK, SymbolTablesOK
<1>2. CASE RowsTagged
  BY <1>2, RowsAppear, TaggedType DEF RowsTagged, AccountTablesOK, SymbolTablesOK
<1>. QED  BY <1>1, <1>2 DEF AccountsNext

LEMMA TablesStep ==
  ASSUME StakingInv, AccountTablesOK, [AccountsNext]_accountsVars
  PROVE  AccountTablesOK'
<1>0. SinglesOK
  BY DEF AccountTablesOK
<1>1. BooksOK'
  <2>1. StakingTypeOK /\ balance \in [Accounts -> Nat] /\ BooksOK
    BY DEF StakingInv, StakingTypeOK, AccountTablesOK
  <2>2. CASE UNCHANGED <<held, balance>>
    BY <2>1, <2>2 DEF BooksOK, HeldBy
  <2>. QED  BY <2>1, <2>2, HeldCases, MovedKeepsBooks
<1>2. SymbolTablesOK'
  BY SymbolTablesStep
<1>3. ASSUME UNCHANGED accountVars
      PROVE  SinglesOK'
  <2>1. UNCHANGED <<madeBy, core_symbol, account_creation_fee>>
    BY <1>3 DEF accountVars
  <2>. QED  BY <1>0, <2>1 DEF SinglesOK
<1>4. ASSUME NEW s \in Symbols, init(s)
      PROVE  SinglesOK'
  BY <1>0, <1>4 DEF init, SinglesOK
<1>5. ASSUME NEW s \in Symbols, NEW n \in FeeAmounts, setacntfee(s, n)
      PROVE  SinglesOK'
  <2>1. n \in Nat /\ s \in Issued
    <3>1. s \in Symbols /\ NoSymbol \notin Symbols /\ n \in Int
      OBVIOUS
    <3>. QED  BY <1>0, <1>5, <3>1 DEF setacntfee, SinglesOK
  <2>2. account_creation_fee' = [symbol |-> s, amount |-> n]
        /\ UNCHANGED <<madeBy, core_symbol>>
    BY <1>5 DEF setacntfee
  <2>3. FeeOK([symbol |-> s, amount |-> n])
    BY <2>1 DEF FeeOK
  <2>. QED  BY <1>0, <2>2, <2>3 DEF SinglesOK
<1>6. ASSUME NEW c \in Creators, NEW a \in Accounts, ~Exists(a), newaccount(c, a)
      PROVE  SinglesOK'
  <2>1. c \in Accounts /\ a \in Accounts \ Founders
    BY <1>6 DEF Exists
  <2>2. madeBy' = Upsert(madeBy, a, c) /\ UNCHANGED <<core_symbol, account_creation_fee>>
    BY <1>6 DEF newaccount
  <2>3. IsTable(madeBy', Accounts \ Founders, Accounts)
    BY <1>0, <2>1, <2>2, UpsertTable DEF SinglesOK
  <2>. QED  BY <1>0, <2>2, <2>3 DEF SinglesOK
<1>7. SinglesOK'
  <2>1. UNCHANGED accountsVars => UNCHANGED accountVars
    BY DEF accountsVars
  <2>. QED  BY <1>3, <1>4, <1>5, <1>6, <2>1 DEF AccountsNext, AccountsActions
<1>. QED  BY <1>1, <1>2, <1>7 DEF AccountTablesOK

-----------------------------------------------------------------------------
(* One token.                                                              *)

(* Whoever is delegated to has a row of totals.                            *)
LEMMA DelegatedHasTotal ==
  StakingInv => \A f, t \in Accounts : <<f, t>> \in DOMAIN delband => t \in DOMAIN userres
<1>. SUFFICES ASSUME StakingInv, NEW f \in Accounts, NEW t \in Accounts,
                     <<f, t>> \in DOMAIN delband, t \notin DOMAIN userres
              PROVE  FALSE
  OBVIOUS
<1>. DEFINE column == [x \in Accounts |-> Delegated(x, t)]
<1>1. StakeTypeOK /\ TotalsAreDelegations
  BY StakingTypeSplit DEF StakingInv
<1>2. \A x \in Accounts : column[x] \in Nat
  BY <1>1, DelegatedType
<1>3. column[f] > 0
  BY <1>1 DEF Delegated, AmountAt, StakeTypeOK, IsTable
<1>4. SumFunctionOnSet(column, Accounts) = 0
  BY <1>1 DEF TotalsAreDelegations, DelegatedTo, AmountAt
<1>. HIDE DEF column
<1>5. column[f] <= SumFunctionOnSet(column, Accounts)
  <2>1. IsFiniteSet(Accounts) /\ f \in Accounts /\ \A x \in Accounts : column[x] \in Nat
    BY <1>2
  <2>. QED  BY ONLY <2>1, SumBoundsTerm
<1>. QED  BY <1>2, <1>3, <1>4, <1>5

LEMMA DelegatedHasTotalNext ==
  (StakingInv => \A f, t \in Accounts : <<f, t>> \in DOMAIN delband => t \in DOMAIN userres)'
BY DelegatedHasTotal, PTL

(* A delegation that was not there is made by staking in the core symbol.  *)
LEMMA NewDelegation ==
  ASSUME [AccountsNext]_accountsVars, NEW f \in Accounts, NEW t \in Accounts,
         <<f, t>> \in DOMAIN delband', <<f, t>> \notin DOMAIN delband
  PROVE  t \in DOMAIN userres => userresSymbol[t] = core_symbol
<1>1. ASSUME \/ \E s \in Symbols : init(s)
             \/ \E s \in Symbols, n \in FeeAmounts : setacntfee(s, n)
             \/ \E c \in Creators, a \in Accounts : newaccount(c, a)
             \/ OtherSteps
             \/ UNCHANGED accountsVars
      PROVE  delband' = delband
  BY <1>1 DEF init, setacntfee, newaccount, accountsVars, stakingVars, stakeVars,
              OtherSteps, RefundByOwner, RunDeferred, setalimits, TokenTransfer
<1>2. ASSUME NEW from \in Signers, NEW r \in Receivers, StakeFrom(from, r)
      PROVE  t \in DOMAIN userres => userresSymbol[t] = core_symbol
  <2>1. PICK d \in Int, x \in BOOLEAN : changebw(from, r, d, x) /\ InCoreSymbol(from, r, d, x)
    BY <1>2, StakeFromIsChange
  <2>. DEFINE owner == IF x THEN r ELSE from
  <2>2. update_delband(owner, r, d)
    BY <2>1 DEF changebw
  <2>3. r \in DOMAIN userres => userresSymbol[r] = core_symbol
    BY <2>1 DEF InCoreSymbol, SymbolsFit
  <2>. HIDE DEF owner
  <2>4. <<f, t>> = <<owner, r>>
    BY <2>2 DEF update_delband, PutOrErase, Upsert, Erase
  <2>. QED  BY <2>3, <2>4
<1>. QED  BY <1>1, <1>2 DEF AccountsNext, AccountsActions

LEMMA OneTokenStep ==
  ASSUME StakingInv, StakingInv', AccountTablesOK, TotalsInOneToken, [AccountsNext]_accountsVars
  PROVE  TotalsInOneToken'
<1>1. CASE UNCHANGED accountsVars
  BY <1>1 DEF accountsVars, symbolVars, stakingVars, stakeVars, TotalsInOneToken
<1>2. CASE RowsTagged
  <2>. SUFFICES ASSUME NEW f \in Accounts, NEW t \in Accounts, <<f, t>> \in DOMAIN delband'
                PROVE  t \in DOMAIN userres' /\ delbandSymbol'[<<f, t>>] = userresSymbol'[t]
    BY DEF TotalsInOneToken
  <2>1. t \in DOMAIN userres'
    BY DelegatedHasTotalNext
  <2>2. DOMAIN delbandSymbol = DOMAIN delband /\ DOMAIN userresSymbol = DOMAIN userres
    BY DEF AccountTablesOK, SymbolTablesOK
  <2>3. /\ delbandSymbol'[<<f, t>>] = IF <<f, t>> \in DOMAIN delband
                                      THEN delbandSymbol[<<f, t>>] ELSE core_symbol
        /\ userresSymbol'[t] = IF t \in DOMAIN userres THEN userresSymbol[t] ELSE core_symbol
    BY <1>2, <2>1, <2>2 DEF RowsTagged, Tagged
  <2>4. CASE <<f, t>> \in DOMAIN delband
    BY <2>1, <2>3, <2>4 DEF TotalsInOneToken
  <2>5. CASE <<f, t>> \notin DOMAIN delband
    BY <2>1, <2>3, <2>5, NewDelegation
  <2>. QED  BY <2>4, <2>5
<1>. QED  BY <1>1, <1>2 DEF AccountsNext

(* Whoever adds a row or sets the fee does it in the core symbol.          *)
LEMMA SymbolsStay ==
  ASSUME SymbolsInStep, [AccountsNext]_accountsVars, core_symbol' = core_symbol
  PROVE  SymbolsInStep'
<1>1. CASE UNCHANGED accountsVars
  BY <1>1 DEF accountsVars, accountVars, symbolVars, SymbolsInStep
<1>2. CASE AccountsActions /\ RowsTagged
  <2>1. /\ \A a \in DOMAIN userresSymbol' : userresSymbol'[a] = core_symbol
        /\ \A k \in DOMAIN delbandSymbol' : delbandSymbol'[k] = core_symbol
        /\ \A a \in DOMAIN refundSymbol' : refundSymbol'[a] = core_symbol
    BY <1>2 DEF RowsTagged, Tagged, SymbolsInStep
  <2>2. account_creation_fee' = account_creation_fee
        \/ \E s \in Symbols, n \in FeeAmounts : setacntfee(s, n)
    BY <1>2 DEF AccountsActions, init, newaccount, accountVars
  <2>3. account_creation_fee'.amount > 0 => account_creation_fee'.symbol = core_symbol
    BY <2>2 DEF setacntfee, SymbolsInStep
  <2>. QED  BY <2>1, <2>3 DEF SymbolsInStep
<1>. QED  BY <1>1, <1>2 DEF AccountsNext

-----------------------------------------------------------------------------
(* Nobody before its time.                                                 *)

(* What NobodyBeforeItsTime says of an account.                            *)
Blank(a) ==
  /\ a \notin DOMAIN userres \cup DOMAIN refunds \cup DOMAIN voters \cup DOMAIN acntype
  /\ a \notin DOMAIN deferred
  /\ \A b \in Accounts : {<<a, b>>, <<b, a>>} \cap DOMAIN delband = {}
  /\ balance[a] = Endowment[a]

LEMMA BlankIsIt == NobodyBeforeItsTime <=> \A a \in Accounts : ~Exists(a) => Blank(a)
BY DEF NobodyBeforeItsTime, Blank

(* changebw touches nobody but the account charged, the receiver and the   *)
(* stake account.                                                          *)
LEMMA ChangebwLeavesBlank ==
  ASSUME balance \in [Accounts -> Nat], NEW s \in Accounts, NEW r \in Accounts,
         NEW d, NEW t \in BOOLEAN, changebw(s, r, d, t),
         NEW a \in Accounts, a \notin {s, r, StakeAccount}, Blank(a)
  PROVE  Blank(a)'
<1>. DEFINE from == IF t THEN r ELSE s
<1>0. from \in Accounts /\ a # from /\ a # s /\ a # r /\ a # StakeAccount
  OBVIOUS
<1>1. /\ update_delband(from, r, d) /\ update_totals(r, d) /\ update_voting_power(from, d)
      /\ acntype' = acntype
      /\ refunds' = refunds \/ update_refund(from, d)
      /\ deferred' = deferred \/ deferred' = Erase(deferred, from) \/ update_refund(from, d)
      /\ balance' = balance \/ \E n : Paid(s, StakeAccount, n)
  <2>1. /\ update_delband(from, r, d) /\ update_totals(r, d) /\ update_voting_power(from, d)
        /\ acntype' = acntype
    BY DEF changebw
  <2>2. CASE s = StakeAccount
    BY <2>1, <2>2 DEF changebw
  <2>3. CASE s # StakeAccount
    BY <2>1, <2>3 DEF changebw
  <2>. QED  BY <2>2, <2>3
<1>. HIDE DEF from
<1>2. a \notin DOMAIN userres'
  BY <1>0, <1>1 DEF update_totals, PutOrErase, Upsert, Erase, Blank
<1>3. a \notin DOMAIN refunds' /\ a \notin DOMAIN deferred'
  BY <1>0, <1>1 DEF update_refund, Upsert, Erase, Blank
<1>4. a \notin DOMAIN voters' /\ a \notin DOMAIN acntype'
  BY <1>0, <1>1 DEF update_voting_power, Upsert, Blank
<1>5. \A b \in Accounts : {<<a, b>>, <<b, a>>} \cap DOMAIN delband' = {}
  <2>1. DOMAIN delband' \subseteq DOMAIN delband \cup {<<from, r>>}
    BY <1>1 DEF update_delband, PutOrErase, Upsert, Erase
  <2>2. \A b \in Accounts : <<a, b>> # <<from, r>> /\ <<b, a>> # <<from, r>>
    BY <1>0
  <2>. QED  BY <2>1, <2>2 DEF Blank
<1>6. balance'[a] = Endowment[a]
  BY <1>0, <1>1 DEF Paid, Blank
<1>. QED  BY <1>2, <1>3, <1>4, <1>5, <1>6 DEF Blank

LEMMA StakeFromLeavesBlank ==
  ASSUME balance \in [Accounts -> Nat], NEW from \in Signers, NEW r \in Receivers,
         StakeFrom(from, r), NEW a \in Accounts, ~Exists(a), Blank(a)
  PROVE  Blank(a)'
<1>1. PICK d \in Int, t \in BOOLEAN : Known(from, r) /\ changebw(from, r, d, t)
  BY StakeFromIsChange
<1>2. from \in Accounts /\ r \in Accounts /\ a \notin {from, r, StakeAccount}
  BY <1>1 DEF Known, Exists
<1>. QED  BY <1>1, <1>2, ChangebwLeavesBlank

LEMMA RefundLeavesBlank ==
  ASSUME balance \in [Accounts -> Nat], NEW b \in Accounts, RefundByOwner(b) \/ RunDeferred(b),
         NEW a \in Accounts, ~Exists(a), Blank(a)
  PROVE  Blank(a)'
<1>1. a # StakeAccount
  BY DEF Exists
<1>2. UNCHANGED <<delband, userres, voters, acntype>>
  BY DEF RefundByOwner, RunDeferred, votingVars
<1>3. deferred' = deferred \/ deferred' = Erase(deferred, b)
  BY DEF RefundByOwner, RunDeferred
<1>4. refund(b) \/ UNCHANGED <<refunds, balance>>
  BY DEF RefundByOwner, RunDeferred
<1>5. CASE refund(b)
  <2>1. b # a
    BY <1>5 DEF refund, Blank
  <2>2. refunds' = Erase(refunds, b) /\ Paid(StakeAccount, b, refunds[b].cpu_amount)
    BY <1>5 DEF refund
  <2>3. balance'[a] = balance[a]
    BY <1>1, <2>1, <2>2 DEF Paid
  <2>. QED  BY <1>2, <1>3, <2>2, <2>3 DEF Blank, Erase
<1>6. CASE UNCHANGED <<refunds, balance>>
  BY <1>2, <1>3, <1>6 DEF Blank, Erase
<1>. QED  BY <1>4, <1>5, <1>6

LEMMA VotersAreTheSame ==
  ASSUME VotingActions
  PROVE  DOMAIN voters' = DOMAIN voters
<1>1. ASSUME NEW v \in Accounts, NEW ballot, voteproducer(v, ballot)
      PROVE  DOMAIN voters' = DOMAIN voters
  BY <1>1 DEF voteproducer
<1>. QED  BY <1>1 DEF VotingActions, regproducer, unregprod, rmvproducer, deactivate,
                      setvweight, setacntype, onblock

LEMMA OtherStepsLeaveBlank ==
  ASSUME balance \in [Accounts -> Nat], OtherSteps,
         NEW a \in Accounts, ~Exists(a), Blank(a)
  PROVE  Blank(a)'
<1>1. ASSUME NEW b \in Accounts, RefundByOwner(b) \/ RunDeferred(b)
      PROVE  Blank(a)'
  BY <1>1, RefundLeavesBlank
<1>2. ASSUME NEW b, NEW l, setalimits(b, l)
      PROVE  Blank(a)'
  BY <1>2 DEF setalimits, votingVars, Blank
<1>3. ASSUME NEW b \in Accounts, NEW c \in Accounts, NEW q, Exists(b), Exists(c),
             TokenTransfer(b, c, q)
      PROVE  Blank(a)'
  <2>1. a # b /\ a # c
    BY <1>3
  <2>2. balance'[a] = balance[a]
    BY <1>3, <2>1 DEF TokenTransfer, Paid
  <2>. QED  BY <1>3, <2>2 DEF TokenTransfer, votingVars, Blank
<1>4. CASE VotingActions /\ (\A b \in DOMAIN acntype' : Exists(b)) /\ UNCHANGED stakeVars
  BY <1>4, VotersAreTheSame DEF stakeVars, Blank
<1>5. Signers \subseteq Accounts /\ Receivers \subseteq Accounts
  OBVIOUS
<1>. QED  BY <1>1, <1>2, <1>3, <1>4, <1>5 DEF OtherSteps

LEMMA NobodyStep ==
  ASSUME StakingInv, AccountTablesOK, NobodyBeforeItsTime, [AccountsNext]_accountsVars
  PROVE  NobodyBeforeItsTime'
<1>. SUFFICES ASSUME NEW a \in Accounts, ~Exists(a)'
              PROVE  Blank(a)'
  BY DEF NobodyBeforeItsTime, Blank
<1>0. balance \in [Accounts -> Nat]
  BY DEF StakingInv, StakingTypeOK
<1>1. ASSUME NEW c \in Creators, NEW b \in Accounts, Exists(c), newaccount(c, b)
      PROVE  Blank(a)'
  <2>1. c \in Accounts /\ SavingAccount \in Founders
    OBVIOUS
  <2>2. /\ \A x \in Accounts \ {c, SavingAccount} : balance'[x] = balance[x]
        /\ userres' = Upsert(userres, b, 0) /\ madeBy' = Upsert(madeBy, b, c)
        /\ UNCHANGED <<delband, refunds, deferred, votingVars>>
    BY <1>0, <1>1, <2>1, NewAccountEffect
  <2>3. ~Exists(a) /\ a # b
    BY <2>2 DEF Exists, Upsert
  <2>4. Blank(a) /\ a # c /\ a # SavingAccount
    BY <1>1, <2>1, <2>3, BlankIsIt DEF Exists
  <2>. QED  BY <2>2, <2>3, <2>4 DEF Blank, Upsert, votingVars
<1>2. ASSUME UNCHANGED madeBy
      PROVE  ~Exists(a) /\ Blank(a)
  BY <1>2, BlankIsIt DEF Exists
<1>3. ASSUME NEW from \in Signers, NEW r \in Receivers, StakeFrom(from, r),
             UNCHANGED accountVars
      PROVE  Blank(a)'
  BY <1>0, <1>2, <1>3, StakeFromLeavesBlank DEF accountVars
<1>4. CASE OtherSteps /\ UNCHANGED accountVars
  BY <1>0, <1>2, <1>4, OtherStepsLeaveBlank DEF accountVars
<1>5. ASSUME \/ \E s \in Symbols : init(s)
             \/ \E s \in Symbols, n \in FeeAmounts : setacntfee(s, n)
             \/ UNCHANGED accountsVars
      PROVE  Blank(a)'
  <2>1. UNCHANGED <<madeBy, stakeVars, votingVars>>
    BY <1>5 DEF init, setacntfee, accountsVars, accountVars, stakingVars
  <2>. QED  BY <1>2, <2>1 DEF stakeVars, votingVars, Blank
<1>. QED  BY <1>1, <1>3, <1>4, <1>5 DEF AccountsNext, AccountsActions

-----------------------------------------------------------------------------
(* Names.                                                                  *)

LEMMA NamesStep ==
  ASSUME NamesAreGranted, AccountTablesOK, [AccountsNext]_accountsVars
  PROVE  NamesAreGranted'
<1>1. ASSUME NEW c \in Creators, NEW a \in Accounts, newaccount(c, a)
      PROVE  NamesAreGranted'
  <2>1. NameOf[c] \in Name /\ NameOf[a] \in Name
    OBVIOUS
  <2>2. madeBy' = Upsert(madeBy, a, c) /\ (c = System \/ MayName(NameOf[c], NameOf[a]))
    BY <1>1 DEF newaccount
  <2>3. c = System \/ FullLength(NameOf[a]) \/ UnderNameOf(NameOf[a], NameOf[c])
    BY <2>1, <2>2, UndottedIsFull, DottedIsUnder
  <2>. QED  BY <2>2, <2>3 DEF NamesAreGranted, Upsert
<1>2. ASSUME UNCHANGED madeBy
      PROVE  NamesAreGranted'
  BY <1>2 DEF NamesAreGranted
<1>3. ASSUME \/ \E s \in Symbols : init(s)
             \/ \E s \in Symbols, n \in FeeAmounts : setacntfee(s, n)
             \/ UNCHANGED accountVars
             \/ UNCHANGED accountsVars
      PROVE  UNCHANGED madeBy
  BY <1>3 DEF init, setacntfee, accountsVars, accountVars
<1>. QED  BY <1>1, <1>2, <1>3 DEF AccountsNext, AccountsActions

-----------------------------------------------------------------------------
(* The theorems.                                                           *)

AccountsInv ==
  StakingInv /\ AccountTablesOK /\ TotalsInOneToken /\ NobodyBeforeItsTime /\ NamesAreGranted

LEMMA AccountsInvStep == AccountsInv /\ [AccountsNext]_accountsVars => AccountsInv'
<1>. SUFFICES ASSUME AccountsInv, [AccountsNext]_accountsVars
              PROVE  AccountsInv'
  OBVIOUS
<1>1. StakingInv'
  BY StakingGoesOn DEF AccountsInv
<1>2. AccountTablesOK'
  BY TablesStep DEF AccountsInv
<1>3. TotalsInOneToken' /\ NobodyBeforeItsTime' /\ NamesAreGranted'
  BY <1>1, OneTokenStep, NobodyStep, NamesStep DEF AccountsInv
<1>. QED  BY <1>1, <1>2, <1>3 DEF AccountsInv

LEMMA AccountsInvInit == AccountsInit => AccountsInv
<1>. SUFFICES ASSUME AccountsInit PROVE AccountsInv
  OBVIOUS
<1>1. StakingInv
  BY StakingInvInit DEF AccountsInit
<1>2. /\ madeBy = EmptyTable /\ core_symbol = NoSymbol
      /\ account_creation_fee = [symbol |-> NoSymbol, amount |-> 0]
      /\ userresSymbol = EmptyTable /\ delbandSymbol = EmptyTable /\ refundSymbol = EmptyTable
      /\ DOMAIN userres = {} /\ refunds = EmptyTable /\ deferred = EmptyTable
      /\ delband = EmptyTable /\ voters = EmptyTable /\ acntype = EmptyTable
      /\ balance = Endowment /\ held = Holdings
  BY DEF AccountsInit, StakingInit, VotingInit
<1>3. AccountTablesOK /\ TotalsInOneToken /\ NamesAreGranted
  <2>1. SymbolTablesOK
    BY <1>2 DEF SymbolTablesOK, EmptyTable
  <2>2. BooksOK
    BY <1>2, EndowmentAssumption DEF BooksOK, HeldBy
  <2>. QED  BY <1>2, <2>1, <2>2
            DEF AccountTablesOK, SinglesOK, FeeOK, TotalsInOneToken, NamesAreGranted,
                EmptyTable, IsTable
<1>4. NobodyBeforeItsTime
  BY <1>2 DEF NobodyBeforeItsTime, EmptyTable
<1>. QED  BY <1>1, <1>3, <1>4 DEF AccountsInv

LEMMA AccountsInvAlways == AccountsSpec => []AccountsInv
BY AccountsInvInit, AccountsInvStep, PTL DEF AccountsSpec

(* The tables, old and new, keep their shape while accounts come to be.    *)
THEOREM AccountsTypeCorrect == AccountsSpec => []AccountsTypeOK
<1>1. AccountsInv => AccountsTypeOK
  BY DEF AccountsInv, AccountTablesOK, SinglesOK, FeeOK, SymbolTablesOK, BooksOK, HeldBy,
         AccountsTypeOK, StakingInv
<1>. QED  BY <1>1, AccountsInvAlways, PTL

(* Nobody but the system hands out short names, or names under another's.  *)
THEOREM NamesAlwaysGranted == AccountsSpec => []NamesAreGranted
<1>1. AccountsInv => NamesAreGranted
  BY DEF AccountsInv
<1>. QED  BY <1>1, AccountsInvAlways, PTL

(* An account that comes into being finds nothing recorded under its name. *)
THEOREM NobodyEverBefore == AccountsSpec => []NobodyBeforeItsTime
<1>1. AccountsInv => NobodyBeforeItsTime
  BY DEF AccountsInv
<1>. QED  BY <1>1, AccountsInvAlways, PTL

(* Whatever init names when, the delegations that make up an account's     *)
(* total are in the token of that total.                                   *)
THEOREM TotalsAlwaysInOneToken == AccountsSpec => []TotalsInOneToken
<1>1. AccountsInv => TotalsInOneToken
  BY DEF AccountsInv
<1>. QED  BY <1>1, AccountsInvAlways, PTL

(* The row and the limit newaccount writes do not upset the records of     *)
(* staking and voting.                                                     *)
THEOREM RecordsSurviveNewAccounts ==
  AccountsSpec => [](VotingPowerIsStake /\ TotalsAreDelegations /\ LimitFollowsTotal
                       /\ TallyCorrect /\ StakedBallotsAreRegistered)
<1>1. AccountsInv => VotingPowerIsStake /\ TotalsAreDelegations /\ LimitFollowsTotal
                       /\ TallyCorrect /\ StakedBallotsAreRegistered
  BY DEF AccountsInv, StakingInv, VotingInv
<1>. QED  BY <1>1, AccountsInvAlways, PTL

(* The fee and the rows leave the core symbol only by another init.        *)
THEOREM OnlyInitEverSplits == AccountsSpec => OnlyInitSplitsSymbols
<1>1. [AccountsNext]_accountsVars =>
        [SymbolsInStep /\ ~SymbolsInStep' => core_symbol' # core_symbol]_accountsVars
  BY SymbolsStay
<1>. QED  BY <1>1, PTL DEF AccountsSpec, OnlyInitSplitsSymbols

-----------------------------------------------------------------------------
(* What is proved of voting and of staking among accounts that are there   *)
(* from the start holds while accounts come into being.                    *)

LEMMA AccountsCases ==
  ASSUME [AccountsNext]_accountsVars
  PROVE  \/ StakingNext
         \/ UNCHANGED stakingVars
         \/ \E c \in Creators, a \in Accounts : newaccount(c, a)
<1>1. ASSUME \/ \E s \in Symbols : init(s)
             \/ \E s \in Symbols, n \in FeeAmounts : setacntfee(s, n)
             \/ UNCHANGED accountsVars
      PROVE  UNCHANGED stakingVars
  BY <1>1 DEF init, setacntfee, accountsVars
<1>. QED  BY <1>1, StakeFromIsStaking, OtherIsStaking DEF AccountsNext, AccountsActions

(* The votes, the producers and the schedule go through behaviours of      *)
(* Voting: creating accounts gives nobody a vote.                          *)
THEOREM AccountsImplementVoting == AccountsSpec => VotingSpec
<1>. DEFINE Bounded == AccountsInv /\ StakeBounded
<1>1. AccountsInit => Bounded /\ VotingInit
  <2>1. VotingInit => StakeBounded
    BY BoundedAtFirst
  <2>. QED  BY <2>1, AccountsInvInit DEF AccountsInit, StakingInit
<1>2. AccountsInv => StakingTypeOK /\ VotingTypeOK
  BY StakingTypeSplit DEF AccountsInv, StakingInv
<1>3. AccountsInv /\ StakeBounded /\ [AccountsNext]_accountsVars => [VotingNext]_votingVars
  <2>. SUFFICES ASSUME AccountsInv, StakeBounded, [AccountsNext]_accountsVars
                PROVE  [VotingNext]_votingVars
    OBVIOUS
  <2>1. CASE StakingNext \/ UNCHANGED stakingVars
    BY <1>2, <2>1, StakingIsVoting
  <2>2. CASE \E c \in Creators, a \in Accounts : newaccount(c, a)
    BY <2>2 DEF newaccount
  <2>. QED  BY <2>1, <2>2, AccountsCases
<1>4. Bounded /\ [AccountsNext]_accountsVars => Bounded' /\ [VotingNext]_votingVars
  BY <1>2, <1>3, AccountsInvStep, BoundKept
<1>. HIDE DEF Bounded
<1>. QED  BY <1>1, <1>4, PTL DEF AccountsSpec, VotingSpec

(* So elections stay fair on a chain where accounts are made, and a weight *)
(* is recorded for votes only.                                             *)
THEOREM FairAmongNewAccounts ==
  AccountsSpec => ElectionIsFair /\ ScheduleNeverShrinks /\ []WeightIsOfVotes
BY AccountsImplementVoting, ElectionAlwaysFair, ScheduleKeepsSize, WeightsAreOfVotes, PTL

(* And the ballot promises kept by Voting when candidates are checked are  *)
(* kept among new accounts: nobody is locked out of staking, and nobody    *)
(* out of withdrawing a ballot none of whose candidates left.              *)
THEOREM BallotsAmongNewAccounts ==
  /\ AccountsSpec /\ [][BallotsChecked]_votingVars => []VotersCanStake
  /\ AccountsSpec /\ [][BallotsChecked /\ LeaversUnnamed]_votingVars => []BallotCanBeWithdrawn
BY AccountsImplementVoting, VotersCanStakeIfChecked, BallotsCanBeWithdrawnIfUnnamed, PTL

LEMMA NewAccountPays ==
  ASSUME AccountTablesOK, NEW c \in Creators, NEW a \in Accounts, newaccount(c, a)
  PROVE  /\ UNCHANGED <<refunds, deferred, votingVars>>
         /\ \/ balance' = balance
            \/ /\ c # SavingAccount /\ account_creation_fee.amount > 0
               /\ Paid(c, SavingAccount, account_creation_fee.amount)
BY DEF newaccount, PayFee

(* Fees are paid, not burnt: no token is made or lost.                     *)
THEOREM AccountsConserveTokens == AccountsSpec => []TokensConserved
<1>1. AccountsInit => TokensConserved
  BY DEF AccountsInit, StakingInit, TokensConserved
<1>2. AccountsInv /\ TokensConserved /\ [AccountsNext]_accountsVars => TokensConserved'
  <2>. SUFFICES ASSUME AccountsInv, TokensConserved, [AccountsNext]_accountsVars
                PROVE  TokensConserved'
    OBVIOUS
  <2>1. StakingTypeOK /\ balance \in [Accounts -> Nat] /\ AccountTablesOK
    BY DEF AccountsInv, StakingInv, StakingTypeOK
  <2>2. CASE StakingNext \/ UNCHANGED stakingVars
    BY <2>1, <2>2, BalanceSteps, PaidKeepsSum DEF TokensConserved
  <2>3. ASSUME NEW c \in Creators, NEW a \in Accounts, newaccount(c, a)
        PROVE  TokensConserved'
    <3>1. CASE balance' = balance
      BY <3>1 DEF TokensConserved
    <3>2. CASE c # SavingAccount /\ Paid(c, SavingAccount, account_creation_fee.amount)
      <4>1. c \in Accounts /\ SavingAccount \in Accounts /\ account_creation_fee.amount \in Nat
        BY <2>1 DEF AccountTablesOK, SinglesOK, FeeOK
      <4>. QED  BY <2>1, <3>2, <4>1, PaidKeepsSum DEF TokensConserved
    <3>. QED  BY <2>1, <2>3, <3>1, <3>2, NewAccountPays
  <2>. QED  BY <2>2, <2>3, AccountsCases
<1>. QED  BY <1>1, <1>2, AccountsInvInit, AccountsInvStep, PTL DEF AccountsSpec

(* Claims come back, and an unstaking restarts the delay of what it adds   *)
(* to, among accounts that pay fees as well.                               *)
THEOREM ClaimsComeBackAmongNew == AccountsSpec => ClaimsComeBack /\ UnstakingRestartsDelay
<1>. DEFINE PaidOnly(a) ==
              Claim(a)' < Claim(a) =>
                /\ seconds >= refunds[a].request_time + refund_delay_sec
                /\ Pending(a)' = 0 /\ StakedBy(a)' = StakedBy(a)
                /\ balance'[a] = balance[a] + Pending(a)
            Restarts(a) ==
              StakedBy(a)' < StakedBy(a) /\ a # StakeAccount =>
                /\ a \in DOMAIN refunds' /\ refunds'[a].request_time = seconds
                /\ a \in DOMAIN deferred' /\ deferred'[a] > slot
<1>1. AccountsInv /\ [AccountsNext]_accountsVars =>
        /\ [\A a \in Accounts \ {StakeAccount} : PaidOnly(a)]_stakingVars
        /\ [\A a \in Accounts : Restarts(a)]_stakingVars
  <2>. SUFFICES ASSUME AccountsInv, [AccountsNext]_accountsVars, NEW a \in Accounts
                PROVE  (a # StakeAccount => PaidOnly(a)) /\ Restarts(a)
    OBVIOUS
  <2>1. StakingTypeOK /\ AccountTablesOK /\ StakedBy(a) \in Nat /\ Pending(a) \in Nat
    BY StakingTypeSplit, StakedType, PendingType DEF AccountsInv, StakingInv, StakeTypeOK
  <2>2. CASE StakingNext \/ UNCHANGED stakingVars
    BY <2>1, <2>2, ClaimStep, UnstakeStep
  <2>3. CASE \E c \in Creators, b \in Accounts : newaccount(c, b)
    <3>1. UNCHANGED <<refunds, voters>>
      BY <2>1, <2>3, NewAccountPays DEF votingVars
    <3>2. StakedBy(a)' = StakedBy(a) /\ Pending(a)' = Pending(a)
      BY <3>1, SameRefunds DEF StakedBy, VoterRow
    <3>. QED  BY <2>1, <3>2 DEF Claim
  <2>. QED  BY <2>2, <2>3, AccountsCases
<1>. QED  BY <1>1, AccountsInvInit, AccountsInvStep, PTL
          DEF AccountsSpec, ClaimsComeBack, UnstakingRestartsDelay

(* A deferred refund that is due is available, whoever was made meanwhile. *)
THEOREM DeferredNeverEarlyAmongNew == AccountsSpec => []DeferredIsNotEarly
<1>1. AccountsInit => DeferredInv
  BY StakingTypeInit
     DEF AccountsInit, StakingInit, EmptyTable, DeferredInv, RequestedBefore, DeferredIsNotEarly
<1>2. AccountsInv /\ AccountsInv' /\ DeferredInv /\ [AccountsNext]_accountsVars => DeferredInv'
  <2>. SUFFICES ASSUME AccountsInv, AccountsInv', DeferredInv, [AccountsNext]_accountsVars
                PROVE  DeferredInv'
    OBVIOUS
  <2>1. CASE StakingNext \/ UNCHANGED stakingVars
    BY <2>1, DeferredStep
  <2>2. CASE \E c \in Creators, b \in Accounts : newaccount(c, b)
    <3>1. UNCHANGED <<refunds, deferred, slot>>
      BY <2>2, NewAccountPays DEF votingVars, AccountsInv
    <3>2. StakingTypeOK'
      BY DEF AccountsInv, StakingInv
    <3>. QED  BY <3>1, <3>2 DEF DeferredInv, RequestedBefore, DeferredIsNotEarly
  <2>. QED  BY <2>1, <2>2, AccountsCases
<1>3. DeferredInv => DeferredIsNotEarly
  BY DEF DeferredInv
<1>. QED  BY <1>1, <1>2, <1>3, AccountsInvInit, AccountsInvStep, PTL DEF AccountsSpec

(* A pending refund keeps its transaction, unless stake is put aside while *)
(* it waits: making accounts cancels nothing.                              *)
THEOREM ScheduledAmongNew ==
  AccountsSpec /\ NobodyStakesAside => PendingRefundStaysScheduled /\ []ScheduledOrDue
<1>1. /\ AccountsInv /\ [AccountsNext]_accountsVars
      /\ [~ \E a \in Accounts : StakesAside(a)]_stakingVars
      => [\A a \in DOMAIN deferred :
            /\ deferred[a] > slot
            /\ a \in DOMAIN refunds'
            => a \in DOMAIN deferred']_stakingVars
  <2>1. ASSUME AccountsInv, [AccountsNext]_accountsVars,
               [~ \E a \in Accounts : StakesAside(a)]_stakingVars,
               NEW a \in DOMAIN deferred, deferred[a] > slot, a \in DOMAIN refunds'
        PROVE  a \in DOMAIN deferred'
    <3>1. StakingTypeOK /\ AccountTablesOK /\ deferred[a] \in Nat /\ slot \in Nat
      BY <2>1 DEF AccountsInv, StakingInv, StakingTypeOK, VotingTypeOK, IsTable
    <3>2. CASE StakingNext \/ UNCHANGED stakingVars
      BY <2>1, <3>1, <3>2, ScheduleStep
    <3>3. CASE \E c \in Creators, b \in Accounts : newaccount(c, b)
      BY <3>1, <3>3, NewAccountPays
    <3>. QED  BY <2>1, <3>2, <3>3, AccountsCases
  <2>. QED  BY <2>1
<1>2. AccountsInit => DeferredInv /\ ScheduledOrDue
  BY StakingTypeInit DEF AccountsInit, StakingInit, EmptyTable, DeferredInv, RequestedBefore,
                         DeferredIsNotEarly, ScheduledOrDue
<1>3. AccountsInv' => StakingTypeOK'
  BY DEF AccountsInv, StakingInv
<1>4. /\ AccountsInv /\ AccountsInv' /\ DeferredInv /\ ScheduledOrDue
      /\ [AccountsNext]_accountsVars /\ [~ \E a \in Accounts : StakesAside(a)]_stakingVars
      => DeferredInv' /\ ScheduledOrDue'
  <2>. SUFFICES ASSUME AccountsInv, AccountsInv', DeferredInv, ScheduledOrDue,
                       [AccountsNext]_accountsVars,
                       [~ \E a \in Accounts : StakesAside(a)]_stakingVars
                PROVE  DeferredInv' /\ ScheduledOrDue'
    OBVIOUS
  <2>1. CASE StakingNext \/ UNCHANGED stakingVars
    BY <2>1, DeferredStep, ScheduledStep
  <2>2. CASE \E c \in Creators, b \in Accounts : newaccount(c, b)
    <3>1. UNCHANGED <<refunds, deferred, slot>>
      BY <2>2, NewAccountPays DEF votingVars, AccountsInv
    <3>. QED  BY <1>3, <3>1 DEF DeferredInv, RequestedBefore, DeferredIsNotEarly, ScheduledOrDue
  <2>. QED  BY <2>1, <2>2, AccountsCases
<1>. QED  BY <1>1, <1>2, <1>4, AccountsInvInit, AccountsInvStep, PTL
          DEF AccountsSpec, NobodyStakesAside, PendingRefundStaysScheduled

(* Nor do fees leave the stake account short, as long as it pays none.     *)
THEOREM SolventAmongNew ==
  ASSUME StakeAccount \notin Signers \cup Creators
  PROVE  AccountsSpec /\ RestakesArePaid => []Solvent
<1>1. AccountsInit => Solvent
  BY SolventAtFirst DEF AccountsInit
<1>2. /\ AccountsInv /\ AccountsInv' /\ Solvent /\ [AccountsNext]_accountsVars
      /\ [~ \E a \in Accounts : RestakesBeyondRefund(a)]_stakingVars
      => Solvent'
  <2>. SUFFICES ASSUME AccountsInv, AccountsInv', Solvent, [AccountsNext]_accountsVars,
                       [~ \E a \in Accounts : RestakesBeyondRefund(a)]_stakingVars
                PROVE  Solvent'
    OBVIOUS
  <2>1. StakingTypeOK /\ StakingTypeOK' /\ AccountTablesOK
    BY DEF AccountsInv, StakingInv
  <2>2. CASE StakingNext \/ UNCHANGED stakingVars
    BY <2>1, <2>2, SolventStep
  <2>3. ASSUME NEW c \in Creators, NEW b \in Accounts, newaccount(c, b)
        PROVE  Solvent'
    <3>. DEFINE n == account_creation_fee.amount
    <3>1. /\ c # StakeAccount /\ n \in Nat
          /\ balance \in [Accounts -> Nat] /\ balance' \in [Accounts -> Nat]
      BY <2>1 DEF AccountTablesOK, SinglesOK, FeeOK, StakingTypeOK
    <3>2. Owed' = Owed
      <4>1. UNCHANGED <<refunds, voters>>
        BY <2>1, <2>3, NewAccountPays DEF votingVars
      <4>. QED  BY <4>1, OwedSame, SameRefunds DEF StakedBy, VoterRow
    <3>3. \/ balance' = balance
          \/ c # SavingAccount /\ Paid(c, SavingAccount, n)
      BY <2>1, <2>3, NewAccountPays
    <3>. HIDE DEF n
    <3>4. balance'[StakeAccount] >= balance[StakeAccount]
      BY <3>1, <3>3 DEF Paid
    <3>5. Owed \in Int /\ balance[StakeAccount] \in Nat /\ balance'[StakeAccount] \in Nat
      BY <2>1, <3>1, OwedType
    <3>. QED  BY <3>2, <3>4, <3>5 DEF Solvent
  <2>. QED  BY <2>2, <2>3, AccountsCases
<1>. QED  BY <1>1, <1>2, AccountsInvInit, AccountsInvStep, PTL DEF AccountsSpec, RestakesArePaid

-----------------------------------------------------------------------------
(* The escrow's promise among accounts that pay fees, which are amounts    *)
(* moved like any other.                                                   *)
Custody == INSTANCE Escrow WITH
  Owners <- Accounts, Vault <- StakeAccount, Held <- Endowment,
  Start <- FirstSlot \div 2, Delay <- refund_delay_sec,
  Grantees <- IF StakeAccount \in Signers THEN Accounts ELSE {},
  Amounts <- Quantities \cup (FeeAmounts \cap Nat),
  locked <- Staked, pending <- [a \in Accounts |-> Pending(a)],
  since <- [a \in Accounts |-> SinceRequest(a)], tokens <- balance, now <- seconds

EscrowKept == Custody!EscrowSpec

(* A step of the escrow without fees is one of the escrow with them.       *)
LEMMA PromiseIsCustody ==
  ASSUME Promise!EscrowNext
  PROVE  Custody!EscrowNext
<1>1. ASSUME NEW owner \in Accounts, NEW n \in Quantities
      PROVE  /\ \A other \in Accounts :
                  /\ Promise!Lock(other, owner, n) => Custody!Lock(other, owner, n)
                  /\ Promise!Move(other, owner, n) => Custody!Move(other, owner, n)
             /\ Promise!Relock(owner, n) => Custody!Relock(owner, n)
             /\ Promise!Release(owner, n) => Custody!Release(owner, n)
             /\ Promise!Grant(owner, n) => Custody!Grant(owner, n)
             /\ Promise!Withdraw(n) => Custody!Withdraw(n)
  <2>1. \A other \in Accounts : Promise!Lock(other, owner, n) => Custody!Lock(other, owner, n)
    BY DEF Promise!Lock, Custody!Lock, Promise!Moved, Custody!Moved
  <2>2. \A other \in Accounts : Promise!Move(other, owner, n) => Custody!Move(other, owner, n)
    BY DEF Promise!Move, Custody!Move, Promise!Moved, Custody!Moved
  <2>3. Promise!Relock(owner, n) => Custody!Relock(owner, n)
    BY DEF Promise!Relock, Custody!Relock
  <2>4. Promise!Release(owner, n) => Custody!Release(owner, n)
    BY DEF Promise!Release, Custody!Release
  <2>5. Promise!Grant(owner, n) => Custody!Grant(owner, n)
    BY DEF Promise!Grant, Custody!Grant
  <2>6. Promise!Withdraw(n) => Custody!Withdraw(n)
    BY DEF Promise!Withdraw, Custody!Withdraw
  <2>. QED  BY <2>1, <2>2, <2>3, <2>4, <2>5, <2>6
<1>2. \A owner \in Accounts : Promise!Pay(owner) => Custody!Pay(owner)
  BY DEF Promise!Pay, Custody!Pay, Promise!Moved, Custody!Moved
<1>3. Promise!Tick => Custody!Tick
  BY DEF Promise!Tick, Custody!Tick
<1>. QED  BY <1>1, <1>2, <1>3 DEF Promise!EscrowNext, Custody!EscrowNext

(* A fee is one that setacntfee was called with.                           *)
FeeIsSet == account_creation_fee.amount \in FeeAmounts \cup {0}

LEMMA FeeStaysSet ==
  ASSUME FeeIsSet, [AccountsNext]_accountsVars
  PROVE  FeeIsSet'
<1>1. account_creation_fee' = account_creation_fee
      \/ \E s \in Symbols, n \in FeeAmounts : setacntfee(s, n)
  BY DEF AccountsNext, AccountsActions, init, newaccount, accountVars, accountsVars
<1>2. ASSUME NEW s \in Symbols, NEW n \in FeeAmounts, setacntfee(s, n)
      PROVE  FeeIsSet'
  <2>1. account_creation_fee' = [symbol |-> s, amount |-> n]
    BY <1>2 DEF setacntfee
  <2>. QED  BY <2>1 DEF FeeIsSet
<1>. QED  BY <1>1, <1>2 DEF FeeIsSet

(* What a holder stakes comes back once, after the delay, whatever fees are*)
(* paid around it: paying one is a transfer the escrow allows anybody.     *)
THEOREM AccountsImplementEscrow == AccountsSpec => EscrowKept
<1>1. AccountsInit => Custody!EscrowInit /\ FeeIsSet
  <2>1. AccountsInit => Promise!EscrowInit /\ FeeIsSet
    BY EscrowStart DEF AccountsInit, FeeIsSet
  <2>. QED  BY <2>1 DEF Promise!EscrowInit, Custody!EscrowInit
<1>2. AccountsInv /\ FeeIsSet /\ [AccountsNext]_accountsVars =>
        [Custody!EscrowNext]_(Custody!escrowVars)
  <2>. SUFFICES ASSUME AccountsInv, FeeIsSet, [AccountsNext]_accountsVars
                PROVE  Custody!EscrowNext \/ UNCHANGED Custody!escrowVars
    OBVIOUS
  <2>1. StakingTypeOK /\ AccountTablesOK
    BY DEF AccountsInv, StakingInv
  <2>2. ASSUME UNCHANGED <<voters, slot, refunds>>
        PROVE  /\ Staked' = Staked /\ seconds' = seconds
               /\ \A a : Pending(a)' = Pending(a) /\ SinceRequest(a)' = SinceRequest(a)
    BY <2>2, SameRefunds DEF Staked, StakedBy, VoterRow, seconds
  <2>3. CASE UNCHANGED stakingVars
    BY <2>2, <2>3 DEF stakingVars, stakeVars, votingVars, Custody!escrowVars
  <2>4. CASE StakingNext
    <3>1. UNCHANGED Promise!escrowVars => UNCHANGED Custody!escrowVars
      BY DEF Promise!escrowVars, Custody!escrowVars
    <3>. QED  BY <2>1, <2>4, <3>1, EscrowStep, PromiseIsCustody
  <2>5. ASSUME NEW c \in Creators, NEW b \in Accounts, newaccount(c, b)
        PROVE  Custody!EscrowNext \/ UNCHANGED Custody!escrowVars
    <3>. DEFINE n == account_creation_fee.amount
    <3>1. UNCHANGED <<voters, slot, refunds>>
      BY <2>1, <2>5, NewAccountPays DEF votingVars
    <3>2. CASE balance' = balance
      BY <2>2, <3>1, <3>2 DEF Custody!escrowVars
    <3>3. CASE c # SavingAccount /\ n > 0 /\ Paid(c, SavingAccount, n)
      <4>1. n \in FeeAmounts \cap Nat /\ c \in Accounts /\ SavingAccount \in Accounts
        BY <2>1, <3>3 DEF FeeIsSet, AccountTablesOK, SinglesOK, FeeOK
      <4>. HIDE DEF n
      <4>2. Custody!Move(c, SavingAccount, n)
        BY <2>2, <3>1, <3>3 DEF Custody!Move, Custody!Moved, Paid
      <4>. QED  BY <4>1, <4>2 DEF Custody!EscrowNext
    <3>. QED  BY <2>1, <2>5, <3>2, <3>3, NewAccountPays
  <2>. QED  BY <2>3, <2>4, <2>5, AccountsCases
<1>. QED  BY <1>1, <1>2, FeeStaysSet, AccountsInvInit, AccountsInvStep, PTL
          DEF AccountsSpec, EscrowKept, Custody!EscrowSpec

-----------------------------------------------------------------------------
(* Claims, kind by kind.                                                   *)

LEMMA ClaimType ==
  ASSUME StakingTypeOK
  PROVE  \A a, s : /\ \A t : DelegatedIn(a, t, s) \in Nat
                   /\ PendingIn(a, s) \in Nat /\ ClaimIn(a, s) \in Nat
<1>. SUFFICES ASSUME NEW a, NEW s
              PROVE  /\ \A t : DelegatedIn(a, t, s) \in Nat
                     /\ PendingIn(a, s) \in Nat /\ ClaimIn(a, s) \in Nat
  OBVIOUS
<1>. DEFINE row == [t \in Accounts |-> DelegatedIn(a, t, s)]
<1>1. \A t : DelegatedIn(a, t, s) \in Nat
  BY DEF DelegatedIn, StakingTypeOK, IsTable
<1>2. PendingIn(a, s) \in Nat
  BY DEF PendingIn, StakingTypeOK, IsTable, Refund
<1>3. \A t \in Accounts : row[t] \in Nat
  BY <1>1
<1>4. ClaimIn(a, s) = SumFunctionOnSet(row, Accounts) + PendingIn(a, s)
  BY DEF ClaimIn
<1>. HIDE DEF row
<1>5. SumFunctionOnSet(row, Accounts) \in Nat
  <2>1. IsFiniteSet(Accounts) /\ \A t \in Accounts : row[t] \in Nat
    BY <1>3
  <2>. QED  BY ONLY <2>1, SumType
<1>. QED  BY <1>1, <1>2, <1>4, <1>5

LEMMA ClaimTypeNext ==
  (StakingTypeOK => \A a, s : /\ \A t : DelegatedIn(a, t, s) \in Nat
                              /\ PendingIn(a, s) \in Nat /\ ClaimIn(a, s) \in Nat)'
BY ClaimType, PTL

(* Rows that stay as they are keep their symbols.                          *)
LEMMA DelegationsStay ==
  ASSUME AccountTablesOK, RowsTagged, delband' = delband
  PROVE  \A a, t, s : DelegatedIn(a, t, s)' = DelegatedIn(a, t, s)
<1>1. delbandSymbol' = delbandSymbol
  BY TaggedSame DEF RowsTagged, AccountTablesOK, SymbolTablesOK
<1>. QED  BY <1>1 DEF DelegatedIn

LEMMA PendingStays ==
  ASSUME AccountTablesOK, RowsTagged, refunds' = refunds
  PROVE  \A a, s : PendingIn(a, s)' = PendingIn(a, s)
<1>1. refundSymbol' = refundSymbol
  BY TaggedSame DEF RowsTagged, AccountTablesOK, SymbolTablesOK
<1>. QED  BY <1>1 DEF PendingIn

(* The amount of a row, if it is in the token.                             *)
InKind(rows, symbols, k, s) == IF k \in DOMAIN rows /\ symbols[k] = s THEN rows[k] ELSE 0

LEMMA PutInKind ==
  ASSUME NEW rows, NEW symbols, symbols \in [DOMAIN rows -> Issued], NEW k, NEW w,
         k \in DOMAIN rows => symbols[k] = core_symbol
  PROVE  LET after == PutOrErase(rows, k, w)
         IN  \A j, s : InKind(after, Tagged(symbols, after), j, s)
                         = IF j = k THEN (IF s = core_symbol THEN w ELSE 0)
                           ELSE InKind(rows, symbols, j, s)
<1>. DEFINE after == PutOrErase(rows, k, w)
            tags == Tagged(symbols, after)
<1>. SUFFICES ASSUME NEW j, NEW s
              PROVE  InKind(after, tags, j, s)
                       = IF j = k THEN (IF s = core_symbol THEN w ELSE 0)
                         ELSE InKind(rows, symbols, j, s)
  OBVIOUS
<1>1. CASE w = 0
  <2>1. DOMAIN after = DOMAIN rows \ {k} /\ \A i \in DOMAIN rows \ {k} : after[i] = rows[i]
    BY <1>1 DEF PutOrErase, Erase
  <2>. HIDE DEF after
  <2>2. \A i \in DOMAIN rows \ {k} : tags[i] = symbols[i]
    BY <2>1 DEF Tagged
  <2>. HIDE DEF tags
  <2>. QED  BY <1>1, <2>1, <2>2 DEF InKind
<1>2. CASE w # 0
  <2>1. DOMAIN after = DOMAIN rows \cup {k} /\ after[k] = w
        /\ \A i \in DOMAIN rows \ {k} : after[i] = rows[i]
    BY <1>2 DEF PutOrErase, Upsert
  <2>. HIDE DEF after
  <2>2. tags[k] = core_symbol /\ \A i \in DOMAIN rows \ {k} : tags[i] = symbols[i]
    BY <2>1 DEF Tagged
  <2>. HIDE DEF tags
  <2>. QED  BY <2>1, <2>2 DEF InKind
<1>. QED  BY <1>1, <1>2

(* Staking and unstaking change one delegation, in the core symbol, ...    *)
LEMMA ChangeDelegatesInKind ==
  ASSUME StakingTypeOK, AccountTablesOK, RowsTagged,
         NEW owner \in Accounts, NEW r \in Accounts, NEW d \in Int, update_delband(owner, r, d),
         <<owner, r>> \in DOMAIN delband => delbandSymbol[<<owner, r>>] = core_symbol
  PROVE  \A a, t, s :
           DelegatedIn(a, t, s)' = IF a = owner /\ t = r /\ s = core_symbol
                                   THEN DelegatedIn(a, t, s) + d ELSE DelegatedIn(a, t, s)
<1>. DEFINE k == <<owner, r>>
            w == AmountAt(delband, k) + d
<1>1. delband' = PutOrErase(delband, k, w)
  BY DEF update_delband
<1>2. delbandSymbol' = Tagged(delbandSymbol, delband')
  BY DEF RowsTagged
<1>3. \A a, t : <<a, t>> = k <=> a = owner /\ t = r
  OBVIOUS
<1>4. /\ delbandSymbol \in [DOMAIN delband -> Issued]
      /\ k \in DOMAIN delband => delbandSymbol[k] = core_symbol
  BY DEF AccountTablesOK, SymbolTablesOK
<1>5. \A a, t, s : /\ DelegatedIn(a, t, s) = InKind(delband, delbandSymbol, <<a, t>>, s)
                   /\ DelegatedIn(a, t, s)' = InKind(delband', delbandSymbol', <<a, t>>, s)
  BY DEF DelegatedIn, InKind
<1>6. AmountAt(delband, k) \in Int
  BY AmountAtType DEF StakingTypeOK
<1>7. /\ InKind(delband, delbandSymbol, k, core_symbol) = AmountAt(delband, k)
      /\ \A s : s # core_symbol => InKind(delband, delbandSymbol, k, s) = 0
  BY <1>4 DEF InKind, AmountAt
<1>. HIDE DEF k, w
<1>8. \A j, s : InKind(delband', delbandSymbol', j, s)
                  = IF j = k THEN (IF s = core_symbol THEN w ELSE 0)
                    ELSE InKind(delband, delbandSymbol, j, s)
  <2>. DEFINE after == PutOrErase(delband, k, w)
  <2>1. \A j, s : InKind(after, Tagged(delbandSymbol, after), j, s)
                    = IF j = k THEN (IF s = core_symbol THEN w ELSE 0)
                      ELSE InKind(delband, delbandSymbol, j, s)
    BY ONLY <1>4, PutInKind
  <2>. QED  BY <1>1, <1>2, <2>1
<1>9. ASSUME NEW a, NEW t, NEW s
      PROVE  DelegatedIn(a, t, s)' = IF a = owner /\ t = r /\ s = core_symbol
                                     THEN DelegatedIn(a, t, s) + d ELSE DelegatedIn(a, t, s)
  <2>1. CASE <<a, t>> = k
    <3>1. CASE s = core_symbol
      BY <1>3, <1>5, <1>7, <1>8, <2>1, <3>1 DEF w
    <3>2. CASE s # core_symbol
      BY <1>3, <1>5, <1>7, <1>8, <2>1, <3>2
    <3>. QED  BY <3>1, <3>2
  <2>2. CASE <<a, t>> # k
    BY <1>3, <1>5, <1>8, <2>2
  <2>. QED  BY <2>1, <2>2
<1>. QED  BY <1>9

(* ... and the pending refund it draws on or adds to is in it, too.        *)
LEMMA ChangePendsInKind ==
  ASSUME StakingTypeOK, AccountTablesOK, RowsTagged,
         NEW owner \in Accounts, NEW d \in Int, update_refund(owner, d),
         owner \in DOMAIN refunds => refundSymbol[owner] = core_symbol
  PROVE  /\ PendingIn(owner, core_symbol) = Pending(owner)
         /\ \A a, s : PendingIn(a, s)' = IF a # owner THEN PendingIn(a, s)
                                         ELSE IF s = core_symbol THEN RefundLeft(owner, d) ELSE 0
         /\ \A s : s # core_symbol => PendingIn(owner, s) = 0
<1>. DEFINE left == RefundLeft(owner, d)
            row == [request_time |-> IF d < 0 THEN seconds ELSE refunds[owner].request_time,
                    cpu_amount |-> left]
<1>1. refunds' = IF left = 0 THEN Erase(refunds, owner) ELSE Upsert(refunds, owner, row)
  BY DEF update_refund
<1>2. row.cpu_amount = left
  OBVIOUS
<1>3. refundSymbol' = Tagged(refundSymbol, refunds') /\ refundSymbol \in [DOMAIN refunds -> Issued]
  BY DEF RowsTagged, AccountTablesOK, SymbolTablesOK
<1>4. /\ PendingIn(owner, core_symbol) = Pending(owner)
      /\ \A s : s # core_symbol => PendingIn(owner, s) = 0
  BY DEF PendingIn, Pending
<1>. HIDE DEF left, row
<1>5. CASE left = 0
  <2>1. /\ DOMAIN refunds' = DOMAIN refunds \ {owner}
        /\ \A i \in DOMAIN refunds \ {owner} : refunds'[i] = refunds[i]
    BY <1>1, <1>5 DEF Erase
  <2>2. \A i \in DOMAIN refunds \ {owner} : refundSymbol'[i] = refundSymbol[i]
    BY <1>3, <2>1 DEF Tagged
  <2>3. \A a, s : PendingIn(a, s)' = IF a # owner THEN PendingIn(a, s) ELSE 0
    BY <2>1, <2>2 DEF PendingIn
  <2>. QED  BY <1>4, <1>5, <2>3 DEF left
<1>6. CASE left # 0
  <2>1. /\ DOMAIN refunds' = DOMAIN refunds \cup {owner} /\ refunds'[owner] = row
        /\ \A i \in DOMAIN refunds \ {owner} : refunds'[i] = refunds[i]
    BY <1>1, <1>6 DEF Upsert
  <2>2. /\ refundSymbol'[owner] = core_symbol
        /\ \A i \in DOMAIN refunds \ {owner} : refundSymbol'[i] = refundSymbol[i]
    BY <1>3, <2>1 DEF Tagged
  <2>3. \A a, s : a # owner => PendingIn(a, s)' = PendingIn(a, s)
    BY <2>1, <2>2 DEF PendingIn
  <2>4. \A s : PendingIn(owner, s)' = IF s = core_symbol THEN left ELSE 0
    BY <1>2, <2>1, <2>2 DEF PendingIn
  <2>. QED  BY <1>4, <2>3, <2>4 DEF left
<1>. QED  BY <1>5, <1>6

DelegatedInBy(a, s) == SumFunctionOnSet([t \in Accounts |-> DelegatedIn(a, t, s)], Accounts)

(* One delegation changes, in one token.                                   *)
OnlyDelegates(owner, r, d, z) ==
  \A a, t, s : DelegatedIn(a, t, s)' = IF a = owner /\ t = r /\ s = z
                                       THEN DelegatedIn(a, t, s) + d ELSE DelegatedIn(a, t, s)

(* A row of delegations in one token, when one of them changes.            *)
LEMMA RowInKind ==
  ASSUME StakingTypeOK, NEW owner \in Accounts, NEW r \in Accounts, NEW d \in Int, NEW z,
         OnlyDelegates(owner, r, d, z)
  PROVE  \A a, s : DelegatedInBy(a, s)' = IF a = owner /\ s = z
                                          THEN DelegatedInBy(a, s) + d ELSE DelegatedInBy(a, s)
<1>. SUFFICES ASSUME NEW a, NEW s
              PROVE  DelegatedInBy(a, s)' = IF a = owner /\ s = z
                                            THEN DelegatedInBy(a, s) + d ELSE DelegatedInBy(a, s)
  OBVIOUS
<1>. DEFINE f == [t \in Accounts |-> DelegatedIn(a, t, s)]
            g == [t \in Accounts |-> DelegatedIn(a, t, s)']
<1>1. /\ DelegatedInBy(a, s) = SumFunctionOnSet(f, Accounts)
      /\ DelegatedInBy(a, s)' = SumFunctionOnSet(g, Accounts)
  BY DEF DelegatedInBy
<1>2. \A t \in Accounts : f[t] \in Int
  <2>1. \A t : DelegatedIn(a, t, s) \in Nat
    BY ClaimType
  <2>. QED  BY <2>1
<1>3. CASE ~(a = owner /\ s = z)
  <2>1. f = g
    BY <1>3 DEF OnlyDelegates
  <2>. QED  BY <1>1, <1>3, <2>1
<1>4. CASE a = owner /\ s = z
  <2>1. \A t \in Accounts : g[t] = IF t = r THEN f[t] + d ELSE f[t]
    BY <1>4 DEF OnlyDelegates
  <2>. HIDE DEF f, g
  <2>2. /\ IsFiniteSet(Accounts) /\ r \in Accounts
        /\ \A t \in Accounts : f[t] \in Int /\ g[t] \in Int
        /\ \A t \in Accounts \ {r} : f[t] = g[t]
    BY <1>2, <2>1
  <2>3. SumFunctionOnSet(g, Accounts) = SumFunctionOnSet(f, Accounts) + g[r] - f[r]
    BY ONLY <2>2, SumUpdate
  <2>4. SumFunctionOnSet(f, Accounts) \in Int
    <3>1. IsFiniteSet(Accounts) /\ Int \in {Int, Nat} /\ \A t \in Accounts : f[t] \in Int
      BY <1>2
    <3>. QED  BY ONLY <3>1, SumType
  <2>5. f[r] \in Int /\ g[r] = f[r] + d
    BY <1>2, <2>1
  <2>6. SumFunctionOnSet(g, Accounts) = SumFunctionOnSet(f, Accounts) + d
    BY <2>3, <2>4, <2>5
  <2>. QED  BY <1>1, <1>4, <2>6
<1>. QED  BY <1>3, <1>4

(* A claim in one token is what is delegated in it and what is pending.    *)
LEMMA ClaimIsBoth == \A a, s : ClaimIn(a, s) = DelegatedInBy(a, s) + PendingIn(a, s)
BY DEF ClaimIn, DelegatedInBy

LEMMA ClaimIsBothNext == (\A a, s : ClaimIn(a, s) = DelegatedInBy(a, s) + PendingIn(a, s))'
BY ClaimIsBoth, PTL

LEMMA DelegatedInByType ==
  ASSUME StakingTypeOK
  PROVE  \A a, s : DelegatedInBy(a, s) \in Nat
<1>1. ASSUME NEW a, NEW s
      PROVE  DelegatedInBy(a, s) \in Nat
  <2>. DEFINE f == [t \in Accounts |-> DelegatedIn(a, t, s)]
  <2>1. \A t \in Accounts : f[t] \in Nat
    BY ClaimType
  <2>. HIDE DEF f
  <2>2. SumFunctionOnSet(f, Accounts) \in Nat
    <3>1. IsFiniteSet(Accounts) /\ Nat \in {Int, Nat} /\ \A t \in Accounts : f[t] \in Nat
      BY <2>1
    <3>. QED  BY ONLY <3>1, SumType
  <2>. QED  BY <2>2 DEF DelegatedInBy, f
<1>. QED  BY <1>1

(* Staking and unstaking change the claims of one account in the core      *)
(* symbol and no others.                                                   *)
LEMMA ChangeClaims ==
  ASSUME StakingTypeOK, AccountTablesOK, RowsTagged, NEW from \in Accounts, NEW r \in Accounts,
         NEW d \in Int, NEW t \in BOOLEAN, changebw(from, r, d, t), InCoreSymbol(from, r, d, t)
  PROVE  LET owner == IF t THEN r ELSE from
         IN  \E p \in Int :
               /\ \A a, s : ClaimIn(a, s)' = IF a = owner /\ s = core_symbol
                                             THEN ClaimIn(a, s) + d + p ELSE ClaimIn(a, s)
               /\ \/ from = StakeAccount /\ p = 0
                  \/ /\ from # StakeAccount /\ ~TouchesRefund(owner, r, d, t)
                     /\ p = 0
                  \/ /\ from # StakeAccount /\ TouchesRefund(owner, r, d, t)
                     /\ update_refund(owner, d)
                     /\ p = RefundLeft(owner, d) - Pending(owner)
<1>. DEFINE owner == IF t THEN r ELSE from
            touches == TouchesRefund(owner, r, d, t)
<1>0. owner \in Accounts /\ RefundsOK
  BY StakingTypeSplit DEF StakeTypeOK
<1>1. update_delband(owner, r, d)
  BY DEF changebw
<1>2. /\ <<owner, r>> \in DOMAIN delband => delbandSymbol[<<owner, r>>] = core_symbol
      /\ from # StakeAccount /\ touches /\ owner \in DOMAIN refunds
           => refundSymbol[owner] = core_symbol
  BY DEF InCoreSymbol, SymbolsFit
<1>3. /\ from = StakeAccount \/ ~touches => refunds' = refunds
      /\ from # StakeAccount /\ touches => update_refund(owner, d)
  BY DEF changebw
<1>. HIDE DEF owner, touches
<1>4. \A a, s : DelegatedInBy(a, s)' = IF a = owner /\ s = core_symbol
                                       THEN DelegatedInBy(a, s) + d ELSE DelegatedInBy(a, s)
  <2>1. OnlyDelegates(owner, r, d, core_symbol)
    BY <1>0, <1>1, <1>2, ChangeDelegatesInKind DEF OnlyDelegates
  <2>2. StakingTypeOK /\ owner \in Accounts /\ r \in Accounts /\ d \in Int
    BY <1>0
  <2>. QED  BY ONLY <2>1, <2>2, RowInKind, VotingAssumption, StakingAssumption, AccountsAssumption
<1>5. \A a, s : DelegatedInBy(a, s) \in Nat /\ PendingIn(a, s) \in Nat
  BY ClaimType, DelegatedInByType
<1>6. CASE from = StakeAccount \/ ~touches
  <2>1. \A a, s : PendingIn(a, s)' = PendingIn(a, s)
    BY <1>3, <1>6, PendingStays
  <2>2. \A a, s : ClaimIn(a, s)' = IF a = owner /\ s = core_symbol
                                   THEN ClaimIn(a, s) + d + 0 ELSE ClaimIn(a, s)
    BY <1>4, <1>5, <2>1, ClaimIsBoth, ClaimIsBothNext
  <2>. QED  BY <1>6, <2>2 DEF owner, touches
<1>7. CASE from # StakeAccount /\ touches
  <2>. DEFINE p == RefundLeft(owner, d) - Pending(owner)
  <2>1. Pending(owner) \in Nat
    BY <1>0, PendingType
  <2>2. RefundLeft(owner, d) \in Int
    BY <2>1 DEF RefundLeft
  <2>3. /\ PendingIn(owner, core_symbol) = Pending(owner)
        /\ \A a, s : PendingIn(a, s)' = IF a # owner THEN PendingIn(a, s)
                                        ELSE IF s = core_symbol THEN RefundLeft(owner, d) ELSE 0
        /\ \A s : s # core_symbol => PendingIn(owner, s) = 0
    BY <1>0, <1>2, <1>3, <1>7, ChangePendsInKind
  <2>4. \A a, s : PendingIn(a, s)' = IF a = owner /\ s = core_symbol
                                     THEN PendingIn(a, s) + p ELSE PendingIn(a, s)
    BY <2>1, <2>2, <2>3
  <2>5. p \in Int
    BY <2>1, <2>2
  <2>. HIDE DEF p
  <2>6. \A a, s : ClaimIn(a, s)' = IF a = owner /\ s = core_symbol
                                   THEN ClaimIn(a, s) + d + p ELSE ClaimIn(a, s)
    BY <1>4, <1>5, <2>4, <2>5, ClaimIsBoth, ClaimIsBothNext
  <2>7. update_refund(owner, d)
    BY <1>3, <1>7
  <2>. QED  BY <1>7, <2>5, <2>6, <2>7 DEF p, owner, touches
<1>. QED  BY <1>6, <1>7

(* A refund lowers one claim, in the token the refund is in.               *)
LEMMA RefundClaims ==
  ASSUME StakingTypeOK, AccountTablesOK, RowsTagged, NEW b \in Accounts, refund(b),
         delband' = delband
  PROVE  /\ \A a, s : ClaimIn(a, s)' = IF a = b /\ s = refundSymbol[b]
                                       THEN ClaimIn(a, s) - refunds[b].cpu_amount ELSE ClaimIn(a, s)
         /\ b \in DOMAIN refunds /\ b \notin DOMAIN refunds' /\ b # StakeAccount
         /\ refunds[b].cpu_amount \in Nat /\ refundSymbol[b] \in Issued
         /\ seconds >= refunds[b].request_time + refund_delay_sec
<1>1. /\ b \in DOMAIN refunds /\ refunds' = Erase(refunds, b) /\ b # StakeAccount
      /\ 2 * (refunds[b].request_time + refund_delay_sec) <= slot
  BY DEF refund
<1>2. /\ refunds[b].cpu_amount \in Nat /\ refunds[b].request_time \in Nat /\ slot \in Nat
      /\ refundSymbol \in [DOMAIN refunds -> Issued]
  BY <1>1 DEF StakingTypeOK, VotingTypeOK, IsTable, Refund, AccountTablesOK, SymbolTablesOK
<1>3. /\ DOMAIN refunds' = DOMAIN refunds \ {b}
      /\ \A i \in DOMAIN refunds' : refunds'[i] = refunds[i] /\ refundSymbol'[i] = refundSymbol[i]
  BY <1>1, <1>2 DEF Erase, RowsTagged, Tagged
<1>4. \A a, s : PendingIn(a, s)' = IF a = b THEN 0 ELSE PendingIn(a, s)
  BY <1>3 DEF PendingIn
<1>5. \A s : PendingIn(b, s) = IF s = refundSymbol[b] THEN refunds[b].cpu_amount ELSE 0
  BY <1>1 DEF PendingIn
<1>6. \A a, s : DelegatedInBy(a, s)' = DelegatedInBy(a, s)
  BY DelegationsStay DEF DelegatedInBy
<1>7. \A a, s : DelegatedInBy(a, s) \in Nat /\ PendingIn(a, s) \in Nat
  BY ClaimType, DelegatedInByType
<1>8. \A a, s : ClaimIn(a, s)' = IF a = b /\ s = refundSymbol[b]
                                 THEN ClaimIn(a, s) - refunds[b].cpu_amount ELSE ClaimIn(a, s)
  BY <1>2, <1>4, <1>5, <1>6, <1>7, ClaimIsBoth, ClaimIsBothNext
<1>9. seconds >= refunds[b].request_time + refund_delay_sec
  BY <1>1, <1>2 DEF seconds
<1>. QED  BY <1>1, <1>2, <1>3, <1>8, <1>9

(* What any step does to the claims.                                       *)
LEMMA ClaimCases ==
  ASSUME StakingTypeOK, AccountTablesOK, [AccountsNext]_accountsVars
  PROVE  \/ /\ \A a, s : ClaimIn(a, s)' = ClaimIn(a, s)
            /\ \/ held' = held
               \/ \E s \in Issued, x \in Signers \cup Creators, y \in Accounts, n \in Nat :
                    x # y /\ Moved(s, x, y, n)
         \/ \E from \in Signers, r \in Receivers, d \in Int, t \in BOOLEAN :
              /\ d # 0 /\ (d < 0 => ~t)
              /\ changebw(from, r, d, t) /\ InCoreSymbol(from, r, d, t) /\ RowsTagged
         \/ \E b \in Accounts :
              refund(b) /\ PaysBack(b) /\ delband' = delband /\ RowsTagged
<1>. DEFINE Same == \A a, s : ClaimIn(a, s)' = ClaimIn(a, s)
            Aside == \/ held' = held
                     \/ \E s \in Issued, x \in Signers \cup Creators, y \in Accounts, n \in Nat :
                          x # y /\ Moved(s, x, y, n)
            Changes == \E from \in Signers, r \in Receivers, d \in Int, t \in BOOLEAN :
                         /\ d # 0 /\ (d < 0 => ~t)
                         /\ changebw(from, r, d, t) /\ InCoreSymbol(from, r, d, t) /\ RowsTagged
            Refunds == \E b \in Accounts :
                         refund(b) /\ PaysBack(b) /\ delband' = delband /\ RowsTagged
<1>0. ASSUME RowsTagged, UNCHANGED <<delband, refunds>>
      PROVE  Same
  <2>1. \A a, s : DelegatedInBy(a, s)' = DelegatedInBy(a, s)
    BY <1>0, DelegationsStay DEF DelegatedInBy
  <2>2. \A a, s : PendingIn(a, s)' = PendingIn(a, s)
    BY <1>0, PendingStays
  <2>. QED  BY <2>1, <2>2, ClaimIsBoth, ClaimIsBothNext
<1>1. ASSUME UNCHANGED accountsVars
      PROVE  Same
  <2>1. UNCHANGED <<delband, refunds, delbandSymbol, refundSymbol>>
    BY <1>1 DEF accountsVars, symbolVars, stakingVars, stakeVars
  <2>. QED  BY <2>1 DEF ClaimIn, DelegatedIn, PendingIn
<1>2. ASSUME RowsTagged, (\E s \in Symbols : init(s))
                         \/ \E s \in Symbols, n \in FeeAmounts : setacntfee(s, n)
      PROVE  Same /\ held' = held
  BY <1>0, <1>2 DEF init, setacntfee, stakingVars, stakeVars
<1>3. ASSUME RowsTagged, NEW c \in Creators, NEW b \in Accounts, newaccount(c, b)
      PROVE  Same /\ Aside
  <2>1. Same
    BY <1>0, <1>3 DEF newaccount
  <2>2. CASE PayFee(c)
    <3>. DEFINE n == account_creation_fee.amount
                s == account_creation_fee.symbol
    <3>1. n \in Nat /\ s \in Issued /\ c # SavingAccount /\ SavingAccount \in Accounts
      BY <2>2 DEF PayFee, AccountTablesOK, SinglesOK, FeeOK
    <3>2. Moved(s, c, SavingAccount, n)
      BY <2>2 DEF PayFee
    <3>. HIDE DEF n, s, Same
    <3>. QED  BY <2>1, <3>1, <3>2
  <2>3. CASE held' = held
    BY <2>1, <2>3
  <2>. QED  BY <1>3, <2>2, <2>3 DEF newaccount
<1>4. ASSUME RowsTagged, NEW from \in Signers, NEW r \in Receivers, StakeFrom(from, r)
      PROVE  Changes
  BY <1>4, StakeFromIsChange
<1>5. ASSUME RowsTagged, OtherSteps
      PROVE  (Same /\ Aside) \/ Refunds
  <2>1. ASSUME NEW b \in Accounts, RefundByOwner(b), PaysBack(b)
        PROVE  Refunds
    BY <1>5, <2>1 DEF RefundByOwner
  <2>2. ASSUME NEW b \in Accounts, RunDeferred(b),
               IF refunds' = refunds THEN UNCHANGED held ELSE PaysBack(b)
        PROVE  (Same /\ Aside) \/ Refunds
    <3>1. delband' = delband
      BY <2>2 DEF RunDeferred
    <3>2. CASE refund(b) /\ PaysBack(b)
      BY <1>5, <3>1, <3>2
    <3>3. CASE UNCHANGED <<refunds, held, balance>>
      <4>1. Same
        BY <1>0, <1>5, <3>1, <3>3
      <4>. HIDE DEF Same
      <4>. QED  BY <3>3, <4>1
    <3>. QED  BY <2>2, <3>2, <3>3, DeferredPays
  <2>3. ASSUME NEW b, NEW l, setalimits(b, l), UNCHANGED held
        PROVE  Same /\ Aside
    BY <1>0, <1>5, <2>3 DEF setalimits
  <2>4. ASSUME NEW from \in Signers, NEW to \in Receivers, NEW q \in Quantities, NEW s \in Issued,
               TokenTransfer(from, to, q), Moved(s, from, to, q)
        PROVE  Same /\ Aside
    <3>1. to \in Accounts /\ q \in Nat /\ from # to
      BY <2>4 DEF TokenTransfer
    <3>2. Same
      BY <1>0, <1>5, <2>4 DEF TokenTransfer
    <3>. HIDE DEF Same
    <3>. QED  BY <2>4, <3>1, <3>2
  <2>5. ASSUME UNCHANGED <<stakeVars, held>>
        PROVE  Same /\ Aside
    BY <1>0, <1>5, <2>5 DEF stakeVars
  <2>. HIDE DEF Same, Aside, Refunds
  <2>. QED  BY <1>5, <2>1, <2>2, <2>3, <2>4, <2>5 DEF OtherSteps
<1>6. Same /\ held' = held => Same /\ Aside
  OBVIOUS
<1>. HIDE DEF Same, Aside, Changes, Refunds
<1>7. (Same /\ Aside) \/ Changes \/ Refunds
  <2>1. CASE AccountsNext
    BY <1>2, <1>3, <1>4, <1>5, <1>6, <2>1 DEF AccountsNext, AccountsActions
  <2>2. CASE UNCHANGED accountsVars
    <3>1. held' = held
      BY <2>2 DEF accountsVars
    <3>. QED  BY <1>1, <1>6, <2>2, <3>1
  <2>. QED  BY <2>1, <2>2
<1>. QED  BY <1>7 DEF Same, Aside, Changes, Refunds

LEMMA ClaimInKindStep ==
  ASSUME StakingTypeOK, AccountTablesOK, [AccountsNext]_accountsVars,
         NEW a \in Accounts, a # StakeAccount, NEW s \in Issued, ClaimIn(a, s)' < ClaimIn(a, s)
  PROVE  /\ a \in DOMAIN refunds /\ a \notin DOMAIN refunds' /\ refundSymbol[a] = s
         /\ seconds >= refunds[a].request_time + refund_delay_sec
         /\ ClaimIn(a, s)' = ClaimIn(a, s) - refunds[a].cpu_amount
         /\ held'[<<a, s>>] = held[<<a, s>>] + refunds[a].cpu_amount
<1>1. ClaimIn(a, s) \in Nat
  BY ClaimType
<1>2. ~ \A b, z : ClaimIn(b, z)' = ClaimIn(b, z)
  BY <1>1
<1>3. ASSUME NEW from \in Signers, NEW r \in Receivers, NEW d \in Int, NEW t \in BOOLEAN,
             d # 0, d < 0 => ~t,
             changebw(from, r, d, t), InCoreSymbol(from, r, d, t), RowsTagged
      PROVE  FALSE
  <2>. DEFINE owner == IF t THEN r ELSE from
              touches == TouchesRefund(owner, r, d, t)
  <2>1. PICK p \in Int :
          /\ \A b, z : ClaimIn(b, z)' = IF b = owner /\ z = core_symbol
                                        THEN ClaimIn(b, z) + d + p ELSE ClaimIn(b, z)
          /\ \/ from = StakeAccount /\ p = 0
             \/ /\ from # StakeAccount /\ ~touches
                /\ p = 0
             \/ /\ from # StakeAccount /\ touches
                /\ update_refund(owner, d)
                /\ p = RefundLeft(owner, d) - Pending(owner)
    <3>1. from \in Accounts /\ r \in Accounts
      OBVIOUS
    <3>. QED  BY <1>3, <3>1, ChangeClaims
  <2>2. Pending(owner) \in Nat
    BY StakingTypeSplit, PendingType DEF StakeTypeOK
  <2>3. d < 0 => touches /\ owner = from
    BY <1>3 DEF TouchesRefund
  <2>. HIDE DEF owner, touches
  <2>4. a = owner /\ ClaimIn(a, s)' = ClaimIn(a, s) + d + p
    BY <1>1, <2>1
  <2>5. d + p < 0
    BY <1>1, <2>1, <2>4
  <2>6. CASE from = StakeAccount /\ p = 0
    BY <2>3, <2>4, <2>5, <2>6
  <2>7. CASE ~touches /\ p = 0
    BY <2>3, <2>5, <2>7
  <2>8. CASE p = RefundLeft(owner, d) - Pending(owner)
    BY <2>2, <2>5, <2>8 DEF RefundLeft
  <2>. QED  BY <2>1, <2>6, <2>7, <2>8
<1>4. PICK b \in Accounts : refund(b) /\ PaysBack(b) /\ delband' = delband /\ RowsTagged
  BY <1>2, <1>3, ClaimCases
<1>5. /\ \A c, z : ClaimIn(c, z)' = IF c = b /\ z = refundSymbol[b]
                                    THEN ClaimIn(c, z) - refunds[b].cpu_amount ELSE ClaimIn(c, z)
      /\ b \in DOMAIN refunds /\ b \notin DOMAIN refunds' /\ b # StakeAccount
      /\ refunds[b].cpu_amount \in Nat /\ refundSymbol[b] \in Issued
      /\ seconds >= refunds[b].request_time + refund_delay_sec
  BY <1>4, RefundClaims
<1>6. a = b /\ s = refundSymbol[b]
  BY <1>1, <1>5
<1>7. held'[<<a, s>>] = held[<<a, s>>] + refunds[a].cpu_amount
  <2>. DEFINE n == refunds[a].cpu_amount
  <2>1. /\ held \in [Accounts \X Issued -> Nat] /\ s \in Issued /\ StakeAccount \in Accounts
        /\ a \in Accounts /\ StakeAccount # a /\ n \in Nat /\ Moved(s, StakeAccount, a, n)
    BY <1>4, <1>5, <1>6 DEF AccountTablesOK, BooksOK, PaysBack
  <2>. HIDE DEF n
  <2>2. held'[<<a, s>>] = held[<<a, s>>] + n
    <3>1. /\ held' \in [Accounts \X Issued -> Nat] /\ n <= held[<<StakeAccount, s>>]
          /\ \A x \in Accounts, z \in Issued :
               held'[<<x, z>>] = IF z # s THEN held[<<x, z>>]
                                 ELSE IF x = StakeAccount THEN held[<<x, z>>] - n
                                 ELSE IF x = a THEN held[<<x, z>>] + n
                                 ELSE held[<<x, z>>]
      BY ONLY <2>1, MovedTokens, VotingAssumption, StakingAssumption, AccountsAssumption
    <3>. QED  BY ONLY <2>1, <3>1
  <2>. QED  BY <2>2 DEF n
<1>. QED  BY <1>5, <1>6, <1>7

(* Stakes and refunds come back in the token they were staked in, after    *)
(* the delay and in full, however often init names another core symbol.    *)
THEOREM ClaimsAlwaysInKind == AccountsSpec => ClaimsComeBackInKind
<1>1. AccountsInv /\ [AccountsNext]_accountsVars =>
        [\A a \in Accounts \ {StakeAccount}, s \in Issued :
           ClaimIn(a, s)' < ClaimIn(a, s) =>
             /\ a \in DOMAIN refunds /\ a \notin DOMAIN refunds' /\ refundSymbol[a] = s
             /\ seconds >= refunds[a].request_time + refund_delay_sec
             /\ ClaimIn(a, s)' = ClaimIn(a, s) - refunds[a].cpu_amount
             /\ held'[<<a, s>>] = held[<<a, s>>] + refunds[a].cpu_amount]_accountsVars
  <2>1. AccountsInv => StakingTypeOK /\ AccountTablesOK
    BY DEF AccountsInv, StakingInv
  <2>. QED  BY <2>1, ClaimInKindStep
<1>. QED  BY <1>1, AccountsInvAlways, PTL DEF AccountsSpec, ClaimsComeBackInKind

(* All claims in one token, when one of them changes.                      *)
ClaimsIn(s) == SumFunctionOnSet([a \in Accounts |-> ClaimIn(a, s)], Accounts)

LEMMA ClaimsType ==
  ASSUME StakingTypeOK
  PROVE  \A s : ClaimsIn(s) \in Nat
<1>1. ASSUME NEW s
      PROVE  ClaimsIn(s) \in Nat
  <2>. DEFINE f == [a \in Accounts |-> ClaimIn(a, s)]
  <2>1. IsFiniteSet(Accounts) /\ Nat \in {Int, Nat} /\ \A a \in Accounts : f[a] \in Nat
    BY ClaimType
  <2>. HIDE DEF f
  <2>2. SumFunctionOnSet(f, Accounts) \in Nat
    BY ONLY <2>1, SumType
  <2>. QED  BY <2>2 DEF ClaimsIn, f
<1>. QED  BY <1>1

LEMMA OneClaimMoves ==
  ASSUME StakingTypeOK, NEW b \in Accounts, NEW z, NEW e \in Int,
         \A a, s : ClaimIn(a, s)' = IF a = b /\ s = z THEN ClaimIn(a, s) + e ELSE ClaimIn(a, s)
  PROVE  \A s : ClaimsIn(s)' = IF s = z THEN ClaimsIn(s) + e ELSE ClaimsIn(s)
<1>. SUFFICES ASSUME NEW s
              PROVE  ClaimsIn(s)' = IF s = z THEN ClaimsIn(s) + e ELSE ClaimsIn(s)
  OBVIOUS
<1>. DEFINE f == [a \in Accounts |-> ClaimIn(a, s)]
            g == [a \in Accounts |-> ClaimIn(a, s)']
<1>1. ClaimsIn(s) = SumFunctionOnSet(f, Accounts) /\ ClaimsIn(s)' = SumFunctionOnSet(g, Accounts)
  BY DEF ClaimsIn
<1>2. \A a \in Accounts : f[a] \in Int
  BY ClaimType
<1>3. CASE s # z
  <2>1. f = g
    BY <1>3
  <2>. QED  BY <1>1, <1>3, <2>1
<1>4. CASE s = z
  <2>1. \A a \in Accounts : g[a] = IF a = b THEN f[a] + e ELSE f[a]
    BY <1>4
  <2>. HIDE DEF f, g
  <2>2. /\ IsFiniteSet(Accounts) /\ b \in Accounts
        /\ \A a \in Accounts : f[a] \in Int /\ g[a] \in Int
        /\ \A a \in Accounts \ {b} : f[a] = g[a]
    BY <1>2, <2>1
  <2>3. SumFunctionOnSet(g, Accounts) = SumFunctionOnSet(f, Accounts) + g[b] - f[b]
    BY ONLY <2>2, SumUpdate
  <2>4. SumFunctionOnSet(f, Accounts) \in Nat
    BY <1>1, ClaimsType
  <2>5. f[b] \in Int /\ g[b] = f[b] + e
    BY <1>2, <2>1
  <2>6. SumFunctionOnSet(g, Accounts) = SumFunctionOnSet(f, Accounts) + e
    BY <2>3, <2>4, <2>5
  <2>. QED  BY <1>1, <1>4, <2>6
<1>. QED  BY <1>3, <1>4

(* What the stake account has of a token rises by what others move to it.  *)
LEMMA VaultGains ==
  ASSUME BooksOK, NEW x \in Accounts, NEW y \in Accounts, x # y,
         NEW z \in Issued, NEW n \in Nat, Moved(z, x, y, n)
  PROVE  \A s \in Issued :
           /\ held[<<StakeAccount, s>>] \in Nat
           /\ held'[<<StakeAccount, s>>]
                = IF s # z THEN held[<<StakeAccount, s>>]
                  ELSE IF x = StakeAccount THEN held[<<StakeAccount, s>>] - n
                  ELSE IF y = StakeAccount THEN held[<<StakeAccount, s>>] + n
                  ELSE held[<<StakeAccount, s>>]
<1>1. /\ held \in [Accounts \X Issued -> Nat] /\ z \in Issued /\ StakeAccount \in Accounts
      /\ x \in Accounts /\ y \in Accounts /\ x # y /\ n \in Nat /\ Moved(z, x, y, n)
  BY DEF BooksOK
<1>2. /\ held' \in [Accounts \X Issued -> Nat] /\ n <= held[<<x, z>>]
      /\ \A a \in Accounts, s \in Issued :
           held'[<<a, s>>] = IF s # z THEN held[<<a, s>>]
                             ELSE IF a = x THEN held[<<a, s>>] - n
                             ELSE IF a = y THEN held[<<a, s>>] + n
                             ELSE held[<<a, s>>]
  BY ONLY <1>1, MovedTokens, VotingAssumption, StakingAssumption, AccountsAssumption
<1>3. \A s \in Issued : held[<<StakeAccount, s>>] \in Nat
  BY <1>1
<1>. QED  BY ONLY <1>1, <1>2, <1>3

LEMMA ShortType == StakingTypeOK /\ AccountTablesOK => \A z \in Issued : ShortOf(z) \in Int
<1>. SUFFICES ASSUME StakingTypeOK, AccountTablesOK, NEW z \in Issued
              PROVE  ShortOf(z) \in Int
  OBVIOUS
<1>1. ClaimsIn(z) \in Nat
  BY ClaimsType
<1>2. held[<<StakeAccount, z>>] \in Nat
  BY DEF AccountTablesOK, BooksOK
<1>3. ShortOf(z) = ClaimsIn(z) - held[<<StakeAccount, z>>]
  BY DEF ShortOf, ClaimsIn
<1>. QED  BY <1>1, <1>2, <1>3

LEMMA ShortTypeNext ==
  (StakingTypeOK /\ AccountTablesOK => \A z \in Issued : ShortOf(z) \in Int)'
BY ShortType, PTL

(* Nobody but who restakes beyond its pending refund makes the stake       *)
(* account come short of a token.                                          *)
LEMMA ShortStep ==
  ASSUME StakeAccount \notin Signers \cup Creators, StakingTypeOK, AccountTablesOK,
         [AccountsNext]_accountsVars, NEW s \in Issued, ShortOf(s)' > ShortOf(s)
  PROVE  s = core_symbol /\ \E a \in Accounts : RestakesBeyondRefund(a)
<1>. DEFINE has == held[<<StakeAccount, s>>]
<1>1. /\ ShortOf(s) = ClaimsIn(s) - has
      /\ ShortOf(s)' = ClaimsIn(s)' - held'[<<StakeAccount, s>>]
  BY DEF ShortOf, ClaimsIn
<1>2. ClaimsIn(s) \in Nat /\ has \in Nat /\ BooksOK
  BY ClaimsType DEF AccountTablesOK, BooksOK
<1>3. ASSUME \A a, z : ClaimIn(a, z)' = ClaimIn(a, z),
             \/ held' = held
             \/ \E z \in Issued, x \in Signers \cup Creators, y \in Accounts, n \in Nat :
                  x # y /\ Moved(z, x, y, n)
      PROVE  FALSE
  <2>1. ClaimsIn(s)' = ClaimsIn(s)
    BY <1>3 DEF ClaimsIn
  <2>2. held'[<<StakeAccount, s>>] >= has /\ held'[<<StakeAccount, s>>] \in Nat
    <3>1. CASE held' = held
      BY <1>2, <3>1
    <3>2. ASSUME NEW z \in Issued, NEW x \in Signers \cup Creators, NEW y \in Accounts,
                 NEW n \in Nat, x # y, Moved(z, x, y, n)
          PROVE  held'[<<StakeAccount, s>>] >= has /\ held'[<<StakeAccount, s>>] \in Nat
      <4>1. x \in Accounts /\ x # StakeAccount
        BY <3>2
      <4>2. held'[<<StakeAccount, s>>] = IF s # z THEN has
                  ELSE IF x = StakeAccount THEN has - n
                  ELSE IF y = StakeAccount THEN has + n
                  ELSE has
        BY <1>2, <3>2, <4>1, VaultGains
      <4>. HIDE DEF has
      <4>. QED  BY <1>2, <4>1, <4>2
    <3>. QED  BY <1>3, <3>1, <3>2
  <2>. HIDE DEF has
  <2>. QED  BY <1>1, <1>2, <2>1, <2>2
<1>4. ASSUME NEW b \in Accounts, refund(b), PaysBack(b), delband' = delband, RowsTagged
      PROVE  FALSE
  <2>. DEFINE n == refunds[b].cpu_amount
              z == refundSymbol[b]
  <2>1. /\ \A a, y : ClaimIn(a, y)' = IF a = b /\ y = z THEN ClaimIn(a, y) - n ELSE ClaimIn(a, y)
        /\ b # StakeAccount /\ n \in Nat /\ z \in Issued
    BY <1>4, RefundClaims
  <2>2. Moved(z, StakeAccount, b, n)
    BY <1>4 DEF PaysBack
  <2>. HIDE DEF n, z
  <2>3. \A a, y : ClaimIn(a, y)' = IF a = b /\ y = z THEN ClaimIn(a, y) + (0 - n) ELSE ClaimIn(a, y)
    BY <2>1, ClaimType
  <2>4. 0 - n \in Int
    BY <2>1
  <2>5. ClaimsIn(s)' = IF s = z THEN ClaimsIn(s) + (0 - n) ELSE ClaimsIn(s)
    BY <2>3, <2>4, OneClaimMoves
  <2>6. held'[<<StakeAccount, s>>] = IF s # z THEN has ELSE has - n
    BY <1>2, <2>1, <2>2, VaultGains
  <2>. HIDE DEF has
  <2>. QED  BY <1>1, <1>2, <2>1, <2>5, <2>6
<1>5. ASSUME NEW from \in Signers, NEW r \in Receivers, NEW d \in Int, NEW t \in BOOLEAN,
             d # 0, d < 0 => ~t,
             changebw(from, r, d, t), InCoreSymbol(from, r, d, t), RowsTagged
      PROVE  s = core_symbol /\ \E a \in Accounts : RestakesBeyondRefund(a)
  <2>. DEFINE owner == IF t THEN r ELSE from
              touches == TouchesRefund(owner, r, d, t)
              charge == Charge(owner, r, d, t)
  <2>0. /\ from \in Accounts /\ r \in Accounts /\ owner \in Accounts /\ from # StakeAccount
        /\ core_symbol \in Issued
    BY <1>5 DEF InCoreSymbol, AccountTablesOK, SinglesOK
  <2>1. PICK p \in Int :
          /\ \A b, z : ClaimIn(b, z)' = IF b = owner /\ z = core_symbol
                                        THEN ClaimIn(b, z) + d + p ELSE ClaimIn(b, z)
          /\ \/ ~touches /\ p = 0
             \/ touches /\ update_refund(owner, d) /\ p = RefundLeft(owner, d) - Pending(owner)
    BY <1>5, <2>0, ChangeClaims
  <2>2. /\ charge \in Nat
        /\ (UNCHANGED held /\ charge = 0) \/ Moved(core_symbol, from, StakeAccount, charge)
    BY <1>5, <2>0, ChangeMoves, ChargeType
  <2>3. RefundsOK /\ Pending(owner) \in Nat
    BY StakingTypeSplit, PendingType DEF StakeTypeOK
  <2>4. charge = IF d < 0 \/ (touches /\ owner \in DOMAIN refunds) THEN 0 ELSE d
    BY DEF Charge
  <2>5. d < 0 => touches
    BY DEF TouchesRefund
  <2>6. (owner \in DOMAIN refunds <=> Pending(owner) > 0)
        /\ (owner \in DOMAIN refunds => Pending(owner) = refunds[owner].cpu_amount)
    BY <2>3, RowIfPending DEF Pending
  <2>7. d > 0 => StakedBy(owner)' = StakedBy(owner) + d /\ StakedBy(owner) \in Nat
    <3>1. VotingTypeOK /\ StakeTypeOK
      BY StakingTypeSplit
    <3>2. d > 0 => d \in Nat \ {0}
      OBVIOUS
    <3>. QED  BY <1>5, <2>0, <3>1, <3>2, StakeMoves, StakedType
  <2>. HIDE DEF owner, touches, charge
  <2>8. ClaimsIn(s)' = IF s = core_symbol THEN ClaimsIn(s) + (d + p) ELSE ClaimsIn(s)
    <3>1. \A b, z : ClaimIn(b, z)' = IF b = owner /\ z = core_symbol
                                     THEN ClaimIn(b, z) + (d + p) ELSE ClaimIn(b, z)
      BY <2>1, ClaimType
    <3>2. d + p \in Int
      OBVIOUS
    <3>. QED  BY <2>0, <3>1, <3>2, OneClaimMoves
  <2>9. held'[<<StakeAccount, s>>] = IF s = core_symbol THEN has + charge ELSE has
    <3>1. CASE UNCHANGED held /\ charge = 0
      <4>1. held'[<<StakeAccount, s>>] = has
        BY <3>1
      <4>. HIDE DEF has
      <4>. QED  BY <1>2, <3>1, <4>1
    <3>2. CASE Moved(core_symbol, from, StakeAccount, charge)
      BY <1>2, <2>0, <2>2, <3>2, VaultGains
    <3>. QED  BY <2>2, <3>1, <3>2
  <2>. HIDE DEF has
  <2>10. s = core_symbol /\ d + p > charge
    BY <1>1, <1>2, <2>2, <2>8, <2>9
  <2>11. touches /\ p = RefundLeft(owner, d) - Pending(owner) /\ update_refund(owner, d)
    BY <2>1, <2>4, <2>5, <2>10
  <2>12. RefundLeft(owner, d) = IF Pending(owner) - d < 0 THEN 0 ELSE Pending(owner) - d
    BY DEF RefundLeft
  <2>13. d > 0 /\ owner \in DOMAIN refunds /\ d > Pending(owner) /\ RefundLeft(owner, d) = 0
    BY <2>2, <2>3, <2>4, <2>6, <2>10, <2>11, <2>12
  <2>14. owner \notin DOMAIN refunds'
    BY <2>11, <2>13 DEF update_refund, Erase
  <2>15. RestakesBeyondRefund(owner)
    BY <2>3, <2>6, <2>7, <2>13, <2>14 DEF RestakesBeyondRefund
  <2>. QED  BY <2>0, <2>10, <2>15
<1>. QED  BY <1>3, <1>4, <1>5, ClaimCases

(* The tokens of one kind are never used to pay those of another, and only *)
(* an uncharged restake takes on a debt nothing is there for, as long as   *)
(* the stake account itself does not act.                                  *)
THEOREM OnlyRestakingEverShortens ==
  ASSUME StakeAccount \notin Signers \cup Creators
  PROVE  AccountsSpec => OnlyRestakingShortens
<1>1. AccountsInv /\ [AccountsNext]_accountsVars =>
        [\A s \in Issued : ShortOf(s)' > ShortOf(s) =>
           s = core_symbol /\ \E a \in Accounts : RestakesBeyondRefund(a)]_accountsVars
  <2>1. AccountsInv => StakingTypeOK /\ AccountTablesOK
    BY DEF AccountsInv, StakingInv
  <2>. QED  BY <2>1, ShortStep
<1>. QED  BY <1>1, AccountsInvAlways, PTL DEF AccountsSpec, OnlyRestakingShortens

(* So without such restakes the stake account has, of every token, what it *)
(* owes in it.                                                             *)
SolventInKind == \A s \in Issued : ShortOf(s) <= 0

THEOREM SolventInEveryKind ==
  ASSUME StakeAccount \notin Signers \cup Creators
  PROVE  AccountsSpec /\ RestakesArePaid => []SolventInKind
<1>1. AccountsInit => SolventInKind
  <2>. SUFFICES ASSUME AccountsInit, NEW s \in Issued
                PROVE  ShortOf(s) <= 0
    BY DEF SolventInKind
  <2>. DEFINE f == [a \in Accounts |-> ClaimIn(a, s)]
  <2>1. delband = EmptyTable /\ refunds = EmptyTable /\ held = Holdings
    BY DEF AccountsInit, StakingInit
  <2>2. \A a, z : PendingIn(a, z) = 0 /\ \A t : DelegatedIn(a, t, z) = 0
    BY <2>1 DEF EmptyTable, PendingIn, DelegatedIn
  <2>3. \A a \in Accounts : f[a] = 0
    <3>. SUFFICES ASSUME NEW a \in Accounts
                  PROVE  f[a] = 0
      OBVIOUS
    <3>. DEFINE row == [t \in Accounts |-> DelegatedIn(a, t, s)]
    <3>1. ClaimIn(a, s) = SumFunctionOnSet(row, Accounts) + 0 /\ \A t \in Accounts : row[t] = 0
      BY <2>2 DEF ClaimIn
    <3>. HIDE DEF row
    <3>2. SumFunctionOnSet(row, Accounts) = 0
      BY <3>1, SumZero
    <3>. QED  BY <3>1, <3>2
  <2>4. ShortOf(s) = SumFunctionOnSet(f, Accounts) - held[<<StakeAccount, s>>]
    BY DEF ShortOf
  <2>. HIDE DEF f
  <2>5. SumFunctionOnSet(f, Accounts) = 0
    BY <2>3, SumZero
  <2>6. held[<<StakeAccount, s>>] \in Nat
    BY <2>1
  <2>. QED  BY <2>4, <2>5, <2>6
<1>2. /\ AccountsInv /\ AccountsInv' /\ SolventInKind /\ [AccountsNext]_accountsVars
      /\ [~ \E a \in Accounts : RestakesBeyondRefund(a)]_stakingVars
      => SolventInKind'
  <2>. SUFFICES ASSUME AccountsInv, AccountsInv', SolventInKind, [AccountsNext]_accountsVars,
                       [~ \E a \in Accounts : RestakesBeyondRefund(a)]_stakingVars,
                       NEW s \in Issued
                PROVE  ShortOf(s)' <= 0
    BY DEF SolventInKind
  <2>1. StakingTypeOK /\ AccountTablesOK /\ StakingTypeOK' /\ AccountTablesOK'
    BY DEF AccountsInv, StakingInv
  <2>2. ~ \E a \in Accounts : RestakesBeyondRefund(a)
    <3>1. CASE UNCHANGED stakingVars
      BY <3>1 DEF stakingVars, stakeVars, RestakesBeyondRefund
    <3>. QED  BY <3>1
  <2>3. ShortOf(s) \in Int /\ ShortOf(s)' \in Int
    BY <2>1, ShortType, ShortTypeNext
  <2>4. ~(ShortOf(s)' > ShortOf(s))
    BY <2>1, <2>2, ShortStep
  <2>. QED  BY <2>3, <2>4 DEF SolventInKind
<1>. QED  BY <1>1, <1>2, AccountsInvInit, AccountsInvStep, PTL DEF AccountsSpec, RestakesArePaid

-----------------------------------------------------------------------------
(* The tokens, kind by kind.                                               *)

(* No token of any kind is made or lost.                                   *)
HoldingsConserved ==
  \A s \in Issued :
    SumFunctionOnSet([a \in Accounts |-> held[<<a, s>>]], Accounts)
      = SumFunctionOnSet([a \in Accounts |-> Holdings[<<a, s>>]], Accounts)

LEMMA MovedConserves ==
  ASSUME BooksOK, HoldingsConserved, TokensMoved
  PROVE  HoldingsConserved'
<1>1. PICK s \in Issued, x \in Accounts, y \in Accounts, n \in Nat : x # y /\ Moved(s, x, y, n)
  BY DEF TokensMoved
<1>2. /\ held \in [Accounts \X Issued -> Nat]
      /\ \A a \in Accounts, z \in Issued :
           held'[<<a, z>>] = IF z # s THEN held[<<a, z>>]
                             ELSE IF a = x THEN held[<<a, z>>] - n
                             ELSE IF a = y THEN held[<<a, z>>] + n
                             ELSE held[<<a, z>>]
  <2>1. /\ held \in [Accounts \X Issued -> Nat] /\ s \in Issued
        /\ x \in Accounts /\ y \in Accounts /\ x # y /\ n \in Nat /\ Moved(s, x, y, n)
    BY <1>1 DEF BooksOK
  <2>2. /\ held' \in [Accounts \X Issued -> Nat] /\ n <= held[<<x, s>>]
        /\ \A a \in Accounts, z \in Issued :
             held'[<<a, z>>] = IF z # s THEN held[<<a, z>>]
                               ELSE IF a = x THEN held[<<a, z>>] - n
                               ELSE IF a = y THEN held[<<a, z>>] + n
                               ELSE held[<<a, z>>]
    BY ONLY <2>1, MovedTokens, VotingAssumption, StakingAssumption, AccountsAssumption
  <2>. QED  BY ONLY <2>1, <2>2
<1>3. ASSUME NEW z \in Issued
      PROVE  SumFunctionOnSet([a \in Accounts |-> held'[<<a, z>>]], Accounts)
               = SumFunctionOnSet([a \in Accounts |-> held[<<a, z>>]], Accounts)
  <2>. DEFINE f == [a \in Accounts |-> held[<<a, z>>]]
              g == [a \in Accounts |-> held'[<<a, z>>]]
  <2>1. \A a \in Accounts : f[a] \in Int /\ f[a] = held[<<a, z>>] /\ g[a] = held'[<<a, z>>]
    BY <1>2
  <2>2. CASE z # s
    <3>1. f = g
      BY <1>2, <2>2
    <3>. QED  BY <3>1
  <2>3. CASE z = s
    <3>. HIDE DEF f, g
    <3>1. /\ IsFiniteSet(Accounts) /\ x \in Accounts /\ y \in Accounts /\ x # y /\ n \in Int
          /\ \A a \in Accounts : f[a] \in Int
          /\ \A a \in Accounts : g[a] = IF a = x THEN f[a] - n
                                        ELSE IF a = y THEN f[a] + n ELSE f[a]
      <4>1. \A a \in Accounts :
              held'[<<a, z>>] = IF a = x THEN held[<<a, z>>] - n
                                ELSE IF a = y THEN held[<<a, z>>] + n ELSE held[<<a, z>>]
        BY <1>2, <2>3
      <4>2. \A a \in Accounts : g[a] = IF a = x THEN f[a] - n
                                        ELSE IF a = y THEN f[a] + n ELSE f[a]
        BY <2>1, <4>1
      <4>3. /\ IsFiniteSet(Accounts) /\ x \in Accounts /\ y \in Accounts /\ x # y /\ n \in Int
            /\ \A a \in Accounts : f[a] \in Int
        <5>1. x # y /\ n \in Int
          BY <1>1
        <5>2. \A a \in Accounts : f[a] \in Int
          BY <2>1
        <5>. QED  BY <5>1, <5>2
      <4>. QED  BY ONLY <4>2, <4>3
    <3>2. SumFunctionOnSet(g, Accounts) = SumFunctionOnSet(f, Accounts)
      BY ONLY <3>1, SumMove
    <3>. QED  BY <3>2 DEF f, g
  <2>. QED  BY <2>2, <2>3
<1>. QED  BY <1>3 DEF HoldingsConserved

(* Of everything the token contract offers, the system contract uses       *)
(* transfer only, in whatever token a fee, a stake or a refund is.         *)
TotalSupply == SumFunctionOnSet(Endowment, Accounts)

Ledger == INSTANCE TokenLedger WITH
  Holders <- Accounts, Codes <- Issued, Limit <- TotalSupply,
  supply <- [s \in Issued |-> SumFunctionOnSet([a \in Accounts |-> Holdings[<<a, s>>]], Accounts)],
  balance <- held

(* A move is one of the ledger, of no more than there is.                  *)
LEMMA MovedIsMove ==
  ASSUME BooksOK, balance \in [Accounts -> Nat], TokensConserved, TokensMoved
  PROVE  held' = held \/ Ledger!LedgerNext
<1>1. PICK s \in Issued, x \in Accounts, y \in Accounts, n \in Nat :
        x # y /\ Moved(s, x, y, n) /\ Paid(x, y, n)
  BY DEF TokensMoved
<1>2. /\ held[<<x, s>>] >= n
      /\ held' = [held EXCEPT ![<<x, s>>] = @ - n, ![<<y, s>>] = @ + n]
      /\ balance[x] >= n
  BY <1>1 DEF Moved, Paid
<1>3. balance[x] <= TotalSupply /\ TotalSupply \in Nat
  BY SumBoundsTerm, SumType DEF TokensConserved, TotalSupply
<1>4. CASE n = 0
  <2>1. <<x, s>> \in Accounts \X Issued /\ <<y, s>> \in Accounts \X Issued
        /\ held \in [Accounts \X Issued -> Nat]
    BY DEF BooksOK
  <2>. QED  BY <1>2, <1>4, <2>1
<1>5. CASE n # 0
  <2>1. n \in 1..TotalSupply
    BY <1>2, <1>3, <1>5
  <2>2. Ledger!Move(x, y, s, n)
    BY <1>1, <1>2 DEF Ledger!Move
  <2>. QED  BY <2>1, <2>2 DEF Ledger!LedgerNext
<1>. QED  BY <1>4, <1>5

(* Stakes, refunds and fees move tokens of each kind between accounts as   *)
(* the abstract ledger, which EosioToken implements, lets them be moved,   *)
(* and make and lose none of any kind.                                     *)
THEOREM TokensAreOnlyTransferred ==
  AccountsSpec => [][Ledger!LedgerNext]_(Ledger!ledgerVars) /\ []HoldingsConserved
<1>1. AccountsInv /\ TokensConserved /\ [AccountsNext]_accountsVars =>
        [Ledger!LedgerNext]_(Ledger!ledgerVars)
  <2>. SUFFICES ASSUME AccountsInv, TokensConserved, [AccountsNext]_accountsVars
                PROVE  held' = held \/ Ledger!LedgerNext
    BY DEF Ledger!ledgerVars
  <2>1. StakingTypeOK /\ balance \in [Accounts -> Nat] /\ AccountTablesOK /\ BooksOK
    BY DEF AccountsInv, StakingInv, StakingTypeOK, AccountTablesOK
  <2>. QED  BY <2>1, HeldCases, MovedIsMove
<1>2. AccountsInit => HoldingsConserved
  BY DEF AccountsInit, HoldingsConserved
<1>3. AccountsInv /\ HoldingsConserved /\ [AccountsNext]_accountsVars => HoldingsConserved'
  <2>. SUFFICES ASSUME AccountsInv, HoldingsConserved, [AccountsNext]_accountsVars
                PROVE  HoldingsConserved'
    OBVIOUS
  <2>1. StakingTypeOK /\ AccountTablesOK /\ BooksOK
    BY DEF AccountsInv, StakingInv, AccountTablesOK
  <2>2. CASE UNCHANGED <<held, balance>>
    BY <2>2 DEF HoldingsConserved
  <2>. QED  BY <2>1, <2>2, HeldCases, MovedConserves
<1>. QED  BY <1>1, <1>2, <1>3, AccountsInvAlways, AccountsConserveTokens, PTL DEF AccountsSpec

=============================================================================
