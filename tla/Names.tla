-------------------------------- MODULE Names --------------------------------
(***************************************************************************)
(* Account names, and which account may create which.  A name is its       *)
(* characters from left to right, 0 for a dot, filled up with dots at the  *)
(* end; the thirteenth character, which no rule below looks at, is left    *)
(* out.                                                                    *)
(***************************************************************************)
EXTENDS Integers, SequencesExt

CONSTANT NameLength  \* 12

ASSUME NamesAssumption == NameLength \in Nat \ {0}

Name == [1..NameLength -> Nat]

(* Mutant of has_dot: the loop starts one character too far to the left.   *)
has_dot_Short(n) == \E i \in 1..(NameLength - 1) : n[i] = 0

has_dot(n) == \E i \in 1..NameLength : n[i] = 0

(* Dots with a character behind them; the others only fill the name up.    *)
ActualDots(n) == {i \in 1..NameLength : n[i] = 0 /\ \E j \in i..NameLength : n[j] # 0}

(* name::suffix: what follows the last actual dot, the name if it has none.*)
suffix(n) ==
  IF ActualDots(n) = {}
  THEN n
  ELSE LET d == Max(ActualDots(n))
       IN  [i \in 1..NameLength |-> IF d + i <= NameLength THEN n[d + i] ELSE 0]

(* The naming rule of newaccount for creators other than the system.       *)
MayName(creator, newact) ==
  has_dot(newact) => suffix(newact) # newact /\ creator = suffix(newact)

-----------------------------------------------------------------------------
(* The rule as the comment above newaccount states it, on names as text.   *)

(* A name as it is written: without the dots it is filled up with.         *)
Text(n) ==
  SubSeq(n, 1, Max({0} \cup {i \in 1..NameLength : n[i] # 0}))

FullLength(n) == Len(Text(n)) = NameLength /\ 0 \notin Range(Text(n))

(* n is something, a dot, and the owner's undotted name.                   *)
UnderNameOf(n, owner) ==
  /\ 0 \notin Range(Text(owner))
  /\ IsSuffix(<<0>> \o Text(owner), Text(n))

=============================================================================
