------------------------------ MODULE SumLemmas ------------------------------
(***************************************************************************)
(* Facts about SumFunctionOnSet, the community modules' sum of a function  *)
(* over a finite set.  The conservation laws of the contracts (balances    *)
(* against supply, stake against delegations, tallies against ballots) are *)
(* equations between such sums, and the proofs about them cite the lemmas  *)
(* below.  Each is proved by taking a minimal counterexample in the strict *)
(* subset ordering, which needs no induction theorem.  The last lemmas     *)
(* bound two entries by a whole sum, and give the maximum of a finite set. *)
(***************************************************************************)
EXTENDS Integers, FiniteSets, FiniteSetsExt, Functions, FiniteSetTheorems, TLAPS

(* The element a sum over T takes first, and the equation a sum satisfies. *)
Pick(T) == CHOOSE x \in T : TRUE

IsIter(f, V, g) ==
  g = [T \in SUBSET V |-> IF T = {} THEN 0 ELSE f[Pick(T)] + g[T \ {Pick(T)}]]

(* A set of finite subsets that is not empty has a minimal element: the    *)
(* form of induction every proof of this module uses.                      *)
LEMMA MinimalSubset ==
  ASSUME NEW S, IsFiniteSet(S), NEW W \in SUBSET (SUBSET S), W # {}
  PROVE  \E T \in W : \A U \in SUBSET T : U # T => U \notin W
<1>1. IsWellFoundedOn(StrictSubsetOrdering(S), SUBSET S)
  BY FS_StrictSubsetOrderingWellFounded, FS_FiniteSubsetsOfFinite
<1>2. PICK T \in W : \A U \in W : <<U, T>> \notin StrictSubsetOrdering(S)
  BY <1>1, WFMin
<1>3. ASSUME NEW U \in SUBSET T, U # T, U \in W
      PROVE  FALSE
  <2>1. <<U, T>> \in (SUBSET S) \X (SUBSET S)
    OBVIOUS
  <2>2. <<U, T>> \in StrictSubsetOrdering(S)
    BY <2>1, <1>3 DEF StrictSubsetOrdering
  <2>. QED  BY <2>2, <1>2, <1>3
<1>. QED  BY <1>3

(* The library's definition, unfolded to the equation above.               *)
LEMMA SumUnfold ==
  ASSUME NEW f, NEW S
  PROVE  SumFunctionOnSet(f, S) = (CHOOSE g : IsIter(f, S, g))[S]
BY DEF SumFunctionOnSet, FoldFunctionOnSet, MapThenFoldSet, IsIter, Pick

(* The equation, read at one subset.                                       *)
LEMMA IterAt ==
  ASSUME NEW f, NEW V, NEW g, IsIter(f, V, g), NEW T \in SUBSET V
  PROVE  g[T] = IF T = {} THEN 0 ELSE f[Pick(T)] + g[T \ {Pick(T)}]
BY DEF IsIter

(* Pick takes an element of the set.                                      *)
LEMMA PickIn == ASSUME NEW T, T # {} PROVE Pick(T) \in T
BY DEF Pick

(* Two iterations agree wherever both are defined.                         *)
LEMMA IterUnique ==
  ASSUME NEW f, NEW V, NEW W, NEW S, IsFiniteSet(S), V \subseteq S, W \subseteq S,
         NEW g, NEW h, IsIter(f, V, g), IsIter(f, W, h),
         NEW T, T \subseteq V, T \subseteq W
  PROVE  g[T] = h[T]
<1>. DEFINE Bad == {U \in SUBSET S : U \subseteq V /\ U \subseteq W /\ g[U] # h[U]}
<1>. SUFFICES ASSUME Bad # {}
              PROVE  FALSE
  OBVIOUS
<1>1. PICK U \in Bad : \A X \in SUBSET U : X # U => X \notin Bad
  <2>1. Bad \in SUBSET (SUBSET S)
    OBVIOUS
  <2>. HIDE DEF Bad
  <2>. QED  BY <2>1, MinimalSubset
<1>. U \in SUBSET V /\ U \in SUBSET W
  OBVIOUS
<1>2. g[U] = IF U = {} THEN 0 ELSE f[Pick(U)] + g[U \ {Pick(U)}]
  <2>. HIDE DEF Bad
  <2>. QED  BY IterAt
<1>3. h[U] = IF U = {} THEN 0 ELSE f[Pick(U)] + h[U \ {Pick(U)}]
  <2>. HIDE DEF Bad
  <2>. QED  BY IterAt
<1>4. U # {}
  BY <1>2, <1>3
<1>5. Pick(U) \in U
  BY <1>4, PickIn
<1>6. g[U \ {Pick(U)}] = h[U \ {Pick(U)}]
  BY <1>1, <1>5
<1>. QED  BY <1>2, <1>3, <1>6

(* Every finite set has an iteration.  At a set whose proper subsets all   *)
(* have one, their values at themselves glue together, by uniqueness.      *)
LEMMA IterExists ==
  ASSUME NEW f, NEW S, IsFiniteSet(S)
  PROVE  \E g : IsIter(f, S, g)
<1>. DEFINE Bad == {U \in SUBSET S : ~ \E g : IsIter(f, U, g)}
<1>. SUFFICES ASSUME Bad # {}
              PROVE  FALSE
  OBVIOUS
<1>1. PICK V \in Bad : \A X \in SUBSET V : X # V => X \notin Bad
  <2>1. Bad \in SUBSET (SUBSET S)
    OBVIOUS
  <2>. HIDE DEF Bad
  <2>. QED  BY <2>1, MinimalSubset
<1>. DEFINE I(U) == CHOOSE g : IsIter(f, U, g)
            G(U) == I(U)[U]
            x == Pick(V)
            k == [U \in SUBSET V |->
                    IF U = V THEN (IF V = {} THEN 0 ELSE f[x] + G(V \ {x})) ELSE G(U)]
<1>2. ASSUME NEW U \in SUBSET V, U # V
      PROVE  IsIter(f, U, I(U))
  <2>1. \E g : IsIter(f, U, g)
    BY <1>1, <1>2
  <2>. QED  BY <2>1
<1>3. ASSUME NEW U \in SUBSET V
      PROVE  k[U] = IF U = {} THEN 0 ELSE f[Pick(U)] + k[U \ {Pick(U)}]
  <2>1. CASE U = V
    <3>1. V # {} => V \ {x} # V /\ V \ {x} \in SUBSET V
      BY PickIn
    <3>. QED  BY <2>1, <3>1
  <2>2. CASE U # V
    <3>. DEFINE y == Pick(U)
    <3>1. G(U) = IF U = {} THEN 0 ELSE f[y] + I(U)[U \ {y}]
      <4>1. IsIter(f, U, I(U))
        BY <1>2, <2>2
      <4>. HIDE DEF I
      <4>. QED  BY <4>1, IterAt
    <3>2. ASSUME U # {}
          PROVE  I(U)[U \ {y}] = G(U \ {y})
      <4>1. y \in U
        BY <3>2, PickIn
      <4>2. IsIter(f, U, I(U)) /\ IsIter(f, U \ {y}, I(U \ {y}))
        BY <1>2, <2>2, <4>1
      <4>3. U \subseteq S /\ U \ {y} \subseteq S /\ U \ {y} \subseteq U
        OBVIOUS
      <4>. DEFINE Y == U \ {y}
      <4>4. Y \subseteq Y
        OBVIOUS
      <4>. HIDE DEF I, Y, Bad, k
      <4>5. IsIter(f, U, I(U)) /\ IsIter(f, Y, I(Y)) /\ U \subseteq S /\ Y \subseteq S /\ Y \subseteq U
        BY <4>2, <4>3 DEF Y
      <4>6. I(U)[Y] = I(Y)[Y]
        BY <4>4, <4>5, IterUnique
      <4>. QED  BY <4>6 DEF Y
    <3>3. U # {} => k[U \ {y}] = G(U \ {y})
      <4>1. ASSUME U # {}
            PROVE  U \ {y} \in SUBSET V /\ U \ {y} # V
        BY <4>1, <2>2, PickIn
      <4>. HIDE DEF y, I
      <4>. QED  BY <4>1
    <3>4. k[U] = G(U)
      BY <2>2
    <3>. HIDE DEF k, G
    <3>. QED  BY <3>1, <3>2, <3>3, <3>4
  <2>. QED  BY <2>1, <2>2
<1>4. IsIter(f, V, k)
  <2>1. k = [U \in SUBSET V |-> k[U]]
    OBVIOUS
  <2>. HIDE DEF k
  <2>. QED  BY <2>1, <1>3 DEF IsIter
<1>. QED  BY <1>1, <1>4

(* The sum over a finite set, one element taken out by Pick.               *)
LEMMA SumIsIter ==
  ASSUME NEW f, NEW S, IsFiniteSet(S)
  PROVE  SumFunctionOnSet(f, S)
           = IF S = {} THEN 0 ELSE f[Pick(S)] + SumFunctionOnSet(f, S \ {Pick(S)})
<1>. DEFINE I(U) == CHOOSE g : IsIter(f, U, g)
<1>1. IsIter(f, S, I(S))
  BY IterExists
<1>2. CASE S = {}
  <2>. HIDE DEF I
  <2>1. I(S)[S] = 0
    BY <1>1, <1>2, IterAt
  <2>. QED  BY <2>1, <1>2, SumUnfold DEF I
<1>3. CASE S # {}
  <2>. DEFINE R == S \ {Pick(S)}
  <2>1. IsFiniteSet(R) /\ R \subseteq S
    BY FS_RemoveElement
  <2>2. IsIter(f, R, I(R))
    BY <2>1, IterExists
  <2>3. I(S)[R] = I(R)[R]
    <3>1. S \subseteq S /\ R \subseteq R /\ R \subseteq S
      BY <2>1
    <3>. HIDE DEF I, R
    <3>. QED  BY <1>1, <2>2, <3>1, IterUnique
  <2>4. I(S)[S] = f[Pick(S)] + I(S)[R]
    <3>. HIDE DEF I
    <3>. QED  BY <1>1, <1>3, IterAt
  <2>5. SumFunctionOnSet(f, S) = I(S)[S] /\ SumFunctionOnSet(f, R) = I(R)[R]
    BY SumUnfold
  <2>. HIDE DEF I, R
  <2>6. SumFunctionOnSet(f, S) = f[Pick(S)] + SumFunctionOnSet(f, R)
    BY <2>3, <2>4, <2>5
  <2>. QED  BY <2>6, <1>3 DEF R
<1>. QED  BY <1>2, <1>3

-----------------------------------------------------------------------------
(* What the other modules use.                                             *)

(* The sum over no elements is zero.                                       *)
THEOREM SumEmpty == ASSUME NEW f PROVE SumFunctionOnSet(f, {}) = 0
BY SumIsIter, FS_EmptySet

(* A sum of integers is an integer; a sum of naturals is a natural.        *)
THEOREM SumType ==
  ASSUME NEW S, IsFiniteSet(S), NEW f, NEW Num, Num \in {Int, Nat},
         \A s \in S : f[s] \in Num
  PROVE  SumFunctionOnSet(f, S) \in Num
<1>. DEFINE Bad == {U \in SUBSET S : SumFunctionOnSet(f, U) \notin Num}
<1>. SUFFICES ASSUME Bad # {}
              PROVE  FALSE
  OBVIOUS
<1>1. PICK U \in Bad : \A X \in SUBSET U : X # U => X \notin Bad
  <2>1. Bad \in SUBSET (SUBSET S)
    OBVIOUS
  <2>. HIDE DEF Bad
  <2>. QED  BY <2>1, MinimalSubset
<1>2. IsFiniteSet(U)
  BY FS_Subset
<1>3. SumFunctionOnSet(f, U)
        = IF U = {} THEN 0 ELSE f[Pick(U)] + SumFunctionOnSet(f, U \ {Pick(U)})
  <2>. HIDE DEF Bad
  <2>. QED  BY <1>2, SumIsIter
<1>4. U # {}
  BY <1>3
<1>5. Pick(U) \in U
  BY <1>4, PickIn
<1>6. SumFunctionOnSet(f, U \ {Pick(U)}) \in Num
  BY <1>1, <1>5
<1>7. f[Pick(U)] \in Num
  BY <1>5
<1>. QED  BY <1>3, <1>4, <1>6, <1>7

(* Any element may be taken out of a sum, not only the one Pick chooses.   *)
THEOREM SumTakeOut ==
  ASSUME NEW S, IsFiniteSet(S), NEW f, \A s \in S : f[s] \in Int, NEW a \in S
  PROVE  SumFunctionOnSet(f, S) = f[a] + SumFunctionOnSet(f, S \ {a})
<1>. DEFINE Takes(U) == \A u \in U :
              SumFunctionOnSet(f, U) = f[u] + SumFunctionOnSet(f, U \ {u})
            Bad == {U \in SUBSET S : ~ Takes(U)}
<1>. SUFFICES ASSUME Bad # {}
              PROVE  FALSE
  OBVIOUS
<1>1. PICK U \in Bad : \A X \in SUBSET U : X # U => X \notin Bad
  <2>1. Bad \in SUBSET (SUBSET S)
    OBVIOUS
  <2>. HIDE DEF Bad
  <2>. QED  BY <2>1, MinimalSubset
<1>2. PICK u \in U : SumFunctionOnSet(f, U) # f[u] + SumFunctionOnSet(f, U \ {u})
  OBVIOUS
<1>. DEFINE p == Pick(U)
            Rest == U \ {p}
            Both == (U \ {p}) \ {u}
<1>3. U \in SUBSET S /\ p \in U /\ IsFiniteSet(U)
  BY FS_Subset, PickIn
<1>4. SumFunctionOnSet(f, U) = f[p] + SumFunctionOnSet(f, Rest)
  <2>. HIDE DEF Bad
  <2>. QED  BY <1>3, SumIsIter
<1>5. u # p
  BY <1>2, <1>4
<1>6. Takes(U \ {p}) /\ Takes(U \ {u})
  <2>1. U \ {p} \in SUBSET U /\ U \ {p} # U /\ U \ {u} \in SUBSET U /\ U \ {u} # U
    BY <1>3
  <2>. HIDE DEF Takes
  <2>. QED  BY <2>1, <1>1, <1>3
<1>7. SumFunctionOnSet(f, Rest) = f[u] + SumFunctionOnSet(f, Both)
  BY <1>2, <1>5, <1>6
<1>8. SumFunctionOnSet(f, U \ {u}) = f[p] + SumFunctionOnSet(f, Both)
  <2>1. (U \ {u}) \ {p} = Both /\ p \in U \ {u}
    BY <1>3, <1>5
  <2>. QED  BY <2>1, <1>6
<1>9. SumFunctionOnSet(f, Both) \in Int /\ f[u] \in Int /\ f[p] \in Int
  <2>1. IsFiniteSet(Both) /\ \A s \in Both : f[s] \in Int
    BY <1>3, FS_RemoveElement
  <2>. HIDE DEF Both
  <2>. QED  BY <2>1, <1>2, <1>3, SumType
<1>. QED
  <2>. HIDE DEF Both, Rest, p, Bad
  <2>. QED  BY <1>2, <1>4, <1>7, <1>8, <1>9

(* A sum depends on the function only through its values on the set.       *)
THEOREM SumCongruent ==
  ASSUME NEW S, IsFiniteSet(S), NEW f, NEW g, \A s \in S : f[s] = g[s]
  PROVE  SumFunctionOnSet(f, S) = SumFunctionOnSet(g, S)
<1>. DEFINE Bad == {U \in SUBSET S : SumFunctionOnSet(f, U) # SumFunctionOnSet(g, U)}
<1>. SUFFICES ASSUME Bad # {}
              PROVE  FALSE
  OBVIOUS
<1>1. PICK U \in Bad : \A X \in SUBSET U : X # U => X \notin Bad
  <2>1. Bad \in SUBSET (SUBSET S)
    OBVIOUS
  <2>. HIDE DEF Bad
  <2>. QED  BY <2>1, MinimalSubset
<1>2. IsFiniteSet(U)
  BY FS_Subset
<1>3. /\ SumFunctionOnSet(f, U)
           = IF U = {} THEN 0 ELSE f[Pick(U)] + SumFunctionOnSet(f, U \ {Pick(U)})
      /\ SumFunctionOnSet(g, U)
           = IF U = {} THEN 0 ELSE g[Pick(U)] + SumFunctionOnSet(g, U \ {Pick(U)})
  <2>. HIDE DEF Bad
  <2>. QED  BY <1>2, SumIsIter
<1>4. U # {}
  BY <1>3
<1>5. Pick(U) \in U
  BY <1>4, PickIn
<1>6. SumFunctionOnSet(f, U \ {Pick(U)}) = SumFunctionOnSet(g, U \ {Pick(U)})
  BY <1>1, <1>5
<1>. QED  BY <1>3, <1>5, <1>6

(* The form the invariance proofs use: two functions that differ at one    *)
(* point have sums that differ by as much.                                 *)
THEOREM SumUpdate ==
  ASSUME NEW S, IsFiniteSet(S), NEW f, NEW g, NEW a \in S,
         \A s \in S : f[s] \in Int /\ g[s] \in Int,
         \A s \in S \ {a} : f[s] = g[s]
  PROVE  SumFunctionOnSet(g, S) = SumFunctionOnSet(f, S) + g[a] - f[a]
<1>1. /\ SumFunctionOnSet(f, S) = f[a] + SumFunctionOnSet(f, S \ {a})
      /\ SumFunctionOnSet(g, S) = g[a] + SumFunctionOnSet(g, S \ {a})
  BY SumTakeOut
<1>2. IsFiniteSet(S \ {a})
  BY FS_RemoveElement
<1>3. SumFunctionOnSet(f, S \ {a}) = SumFunctionOnSet(g, S \ {a})
  BY <1>2, SumCongruent
<1>4. SumFunctionOnSet(f, S \ {a}) \in Int
  BY <1>2, SumType
<1>. QED  BY <1>1, <1>3, <1>4

(* What is taken from one point and added to another leaves the sum alone. *)
THEOREM SumMove ==
  ASSUME NEW S, IsFiniteSet(S), NEW f, NEW g, NEW a \in S, NEW b \in S, a # b, NEW n \in Int,
         \A s \in S : f[s] \in Int,
         \A s \in S : g[s] = IF s = a THEN f[s] - n ELSE IF s = b THEN f[s] + n ELSE f[s]
  PROVE  SumFunctionOnSet(g, S) = SumFunctionOnSet(f, S)
<1>. DEFINE h == [s \in S |-> IF s = a THEN f[s] - n ELSE f[s]]
<1>1. /\ \A s \in S : f[s] \in Int /\ g[s] \in Int /\ h[s] \in Int
      /\ \A s \in S \ {a} : f[s] = h[s]
      /\ \A s \in S \ {b} : h[s] = g[s]
      /\ h[a] - f[a] = 0 - n /\ g[b] - h[b] = n
  OBVIOUS
<1>. HIDE DEF h
<1>2. SumFunctionOnSet(h, S) = SumFunctionOnSet(f, S) + h[a] - f[a]
  <2>1. /\ IsFiniteSet(S) /\ a \in S /\ \A s \in S \ {a} : f[s] = h[s]
        /\ \A s \in S : f[s] \in Int /\ h[s] \in Int
    BY <1>1
  <2>. QED  BY ONLY <2>1, SumUpdate
<1>3. SumFunctionOnSet(g, S) = SumFunctionOnSet(h, S) + g[b] - h[b]
  <2>1. /\ IsFiniteSet(S) /\ b \in S /\ \A s \in S \ {b} : h[s] = g[s]
        /\ \A s \in S : h[s] \in Int /\ g[s] \in Int
    BY <1>1
  <2>. QED  BY ONLY <2>1, SumUpdate
<1>4. SumFunctionOnSet(f, S) \in Int /\ SumFunctionOnSet(h, S) \in Int
  BY <1>1, SumType
<1>. QED  BY <1>1, <1>2, <1>3, <1>4

(* A term of a sum of naturals is at most the sum.                         *)
THEOREM SumBoundsTerm ==
  ASSUME NEW S, IsFiniteSet(S), NEW f, \A s \in S : f[s] \in Nat, NEW a \in S
  PROVE  f[a] <= SumFunctionOnSet(f, S)
<1>1. SumFunctionOnSet(f, S) = f[a] + SumFunctionOnSet(f, S \ {a})
  BY SumTakeOut
<1>2. SumFunctionOnSet(f, S \ {a}) \in Nat
  <2>1. IsFiniteSet(S \ {a})
    BY FS_RemoveElement
  <2>. QED  BY <2>1, SumType
<1>. QED  BY <1>1, <1>2

(* A sum of zeros is zero.                                                 *)
THEOREM SumZero ==
  ASSUME NEW S, IsFiniteSet(S), NEW f, \A s \in S : f[s] = 0
  PROVE  SumFunctionOnSet(f, S) = 0
<1>. DEFINE Bad == {U \in SUBSET S : SumFunctionOnSet(f, U) # 0}
<1>. SUFFICES ASSUME Bad # {}
              PROVE  FALSE
  OBVIOUS
<1>1. PICK U \in Bad : \A X \in SUBSET U : X # U => X \notin Bad
  <2>1. Bad \in SUBSET (SUBSET S)
    OBVIOUS
  <2>. HIDE DEF Bad
  <2>. QED  BY <2>1, MinimalSubset
<1>2. IsFiniteSet(U)
  BY FS_Subset
<1>3. SumFunctionOnSet(f, U)
        = IF U = {} THEN 0 ELSE f[Pick(U)] + SumFunctionOnSet(f, U \ {Pick(U)})
  <2>. HIDE DEF Bad
  <2>. QED  BY <1>2, SumIsIter
<1>4. U # {}
  BY <1>3
<1>5. Pick(U) \in U
  BY <1>4, PickIn
<1>6. SumFunctionOnSet(f, U \ {Pick(U)}) = 0 /\ f[Pick(U)] = 0
  BY <1>1, <1>5
<1>. QED  BY <1>3, <1>4, <1>6

(* If two functions together stay below a third, so do their sums.         *)
THEOREM SumPairBound ==
  ASSUME NEW S, IsFiniteSet(S), NEW f, NEW g, NEW h,
         \A s \in S : f[s] \in Nat /\ g[s] \in Nat /\ h[s] \in Nat,
         \A s \in S : f[s] + g[s] <= h[s]
  PROVE  SumFunctionOnSet(f, S) + SumFunctionOnSet(g, S) <= SumFunctionOnSet(h, S)
<1>. DEFINE Within(U) == SumFunctionOnSet(f, U) + SumFunctionOnSet(g, U)
                           <= SumFunctionOnSet(h, U)
            Bad == {U \in SUBSET S : ~ Within(U)}
<1>. SUFFICES ASSUME Bad # {}
              PROVE  FALSE
  OBVIOUS
<1>1. PICK U \in Bad : \A X \in SUBSET U : X # U => X \notin Bad
  <2>1. Bad \in SUBSET (SUBSET S)
    OBVIOUS
  <2>. HIDE DEF Bad
  <2>. QED  BY <2>1, MinimalSubset
<1>2. U \in SUBSET S /\ IsFiniteSet(U) /\ ~ Within(U)
  BY FS_Subset
<1>. DEFINE u == Pick(U)
            R == U \ {u}
<1>3. /\ SumFunctionOnSet(f, U) = IF U = {} THEN 0 ELSE f[u] + SumFunctionOnSet(f, R)
      /\ SumFunctionOnSet(g, U) = IF U = {} THEN 0 ELSE g[u] + SumFunctionOnSet(g, R)
      /\ SumFunctionOnSet(h, U) = IF U = {} THEN 0 ELSE h[u] + SumFunctionOnSet(h, R)
  <2>. HIDE DEF Bad
  <2>. QED  BY <1>2, SumIsIter
<1>4. U # {}
  BY <1>2, <1>3
<1>5. u \in U /\ u \in S
  BY <1>2, <1>4, PickIn
<1>6. R \in SUBSET S /\ Within(R) /\ IsFiniteSet(R)
  <2>1. R \in SUBSET U /\ R # U
    BY <1>5
  <2>. QED  BY <1>1, <1>2, <2>1, FS_Subset
<1>7. /\ SumFunctionOnSet(f, R) \in Nat /\ SumFunctionOnSet(g, R) \in Nat
      /\ SumFunctionOnSet(h, R) \in Nat
  <2>. HIDE DEF R
  <2>. QED  BY <1>6, SumType
<1>. HIDE DEF u, R
<1>. QED  BY <1>2, <1>3, <1>4, <1>5, <1>6, <1>7

-----------------------------------------------------------------------------
(* The same induction gives the largest element of a finite set.           *)

(* A finite set of integers has a largest element, and Max is it.          *)
LEMMA MaxIsLargest ==
  ASSUME NEW S, S \subseteq Int, IsFiniteSet(S), S # {}
  PROVE  Max(S) \in S /\ \A x \in S : x <= Max(S)
<1>. DEFINE above(x) == {y \in S : x < y}
            W == {above(x) : x \in S}
<1>1. W \in SUBSET (SUBSET S) /\ W # {}
  OBVIOUS
<1>2. PICK T \in W : \A U \in SUBSET T : U # T => U \notin W
  <2>. HIDE DEF W
  <2>. QED  BY <1>1, MinimalSubset
<1>3. PICK m \in S : T = above(m)
  OBVIOUS
<1>4. ASSUME NEW y \in S, m < y
      PROVE  FALSE
  <2>1. above(y) \in W
    OBVIOUS
  <2>2. y \in Int /\ m \in Int /\ \A x \in S : x \in Int /\ (y < x => m < x)
    BY <1>4
  <2>3. above(y) \in SUBSET T /\ y \in T /\ y \notin above(y)
    <3>1. T = {x \in S : m < x} /\ y \in T
      BY <1>3, <1>4
    <3>2. \A x \in above(y) : x \in T
      BY <2>2, <3>1
    <3>3. y \notin above(y)
      BY <2>2
    <3>. HIDE DEF above
    <3>. QED  BY <3>1, <3>2, <3>3
  <2>. HIDE DEF above, W
  <2>. QED  BY <1>2, <2>1, <2>3
<1>5. m \in S /\ \A y \in S : m >= y
  BY <1>4
<1>. QED  BY <1>5 DEF Max

=============================================================================
