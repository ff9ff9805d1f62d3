------------------------------ MODULE FoldFacts ------------------------------
(***************************************************************************)
(* Folding a finite set of work with any operator.  A module that folds    *)
(* takes an instance of this one and cites its lemmas.                     *)
(*                                                                         *)
(* The folds of the community modules are recursive functions on the       *)
(* subsets of the set.  Such a function is a CHOOSE, so first it is shown  *)
(* that one exists.                                                        *)
(***************************************************************************)
EXTENDS Integers, FiniteSetTheorems, WellFoundedInduction, TLAPS

CONSTANTS
    Op(_, _, _),      \* what is done with an element, given what does not change
    Pick(_),          \* the element of a set that is taken last
    Holds(_, _, _)    \* what the result satisfies once some elements are done

\* The equation of the fold of the subsets of S.
Solves(env, base, S, g) ==
    g = [T \in SUBSET S |->
            IF T = {} THEN base ELSE Op(env, Pick(T), g[T \ {Pick(T)}])]

Picks(S) == \A T \in SUBSET S : T # {} => Pick(T) \in T

\* A non-empty family of subsets of a finite set has a smallest member.
LEMMA SmallestSubset ==
    ASSUME NEW S, IsFiniteSet(S), NEW family, family \subseteq SUBSET S, family # {}
    PROVE  \E T \in family : \A U \in family : U \subseteq T => U = T
<1>1. IsWellFoundedOn(StrictSubsetOrdering(S), SUBSET S)
    BY FS_StrictSubsetOrderingWellFounded, FS_FiniteSubsetsOfFinite
<1>2. PICK T \in family : \A U \in family : <<U, T>> \notin StrictSubsetOrdering(S)
    BY <1>1, WFMin
<1>3. \A U \in family : U \subseteq T => U = T
    BY <1>2 DEF StrictSubsetOrdering
<1> QED BY <1>3

\* Two solutions agree where both are defined.
LEMMA SolutionsAgree ==
    ASSUME NEW env, NEW base, NEW S, IsFiniteSet(S), Picks(S),
           NEW T \in SUBSET S, NEW g, NEW h,
           Solves(env, base, S, g), Solves(env, base, T, h)
    PROVE  \A U \in SUBSET T : g[U] = h[U]
<1> DEFINE family == {U \in SUBSET T : g[U] # h[U]}
<1>1. SUFFICES ASSUME family # {} PROVE FALSE
    OBVIOUS
<1>2. IsFiniteSet(T)
    BY FS_Subset
<1>3. PICK U \in family : \A V \in family : V \subseteq U => V = U
  <2>1. family \subseteq SUBSET T
    OBVIOUS
  <2> HIDE DEF family
  <2> QED BY <1>1, <1>2, <2>1, SmallestSubset
<1> DEFINE V == U \ {Pick(U)}
<1>4. /\ g[U] = IF U = {} THEN base ELSE Op(env, Pick(U), g[V])
      /\ h[U] = IF U = {} THEN base ELSE Op(env, Pick(U), h[V])
    BY DEF Solves
<1>5. U # {} /\ Pick(U) \in U
    BY <1>4 DEF Picks
<1>6. V \in SUBSET T /\ V \subseteq U /\ V # U
    BY <1>5
<1>7. g[V] = h[V]
    BY <1>3, <1>6
<1> QED BY <1>4, <1>5, <1>7

\* Every finite set has a fold.
LEMMA SolutionExists ==
    ASSUME NEW env, NEW base, NEW S, IsFiniteSet(S), Picks(S)
    PROVE  \E g : Solves(env, base, S, g)
<1> DEFINE family == {T \in SUBSET S : ~ \E g : Solves(env, base, T, g)}
<1>1. SUFFICES ASSUME family # {} PROVE FALSE
    OBVIOUS
<1>2. PICK T \in family : \A U \in family : U \subseteq T => U = T
  <2>1. family \subseteq SUBSET S
    OBVIOUS
  <2> HIDE DEF family
  <2> QED BY <1>1, <2>1, SmallestSubset
<1> DEFINE sol(U) == CHOOSE g : Solves(env, base, U, g)
           less(U) == U \ {Pick(U)}
           h == [U \in SUBSET T |->
                    IF U = {} THEN base ELSE Op(env, Pick(U), sol(less(U))[less(U)])]
<1>3. \A U \in SUBSET T : U # T => Solves(env, base, U, sol(U))
    BY <1>2
<1>4. \A U \in SUBSET T : U # {} => /\ Pick(U) \in U
                                    /\ less(U) \in SUBSET T
                                    /\ less(U) # T
    BY DEF Picks
<1>5. \A U \in SUBSET T : U # T => h[U] = sol(U)[U]
  <2> SUFFICES ASSUME NEW U \in SUBSET T, U # T PROVE h[U] = sol(U)[U]
    OBVIOUS
  <2>1. Solves(env, base, U, sol(U))
    BY <1>3
  <2>2. sol(U)[U] = IF U = {} THEN base ELSE Op(env, Pick(U), sol(U)[less(U)])
    <3> HIDE DEF sol
    <3> QED BY <2>1 DEF Solves
  <2>3. CASE U = {}
    <3> HIDE DEF sol
    <3> QED BY <2>2, <2>3
  <2>4. CASE U # {}
    <3>1. less(U) \in SUBSET U /\ less(U) \in SUBSET T /\ less(U) # T
      BY <1>4, <2>4
    <3>2. Solves(env, base, less(U), sol(less(U)))
      BY <1>3, <3>1
    <3>3. IsFiniteSet(U) /\ Picks(U)
      BY FS_Subset DEF Picks
    <3>4. sol(U)[less(U)] = sol(less(U))[less(U)]
      <4> HIDE DEF sol, less
      <4> QED BY <2>1, <3>1, <3>2, <3>3, SolutionsAgree
    <3>5. h[U] = Op(env, Pick(U), sol(less(U))[less(U)])
      <4> HIDE DEF sol, less
      <4> QED BY <2>4
    <3> HIDE DEF sol, less, h
    <3> QED BY <2>2, <2>4, <3>4, <3>5
  <2> QED BY <2>3, <2>4
<1>6. Solves(env, base, T, h)
  <2>1. \A U \in SUBSET T : U # {} => sol(less(U))[less(U)] = h[less(U)]
    <3> HIDE DEF sol, less, h
    <3> QED BY <1>4, <1>5
  <2>2. h = [U \in SUBSET T |-> IF U = {} THEN base ELSE Op(env, Pick(U), h[less(U)])]
    <3>1. \A U \in SUBSET T :
              (IF U = {} THEN base ELSE Op(env, Pick(U), sol(less(U))[less(U)]))
              = (IF U = {} THEN base ELSE Op(env, Pick(U), h[less(U)]))
      <4> HIDE DEF sol, less, h
      <4> QED BY <2>1
    <3> DEFINE a(U) == IF U = {} THEN base ELSE Op(env, Pick(U), sol(less(U))[less(U)])
               b(U) == IF U = {} THEN base ELSE Op(env, Pick(U), h[less(U)])
    <3>2. h = [U \in SUBSET T |-> a(U)]
      OBVIOUS
    <3>3. \A U \in SUBSET T : a(U) = b(U)
      BY <3>1
    <3>4. [U \in SUBSET T |-> a(U)] = [U \in SUBSET T |-> b(U)]
      <4> HIDE DEF a, b
      <4> QED BY <3>3
    <3> HIDE DEF h
    <3> QED BY <3>2, <3>4
  <2> HIDE DEF h
  <2> QED BY <2>2 DEF Solves
<1>7. ~ \E g : Solves(env, base, T, g)
    OBVIOUS
<1> HIDE DEF h, sol, family
<1> QED BY <1>6, <1>7

\* The fold, as the definition of MapThenFoldSet expands.
Fold(env, base, S) ==
    LET iter[T \in SUBSET S] ==
            IF T = {} THEN base ELSE Op(env, Pick(T), iter[T \ {Pick(T)}])
    IN  iter[S]

\* Folding satisfies its equation, and what holds at first and is kept by each
\* element holds at last.
LEMMA FoldKeeps ==
    \A env, base, S :
        /\ IsFiniteSet(S)
        /\ Picks(S)
        /\ Holds(env, {}, base)
        /\ \A T \in SUBSET S : \A n :
              T # {} /\ Holds(env, T \ {Pick(T)}, n) => Holds(env, T, Op(env, Pick(T), n))
        => Holds(env, S, Fold(env, base, S))
<1> SUFFICES ASSUME NEW env, NEW base, NEW S,
                    IsFiniteSet(S), Picks(S), Holds(env, {}, base),
                    \A T \in SUBSET S : \A n :
                       T # {} /\ Holds(env, T \ {Pick(T)}, n) => Holds(env, T, Op(env, Pick(T), n))
             PROVE  Holds(env, S, Fold(env, base, S))
    OBVIOUS
<1> DEFINE iter == CHOOSE g : Solves(env, base, S, g)
<1>1. Solves(env, base, S, iter)
    BY SolutionExists
<1>2. Fold(env, base, S) = iter[S]
    BY DEF Fold, Solves
<1> HIDE DEF iter
<1> DEFINE family == {T \in SUBSET S : ~ Holds(env, T, iter[T])}
<1>3. family = {}
  <2> SUFFICES ASSUME family # {} PROVE FALSE
    OBVIOUS
  <2>1. PICK T \in family : \A U \in family : U \subseteq T => U = T
    <3>1. family \subseteq SUBSET S
      OBVIOUS
    <3> HIDE DEF family
    <3> QED BY <3>1, SmallestSubset
  <2>2. iter[T] = IF T = {} THEN base ELSE Op(env, Pick(T), iter[T \ {Pick(T)}])
    BY <1>1 DEF Solves
  <2>3. T # {}
    BY <2>2
  <2>4. T \ {Pick(T)} \notin family
    BY <2>1, <2>3 DEF Picks
  <2> QED BY <2>2, <2>3, <2>4
<1> QED BY <1>2, <1>3

(***************************************************************************)
(* A loop of N turns, as a recursive function on the turns: turn k is      *)
(* Op(env, k, _), and Holds(env, k, _) is what holds after it.             *)
(***************************************************************************)
Turns(env, base, N, g) ==
    g = [k \in 0..N |-> IF k = 0 THEN base ELSE Op(env, k, g[k - 1])]

\* A non-empty set of natural numbers has a least member.
LEMMA LeastNumber ==
    ASSUME NEW S, S \subseteq Nat, S # {}
    PROVE  \E k \in S : \A j \in S : j >= k
<1>1. PICK k \in S : \A j \in S : ~ (<<j, k>> \in OpToRel(<, Nat))
    BY NatLessThanWellFounded, WFMin, Zenon
<1>2. \A j \in S : j < k => <<j, k>> \in OpToRel(<, Nat)
    BY Zenon DEF OpToRel
<1>3. \A j \in S : ~ (j < k)
    BY <1>1, <1>2
<1> QED BY <1>3

\* Every number of turns has a solution.
LEMMA TurnsExist ==
    ASSUME NEW env, NEW base, NEW N \in Nat
    PROVE  \E g : Turns(env, base, N, g)
<1> DEFINE S == {k \in Nat : ~ \E g : Turns(env, base, k, g)}
<1>1. SUFFICES ASSUME S # {} PROVE FALSE
    OBVIOUS
<1>2. PICK n \in S : \A j \in S : j >= n
  <2>1. S \subseteq Nat
    OBVIOUS
  <2> HIDE DEF S
  <2> QED BY <1>1, <2>1, LeastNumber
<1> DEFINE zero == [k \in 0..0 |-> base]
<1>3. n # 0
  <2>1. zero = [k \in 0..0 |-> IF k = 0 THEN base ELSE Op(env, k, zero[k - 1])]
    <3>1. \A k \in 0..0 : k = 0
      OBVIOUS
    <3> QED BY <3>1
  <2> HIDE DEF zero
  <2>2. Turns(env, base, 0, zero)
    BY <2>1 DEF Turns
  <2> QED BY <2>2
<1>4. n - 1 \in Nat /\ n - 1 \notin S
    BY <1>2, <1>3
<1>5. PICK g : Turns(env, base, n - 1, g)
    BY <1>4
<1> DEFINE h == [k \in 0..n |-> IF k = 0 THEN base ELSE Op(env, k, g[k - 1])]
<1>6. \A k \in 0..(n - 1) : h[k] = g[k]
    BY <1>4, <1>5 DEF Turns
<1>7. \A k \in 0..n : (IF k = 0 THEN base ELSE Op(env, k, g[k - 1]))
                       = (IF k = 0 THEN base ELSE Op(env, k, h[k - 1]))
  <2> SUFFICES ASSUME NEW k \in 0..n, k # 0 PROVE g[k - 1] = h[k - 1]
    <3> HIDE DEF h
    <3> QED OBVIOUS
  <2>1. k - 1 \in 0..(n - 1)
    OBVIOUS
  <2> HIDE DEF h
  <2> QED BY <2>1, <1>6
<1>8. h = [k \in 0..n |-> IF k = 0 THEN base ELSE Op(env, k, h[k - 1])]
  <2> DEFINE a(k) == IF k = 0 THEN base ELSE Op(env, k, g[k - 1])
             b(k) == IF k = 0 THEN base ELSE Op(env, k, h[k - 1])
  <2>1. h = [k \in 0..n |-> a(k)]
    OBVIOUS
  <2>2. \A k \in 0..n : a(k) = b(k)
    BY <1>7
  <2>3. [k \in 0..n |-> a(k)] = [k \in 0..n |-> b(k)]
    <3> HIDE DEF a, b
    <3> QED BY <2>2
  <2> HIDE DEF h
  <2> QED BY <2>1, <2>3
<1> HIDE DEF h
<1>9. Turns(env, base, n, h)
    BY <1>8 DEF Turns
<1> QED BY <1>9

Loop(env, base, N) ==
    LET turn[k \in 0..N] == IF k = 0 THEN base ELSE Op(env, k, turn[k - 1])
    IN  turn[N]

\* What holds at first and is kept by every turn of a loop holds at last.
LEMMA LoopKeeps ==
    \A env, base, N :
        /\ N \in Nat
        /\ Holds(env, 0, base)
        /\ \A k \in 1..N : \A n : Holds(env, k - 1, n) => Holds(env, k, Op(env, k, n))
        => Holds(env, N, Loop(env, base, N))
<1> SUFFICES ASSUME NEW env, NEW base, NEW N \in Nat,
                    Holds(env, 0, base),
                    \A k \in 1..N : \A n : Holds(env, k - 1, n) => Holds(env, k, Op(env, k, n))
             PROVE  Holds(env, N, Loop(env, base, N))
    OBVIOUS
<1> DEFINE turn == CHOOSE g : Turns(env, base, N, g)
<1>1. Turns(env, base, N, turn)
    BY TurnsExist
<1>2. Loop(env, base, N) = turn[N]
    BY DEF Loop, Turns
<1> HIDE DEF turn
<1> DEFINE S == {k \in 0..N : ~ Holds(env, k, turn[k])}
<1>3. S = {}
  <2> SUFFICES ASSUME S # {} PROVE FALSE
    OBVIOUS
  <2>1. PICK k \in S : \A j \in S : j >= k
    <3>1. S \subseteq Nat
      OBVIOUS
    <3> HIDE DEF S
    <3> QED BY <3>1, LeastNumber
  <2>2. turn[k] = IF k = 0 THEN base ELSE Op(env, k, turn[k - 1])
    BY <1>1 DEF Turns
  <2>3. k # 0
    BY <2>2
  <2>4. k - 1 \in 0..N /\ k \in 1..N /\ k - 1 \notin S
    BY <2>1, <2>3
  <2> QED BY <2>2, <2>3, <2>4
<1>4. N \in 0..N
    OBVIOUS
<1> QED BY <1>2, <1>3, <1>4
=============================================================================
