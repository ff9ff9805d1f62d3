--------------------------- MODULE X11StackingProofs ---------------------------
(***************************************************************************)
(* What is proved about X11Stacking, for any number of clients, groups and *)
(* outputs.  The first parts are about sequences: what the operators of    *)
(* UniqueSeqs return, and that building an order from the top down by      *)
(* single requests ends in that order.  Then place, the recursive function *)
(* of policy_stacking: it ends, lists what it is given to place, respects  *)
(* what clients demand if that is no cycle, and leaves an order that does  *)
(* as it is.  Then the layers, which lie on top of each other.  The last   *)
(* parts are the theorems of the specification: the core's order is the    *)
(* server's, families are stacked, a raised client reaches the top, and    *)
(* the stack stays settled.                                                *)
(*                                                                         *)
(* An induction is by the least counterexample of a measure (WFMin).       *)
(***************************************************************************)
EXTENDS X11Stacking, FiniteSetTheorems, SequenceTheorems, WellFoundedInduction, TLAPS

(* ---- What the operators of UniqueSeqs return, for every sequence ---- *)
\* The rank of a member of K, counted from below.
Rank(K, i) == Cardinality(K \cap 1..i)

\* A set of positions is finite.
LEMMA PositionsFinite ==
  ASSUME NEW n \in Nat, NEW K \in SUBSET (1..n)
  PROVE  IsFiniteSet(K) /\ Cardinality(K) \in Nat
<1>1. IsFiniteSet(1..n)
  <2>1. 1 \in Int /\ n \in Int
    OBVIOUS
  <2> QED BY ONLY <2>1, FS_Interval
<1>2. IsFiniteSet(K)
  BY <1>1, FS_Subset
<1> QED BY <1>2, FS_CardinalityType

\* Ranks are strictly increasing, so no two members of K have the same.
LEMMA RankIncreases ==
  ASSUME NEW n \in Nat, NEW K \in SUBSET (1..n), NEW i \in K, NEW j \in K, i < j
  PROVE  Rank(K, i) < Rank(K, j)
<1>1. IsFiniteSet(K)
  BY PositionsFinite
<1>2. IsFiniteSet(K \cap 1..j) /\ Cardinality(K \cap 1..j) \in Nat
  BY <1>1, FS_Subset, FS_CardinalityType
<1>3. K \cap 1..i \in SUBSET (K \cap 1..j)
  OBVIOUS
<1>4. j \in K \cap 1..j /\ j \notin K \cap 1..i
  OBVIOUS
<1>5. /\ IsFiniteSet(K \cap 1..i)
      /\ Cardinality(K \cap 1..i) <= Cardinality(K \cap 1..j)
      /\ Cardinality(K \cap 1..i) # Cardinality(K \cap 1..j)
  BY <1>2, <1>3, <1>4, FS_Subset
<1>6. Cardinality(K \cap 1..i) \in Nat
  BY <1>5, FS_CardinalityType
<1> QED BY <1>2, <1>5, <1>6 DEF Rank

\* Every number up to the size of K is the rank of one of its members.
LEMMA RankExists ==
  ASSUME NEW n \in Nat, NEW K \in SUBSET (1..n), NEW k \in 1..Cardinality(K)
  PROVE  \E i \in K : Rank(K, i) = k
<1> DEFINE size == Cardinality(K)
           rank == [i \in K |-> Rank(K, i)]
<1>1. IsFiniteSet(K) /\ size \in Nat
  BY PositionsFinite
<1>2. ASSUME NEW i \in K
      PROVE  Rank(K, i) \in 1..size
  <2>1. K \cap 1..i \in SUBSET K /\ i \in K \cap 1..i
    OBVIOUS
  <2>2. IsFiniteSet(K \cap 1..i) /\ Cardinality(K \cap 1..i) <= size
    BY <1>1, <2>1, FS_Subset
  <2>3. Cardinality(K \cap 1..i) \in Nat
    BY <2>2, FS_CardinalityType
  <2>4. Cardinality(K \cap 1..i) # 0
    BY <2>1, <2>2, FS_EmptySet
  <2> QED BY <1>1, <2>2, <2>3, <2>4 DEF Rank
<1>3. rank \in [K -> 1..size]
  BY <1>2
<1>4. \A i, j \in K : rank[i] = rank[j] => i = j
  <2> SUFFICES ASSUME NEW i \in K, NEW j \in K, i # j
               PROVE  rank[i] # rank[j]
    OBVIOUS
  <2>1. rank[i] \in Nat /\ rank[j] \in Nat
    BY <1>1, <1>3
  <2>2. i < j => Rank(K, i) < Rank(K, j)
    BY RankIncreases
  <2>3. j < i => Rank(K, j) < Rank(K, i)
    BY RankIncreases
  <2>4. rank[i] = Rank(K, i) /\ rank[j] = Rank(K, j)
    OBVIOUS
  <2>5. i \in Nat /\ j \in Nat
    OBVIOUS
  <2> QED BY <2>1, <2>2, <2>3, <2>4, <2>5
<1>5. rank \in Injection(K, 1..size)
  BY <1>3, <1>4 DEF Injection, IsInjective
<1>6. IsFiniteSet(1..size) /\ Cardinality(1..size) = size
  BY <1>1, FS_Interval
<1>7. rank \in Surjection(K, 1..size)
  <2> HIDE DEF rank
  <2> QED BY <1>5, <1>6, FS_Injection
<1> QED BY <1>7 DEF Surjection

\* The positions Keep reads: one for each position it fills, rising with it.
LEMMA KeepPositions ==
  ASSUME NEW S, NEW s \in Seq(S), NEW T
  PROVE  /\ KeptAt(s, T) \in SUBSET (1..Len(s))
         /\ Cardinality(KeptAt(s, T)) \in Nat
         /\ DOMAIN Keep(s, T) = 1..Cardinality(KeptAt(s, T))
         /\ \A k \in 1..Cardinality(KeptAt(s, T)) :
              \E i \in KeptAt(s, T) :
                /\ Rank(KeptAt(s, T), i) = k
                /\ Keep(s, T)[k] = s[i]
<1> DEFINE K == KeptAt(s, T)
           at(k) == CHOOSE i \in K : Rank(K, i) = k
<1>1. K \in SUBSET (1..Len(s)) /\ Len(s) \in Nat
  BY DEF KeptAt
<1>2. IsFiniteSet(K) /\ Cardinality(K) \in Nat
  BY <1>1, PositionsFinite
<1>3. Keep(s, T) = [k \in 1..Cardinality(K) |-> s[at(k)]]
  BY DEF Keep, Rank
<1>4. ASSUME NEW k \in 1..Cardinality(K)
      PROVE  at(k) \in K /\ Rank(K, at(k)) = k
  <2>1. \E i \in K : Rank(K, i) = k
    <3> HIDE DEF K
    <3> QED BY <1>1, RankExists
  <2> QED BY <2>1
<1> QED
  <2> HIDE DEF K, at
  <2>1. \A k \in 1..Cardinality(K) : Keep(s, T)[k] = s[at(k)]
    BY <1>3
  <2>2. DOMAIN Keep(s, T) = 1..Cardinality(K)
    BY <1>3
  <2>3. \A k \in 1..Cardinality(K) :
          \E i \in K : Rank(K, i) = k /\ Keep(s, T)[k] = s[i]
    BY <1>4, <2>1
  <2> QED BY <1>1, <1>2, <2>2, <2>3 DEF K

\* Vec::retain returns a sequence of the members it was asked to keep, all of
\* them, and repeats none that was not repeated.
LEMMA KeepFacts ==
  ASSUME NEW S, NEW s \in Seq(S), NEW T
  PROVE  /\ Keep(s, T) \in Seq(S)
         /\ Members(Keep(s, T)) = Members(s) \cap T
         /\ Unique(s) => Unique(Keep(s, T))
<1> DEFINE K == KeptAt(s, T)
           size == Cardinality(K)
           kept == Keep(s, T)
<1>1. /\ K \in SUBSET (1..Len(s))
      /\ size \in Nat
      /\ DOMAIN kept = 1..size
      /\ \A k \in 1..size : \E i \in K : Rank(K, i) = k /\ kept[k] = s[i]
  BY KeepPositions
<1>2. \A i \in K : i \in 1..Len(s) /\ s[i] \in S /\ s[i] \in T
  BY <1>1, ElementOfSeq DEF KeptAt
<1>3. Len(s) \in Nat
  OBVIOUS
<1>4. kept = [k \in 1..size |-> kept[k]]
  BY DEF Keep
<1> HIDE DEF kept, size
<1>5. kept \in Seq(S) /\ Len(kept) = size
  <2>1. \A k \in 1..size : kept[k] \in S
    BY <1>1, <1>2
  <2>2. kept \in [1..size -> S]
    BY <1>4, <2>1
  <2> QED BY <1>1, <2>2
<1>6. Members(kept) \subseteq Members(s) \cap T
  BY <1>1, <1>2, <1>5 DEF Members
<1>7. ASSUME NEW i \in K
      PROVE  s[i] \in Members(kept)
  <2>1. Rank(K, i) \in 1..size
    <3>1. IsFiniteSet(K)
      BY <1>1, <1>3, PositionsFinite
    <3>2. IsFiniteSet(K \cap 1..i) /\ Cardinality(K \cap 1..i) <= size
      BY <3>1, FS_Subset DEF size
    <3>3. Cardinality(K \cap 1..i) \in Nat
      BY <3>2, FS_CardinalityType
    <3>4. i \in K \cap 1..i
      BY <1>2, <1>3
    <3>5. Cardinality(K \cap 1..i) # 0
      BY <3>2, <3>4, FS_EmptySet
    <3> QED BY <1>1, <3>2, <3>3, <3>5 DEF Rank
  <2>2. PICK j \in K : Rank(K, j) = Rank(K, i) /\ kept[Rank(K, i)] = s[j]
    BY <1>1, <2>1
  <2>3. j = i
    <3>1. i \in Nat /\ j \in Nat /\ Rank(K, i) \in Nat
      BY <1>1, <1>2, <1>3, <2>1
    <3>2. ~(i < j) /\ ~(j < i)
      <4> HIDE DEF K
      <4>1. i < j => Rank(K, i) < Rank(K, j)
        BY <1>1, <1>3, RankIncreases
      <4>2. j < i => Rank(K, j) < Rank(K, i)
        BY <1>1, <1>3, RankIncreases
      <4> QED BY <2>2, <3>1, <4>1, <4>2
    <3> QED BY <3>1, <3>2
  <2> QED BY <1>5, <2>1, <2>2, <2>3 DEF Members
<1>8. Members(s) \cap T \subseteq Members(kept)
  BY <1>7 DEF Members, KeptAt
<1>9. ASSUME Unique(s), NEW k \in 1..size, NEW l \in 1..size, kept[k] = kept[l]
      PROVE  k = l
  <2>1. PICK i \in K : Rank(K, i) = k /\ kept[k] = s[i]
    BY <1>1
  <2>2. PICK j \in K : Rank(K, j) = l /\ kept[l] = s[j]
    BY <1>1
  <2>3. i = j
    BY <1>2, <1>9, <2>1, <2>2 DEF Unique
  <2> QED BY <2>1, <2>2, <2>3
<1> QED BY <1>5, <1>6, <1>8, <1>9 DEF Unique, kept

\* Two duplicate-free sequences without a common member make a third.
LEMMA ConcatFacts ==
  ASSUME NEW S, NEW s \in Seq(S), NEW t \in Seq(S)
  PROVE  /\ s \o t \in Seq(S)
         /\ Members(s \o t) = Members(s) \cup Members(t)
         /\ Unique(s) /\ Unique(t) /\ Members(s) \cap Members(t) = {} => Unique(s \o t)
<1> DEFINE st == s \o t
           m == Len(s)
           n == Len(t)
<1>1. /\ st \in Seq(S)
      /\ Len(st) = m + n
      /\ \A i \in 1..(m + n) : st[i] = IF i <= m THEN s[i] ELSE t[i - m]
  BY ConcatProperties
<1>2. m \in Nat /\ n \in Nat
  OBVIOUS
<1> HIDE DEF st, m, n
<1>3. \A i \in 1..m : i \in 1..Len(st) /\ st[i] = s[i]
  BY <1>1, <1>2
<1>4. \A j \in 1..n : m + j \in 1..Len(st) /\ st[m + j] = t[j]
  <2> SUFFICES ASSUME NEW j \in 1..n
               PROVE  m + j \in 1..Len(st) /\ st[m + j] = t[j]
    OBVIOUS
  <2>1. m + j \in 1..(m + n) /\ ~(m + j <= m) /\ (m + j) - m = j
    BY <1>2
  <2> QED BY <1>1, <2>1
<1>5. \A i \in 1..Len(st) : i \notin 1..m => i - m \in 1..n
  BY <1>1, <1>2
<1>6. \A i \in 1..Len(st) :
        \/ i \in 1..m /\ st[i] = s[i]
        \/ i \notin 1..m /\ i - m \in 1..n /\ st[i] = t[i - m]
  <2> SUFFICES ASSUME NEW i \in 1..Len(st), i \notin 1..m
               PROVE  i - m \in 1..n /\ st[i] = t[i - m]
    BY <1>3
  <2>1. i \in 1..(m + n) /\ ~(i <= m) /\ i - m \in 1..n
    BY <1>1, <1>2, <1>5
  <2> QED BY <1>1, <2>1
<1>7. Members(s) = {s[i] : i \in 1..m} /\ Members(t) = {t[j] : j \in 1..n}
  BY DEF Members, m, n
<1>8. Members(st) = Members(s) \cup Members(t)
  <2>1. Members(st) \subseteq Members(s) \cup Members(t)
    BY <1>6, <1>7 DEF Members
  <2>2. Members(s) \subseteq Members(st)
    BY <1>3, <1>7 DEF Members
  <2>3. Members(t) \subseteq Members(st)
    BY <1>4, <1>7 DEF Members
  <2> QED BY <2>1, <2>2, <2>3
<1>9. ASSUME Unique(s), Unique(t), Members(s) \cap Members(t) = {},
             NEW i \in 1..Len(st), NEW j \in 1..Len(st), st[i] = st[j]
      PROVE  i = j
  <2>1. CASE i \in 1..m /\ j \in 1..m
    BY <1>3, <1>9, <2>1 DEF Unique, m
  <2>2. CASE i \notin 1..m /\ j \notin 1..m
    <3>1. /\ i - m \in 1..n /\ j - m \in 1..n
          /\ t[i - m] = t[j - m]
      BY <1>6, <1>9, <2>2
    <3>2. i - m = j - m
      BY <1>9, <3>1 DEF Unique, n
    <3> QED BY <1>1, <1>2, <3>2
  <2>3. CASE i \in 1..m /\ j \notin 1..m
    <3>1. st[i] \in Members(s)
      BY <1>3, <1>7, <2>3
    <3>2. st[j] \in Members(t)
      BY <1>6, <1>7, <2>3
    <3> QED BY <1>9, <3>1, <3>2
  <2>4. CASE i \notin 1..m /\ j \in 1..m
    <3>1. st[j] \in Members(s)
      BY <1>3, <1>7, <2>4
    <3>2. st[i] \in Members(t)
      BY <1>6, <1>7, <2>4
    <3> QED BY <1>9, <3>1, <3>2
  <2> QED BY <2>1, <2>2, <2>3, <2>4
<1> QED BY <1>1, <1>8, <1>9 DEF Unique, st

\* A one-member sequence.
LEMMA SingletonFacts ==
  ASSUME NEW S, NEW e \in S
  PROVE  <<e>> \in Seq(S) /\ Members(<<e>>) = {e} /\ Unique(<<e>>)
BY DEF Members, Unique

\* The empty sequence.
LEMMA EmptyFacts ==
  ASSUME NEW S
  PROVE  <<>> \in Seq(S) /\ Members(<<>>) = {} /\ Unique(<<>>)
BY DEF Members, Unique

\* Only the empty sequence has no members.
LEMMA NoMembers ==
  ASSUME NEW S, NEW s \in Seq(S), Members(s) = {}
  PROVE  s = <<>>
<1>1. Len(s) \in Nat /\ 1..Len(s) = {}
  BY DEF Members
<1>2. Len(s) \notin Nat \ {0}
  <2>1. Len(s) \in Nat \ {0} => 1 \in 1..Len(s)
    OBVIOUS
  <2> QED BY <1>1, <2>1
<1> QED BY <1>2, EmptySeq

\* Append is concatenation with a one-member sequence.
LEMMA AppendFacts ==
  ASSUME NEW S, NEW s \in Seq(S), NEW e \in S
  PROVE  /\ Append(s, e) \in Seq(S)
         /\ Members(Append(s, e)) = Members(s) \cup {e}
         /\ Unique(s) /\ e \notin Members(s) => Unique(Append(s, e))
<1>1. Append(s, e) = s \o <<e>>
  OBVIOUS
<1>2. <<e>> \in Seq(S) /\ Members(<<e>>) = {e} /\ Unique(<<e>>)
  BY SingletonFacts
<1> DEFINE single == <<e>>
<1> HIDE DEF single
<1>3. /\ s \o single \in Seq(S)
      /\ Members(s \o single) = Members(s) \cup Members(single)
      /\ Unique(s) /\ Unique(single) /\ Members(s) \cap Members(single) = {}
         => Unique(s \o single)
  BY <1>2, ConcatFacts DEF single
<1> QED BY <1>1, <1>2, <1>3 DEF single

\* retain of all members but one.
LEMMA WithoutFacts ==
  ASSUME NEW S, NEW s \in Seq(S), NEW e
  PROVE  /\ Without(s, e) \in Seq(S)
         /\ Members(Without(s, e)) = Members(s) \ {e}
         /\ Unique(s) => Unique(Without(s, e))
<1>1. Members(s) \cap (Members(s) \ {e}) = Members(s) \ {e}
  OBVIOUS
<1> QED BY <1>1, KeepFacts DEF Without

\* Moving a member to either end keeps the rest and repeats nothing.
LEMMA MoveFacts ==
  ASSUME NEW S, NEW s \in Seq(S), NEW e \in S
  PROVE  /\ MoveToEnd(s, e) \in Seq(S)
         /\ Members(MoveToEnd(s, e)) = Members(s) \cup {e}
         /\ Unique(s) => Unique(MoveToEnd(s, e))
         /\ MoveToFront(s, e) \in Seq(S)
         /\ Members(MoveToFront(s, e)) = Members(s) \cup {e}
         /\ Unique(s) => Unique(MoveToFront(s, e))
<1> DEFINE rest == Without(s, e)
<1>1. /\ rest \in Seq(S) /\ Members(rest) = Members(s) \ {e}
      /\ Unique(s) => Unique(rest)
  BY WithoutFacts
<1>2. <<e>> \in Seq(S) /\ Members(<<e>>) = {e} /\ Unique(<<e>>)
  BY SingletonFacts
<1> HIDE DEF rest
<1>3. /\ Append(rest, e) \in Seq(S) /\ Members(Append(rest, e)) = Members(rest) \cup {e}
      /\ Unique(s) => Unique(Append(rest, e))
  BY <1>1, AppendFacts
<1> DEFINE single == <<e>>
<1> HIDE DEF single
<1>4. /\ single \o rest \in Seq(S)
      /\ Members(single \o rest) = Members(single) \cup Members(rest)
      /\ Unique(single) /\ Unique(rest) /\ Members(single) \cap Members(rest) = {}
         => Unique(single \o rest)
  BY <1>1, <1>2, ConcatFacts DEF single
<1>5. /\ MoveToEnd(s, e) = Append(rest, e)
      /\ MoveToFront(s, e) = single \o rest
  BY DEF MoveToEnd, MoveToFront, rest, single
<1> QED BY <1>1, <1>2, <1>3, <1>4, <1>5 DEF single

\* The members of a sequence are finitely many.
LEMMA MembersFinite ==
  ASSUME NEW S, NEW s \in Seq(S)
  PROVE  IsFiniteSet(Members(s))
<1> DEFINE at == [i \in 1..Len(s) |-> s[i]]
<1>1. IsFiniteSet(1..Len(s))
  <2>1. Len(s) \in Nat
    OBVIOUS
  <2> QED BY <2>1, PositionsFinite
<1>2. at \in Surjection(1..Len(s), Members(s))
  BY DEF Surjection, Members
<1> HIDE DEF at
<1> QED BY <1>1, <1>2, FS_Surjection

\* A set of natural numbers has a least one.
LEMMA LeastNat ==
  ASSUME NEW S \in SUBSET Nat, S # {}
  PROVE  \E k \in S : \A j \in S : k <= j
<1>1. \E k \in S : \A j \in S : ~ (<<j, k>> \in OpToRel(<, Nat))
  BY NatLessThanWellFounded, WFMin, Zenon
<1>2. \A j, k \in S : j < k => <<j, k>> \in OpToRel(<, Nat)
  BY Zenon DEF OpToRel
<1>3. \A j, k \in S : ~ (j < k) => k <= j
  OBVIOUS
<1>4. PICK k \in S : \A j \in S : ~ (<<j, k>> \in OpToRel(<, Nat))
  BY <1>1
<1>5. \A j \in S : k <= j
  BY <1>2, <1>3, <1>4, Zenon
<1> QED BY <1>4, <1>5

\* Leaving out the one occurrence of a member joins what is before and after it.
LEMMA WithoutParts ==
  ASSUME NEW S, NEW a \in Seq(S), NEW b \in Seq(S), NEW c \in S, Unique(a \o <<c>> \o b)
  PROVE  Without(a \o <<c>> \o b, c) = a \o b
<1> DEFINE s == a \o <<c>> \o b
           p == Len(a) + 1
           n == Len(a) + 1 + Len(b)
           T == Members(s) \ {c}
           K == KeptAt(s, T)
<1>1. /\ s \in Seq(S) /\ Len(s) = n /\ p \in 1..n /\ n \in Nat /\ p \in Nat
      /\ \A i \in 1..n : s[i] = IF i < p THEN a[i] ELSE IF i = p THEN c ELSE b[i - p]
  OBVIOUS
<1>2. /\ a \o b \in Seq(S) /\ Len(a \o b) = n - 1
      /\ \A i \in 1..(n - 1) : (a \o b)[i] = IF i < p THEN a[i] ELSE b[i - p + 1]
  OBVIOUS
<1>3. Unique(s)
  OBVIOUS
<1> DEFINE ab == a \o b
<1> HIDE DEF s, p, n, ab
<1>4. K = (1..n) \ {p}
  BY <1>1, <1>3 DEF KeptAt, Members, Unique
<1>5. IsFiniteSet(1..n) /\ Cardinality(1..n) = n
  BY <1>1, FS_Interval
<1>6. Cardinality(K) = n - 1
  <2>1. Cardinality((1..n) \ {p}) = Cardinality(1..n) - 1
    BY <1>1, <1>5, FS_RemoveElement
  <2> HIDE DEF K
  <2> QED BY <1>4, <1>5, <2>1
<1>7. ASSUME NEW i \in K
      PROVE  Rank(K, i) = IF i < p THEN i ELSE i - 1
  <2> HIDE DEF K
  <2>1. i \in 1..n /\ i # p /\ i \in Nat
    BY <1>1, <1>4
  <2>2. IsFiniteSet(1..i) /\ Cardinality(1..i) = i
    BY <2>1, FS_Interval
  <2>3. CASE i < p
    <3>1. K \cap 1..i = 1..i
      BY <1>1, <1>4, <2>1, <2>3
    <3> QED BY <2>2, <2>3, <3>1 DEF Rank
  <2>4. CASE ~ (i < p)
    <3>1. K \cap 1..i = (1..i) \ {p} /\ p \in 1..i
      BY <1>1, <1>4, <2>1, <2>4
    <3> QED BY <2>1, <2>2, <2>4, <3>1, FS_RemoveElement, ZenonT(60) DEF Rank
  <2> QED BY <2>3, <2>4
<1>8. /\ DOMAIN Keep(s, T) = 1..(n - 1)
      /\ \A k \in 1..(n - 1) : \E i \in K : Rank(K, i) = k /\ Keep(s, T)[k] = s[i]
  <2>1. /\ DOMAIN Keep(s, T) = 1..Cardinality(KeptAt(s, T))
        /\ \A k \in 1..Cardinality(KeptAt(s, T)) :
              \E i \in KeptAt(s, T) :
                Rank(KeptAt(s, T), i) = k /\ Keep(s, T)[k] = s[i]
    <3> HIDE DEF T, K
    <3> QED BY <1>1, KeepPositions
  <2> HIDE DEF T
  <2> QED BY <1>6, <2>1
<1>9. \A k \in 1..(n - 1) : Keep(s, T)[k] = ab[k]
  <2> SUFFICES ASSUME NEW k \in 1..(n - 1) PROVE Keep(s, T)[k] = ab[k]
    OBVIOUS
  <2>1. PICK i \in K : Rank(K, i) = k /\ Keep(s, T)[k] = s[i]
    BY <1>8
  <2>2. i \in 1..n /\ i # p
    BY <1>4
  <2>3. k = IF i < p THEN i ELSE i - 1
    BY <1>7, <2>1
  <2>4. s[i] = IF i < p THEN a[i] ELSE IF i = p THEN c ELSE b[i - p]
    BY <1>1, <2>2
  <2>5. ab[k] = IF k < p THEN a[k] ELSE b[k - p + 1]
    BY <1>2 DEF ab
  <2>6. CASE i < p
    BY <2>1, <2>3, <2>4, <2>5, <2>6
  <2>7. CASE ~ (i < p)
    <3>1. k = i - 1 /\ ~ (k < p) /\ k - p + 1 = i - p
      BY <1>1, <2>2, <2>3, <2>7
    <3> QED BY <2>1, <2>2, <2>4, <2>5, <2>7, <3>1
  <2> QED BY <2>6, <2>7
<1>10. Keep(s, T) \in Seq(S)
  BY <1>1, KeepFacts
<1>11. Len(Keep(s, T)) = n - 1 /\ ab \in Seq(S) /\ Len(ab) = n - 1
  BY <1>1, <1>2, <1>8, <1>10 DEF ab
<1> DEFINE kept == Keep(s, T)
<1> HIDE DEF kept
<1>12. kept = ab
  <2>1. kept \in Seq(S) /\ ab \in Seq(S) /\ Len(kept) = Len(ab)
    BY <1>10, <1>11 DEF kept
  <2>2. \A k \in 1..Len(kept) : kept[k] = ab[k]
    BY <1>9, <1>11 DEF kept
  <2> QED BY ONLY <2>1, <2>2, SeqEqual
<1> QED BY <1>12 DEF Without, kept, s, ab

(***************************************************************************)
(* Recursive functions.  A definition f[x \in D] == step(x, f) in which    *)
(* step reads f at smaller arguments only has a solution.                  *)
(***************************************************************************)
\* What `step` makes of f at x depends on f where the measure m is smaller than at x.
Recursive(D, V, m, step) ==
  \A x \in D : \A f, g \in [D -> V] :
    (\A y \in D : m[y] < m[x] => f[y] = g[y]) => step[<<x, f>>] = step[<<x, g>>]

\* f is as `step` demands.
Solved(D, V, step, f) == f \in [D -> V] /\ \A x \in D : f[x] = step[<<x, f>>]

\* f is as `step` demands where the measure is below k.
SolvedBelow(D, V, m, step, f, k) ==
  /\ f \in [D -> V]
  /\ \A x \in D : m[x] < k => f[x] = step[<<x, f>>]

\* Two solutions below k agree there: at the smallest place where they did not, they
\* would be made from values on which they do.
LEMMA SolutionsAgree ==
  ASSUME NEW D, NEW V, NEW m \in [D -> Nat], NEW step, Recursive(D, V, m, step),
         NEW k \in Nat, NEW f, NEW g,
         SolvedBelow(D, V, m, step, f, k), SolvedBelow(D, V, m, step, g, k)
  PROVE  \A x \in D : m[x] < k => f[x] = g[x]
<1> DEFINE differ == {x \in D : m[x] < k /\ f[x] # g[x]}
           levels == {m[x] : x \in differ}
<1>1. SUFFICES ASSUME differ # {} PROVE FALSE
  OBVIOUS
<1>2. levels \in SUBSET Nat /\ levels # {}
  BY <1>1
<1>3. PICK j \in levels : \A i \in levels : j <= i
  <2> HIDE DEF levels
  <2> QED BY <1>2, LeastNat
<1>4. PICK x \in differ : m[x] = j
  BY <1>3
<1>5. ASSUME NEW y \in D, m[y] < m[x]
      PROVE  f[y] = g[y]
  <2>1. m[y] \in Nat /\ m[x] \in Nat /\ m[x] < k
    BY <1>4
  <2>2. y \notin differ
    <3>1. y \in differ => m[y] \in levels
      OBVIOUS
    <3> HIDE DEF levels, differ
    <3> QED BY <1>3, <1>4, <1>5, <2>1, <3>1
  <2> QED BY <1>5, <2>1, <2>2
<1>6. step[<<x, f>>] = step[<<x, g>>]
  <2>1. x \in D /\ f \in [D -> V] /\ g \in [D -> V]
    BY <1>4 DEF SolvedBelow
  <2> HIDE DEF differ, levels
  <2> QED BY <1>5, <2>1 DEF Recursive
<1>7. f[x] = step[<<x, f>>] /\ g[x] = step[<<x, g>>] /\ f[x] # g[x]
  BY <1>4 DEF SolvedBelow
<1> QED BY <1>6, <1>7

\* There is a solution below every k: one below k - 1, read once more.
LEMMA SolutionBelow ==
  ASSUME NEW D, NEW V, V # {}, NEW m \in [D -> Nat], NEW step \in [D \X [D -> V] -> V],
         Recursive(D, V, m, step), NEW k \in Nat
  PROVE  \E f : SolvedBelow(D, V, m, step, f, k)
<1> DEFINE unsolved == {i \in Nat : ~ \E f : SolvedBelow(D, V, m, step, f, i)}
<1>1. SUFFICES ASSUME unsolved # {} PROVE FALSE
  OBVIOUS
<1>2. PICK j \in unsolved : \A i \in unsolved : j <= i
  <2>1. unsolved \in SUBSET Nat
    OBVIOUS
  <2> HIDE DEF unsolved
  <2> QED BY <1>1, <2>1, LeastNat
<1>3. CASE j = 0
  <2>1. PICK v : v \in V
    OBVIOUS
  <2>2. [x \in D |-> v] \in [D -> V]
    BY <2>1
  <2>3. SolvedBelow(D, V, m, step, [x \in D |-> v], 0)
    <3>1. \A x \in D : ~ (m[x] < 0)
      OBVIOUS
    <3> QED BY <2>2, <3>1 DEF SolvedBelow
  <2> QED BY <1>2, <1>3, <2>3
<1>4. CASE j # 0
  <2>1. j \in Nat /\ j - 1 \in Nat /\ ~ (j <= j - 1)
    BY <1>4
  <2>2. PICK f : SolvedBelow(D, V, m, step, f, j - 1)
    BY <1>2, <2>1
  <2> DEFINE g == [x \in D |-> step[<<x, f>>]]
  <2>3. f \in [D -> V]
    BY <2>2 DEF SolvedBelow
  <2>4. g \in [D -> V] /\ \A x \in D : g[x] = step[<<x, f>>]
    BY <2>3
  <2> HIDE DEF g
  <2>5. ASSUME NEW x \in D, m[x] < j
        PROVE  g[x] = step[<<x, g>>]
    <3>1. \A y \in D : m[y] < m[x] => f[y] = g[y]
      <4> SUFFICES ASSUME NEW y \in D, m[y] < m[x]
                   PROVE  f[y] = g[y]
        OBVIOUS
      <4>1. m[y] < j - 1
        <5>1. m[y] \in Nat /\ m[x] \in Nat
          OBVIOUS
        <5> QED BY <2>1, <2>5, <5>1
      <4> QED BY <2>2, <2>4, <4>1 DEF SolvedBelow
    <3>2. step[<<x, f>>] = step[<<x, g>>]
      BY <2>3, <2>4, <3>1 DEF Recursive
    <3> QED BY <2>4, <3>2
  <2>6. SolvedBelow(D, V, m, step, g, j)
    BY <2>4, <2>5 DEF SolvedBelow
  <2> QED BY <1>2, <2>6
<1> QED BY <1>3, <1>4

\* The solutions below the several bounds join to a solution.
LEMMA RecursionSolved ==
  ASSUME NEW D, NEW V, V # {}, NEW m \in [D -> Nat], NEW step \in [D \X [D -> V] -> V],
         Recursive(D, V, m, step)
  PROVE  \E f : Solved(D, V, step, f)
<1> DEFINE upTo == [k \in Nat |-> CHOOSE f : SolvedBelow(D, V, m, step, f, k)]
           whole == [x \in D |-> upTo[m[x] + 1][x]]
<1>1. \A k \in Nat : SolvedBelow(D, V, m, step, upTo[k], k)
  <2> SUFFICES ASSUME NEW k \in Nat
               PROVE  SolvedBelow(D, V, m, step, upTo[k], k)
    OBVIOUS
  <2>1. \E f : SolvedBelow(D, V, m, step, f, k)
    BY SolutionBelow
  <2>2. upTo[k] = CHOOSE f : SolvedBelow(D, V, m, step, f, k)
    OBVIOUS
  <2> QED BY <2>1, <2>2
<1> HIDE DEF upTo
<1>2. \A x \in D : m[x] \in Nat /\ m[x] + 1 \in Nat /\ m[x] < m[x] + 1
  OBVIOUS
<1>3. \A k \in Nat : upTo[k] \in [D -> V]
  BY <1>1 DEF SolvedBelow
<1>4. whole \in [D -> V] /\ \A x \in D : whole[x] = upTo[m[x] + 1][x]
  BY <1>2, <1>3
<1> HIDE DEF whole
<1>5. ASSUME NEW x \in D
      PROVE  whole[x] = step[<<x, whole>>]
  <2> DEFINE here == upTo[m[x] + 1]
  <2>1. here \in [D -> V] /\ SolvedBelow(D, V, m, step, here, m[x] + 1)
    BY <1>1, <1>2, <1>3
  <2>2. whole[x] = here[x]
    BY <1>4
  <2> HIDE DEF here
  <2>3. here[x] = step[<<x, here>>]
    BY <1>2, <2>1 DEF SolvedBelow
  <2>4. \A y \in D : m[y] < m[x] => here[y] = whole[y]
    <3> SUFFICES ASSUME NEW y \in D, m[y] < m[x]
                 PROVE  here[y] = whole[y]
      OBVIOUS
    <3> DEFINE there == upTo[m[y] + 1]
    <3>1. SolvedBelow(D, V, m, step, there, m[y] + 1) /\ whole[y] = there[y]
      BY <1>1, <1>2, <1>4
    <3>2. \A z \in D : m[z] < m[y] + 1 => m[z] < m[x] + 1
      <4>1. \A z \in D : m[z] \in Nat
        OBVIOUS
      <4> QED BY <1>2, <4>1
    <3>3. SolvedBelow(D, V, m, step, here, m[y] + 1)
      BY <2>1, <3>2 DEF SolvedBelow
    <3> HIDE DEF there
    <3>4. \A z \in D : m[z] < m[y] + 1 => there[z] = here[z]
      BY <1>2, <3>1, <3>3, SolutionsAgree
    <3> QED BY <1>2, <3>1, <3>4
  <2>5. step[<<x, here>>] = step[<<x, whole>>]
    BY <1>4, <2>1, <2>4 DEF Recursive
  <2> QED BY <2>2, <2>3, <2>5
<1>6. Solved(D, V, step, whole)
  BY <1>4, <1>5 DEF Solved
<1> QED BY <1>6

\* A sequence with w between two parts.
Around(a, w, b) == a \o <<w>> \o b

IsAround(u, a, w, b) ==
  /\ Len(u) = Len(a) + 1 + Len(b)
  /\ \A j \in 1..(Len(a) + 1 + Len(b)) :
       u[j] = IF j <= Len(a) THEN a[j]
              ELSE IF j = Len(a) + 1 THEN w ELSE b[j - (Len(a) + 1)]

\* It is a sequence, and where each of its elements comes from.
LEMMA AroundFacts ==
  ASSUME NEW S, NEW a \in Seq(S), NEW b \in Seq(S), NEW w \in S
  PROVE  Around(a, w, b) \in Seq(S) /\ IsAround(Around(a, w, b), a, w, b)
BY DEF Around, IsAround

\* A member divides a sequence into what is before it and what is after it.
LEMMA SplitAt ==
  ASSUME NEW S, NEW s \in Seq(S), NEW w \in Members(s)
  PROVE  \E a \in Seq(S), b \in Seq(S) : s = Around(a, w, b)
<1>1. PICK i \in 1..Len(s) : s[i] = w
  BY DEF Members
<1> DEFINE a == SubSeq(s, 1, i - 1)
           b == SubSeq(s, i + 1, Len(s))
<1>2. /\ a \in Seq(S) /\ Len(a) = i - 1 /\ \A j \in 1..(i - 1) : a[j] = s[j]
      /\ b \in Seq(S) /\ Len(b) = Len(s) - i /\ \A j \in 1..(Len(s) - i) : b[j] = s[i + j]
  OBVIOUS
<1>3. w \in S
  BY <1>1
<1> HIDE DEF a, b
<1>4. Around(a, w, b) \in Seq(S) /\ IsAround(Around(a, w, b), a, w, b)
  <2>1. a \in Seq(S) /\ b \in Seq(S) /\ w \in S
    BY <1>2, <1>3
  <2> QED BY ONLY <2>1, AroundFacts
<1>5. Len(a) + 1 + Len(b) = Len(s) /\ Len(a) + 1 = i
  BY <1>1, <1>2
<1>6. \A j \in 1..Len(s) : Around(a, w, b)[j] = s[j]
  <2> DEFINE u == Around(a, w, b)
  <2> SUFFICES ASSUME NEW j \in 1..Len(s)
               PROVE  u[j] = s[j]
    OBVIOUS
  <2>0. /\ i \in Nat /\ j \in Nat /\ Len(a) = i - 1
        /\ u[j] = IF j <= Len(a) THEN a[j]
                  ELSE IF j = Len(a) + 1 THEN w ELSE b[j - (Len(a) + 1)]
    <3>1. i \in Nat /\ j \in Nat /\ Len(a) = i - 1
      BY <1>2
    <3>2. IsAround(u, a, w, b) /\ j \in 1..(Len(a) + 1 + Len(b))
      BY <1>4, <1>5
    <3> HIDE DEF u
    <3> QED BY ONLY <3>1, <3>2 DEF IsAround
  <2> HIDE DEF u
  <2>1. CASE j < i
    <3>1. j \in 1..(i - 1) /\ j <= Len(a)
      BY <2>0, <2>1
    <3> QED BY <1>2, <2>0, <3>1
  <2>2. CASE j = i
    <3>1. ~(j <= Len(a)) /\ j = Len(a) + 1
      BY <2>0, <2>2
    <3> QED BY <1>1, <2>0, <2>2, <3>1
  <2>3. CASE j > i
    <3>1. j - i \in 1..(Len(s) - i) /\ i + (j - i) = j
      BY <2>3
    <3>2. ~(j <= Len(a)) /\ j # Len(a) + 1 /\ j - (Len(a) + 1) = j - i
      BY <2>0, <2>3
    <3>3. u[j] = b[j - i]
      BY <2>0, <3>2
    <3> QED BY <1>2, <3>1, <3>3
  <2> QED BY <2>1, <2>2, <2>3
<1>7. s = Around(a, w, b)
  BY <1>4, <1>5, <1>6, SeqEqual DEF IsAround
<1> QED BY <1>2, <1>7

\* A member of a duplicate-free sequence has one position.
LEMMA PositionOf ==
  ASSUME NEW S, NEW s \in Seq(S), Unique(s), NEW i \in 1..Len(s), NEW w, s[i] = w
  PROVE  Position(s, w) = i
<1>1. \E j \in 1..Len(s) : s[j] = w
  OBVIOUS
<1>2. Position(s, w) \in 1..Len(s) /\ s[Position(s, w)] = w
  BY <1>1 DEF Position
<1> QED BY <1>2 DEF Unique

\* InsertAt puts a member between two parts of a sequence.
LEMMA InsertBetween ==
  ASSUME NEW S, NEW a \in Seq(S), NEW b \in Seq(S), NEW w \in S
  PROVE  InsertAt(a \o b, Len(a) + 1, w) = Around(a, w, b)
<1> DEFINE ab == a \o b
<1>1. ab \in Seq(S) /\ Len(ab) = Len(a) + Len(b) /\ Len(a) \in Nat /\ Len(b) \in Nat
  OBVIOUS
<1>2. SubSeq(ab, 1, Len(a)) = a /\ SubSeq(ab, Len(a) + 1, Len(a) + Len(b)) = b
  BY SubSeqOfConcat1, SubSeqOfConcat2, SubSeqFull
<1>3. (Len(a) + 1) - 1 = Len(a)
  BY <1>1
<1> HIDE DEF ab
<1> QED BY <1>1, <1>2, <1>3 DEF InsertAt, Around, ab

\* ConfigureWindow below a sibling puts the frame directly below it.
LEMMA PlacedBelow ==
  ASSUME NEW S, NEW s \in Seq(S), NEW w \in S, NEW d \in S,
         NEW a \in Seq(S), NEW b \in Seq(S),
         Unique(s), Without(s, w) = Around(a, d, b)
  PROVE  PlaceBelow(s, w, d) = Around(a, w, <<d>> \o b)
<1> DEFINE rest == Around(a, d, b)
           db == <<d>> \o b
<1>1. /\ rest \in Seq(S) /\ Len(a) + 1 \in 1..Len(rest) /\ rest[Len(a) + 1] = d
      /\ rest = a \o db /\ db \in Seq(S)
  BY DEF Around
<1>2. Unique(rest)
  <2>1. Unique(Without(s, w))
    BY WithoutFacts
  <2> QED BY <2>1
<1> HIDE DEF rest, db
<1>3. Position(rest, d) = Len(a) + 1
  BY <1>1, <1>2, PositionOf
<1>4. InsertAt(rest, Len(a) + 1, w) = Around(a, w, db)
  BY <1>1, InsertBetween
<1>5. PlaceBelow(s, w, d) = InsertAt(rest, Position(rest, d), w)
  BY DEF PlaceBelow, rest
<1> QED BY <1>3, <1>4, <1>5 DEF db

\* ConfigureWindow above a sibling puts the frame directly above it.
LEMMA PlacedAbove ==
  ASSUME NEW S, NEW s \in Seq(S), NEW w \in S, NEW d \in S,
         NEW a \in Seq(S), NEW b \in Seq(S),
         Unique(s), Without(s, w) = Around(a, d, b)
  PROVE  PlaceAbove(s, w, d) = Around(a \o <<d>>, w, b)
<1> DEFINE rest == Around(a, d, b)
           ad == a \o <<d>>
<1>1. /\ rest \in Seq(S) /\ Len(a) + 1 \in 1..Len(rest) /\ rest[Len(a) + 1] = d
      /\ rest = ad \o b /\ ad \in Seq(S) /\ Len(ad) = Len(a) + 1
  BY DEF Around
<1>2. Unique(rest)
  <2>1. Unique(Without(s, w))
    BY WithoutFacts
  <2> QED BY <2>1
<1> HIDE DEF rest, ad
<1>3. Position(rest, d) = Len(a) + 1
  BY <1>1, <1>2, PositionOf
<1>4. InsertAt(rest, Len(ad) + 1, w) = Around(ad, w, b)
  BY <1>1, InsertBetween
<1>5. PlaceAbove(s, w, d) = InsertAt(rest, Position(rest, d) + 1, w)
  BY DEF PlaceAbove, rest
<1> QED BY <1>1, <1>3, <1>4, <1>5 DEF ad

\* What is left out of a sequence was in one place of it.
LEMMA WithoutSplit ==
  ASSUME NEW S, NEW s \in Seq(S), Unique(s), NEW w \in Members(s)
  PROVE  \E a \in Seq(S), b \in Seq(S) :
           s = Around(a, w, b) /\ Without(s, w) = a \o b
<1>1. PICK a \in Seq(S), b \in Seq(S) : s = Around(a, w, b)
  BY SplitAt
<1>2. w \in S
  BY DEF Members
<1>3. Without(s, w) = a \o b
  <2>1. Unique(a \o <<w>> \o b)
    BY <1>1 DEF Around
  <2>2. Without(a \o <<w>> \o b, w) = a \o b
    BY <1>2, <2>1, WithoutParts
  <2> QED BY <1>1, <2>2 DEF Around
<1> QED BY <1>1, <1>3

\* Without a member it does not have, a duplicate-free sequence with one more member is
\* what it was: moving a client to an end changes nothing for the others.
LEMMA WithoutMoved ==
  ASSUME NEW S, NEW s \in Seq(S), Unique(s), NEW w \in S
  PROVE  /\ Without(MoveToEnd(s, w), w) = Without(s, w)
         /\ Without(MoveToFront(s, w), w) = Without(s, w)
<1> DEFINE rest == Without(s, w)
           e == <<>>
<1>1. rest \in Seq(S) /\ Members(rest) = Members(s) \ {w} /\ Unique(rest)
  BY WithoutFacts
<1>2. e \in Seq(S)
  OBVIOUS
<1>3. /\ MoveToEnd(s, w) \in Seq(S) /\ Unique(MoveToEnd(s, w))
      /\ MoveToFront(s, w) \in Seq(S) /\ Unique(MoveToFront(s, w))
  BY MoveFacts
<1>4. MoveToEnd(s, w) = rest \o <<w>> \o e /\ MoveToFront(s, w) = e \o <<w>> \o rest
  <2> HIDE DEF rest
  <2>1. Append(rest, w) = rest \o <<w>> \o e /\ <<w>> \o rest = e \o <<w>> \o rest
    BY <1>1
  <2> QED BY <2>1 DEF MoveToEnd, MoveToFront, rest
<1>5. rest \o e = rest /\ e \o rest = rest
  <2> HIDE DEF rest
  <2> QED BY <1>1
<1> HIDE DEF rest, e
<1>6. Without(rest \o <<w>> \o e, w) = rest \o e
  BY <1>1, <1>2, <1>3, <1>4, WithoutParts, SMTT(60)
<1>7. Without(e \o <<w>> \o rest, w) = e \o rest
  BY <1>1, <1>2, <1>3, <1>4, WithoutParts, SMTT(60)
<1> QED BY <1>4, <1>5, <1>6, <1>7 DEF rest

\* A duplicate-free sequence has as many positions as members.
LEMMA UniqueLength ==
  ASSUME NEW S, NEW s \in Seq(S), Unique(s)
  PROVE  Cardinality(Members(s)) = Len(s)
<1> DEFINE at == [i \in 1..Len(s) |-> s[i]]
<1>1. at \in Bijection(1..Len(s), Members(s))
  BY DEF Bijection, Injection, Surjection, IsInjective, Members, Unique
<1>2. IsFiniteSet(1..Len(s)) /\ Cardinality(1..Len(s)) = Len(s)
  <2>1. Len(s) \in Nat /\ 1 \in Int /\ Len(s) \in Int
    OBVIOUS
  <2> QED BY ONLY <2>1, FS_Interval
<1> HIDE DEF at
<1>3. Cardinality(Members(s)) = Cardinality(1..Len(s))
  <2>1. ExistsBijection(1..Len(s), Members(s))
    BY <1>1 DEF ExistsBijection
  <2> QED BY ONLY <1>2, <2>1, FS_Bijection
<1> QED BY <1>2, <1>3

\* A sequence of members of S that lists members of M only is a sequence over M.
LEMMA OverMembers ==
  ASSUME NEW S, NEW s \in Seq(S), NEW M, Members(s) \subseteq M
  PROVE  s \in Seq(M)
<1>1. \A i \in 1..Len(s) : s[i] \in M
  BY DEF Members
<1>2. s = [i \in 1..Len(s) |-> s[i]] /\ Len(s) \in Nat
  OBVIOUS
<1>3. s \in [1..Len(s) -> M]
  BY <1>1, <1>2
<1> QED BY <1>2, <1>3

\* A new member between two parts of a duplicate-free sequence.
LEMMA InsertedFacts ==
  ASSUME NEW S, NEW a \in Seq(S), NEW b \in Seq(S), NEW w \in S
  PROVE  /\ Members(Around(a, w, b)) = Members(a \o b) \cup {w}
         /\ Unique(a \o b) /\ w \notin Members(a \o b) => Unique(Around(a, w, b))
<1> DEFINE u == Around(a, w, b)
           ab == a \o b
           p == Len(a) + 1
           n == Len(a) + Len(b)
<1>1. /\ p \in 1..(n + 1) /\ n \in Nat /\ Len(ab) = n /\ Len(u) = n + 1
      /\ u[p] = w
      /\ \A i \in 1..n : i < p => u[i] = ab[i]
      /\ \A i \in 1..n : ~ (i < p) => u[i + 1] = ab[i]
  BY DEF Around
<1> HIDE DEF u, ab, p, n
<1>2. \A i \in 1..(n + 1) :
        \/ i < p /\ i \in 1..n /\ u[i] = ab[i]
        \/ i = p /\ u[i] = w
        \/ i > p /\ i - 1 \in 1..n /\ u[i] = ab[i - 1]
  <2> SUFFICES ASSUME NEW i \in 1..(n + 1), i > p
               PROVE  i - 1 \in 1..n /\ u[i] = ab[i - 1]
    BY <1>1
  <2>1. i - 1 \in 1..n /\ ~ (i - 1 < p) /\ (i - 1) + 1 = i
    BY <1>1
  <2> QED BY <1>1, <2>1
<1>3. Members(u) \subseteq Members(ab) \cup {w}
  BY <1>1, <1>2 DEF Members
<1>4. Members(ab) \cup {w} \subseteq Members(u)
  <2>1. w \in Members(u)
    BY <1>1 DEF Members
  <2>2. ASSUME NEW i \in 1..n PROVE ab[i] \in Members(u)
    <3>1. i \in 1..Len(u) /\ i + 1 \in 1..Len(u)
      BY <1>1
    <3> QED BY <1>1, <3>1 DEF Members
  <2> QED BY <1>1, <2>1, <2>2 DEF Members
<1>5. ASSUME Unique(ab), w \notin Members(ab), NEW i \in 1..(n + 1), NEW j \in 1..(n + 1),
             u[i] = u[j]
      PROVE  i = j
  <2>1. \A k \in 1..n : ab[k] # w
    BY <1>1, <1>5 DEF Members
  <2>2. \A k, l \in 1..n : ab[k] = ab[l] => k = l
    BY <1>1, <1>5 DEF Unique
  <2>3. CASE i = p
    BY <1>1, <1>2, <1>5, <2>1, <2>3
  <2>4. CASE j = p
    BY <1>1, <1>2, <1>5, <2>1, <2>4
  <2>5. CASE i < p /\ j < p
    BY <1>1, <1>2, <1>5, <2>2, <2>5
  <2>6. CASE i < p /\ j > p
    <3>1. i \in 1..n /\ j - 1 \in 1..n /\ ab[i] = ab[j - 1]
      BY <1>1, <1>2, <1>5, <2>6
    <3>2. i = j - 1
      BY <2>2, <3>1
    <3> QED BY <1>1, <2>6, <3>2
  <2>7. CASE i > p /\ j < p
    <3>1. j \in 1..n /\ i - 1 \in 1..n /\ ab[j] = ab[i - 1]
      BY <1>1, <1>2, <1>5, <2>7
    <3>2. j = i - 1
      BY <2>2, <3>1
    <3> QED BY <1>1, <2>7, <3>2
  <2>8. CASE i > p /\ j > p
    <3>1. j - 1 \in 1..n /\ i - 1 \in 1..n /\ ab[j - 1] = ab[i - 1]
      BY <1>1, <1>2, <1>5, <2>8
    <3>2. j - 1 = i - 1
      BY <2>2, <3>1
    <3> QED BY <1>1, <3>2
  <2> QED BY <1>1, <2>3, <2>4, <2>5, <2>6, <2>7, <2>8
<1>6. Unique(ab) /\ w \notin Members(ab) => Unique(u)
  BY <1>1, <1>5 DEF Unique
<1> QED BY <1>3, <1>4, <1>6 DEF u, ab

\* A stack: the clients of M, each once.
Stacks(M) == {s \in Seq(M) : Enumerates(s, M)}

\* Restacking one frame next to another loses none and repeats none.
LEMMA PlacedListing ==
  ASSUME NEW M, NEW s \in Stacks(M), NEW w \in M, NEW d \in M, w # d
  PROVE  PlaceBelow(s, w, d) \in Stacks(M) /\ PlaceAbove(s, w, d) \in Stacks(M)
<1>1. s \in Seq(M) /\ Unique(s) /\ Members(s) = M
  BY DEF Stacks, Enumerates
<1> DEFINE rest == Without(s, w)
<1>2. rest \in Seq(M) /\ Members(rest) = M \ {w} /\ Unique(rest)
  BY <1>1, WithoutFacts
<1>3. PICK a \in Seq(M), b \in Seq(M) : rest = Around(a, d, b)
  <2> HIDE DEF rest
  <2>1. d \in Members(rest)
    BY <1>2
  <2> QED BY <1>2, <2>1, SplitAt
<1> DEFINE db == <<d>> \o b
           ad == a \o <<d>>
<1>4. db \in Seq(M) /\ ad \in Seq(M) /\ rest = a \o db /\ rest = ad \o b
  BY <1>3 DEF Around
<1>5. PlaceBelow(s, w, d) = Around(a, w, db) /\ PlaceAbove(s, w, d) = Around(ad, w, b)
  <2> HIDE DEF db, ad
  <2>1. Without(s, w) = Around(a, d, b)
    BY <1>3
  <2> HIDE DEF rest
  <2> QED BY <1>1, <2>1, PlacedBelow, PlacedAbove DEF db, ad
<1> HIDE DEF rest, db, ad
<1>6. /\ Members(Around(a, w, db)) = Members(a \o db) \cup {w}
      /\ Unique(a \o db) /\ w \notin Members(a \o db) => Unique(Around(a, w, db))
      /\ Members(Around(ad, w, b)) = Members(ad \o b) \cup {w}
      /\ Unique(ad \o b) /\ w \notin Members(ad \o b) => Unique(Around(ad, w, b))
  <2>1. a \in Seq(M) /\ b \in Seq(M) /\ ad \in Seq(M) /\ db \in Seq(M) /\ w \in M
    BY <1>4
  <2> QED BY ONLY <2>1, InsertedFacts
<1>7. Around(a, w, db) \in Seq(M) /\ Around(ad, w, b) \in Seq(M)
  BY <1>4, AroundFacts
<1> QED BY <1>2, <1>4, <1>5, <1>6, <1>7 DEF Stacks, Enumerates

\* So do the other requests a client may make, and moving a client to an end.
LEMMA MovedListing ==
  ASSUME NEW M, NEW s \in Stacks(M), NEW w \in M
  PROVE  MoveToEnd(s, w) \in Stacks(M) /\ MoveToFront(s, w) \in Stacks(M)
<1>1. s \in Seq(M) /\ Unique(s) /\ Members(s) = M
  BY DEF Stacks, Enumerates
<1> QED
  <2>1. /\ MoveToEnd(s, w) \in Seq(M) /\ MoveToFront(s, w) \in Seq(M)
        /\ Members(MoveToEnd(s, w)) = M \cup {w} /\ Unique(MoveToEnd(s, w))
        /\ Members(MoveToFront(s, w)) = M \cup {w} /\ Unique(MoveToFront(s, w))
    <3>1. s \in Seq(M) /\ w \in M
      BY <1>1
    <3>2. /\ MoveToEnd(s, w) \in Seq(M)
          /\ Members(MoveToEnd(s, w)) = Members(s) \cup {w}
          /\ Unique(s) => Unique(MoveToEnd(s, w))
          /\ MoveToFront(s, w) \in Seq(M)
          /\ Members(MoveToFront(s, w)) = Members(s) \cup {w}
          /\ Unique(s) => Unique(MoveToFront(s, w))
      BY ONLY <3>1, MoveFacts
    <3> QED BY <1>1, <3>2
  <2>2. M \cup {w} = M
    OBVIOUS
  <2> QED BY <2>1, <2>2 DEF Stacks, Enumerates

\* What a client's own request leaves lists the same frames.
LEMMA ConfiguredListing ==
  ASSUME NEW M, NEW s \in Stacks(M), NEW w \in M
  PROVE  Configured(s, w) \subseteq Stacks(M)
<1>1. MoveToEnd(s, w) \in Stacks(M) /\ MoveToFront(s, w) \in Stacks(M)
  BY MovedListing
<1>2. Members(s) = M
  BY DEF Stacks, Enumerates
<1>3. ASSUME NEW d \in M \ {w}
      PROVE  PlaceBelow(s, w, d) \in Stacks(M) /\ PlaceAbove(s, w, d) \in Stacks(M)
  BY <1>3, PlacedListing
<1> QED BY <1>1, <1>2, <1>3 DEF Configured

\* Two stacks of the same clients have the same length.
LEMMA StackLength ==
  ASSUME NEW M, NEW s \in Stacks(M)
  PROVE  Len(s) = Cardinality(M) /\ Len(s) \in Nat /\ IsFiniteSet(M)
<1>1. s \in Seq(M) /\ Unique(s) /\ Members(s) = M
  BY DEF Stacks, Enumerates
<1> QED BY <1>1, UniqueLength, MembersFinite

\* The one request of the fast path makes the server's order the core's, when the two
\* differ in the place of that client only.
LEMMA OneRequest ==
  ASSUME NEW M, NEW server_ \in Stacks(M), NEW order \in Stacks(M), NEW c \in M,
         Without(server_, c) = Without(order, c)
  PROVE  PlacedInOrder(server_, c, order) = order
<1>1. /\ server_ \in Seq(M) /\ Unique(server_)
      /\ order \in Seq(M) /\ Unique(order) /\ Members(order) = M
  BY DEF Stacks, Enumerates
<1>2. PICK a \in Seq(M), b \in Seq(M) : order = Around(a, c, b) /\ Without(order, c) = a \o b
  <2>1. order \in Seq(M) /\ Unique(order) /\ c \in Members(order)
    BY <1>1
  <2> QED BY ONLY <2>1, WithoutSplit, ZenonT(30)
<1> DEFINE m == Len(a)
           n == Len(b)
<1>3. /\ m \in Nat /\ n \in Nat /\ Len(order) = m + 1 + n
      /\ order[m + 1] = c
      /\ \A j \in 1..m : order[j] = a[j]
      /\ \A j \in 1..n : order[m + 1 + j] = b[j]
  BY <1>2 DEF Around
<1>4. Position(order, c) = m + 1
  <2>1. m + 1 \in 1..Len(order)
    BY <1>3
  <2> HIDE DEF m
  <2> QED BY <1>1, <1>3, <2>1, PositionOf
<1>5. Without(server_, c) = a \o b
  BY <1>2
<1>6. CASE b # <<>>
  <2>1. n # 0 /\ Head(b) = b[1] /\ Tail(b) \in Seq(M) /\ b = <<Head(b)>> \o Tail(b)
        /\ Head(b) \in M
    BY <1>6
  <2>2. Without(server_, c) = Around(a, Head(b), Tail(b))
    BY <1>5, <2>1 DEF Around
  <2>3. PlaceBelow(server_, c, Head(b)) = Around(a, c, <<Head(b)>> \o Tail(b))
    <3> DEFINE d == Head(b)
               q == Tail(b)
    <3>1. /\ server_ \in Seq(M) /\ Unique(server_) /\ c \in M /\ d \in M
          /\ a \in Seq(M) /\ q \in Seq(M) /\ Without(server_, c) = Around(a, d, q)
      BY <1>1, <2>1, <2>2
    <3> HIDE DEF d, q
    <3>2. PlaceBelow(server_, c, d) = Around(a, c, <<d>> \o q)
      BY ONLY <3>1, PlacedBelow
    <3> QED BY <3>2 DEF d, q
  <2>4. m + 1 < Len(order) /\ order[m + 1 + 1] = Head(b)
    BY <1>3, <2>1
  <2> HIDE DEF m, n
  <2>5. PlacedInOrder(server_, c, order) = PlaceBelow(server_, c, Head(b))
    BY <1>4, <2>4 DEF PlacedInOrder
  <2> QED BY <1>2, <2>1, <2>3, <2>5
<1>7. CASE b = <<>> /\ a # <<>>
  <2> DEFINE front == SubSeq(a, 1, m - 1)
             last == a[m]
  <2>1. /\ n = 0 /\ m # 0 /\ front \in Seq(M) /\ last \in M
        /\ a = front \o <<last>> /\ a \o b = a
    BY <1>7
  <2>2. Around(front, last, <<>>) = front \o <<last>> /\ b = <<>>
    <3> HIDE DEF front, last
    <3> QED BY <1>7, <2>1 DEF Around
  <2>3. ~ (m + 1 < Len(order)) /\ m + 1 > 1 /\ order[(m + 1) - 1] = last
    <3>1. n = 0 /\ m # 0
      BY <2>1
    <3> HIDE DEF m, n
    <3>2. m \in 1..m /\ (m + 1) - 1 = m
      BY <1>3, <3>1
    <3> QED BY <1>3, <3>1, <3>2
  <2> HIDE DEF front, last, m, n
  <2>4. Without(server_, c) = Around(front, last, <<>>) /\ <<>> \in Seq(M)
    BY <1>5, <2>1, <2>2
  <2>5. PlaceAbove(server_, c, last) = Around(front \o <<last>>, c, <<>>)
    BY <1>1, <2>1, <2>4, PlacedAbove
  <2>6. PlacedInOrder(server_, c, order) = PlaceAbove(server_, c, last)
    BY <1>4, <2>3 DEF PlacedInOrder
  <2> QED BY <1>2, <2>1, <2>2, <2>5, <2>6
<1>8. CASE b = <<>> /\ a = <<>>
  <2>1. m = 0 /\ n = 0 /\ a \o b = <<>>
    BY <1>8
  <2>2. MoveToEnd(server_, c) = <<c>>
    BY <1>5, <2>1 DEF MoveToEnd
  <2>3. Around(a, c, b) = <<c>>
    BY <1>8 DEF Around
  <2>4. ~ (m + 1 < Len(order)) /\ ~ (m + 1 > 1)
    BY <1>3, <2>1
  <2> HIDE DEF m, n
  <2> QED BY <1>2, <1>4, <2>2, <2>3, <2>4 DEF PlacedInOrder
<1> QED BY <1>6, <1>7, <1>8

\* A frame put below one that was above it takes the place under that one, and nothing
\* from there up moves.
LEMMA BelowPositions ==
  ASSUME NEW M, NEW s \in Stacks(M), NEW i \in 1..Len(s), NEW j \in 1..Len(s), i < j
  PROVE  /\ PlaceBelow(s, s[i], s[j])[j - 1] = s[i]
         /\ \A k \in j..Len(s) : PlaceBelow(s, s[i], s[j])[k] = s[k]
<1>1. s \in Seq(M) /\ Unique(s) /\ Members(s) = M
  BY DEF Stacks, Enumerates
<1> DEFINE w == s[i]
           d == s[j]
           n == Len(s)
<1>2. w \in M /\ d \in M /\ w # d /\ n \in Nat /\ i \in Nat /\ j \in Nat /\ i \in 1..n /\ j \in 1..n
  BY <1>1 DEF Unique
<1>3. PICK a \in Seq(M), b \in Seq(M) : s = Around(a, w, b) /\ Without(s, w) = a \o b
  <2> HIDE DEF w
  <2>1. s \in Seq(M) /\ Unique(s) /\ w \in Members(s)
    BY <1>1, <1>2
  <2> QED BY ONLY <2>1, WithoutSplit, ZenonT(30)
<1> DEFINE rest == a \o b
<1>4. Len(a) = i - 1 /\ Len(b) = n - i
  <2>0. IsAround(s, a, w, b)
    BY <1>2, <1>3, AroundFacts
  <2>1. /\ Len(a) \in Nat /\ Len(b) \in Nat /\ n = Len(a) + 1 + Len(b)
        /\ s[Len(a) + 1] = w
    <3> HIDE DEF w, d, rest
    <3> QED BY <2>0 DEF IsAround
  <2>2. Len(a) + 1 \in 1..n
    BY <2>1
  <2>3. Len(a) + 1 = i
    BY <1>1, <1>2, <2>1, <2>2 DEF Unique
  <2> QED BY <1>2, <2>1, <2>3
<1>5. /\ rest \in Seq(M) /\ Len(rest) = n - 1
      /\ \A k \in i..(n - 1) : rest[k] = s[k + 1]
  <2>1. IsAround(s, a, w, b)
    BY <1>2, <1>3, AroundFacts
  <2>2. ASSUME NEW k \in i..(n - 1)
        PROVE  rest[k] = s[k + 1]
    <3>1. k \in 1..(Len(a) + Len(b)) /\ ~ (k <= Len(a))
      BY <1>2, <1>4
    <3>2. rest[k] = b[k - Len(a)]
      BY <3>1
    <3> HIDE DEF rest
    <3>3. /\ k + 1 \in 1..(Len(a) + 1 + Len(b)) /\ ~ (k + 1 <= Len(a)) /\ k + 1 # Len(a) + 1
          /\ (k + 1) - (Len(a) + 1) = k - Len(a)
      BY <1>2, <1>4, <3>1
    <3>4. s[k + 1] = b[k - Len(a)]
      BY <2>1, <3>3 DEF IsAround
    <3> QED BY <3>2, <3>4
  <2>3. rest \in Seq(M) /\ Len(rest) = Len(a) + Len(b)
    OBVIOUS
  <2> HIDE DEF rest
  <2> QED BY <1>2, <1>4, <2>2, <2>3
<1>6. Unique(rest)
  <2>1. Unique(Without(s, w))
    BY <1>1, WithoutFacts
  <2> QED BY <1>3, <2>1
<1>7. rest[j - 1] = d /\ j - 1 \in 1..Len(rest)
  <2>1. j - 1 \in i..(n - 1) /\ (j - 1) + 1 = j
    BY <1>2
  <2> HIDE DEF rest
  <2> QED BY <1>2, <1>5, <2>1
<1> DEFINE p == SubSeq(rest, 1, j - 2)
           q == SubSeq(rest, j, n - 1)
<1>8. rest = Around(p, d, q) /\ p \in Seq(M) /\ q \in Seq(M)
      /\ Len(p) = j - 2 /\ Len(q) = n - j
      /\ \A k \in 1..(n - j) : q[k] = rest[j + k - 1]
  <2> HIDE DEF rest, d, n
  <2>1. /\ p \in Seq(M) /\ q \in Seq(M) /\ Len(p) = j - 2 /\ Len(q) = n - j
        /\ \A k \in 1..(j - 2) : p[k] = rest[k]
        /\ \A k \in 1..(n - j) : q[k] = rest[j + k - 1]
    BY <1>2, <1>5, <1>7
  <2> HIDE DEF p, q
  <2>2. Around(p, d, q) \in Seq(M) /\ IsAround(Around(p, d, q), p, d, q)
    <3>1. p \in Seq(M) /\ q \in Seq(M) /\ d \in M
      BY <1>2, <2>1
    <3> QED BY ONLY <3>1, AroundFacts
  <2>3. \A k \in 1..(n - 1) : rest[k] = Around(p, d, q)[k]
    <3> SUFFICES ASSUME NEW k \in 1..(n - 1)
                 PROVE  rest[k] = Around(p, d, q)[k]
      OBVIOUS
    <3>1. k \in 1..(Len(p) + 1 + Len(q)) /\ Len(p) + 1 = j - 1
      BY <1>2, <2>1
    <3>2. CASE k < j - 1
      BY <1>2, <2>1, <2>2, <3>1, <3>2 DEF IsAround
    <3>3. CASE k = j - 1
      BY <1>2, <1>7, <2>1, <2>2, <3>1, <3>3 DEF IsAround
    <3>4. CASE k > j - 1
      <4>1. k - (j - 1) \in 1..(n - j) /\ j + (k - (j - 1)) - 1 = k
        BY <1>2, <3>4
      <4>2. Around(p, d, q)[k] = q[k - (j - 1)]
        BY <1>2, <2>1, <2>2, <3>1, <3>4 DEF IsAround
      <4> QED BY <2>1, <4>1, <4>2
    <3> QED BY <1>2, <3>2, <3>3, <3>4
  <2>4. Len(Around(p, d, q)) = n - 1
    BY <1>2, <2>1, <2>2 DEF IsAround
  <2>5. rest = Around(p, d, q)
    BY <1>5, <2>2, <2>3, <2>4, SeqEqual
  <2> QED BY <2>1, <2>5
<1> DEFINE dq == <<d>> \o q
<1>9. PlaceBelow(s, w, d) = Around(p, w, dq)
  <2> HIDE DEF w, d, p, q, rest
  <2>1. Without(s, w) = Around(p, d, q)
    BY <1>3, <1>8 DEF rest
  <2> QED BY ONLY <1>1, <1>2, <1>8, <2>1, PlacedBelow DEF dq
<1>10. dq \in Seq(M) /\ Len(dq) = n - j + 1 /\ dq[1] = d
       /\ \A k \in 1..(n - j) : dq[k + 1] = q[k]
  <2>1. d \in M /\ q \in Seq(M) /\ Len(q) = n - j
    BY <1>2, <1>8
  <2> HIDE DEF d, p, q, n, rest
  <2>2. /\ dq \in Seq(M) /\ Len(dq) = 1 + Len(q) /\ dq[1] = d
        /\ \A k \in 1..Len(q) : dq[k + 1] = q[k]
    <3>1. d \in M /\ q \in Seq(M)
      BY <2>1
    <3> QED BY ONLY <3>1 DEF dq
  <2> HIDE DEF dq
  <2>3. n \in Nat /\ j \in Nat
    BY <1>2
  <2> QED BY ONLY <2>1, <2>2, <2>3
<1> HIDE DEF dq, p, q, w, d, n, rest
<1>11. IsAround(Around(p, w, dq), p, w, dq)
  <2>1. p \in Seq(M) /\ dq \in Seq(M) /\ w \in M
    BY <1>2, <1>8, <1>10
  <2> QED BY ONLY <2>1, AroundFacts
<1>12. Around(p, w, dq)[j - 1] = w
  <2>1. j - 1 \in 1..(Len(p) + 1 + Len(dq)) /\ Len(p) + 1 = j - 1 /\ ~ (j - 1 <= Len(p))
    BY <1>2, <1>7, <1>8, <1>10
  <2> QED BY <1>11, <2>1 DEF IsAround
<1>13. ASSUME NEW k \in j..n
       PROVE  Around(p, w, dq)[k] = s[k]
  <2>1. /\ k \in 1..(Len(p) + 1 + Len(dq)) /\ Len(p) + 1 = j - 1 /\ ~ (k <= Len(p))
        /\ k # Len(p) + 1 /\ k \in Nat
    BY <1>2, <1>8, <1>10
  <2>2. Around(p, w, dq)[k] = dq[k - (j - 1)]
    BY <1>11, <2>1 DEF IsAround
  <2>3. CASE k = j
    <3>1. k - (j - 1) = 1
      BY <1>2, <2>3
    <3> QED BY <1>10, <2>2, <2>3, <3>1 DEF d
  <2>4. CASE k > j
    <3>1. /\ k - j \in 1..(n - j) /\ (k - j) + 1 = k - (j - 1) /\ j + (k - j) - 1 = k - 1
          /\ k - 1 \in i..(n - 1) /\ (k - 1) + 1 = k
      BY <1>2, <2>1, <2>4
    <3>2. dq[k - (j - 1)] = q[k - j]
      BY <1>10, <3>1
    <3>3. q[k - j] = rest[k - 1]
      BY <1>8, <3>1
    <3>4. rest[k - 1] = s[k]
      BY <1>5, <3>1
    <3> QED BY <2>2, <3>2, <3>3, <3>4
  <2> QED BY <1>2, <2>1, <2>3, <2>4
<1> QED BY <1>9, <1>12, <1>13 DEF w, d, n

\* enforce_layers makes the server's order the core's, whatever the server's was: after
\* k requests the topmost k frames are where they belong.
LEMMA RestackedIsOrder ==
  ASSUME NEW M, NEW s \in Stacks(M), NEW order \in Stacks(M)
  PROVE  Restacked(s, order) = order
<1> DEFINE top == Len(order)
           D == 0..top
           V == Stacks(M)
           m == [k \in D |-> k]
           value(k, f) == IF k = 0 THEN s
                          ELSE IF k = 1 THEN MoveToEnd(s, order[top])
                          ELSE PlaceBelow(f[k - 1], order[top - k + 1], order[top - k + 2])
           step == [z \in D \X [D -> V] |-> value(z[1], z[2])]
           Solves(g) == g = [k \in D |-> value(k, g)]
           after == CHOOSE g : Solves(g)
<1>1. /\ order \in Seq(M) /\ Unique(order) /\ Members(order) = M
      /\ top \in Nat /\ s \in V
  BY DEF Stacks, Enumerates
<1>2. \A i \in 1..top : order[i] \in M
  BY <1>1
<1>3. \A i, j \in 1..top : order[i] = order[j] => i = j
  BY <1>1 DEF Unique
<1>4. Restacked(s, order) = after[top]
  BY DEF Restacked
<1> HIDE DEF after
<1>5. ASSUME NEW k \in D, NEW f \in [D -> V]
      PROVE  value(k, f) \in V
  <2> HIDE DEF top
  <2>1. CASE k = 0
    BY <1>1, <2>1
  <2>2. CASE k = 1
    <3>1. order[top] \in M
      BY <1>1, <1>2, <2>2
    <3>2. MoveToEnd(s, order[top]) \in V
      BY <3>1, MovedListing
    <3> QED BY <2>2, <3>2
  <2>3. CASE k # 0 /\ k # 1
    <3>1. /\ k - 1 \in D /\ top - k + 1 \in 1..top /\ top - k + 2 \in 1..top
          /\ top - k + 1 # top - k + 2
      BY <1>1, <2>3
    <3>2. /\ f[k - 1] \in V /\ order[top - k + 1] \in M /\ order[top - k + 2] \in M
          /\ order[top - k + 1] # order[top - k + 2]
      <4> HIDE DEF D, V
      <4> QED BY <1>2, <1>3, <3>1
    <3>3. PlaceBelow(f[k - 1], order[top - k + 1], order[top - k + 2]) \in V
      BY <3>2, PlacedListing
    <3> QED BY <2>3, <3>3
  <2> QED BY <2>1, <2>2, <2>3
<1>6. PICK f \in [D -> V] : \A k \in D : f[k] = value(k, f)
  <2>1. step \in [D \X [D -> V] -> V]
    <3> HIDE DEF D, V, value
    <3> QED BY <1>5
  <2>2. m \in [D -> Nat] /\ V # {}
    BY <1>1
  <2>3. \A k \in D : \A f \in [D -> V] : step[<<k, f>>] = value(k, f)
    <3> HIDE DEF D, V, value
    <3> QED OBVIOUS
  <2>4. Recursive(D, V, m, step)
    <3> SUFFICES ASSUME NEW k \in D, NEW f \in [D -> V], NEW g \in [D -> V],
                        \A y \in D : m[y] < m[k] => f[y] = g[y]
                 PROVE  value(k, f) = value(k, g)
      <4> HIDE DEF D, V, value, m, step
      <4> QED BY <2>3 DEF Recursive
    <3>1. k # 0 /\ k # 1 => k - 1 \in D /\ m[k - 1] < m[k]
      BY <1>1
    <3>2. k # 0 /\ k # 1 => f[k - 1] = g[k - 1]
      BY <3>1
    <3> QED BY <3>2
  <2> HIDE DEF top, D, V, m, step, value, Solves
  <2>5. \E f : Solved(D, V, step, f)
    BY ONLY <2>1, <2>2, <2>4, RecursionSolved
  <2> QED BY <2>3, <2>5 DEF Solved
<1>7. Solves(f)
  <2> HIDE DEF D, V, value
  <2> QED BY <1>6
<1>8. Solves(after)
  <2> HIDE DEF Solves
  <2> QED BY <1>7 DEF after
<1>9. \A k \in D : after[k] = value(k, after)
  <2> HIDE DEF D, value
  <2> QED BY <1>8
<1> DEFINE wrong == {k \in D : ~ /\ after[k] \in V
                                 /\ \A i \in 1..top : i > top - k => after[k][i] = order[i]}
<1>10. wrong = {}
  <2> SUFFICES ASSUME wrong # {} PROVE FALSE
    OBVIOUS
  <2>1. PICK k \in wrong : \A j \in wrong : k <= j
    <3>1. wrong \in SUBSET Nat
      BY <1>1
    <3> HIDE DEF wrong
    <3> QED BY <3>1, LeastNat
  <2>2. k \in D /\ k \in Nat
    BY <1>1
  <2>3. after[k] = value(k, after)
    <3> HIDE DEF value, D
    <3> QED BY <1>9, <2>2
  <2>4. CASE k = 0
    <3>1. after[k] = s
      BY <2>3, <2>4
    <3>2. \A i \in 1..top : ~ (i > top - k)
      BY <1>1, <2>4
    <3> QED BY <1>1, <3>1, <3>2
  <2>5. CASE k = 1
    <3>1. after[k] = MoveToEnd(s, order[top]) /\ order[top] \in M /\ top \in 1..top
      BY <1>1, <1>2, <2>2, <2>3, <2>5
    <3>2. after[k] \in V
      BY <3>1, MovedListing
    <3>3. Len(after[k]) = top
      BY <1>1, <3>2, StackLength
    <3>4. after[k][Len(after[k])] = order[top]
      <4>1. s \in Seq(M) /\ Unique(s)
        BY DEF Stacks, Enumerates
      <4>2. Without(s, order[top]) \in Seq(M)
        BY <4>1, WithoutFacts
      <4> DEFINE rest == Without(s, order[top])
                 last == order[top]
      <4>3. after[k] = Append(rest, last) /\ rest \in Seq(M)
        BY <3>1, <4>2 DEF MoveToEnd
      <4> HIDE DEF rest, last
      <4>4. after[k][Len(after[k])] = last
        BY <4>3
      <4> QED BY <4>4 DEF last
    <3>5. \A i \in 1..top : i > top - k => i = top
      BY <1>1, <2>5
    <3> QED BY <3>2, <3>3, <3>4, <3>5
  <2>6. CASE k # 0 /\ k # 1
    <3> DEFINE t == after[k - 1]
               j == top - k + 2
    <3>1. /\ k - 1 \in D /\ ~ (k <= k - 1) /\ j \in 1..top /\ j - 1 \in 1..top
          /\ top - k + 1 = j - 1 /\ j \in Nat
      BY <1>1, <2>2, <2>6
    <3>2. t \in V /\ \A i \in 1..top : i > top - (k - 1) => t[i] = order[i]
      <4>1. k - 1 \notin wrong
        <5> HIDE DEF wrong
        <5> QED BY <2>1, <3>1
      <4> QED BY <3>1, <4>1
    <3>3. t \in Seq(M) /\ Unique(t) /\ Members(t) = M /\ Len(t) = top
      <4>1. Len(t) = Len(order)
        BY <3>2, StackLength
      <4> QED BY <3>2, <4>1 DEF Stacks, Enumerates
    <3>4. after[k] = PlaceBelow(t, order[j - 1], order[j])
      BY <2>3, <2>6, <3>1
    <3> HIDE DEF t, j, D
    <3>5. \A i \in j..top : t[i] = order[i]
      <4>1. \A i \in j..top : i \in 1..top /\ i > top - (k - 1)
        BY <1>1, <2>2, <3>1 DEF j
      <4> QED BY <3>2, <4>1
    <3>6. t[j] = order[j]
      BY <1>1, <3>1, <3>5
    <3>7. PICK i \in 1..top : t[i] = order[j - 1]
      <4>1. order[j - 1] \in M
        BY <1>2, <3>1
      <4> QED BY <3>3, <4>1 DEF Members
    <3>8. i < j
      <4>1. i \in j..top => t[i] = order[i] /\ i # j - 1
        BY <3>1, <3>5
      <4>2. i \notin j..top
        BY <1>3, <3>1, <3>7, <4>1
      <4> QED BY <1>1, <3>1, <4>2
    <3> HIDE DEF V, top
    <3>9. after[k] = PlaceBelow(t, t[i], t[j])
      BY <3>4, <3>6, <3>7
    <3>10. /\ PlaceBelow(t, t[i], t[j])[j - 1] = t[i]
           /\ \A l \in j..Len(t) : PlaceBelow(t, t[i], t[j])[l] = t[l]
      <4>1. t \in Stacks(M) /\ i \in 1..Len(t) /\ j \in 1..Len(t) /\ i < j
        BY <3>1, <3>2, <3>3, <3>8 DEF V
      <4> QED BY ONLY <4>1, BelowPositions
    <3>11. after[k] \in V
      <4>1. t \in Stacks(M) /\ t[i] \in M /\ t[j] \in M /\ t[i] # t[j]
        BY <1>2, <1>3, <3>1, <3>2, <3>6, <3>7 DEF V
      <4>2. PlaceBelow(t, t[i], t[j]) \in Stacks(M)
        BY ONLY <4>1, PlacedListing
      <4> QED BY <3>9, <4>2 DEF V
    <3>12. ASSUME NEW l \in 1..top, l > top - k
           PROVE  after[k][l] = order[l]
      <4>1. l = j - 1 \/ l \in j..top
        BY <1>1, <2>2, <3>1, <3>12 DEF j
      <4>2. CASE l = j - 1
        BY <3>7, <3>9, <3>10, <4>2
      <4>3. CASE l \in j..top
        BY <3>3, <3>5, <3>9, <3>10, <4>3
      <4> QED BY <4>1, <4>2, <4>3
    <3> QED BY <2>1, <3>11, <3>12
  <2> QED BY <2>4, <2>5, <2>6
<1>11. after[top] \in V /\ \A i \in 1..top : after[top][i] = order[i]
  <2>1. top \in D /\ top \notin wrong
    <3> HIDE DEF wrong
    <3> QED BY <1>1, <1>10
  <2>2. \A i \in 1..top : i > top - top
    BY <1>1
  <2> QED BY <2>1, <2>2
<1>12. after[top] = order
  <2>1. Len(after[top]) = Len(order) /\ after[top] \in Seq(M)
    BY <1>11, StackLength DEF Stacks
  <2> QED BY <1>1, <1>11, <2>1, SeqEqual
<1> QED BY <1>4, <1>12

\* A pair of numbers below another, the first number first.
LEMMA PairBelow ==
  ASSUME NEW a \in Nat, NEW b \in Nat, NEW k \in Nat, NEW l \in Nat, NEW n \in Nat,
         \/ a < b /\ l < k
         \/ a <= b /\ l < n
  PROVE  a * k + l < b * k + n
<1>1. a * k \in Nat /\ b * k \in Nat
  OBVIOUS
<1>2. CASE a < b /\ l < k
  <2>1. PICK d \in Nat : b = (a + 1) + d
    <3>1. b - (a + 1) \in Nat /\ b = (a + 1) + (b - (a + 1))
      BY <1>2
    <3> QED BY <3>1
  <2>2. b * k = a * k + k + d * k /\ d * k \in Nat
    BY <2>1
  <2> QED BY <1>1, <1>2, <2>2
<1>3. CASE a <= b /\ l < n
  <2>1. PICK d \in Nat : b = a + d
    <3>1. b - a \in Nat /\ b = a + (b - a)
      BY <1>3
    <3> QED BY <3>1
  <2>2. b * k = a * k + d * k /\ d * k \in Nat
    BY <2>1
  <2> QED BY <1>1, <1>3, <2>2
<1> QED BY <1>2, <1>3

\* What has to be below a client comes from its layer and is not longer than the order.
LEMMA PlacedBeforeFacts ==
  ASSUME NEW S, NEW order \in Seq(S), NEW cs, NEW layer, NEW c
  PROVE  /\ PlacedBefore(cs, order, layer, c) \in Seq(layer)
         /\ Len(PlacedBefore(cs, order, layer, c)) <= Len(order) + 1
<1> DEFINE G == GroupMembers(cs, c) \cap layer
           kept == Keep(order, G)
           parent == IF cs[c].transientFor \in layer THEN <<cs[c].transientFor>> ELSE <<>>
<1>1. kept \in Seq(layer)
  <2>1. kept \in Seq(S) /\ Members(kept) = Members(order) \cap G
    <3> HIDE DEF G
    <3> QED BY KeepFacts
  <2>2. Members(kept) \subseteq layer
    BY <2>1
  <2> HIDE DEF kept
  <2> QED BY <2>1, <2>2, OverMembers
<1>2. Len(kept) <= Len(order) /\ Len(kept) \in Nat
  <2> DEFINE K == KeptAt(order, G)
  <2>1. /\ K \in SUBSET (1..Len(order)) /\ Cardinality(K) \in Nat
        /\ DOMAIN kept = 1..Cardinality(K)
    <3> HIDE DEF G
    <3> QED BY KeepPositions
  <2>2. IsFiniteSet(1..Len(order)) /\ Cardinality(1..Len(order)) = Len(order)
    <3>1. Len(order) \in Nat /\ 1 \in Int /\ Len(order) \in Int
      OBVIOUS
    <3> QED BY ONLY <3>1, FS_Interval
  <2> HIDE DEF K
  <2>3. Cardinality(K) <= Len(order)
    <3> DEFINE I == 1..Len(order)
    <3>1. K \in SUBSET I /\ IsFiniteSet(I) /\ Cardinality(I) = Len(order)
      BY <2>1, <2>2
    <3> HIDE DEF I
    <3>2. Cardinality(K) <= Cardinality(I)
      BY ONLY <3>1, FS_Subset
    <3> QED BY <3>1, <3>2
  <2>4. Len(kept) = Cardinality(K)
    <3> HIDE DEF kept
    <3> QED BY <1>1, <2>1
  <2> QED BY <2>1, <2>3, <2>4
<1>3. parent \in Seq(layer) /\ Len(parent) <= 1 /\ Len(parent) \in Nat
  OBVIOUS
<1> HIDE DEF kept, parent
<1>4. kept \o parent \in Seq(layer) /\ Len(kept \o parent) <= Len(order) + 1
  BY <1>1, <1>2, <1>3
<1> QED BY <1>4 DEF PlacedBefore, kept, parent, G

(* ---- The function place of PlaceLayer ---- *)
Work(layer) == Seq(layer) \X SUBSET layer
PlaceStep(cs, order, layer, work, f) ==
  LET pending == work[1]
      visited == work[2]
      c == Head(pending)
      below == f[<<PlacedBefore(cs, order, layer, c), visited \cup {c}>>]
      placed == Append(below, c)
  IN IF pending = <<>> THEN <<>>
     ELSE IF c \in visited THEN f[<<Tail(pending), visited>>]
     ELSE placed \o f[<<Tail(pending), visited \cup Members(placed)>>]
Places(cs, order, layer, f) ==
  f = [work \in Work(layer) |-> PlaceStep(cs, order, layer, work, f)]
Placing(cs, order, layer) == CHOOSE f : Places(cs, order, layer, f)

\* How far a piece of work is from its end: the clients not visited count most.
WorkLeft(order, layer) ==
  [work \in Work(layer) |-> Cardinality(layer \ work[2]) * (Len(order) + 2) + Len(work[1])]

\* PlaceLayer is place from the start, with nobody visited.
LEMMA PlaceLayerIs ==
  ASSUME NEW cs, NEW order, NEW layer
  PROVE  PlaceLayer(cs, order, layer) = Placing(cs, order, layer)[<<Keep(order, layer), {}>>]
BY DEF PlaceLayer, Placing, Places, PlaceStep, Work

\* Each of the three calls has less left to do, whatever the first one returned.
LEMMA WorkShrinks ==
  ASSUME NEW S, NEW order \in Seq(S), NEW cs, NEW layer, IsFiniteSet(layer),
         NEW pending \in Seq(layer), NEW visited \in SUBSET layer, pending # <<>>
  PROVE  LET c == Head(pending)
             left == WorkLeft(order, layer)
             before == PlacedBefore(cs, order, layer, c)
         IN /\ left \in [Work(layer) -> Nat]
            /\ c \in layer /\ Tail(pending) \in Seq(layer)
            /\ <<before, visited \cup {c}>> \in Work(layer)
            /\ c \notin visited =>
                 left[<<before, visited \cup {c}>>] < left[<<pending, visited>>]
            /\ \A more \in SUBSET layer :
                 /\ <<Tail(pending), visited \cup more>> \in Work(layer)
                 /\ left[<<Tail(pending), visited \cup more>>] < left[<<pending, visited>>]
<1> DEFINE c == Head(pending)
           left == WorkLeft(order, layer)
           before == PlacedBefore(cs, order, layer, c)
           k == Len(order) + 2
           size(v) == Cardinality(layer \ v)
<1>1. k \in Nat /\ Len(order) \in Nat
  OBVIOUS
<1>2. \A v \in SUBSET layer : IsFiniteSet(layer \ v) /\ size(v) \in Nat
  <2> SUFFICES ASSUME NEW v \in SUBSET layer
               PROVE  IsFiniteSet(layer \ v) /\ size(v) \in Nat
    OBVIOUS
  <2>1. IsFiniteSet(layer \ v)
    BY FS_Difference
  <2> QED BY <2>1, FS_CardinalityType
<1>3. before \in Seq(layer) /\ Len(before) <= Len(order) + 1
  BY PlacedBeforeFacts
<1>4. /\ c \in layer /\ Tail(pending) \in Seq(layer)
      /\ Len(Tail(pending)) = Len(pending) - 1 /\ Len(pending) \in Nat
      /\ Len(Tail(pending)) \in Nat
  OBVIOUS
<1> HIDE DEF k, size
<1>5. \A w \in Work(layer) : left[w] = size(w[2]) * k + Len(w[1])
  BY DEF WorkLeft, size, k
<1>6. left \in [Work(layer) -> Nat]
  <2>1. \A w \in Work(layer) : size(w[2]) * k + Len(w[1]) \in Nat
    <3> SUFFICES ASSUME NEW w \in Work(layer)
                 PROVE  size(w[2]) * k + Len(w[1]) \in Nat
      OBVIOUS
    <3>1. size(w[2]) \in Nat /\ k \in Nat /\ Len(w[1]) \in Nat
      <4>1. w[1] \in Seq(layer) /\ w[2] \in SUBSET layer
        BY DEF Work
      <4>2. size(w[2]) \in Nat
        BY <1>2, <4>1
      <4>3. Len(w[1]) \in Nat
        BY <4>1
      <4> QED BY <1>1, <4>2, <4>3
    <3> QED BY ONLY <3>1
  <2>2. left = [w \in Work(layer) |-> size(w[2]) * k + Len(w[1])]
    BY DEF WorkLeft, size, k
  <2> HIDE DEF left
  <2> QED BY <2>1, <2>2
<1> HIDE DEF left, before, c
<1>7. ASSUME NEW p \in Seq(layer), NEW v \in SUBSET layer
      PROVE  <<p, v>> \in Work(layer) /\ left[<<p, v>>] = size(v) * k + Len(p)
  <2>1. <<p, v>> \in Work(layer)
    BY DEF Work
  <2> QED BY <1>5, <2>1
<1>8. \A v, v2 \in SUBSET layer : v \subseteq v2 => size(v2) <= size(v)
  <2> SUFFICES ASSUME NEW v \in SUBSET layer, NEW v2 \in SUBSET layer, v \subseteq v2
               PROVE  size(v2) <= size(v)
    OBVIOUS
  <2>1. layer \ v2 \in SUBSET (layer \ v)
    OBVIOUS
  <2> QED BY <1>2, <2>1, FS_Subset DEF size
<1>9. ASSUME c \notin visited
      PROVE  left[<<before, visited \cup {c}>>] < left[<<pending, visited>>]
  <2>1. size(visited \cup {c}) < size(visited)
    <3>1. layer \ (visited \cup {c}) = (layer \ visited) \ {c} /\ c \in layer \ visited
      BY <1>4, <1>9
    <3>2. IsFiniteSet(layer \ visited) /\ size(visited) \in Nat
      BY <1>2
    <3>3. Cardinality((layer \ visited) \ {c}) = Cardinality(layer \ visited) - 1
      BY ONLY <3>1, <3>2, FS_RemoveElement
    <3>4. size(visited \cup {c}) = size(visited) - 1
      BY <3>1, <3>3 DEF size
    <3> QED BY <3>2, <3>4
  <2>2. Len(before) < k /\ Len(before) \in Nat
    BY <1>1, <1>3 DEF k
  <2>3. size(visited \cup {c}) * k + Len(before) < size(visited) * k + Len(pending)
    BY <1>1, <1>2, <1>4, <2>1, <2>2, PairBelow
  <2>4. visited \cup {c} \in SUBSET layer
    BY <1>4
  <2>5. left[<<before, visited \cup {c}>>] = size(visited \cup {c}) * k + Len(before)
    BY <1>3, <1>7, <2>4
  <2>6. left[<<pending, visited>>] = size(visited) * k + Len(pending)
    BY <1>7
  <2> QED BY <2>3, <2>5, <2>6
<1>10. ASSUME NEW more \in SUBSET layer
       PROVE  /\ <<Tail(pending), visited \cup more>> \in Work(layer)
              /\ left[<<Tail(pending), visited \cup more>>] < left[<<pending, visited>>]
  <2> DEFINE t == Tail(pending)
             v == visited \cup more
  <2>1. t \in Seq(layer) /\ v \in SUBSET layer /\ Len(t) \in Nat /\ Len(t) < Len(pending)
    BY <1>4
  <2>2. size(v) <= size(visited)
    BY <1>8, <2>1
  <2> HIDE DEF t, v
  <2>3. size(v) * k + Len(t) < size(visited) * k + Len(pending)
    BY <1>1, <1>2, <1>4, <2>1, <2>2, PairBelow
  <2>4. <<t, v>> \in Work(layer) /\ left[<<t, v>>] = size(v) * k + Len(t)
    BY <1>7, <2>1
  <2>5. left[<<pending, visited>>] = size(visited) * k + Len(pending)
    BY <1>7
  <2> QED BY <2>3, <2>4, <2>5 DEF t, v
<1>11. <<before, visited \cup {c}>> \in Work(layer)
  BY <1>3, <1>4, <1>7
<1> QED BY <1>4, <1>6, <1>9, <1>10, <1>11 DEF left, before, c

\* The definition of place has a solution, so what it chooses is one.
LEMMA PlacingSolves ==
  ASSUME NEW S, NEW order \in Seq(S), NEW cs, NEW layer, IsFiniteSet(layer)
  PROVE  Places(cs, order, layer, Placing(cs, order, layer))
<1> DEFINE D == Work(layer)
           V == Seq(layer)
           m == WorkLeft(order, layer)
           value(w, f) == PlaceStep(cs, order, layer, w, f)
           step == [z \in D \X [D -> V] |-> value(z[1], z[2])]
<1>1. ASSUME NEW w \in D
      PROVE  w[1] \in Seq(layer) /\ w[2] \in SUBSET layer /\ w = <<w[1], w[2]>>
  BY DEF Work
<1>2. ASSUME NEW w \in D, w[1] # <<>>
      PROVE  LET c == Head(w[1])
                 before == PlacedBefore(cs, order, layer, c)
             IN /\ m \in [D -> Nat]
                /\ c \in layer /\ Tail(w[1]) \in Seq(layer)
                /\ <<before, w[2] \cup {c}>> \in D
                /\ c \notin w[2] => m[<<before, w[2] \cup {c}>>] < m[w]
                /\ \A more \in SUBSET layer :
                     /\ <<Tail(w[1]), w[2] \cup more>> \in D
                     /\ m[<<Tail(w[1]), w[2] \cup more>>] < m[w]
  <2> DEFINE pending == w[1]
             visited == w[2]
  <2>1. pending \in Seq(layer) /\ visited \in SUBSET layer /\ pending # <<>>
        /\ w = <<pending, visited>>
    BY <1>1, <1>2
  <2> HIDE DEF pending, visited
  <2>2. LET c == Head(pending)
            left == WorkLeft(order, layer)
            before == PlacedBefore(cs, order, layer, c)
        IN /\ left \in [Work(layer) -> Nat]
           /\ c \in layer /\ Tail(pending) \in Seq(layer)
           /\ <<before, visited \cup {c}>> \in Work(layer)
           /\ c \notin visited =>
                left[<<before, visited \cup {c}>>] < left[<<pending, visited>>]
           /\ \A more \in SUBSET layer :
                /\ <<Tail(pending), visited \cup more>> \in Work(layer)
                /\ left[<<Tail(pending), visited \cup more>>] < left[<<pending, visited>>]
    BY <2>1, WorkShrinks
  <2> QED BY <2>1, <2>2 DEF pending, visited
<1>3. ASSUME NEW w \in D, NEW f \in [D -> V]
      PROVE  value(w, f) \in V
  <2>1. CASE w[1] = <<>>
    BY <2>1 DEF PlaceStep
  <2>2. CASE w[1] # <<>>
    <3> DEFINE c == Head(w[1])
               before == PlacedBefore(cs, order, layer, c)
               below == f[<<before, w[2] \cup {c}>>]
               placed == Append(below, c)
    <3>1. /\ c \in layer
          /\ <<before, w[2] \cup {c}>> \in D
          /\ \A more \in SUBSET layer : <<Tail(w[1]), w[2] \cup more>> \in D
      BY <1>2, <2>2
    <3>2. <<Tail(w[1]), w[2]>> \in D
      <4>1. <<Tail(w[1]), w[2] \cup {}>> \in D
        BY <3>1
      <4> QED BY <4>1
    <3>3. below \in Seq(layer)
      BY <3>1
    <3>4. placed \in Seq(layer)
      BY <3>1, <3>3
    <3>5. Members(placed) \in SUBSET layer
      <4> HIDE DEF placed
      <4> QED BY <3>4 DEF Members
    <3>6. f[<<Tail(w[1]), w[2] \cup Members(placed)>>] \in Seq(layer)
      BY <3>1, <3>5
    <3>7. f[<<Tail(w[1]), w[2]>>] \in Seq(layer)
      BY <3>2
    <3>8. value(w, f) = IF c \in w[2] THEN f[<<Tail(w[1]), w[2]>>]
                        ELSE placed \o f[<<Tail(w[1]), w[2] \cup Members(placed)>>]
      BY <2>2 DEF PlaceStep
    <3> HIDE DEF placed, value
    <3> QED BY <3>4, <3>6, <3>7, <3>8
  <2> QED BY <2>1, <2>2
<1>4. ASSUME NEW w \in D, NEW f \in [D -> V], NEW g \in [D -> V],
             \A y \in D : m[y] < m[w] => f[y] = g[y]
      PROVE  value(w, f) = value(w, g)
  <2>1. CASE w[1] = <<>>
    BY <2>1 DEF PlaceStep
  <2>2. CASE w[1] # <<>>
    <3> DEFINE c == Head(w[1])
               before == PlacedBefore(cs, order, layer, c)
               placed(h) == Append(h[<<before, w[2] \cup {c}>>], c)
    <3>1. /\ c \in layer
          /\ <<before, w[2] \cup {c}>> \in D
          /\ c \notin w[2] => m[<<before, w[2] \cup {c}>>] < m[w]
          /\ \A more \in SUBSET layer : /\ <<Tail(w[1]), w[2] \cup more>> \in D
                                        /\ m[<<Tail(w[1]), w[2] \cup more>>] < m[w]
      BY <1>2, <2>2
    <3>2. \A more \in SUBSET layer :
            f[<<Tail(w[1]), w[2] \cup more>>] = g[<<Tail(w[1]), w[2] \cup more>>]
      <4> HIDE DEF m, D
      <4> QED BY <1>4, <3>1
    <3>3. f[<<Tail(w[1]), w[2]>>] = g[<<Tail(w[1]), w[2]>>]
      <4>1. f[<<Tail(w[1]), w[2] \cup {}>>] = g[<<Tail(w[1]), w[2] \cup {}>>]
        BY <3>2
      <4>2. w[2] \cup {} = w[2]
        OBVIOUS
      <4> QED BY <4>1, <4>2
    <3>4. c \notin w[2] => placed(f) = placed(g)
      <4> HIDE DEF m, D
      <4> QED BY <1>4, <3>1
    <3>5. Members(placed(f)) \in SUBSET layer
      <4>1. f[<<before, w[2] \cup {c}>>] \in Seq(layer)
        BY <3>1
      <4>2. placed(f) \in Seq(layer)
        BY <3>1, <4>1
      <4> HIDE DEF placed
      <4> QED BY <4>2 DEF Members
    <3>6. \A h : value(w, h) = IF c \in w[2] THEN h[<<Tail(w[1]), w[2]>>]
                  ELSE placed(h) \o h[<<Tail(w[1]), w[2] \cup Members(placed(h))>>]
      BY <2>2 DEF PlaceStep
    <3> HIDE DEF placed, value
    <3> QED BY <3>2, <3>3, <3>4, <3>5, <3>6
  <2> QED BY <2>1, <2>2
<1> HIDE DEF value
<1>5. step \in [D \X [D -> V] -> V]
  <2> HIDE DEF D, V
  <2> QED BY <1>3
<1>6. \A w \in D : \A f \in [D -> V] : step[<<w, f>>] = value(w, f)
  <2> HIDE DEF D, V
  <2> QED OBVIOUS
<1>7. Recursive(D, V, m, step)
  <2> SUFFICES ASSUME NEW w \in D, NEW f \in [D -> V], NEW g \in [D -> V],
                      \A y \in D : m[y] < m[w] => f[y] = g[y]
               PROVE  value(w, f) = value(w, g)
    <3> HIDE DEF D, V, m, step
    <3> QED BY <1>6 DEF Recursive
  <2> QED BY <1>4
<1>8. m \in [D -> Nat] /\ V # {}
  <2>1. <<>> \in V
    OBVIOUS
  <2>2. \A w \in D : m[w] \in Nat
    <3> SUFFICES ASSUME NEW w \in D PROVE m[w] \in Nat
      OBVIOUS
    <3>1. IsFiniteSet(layer \ w[2])
      BY FS_Difference
    <3>2. Cardinality(layer \ w[2]) \in Nat
      BY <3>1, FS_CardinalityType
    <3>3. Len(w[1]) \in Nat /\ Len(order) + 2 \in Nat
      BY <1>1
    <3>4. m[w] = Cardinality(layer \ w[2]) * (Len(order) + 2) + Len(w[1])
      BY DEF WorkLeft
    <3> DEFINE a == Cardinality(layer \ w[2])
               b == Len(order) + 2
               d == Len(w[1])
    <3>5. a \in Nat /\ b \in Nat /\ d \in Nat /\ m[w] = a * b + d
      BY <3>2, <3>3, <3>4
    <3> HIDE DEF a, b, d
    <3> QED BY ONLY <3>5
  <2>3. m = [w \in D |-> m[w]]
    BY DEF WorkLeft
  <2> HIDE DEF m
  <2> QED BY <2>1, <2>2, <2>3
<1> HIDE DEF D, V, m, step
<1>9. PICK f : Solved(D, V, step, f)
  BY ONLY <1>5, <1>7, <1>8, RecursionSolved
<1>10. f \in [D -> V] /\ \A w \in D : f[w] = value(w, f)
  BY <1>6, <1>9 DEF Solved
<1>11. f = [w \in D |-> value(w, f)]
  BY <1>10
<1>12. Places(cs, order, layer, f)
  BY <1>11 DEF Places, D, value
<1> QED BY <1>12 DEF Placing

\* What holds of a piece of work when it holds of all that have less left holds of all.
LEMMA WorkInduction ==
  ASSUME NEW S, NEW order \in Seq(S), NEW layer, IsFiniteSet(layer), NEW good,
         \A w \in Work(layer) :
           (\A y \in Work(layer) : WorkLeft(order, layer)[y] < WorkLeft(order, layer)[w]
                                   => y \in good)
           => w \in good
  PROVE  \A w \in Work(layer) : w \in good
<1> DEFINE D == Work(layer)
           m == WorkLeft(order, layer)
           bad == {w \in D : w \notin good}
           levels == {m[w] : w \in bad}
<1>1. \A w \in D : m[w] \in Nat
  <2> SUFFICES ASSUME NEW w \in D PROVE m[w] \in Nat
    OBVIOUS
  <2> DEFINE a == Cardinality(layer \ w[2])
             b == Len(order) + 2
             d == Len(w[1])
  <2>1. IsFiniteSet(layer \ w[2])
    BY FS_Difference
  <2>2. a \in Nat /\ b \in Nat
    BY <2>1, FS_CardinalityType
  <2>3. d \in Nat
    <3>1. w[1] \in Seq(layer)
      BY DEF Work
    <3> QED BY <3>1
  <2>4. m[w] = a * b + d
    BY DEF WorkLeft
  <2> HIDE DEF a, b, d
  <2> QED BY ONLY <2>2, <2>3, <2>4
<1> HIDE DEF m, D
<1>2. SUFFICES ASSUME bad # {} PROVE FALSE
  BY DEF D
<1>3. levels \in SUBSET Nat /\ levels # {}
  BY <1>1, <1>2
<1>4. PICK k \in levels : \A l \in levels : k <= l
  <2> HIDE DEF levels
  <2> QED BY <1>3, LeastNat
<1>5. PICK w \in bad : m[w] = k
  BY <1>4
<1>6. \A y \in D : m[y] < m[w] => y \in good
  <2> SUFFICES ASSUME NEW y \in D, m[y] < m[w], y \notin good
               PROVE  FALSE
    OBVIOUS
  <2>1. m[y] \in levels /\ m[y] \in Nat /\ m[w] \in Nat
    BY <1>1
  <2>2. k <= m[y]
    <3> HIDE DEF levels
    <3> QED BY <1>4, <2>1
  <2> QED BY <1>5, <2>1, <2>2
<1>7. w \in D /\ w \notin good
  BY <1>5
<1> QED BY <1>6, <1>7 DEF D, m

\* The three cases of place.
Unfolded(cs, order, layer, pending, visited) ==
  LET place == Placing(cs, order, layer)
      c == Head(pending)
      placed == Append(place[<<PlacedBefore(cs, order, layer, c), visited \cup {c}>>], c)
  IN /\ pending = <<>> => place[<<pending, visited>>] = <<>>
     /\ pending # <<>> /\ c \in visited
        => place[<<pending, visited>>] = place[<<Tail(pending), visited>>]
     /\ pending # <<>> /\ c \notin visited
        => place[<<pending, visited>>]
             = placed \o place[<<Tail(pending), visited \cup Members(placed)>>]

\* place is a step of itself: its definition has a solution.
LEMMA PlacingUnfolds ==
  ASSUME NEW cs, NEW order, NEW layer, Places(cs, order, layer, Placing(cs, order, layer)),
         NEW pending \in Seq(layer), NEW visited \in SUBSET layer
  PROVE  Unfolded(cs, order, layer, pending, visited)
<1> DEFINE place == Placing(cs, order, layer)
           w == <<pending, visited>>
<1>1. w \in Work(layer)
  BY DEF Work
<1>2. place[w] = PlaceStep(cs, order, layer, w, place)
  <2> HIDE DEF place, w
  <2>1. place = [work \in Work(layer) |-> PlaceStep(cs, order, layer, work, place)]
    BY DEF Places, place
  <2> QED BY <1>1, <2>1
<1>3. w[1] = pending /\ w[2] = visited
  OBVIOUS
<1> HIDE DEF place, w
<1> QED BY <1>2, <1>3 DEF PlaceStep, Unfolded, place, w

\* The clients that have to be below a client.
Below(cs, order, layer, c) == Members(PlacedBefore(cs, order, layer, c))

\* A set that holds with a client those that have to be below it.
ClosedBelow(cs, order, layer, T) ==
  T \subseteq layer /\ \A c \in T : Below(cs, order, layer, c) \subseteq T

\* place returns each client once, none that was visited before, all that were to be
\* visited, and no other than these need below them.
PlacesAll(cs, order, layer, w, r) ==
  /\ r \in Seq(layer)
  /\ Unique(r)
  /\ Members(r) \cap w[2] = {}
  /\ Members(w[1]) \subseteq w[2] \cup Members(r)
  /\ \A T : ClosedBelow(cs, order, layer, T) /\ Members(w[1]) \subseteq T => Members(r) \subseteq T

\* The head of a sequence and the rest of it.
LEMMA HeadTailFacts ==
  ASSUME NEW S, NEW s \in Seq(S), s # <<>>
  PROVE  /\ Head(s) \in S /\ Tail(s) \in Seq(S)
         /\ Members(s) = {Head(s)} \cup Members(Tail(s))
<1> DEFINE h == Head(s)
           t == Tail(s)
<1>1. h \in S /\ t \in Seq(S) /\ s = <<h>> \o t
  OBVIOUS
<1>2. <<h>> \in Seq(S) /\ Members(<<h>>) = {h}
  BY <1>1, SingletonFacts
<1> DEFINE one == <<h>>
<1> HIDE DEF one, h, t
<1>3. Members(one \o t) = Members(one) \cup Members(t)
  <2>1. one \in Seq(S) /\ t \in Seq(S)
    BY <1>1, <1>2 DEF one
  <2> QED BY ONLY <2>1, ConcatFacts
<1> QED BY <1>1, <1>2, <1>3 DEF one, h, t

\* What place returns for each piece of work.
LEMMA PlacingLists ==
  ASSUME NEW S, NEW order \in Seq(S), NEW cs, NEW layer, IsFiniteSet(layer)
  PROVE  \A w \in Work(layer) :
           PlacesAll(cs, order, layer, w, Placing(cs, order, layer)[w])
<1> DEFINE D == Work(layer)
           m == WorkLeft(order, layer)
           place == Placing(cs, order, layer)
           All(w) == PlacesAll(cs, order, layer, w, place[w])
           good == {w \in D : All(w)}
<1>1. Places(cs, order, layer, Placing(cs, order, layer))
  BY PlacingSolves
<1>2. ASSUME NEW w \in D, \A y \in D : m[y] < m[w] => All(y)
      PROVE  All(w)
  <2>1. PICK pending \in Seq(layer), visited \in SUBSET layer : w = <<pending, visited>>
    BY DEF Work
  <2> DEFINE c == Head(pending)
             before == PlacedBefore(cs, order, layer, c)
             below == place[<<before, visited \cup {c}>>]
             placed == Append(below, c)
             rest == place[<<Tail(pending), visited \cup Members(placed)>>]
  <2>2. w[1] = pending /\ w[2] = visited
    BY <2>1
  <2>3. /\ pending = <<>> => place[w] = <<>>
        /\ pending # <<>> /\ c \in visited => place[w] = place[<<Tail(pending), visited>>]
        /\ pending # <<>> /\ c \notin visited => place[w] = placed \o rest
    <3>1. Unfolded(cs, order, layer, pending, visited)
      BY <1>1, PlacingUnfolds
    <3> QED BY <2>1, <3>1, Zenon DEF Unfolded
  <2>4. CASE pending = <<>>
    <3>1. place[w] = <<>> /\ Members(<<>>) = {} /\ Unique(<<>>) /\ <<>> \in Seq(layer)
      BY <2>3, <2>4, EmptyFacts
    <3> HIDE DEF place
    <3> QED BY <2>2, <2>4, <3>1 DEF PlacesAll
  <2>5. CASE pending # <<>>
    <3>1. /\ c \in layer /\ Tail(pending) \in Seq(layer)
          /\ <<before, visited \cup {c}>> \in D
          /\ c \notin visited => m[<<before, visited \cup {c}>>] < m[w]
          /\ \A more \in SUBSET layer :
               /\ <<Tail(pending), visited \cup more>> \in D
               /\ m[<<Tail(pending), visited \cup more>>] < m[w]
      BY <2>1, <2>5, WorkShrinks
    <3>2. Members(pending) = {c} \cup Members(Tail(pending))
      BY <2>5, HeadTailFacts
    <3> DEFINE t == Tail(pending)
    <3> HIDE DEF place, m, D, All
    <3>3. CASE c \in visited
      <4> DEFINE y == <<t, visited>>
      <4>1. y \in D /\ m[y] < m[w]
        <5>1. <<t, visited \cup {}>> \in D /\ m[<<t, visited \cup {}>>] < m[w]
          BY <3>1
        <5>2. visited \cup {} = visited
          OBVIOUS
        <5> QED BY <5>1, <5>2
      <4>2. All(y)
        <5> HIDE DEF y
        <5> QED BY <1>2, <4>1
      <4>3. place[w] = place[y] /\ y[1] = t /\ y[2] = visited
        BY <2>3, <2>5, <3>3
      <4> HIDE DEF y, t, c
      <4>4. Members(pending) = {c} \cup Members(t)
        BY <3>2 DEF t
      <4> QED BY <2>2, <3>3, <4>2, <4>3, <4>4 DEF All, PlacesAll
    <3>4. CASE c \notin visited
      <4> DEFINE y == <<before, visited \cup {c}>>
                 z == <<t, visited \cup Members(placed)>>
      <4>1. All(y)
        <5>1. y \in D /\ m[y] < m[w]
          BY <3>1, <3>4
        <5> HIDE DEF y
        <5> QED BY <1>2, <5>1
      <4>2. /\ below \in Seq(layer) /\ Unique(below) /\ Members(below) \cap (visited \cup {c}) = {}
            /\ Members(before) \subseteq (visited \cup {c}) \cup Members(below)
            /\ \A T : ClosedBelow(cs, order, layer, T) /\ Members(before) \subseteq T
                        => Members(below) \subseteq T
        <5>1. y[1] = before /\ y[2] = visited \cup {c} /\ below = place[y]
          OBVIOUS
        <5> HIDE DEF y, below, before, c
        <5> QED BY <4>1, <5>1 DEF All, PlacesAll
      <4>3. /\ placed \in Seq(layer) /\ Unique(placed)
            /\ Members(placed) = Members(below) \cup {c}
        <5>1. below \in Seq(layer) /\ c \in layer
          BY <3>1, <4>2
        <5>2. /\ Append(below, c) \in Seq(layer)
              /\ Members(Append(below, c)) = Members(below) \cup {c}
              /\ Unique(below) /\ c \notin Members(below) => Unique(Append(below, c))
          <6> HIDE DEF below, c
          <6> QED BY <5>1, AppendFacts
        <5> HIDE DEF below, c
        <5> QED BY <4>2, <5>2
      <4>4. All(z)
        <5>1. Members(placed) \in SUBSET layer
          <6> HIDE DEF placed
          <6> QED BY <4>3 DEF Members
        <5>2. z \in D /\ m[z] < m[w]
          BY <3>1, <5>1
        <5> HIDE DEF z
        <5> QED BY <1>2, <5>2
      <4>5. /\ rest \in Seq(layer) /\ Unique(rest)
            /\ Members(rest) \cap (visited \cup Members(placed)) = {}
            /\ Members(t) \subseteq (visited \cup Members(placed)) \cup Members(rest)
            /\ \A T : ClosedBelow(cs, order, layer, T) /\ Members(t) \subseteq T
                        => Members(rest) \subseteq T
        <5>1. z[1] = t /\ z[2] = visited \cup Members(placed) /\ rest = place[z]
          OBVIOUS
        <5> HIDE DEF z, rest, placed, t
        <5> QED BY <4>4, <5>1 DEF All, PlacesAll
      <4>6. place[w] = placed \o rest
        BY <2>3, <2>5, <3>4
      <4> HIDE DEF placed, rest, below, t, z, y
      <4>7. /\ placed \o rest \in Seq(layer)
            /\ Members(placed \o rest) = Members(placed) \cup Members(rest)
            /\ Unique(placed) /\ Unique(rest) /\ Members(placed) \cap Members(rest) = {}
                 => Unique(placed \o rest)
        BY <4>3, <4>5, ConcatFacts
      <4>8. Members(pending) = {c} \cup Members(t)
        BY <3>2 DEF t
      <4>9. ASSUME NEW T, ClosedBelow(cs, order, layer, T), Members(pending) \subseteq T
            PROVE  Members(placed \o rest) \subseteq T
        <5>1. c \in T /\ Members(t) \subseteq T
          BY <4>8, <4>9
        <5>2. Members(before) \subseteq T
          BY <4>9, <5>1 DEF ClosedBelow, Below
        <5> HIDE DEF c, before
        <5> QED BY <4>2, <4>3, <4>5, <4>7, <4>9, <5>1, <5>2
      <4> HIDE DEF c, before
      <4>10. Unique(placed \o rest)
        BY <4>3, <4>5, <4>7
      <4>11. Members(placed \o rest) \cap visited = {}
        BY <3>4, <4>2, <4>3, <4>5, <4>7
      <4>12. Members(pending) \subseteq visited \cup Members(placed \o rest)
        BY <4>3, <4>5, <4>7, <4>8
      <4> DEFINE r == placed \o rest
      <4>13. r \in Seq(layer) /\ place[w] = r
        BY <4>6, <4>7
      <4> HIDE DEF r
      <4> QED BY <2>2, <4>9, <4>10, <4>11, <4>12, <4>13 DEF All, PlacesAll, r
    <3> QED BY <3>3, <3>4
  <2> QED BY <2>4, <2>5
<1>3. \A w \in D : w \in good
  <2> DEFINE g == good
  <2>1. ASSUME NEW w \in D, \A y \in D : m[y] < m[w] => y \in g
        PROVE  w \in g
    <3>1. \A y \in D : m[y] < m[w] => All(y)
      BY <2>1
    <3>2. All(w)
      <4> HIDE DEF All, m, D
      <4> QED BY <1>2, <3>1
    <3> QED BY <3>2
  <2> HIDE DEF g
  <2>2. \A w \in D : (\A y \in D : m[y] < m[w] => y \in g) => w \in g
    BY <2>1
  <2>3. \A w \in D : w \in g
    BY <2>2, WorkInduction
  <2> QED BY <2>3 DEF g
<1> QED BY <1>3

\* A layer of the policy order lists the layer's clients, each once.
LEMMA PlaceLayerLists ==
  ASSUME NEW M, NEW order \in Stacks(M), NEW cs, NEW layer \in SUBSET M
  PROVE  PlaceLayer(cs, order, layer) \in Stacks(layer)
<1>1. order \in Seq(M) /\ Unique(order) /\ Members(order) = M
  BY DEF Stacks, Enumerates
<1>2. IsFiniteSet(layer)
  BY <1>1, MembersFinite, FS_Subset
<1> DEFINE pending == Keep(order, layer)
           w == <<pending, {}>>
           r == Placing(cs, order, layer)[w]
<1>3. pending \in Seq(layer) /\ Members(pending) = layer
  <2>1. pending \in Seq(M) /\ Members(pending) = Members(order) \cap layer
    BY <1>1, KeepFacts
  <2> HIDE DEF pending
  <2>2. Members(pending) = layer
    BY <1>1, <2>1
  <2> QED BY <2>1, <2>2, OverMembers
<1>4. PlacesAll(cs, order, layer, w, r)
  <2>1. w \in Work(layer)
    <3> HIDE DEF pending
    <3> QED BY <1>3 DEF Work
  <2> HIDE DEF w
  <2> QED BY <1>1, <1>2, <2>1, PlacingLists
<1>5. w[1] = pending /\ w[2] = {}
  OBVIOUS
<1> HIDE DEF w, pending, r
<1>6. r \in Seq(layer) /\ Unique(r) /\ layer \subseteq Members(r)
  BY <1>3, <1>4, <1>5 DEF PlacesAll
<1>7. Members(r) \subseteq layer
  BY <1>6 DEF Members
<1>8. PlaceLayer(cs, order, layer) = r
  BY PlaceLayerIs DEF r, w, pending
<1> QED BY <1>6, <1>7, <1>8 DEF Stacks, Enumerates

\* Stacks of different clients on top of each other.
LEMMA StacksJoin ==
  ASSUME NEW A, NEW B, A \cap B = {}, NEW a \in Stacks(A), NEW b \in Stacks(B)
  PROVE  a \o b \in Stacks(A \cup B)
<1>1. /\ a \in Seq(A) /\ Unique(a) /\ Members(a) = A
      /\ b \in Seq(B) /\ Unique(b) /\ Members(b) = B
  BY DEF Stacks, Enumerates
<1> DEFINE C == A \cup B
<1>2. a \in Seq(C) /\ b \in Seq(C)
  BY <1>1, OverMembers
<1> HIDE DEF C
<1>3. /\ a \o b \in Seq(C)
      /\ Members(a \o b) = Members(a) \cup Members(b)
      /\ Unique(a) /\ Unique(b) /\ Members(a) \cap Members(b) = {} => Unique(a \o b)
  BY ONLY <1>2, ConcatFacts
<1> QED BY <1>1, <1>3 DEF Stacks, Enumerates, C

\* A client's layer is the highest of its own and its ancestors' layers.
LEMMA LayerIsHighest ==
  ASSUME NEW M, NEW cs \in [M -> Shape], NEW focus, NEW c \in M
  PROVE  LET layers == {OwnLayer(cs, focus, d) : d \in {c} \cup Ancestors(cs, c)}
         IN /\ EffectiveLayer(cs, focus, c) \in layers
            /\ \A k \in layers : k <= EffectiveLayer(cs, focus, c)
            /\ EffectiveLayer(cs, focus, c) \in 1..6
<1> DEFINE layers == {OwnLayer(cs, focus, d) : d \in {c} \cup Ancestors(cs, c)}
<1>1. \A d \in M : OwnLayer(cs, focus, d) \in 1..6
  <2> SUFFICES ASSUME NEW d \in M PROVE OwnLayer(cs, focus, d) \in 1..6
    OBVIOUS
  <2>1. cs[d] \in Shape
    OBVIOUS
  <2>2. BaseLayer(cs[d]) \in 1..6
    BY <2>1 DEF BaseLayer, Shape, DesktopLayer, DockLayer, BelowLayer, NormalLayer, AboveLayer
  <2> QED BY <2>2 DEF OwnLayer, FullscreenLayer
<1>2. Ancestors(cs, c) \subseteq M
  BY DEF Ancestors
<1>3. layers \in SUBSET (1..6) /\ layers # {}
  BY <1>1, <1>2
<1> HIDE DEF layers
<1>4. \E l \in layers : \A k \in layers : k <= l
  <2>1. \/ 6 \in layers \/ 5 \in layers \/ 4 \in layers \/ 3 \in layers \/ 2 \in layers
        \/ 1 \in layers
    <3>1. PICK k \in layers : TRUE
      BY <1>3
    <3>2. k \in 1..6
      BY <1>3
    <3>3. k = 6 \/ k = 5 \/ k = 4 \/ k = 3 \/ k = 2 \/ k = 1
      BY <3>2
    <3> QED BY <3>1, <3>3
  <2>2. \A k \in layers : k \in {1, 2, 3, 4, 5, 6}
    BY <1>3
  <2>3. CASE 6 \in layers
    BY <2>2, <2>3
  <2>4. CASE 6 \notin layers /\ 5 \in layers
    BY <2>2, <2>4
  <2>5. CASE 6 \notin layers /\ 5 \notin layers /\ 4 \in layers
    BY <2>2, <2>5
  <2>6. CASE 6 \notin layers /\ 5 \notin layers /\ 4 \notin layers /\ 3 \in layers
    BY <2>2, <2>6
  <2>7. CASE 6 \notin layers /\ 5 \notin layers /\ 4 \notin layers /\ 3 \notin layers /\ 2 \in layers
    BY <2>2, <2>7
  <2>8. CASE /\ 6 \notin layers /\ 5 \notin layers /\ 4 \notin layers /\ 3 \notin layers
             /\ 2 \notin layers /\ 1 \in layers
    BY <2>2, <2>8
  <2> QED BY <2>1, <2>3, <2>4, <2>5, <2>6, <2>7, <2>8
<1>5. EffectiveLayer(cs, focus, c) = CHOOSE l \in layers : \A k \in layers : k <= l
  BY DEF EffectiveLayer, layers
<1>6. /\ EffectiveLayer(cs, focus, c) \in layers
      /\ \A k \in layers : k <= EffectiveLayer(cs, focus, c)
  BY <1>4, <1>5
<1> QED BY <1>3, <1>6 DEF layers

\* The clients of a layer.
OfLayer(cs, focus, l) == {c \in DOMAIN cs : EffectiveLayer(cs, focus, c) = l}

\* The policy order is the layers on top of each other.
LEMMA PolicyOrderIs ==
  ASSUME NEW cs, NEW order, NEW focus
  PROVE  PolicyOrder(cs, order, focus) =
           PlaceLayer(cs, order, OfLayer(cs, focus, 1))
           \o PlaceLayer(cs, order, OfLayer(cs, focus, 2))
           \o PlaceLayer(cs, order, OfLayer(cs, focus, 3))
           \o PlaceLayer(cs, order, OfLayer(cs, focus, 4))
           \o PlaceLayer(cs, order, OfLayer(cs, focus, 5))
           \o PlaceLayer(cs, order, OfLayer(cs, focus, 6))
<1>1. \A l : {c \in DOMAIN cs : <<c, l>> \in LayerTable(cs, focus)} = OfLayer(cs, focus, l)
  BY DEF LayerTable, OfLayer
<1> DEFINE placed(l) ==
             PlaceLayer(cs, order, {c \in DOMAIN cs : <<c, l>> \in LayerTable(cs, focus)})
<1>2. PolicyOrder(cs, order, focus) =
        placed(1) \o placed(2) \o placed(3) \o placed(4) \o placed(5) \o placed(6)
  BY Zenon DEF PolicyOrder, DesktopLayer, DockLayer, BelowLayer, NormalLayer, AboveLayer,
               FullscreenLayer
<1>3. \A l : placed(l) = PlaceLayer(cs, order, OfLayer(cs, focus, l))
  BY <1>1, Zenon
<1> HIDE DEF placed
<1> QED BY <1>2, <1>3, Zenon

\* Whatever the relationships, cyclic ones too, the policy order of a stack has the same
\* clients.
LEMMA PolicyOrderLists ==
  ASSUME NEW M, NEW cs \in [M -> Shape], NEW order \in Stacks(M), NEW focus
  PROVE  PolicyOrder(cs, order, focus) \in Stacks(M)
<1> DEFINE of(l) == OfLayer(cs, focus, l)
           at(l) == PlaceLayer(cs, order, of(l))
<1>1. DOMAIN cs = M
  OBVIOUS
<1>2. \A l : of(l) \subseteq M
  BY <1>1 DEF OfLayer
<1>3. M = of(1) \cup of(2) \cup of(3) \cup of(4) \cup of(5) \cup of(6)
  <2>1. \A c \in M : EffectiveLayer(cs, focus, c) \in 1..6
    BY LayerIsHighest
  <2>2. \A c \in M : \/ c \in of(1) \/ c \in of(2) \/ c \in of(3) \/ c \in of(4)
                     \/ c \in of(5) \/ c \in of(6)
    BY <1>1, <2>1 DEF OfLayer
  <2> HIDE DEF of
  <2> QED BY <1>2, <2>2
<1>4. \A k, l : k # l => of(k) \cap of(l) = {}
  BY DEF OfLayer
<1>5. \A l : at(l) \in Stacks(of(l))
  <2> HIDE DEF of
  <2> QED BY <1>2, PlaceLayerLists
<1> HIDE DEF of, at
<1>6. at(1) \o at(2) \in Stacks(of(1) \cup of(2))
  <2>1. of(1) \cap of(2) = {} /\ at(1) \in Stacks(of(1)) /\ at(2) \in Stacks(of(2))
    BY <1>4, <1>5
  <2> QED BY ONLY <2>1, StacksJoin
<1>7. at(1) \o at(2) \o at(3) \in Stacks(of(1) \cup of(2) \cup of(3))
  <2>1. (of(1) \cup of(2)) \cap of(3) = {} /\ at(3) \in Stacks(of(3))
    BY <1>4, <1>5
  <2> QED BY ONLY <1>6, <2>1, StacksJoin
<1>8. at(1) \o at(2) \o at(3) \o at(4) \in Stacks(of(1) \cup of(2) \cup of(3) \cup of(4))
  <2>1. (of(1) \cup of(2) \cup of(3)) \cap of(4) = {} /\ at(4) \in Stacks(of(4))
    BY <1>4, <1>5
  <2> QED BY ONLY <1>7, <2>1, StacksJoin
<1>9. at(1) \o at(2) \o at(3) \o at(4) \o at(5)
        \in Stacks(of(1) \cup of(2) \cup of(3) \cup of(4) \cup of(5))
  <2>1. (of(1) \cup of(2) \cup of(3) \cup of(4)) \cap of(5) = {} /\ at(5) \in Stacks(of(5))
    BY <1>4, <1>5
  <2> QED BY ONLY <1>8, <2>1, StacksJoin
<1>10. at(1) \o at(2) \o at(3) \o at(4) \o at(5) \o at(6)
        \in Stacks(of(1) \cup of(2) \cup of(3) \cup of(4) \cup of(5) \cup of(6))
  <2>1. (of(1) \cup of(2) \cup of(3) \cup of(4) \cup of(5)) \cap of(6) = {}
        /\ at(6) \in Stacks(of(6))
    BY <1>4, <1>5
  <2> QED BY ONLY <1>9, <2>1, StacksJoin
<1>11. PolicyOrder(cs, order, focus) = at(1) \o at(2) \o at(3) \o at(4) \o at(5) \o at(6)
  BY PolicyOrderIs, Zenon DEF at, of
<1> QED BY <1>3, <1>10, <1>11

(* ---- What the enforcing functions do to the pair of orders ---- *)
\* A pair of orders of the same clients, and one whose two orders are the same.
Pairs(M) == [core : Stacks(M), server : Stacks(M)]
Agreed(M) == {stack \in Pairs(M) : stack.server = stack.core}

\* Two equal orders agree.
LEMMA AgreedPair ==
  ASSUME NEW M, NEW s \in Stacks(M)
  PROVE  [core |-> s, server |-> s] \in Agreed(M)
BY DEF Agreed, Pairs

\* Enforcing all the layers.
LEMMA LayersEnforced ==
  ASSUME NEW M, NEW cs \in [M -> Shape], NEW focus, NEW stack \in Pairs(M)
  PROVE  EnforceLayers(cs, focus, stack) \in Agreed(M)
<1> DEFINE order == PolicyOrder(cs, stack.core, focus)
<1>1. stack.core \in Stacks(M) /\ stack.server \in Stacks(M)
  BY DEF Pairs
<1>2. order \in Stacks(M)
  BY <1>1, PolicyOrderLists
<1> HIDE DEF order
<1>3. Restacked(stack.server, order) = order
  BY <1>1, <1>2, RestackedIsOrder
<1>4. EnforceLayers(cs, focus, stack) = [core |-> order, server |-> order]
  BY <1>3 DEF EnforceLayers, order
<1> QED BY <1>2, <1>4, AgreedPair

\* Enforcing one client's layer, when the orders differ in the place of that client only.
LEMMA ClientLayerEnforced ==
  ASSUME NEW M, NEW cs \in [M -> Shape], NEW focus, NEW stack \in Pairs(M), NEW c \in M,
         Without(stack.core, c) = Without(stack.server, c)
  PROVE  EnforceClientLayer(cs, focus, stack, c) \in Agreed(M)
<1> DEFINE order == PolicyOrder(cs, stack.core, focus)
<1>1. stack.core \in Stacks(M) /\ stack.server \in Stacks(M)
  BY DEF Pairs
<1>2. order \in Stacks(M)
  BY <1>1, PolicyOrderLists
<1>3. EnforceClientLayer(cs, focus, stack, c) =
        IF Without(stack.core, c) = Without(order, c)
        THEN [core |-> order, server |-> PlacedInOrder(stack.server, c, order)]
        ELSE EnforceLayers(cs, focus, stack)
  BY DEF EnforceClientLayer
<1>4. EnforceLayers(cs, focus, stack) \in Agreed(M)
  BY LayersEnforced
<1> HIDE DEF order
<1>5. CASE Without(stack.core, c) = Without(order, c)
  <2>1. Without(stack.server, c) = Without(order, c)
    BY <1>5
  <2>2. PlacedInOrder(stack.server, c, order) = order
    BY <1>1, <1>2, <2>1, OneRequest
  <2>3. EnforceClientLayer(cs, focus, stack, c) = [core |-> order, server |-> order]
    BY <1>3, <1>5, <2>2
  <2> QED BY <1>2, <2>3, AgreedPair
<1>6. CASE Without(stack.core, c) # Without(order, c)
  BY <1>3, <1>4, <1>6
<1> QED BY <1>5, <1>6

\* Taking over what the server shows.
LEMMA Synchronized ==
  ASSUME NEW M \in SUBSET Clients, NEW stack \in Pairs(M)
  PROVE  SyncFromServer(stack) \in Agreed(M)
<1>1. stack.core \in Stacks(M) /\ stack.server \in Stacks(M)
  BY DEF Pairs
<1>2. /\ stack.core \in Seq(M) /\ Members(stack.core) = M
      /\ stack.server \in Seq(M) /\ Members(stack.server) = M
  BY <1>1 DEF Stacks, Enumerates
<1> DEFINE gone == Keep(stack.core, Clients \ Members(stack.server))
<1>3. gone \in Seq(M) /\ Members(gone) = Members(stack.core) \cap (Clients \ Members(stack.server))
  BY <1>2, KeepFacts
<1>4. Members(gone) = {}
  BY <1>2, <1>3
<1> HIDE DEF gone
<1>5. gone = <<>>
  BY <1>3, <1>4, NoMembers
<1>6. gone \o stack.server = stack.server
  BY <1>2, <1>5
<1>7. SyncFromServer(stack) = [core |-> stack.server, server |-> stack.server]
  <2>1. SyncFromServer(stack) = [stack EXCEPT !.core = gone \o stack.server]
    BY Zenon DEF SyncFromServer, gone
  <2>2. SyncFromServer(stack) = [stack EXCEPT !.core = stack.server]
    BY <1>6, <2>1
  <2> QED BY <2>2 DEF Pairs
<1> QED BY <1>1, <1>7, AgreedPair

\* Raising and lowering a client.
LEMMA Raised ==
  ASSUME NEW M, NEW cs \in [M -> Shape], NEW focus, NEW stack \in Agreed(M), NEW c \in M
  PROVE  /\ RaiseWithinLayer(cs, focus, stack, c) \in Agreed(M)
         /\ LowerWithinLayer(cs, focus, stack, c) \in Agreed(M)
<1>1. stack \in Pairs(M) /\ stack.core \in Stacks(M) /\ stack.server = stack.core
  BY DEF Agreed, Pairs
<1> DEFINE up == [stack EXCEPT !.core = MoveToEnd(@, c)]
           down == [stack EXCEPT !.core = MoveToFront(@, c)]
<1>2. MoveToEnd(stack.core, c) \in Stacks(M) /\ MoveToFront(stack.core, c) \in Stacks(M)
  BY <1>1, MovedListing
<1>3. /\ up \in Pairs(M) /\ up.core = MoveToEnd(stack.core, c) /\ up.server = stack.core
      /\ down \in Pairs(M) /\ down.core = MoveToFront(stack.core, c) /\ down.server = stack.core
  BY <1>1, <1>2 DEF Pairs
<1>4. /\ Without(MoveToEnd(stack.core, c), c) = Without(stack.core, c)
      /\ Without(MoveToFront(stack.core, c), c) = Without(stack.core, c)
  <2>1. stack.core \in Seq(M) /\ Unique(stack.core) /\ c \in M
    BY <1>1 DEF Stacks, Enumerates
  <2> DEFINE s == stack.core
  <2> HIDE DEF s
  <2>2. s \in Seq(M) /\ Unique(s) /\ c \in M
    BY <2>1 DEF s
  <2>3. Without(MoveToEnd(s, c), c) = Without(s, c) /\ Without(MoveToFront(s, c), c) = Without(s, c)
    BY ONLY <2>2, WithoutMoved
  <2> QED BY <2>3 DEF s
<1>5. /\ RaiseWithinLayer(cs, focus, stack, c) = EnforceClientLayer(cs, focus, up, c)
      /\ LowerWithinLayer(cs, focus, stack, c) = EnforceClientLayer(cs, focus, down, c)
  BY DEF RaiseWithinLayer, LowerWithinLayer
<1> HIDE DEF up, down
<1>6. /\ EnforceClientLayer(cs, focus, up, c) \in Agreed(M)
      /\ EnforceClientLayer(cs, focus, down, c) \in Agreed(M)
  BY <1>3, <1>4, ClientLayerEnforced
<1> QED BY <1>5, <1>6

\* The followers of a change of focus.
LEMMA FocusDependentEnforced ==
  ASSUME NEW M, NEW cs \in [M -> Shape], NEW focus, NEW stack \in Agreed(M)
  PROVE  EnforceFocusDependent(cs, focus, stack) \in Agreed(M)
<1>1. stack \in Pairs(M)
  BY DEF Agreed
<1>2. EnforceLayers(cs, focus, stack) \in Agreed(M)
  BY <1>1, LayersEnforced
<1> QED BY <1>2 DEF EnforceFocusDependent

\* A result of changing the focus: somebody's or nobody's, and a pair that agrees.
Outcomes(M) == [focus : M \cup {NoClient}, stack : Agreed(M)]

\* Every change of focus leaves a pair that agrees.
LEMMA FocusSettled ==
  ASSUME NEW M, NEW cs \in [M -> Shape], NEW stack \in Agreed(M)
  PROVE  /\ \A target \in M : Focusing(cs, stack, target) \subseteq Outcomes(M)
         /\ \A previous : Clearing(cs, stack, previous) \in Outcomes(M)
         /\ \A focus \in M \cup {NoClient} : Settling(cs, stack, focus) \subseteq Outcomes(M)
<1>1. ASSUME NEW target \in M
      PROVE  Focusing(cs, stack, target) \subseteq Outcomes(M)
  <2>1. /\ RaiseWithinLayer(cs, target, stack, target) \in Agreed(M)
        /\ EnforceFocusDependent(cs, target, stack) \in Agreed(M)
    BY Raised, FocusDependentEnforced
  <2> QED BY <2>1 DEF Focusing, Outcomes
<1>2. ASSUME NEW previous
      PROVE  Clearing(cs, stack, previous) \in Outcomes(M)
  <2>1. EnforceFocusDependent(cs, NoClient, stack) \in Agreed(M)
    BY FocusDependentEnforced
  <2> QED BY <2>1 DEF Clearing, Outcomes
<1>3. ASSUME NEW focus \in M \cup {NoClient}
      PROVE  Settling(cs, stack, focus) \subseteq Outcomes(M)
  BY <1>1, <1>2 DEF Settling
<1> QED BY <1>1, <1>2, <1>3

(* ---- The inductive invariant ---- *)
\* The clients, the iconic and the focused one are what they should be; and the core's
\* order and the server's are one order, which lists the managed clients.
TypeOK ==
  /\ Managed \in SUBSET Clients
  /\ clients \in [Managed -> Shape]
  /\ iconic \in SUBSET Managed
  /\ focused \in Managed \cup {NoClient}

IInv == TypeOK /\ Stack \in Agreed(Managed)

\* The inductive invariant implies ServerAgrees.
LEMMA IInvAgrees == IInv => ServerAgrees
BY DEF IInv, Agreed, Pairs, Stacks, Stack, ServerAgrees

\* Every handler ends in Commit.
LEMMA Committed ==
  ASSUME NEW M \in SUBSET Clients, NEW cs \in [M -> Shape], NEW icons \in SUBSET M,
         NEW focus \in M \cup {NoClient}, NEW stack \in Agreed(M),
         Commit(cs, icons, focus, stack)
  PROVE  IInv'
<1>1. /\ clients' = cs /\ iconic' = icons /\ focused' = focus
      /\ stacking' = stack.core /\ server' = stack.server
  BY DEF Commit
<1>2. DOMAIN clients' = M
  BY <1>1
<1>3. TypeOK'
  BY <1>1, <1>2 DEF TypeOK, Managed
<1>4. stack.core \in Stacks(M) /\ stack.server = stack.core
  BY DEF Agreed, Pairs
<1>5. [core |-> stacking', server |-> server'] \in Agreed(M)
  BY <1>1, <1>4, AgreedPair
<1> QED BY <1>2, <1>3, <1>5 DEF IInv, Stack, Managed

\* The same for an outcome of a change of focus.
LEMMA CommittedOutcome ==
  ASSUME NEW M \in SUBSET Clients, NEW cs \in [M -> Shape], NEW icons \in SUBSET M,
         NEW settled \in Outcomes(M), Commit(cs, icons, settled.focus, settled.stack)
  PROVE  IInv'
<1>1. settled.focus \in M \cup {NoClient} /\ settled.stack \in Agreed(M)
  BY DEF Outcomes
<1> QED BY <1>1, Committed

\* It holds before the first client.
LEMMA InitIInv == Init => IInv
<1> SUFFICES ASSUME Init PROVE IInv
  OBVIOUS
<1>1. clients = <<>> /\ iconic = {} /\ focused = NoClient /\ stacking = <<>> /\ server = <<>>
  BY DEF Init
<1>2. DOMAIN clients = {}
  BY <1>1
<1>3. clients \in [{} -> Shape]
  BY <1>1, <1>2
<1>4. <<>> \in Stacks({})
  <2>1. <<>> \in Seq({}) /\ Members(<<>>) = {} /\ Unique(<<>>)
    BY EmptyFacts
  <2> QED BY <2>1 DEF Stacks, Enumerates
<1>5. Stack \in Agreed({})
  BY <1>1, <1>4, AgreedPair DEF Stack
<1> QED BY <1>1, <1>2, <1>3, <1>5 DEF IInv, TypeOK, Managed

\* What IInv gives a handler to start from.
LEMMA IInvGives ==
  ASSUME IInv
  PROVE  /\ Managed \in SUBSET Clients /\ clients \in [Managed -> Shape]
         /\ iconic \in SUBSET Managed /\ focused \in Managed \cup {NoClient}
         /\ Stack \in Agreed(Managed) /\ Stack \in Pairs(Managed)
         /\ stacking \in Stacks(Managed) /\ server = stacking
         /\ DOMAIN clients = Managed
BY DEF IInv, TypeOK, Agreed, Pairs, Stack, Managed

\* A change of shapes is followed by enforce_layers.
LEMMA ReshapeKeeps ==
  ASSUME IInv, NEW c \in Managed, NEW shape, Reshape(c, shape)
  PROVE  IInv'
<1> DEFINE cs == [clients EXCEPT ![c] = shape]
<1>1. /\ Managed \in SUBSET Clients /\ clients \in [Managed -> Shape]
      /\ iconic \in SUBSET Managed /\ focused \in Managed \cup {NoClient}
      /\ Stack \in Pairs(Managed)
  BY IInvGives
<1>2. shape \in Shapes[c] /\ Commit(cs, iconic, focused, EnforceLayers(cs, focused, Stack))
  BY DEF Reshape
<1>3. shape \in Shape
  BY <1>1, <1>2, ShapesAssumption
<1>4. cs \in [Managed -> Shape]
  BY <1>1, <1>3
<1> HIDE DEF cs
<1>5. EnforceLayers(cs, focused, Stack) \in Agreed(Managed)
  BY <1>1, <1>4, LayersEnforced
<1> QED BY <1>1, <1>2, <1>4, <1>5, Committed

\* A new client is added on top.
LEMMA AppendedListing ==
  ASSUME NEW M, NEW s \in Stacks(M), NEW c, c \notin M
  PROVE  Append(s, c) \in Stacks(M \cup {c})
<1> DEFINE N == M \cup {c}
<1>1. s \in Seq(M) /\ Unique(s) /\ Members(s) = M
  BY DEF Stacks, Enumerates
<1>2. s \in Seq(N)
  BY <1>1, OverMembers
<1>3. c \in N
  OBVIOUS
<1> HIDE DEF N
<1>4. /\ Append(s, c) \in Seq(N)
      /\ Members(Append(s, c)) = Members(s) \cup {c}
      /\ Unique(s) /\ c \notin Members(s) => Unique(Append(s, c))
  BY <1>2, <1>3, AppendFacts
<1> QED BY <1>1, <1>4 DEF Stacks, Enumerates, N

\* manage
LEMMA ManageKeeps ==
  ASSUME IInv, NEW c \in Clients, NEW shape \in Shapes[c], Manage(c, shape)
  PROVE  IInv'
<1> DEFINE M == Managed \cup {c}
           cs == [d \in M |-> IF d = c THEN shape ELSE clients[d]]
           new == [core |-> Append(stacking, c), server |-> Append(server, c)]
           shown == IF shape.covering = "Fullscreen" THEN EnforceLayers(cs, focused, new)
                    ELSE new
           layered == EnforceClientLayer(cs, focused, shown, c)
           again(s) == EnforceLayers(cs, focused, SyncFromServer([layered EXCEPT !.server = s]))
           restored == {again(s) : s \in Configured(layered.server, c)}
<1>1. /\ Managed \in SUBSET Clients /\ clients \in [Managed -> Shape]
      /\ iconic \in SUBSET Managed /\ focused \in Managed \cup {NoClient}
      /\ stacking \in Stacks(Managed) /\ server = stacking
  BY IInvGives
<1>2. /\ c \notin Managed
      /\ \E stack \in {layered} \cup restored, icons \in {iconic, iconic \cup {c}} :
           Commit(cs, icons, focused, stack)
  BY DEF Manage
<1>3. M \in SUBSET Clients /\ c \in M
  BY <1>1
<1>4. cs \in [M -> Shape]
  <2>1. shape \in Shape
    BY ShapesAssumption
  <2> QED BY <1>1, <2>1
<1>5. Append(stacking, c) \in Stacks(M)
  BY <1>1, <1>2, AppendedListing
<1> HIDE DEF M, cs
<1>6. new \in Agreed(M)
  BY <1>1, <1>5, AgreedPair
<1> HIDE DEF new
<1>7. shown \in Agreed(M)
  <2>1. new \in Pairs(M)
    BY <1>6 DEF Agreed
  <2>2. EnforceLayers(cs, focused, new) \in Agreed(M)
    BY <1>4, <2>1, LayersEnforced
  <2> QED BY <1>6, <2>2
<1> HIDE DEF shown
<1>8. layered \in Agreed(M)
  <2>1. shown \in Pairs(M) /\ Without(shown.core, c) = Without(shown.server, c)
    BY <1>7 DEF Agreed
  <2> QED BY <1>3, <1>4, <2>1, ClientLayerEnforced
<1> HIDE DEF layered
<1>9. ASSUME NEW s \in Configured(layered.server, c)
      PROVE  again(s) \in Agreed(M)
  <2>1. layered.core \in Stacks(M) /\ layered.server \in Stacks(M) /\ layered \in Pairs(M)
    BY <1>8 DEF Agreed, Pairs
  <2>2. s \in Stacks(M)
    BY <1>3, <2>1, ConfiguredListing
  <2> DEFINE moved == [layered EXCEPT !.server = s]
  <2>3. moved \in Pairs(M)
    BY <2>1, <2>2 DEF Pairs
  <2> HIDE DEF moved
  <2>4. SyncFromServer(moved) \in Agreed(M)
    BY <1>3, <2>3, Synchronized
  <2>5. SyncFromServer(moved) \in Pairs(M)
    BY <2>4 DEF Agreed
  <2>6. EnforceLayers(cs, focused, SyncFromServer(moved)) \in Agreed(M)
    BY <1>4, <2>5, LayersEnforced
  <2> QED BY <2>6 DEF moved
<1> HIDE DEF again
<1>10. PICK stack \in Agreed(M), icons \in SUBSET M : Commit(cs, icons, focused, stack)
  <2>1. \A icons \in {iconic, iconic \cup {c}} : icons \in SUBSET M
    BY <1>1 DEF M
  <2>2. \A stack \in {layered} \cup restored : stack \in Agreed(M)
    BY <1>8, <1>9
  <2> HIDE DEF restored
  <2> QED BY <1>2, <2>1, <2>2
<1>11. focused \in M \cup {NoClient}
  BY <1>1 DEF M
<1> QED BY <1>3, <1>4, <1>10, <1>11, Committed

\* A client without a focus leaves it to another that can take it.
LEMMA FocusWithoutFacts ==
  ASSUME IInv, NEW c \in Managed
  PROVE  /\ FocusWithout(c) \subseteq (Managed \cup {NoClient})
         /\ focused = c => FocusWithout(c) \subseteq ((Managed \ {c}) \cup {NoClient})
BY IInvGives DEF FocusWithout, Usable

\* unmanage
LEMMA UnmanageKeeps ==
  ASSUME IInv, NEW c \in Clients, Unmanage(c)
  PROVE  IInv'
<1> DEFINE M == Managed \ {c}
           cs == [d \in M |-> IF clients[d].transientFor = c
                              THEN [clients[d] EXCEPT !.transientFor = NoTransient]
                              ELSE clients[d]]
           left == [core |-> Without(stacking, c), server |-> Without(server, c)]
<1>1. /\ Managed \in SUBSET Clients /\ clients \in [Managed -> Shape]
      /\ iconic \in SUBSET Managed /\ focused \in Managed \cup {NoClient}
      /\ stacking \in Stacks(Managed) /\ server = stacking
  BY IInvGives
<1>2. /\ c \in Managed
      /\ IF focused # c THEN Commit(cs, iconic \ {c}, focused, left)
         ELSE \E focus \in FocusWithout(c) : \E settled \in Settling(cs, left, focus) :
                Commit(cs, iconic \ {c}, settled.focus, settled.stack)
  BY DEF Unmanage
<1>3. M \in SUBSET Clients /\ iconic \ {c} \in SUBSET M
  BY <1>1
<1>4. cs \in [M -> Shape]
  <2>1. \A d \in M : clients[d] \in Shape
    BY <1>1
  <2>2. \A d \in M : [clients[d] EXCEPT !.transientFor = NoTransient] \in Shape
    BY <2>1 DEF Shape
  <2> QED BY <2>1, <2>2
<1>5. Without(stacking, c) \in Stacks(M)
  <2>1. stacking \in Seq(Managed) /\ Unique(stacking) /\ Members(stacking) = Managed
    BY <1>1 DEF Stacks, Enumerates
  <2>2. /\ Without(stacking, c) \in Seq(Managed) /\ Unique(Without(stacking, c))
        /\ Members(Without(stacking, c)) = M
    BY <2>1, WithoutFacts
  <2>3. Without(stacking, c) \in Seq(M)
    <3> DEFINE rest == Without(stacking, c)
    <3>1. rest \in Seq(Managed) /\ Members(rest) \subseteq M
      BY <2>2
    <3> HIDE DEF rest, M
    <3> QED BY <3>1, OverMembers DEF rest
  <2> QED BY <2>2, <2>3 DEF Stacks, Enumerates
<1> HIDE DEF M, cs
<1>6. left \in Agreed(M)
  BY <1>1, <1>5, AgreedPair
<1> HIDE DEF left
<1>7. CASE focused # c
  <2>1. focused \in M \cup {NoClient}
    BY <1>1, <1>7 DEF M
  <2>2. Commit(cs, iconic \ {c}, focused, left)
    BY <1>2, <1>7
  <2> QED BY <1>3, <1>4, <1>6, <2>1, <2>2, Committed
<1>8. CASE focused = c
  <2>0. PICK focus \in FocusWithout(c) :
          \E settled \in Settling(cs, left, focus) :
            Commit(cs, iconic \ {c}, settled.focus, settled.stack)
    BY <1>2, <1>8
  <2>1. PICK settled \in Settling(cs, left, focus) :
          Commit(cs, iconic \ {c}, settled.focus, settled.stack)
    BY <2>0
  <2>2. focus \in M \cup {NoClient}
    BY <1>2, <1>8, FocusWithoutFacts DEF M
  <2>3. settled \in Outcomes(M)
    BY <1>4, <1>6, <2>2, FocusSettled
  <2> QED BY <1>3, <1>4, <2>1, <2>3, CommittedOutcome
<1> QED BY <1>7, <1>8

\* iconify
LEMMA IconifyKeeps ==
  ASSUME IInv, NEW c \in Clients, Iconify(c)
  PROVE  IInv'
<1>1. /\ Managed \in SUBSET Clients /\ clients \in [Managed -> Shape]
      /\ iconic \in SUBSET Managed /\ Stack \in Agreed(Managed)
  BY IInvGives
<1>2. /\ c \in Managed
      /\ \E focus \in FocusWithout(c) : \E settled \in Settling(clients, Stack, focus) :
           Commit(clients, iconic \cup {c}, settled.focus, settled.stack)
  BY DEF Iconify
<1>3. PICK focus \in FocusWithout(c) : \E settled \in Settling(clients, Stack, focus) :
        Commit(clients, iconic \cup {c}, settled.focus, settled.stack)
  BY <1>2
<1>4. PICK settled \in Settling(clients, Stack, focus) :
        Commit(clients, iconic \cup {c}, settled.focus, settled.stack)
  BY <1>3
<1>5. focus \in Managed \cup {NoClient}
  BY <1>2, FocusWithoutFacts
<1>6. settled \in Outcomes(Managed)
  BY <1>1, <1>5, FocusSettled
<1>7. iconic \cup {c} \in SUBSET Managed
  BY <1>1, <1>2
<1> QED BY <1>1, <1>4, <1>6, <1>7, CommittedOutcome

\* focus_with_raise_policy, activate_focus_cycle_target and observe_focus
LEMMA FocusKeeps ==
  ASSUME IInv, NEW c \in Clients, Focus(c)
  PROVE  IInv'
<1>1. /\ Managed \in SUBSET Clients /\ clients \in [Managed -> Shape]
      /\ iconic \in SUBSET Managed /\ Stack \in Agreed(Managed)
  BY IInvGives
<1>2. c \in Managed
  BY DEF Focus, Usable
<1>3. PICK settled \in Focusing(clients, Stack, c) :
        Commit(clients, iconic, settled.focus, settled.stack)
  BY DEF Focus
<1>4. settled \in Outcomes(Managed)
  BY <1>1, <1>2, FocusSettled
<1> QED BY <1>1, <1>3, <1>4, CommittedOutcome

\* Clearing the focus.
LEMMA ClearFocusKeeps ==
  ASSUME IInv, ClearFocus
  PROVE  IInv'
<1>1. /\ Managed \in SUBSET Clients /\ clients \in [Managed -> Shape]
      /\ iconic \in SUBSET Managed /\ Stack \in Agreed(Managed)
  BY IInvGives
<1> DEFINE cleared == Clearing(clients, Stack, focused)
<1>2. cleared \in Outcomes(Managed)
  BY <1>1, FocusSettled
<1>3. Commit(clients, iconic, NoClient, cleared.stack)
  BY DEF ClearFocus
<1> HIDE DEF cleared
<1>4. cleared.stack \in Agreed(Managed) /\ NoClient \in Managed \cup {NoClient}
  BY <1>2 DEF Outcomes
<1> QED BY <1>1, <1>3, <1>4, Committed

\* The handlers that only move one client: restore, raise, lower, and a request to
\* restack.
LEMMA MovesKeep ==
  ASSUME IInv, NEW c \in Clients, Restore(c) \/ Raise(c) \/ Lower(c) \/ Restack(c)
  PROVE  IInv'
<1>1. /\ Managed \in SUBSET Clients /\ clients \in [Managed -> Shape]
      /\ iconic \in SUBSET Managed /\ focused \in Managed \cup {NoClient}
      /\ Stack \in Agreed(Managed) /\ Stack \in Pairs(Managed)
      /\ stacking \in Stacks(Managed) /\ server = stacking
  BY IInvGives
<1>2. CASE Restore(c)
  <2>1. iconic \ {c} \in SUBSET Managed /\ Commit(clients, iconic \ {c}, focused, Stack)
    BY <1>1, <1>2 DEF Restore
  <2> QED BY <1>1, <2>1, Committed
<1>3. CASE Raise(c)
  <2>1. c \in Managed
        /\ Commit(clients, iconic, focused, RaiseWithinLayer(clients, focused, Stack, c))
    BY <1>3 DEF Raise
  <2>2. RaiseWithinLayer(clients, focused, Stack, c) \in Agreed(Managed)
    BY <1>1, <2>1, Raised
  <2> QED BY <1>1, <2>1, <2>2, Committed
<1>4. CASE Lower(c)
  <2>1. c \in Managed
        /\ Commit(clients, iconic, focused, LowerWithinLayer(clients, focused, Stack, c))
    BY <1>4 DEF Lower
  <2>2. LowerWithinLayer(clients, focused, Stack, c) \in Agreed(Managed)
    BY <1>1, <2>1, Raised
  <2> QED BY <1>1, <2>1, <2>2, Committed
<1>5. CASE Restack(c)
  <2>1. c \in Managed
        /\ \E s \in Configured(server, c) :
             Commit(clients, iconic, focused,
                    EnforceLayers(clients, focused, SyncFromServer([Stack EXCEPT !.server = s])))
    BY <1>5 DEF Restack
  <2>2. PICK s \in Configured(server, c) :
          Commit(clients, iconic, focused,
                 EnforceLayers(clients, focused, SyncFromServer([Stack EXCEPT !.server = s])))
    BY <2>1
  <2>3. s \in Stacks(Managed)
    BY <1>1, <2>1, ConfiguredListing
  <2> DEFINE moved == [Stack EXCEPT !.server = s]
  <2>4. moved \in Pairs(Managed)
    BY <1>1, <2>3 DEF Pairs
  <2> HIDE DEF moved
  <2>5. SyncFromServer(moved) \in Pairs(Managed)
    BY <1>1, <2>4, Synchronized DEF Agreed
  <2>6. EnforceLayers(clients, focused, SyncFromServer(moved)) \in Agreed(Managed)
    BY <1>1, <2>5, LayersEnforced
  <2>7. Commit(clients, iconic, focused,
               EnforceLayers(clients, focused, SyncFromServer(moved)))
    BY <2>2 DEF moved
  <2> QED BY <1>1, <2>6, <2>7, Committed
<1> QED BY <1>2, <1>3, <1>4, <1>5

\* refresh_client_policy
LEMMA SetPolicyKeeps ==
  ASSUME IInv, NEW c \in Clients, NEW role, NEW coverage \in {"No", "Coverage"},
         SetPolicy(c, role, coverage)
  PROVE  IInv'
<1> DEFINE plain == role \notin {"Normal", "Dialog"}
           wasFullscreen == clients[c].covering = "Fullscreen"
           shape == [clients[c] EXCEPT
                       !.role = role,
                       !.covering = IF wasFullscreen /\ ~plain THEN @
                                    ELSE IF role \in {"Desktop", "Dock"} THEN "No"
                                    ELSE coverage]
           before == [clients EXCEPT ![c].covering = coverage]
           after == [clients EXCEPT ![c] = shape]
           ended == IF wasFullscreen /\ plain THEN EnforceLayers(before, focused, Stack)
                    ELSE Stack
           settled == IF focused = c /\ plain THEN Clearing(after, ended, c)
                      ELSE [focus |-> focused, stack |-> ended]
<1>1. /\ Managed \in SUBSET Clients /\ clients \in [Managed -> Shape]
      /\ iconic \in SUBSET Managed /\ focused \in Managed \cup {NoClient}
      /\ Stack \in Agreed(Managed) /\ Stack \in Pairs(Managed)
  BY IInvGives
<1>2. /\ c \in Managed /\ shape \in Shapes[c]
      /\ Commit(after, iconic, settled.focus,
                EnforceLayers(after, settled.focus, settled.stack))
  BY DEF SetPolicy
<1>3. before \in [Managed -> Shape]
  <2>1. clients[c] \in Shape
    BY <1>1, <1>2
  <2>2. [clients[c] EXCEPT !.covering = coverage] \in Shape
    BY <2>1 DEF Shape
  <2>3. before = [clients EXCEPT ![c] = [clients[c] EXCEPT !.covering = coverage]]
    BY <1>1, <1>2
  <2> HIDE DEF before
  <2> QED BY <1>1, <1>2, <2>2, <2>3
<1>4. after \in [Managed -> Shape]
  <2>1. shape \in Shape
    <3> HIDE DEF shape
    <3> QED BY <1>1, <1>2, ShapesAssumption
  <2> HIDE DEF shape
  <2> QED BY <1>1, <1>2, <2>1
<1> HIDE DEF before, after, shape
<1>5. ended \in Agreed(Managed)
  <2>1. EnforceLayers(before, focused, Stack) \in Agreed(Managed)
    BY <1>1, <1>3, LayersEnforced
  <2> QED BY <1>1, <2>1
<1> HIDE DEF ended, plain
<1>6. settled \in Outcomes(Managed)
  <2>1. Clearing(after, ended, c) \in Outcomes(Managed)
    BY <1>4, <1>5, FocusSettled
  <2>2. [focus |-> focused, stack |-> ended] \in Outcomes(Managed)
    BY <1>1, <1>5 DEF Outcomes
  <2> QED BY <2>1, <2>2
<1> HIDE DEF settled
<1>7. settled.focus \in Managed \cup {NoClient} /\ settled.stack \in Pairs(Managed)
  BY <1>6 DEF Outcomes, Agreed
<1>8. EnforceLayers(after, settled.focus, settled.stack) \in Agreed(Managed)
  BY <1>4, <1>7, LayersEnforced
<1> QED BY <1>1, <1>2, <1>4, <1>7, <1>8, Committed

\* configure_managed_geometry, finish_drag, cancel_drag
LEMMA MoveToKeeps ==
  ASSUME IInv, NEW c \in Clients, NEW output, NEW coverage, MoveTo(c, output, coverage)
  PROVE  IInv'
<1> DEFINE cs == [clients EXCEPT ![c].output = output, ![c].covering = coverage]
           covered(d) == IF d.covering = "No" THEN {} ELSE {d.output}
           changed == covered(clients[c]) # covered(cs[c])
<1>1. /\ Managed \in SUBSET Clients /\ clients \in [Managed -> Shape]
      /\ iconic \in SUBSET Managed /\ focused \in Managed \cup {NoClient}
      /\ Stack \in Agreed(Managed) /\ Stack \in Pairs(Managed)
  BY IInvGives
<1>2. /\ c \in Managed /\ cs[c] \in Shapes[c]
      /\ Commit(cs, iconic, focused,
                IF changed THEN EnforceLayers(cs, focused, Stack) ELSE Stack)
  BY DEF MoveTo
<1>3. cs[c] \in Shape
  <2> HIDE DEF cs
  <2> QED BY <1>1, <1>2, ShapesAssumption
<1>4. cs \in [Managed -> Shape]
  <2>1. /\ cs = [d \in Managed |-> cs[d]]
        /\ \A d \in Managed \ {c} : cs[d] = clients[d]
    BY <1>1
  <2>2. \A d \in Managed : cs[d] \in Shape
    <3> HIDE DEF cs
    <3> QED BY <1>1, <1>3, <2>1
  <2> HIDE DEF cs
  <2> QED BY <2>1, <2>2
<1> HIDE DEF cs, changed
<1>5. (IF changed THEN EnforceLayers(cs, focused, Stack) ELSE Stack) \in Agreed(Managed)
  <2>1. EnforceLayers(cs, focused, Stack) \in Agreed(Managed)
    BY <1>1, <1>4, LayersEnforced
  <2> QED BY <1>1, <2>1
<1> QED BY <1>1, <1>2, <1>4, <1>5, Committed

\* net_wm_fullscreen_monitors, a drag of a fullscreen client
LEMMA MoveFullscreenKeeps ==
  ASSUME IInv, NEW c \in Clients, NEW output, MoveFullscreen(c, output)
  PROVE  IInv'
<1> DEFINE cs == [clients EXCEPT ![c].output = output]
<1>1. /\ Managed \in SUBSET Clients /\ clients \in [Managed -> Shape]
      /\ iconic \in SUBSET Managed /\ focused \in Managed \cup {NoClient}
      /\ Stack \in Agreed(Managed)
  BY IInvGives
<1>2. c \in Managed /\ cs[c] \in Shapes[c] /\ Commit(cs, iconic, focused, Stack)
  BY DEF MoveFullscreen
<1>3. cs[c] \in Shape
  <2> HIDE DEF cs
  <2> QED BY <1>1, <1>2, ShapesAssumption
<1>4. /\ cs = [d \in Managed |-> cs[d]]
      /\ \A d \in Managed \ {c} : cs[d] = clients[d]
  BY <1>1
<1> HIDE DEF cs
<1>5. cs \in [Managed -> Shape]
  <2>1. \A d \in Managed : cs[d] \in Shape
    BY <1>1, <1>3, <1>4
  <2> QED BY <1>4, <2>1
<1> QED BY <1>1, <1>2, <1>5, Committed

\* Every step keeps the inductive invariant.
LEMMA NextKeeps == IInv /\ [Next]_vars => IInv'
<1> SUFFICES ASSUME IInv, [Next]_vars PROVE IInv'
  OBVIOUS
<1>1. CASE ClientStep
  <2>1. PICK c \in Clients :
          \/ \E shape \in Shapes[c] : Manage(c, shape)
          \/ Unmanage(c) \/ Iconify(c) \/ Restore(c) \/ Focus(c)
          \/ Raise(c) \/ Lower(c) \/ Restack(c)
    BY <1>1 DEF ClientStep
  <2> QED BY <2>1, ManageKeeps, UnmanageKeeps, IconifyKeeps, FocusKeeps, MovesKeep
<1>2. CASE ShapeStep
  <2>1. PICK c \in Clients, coverage \in {"No", "Coverage"} : \E s \in Shapes[c] :
          \/ SetRelationships(c, s.transientFor, s.group)
          \/ SetLayer(c, s.layer)
          \/ SetPolicy(c, s.role, coverage)
          \/ \E b \in BOOLEAN : SetFullscreen(c, b, s.output, coverage)
          \/ MoveTo(c, s.output, coverage)
          \/ MoveFullscreen(c, s.output)
    BY <1>2 DEF ShapeStep
  <2>2. PICK s \in Shapes[c] :
          \/ SetRelationships(c, s.transientFor, s.group)
          \/ SetLayer(c, s.layer)
          \/ SetPolicy(c, s.role, coverage)
          \/ \E b \in BOOLEAN : SetFullscreen(c, b, s.output, coverage)
          \/ MoveTo(c, s.output, coverage)
          \/ MoveFullscreen(c, s.output)
    BY <2>1
  <2>3. ASSUME SetRelationships(c, s.transientFor, s.group)
        PROVE  IInv'
    <3>1. /\ c \in Managed
          /\ Reshape(c, [clients[c] EXCEPT !.transientFor = s.transientFor, !.group = s.group])
      BY <2>3 DEF SetRelationships
    <3> QED BY <3>1, ReshapeKeeps
  <2>4. ASSUME SetLayer(c, s.layer)
        PROVE  IInv'
    <3>1. c \in Managed /\ Reshape(c, [clients[c] EXCEPT !.layer = s.layer])
      BY <2>4 DEF SetLayer
    <3> QED BY <3>1, ReshapeKeeps
  <2>5. ASSUME NEW b \in BOOLEAN, SetFullscreen(c, b, s.output, coverage)
        PROVE  IInv'
    <3>1. /\ c \in Managed
          /\ Reshape(c, [clients[c] EXCEPT !.covering = IF b THEN "Fullscreen" ELSE coverage,
                                        !.output = s.output])
      BY <2>5 DEF SetFullscreen
    <3> QED BY <3>1, ReshapeKeeps
  <2> QED BY <2>2, <2>3, <2>4, <2>5, SetPolicyKeeps, MoveToKeeps, MoveFullscreenKeeps
<1>3. CASE ClearFocus
  BY <1>3, ClearFocusKeeps
<1>4. CASE UNCHANGED vars
  <2>1. /\ clients' = clients /\ iconic' = iconic /\ focused' = focused
        /\ stacking' = stacking /\ server' = server
    BY <1>4 DEF vars
  <2>2. Managed' = Managed /\ Stack' = Stack
    BY <2>1 DEF Managed, Stack
  <2> QED BY <2>1, <2>2 DEF IInv, TypeOK
<1> QED BY <1>1, <1>2, <1>3, <1>4 DEF Next

\* The core's stacking order and the server's are the same, and list the managed clients,
\* whatever requests were sent: each handler leaves the two as they were or enforces what
\* it changed.
THEOREM Agreement == Spec => []ServerAgrees
<1>1. Spec => []IInv
  BY InitIInv, NextKeeps, PTL DEF Spec
<1> QED BY <1>1, IInvAgrees, PTL

\* As many numbers follow when a set of them is moved up.
LEMMA ShiftedSize ==
  ASSUME NEW n \in Nat, NEW m \in Nat, NEW K \in SUBSET (1..n)
  PROVE  /\ IsFiniteSet({m + j : j \in K})
         /\ Cardinality({m + j : j \in K}) = Cardinality(K)
<1> DEFINE up == {m + j : j \in K}
           f == [j \in K |-> m + j]
<1>1. IsFiniteSet(K)
  BY PositionsFinite
<1>2. f \in Surjection(K, up)
  BY DEF Surjection
<1>3. f \in Injection(K, up)
  <2>1. f \in [K -> up]
    OBVIOUS
  <2>2. \A i, j \in K : f[i] = f[j] => i = j
    OBVIOUS
  <2> HIDE DEF f, up
  <2> QED BY <2>1, <2>2 DEF Injection, IsInjective
<1> HIDE DEF f, up
<1>4. IsFiniteSet(up) /\ Cardinality(up) <= Cardinality(K)
  BY <1>1, <1>2, FS_Surjection
<1>5. Cardinality(K) <= Cardinality(up)
  BY <1>3, <1>4, FS_Injection
<1>6. Cardinality(up) \in Nat /\ Cardinality(K) \in Nat
  BY <1>1, <1>4, FS_CardinalityType
<1>7. Cardinality(up) = Cardinality(K)
  BY <1>4, <1>5, <1>6
<1> QED BY <1>4, <1>7 DEF up

\* Members of K of the same rank are the same.
LEMMA RankInjective ==
  ASSUME NEW n \in Nat, NEW K \in SUBSET (1..n), NEW i \in K, NEW j \in K, Rank(K, i) = Rank(K, j)
  PROVE  i = j
<1>1. i \in Nat /\ j \in Nat
  OBVIOUS
<1>2. Rank(K, i) \in Nat
  <2>1. K \cap 1..i \in SUBSET (1..n)
    OBVIOUS
  <2> QED BY <2>1, PositionsFinite DEF Rank
<1>3. ~ (i < j) /\ ~ (j < i)
  <2>1. i < j => Rank(K, i) < Rank(K, j)
    BY RankIncreases
  <2>2. j < i => Rank(K, j) < Rank(K, i)
    BY RankIncreases
  <2> QED BY <1>2, <2>1, <2>2
<1> QED BY <1>1, <1>3

\* retain works on the parts of a sequence.
LEMMA KeepConcat ==
  ASSUME NEW S, NEW a \in Seq(S), NEW b \in Seq(S), NEW T
  PROVE  Keep(a \o b, T) = Keep(a, T) \o Keep(b, T)
<1> DEFINE s == a \o b
           m == Len(a)
           n == Len(b)
           A == KeptAt(a, T)
           B == KeptAt(b, T)
           K == KeptAt(s, T)
           p == Cardinality(A)
           q == Cardinality(B)
           up(j) == {m + i : i \in B \cap 1..j}
<1>1. /\ s \in Seq(S) /\ Len(s) = m + n /\ m \in Nat /\ n \in Nat
      /\ \A i \in 1..(m + n) : s[i] = IF i <= m THEN a[i] ELSE b[i - m]
  OBVIOUS
<1>2. /\ A \in SUBSET (1..m) /\ B \in SUBSET (1..n) /\ K \in SUBSET (1..(m + n))
      /\ \A i \in 1..m : i \in A <=> a[i] \in T
      /\ \A i \in 1..n : i \in B <=> b[i] \in T
      /\ \A i \in 1..(m + n) : i \in K <=> s[i] \in T
  BY <1>1 DEF KeptAt
<1>3. /\ DOMAIN Keep(a, T) = 1..p /\ p \in Nat
      /\ \A k \in 1..p : \E i \in A : Rank(A, i) = k /\ Keep(a, T)[k] = a[i]
  BY KeepPositions
<1>4. /\ DOMAIN Keep(b, T) = 1..q /\ q \in Nat
      /\ \A k \in 1..q : \E i \in B : Rank(B, i) = k /\ Keep(b, T)[k] = b[i]
  BY KeepPositions
<1>5. /\ DOMAIN Keep(s, T) = 1..Cardinality(K) /\ Cardinality(K) \in Nat
      /\ \A k \in 1..Cardinality(K) : \E i \in K : Rank(K, i) = k /\ Keep(s, T)[k] = s[i]
  <2> HIDE DEF s
  <2> QED BY <1>1, KeepPositions
<1>6. Keep(a, T) \in Seq(S) /\ Keep(b, T) \in Seq(S) /\ Keep(s, T) \in Seq(S)
  <2>1. Keep(s, T) \in Seq(S)
    <3> HIDE DEF s
    <3> QED BY <1>1, KeepFacts
  <2> QED BY <2>1, KeepFacts
<1> HIDE DEF s, m, n, A, B, K, p, q
<1>7. /\ \A i \in 1..m : i \in K <=> i \in A
      /\ \A j \in 1..n : m + j \in K <=> j \in B
  <2>1. ASSUME NEW i \in 1..m PROVE i \in K <=> i \in A
    BY <1>1, <1>2
  <2>2. ASSUME NEW j \in 1..n PROVE m + j \in K <=> j \in B
    <3>1. m + j \in 1..(m + n) /\ ~ (m + j <= m) /\ (m + j) - m = j
      BY <1>1
    <3>2. s[m + j] = b[j]
      BY <1>1, <3>1
    <3> QED BY <1>2, <3>1, <3>2
  <2> QED BY <2>1, <2>2
<1>8. ASSUME NEW i \in A
      PROVE  i \in K /\ Rank(K, i) = Rank(A, i)
  <2>1. K \cap 1..i = A \cap 1..i
    BY <1>1, <1>2, <1>7
  <2> QED BY <1>2, <1>7, <2>1 DEF Rank
<1>9. ASSUME NEW j \in 0..n
      PROVE  Cardinality(K \cap 1..(m + j)) = p + Cardinality(B \cap 1..j)
  <2>1. K \cap 1..(m + j) = A \cup up(j)
    <3>3. \A i \in A : i \in 1..m /\ i \in K /\ i \in 1..(m + j)
      <4> SUFFICES ASSUME NEW i \in A PROVE i \in 1..m /\ i \in K /\ i \in 1..(m + j)
        OBVIOUS
      <4>1. i \in 1..m
        BY <1>2
      <4> QED BY <1>1, <1>7, <4>1
    <3>4. \A i \in B \cap 1..j : m + i \in K /\ m + i \in 1..(m + j)
      <4> SUFFICES ASSUME NEW i \in B \cap 1..j PROVE m + i \in K /\ m + i \in 1..(m + j)
        OBVIOUS
      <4>1. i \in 1..n
        BY <1>2
      <4> QED BY <1>1, <1>7, <4>1
    <3>1. A \cup up(j) \subseteq (K \cap 1..(m + j))
      BY <3>3, <3>4
    <3>2. ASSUME NEW i \in K \cap 1..(m + j)
          PROVE  i \in A \cup up(j)
      <4>1. CASE i <= m
        BY <1>1, <1>7, <4>1
      <4>2. CASE ~ (i <= m)
        <5>1. i - m \in 1..j /\ i - m \in 1..n /\ m + (i - m) = i
          BY <1>1, <4>2
        <5>2. i - m \in B
          BY <1>7, <5>1
        <5> QED BY <5>1, <5>2
      <4> QED BY <4>1, <4>2
    <3> HIDE DEF up
    <3> QED BY <3>1, <3>2
  <2>2. A \cap up(j) = {}
    BY <1>1, <1>2
  <2>3. B \cap 1..j \in SUBSET (1..n)
    BY <1>2
  <2>4. IsFiniteSet(up(j)) /\ Cardinality(up(j)) = Cardinality(B \cap 1..j)
    BY <1>1, <2>3, ShiftedSize
  <2>5. IsFiniteSet(A) /\ Cardinality(A) \in Nat
    BY <1>1, <1>2, PositionsFinite
  <2>6. Cardinality(A \cup up(j)) = Cardinality(A) + Cardinality(up(j))
    <3> DEFINE u == up(j)
    <3>1. IsFiniteSet(A) /\ IsFiniteSet(u) /\ A \cap u = {}
      BY <2>2, <2>4, <2>5
    <3> HIDE DEF u
    <3>2. Cardinality(A \cup u) = Cardinality(A) + Cardinality(u) - Cardinality(A \cap u)
      BY ONLY <3>1, FS_Union
    <3>3. Cardinality(A \cap u) = 0
      BY <3>1, FS_EmptySet
    <3>4. Cardinality(u) \in Nat /\ Cardinality(A) \in Nat
      BY <2>5, <3>1, FS_CardinalityType
    <3>5. Cardinality(A \cup u) = Cardinality(A) + Cardinality(u)
      BY ONLY <3>2, <3>3, <3>4
    <3> QED BY <3>5 DEF u
  <2> QED BY <2>1, <2>4, <2>6 DEF p
<1>10. Cardinality(K) = p + q
  <2>1. n \in 0..n /\ K \cap (1..(m + n)) = K /\ B \cap (1..n) = B
    <3>1. n \in 0..n
      BY <1>1
    <3> DEFINE I == 1..(m + n)
               J == 1..n
    <3>2. K \in SUBSET I /\ B \in SUBSET J
      BY <1>2
    <3> HIDE DEF I, J
    <3>3. K \cap I = K /\ B \cap J = B
      BY <3>2
    <3> QED BY <3>1, <3>3 DEF I, J
  <2>2. Cardinality(K \cap 1..(m + n)) = p + Cardinality(B \cap 1..n)
    BY <1>9, <2>1
  <2> QED BY <2>1, <2>2 DEF q
<1>11. ASSUME NEW j \in B
       PROVE  m + j \in K /\ Rank(K, m + j) = p + Rank(B, j)
  <2>1. j \in 1..n /\ j \in 0..n
    BY <1>1, <1>2
  <2>2. m + j \in K
    BY <1>7, <2>1
  <2>3. Cardinality(K \cap 1..(m + j)) = p + Cardinality(B \cap 1..j)
    BY <1>9, <2>1
  <2> QED BY <2>2, <2>3 DEF Rank
<1>12. ASSUME NEW k \in 1..p
       PROVE  Keep(s, T)[k] = Keep(a, T)[k]
  <2>1. PICK i \in A : Rank(A, i) = k /\ Keep(a, T)[k] = a[i]
    BY <1>3
  <2>2. i \in K /\ Rank(K, i) = k
    BY <1>8, <2>1
  <2>3. PICK l \in K : Rank(K, l) = k /\ Keep(s, T)[k] = s[l]
    <3>1. k \in 1..Cardinality(K)
      BY <1>3, <1>4, <1>10
    <3> QED BY <1>5, <3>1
  <2>4. l = i
    <3>1. m + n \in Nat
      BY <1>1
    <3> QED BY <1>2, <2>2, <2>3, <3>1, RankInjective
  <2>5. s[i] = a[i]
    BY <1>1, <1>2
  <2> QED BY <2>1, <2>3, <2>4, <2>5
<1>13. ASSUME NEW k \in 1..q
       PROVE  Keep(s, T)[p + k] = Keep(b, T)[k]
  <2>1. PICK j \in B : Rank(B, j) = k /\ Keep(b, T)[k] = b[j]
    BY <1>4
  <2>2. m + j \in K /\ Rank(K, m + j) = p + k
    BY <1>11, <2>1
  <2>3. PICK l \in K : Rank(K, l) = p + k /\ Keep(s, T)[p + k] = s[l]
    <3>1. p + k \in 1..Cardinality(K)
      BY <1>3, <1>4, <1>10
    <3> QED BY <1>5, <3>1
  <2>4. l = m + j
    <3>1. m + n \in Nat
      BY <1>1
    <3> QED BY <1>2, <2>2, <2>3, <3>1, RankInjective
  <2>5. s[m + j] = b[j]
    <3>1. j \in 1..n
      BY <1>2
    <3>2. m + j \in 1..(m + n) /\ ~ (m + j <= m) /\ (m + j) - m = j
      BY <1>1, <3>1
    <3> QED BY <1>1, <3>2
  <2> QED BY <2>1, <2>3, <2>4, <2>5
<1> DEFINE ka == Keep(a, T)
           kb == Keep(b, T)
           ks == Keep(s, T)
<1>14. /\ ka \in Seq(S) /\ kb \in Seq(S) /\ ks \in Seq(S)
       /\ Len(ka) = p /\ Len(kb) = q /\ Len(ks) = p + q /\ p \in Nat /\ q \in Nat
  <2>1. DOMAIN ka = 1..p /\ DOMAIN kb = 1..q /\ DOMAIN ks = 1..(p + q)
    BY <1>3, <1>4, <1>5, <1>10
  <2>2. ka \in Seq(S) /\ kb \in Seq(S) /\ ks \in Seq(S)
    BY <1>6
  <2>3. p \in Nat /\ q \in Nat /\ p + q \in Nat
    BY <1>3, <1>4
  <2> HIDE DEF ka, kb, ks
  <2>4. Len(ka) = p /\ Len(kb) = q /\ Len(ks) = p + q
    BY ONLY <2>1, <2>2, <2>3
  <2> QED BY <2>2, <2>3, <2>4
<1>15. /\ \A k \in 1..p : ks[k] = ka[k]
       /\ \A k \in 1..q : ks[p + k] = kb[k]
  BY <1>12, <1>13
<1> HIDE DEF ka, kb, ks
<1>16. ks = ka \o kb
  <2>1. /\ ka \o kb \in Seq(S) /\ Len(ka \o kb) = p + q
        /\ \A k \in 1..(p + q) : (ka \o kb)[k] = IF k <= p THEN ka[k] ELSE kb[k - p]
    <3>1. ka \in Seq(S) /\ kb \in Seq(S)
      BY <1>14
    <3>2. /\ ka \o kb \in Seq(S) /\ Len(ka \o kb) = Len(ka) + Len(kb)
          /\ \A k \in 1..(Len(ka) + Len(kb)) :
               (ka \o kb)[k] = IF k <= Len(ka) THEN ka[k] ELSE kb[k - Len(ka)]
      BY ONLY <3>1, ConcatProperties
    <3> QED BY <1>14, <3>2
  <2>2. ASSUME NEW k \in 1..(p + q)
        PROVE  ks[k] = (ka \o kb)[k]
    <3>1. CASE k <= p
      <4>1. k \in 1..p
        BY <1>14, <3>1
      <4> QED BY <1>15, <2>1, <3>1, <4>1
    <3>2. CASE ~ (k <= p)
      <4>1. k - p \in 1..q /\ p + (k - p) = k
        BY <1>14, <3>2
      <4>2. ks[p + (k - p)] = kb[k - p]
        BY <1>15, <4>1
      <4> QED BY <2>1, <3>2, <4>1, <4>2
    <3> QED BY <3>1, <3>2
  <2> DEFINE u == ka \o kb
  <2>3. ks \in Seq(S) /\ u \in Seq(S) /\ Len(ks) = Len(u) /\ Len(ks) = p + q
    BY <1>14, <2>1
  <2>4. \A k \in 1..Len(ks) : ks[k] = u[k]
    BY <2>2, <2>3
  <2> HIDE DEF u
  <2>5. ks = u
    BY ONLY <2>3, <2>4, SeqEqual
  <2> QED BY <2>5 DEF u
<1> QED BY <1>16 DEF ks, ka, kb, s

\* retain of all members, and of none.
LEMMA KeepAll ==
  ASSUME NEW S, NEW s \in Seq(S), NEW T, Members(s) \subseteq T
  PROVE  Keep(s, T) = s
<1> DEFINE K == KeptAt(s, T)
           n == Len(s)
           kept == Keep(s, T)
<1>1. n \in Nat /\ K = 1..n
  BY DEF KeptAt, Members
<1>2. \A i \in 0..n : Cardinality(1..i) = i
  <2> SUFFICES ASSUME NEW i \in 0..n PROVE Cardinality(1..i) = i
    OBVIOUS
  <2>1. 1 \in Int /\ i \in Int /\ i \in Nat
    BY <1>1
  <2> QED BY ONLY <2>1, FS_Interval
<1>3. /\ DOMAIN kept = 1..Cardinality(K)
      /\ \A k \in 1..Cardinality(K) : \E i \in K : Rank(K, i) = k /\ kept[k] = s[i]
  BY KeepPositions
<1>4. kept \in Seq(S)
  BY KeepFacts
<1> HIDE DEF K, kept, n
<1>5. Cardinality(K) = n
  BY <1>1, <1>2
<1>6. ASSUME NEW k \in 1..n
      PROVE  kept[k] = s[k]
  <2>1. PICK i \in K : Rank(K, i) = k /\ kept[k] = s[i]
    BY <1>3, <1>5
  <2>2. i \in 1..n /\ (1..n) \cap (1..i) = 1..i /\ i \in 0..n
    BY <1>1
  <2>3. Rank(K, i) = i
    BY <1>1, <1>2, <2>2 DEF Rank
  <2> QED BY <2>1, <2>3
<1>7. Len(kept) = n
  BY <1>1, <1>3, <1>4, <1>5
<1>8. Len(s) = n /\ s \in Seq(S)
  BY DEF n
<1>9. \A k \in 1..Len(kept) : kept[k] = s[k]
  BY <1>6, <1>7
<1>10. kept = s
  BY ONLY <1>4, <1>7, <1>8, <1>9, SeqEqual
<1> QED BY <1>10 DEF kept

\* Nothing of a sequence is kept if none of it is to be.
LEMMA KeepNone ==
  ASSUME NEW S, NEW s \in Seq(S), NEW T, Members(s) \cap T = {}
  PROVE  Keep(s, T) = <<>>
BY KeepFacts, NoMembers

(* ---- Orders that respect what the clients of a layer demand ---- *)
\* For each client of a layer, those of the layer it has to be above.
Needs(cs, layer) ==
  [c \in layer |-> {d \in layer : d = cs[c].transientFor \/ d \in GroupMembers(cs, c)}]

\* In p each client comes after those it has to be above that are not in v.
Respects(need, p, v) ==
  \A i \in 1..Len(p) : need[p[i]] \subseteq (v \cup {p[j] : j \in 1..(i - 1)})

\* What place puts below a client is what it needs, whatever the order.
LEMMA BelowIs ==
  ASSUME NEW M, NEW order \in Stacks(M), NEW cs, NEW layer \in SUBSET M, NEW c \in layer
  PROVE  Below(cs, order, layer, c) = Needs(cs, layer)[c]
<1> DEFINE G == GroupMembers(cs, c) \cap layer
           kept == Keep(order, G)
           parent == IF cs[c].transientFor \in layer THEN <<cs[c].transientFor>> ELSE <<>>
<1>1. order \in Seq(M) /\ Members(order) = M
  BY DEF Stacks, Enumerates
<1>2. kept \in Seq(M) /\ Members(kept) = G
  <2>1. kept \in Seq(M) /\ Members(kept) = Members(order) \cap G
    <3> HIDE DEF G
    <3> QED BY <1>1, KeepFacts
  <2>2. M \cap G = G
    OBVIOUS
  <2> QED BY <1>1, <2>1, <2>2
<1>3. parent \in Seq(M) /\ Members(parent) = layer \cap {cs[c].transientFor}
  <2>1. CASE cs[c].transientFor \in layer
    <3>1. cs[c].transientFor \in M
      BY <2>1
    <3> QED BY <2>1, <3>1, SingletonFacts
  <2>2. CASE cs[c].transientFor \notin layer
    BY <2>2, EmptyFacts
  <2> QED BY <2>1, <2>2
<1>4. PlacedBefore(cs, order, layer, c) = kept \o parent
  BY DEF PlacedBefore
<1> HIDE DEF kept, parent
<1>5. Members(kept \o parent) = Members(kept) \cup Members(parent)
  BY <1>2, <1>3, ConcatFacts
<1> QED BY <1>2, <1>3, <1>4, <1>5 DEF Below, Needs

\* A concatenation respects the needs if its parts do, one after the other.
LEMMA RespectsParts ==
  ASSUME NEW L, NEW need \in [L -> SUBSET L], NEW p \in Seq(L), NEW q \in Seq(L), NEW v
  PROVE  Respects(need, p \o q, v) <=>
           Respects(need, p, v) /\ Respects(need, q, v \cup Members(p))
<1> DEFINE s == p \o q
           m == Len(p)
           n == Len(q)
           upTo(u, i) == {u[j] : j \in 1..(i - 1)}
<1>1. /\ Len(s) = m + n /\ m \in Nat /\ n \in Nat
      /\ \A i \in 1..(m + n) : s[i] = IF i <= m THEN p[i] ELSE q[i - m]
  BY ConcatProperties
<1>2. Members(p) = {p[j] : j \in 1..m}
  BY DEF Members
<1> HIDE DEF s, m, n
<1>3. \A i \in 1..m : i \in 1..(m + n) /\ s[i] = p[i]
  BY <1>1
<1>4. \A i \in 1..n : m + i \in 1..(m + n) /\ s[m + i] = q[i]
  <2> SUFFICES ASSUME NEW i \in 1..n PROVE m + i \in 1..(m + n) /\ s[m + i] = q[i]
    OBVIOUS
  <2>1. m + i \in 1..(m + n) /\ ~ (m + i <= m) /\ (m + i) - m = i
    BY <1>1
  <2> QED BY <1>1, <2>1
<1>5. ASSUME NEW i \in 1..m
      PROVE  upTo(s, i) = upTo(p, i)
  <2>1. \A j \in 1..(i - 1) : s[j] = p[j]
    BY <1>1, <1>3
  <2> QED BY <2>1
<1>6. ASSUME NEW i \in 1..n
      PROVE  upTo(s, m + i) = Members(p) \cup upTo(q, i)
  <2>1. \A j \in 1..((m + i) - 1) : j \notin 1..m => j - m \in 1..(i - 1) /\ m + (j - m) = j
    BY <1>1
  <2>2. \A j \in 1..(i - 1) : j \in 1..n /\ m + j \in 1..((m + i) - 1)
    BY <1>1
  <2>3. \A j \in 1..m : j \in 1..((m + i) - 1)
    BY <1>1
  <2>4. ASSUME NEW j \in 1..((m + i) - 1)
        PROVE  s[j] \in Members(p) \cup upTo(q, i)
    <3>1. CASE j \in 1..m
      BY <1>2, <1>3, <3>1
    <3>2. CASE j \notin 1..m
      <4>1. j - m \in 1..(i - 1) /\ m + (j - m) = j /\ j - m \in 1..n
        BY <2>1, <2>2, <3>2
      <4>2. s[m + (j - m)] = q[j - m]
        BY <1>4, <4>1
      <4>3. s[j] = q[j - m]
        BY <4>1, <4>2
      <4> QED BY <4>1, <4>3
    <3> QED BY <3>1, <3>2
  <2>5. ASSUME NEW j \in 1..(i - 1)
        PROVE  q[j] \in upTo(s, m + i)
    <3>1. s[m + j] = q[j]
      BY <1>4, <2>2
    <3> QED BY <2>2, <3>1
  <2>6. ASSUME NEW j \in 1..m
        PROVE  p[j] \in upTo(s, m + i)
    BY <1>3, <2>3
  <2>7. Members(p) \subseteq upTo(s, m + i)
    BY <1>2, <2>6
  <2> QED BY <2>4, <2>5, <2>7
<1>7. /\ Respects(need, s, v) <=> \A i \in 1..(m + n) : need[s[i]] \subseteq (v \cup upTo(s, i))
      /\ Respects(need, p, v) <=> \A i \in 1..m : need[p[i]] \subseteq (v \cup upTo(p, i))
      /\ Respects(need, q, v \cup Members(p)) <=>
           \A i \in 1..n : need[q[i]] \subseteq ((v \cup Members(p)) \cup upTo(q, i))
  BY <1>1 DEF Respects, m, n
<1> HIDE DEF upTo
<1>8. ASSUME Respects(need, s, v)
      PROVE  Respects(need, p, v) /\ Respects(need, q, v \cup Members(p))
  <2>1. ASSUME NEW i \in 1..m
        PROVE  need[p[i]] \subseteq (v \cup upTo(p, i))
    BY <1>3, <1>5, <1>7, <1>8
  <2>2. ASSUME NEW i \in 1..n
        PROVE  need[q[i]] \subseteq ((v \cup Members(p)) \cup upTo(q, i))
    <3>1. need[s[m + i]] \subseteq (v \cup upTo(s, m + i))
      BY <1>4, <1>7, <1>8
    <3> QED BY <1>4, <1>6, <3>1
  <2> QED BY <1>7, <2>1, <2>2
<1>9. ASSUME Respects(need, p, v), Respects(need, q, v \cup Members(p))
      PROVE  Respects(need, s, v)
  <2>1. ASSUME NEW i \in 1..(m + n)
        PROVE  need[s[i]] \subseteq (v \cup upTo(s, i))
    <3>1. CASE i \in 1..m
      BY <1>3, <1>5, <1>7, <1>9, <3>1
    <3>2. CASE i \notin 1..m
      <4>1. i - m \in 1..n /\ m + (i - m) = i
        BY <1>1, <3>2
      <4>2. need[q[i - m]] \subseteq ((v \cup Members(p)) \cup upTo(q, i - m))
        BY <1>7, <1>9, <4>1
      <4>3. s[m + (i - m)] = q[i - m] /\ upTo(s, m + (i - m)) = Members(p) \cup upTo(q, i - m)
        BY <1>4, <1>6, <4>1
      <4> DEFINE k == i - m
      <4> HIDE DEF k
      <4>4. s[i] = q[k] /\ upTo(s, i) = Members(p) \cup upTo(q, k)
        BY <4>1, <4>3 DEF k
      <4>5. need[q[k]] \subseteq ((v \cup Members(p)) \cup upTo(q, k))
        BY <4>2 DEF k
      <4> QED BY <4>4, <4>5
    <3> QED BY <3>1, <3>2
  <2> QED BY <1>7, <2>1
<1> QED BY <1>8, <1>9 DEF s

\* One client respects the needs if those it has to be above are in v; none always do.
LEMMA RespectsOne ==
  ASSUME NEW L, NEW need \in [L -> SUBSET L], NEW c \in L, NEW v
  PROVE  /\ Respects(need, <<c>>, v) <=> need[c] \subseteq v
         /\ Respects(need, <<>>, v)
<1>1. 1..(1 - 1) = {} /\ Len(<<c>>) = 1 /\ <<c>>[1] = c /\ 1..1 = {1}
  OBVIOUS
<1>2. {<<c>>[j] : j \in 1..(1 - 1)} = {}
  BY <1>1
<1>3. Respects(need, <<c>>, v) <=> need[c] \subseteq (v \cup {})
  BY <1>1, <1>2 DEF Respects
<1>4. Respects(need, <<>>, v)
  BY DEF Respects
<1> QED BY <1>3, <1>4

\* What nobody in p has to be above need not be in v.
LEMMA RespectsFewer ==
  ASSUME NEW L, NEW need \in [L -> SUBSET L], NEW p \in Seq(L), NEW v, NEW c,
         Respects(need, p, v \cup {c}), \A e \in Members(p) : c \notin need[e]
  PROVE  Respects(need, p, v)
<1> SUFFICES ASSUME NEW i \in 1..Len(p)
             PROVE  need[p[i]] \subseteq (v \cup {p[j] : j \in 1..(i - 1)})
  BY DEF Respects
<1>1. need[p[i]] \subseteq ((v \cup {c}) \cup {p[j] : j \in 1..(i - 1)})
  BY DEF Respects
<1>2. c \notin need[p[i]]
  BY DEF Members
<1> QED BY <1>1, <1>2

\* good has nothing to visit, and each piece of work for which place calls itself with
\* members of good only.
FollowsCalls(cs, order, layer, good) ==
  /\ \A v \in SUBSET layer : <<<<>>, v>> \in good
  /\ \A p \in Seq(layer), v \in SUBSET layer :
       p # <<>> /\ Head(p) \in v /\ <<Tail(p), v>> \in good => <<p, v>> \in good
  /\ \A p \in Seq(layer), v \in SUBSET layer :
       /\ p # <<>> /\ Head(p) \notin v
       /\ <<PlacedBefore(cs, order, layer, Head(p)), v \cup {Head(p)}>> \in good
       /\ \A more \in SUBSET layer : <<Tail(p), v \cup more>> \in good
       => <<p, v>> \in good

\* Induction along the calls of place.
LEMMA PlaceInduction ==
  ASSUME NEW S, NEW order \in Seq(S), NEW cs, NEW layer, IsFiniteSet(layer), NEW good,
         FollowsCalls(cs, order, layer, good)
  PROVE  \A p \in Seq(layer), v \in SUBSET layer : <<p, v>> \in good
<1> DEFINE m == WorkLeft(order, layer)
           D == Work(layer)
<1>1. ASSUME NEW w \in D, \A y \in D : m[y] < m[w] => y \in good
      PROVE  w \in good
  <2>1. PICK p \in Seq(layer), v \in SUBSET layer : w = <<p, v>>
    BY DEF Work
  <2>2. CASE p = <<>>
    BY <2>1, <2>2 DEF FollowsCalls
  <2>3. CASE p # <<>>
    <3> DEFINE c == Head(p)
               t == Tail(p)
               before == PlacedBefore(cs, order, layer, c)
    <3>1. /\ <<before, v \cup {c}>> \in D
          /\ c \notin v => m[<<before, v \cup {c}>>] < m[<<p, v>>]
          /\ \A more \in SUBSET layer :
               <<t, v \cup more>> \in D /\ m[<<t, v \cup more>>] < m[<<p, v>>]
      BY <2>3, WorkShrinks
    <3> HIDE DEF m, D, c, t, before
    <3>2. \A more \in SUBSET layer : <<t, v \cup more>> \in good
      BY <1>1, <2>1, <3>1
    <3>3. <<t, v>> \in good
      <4>1. <<t, v \cup {}>> \in good /\ v \cup {} = v
        BY <3>2
      <4> QED BY <4>1
    <3>4. c \notin v => <<before, v \cup {c}>> \in good
      BY <1>1, <2>1, <3>1
    <3>5. <<p, v>> \in good
      <4>1. CASE c \in v
        BY <2>3, <3>3, <4>1 DEF c, t, FollowsCalls
      <4>2. CASE c \notin v
        BY <2>3, <3>2, <3>4, <4>2 DEF c, t, before, FollowsCalls
      <4> QED BY <4>1, <4>2
    <3> QED BY <2>1, <3>5
  <2> QED BY <2>2, <2>3
<1>2. \A w \in D : w \in good
  BY <1>1, WorkInduction
<1> QED BY <1>2 DEF Work

\* What the calls of place return, and what place makes of them.
PlaceCase(cs, order, layer, p, v) ==
  LET place == Placing(cs, order, layer)
      c == Head(p)
      t == Tail(p)
      before == PlacedBefore(cs, order, layer, c)
      below == place[<<before, v \cup {c}>>]
      rest == place[<<t, v \cup (Members(below) \cup {c})>>]
  IN /\ c \in layer /\ t \in Seq(layer) /\ p = <<c>> \o t /\ before \in Seq(layer)
     /\ c \in v => place[<<p, v>>] = place[<<t, v>>]
     /\ c \notin v =>
          /\ place[<<p, v>>] = below \o <<c>> \o rest
          /\ PlacesAll(cs, order, layer, <<before, v \cup {c}>>, below)
          /\ PlacesAll(cs, order, layer, <<t, v \cup (Members(below) \cup {c})>>, rest)

\* One step of place, for work that is not empty.
LEMMA PlaceCases ==
  ASSUME NEW S, NEW order \in Seq(S), NEW cs, NEW layer, IsFiniteSet(layer),
         NEW p \in Seq(layer), NEW v \in SUBSET layer, p # <<>>
  PROVE  PlaceCase(cs, order, layer, p, v)
<1> DEFINE place == Placing(cs, order, layer)
           c == Head(p)
           t == Tail(p)
           before == PlacedBefore(cs, order, layer, c)
           below == place[<<before, v \cup {c}>>]
           more == Members(below) \cup {c}
           rest == place[<<t, v \cup more>>]
           placed == Append(below, c)
<1>1. c \in layer /\ t \in Seq(layer) /\ p = <<c>> \o t
  OBVIOUS
<1>2. before \in Seq(layer)
  BY PlacedBeforeFacts
<1>3. Unfolded(cs, order, layer, p, v)
  BY PlacingSolves, PlacingUnfolds
<1>4. \A w \in Work(layer) : PlacesAll(cs, order, layer, w, place[w])
  BY PlacingLists
<1>5. /\ c \in v => place[<<p, v>>] = place[<<t, v>>]
      /\ c \notin v => place[<<p, v>>] = placed \o place[<<t, v \cup Members(placed)>>]
  BY <1>3, Zenon DEF Unfolded
<1> HIDE DEF place, before, c, t
<1>6. PlacesAll(cs, order, layer, <<before, v \cup {c}>>, below)
  <2>1. <<before, v \cup {c}>> \in Work(layer)
    BY <1>1, <1>2 DEF Work
  <2> QED BY <1>4, <2>1
<1>7. below \in Seq(layer)
  BY <1>6 DEF PlacesAll
<1> HIDE DEF below
<1>8. placed = below \o <<c>> /\ Members(placed) = more /\ more \in SUBSET layer
  <2>1. Append(below, c) = below \o <<c>>
    BY <1>1, <1>7
  <2>2. Members(Append(below, c)) = Members(below) \cup {c}
    BY <1>1, <1>7, AppendFacts
  <2>3. Members(below) \subseteq layer
    BY <1>7 DEF Members
  <2> QED BY <1>1, <2>1, <2>2, <2>3
<1>9. PlacesAll(cs, order, layer, <<t, v \cup more>>, rest)
  <2>1. <<t, v \cup more>> \in Work(layer)
    BY <1>1, <1>8 DEF Work
  <2> QED BY <1>4, <2>1
<1>10. c \notin v => place[<<p, v>>] = below \o <<c>> \o rest
  BY <1>5, <1>8
<1> HIDE DEF rest, placed
<1> QED
  BY <1>1, <1>2, <1>5, <1>6, <1>9, <1>10, Zenon
  DEF PlaceCase, rest, below, before, place, c, t, more

\* There is nothing to place when all have been visited.
LEMMA NothingToPlace ==
  ASSUME NEW S, NEW order \in Seq(S), NEW cs, NEW layer, IsFiniteSet(layer)
  PROVE  \A p \in Seq(layer), v \in SUBSET layer :
           Members(p) \subseteq v => Placing(cs, order, layer)[<<p, v>>] = <<>>
<1> DEFINE place == Placing(cs, order, layer)
           good == {w \in Work(layer) : Members(w[1]) \subseteq w[2] => place[w] = <<>>}
<1>1. \A p \in Seq(layer), v \in SUBSET layer :
        <<p, v>> \in good <=> (Members(p) \subseteq v => place[<<p, v>>] = <<>>)
  BY DEF Work
<1>2. ASSUME NEW v \in SUBSET layer PROVE <<<<>>, v>> \in good
  <2>1. Unfolded(cs, order, layer, <<>>, v)
    <3>1. Places(cs, order, layer, Placing(cs, order, layer))
      BY PlacingSolves
    <3>2. <<>> \in Seq(layer)
      OBVIOUS
    <3> QED BY <3>1, <3>2, PlacingUnfolds
  <2>2. place[<<<<>>, v>>] = <<>>
    BY <2>1, Zenon DEF Unfolded
  <2> HIDE DEF good, place
  <2>3. <<>> \in Seq(layer)
    OBVIOUS
  <2> QED BY <1>1, <2>2, <2>3
<1>3. ASSUME NEW p \in Seq(layer), NEW v \in SUBSET layer, p # <<>>
      PROVE  /\ Members(p) = {Head(p)} \cup Members(Tail(p))
             /\ Tail(p) \in Seq(layer)
             /\ Head(p) \in v => place[<<p, v>>] = place[<<Tail(p), v>>]
  <2>1. PlaceCase(cs, order, layer, p, v)
    BY <1>3, PlaceCases
  <2>2. /\ Members(p) = {Head(p)} \cup Members(Tail(p))
        /\ Tail(p) \in Seq(layer)
    BY <1>3, HeadTailFacts
  <2> QED BY <2>1, <2>2, Zenon DEF PlaceCase
<1> HIDE DEF good, place
<1>4. ASSUME NEW p \in Seq(layer), NEW v \in SUBSET layer,
             p # <<>>, Head(p) \in v, <<Tail(p), v>> \in good
      PROVE  <<p, v>> \in good
  BY <1>1, <1>3, <1>4, ZenonT(60)
<1>5. ASSUME NEW p \in Seq(layer), NEW v \in SUBSET layer, p # <<>>, Head(p) \notin v
      PROVE  <<p, v>> \in good
  BY <1>1, <1>3, <1>5
<1>6. \A p \in Seq(layer), v \in SUBSET layer : <<p, v>> \in good
  <2>1. \A p \in Seq(layer), v \in SUBSET layer :
          p # <<>> /\ Head(p) \in v /\ <<Tail(p), v>> \in good => <<p, v>> \in good
    BY <1>4
  <2>2. \A p \in Seq(layer), v \in SUBSET layer :
          /\ p # <<>> /\ Head(p) \notin v
          /\ <<PlacedBefore(cs, order, layer, Head(p)), v \cup {Head(p)}>> \in good
          /\ \A more \in SUBSET layer : <<Tail(p), v \cup more>> \in good
          => <<p, v>> \in good
    BY <1>5
  <2> QED
    <3>1. FollowsCalls(cs, order, layer, good)
      BY <1>2, <2>1, <2>2 DEF FollowsCalls
    <3> QED BY <3>1, PlaceInduction
<1> QED BY <1>1, <1>6 DEF place

\* A duplicate-free sequence does not repeat its head.
LEMMA HeadOnce ==
  ASSUME NEW S, NEW s \in Seq(S), s # <<>>, Unique(s)
  PROVE  Unique(Tail(s)) /\ Head(s) \notin Members(Tail(s))
<1> DEFINE t == Tail(s)
           c == Head(s)
<1>1. /\ Len(s) = Len(t) + 1 /\ s[1] = c /\ Len(t) \in Nat
      /\ \A i \in 1..Len(t) : s[i + 1] = t[i]
  OBVIOUS
<1> HIDE DEF t, c
<1>2. \A i \in 1..Len(t) : i + 1 \in 1..Len(s) /\ i + 1 # 1 /\ 1 \in 1..Len(s)
  BY <1>1
<1>3. \A i, j \in 1..Len(t) : t[i] = t[j] => i = j
  <2> SUFFICES ASSUME NEW i \in 1..Len(t), NEW j \in 1..Len(t), t[i] = t[j] PROVE i = j
    OBVIOUS
  <2>1. i + 1 = j + 1
    BY <1>1, <1>2 DEF Unique
  <2> QED BY <1>1, <2>1
<1>4. \A i \in 1..Len(t) : t[i] # c
  BY <1>1, <1>2 DEF Unique
<1> QED BY <1>3, <1>4 DEF Unique, Members, t, c

\* place leaves an order that respects the needs as it is.
LEMMA RespectfulStays ==
  ASSUME NEW S, NEW order \in Seq(S), NEW cs, NEW layer, IsFiniteSet(layer),
         NEW need \in [layer -> SUBSET layer],
         \A c \in layer : Below(cs, order, layer, c) = need[c]
  PROVE  \A p \in Seq(layer), v \in SUBSET layer :
           Unique(p) /\ Members(p) \cap v = {} /\ Respects(need, p, v)
           => Placing(cs, order, layer)[<<p, v>>] = p
<1> DEFINE place == Placing(cs, order, layer)
           Fit(p, v) == Unique(p) /\ Members(p) \cap v = {} /\ Respects(need, p, v)
           good == {w \in Work(layer) : Fit(w[1], w[2]) => place[w] = w[1]}
<1>1. \A p \in Seq(layer), v \in SUBSET layer :
        <<p, v>> \in good <=> (Fit(p, v) => place[<<p, v>>] = p)
  BY DEF Work
<1>9. \A p \in Seq(layer), v \in SUBSET layer : Members(p) \subseteq v => place[<<p, v>>] = <<>>
  BY NothingToPlace
<1>2. ASSUME NEW v \in SUBSET layer PROVE <<<<>>, v>> \in good
  <2>1. <<>> \in Seq(layer) /\ Members(<<>>) = {}
    BY EmptyFacts
  <2>2. place[<<<<>>, v>>] = <<>>
    <3>1. Members(<<>>) \subseteq v
      BY <2>1
    <3> HIDE DEF place
    <3> QED BY <1>9, <2>1, <3>1
  <2> HIDE DEF good, place
  <2> QED BY <1>1, <2>1, <2>2
<1>3. ASSUME NEW p \in Seq(layer), NEW v \in SUBSET layer, p # <<>>, Fit(p, v)
      PROVE  /\ Head(p) \notin v
             /\ Fit(Tail(p), v \cup {Head(p)})
             /\ (place[<<Tail(p), v \cup {Head(p)}>>] = Tail(p)) => place[<<p, v>>] = p
  <2> DEFINE c == Head(p)
             t == Tail(p)
             before == PlacedBefore(cs, order, layer, c)
             below == place[<<before, v \cup {c}>>]
             rest == place[<<t, v \cup (Members(below) \cup {c})>>]
  <2>1. /\ c \in layer /\ t \in Seq(layer) /\ p = <<c>> \o t /\ before \in Seq(layer)
        /\ c \notin v => place[<<p, v>>] = below \o <<c>> \o rest
    <3>1. PlaceCase(cs, order, layer, p, v)
      BY <1>3, PlaceCases
    <3> QED BY <3>1, Zenon DEF PlaceCase
  <2>2. Members(p) = {c} \cup Members(t)
    BY <1>3, HeadTailFacts
  <2>3. c \notin v
    BY <1>3, <2>2
  <2>4. Unique(t) /\ c \notin Members(t)
    BY <1>3, HeadOnce
  <2> HIDE DEF c, t, place, before
  <2>5. need[c] \subseteq v /\ Respects(need, t, v \cup {c})
    <3> DEFINE one == <<c>>
    <3>1. one \in Seq(layer) /\ Members(one) = {c}
      BY <2>1, SingletonFacts
    <3>2. Respects(need, one, v) <=> need[c] \subseteq v
      BY <2>1, RespectsOne
    <3>3. p = one \o t
      BY <2>1
    <3> HIDE DEF one
    <3>4. Respects(need, one \o t, v) <=>
            Respects(need, one, v) /\ Respects(need, t, v \cup Members(one))
      BY <2>1, <3>1, RespectsParts
    <3> QED BY <1>3, <3>1, <3>2, <3>3, <3>4
  <2>6. below = <<>>
    <3>1. Members(before) = need[c]
      BY <2>1 DEF Below, before
    <3>2. Members(before) \subseteq (v \cup {c}) /\ v \cup {c} \in SUBSET layer
      BY <2>1, <2>5, <3>1
    <3> QED BY <1>9, <2>1, <3>2
  <2>7. v \cup (Members(below) \cup {c}) = v \cup {c}
    BY <2>6, EmptyFacts
  <2>8. place[<<p, v>>] = <<>> \o <<c>> \o place[<<t, v \cup {c}>>]
    BY <2>1, <2>3, <2>6, <2>7
  <2>9. Fit(t, v \cup {c})
    BY <1>3, <2>2, <2>4, <2>5
  <2>10. place[<<t, v \cup {c}>>] = t => place[<<p, v>>] = p
    BY <2>1, <2>8
  <2> QED BY <2>3, <2>9, <2>10 DEF c, t
<1>4. \A p \in Seq(layer), v \in SUBSET layer :
        p # <<>> => Head(p) \in layer /\ Tail(p) \in Seq(layer)
  OBVIOUS
<1> HIDE DEF good, place, Fit
<1>5. ASSUME NEW p \in Seq(layer), NEW v \in SUBSET layer, p # <<>>, Head(p) \in v
      PROVE  <<p, v>> \in good
  BY <1>1, <1>3, <1>5
<1>6. ASSUME NEW p \in Seq(layer), NEW v \in SUBSET layer, p # <<>>,
             \A more \in SUBSET layer : <<Tail(p), v \cup more>> \in good
      PROVE  <<p, v>> \in good
  <2>1. {Head(p)} \in SUBSET layer /\ v \cup {Head(p)} \in SUBSET layer /\ Tail(p) \in Seq(layer)
    BY <1>4, <1>6
  <2>2. <<Tail(p), v \cup {Head(p)}>> \in good
    BY <1>6, <2>1
  <2>3. Fit(Tail(p), v \cup {Head(p)}) => place[<<Tail(p), v \cup {Head(p)}>>] = Tail(p)
    BY <1>1, <2>1, <2>2
  <2> QED BY <1>1, <1>3, <1>6, <2>3
<1>7. FollowsCalls(cs, order, layer, good)
  <2>1. \A p \in Seq(layer), v \in SUBSET layer :
          p # <<>> /\ Head(p) \in v /\ <<Tail(p), v>> \in good => <<p, v>> \in good
    BY <1>5
  <2>2. \A p \in Seq(layer), v \in SUBSET layer :
          /\ p # <<>> /\ Head(p) \notin v
          /\ <<PlacedBefore(cs, order, layer, Head(p)), v \cup {Head(p)}>> \in good
          /\ \A more \in SUBSET layer : <<Tail(p), v \cup more>> \in good
          => <<p, v>> \in good
    BY <1>6
  <2> QED BY <1>2, <2>1, <2>2 DEF FollowsCalls
<1>8. \A p \in Seq(layer), v \in SUBSET layer : <<p, v>> \in good
  BY <1>7, PlaceInduction
<1> QED BY <1>1, <1>8 DEF place, Fit

\* An order that place leaves as it is respects the needs.
LEMMA StayingRespects ==
  ASSUME NEW S, NEW order \in Seq(S), NEW cs, NEW layer, IsFiniteSet(layer),
         NEW need \in [layer -> SUBSET layer],
         \A c \in layer : Below(cs, order, layer, c) = need[c] /\ c \notin need[c]
  PROVE  \A p \in Seq(layer), v \in SUBSET layer :
           Unique(p) /\ Members(p) \cap v = {} /\ Placing(cs, order, layer)[<<p, v>>] = p
           => Respects(need, p, v)
<1> DEFINE place == Placing(cs, order, layer)
           Fit(p, v) == Unique(p) /\ Members(p) \cap v = {} /\ place[<<p, v>>] = p
           good == {w \in Work(layer) : Fit(w[1], w[2]) => Respects(need, w[1], w[2])}
<1>1. \A p \in Seq(layer), v \in SUBSET layer :
        <<p, v>> \in good <=> (Fit(p, v) => Respects(need, p, v))
  BY DEF Work
<1>2. ASSUME NEW v \in SUBSET layer PROVE <<<<>>, v>> \in good
  <2>1. <<>> \in Seq(layer) /\ Respects(need, <<>>, v)
    BY DEF Respects
  <2> HIDE DEF good, Fit
  <2> QED BY <1>1, <2>1
<1>3. ASSUME NEW p \in Seq(layer), NEW v \in SUBSET layer, p # <<>>, Fit(p, v)
      PROVE  /\ Head(p) \notin v
             /\ Fit(Tail(p), v \cup {Head(p)})
             /\ Respects(need, Tail(p), v \cup {Head(p)}) => Respects(need, p, v)
  <2> DEFINE c == Head(p)
             t == Tail(p)
             before == PlacedBefore(cs, order, layer, c)
             below == place[<<before, v \cup {c}>>]
             rest == place[<<t, v \cup (Members(below) \cup {c})>>]
  <2>1. /\ c \in layer /\ t \in Seq(layer) /\ p = <<c>> \o t /\ before \in Seq(layer)
        /\ c \notin v =>
             /\ place[<<p, v>>] = below \o <<c>> \o rest
             /\ PlacesAll(cs, order, layer, <<before, v \cup {c}>>, below)
             /\ PlacesAll(cs, order, layer, <<t, v \cup (Members(below) \cup {c})>>, rest)
    <3>1. PlaceCase(cs, order, layer, p, v)
      BY <1>3, PlaceCases
    <3> QED BY <3>1, Zenon DEF PlaceCase
  <2>2. Members(p) = {c} \cup Members(t)
    BY <1>3, HeadTailFacts
  <2>3. c \notin v
    BY <1>3, <2>2
  <2>4. Unique(t) /\ c \notin Members(t)
    BY <1>3, HeadOnce
  <2> HIDE DEF c, t, place, before
  <2>5. /\ below \in Seq(layer) /\ Members(below) \cap (v \cup {c}) = {}
        /\ Members(before) \subseteq (v \cup {c}) \cup Members(below)
        /\ rest \in Seq(layer)
    <3> HIDE DEF below, rest
    <3>1. /\ PlacesAll(cs, order, layer, <<before, v \cup {c}>>, below)
          /\ PlacesAll(cs, order, layer, <<t, v \cup (Members(below) \cup {c})>>, rest)
      BY <2>1, <2>3
    <3>2. <<before, v \cup {c}>>[1] = before /\ <<before, v \cup {c}>>[2] = v \cup {c}
      OBVIOUS
    <3> DEFINE w == <<before, v \cup {c}>>
    <3>3. w[1] = before /\ w[2] = v \cup {c} /\ PlacesAll(cs, order, layer, w, below)
      BY <3>1, <3>2
    <3> HIDE DEF w
    <3>4. rest \in Seq(layer)
      BY <3>1 DEF PlacesAll
    <3> QED BY <3>3, <3>4 DEF PlacesAll
  <2> HIDE DEF rest, below
  <2>6. p = below \o <<c>> \o rest
    BY <1>3, <2>1, <2>3
  <2>7. below = <<>>
    <3>1. SUFFICES ASSUME below # <<>> PROVE FALSE
      OBVIOUS
    <3>2. (below \o <<c>> \o rest)[1] = below[1] /\ below[1] \in Members(below)
      <4>1. below \in Seq(layer) /\ below # <<>> /\ <<c>> \o rest \in Seq(layer)
        BY <2>1, <2>5, <3>1
      <4> DEFINE q == <<c>> \o rest
      <4> HIDE DEF q
      <4>2. Len(below) \in Nat /\ 1 \in 1..Len(below)
        BY ONLY <4>1
      <4>3. (below \o q)[1] = below[1]
        BY ONLY <4>1, <4>2 DEF q
      <4>4. below \o <<c>> \o rest = below \o (<<c>> \o rest)
        BY <2>1, <2>5
      <4> QED BY <4>2, <4>3, <4>4 DEF Members, q
    <3>3. p[1] = c
      BY <2>1
    <3> QED BY <2>5, <2>6, <3>2, <3>3
  <2>8. Members(below) = {} /\ v \cup (Members(below) \cup {c}) = v \cup {c}
    BY <2>7, EmptyFacts
  <2>9. rest = t /\ place[<<t, v \cup {c}>>] = rest
    <3>1. <<c>> \o rest = <<c>> \o t
      BY <2>1, <2>5, <2>6, <2>7
    <3>2. rest = t
      <4>0. c \in layer /\ rest \in Seq(layer) /\ t \in Seq(layer)
        BY <2>1, <2>5
      <4>1. Tail(<<c>> \o rest) = rest /\ Tail(<<c>> \o t) = t
        BY ONLY <4>0
      <4> QED BY <3>1, <4>1
    <3> QED BY <2>8, <3>2 DEF rest
  <2>10. Fit(t, v \cup {c})
    BY <1>3, <2>2, <2>4, <2>9
  <2>11. need[c] \subseteq v
    <3>1. Members(before) = need[c] /\ c \notin need[c]
      BY <2>1 DEF Below, before
    <3> QED BY <2>5, <2>8, <3>1
  <2>12. Respects(need, t, v \cup {c}) => Respects(need, p, v)
    <3> DEFINE one == <<c>>
    <3>1. one \in Seq(layer) /\ Members(one) = {c}
      BY <2>1, SingletonFacts
    <3>2. Respects(need, one, v)
      BY <2>1, <2>11, RespectsOne
    <3>3. p = one \o t
      BY <2>1
    <3> HIDE DEF one
    <3>4. Respects(need, one \o t, v) <=>
            Respects(need, one, v) /\ Respects(need, t, v \cup Members(one))
      BY <2>1, <3>1, RespectsParts
    <3> QED BY <3>1, <3>2, <3>3, <3>4
  <2> QED BY <2>3, <2>10, <2>12 DEF c, t
<1>4. \A p \in Seq(layer), v \in SUBSET layer :
        p # <<>> => Head(p) \in layer /\ Tail(p) \in Seq(layer)
  OBVIOUS
<1> HIDE DEF good, place, Fit
<1>5. ASSUME NEW p \in Seq(layer), NEW v \in SUBSET layer, p # <<>>, Head(p) \in v
      PROVE  <<p, v>> \in good
  BY <1>1, <1>3, <1>5
<1>6. ASSUME NEW p \in Seq(layer), NEW v \in SUBSET layer, p # <<>>,
             \A more \in SUBSET layer : <<Tail(p), v \cup more>> \in good
      PROVE  <<p, v>> \in good
  <2>1. {Head(p)} \in SUBSET layer /\ v \cup {Head(p)} \in SUBSET layer /\ Tail(p) \in Seq(layer)
    BY <1>4, <1>6
  <2>2. <<Tail(p), v \cup {Head(p)}>> \in good
    BY <1>6, <2>1
  <2>3. Fit(Tail(p), v \cup {Head(p)}) => Respects(need, Tail(p), v \cup {Head(p)})
    BY <1>1, <2>1, <2>2
  <2> QED BY <1>1, <1>3, <1>6, <2>3
<1>7. FollowsCalls(cs, order, layer, good)
  <2>1. \A p \in Seq(layer), v \in SUBSET layer :
          p # <<>> /\ Head(p) \in v /\ <<Tail(p), v>> \in good => <<p, v>> \in good
    BY <1>5
  <2>2. \A p \in Seq(layer), v \in SUBSET layer :
          /\ p # <<>> /\ Head(p) \notin v
          /\ <<PlacedBefore(cs, order, layer, Head(p)), v \cup {Head(p)}>> \in good
          /\ \A more \in SUBSET layer : <<Tail(p), v \cup more>> \in good
          => <<p, v>> \in good
    BY <1>6
  <2> QED BY <1>2, <2>1, <2>2 DEF FollowsCalls
<1>8. \A p \in Seq(layer), v \in SUBSET layer : <<p, v>> \in good
  BY <1>7, PlaceInduction
<1> QED BY <1>1, <1>8 DEF place, Fit

\* A set that holds with a client those it has to be above.
Closed(need, layer, T) == T \subseteq layer /\ \A e \in T : need[e] \subseteq T

\* Some client of every set has to be above none of the set: no cycles.
Acyclic(need, layer) ==
  \A S \in (SUBSET layer) \ {{}} : \E c \in S : need[c] \cap S = {}

\* Without cycles, what a client needs, with all that those need, leaves the client out.
LEMMA LeavesItselfOut ==
  ASSUME NEW layer, NEW need \in [layer -> SUBSET layer], Acyclic(need, layer), NEW c \in layer
  PROVE  \E T \in SUBSET layer : Closed(need, layer, T) /\ need[c] \subseteq T /\ c \notin T
<1> DEFINE Reach(d) == {e \in layer : \A T \in SUBSET layer :
                                        Closed(need, layer, T) /\ d \in T => e \in T}
           T0 == UNION {Reach(e) : e \in need[c]}
           S == {d \in T0 : c \in Reach(d)}
<1>1. ASSUME NEW d \in layer
      PROVE  d \in Reach(d) /\ Reach(d) \in SUBSET layer /\ Closed(need, layer, Reach(d))
  <2>1. ASSUME NEW e \in Reach(d), NEW f \in need[e]
        PROVE  f \in Reach(d)
    <3>1. e \in layer /\ f \in layer
      OBVIOUS
    <3>2. \A T \in SUBSET layer : Closed(need, layer, T) /\ d \in T => f \in T
      BY <2>1 DEF Closed
    <3> QED BY <3>1, <3>2
  <2> QED BY <2>1 DEF Closed
<1>2. ASSUME NEW d \in layer, NEW e \in Reach(d)
      PROVE  e = d \/ \E f \in need[d] : e \in Reach(f)
  <2> DEFINE T == {d} \cup UNION {Reach(f) : f \in need[d]}
  <2>1. \A f \in need[d] : f \in layer
    OBVIOUS
  <2>2. T \in SUBSET layer
    BY <1>1, <2>1
  <2>3. ASSUME NEW g \in T
        PROVE  need[g] \subseteq T
    <3>1. CASE g = d
      BY <1>1, <2>1, <3>1
    <3>2. CASE g # d
      <4>1. PICK f \in need[d] : g \in Reach(f)
        BY <3>2
      <4>2. need[g] \subseteq Reach(f)
        <5> HIDE DEF Reach
        <5> QED BY <1>1, <2>1, <4>1 DEF Closed
      <4> HIDE DEF Reach
      <4> QED BY <4>1, <4>2
    <3> QED BY <3>1, <3>2
  <2>4. Closed(need, layer, T) /\ d \in T
    BY <2>2, <2>3 DEF Closed
  <2>5. e \in T
    <3> HIDE DEF T
    <3> QED BY <2>2, <2>4
  <2> HIDE DEF Reach
  <2> QED BY <2>5
<1> HIDE DEF Reach
<1>3. need[c] \subseteq layer
  OBVIOUS
<1>4. /\ T0 \in SUBSET layer /\ need[c] \subseteq T0
      /\ Closed(need, layer, T0)
  <2>1. \A e \in need[c] : e \in Reach(e) /\ Reach(e) \in SUBSET layer
    BY <1>1, <1>3
  <2>2. T0 \in SUBSET layer /\ need[c] \subseteq T0
    BY <2>1
  <2>3. ASSUME NEW g \in T0
        PROVE  need[g] \subseteq T0
    <3>1. PICK e \in need[c] : g \in Reach(e)
      OBVIOUS
    <3>2. need[g] \subseteq Reach(e)
      BY <1>1, <1>3, <3>1 DEF Closed
    <3> QED BY <3>1, <3>2
  <2> QED BY <2>2, <2>3 DEF Closed
<1>5. c \notin T0
  <2>1. SUFFICES ASSUME c \in T0 PROVE FALSE
    OBVIOUS
  <2>2. c \in Reach(c)
    BY <1>1
  <2>3. c \in S /\ S \in SUBSET layer /\ S # {}
    BY <1>4, <2>1, <2>2
  <2>4. PICK d \in S : need[d] \cap S = {}
    <3> HIDE DEF S
    <3> QED BY <2>3 DEF Acyclic
  <2>5. d \in T0 /\ c \in Reach(d) /\ d \in layer
    BY <1>4, <2>4
  <2>6. \E f \in need[d] : c \in Reach(f)
    <3>1. CASE d = c
      BY <2>1, <3>1
    <3>2. CASE d # c
      BY <1>2, <2>5, <3>2
    <3> QED BY <3>1, <3>2
  <2>7. PICK f \in need[d] : c \in Reach(f)
    BY <2>6
  <2>8. f \in T0
    <3> HIDE DEF T0
    <3> QED BY <1>4, <2>5, <2>7 DEF Closed
  <2> QED BY <2>4, <2>7, <2>8
<1> QED
  <2> HIDE DEF T0
  <2> QED BY <1>4, <1>5

\* Without cycles, what place returns respects the needs.
LEMMA PlacedRespects ==
  ASSUME NEW S, NEW order \in Seq(S), NEW cs, NEW layer, IsFiniteSet(layer),
         NEW need \in [layer -> SUBSET layer], Acyclic(need, layer),
         \A c \in layer : Below(cs, order, layer, c) = need[c]
  PROVE  \A p \in Seq(layer), v \in SUBSET layer :
           Respects(need, Placing(cs, order, layer)[<<p, v>>], v)
<1> DEFINE place == Placing(cs, order, layer)
           good == {w \in Work(layer) : Respects(need, place[w], w[2])}
<1>1. \A p \in Seq(layer), v \in SUBSET layer :
        <<p, v>> \in good <=> Respects(need, place[<<p, v>>], v)
  BY DEF Work
<1>2. ASSUME NEW v \in SUBSET layer PROVE <<<<>>, v>> \in good
  <2>1. \A p \in Seq(layer), u \in SUBSET layer : Members(p) \subseteq u => place[<<p, u>>] = <<>>
    BY NothingToPlace
  <2>2. <<>> \in Seq(layer) /\ Members(<<>>) \subseteq v
    BY EmptyFacts
  <2> HIDE DEF good, place
  <2>3. place[<<<<>>, v>>] = <<>>
    BY <2>1, <2>2
  <2>4. Respects(need, <<>>, v)
    BY DEF Respects
  <2> QED BY <1>1, <2>2, <2>3, <2>4
<1>9. \A c \in layer :
        \E T \in SUBSET layer : Closed(need, layer, T) /\ need[c] \subseteq T /\ c \notin T
  BY LeavesItselfOut
<1>3. ASSUME NEW p \in Seq(layer), NEW v \in SUBSET layer, p # <<>>
      PROVE  PlaceCase(cs, order, layer, p, v)
  BY <1>3, PlaceCases
<1> HIDE DEF good
<1>4. ASSUME NEW p \in Seq(layer), NEW v \in SUBSET layer,
             p # <<>>, Head(p) \in v, <<Tail(p), v>> \in good
      PROVE  <<p, v>> \in good
  <2>1. Tail(p) \in Seq(layer) /\ place[<<p, v>>] = place[<<Tail(p), v>>]
    BY <1>3, <1>4, Zenon DEF PlaceCase
  <2> HIDE DEF place
  <2> QED BY <1>1, <1>4, <2>1
<1>5. ASSUME NEW p \in Seq(layer), NEW v \in SUBSET layer, p # <<>>, Head(p) \notin v,
             <<PlacedBefore(cs, order, layer, Head(p)), v \cup {Head(p)}>> \in good,
             \A more \in SUBSET layer : <<Tail(p), v \cup more>> \in good
      PROVE  <<p, v>> \in good
  <2> DEFINE c == Head(p)
             t == Tail(p)
             before == PlacedBefore(cs, order, layer, c)
             below == place[<<before, v \cup {c}>>]
             more == Members(below) \cup {c}
             rest == place[<<t, v \cup more>>]
  <2>1. /\ c \in layer /\ t \in Seq(layer) /\ before \in Seq(layer)
        /\ place[<<p, v>>] = below \o <<c>> \o rest
        /\ PlacesAll(cs, order, layer, <<before, v \cup {c}>>, below)
        /\ PlacesAll(cs, order, layer, <<t, v \cup more>>, rest)
    <3>1. PlaceCase(cs, order, layer, p, v)
      BY <1>3, <1>5
    <3> QED BY <1>5, <3>1, Zenon DEF PlaceCase
  <2>2. <<before, v \cup {c}>> \in good /\ \A m \in SUBSET layer : <<t, v \cup m>> \in good
    BY <1>5
  <2> HIDE DEF place, before, c, t
  <2>3. Respects(need, below, v \cup {c}) /\ v \cup {c} \in SUBSET layer
    BY <1>1, <2>1, <2>2
  <2> HIDE DEF below
  <2> DEFINE w == <<before, v \cup {c}>>
  <2>4. w[1] = before /\ w[2] = v \cup {c} /\ PlacesAll(cs, order, layer, w, below)
    BY <2>1
  <2> HIDE DEF w
  <2>5. /\ below \in Seq(layer)
        /\ Members(before) \subseteq (v \cup {c}) \cup Members(below)
        /\ \A T : ClosedBelow(cs, order, layer, T) /\ Members(before) \subseteq T
                    => Members(below) \subseteq T
    BY <2>4 DEF PlacesAll
  <2>6. rest \in Seq(layer)
    <3> HIDE DEF rest
    <3> QED BY <2>1 DEF PlacesAll
  <2>7. Members(before) = need[c]
    BY <2>1 DEF Below, before
  <2>8. PICK T \in SUBSET layer : Closed(need, layer, T) /\ need[c] \subseteq T /\ c \notin T
    BY <1>9, <2>1
  <2>9. ClosedBelow(cs, order, layer, T)
    BY <2>8 DEF ClosedBelow, Closed
  <2>10. Members(below) \subseteq T
    BY <2>5, <2>7, <2>8, <2>9
  <2>11. \A e \in Members(below) : c \notin need[e]
    BY <2>8, <2>10 DEF Closed
  <2>12. Respects(need, below, v)
    BY <2>3, <2>5, <2>11, RespectsFewer
  <2>13. c \notin need[c] /\ need[c] \subseteq (v \cup Members(below))
    BY <2>5, <2>7, <2>8
  <2>14. more \in SUBSET layer
    BY <2>1, <2>5 DEF Members
  <2>15. Respects(need, rest, v \cup more)
    <3>1. <<t, v \cup more>> \in good /\ v \cup more \in SUBSET layer
      BY <2>2, <2>14
    <3> HIDE DEF more
    <3> QED BY <1>1, <2>1, <3>1 DEF rest
  <2> HIDE DEF rest
  <2> DEFINE one == <<c>>
             r == one \o rest
  <2>16. one \in Seq(layer) /\ Members(one) = {c}
    BY <2>1, SingletonFacts
  <2>17. Respects(need, one, v \cup Members(below))
    BY <2>1, <2>13, RespectsOne
  <2>18. place[<<p, v>>] = below \o r
    BY <2>1, <2>5, <2>6, SMTT(60)
  <2> HIDE DEF one
  <2>19. Respects(need, r, v \cup Members(below))
    <3>1. (v \cup Members(below)) \cup Members(one) = v \cup more
      BY <2>16
    <3>2. Respects(need, rest, (v \cup Members(below)) \cup Members(one))
      BY <2>15, <3>1
    <3> DEFINE u == v \cup Members(below)
    <3> HIDE DEF u
    <3>3. Respects(need, one, u) /\ Respects(need, rest, u \cup Members(one))
      BY <2>17, <3>2 DEF u
    <3>4. Respects(need, one \o rest, u)
      BY <2>6, <2>16, <3>3, RespectsParts
    <3> QED BY <3>4 DEF u
  <2>20. r \in Seq(layer)
    BY <2>6, <2>16
  <2> HIDE DEF r
  <2>21. Respects(need, below \o r, v)
    BY <2>5, <2>12, <2>19, <2>20, RespectsParts
  <2> QED BY <1>1, <2>18, <2>21
<1>6. FollowsCalls(cs, order, layer, good)
  <2> HIDE DEF place
  <2>1. \A p \in Seq(layer), v \in SUBSET layer :
          p # <<>> /\ Head(p) \in v /\ <<Tail(p), v>> \in good => <<p, v>> \in good
    BY <1>4
  <2>2. \A p \in Seq(layer), v \in SUBSET layer :
          /\ p # <<>> /\ Head(p) \notin v
          /\ <<PlacedBefore(cs, order, layer, Head(p)), v \cup {Head(p)}>> \in good
          /\ \A more \in SUBSET layer : <<Tail(p), v \cup more>> \in good
          => <<p, v>> \in good
    BY <1>5
  <2> QED BY <1>2, <2>1, <2>2 DEF FollowsCalls
<1>7. \A p \in Seq(layer), v \in SUBSET layer : <<p, v>> \in good
  BY <1>6, PlaceInduction
<1> HIDE DEF place
<1>8. \A p \in Seq(layer), v \in SUBSET layer : Respects(need, place[<<p, v>>], v)
  BY <1>1, <1>7
<1> QED BY <1>8 DEF place

\* What is to be visited last is placed last.
PlacedThen(place, p, q, v) ==
  place[<<p \o q, v>>] = place[<<p, v>>] \o place[<<q, v \cup Members(place[<<p, v>>])>>]

\* place works on two sequences in turn.
LEMMA PlacedInTurn ==
  ASSUME NEW S, NEW order \in Seq(S), NEW cs, NEW layer, IsFiniteSet(layer), NEW q \in Seq(layer)
  PROVE  \A p \in Seq(layer), v \in SUBSET layer :
           PlacedThen(Placing(cs, order, layer), p, q, v)
<1> DEFINE place == Placing(cs, order, layer)
           Then(p, v) == place[<<q, v \cup Members(place[<<p, v>>])>>]
           good == {w \in Work(layer) :
                      place[<<w[1] \o q, w[2]>>] = place[w] \o Then(w[1], w[2])}
<1>1. \A p \in Seq(layer), v \in SUBSET layer :
        <<p, v>> \in good <=> place[<<p \o q, v>>] = place[<<p, v>>] \o Then(p, v)
  BY DEF Work
<1>2. ASSUME NEW p \in Seq(layer), NEW v \in SUBSET layer
      PROVE  place[<<p, v>>] \in Seq(layer)
  <2>1. \A w \in Work(layer) : PlacesAll(cs, order, layer, w, place[w])
    BY PlacingLists
  <2>2. <<p, v>> \in Work(layer)
    BY DEF Work
  <2> HIDE DEF place
  <2> QED BY <2>1, <2>2 DEF PlacesAll
<1>3. ASSUME NEW v \in SUBSET layer PROVE <<<<>>, v>> \in good
  <2>1. \A p \in Seq(layer), u \in SUBSET layer : Members(p) \subseteq u => place[<<p, u>>] = <<>>
    BY NothingToPlace
  <2>2. <<>> \in Seq(layer) /\ Members(<<>>) = {} /\ <<>> \o q = q
    BY EmptyFacts
  <2> HIDE DEF good, place
  <2>3. place[<<<<>>, v>>] = <<>>
    BY <2>1, <2>2
  <2>4. Then(<<>>, v) = place[<<q, v>>]
    <3>1. v \cup {} = v
      OBVIOUS
    <3> QED BY <2>2, <2>3, <3>1
  <2> HIDE DEF Then
  <2>5. place[<<q, v>>] \in Seq(layer)
    BY <1>2
  <2>6. <<>> \o place[<<q, v>>] = place[<<q, v>>]
    BY <2>5
  <2> QED BY <1>1, <2>2, <2>3, <2>4, <2>6
<1>4. ASSUME NEW p \in Seq(layer), NEW v \in SUBSET layer, p # <<>>
      PROVE  PlaceCase(cs, order, layer, p, v)
  BY <1>4, PlaceCases
<1>5. ASSUME NEW p \in Seq(layer), p # <<>>
      PROVE  /\ p \o q \in Seq(layer) /\ p \o q # <<>>
             /\ Head(p \o q) = Head(p) /\ Tail(p \o q) = Tail(p) \o q
  <2>1. Len(p) \in Nat /\ Len(p) >= 1
    BY <1>5
  <2>2. p = <<Head(p)>> \o Tail(p) /\ Head(p) \in layer /\ Tail(p) \in Seq(layer)
    BY <1>5
  <2> DEFINE c == Head(p)
             t == Tail(p)
  <2> HIDE DEF c, t
  <2>3. c \in layer /\ t \in Seq(layer) /\ q \in Seq(layer)
    BY <2>2 DEF c, t
  <2>4. /\ (<<c>> \o t) \o q = <<c>> \o (t \o q) /\ t \o q \in Seq(layer)
    BY ONLY <2>3
  <2> DEFINE u == t \o q
  <2> HIDE DEF u
  <2>5. c \in layer /\ u \in Seq(layer)
    BY <2>3, <2>4 DEF u
  <2>6. /\ <<c>> \o u \in Seq(layer) /\ <<c>> \o u # <<>>
        /\ Head(<<c>> \o u) = c /\ Tail(<<c>> \o u) = u
    BY ONLY <2>5
  <2>7. p \o q = <<c>> \o u
    BY <2>2, <2>4 DEF c, t, u
  <2> QED BY <2>6, <2>7 DEF c, t, u
<1> HIDE DEF good
<1>6. ASSUME NEW p \in Seq(layer), NEW v \in SUBSET layer,
             p # <<>>, Head(p) \in v, <<Tail(p), v>> \in good
      PROVE  <<p, v>> \in good
  <2>1. Tail(p) \in Seq(layer) /\ place[<<p, v>>] = place[<<Tail(p), v>>]
    BY <1>4, <1>6, Zenon DEF PlaceCase
  <2>2. place[<<p \o q, v>>] = place[<<Tail(p) \o q, v>>]
    <3>1. PlaceCase(cs, order, layer, p \o q, v)
      BY <1>4, <1>5, <1>6
    <3>2. Head(p \o q) \in v => place[<<p \o q, v>>] = place[<<Tail(p \o q), v>>]
      BY <3>1, Zenon DEF PlaceCase
    <3> HIDE DEF place
    <3> QED BY <1>5, <1>6, <3>2
  <2> HIDE DEF place
  <2>3. place[<<Tail(p) \o q, v>>] = place[<<Tail(p), v>>] \o Then(Tail(p), v)
    BY <1>1, <1>6, <2>1
  <2>4. Then(Tail(p), v) = Then(p, v)
    BY <2>1
  <2> HIDE DEF Then
  <2> QED BY <1>1, <2>1, <2>2, <2>3, <2>4
<1>7. ASSUME NEW p \in Seq(layer), NEW v \in SUBSET layer, p # <<>>, Head(p) \notin v,
             \A more \in SUBSET layer : <<Tail(p), v \cup more>> \in good
      PROVE  <<p, v>> \in good
  <2> DEFINE c == Head(p)
             t == Tail(p)
             below == place[<<PlacedBefore(cs, order, layer, c), v \cup {c}>>]
             more == Members(below) \cup {c}
             rest == place[<<t, v \cup more>>]
             last == place[<<q, (v \cup more) \cup Members(rest)>>]
  <2>1. /\ c \in layer /\ t \in Seq(layer) /\ PlacedBefore(cs, order, layer, c) \in Seq(layer)
        /\ place[<<p, v>>] = below \o <<c>> \o rest
    <3>1. PlaceCase(cs, order, layer, p, v)
      BY <1>4, <1>7
    <3> QED BY <1>7, <3>1, Zenon DEF PlaceCase
  <2>2. place[<<p \o q, v>>] = below \o <<c>> \o place[<<t \o q, v \cup more>>]
    <3> DEFINE pq == p \o q
    <3>1. PlaceCase(cs, order, layer, pq, v)
      BY <1>4, <1>5, <1>7
    <3>2. Head(pq) = c /\ Tail(pq) = t \o q
      BY <1>5, <1>7
    <3> HIDE DEF pq, c, t
    <3>3. Head(pq) \notin v
      BY <1>7, <3>2 DEF c
    <3>4. place[<<pq, v>>] =
            place[<<PlacedBefore(cs, order, layer, Head(pq)), v \cup {Head(pq)}>>]
            \o <<Head(pq)>>
            \o place[<<Tail(pq), v \cup (Members(place[<<PlacedBefore(cs, order, layer, Head(pq)),
                                                         v \cup {Head(pq)}>>])
                                         \cup {Head(pq)})>>]
      BY <3>1, <3>3, Zenon DEF PlaceCase
    <3> HIDE DEF place
    <3> QED BY <3>2, <3>4, Zenon DEF pq
  <2> HIDE DEF c, t
  <2>3. below \in Seq(layer) /\ more \in SUBSET layer
    <3>1. v \cup {c} \in SUBSET layer
      BY <2>1
    <3>2. below \in Seq(layer)
      BY <1>2, <2>1, <3>1
    <3> HIDE DEF below
    <3> QED BY <2>1, <3>2 DEF Members
  <2>4. rest \in Seq(layer)
    BY <1>2, <2>1, <2>3
  <2>5. last \in Seq(layer)
    <3> HIDE DEF rest, more
    <3>1. (v \cup more) \cup Members(rest) \in SUBSET layer
      BY <2>3, <2>4 DEF Members
    <3> QED BY <1>2, <3>1
  <2>6. place[<<t \o q, v \cup more>>] = rest \o last
    <3>1. <<t, v \cup more>> \in good /\ v \cup more \in SUBSET layer
      <4> HIDE DEF more
      <4> QED BY <1>7, <2>3 DEF t
    <3> HIDE DEF place, more
    <3>2. place[<<t \o q, v \cup more>>] = place[<<t, v \cup more>>] \o Then(t, v \cup more)
      BY <1>1, <2>1, <3>1
    <3> QED BY <3>2
  <2>7. Then(p, v) = last
    <3> HIDE DEF below, rest, place
    <3>1. Members(below \o <<c>> \o rest) = more \cup Members(rest)
      <4> DEFINE one == <<c>>
                 bc == below \o one
      <4>1. one \in Seq(layer) /\ Members(one) = {c}
        BY <2>1, SingletonFacts
      <4> HIDE DEF one
      <4>2. bc \in Seq(layer) /\ Members(bc) = Members(below) \cup {c}
        BY <2>3, <4>1, ConcatFacts
      <4> HIDE DEF bc
      <4>3. Members(bc \o rest) = Members(bc) \cup Members(rest)
        BY <2>4, <4>2, ConcatFacts
      <4> QED BY <4>2, <4>3 DEF bc, one
    <3>2. v \cup Members(place[<<p, v>>]) = (v \cup more) \cup Members(rest)
      BY <2>1, <3>1
    <3> QED BY <3>2
  <2> HIDE DEF below, rest, last, more, Then
  <2>8. place[<<p \o q, v>>] = (below \o <<c>> \o rest) \o last
    <3> HIDE DEF place
    <3>1. place[<<p \o q, v>>] = below \o <<c>> \o (rest \o last)
      BY <2>2, <2>6
    <3>2. below \in Seq(layer) /\ c \in layer /\ rest \in Seq(layer) /\ last \in Seq(layer)
      BY <2>1, <2>3, <2>4, <2>5
    <3>3. below \o <<c>> \o (rest \o last) = (below \o <<c>> \o rest) \o last
      BY ONLY <3>2, SMTT(60)
    <3> QED BY <3>1, <3>3
  <2> HIDE DEF place
  <2> QED BY <1>1, <2>1, <2>7, <2>8
<1>8. FollowsCalls(cs, order, layer, good)
  <2> HIDE DEF place, Then
  <2>1. \A p \in Seq(layer), v \in SUBSET layer :
          p # <<>> /\ Head(p) \in v /\ <<Tail(p), v>> \in good => <<p, v>> \in good
    BY <1>6
  <2>2. \A p \in Seq(layer), v \in SUBSET layer :
          /\ p # <<>> /\ Head(p) \notin v
          /\ <<PlacedBefore(cs, order, layer, Head(p)), v \cup {Head(p)}>> \in good
          /\ \A more \in SUBSET layer : <<Tail(p), v \cup more>> \in good
          => <<p, v>> \in good
    BY <1>7
  <2> QED BY <1>3, <2>1, <2>2 DEF FollowsCalls
<1>9. \A p \in Seq(layer), v \in SUBSET layer : <<p, v>> \in good
  BY <1>8, PlaceInduction
<1> HIDE DEF place
<1>10. \A p \in Seq(layer), v \in SUBSET layer :
         place[<<p \o q, v>>] = place[<<p, v>>] \o Then(p, v)
  BY <1>1, <1>9
<1> QED
  <2>1. \A p \in Seq(layer), v \in SUBSET layer : PlacedThen(place, p, q, v)
    BY <1>10 DEF PlacedThen
  <2> QED BY <2>1 DEF place

\* What is visited last is placed last, after the rest of the layer.
PlacedLast(place, layer, p, c) ==
  \E a \in Seq(layer) : /\ Members(a) = layer \ {c} /\ Unique(a)
                        /\ place[<<p \o <<c>>, {}>>] = a \o <<c>>

\* A client nobody in its layer has to be above is placed last if it is visited last.
LEMMA LeafPlacedLast ==
  ASSUME NEW S, NEW order \in Seq(S), NEW cs, NEW layer, IsFiniteSet(layer), NEW c \in layer,
         NEW p \in Seq(layer), Members(p) = layer \ {c},
         \A d \in layer : c \notin Below(cs, order, layer, d)
  PROVE  PlacedLast(Placing(cs, order, layer), layer, p, c)
<1> DEFINE place == Placing(cs, order, layer)
           one == <<c>>
           a == place[<<p, {}>>]
           b == place[<<one, Members(a)>>]
           w == <<p, {}>>
           u == <<one, Members(a)>>
<1>1. one \in Seq(layer) /\ Members(one) = {c} /\ Unique(one)
  BY SingletonFacts
<1>2. \A x \in Work(layer) : PlacesAll(cs, order, layer, x, place[x])
  BY PlacingLists
<1>3. \A x \in Seq(layer), v \in SUBSET layer :
        place[<<x \o one, v>>] =
          place[<<x, v>>] \o place[<<one, v \cup Members(place[<<x, v>>])>>]
  <2> HIDE DEF one
  <2>1. \A x \in Seq(layer), v \in SUBSET layer : PlacedThen(place, x, one, v)
    BY <1>1, PlacedInTurn
  <2> QED BY <2>1 DEF PlacedThen
<1> HIDE DEF place
<1>4. place[<<p \o one, {}>>] = a \o b
  <2>1. place[<<p \o one, {}>>] = a \o place[<<one, {} \cup Members(a)>>]
    BY <1>3
  <2>2. {} \cup Members(a) = Members(a)
    OBVIOUS
  <2> QED BY <2>1, <2>2
<1>5. w \in Work(layer) /\ PlacesAll(cs, order, layer, w, a) /\ w[1] = p /\ w[2] = {}
  <2>1. w \in Work(layer)
    BY DEF Work
  <2> QED BY <1>2, <2>1
<1> HIDE DEF w, a, one
<1>6. /\ a \in Seq(layer) /\ Unique(a) /\ Members(p) \subseteq Members(a)
      /\ \A T : ClosedBelow(cs, order, layer, T) /\ Members(p) \subseteq T => Members(a) \subseteq T
  BY <1>5 DEF PlacesAll
<1>7. Members(a) = layer \ {c}
  <2>1. \A d \in layer : Below(cs, order, layer, d) \subseteq layer
    <3> SUFFICES ASSUME NEW d \in layer PROVE Below(cs, order, layer, d) \subseteq layer
      OBVIOUS
    <3>1. PlacedBefore(cs, order, layer, d) \in Seq(layer)
      BY PlacedBeforeFacts
    <3> DEFINE before == PlacedBefore(cs, order, layer, d)
    <3> HIDE DEF before
    <3>2. Members(before) \subseteq layer
      BY <3>1 DEF Members, before
    <3> QED BY <3>2 DEF Below, before
  <2>2. ClosedBelow(cs, order, layer, layer \ {c})
    BY <2>1 DEF ClosedBelow
  <2> QED BY <1>6, <2>2
<1>8. u \in Work(layer) /\ PlacesAll(cs, order, layer, u, b) /\ u[1] = one /\ u[2] = Members(a)
  <2>1. u \in Work(layer)
    BY <1>1, <1>7 DEF Work
  <2> QED BY <1>2, <2>1
<1> HIDE DEF u, b
<1>9. b \in Seq(layer) /\ Unique(b) /\ Members(b) = {c}
  <2>1. /\ b \in Seq(layer) /\ Unique(b) /\ Members(b) \cap Members(a) = {}
        /\ Members(one) \subseteq Members(a) \cup Members(b)
    BY <1>8 DEF PlacesAll
  <2>2. Members(b) \subseteq layer
    BY <2>1 DEF Members
  <2> QED BY <1>1, <1>7, <2>1, <2>2
<1>10. b = <<c>>
  <2>1. Len(b) = Cardinality({c}) /\ Len(b) \in Nat
    <3>1. Cardinality(Members(b)) = Len(b)
      BY <1>9, UniqueLength
    <3> QED BY <1>9, <3>1
  <2>2. Len(b) = 1
    BY <2>1, FS_Singleton
  <2>3. b[1] \in Members(b)
    BY <2>2 DEF Members
  <2>4. b[1] = c
    BY <1>9, <2>3
  <2> QED BY <1>9, <2>2, <2>4
<1> QED
  <2>1. \E x \in Seq(layer) : /\ Members(x) = layer \ {c} /\ Unique(x)
                              /\ place[<<p \o <<c>>, {}>>] = x \o <<c>>
    BY <1>4, <1>6, <1>7, <1>10 DEF one
  <2> QED BY <2>1 DEF place, PlacedLast

(* ---- The layers of the policy order ---- *)
\* The position of a client in a stack.
LEMMA PositionIn ==
  ASSUME NEW M, NEW s \in Stacks(M), NEW c \in M
  PROVE  Position(s, c) \in 1..Len(s) /\ s[Position(s, c)] = c
<1>1. Members(s) = M
  BY DEF Stacks, Enumerates
<1>2. \E i \in 1..Len(s) : s[i] = c
  BY <1>1 DEF Members
<1> QED BY <1>2 DEF Position

\* Of two stacks on top of each other, the clients of the upper one are above, and those
\* of one stack keep their order.
JoinedAbove(A, B, a, b, s) ==
  /\ \A c \in B, d \in A : Above(s, c, d)
  /\ \A c, d \in A : Above(a, c, d) => Above(s, c, d)
  /\ \A c, d \in B : Above(b, c, d) => Above(s, c, d)

\* So it is for any two stacks of different clients.
LEMMA JoinedStacks ==
  ASSUME NEW A, NEW B, A \cap B = {}, NEW a \in Stacks(A), NEW b \in Stacks(B)
  PROVE  JoinedAbove(A, B, a, b, a \o b)
<1> DEFINE s == a \o b
           m == Len(a)
           n == Len(b)
           C == A \cup B
<1>1. a \in Seq(A) /\ b \in Seq(B)
  BY DEF Stacks
<1>2. s \in Stacks(C)
  BY StacksJoin
<1>3. s \in Seq(C) /\ Unique(s)
  BY <1>2 DEF Stacks, Enumerates
<1>4. /\ m \in Nat /\ n \in Nat /\ Len(s) = m + n
      /\ \A i \in 1..(m + n) : s[i] = IF i <= m THEN a[i] ELSE b[i - m]
  BY <1>1
<1>5. ASSUME NEW c \in A
      PROVE  Position(a, c) \in 1..m /\ Position(s, c) = Position(a, c)
  <2> DEFINE i == Position(a, c)
  <2>1. i \in 1..m /\ a[i] = c
    BY PositionIn
  <2> HIDE DEF i, s, m, n
  <2>2. i \in 1..Len(s) /\ s[i] = c
    BY <1>4, <2>1
  <2>3. Position(s, c) = i
    BY <1>3, <2>2, PositionOf
  <2> QED BY <2>1, <2>3 DEF i
<1>6. ASSUME NEW c \in B
      PROVE  Position(b, c) \in 1..n /\ Position(s, c) = m + Position(b, c)
  <2> DEFINE i == Position(b, c)
  <2>1. i \in 1..n /\ b[i] = c
    BY PositionIn
  <2> HIDE DEF i, s, m, n
  <2>2. m + i \in 1..Len(s) /\ s[m + i] = c
    <3>1. m + i \in 1..(m + n) /\ ~ (m + i <= m) /\ (m + i) - m = i
      BY <1>4, <2>1
    <3> QED BY <1>4, <2>1, <3>1
  <2>3. Position(s, c) = m + i
    BY <1>3, <2>2, PositionOf
  <2> QED BY <2>1, <2>3 DEF i
<1> HIDE DEF s, m, n
<1>7. \A c \in B, d \in A : Above(s, c, d)
  <2> SUFFICES ASSUME NEW c \in B, NEW d \in A PROVE Above(s, c, d)
    OBVIOUS
  <2> QED BY <1>4, <1>5, <1>6 DEF Above
<1>8. \A c, d \in A : Above(a, c, d) => Above(s, c, d)
  BY <1>5 DEF Above
<1>9. \A c, d \in B : Above(b, c, d) => Above(s, c, d)
  <2> SUFFICES ASSUME NEW c \in B, NEW d \in B, Above(b, c, d) PROVE Above(s, c, d)
    OBVIOUS
  <2> QED BY <1>4, <1>6 DEF Above
<1> QED BY <1>7, <1>8, <1>9 DEF JoinedAbove, s

\* The clients of the lowest layers, and an order of them that has the layers at[1], ...,
\* at[l] on top of each other.
UpTo(cs, focus, l) == {c \in DOMAIN cs : EffectiveLayer(cs, focus, c) <= l}
Layered(cs, focus, l, s, at) ==
  /\ s \in Stacks(UpTo(cs, focus, l))
  /\ \A k \in 1..l : Keep(s, OfLayer(cs, focus, k)) = at[k]
  /\ \A c, d \in UpTo(cs, focus, l) :
       EffectiveLayer(cs, focus, d) < EffectiveLayer(cs, focus, c) => Above(s, c, d)
  /\ \A k \in 1..l : \A c, d \in OfLayer(cs, focus, k) : Above(at[k], c, d) => Above(s, c, d)

\* One more layer on top of those below it.
LEMMA LayerAdded ==
  ASSUME NEW M, NEW cs \in [M -> Shape], NEW focus, NEW l \in 0..5, NEW s, NEW at,
         Layered(cs, focus, l, s, at), at[l + 1] \in Stacks(OfLayer(cs, focus, l + 1))
  PROVE  Layered(cs, focus, l + 1, s \o at[l + 1], at)
<1> DEFINE of(k) == OfLayer(cs, focus, k)
           layer(c) == EffectiveLayer(cs, focus, c)
           A == UpTo(cs, focus, l)
           B == of(l + 1)
           r == at[l + 1]
           u == s \o r
<1>1. DOMAIN cs = M /\ \A c \in M : layer(c) \in 1..6
  BY LayerIsHighest
<1>2. UpTo(cs, focus, l + 1) = A \cup B /\ A \cap B = {}
  <2>1. \A c \in M : layer(c) <= l + 1 <=> (layer(c) <= l \/ layer(c) = l + 1)
    BY <1>1
  <2>2. \A c \in M : ~ (layer(c) <= l /\ layer(c) = l + 1)
    BY <1>1
  <2> HIDE DEF layer
  <2> QED BY <1>1, <2>1, <2>2 DEF UpTo, OfLayer, layer
<1>3. /\ \A k \in 1..l : of(k) \subseteq A /\ of(k) \cap B = {}
      /\ \A k \in 1..(l + 1) : k \in 1..l \/ k = l + 1
  <2>1. ASSUME NEW k \in 1..l, NEW c \in of(k)
        PROVE  c \in A /\ c \notin B
    <3>1. k <= l /\ k # l + 1
      OBVIOUS
    <3> QED BY <3>1 DEF OfLayer, UpTo
  <2>2. \A k \in 1..(l + 1) : k \in 1..l \/ k = l + 1
    OBVIOUS
  <2> HIDE DEF of
  <2> QED BY <2>1, <2>2
<1>4. s \in Stacks(A) /\ r \in Stacks(B)
  BY DEF Layered
<1>5. /\ s \in Seq(A) /\ Members(s) = A /\ r \in Seq(B) /\ Members(r) = B
  BY <1>4 DEF Stacks, Enumerates
<1>6. u \in Stacks(A \cup B) /\ JoinedAbove(A, B, s, r, u)
  BY <1>2, <1>4, StacksJoin, JoinedStacks
<1>7. ASSUME NEW k \in 1..(l + 1)
      PROVE  Keep(u, of(k)) = at[k]
  <2> DEFINE C == A \cup B
  <2>1. s \in Seq(C) /\ r \in Seq(C)
    BY <1>5, OverMembers
  <2> HIDE DEF C, of, A, B, r
  <2>2. Keep(s \o r, of(k)) = Keep(s, of(k)) \o Keep(r, of(k))
    BY <2>1, KeepConcat
  <2>3. CASE k \in 1..l
    <3>1. Keep(s, of(k)) = at[k]
      BY <2>3 DEF Layered, of
    <3>2. Keep(r, of(k)) = <<>>
      <4>1. Members(r) \cap of(k) = {}
        BY <1>3, <1>5, <2>3
      <4> QED BY <2>1, <4>1, KeepNone
    <3>3. Keep(s, of(k)) \in Seq(C)
      BY <2>1, KeepFacts
    <3>4. Keep(s, of(k)) \o <<>> = Keep(s, of(k))
      BY <3>3
    <3> QED BY <2>2, <3>1, <3>2, <3>4
  <2>4. CASE k = l + 1
    <3>1. of(k) = B /\ at[k] = r
      BY <2>4 DEF B, r
    <3>2. Keep(r, of(k)) = r
      BY <1>5, <2>1, <3>1, KeepAll
    <3>3. Keep(s, of(k)) = <<>>
      BY <1>2, <1>5, <2>1, <3>1, KeepNone
    <3>4. <<>> \o r = r
      BY <2>1
    <3> QED BY <2>2, <3>1, <3>2, <3>3, <3>4
  <2> QED BY <1>3, <2>3, <2>4
<1>8. ASSUME NEW c \in A \cup B, NEW d \in A \cup B, layer(d) < layer(c)
      PROVE  Above(u, c, d)
  <2>1. CASE c \in A /\ d \in A
    BY <1>6, <1>8, <2>1 DEF Layered, JoinedAbove
  <2>2. CASE c \in B /\ d \in A
    BY <1>6, <2>2 DEF JoinedAbove
  <2>3. CASE d \in B
    <3>1. layer(d) = l + 1 /\ (layer(c) <= l \/ layer(c) = l + 1) /\ layer(c) \in 1..6
      BY <1>1, <2>3 DEF OfLayer, UpTo
    <3> HIDE DEF layer
    <3> QED BY <1>8, <3>1
  <2> QED BY <2>1, <2>2, <2>3
<1>9. ASSUME NEW k \in 1..(l + 1), NEW c \in of(k), NEW d \in of(k), Above(at[k], c, d)
      PROVE  Above(u, c, d)
  <2>1. CASE k \in 1..l
    <3>1. c \in A /\ d \in A
      BY <1>3, <2>1
    <3>2. Above(s, c, d)
      BY <1>9, <2>1 DEF Layered
    <3> QED BY <1>6, <3>1, <3>2 DEF JoinedAbove
  <2>2. CASE k = l + 1
    BY <1>6, <1>9, <2>2 DEF JoinedAbove
  <2> QED BY <1>3, <2>1, <2>2
<1> HIDE DEF A, B, of, layer, u, r
<1>10. /\ u \in Stacks(UpTo(cs, focus, l + 1))
       /\ \A k \in 1..(l + 1) : Keep(u, of(k)) = at[k]
       /\ \A c, d \in UpTo(cs, focus, l + 1) : layer(d) < layer(c) => Above(u, c, d)
       /\ \A k \in 1..(l + 1) : \A c, d \in of(k) : Above(at[k], c, d) => Above(u, c, d)
  BY <1>2, <1>6, <1>7, <1>8, <1>9
<1> QED BY <1>10 DEF Layered, of, layer, u, r

\* The policy order's layers.
Layers(cs, order, focus) ==
  [l \in 1..6 |-> PlaceLayer(cs, order, OfLayer(cs, focus, l))]

\* The policy order has its clients layer by layer.
LEMMA PolicyLayered ==
  ASSUME NEW M, NEW cs \in [M -> Shape], NEW order \in Stacks(M), NEW focus
  PROVE  /\ Layered(cs, focus, 6, PolicyOrder(cs, order, focus), Layers(cs, order, focus))
         /\ UpTo(cs, focus, 6) = M
         /\ \A l \in 1..6 : Layers(cs, order, focus)[l] \in Stacks(OfLayer(cs, focus, l))
<1> DEFINE at == Layers(cs, order, focus)
<1>1. DOMAIN cs = M /\ \A c \in M : EffectiveLayer(cs, focus, c) \in 1..6
  BY LayerIsHighest
<1>2. \A l : OfLayer(cs, focus, l) \subseteq M
  BY <1>1 DEF OfLayer
<1>3. \A l \in 1..6 : at[l] = PlaceLayer(cs, order, OfLayer(cs, focus, l))
  BY DEF Layers
<1> HIDE DEF at
<1>4. \A l \in 1..6 : at[l] \in Stacks(OfLayer(cs, focus, l))
  BY <1>2, <1>3, PlaceLayerLists
<1>5. \A c \in M : EffectiveLayer(cs, focus, c) <= 6 /\ ~ (EffectiveLayer(cs, focus, c) <= 0)
  BY <1>1
<1>6. UpTo(cs, focus, 6) = M /\ UpTo(cs, focus, 0) = {}
  BY <1>1, <1>5 DEF UpTo
<1>7. Layered(cs, focus, 0, <<>>, at)
  <2>1. <<>> \in Stacks({})
    <3>1. <<>> \in Seq({}) /\ Members(<<>>) = {} /\ Unique(<<>>)
      BY EmptyFacts
    <3> QED BY <3>1 DEF Stacks, Enumerates
  <2> QED
    <3>1. \A k \in 1..0 : FALSE
      OBVIOUS
    <3>2. <<>> \in Stacks(UpTo(cs, focus, 0))
      BY <1>6, <2>1
    <3>3. \A c \in UpTo(cs, focus, 0) : FALSE
      BY <1>6
    <3> QED BY <3>1, <3>2, <3>3, Zenon DEF Layered
<1>8. ASSUME NEW l \in 0..5, NEW s, Layered(cs, focus, l, s, at)
      PROVE  Layered(cs, focus, l + 1, s \o at[l + 1], at)
  <2>1. l + 1 \in 1..6
    OBVIOUS
  <2>2. at[l + 1] \in Stacks(OfLayer(cs, focus, l + 1))
    BY <1>4, <2>1
  <2> QED BY <1>8, <2>2, LayerAdded
<1>9. Layered(cs, focus, 1, <<>> \o at[1], at)
  <2>1. 0 \in 0..5 /\ 0 + 1 = 1
    OBVIOUS
  <2>2. Layered(cs, focus, 0 + 1, <<>> \o at[0 + 1], at)
    BY <1>7, <1>8, <2>1
  <2> QED BY <2>1, <2>2
<1>10. <<>> \o at[1] = at[1]
  BY <1>4 DEF Stacks
<1>11. Layered(cs, focus, 1, at[1], at)
  BY <1>9, <1>10
<1>12. Layered(cs, focus, 1 + 1, at[1] \o at[1 + 1], at)
  BY <1>8, <1>11
<1>13. Layered(cs, focus, 2, at[1] \o at[2], at)
  BY <1>12
<1>14. Layered(cs, focus, 2 + 1, at[1] \o at[2] \o at[2 + 1], at)
  BY <1>8, <1>13
<1>15. Layered(cs, focus, 3, at[1] \o at[2] \o at[3], at)
  BY <1>14
<1>16. Layered(cs, focus, 3 + 1, at[1] \o at[2] \o at[3] \o at[3 + 1], at)
  BY <1>8, <1>15
<1>17. Layered(cs, focus, 4, at[1] \o at[2] \o at[3] \o at[4], at)
  BY <1>16
<1>18. Layered(cs, focus, 4 + 1, at[1] \o at[2] \o at[3] \o at[4] \o at[4 + 1], at)
  BY <1>8, <1>17
<1>19. Layered(cs, focus, 5, at[1] \o at[2] \o at[3] \o at[4] \o at[5], at)
  BY <1>18
<1>20. Layered(cs, focus, 5 + 1, at[1] \o at[2] \o at[3] \o at[4] \o at[5] \o at[5 + 1], at)
  BY <1>8, <1>19
<1>21. Layered(cs, focus, 6, at[1] \o at[2] \o at[3] \o at[4] \o at[5] \o at[6], at)
  BY <1>20
<1>22. PolicyOrder(cs, order, focus) = at[1] \o at[2] \o at[3] \o at[4] \o at[5] \o at[6]
  <2>1. /\ at[1] = PlaceLayer(cs, order, OfLayer(cs, focus, 1))
        /\ at[2] = PlaceLayer(cs, order, OfLayer(cs, focus, 2))
        /\ at[3] = PlaceLayer(cs, order, OfLayer(cs, focus, 3))
        /\ at[4] = PlaceLayer(cs, order, OfLayer(cs, focus, 4))
        /\ at[5] = PlaceLayer(cs, order, OfLayer(cs, focus, 5))
        /\ at[6] = PlaceLayer(cs, order, OfLayer(cs, focus, 6))
    BY <1>3
  <2> QED BY <2>1, PolicyOrderIs, Zenon
<1> QED BY <1>4, <1>6, <1>21, <1>22 DEF at

\* What a layer's clients need is what they demand.
LEMMA NeedsOfLayer ==
  ASSUME NEW M, NEW cs \in [M -> Shape], NEW order \in Stacks(M), NEW focus, NEW l
  PROVE  LET L == OfLayer(cs, focus, l)
         IN /\ L \in SUBSET M /\ IsFiniteSet(L)
            /\ Needs(cs, L) \in [L -> SUBSET L]
            /\ \A c \in L : Needs(cs, L)[c] = Demands(cs, focus, c)
            /\ \A c \in L : Below(cs, order, L, c) = Needs(cs, L)[c]
            /\ Keep(order, L) \in Seq(L) /\ Members(Keep(order, L)) = L
            /\ Unique(Keep(order, L))
            /\ order \in Seq(M)
<1> DEFINE L == OfLayer(cs, focus, l)
           kept == Keep(order, L)
<1>1. order \in Seq(M) /\ Members(order) = M /\ Unique(order)
  BY DEF Stacks, Enumerates
<1>2. L \in SUBSET M
  BY DEF OfLayer
<1>3. IsFiniteSet(L)
  BY <1>1, <1>2, MembersFinite, FS_Subset
<1>4. Needs(cs, L) \in [L -> SUBSET L]
  <2> HIDE DEF L
  <2> QED BY DEF Needs
<1>5. \A c \in L : Needs(cs, L)[c] = Demands(cs, focus, c)
  BY DEF Needs, Demands, OfLayer
<1> HIDE DEF L
<1>6. \A c \in L : Below(cs, order, L, c) = Needs(cs, L)[c]
  BY <1>2, BelowIs
<1>7. kept \in Seq(M) /\ Members(kept) = Members(order) \cap L /\ Unique(kept)
  BY <1>1, KeepFacts
<1>8. Members(kept) = L
  BY <1>1, <1>2, <1>7
<1>9. kept \in Seq(L)
  <2> HIDE DEF kept
  <2> QED BY <1>7, <1>8, OverMembers
<1> QED BY <1>1, <1>2, <1>3, <1>4, <1>5, <1>6, <1>7, <1>8, <1>9 DEF L, kept

\* No layer's needs are cyclic if the demands can be met.
LEMMA LayerAcyclic ==
  ASSUME NEW M, NEW cs \in [M -> Shape], NEW order \in Stacks(M), NEW focus, NEW l,
         Orderable(cs, focus)
  PROVE  Acyclic(Needs(cs, OfLayer(cs, focus, l)), OfLayer(cs, focus, l))
<1> DEFINE L == OfLayer(cs, focus, l)
<1>1. L \in SUBSET M /\ \A c \in L : Needs(cs, L)[c] = Demands(cs, focus, c)
  BY NeedsOfLayer
<1> HIDE DEF L
<1>2. ASSUME NEW S \in (SUBSET L) \ {{}}
      PROVE  \E c \in S : Needs(cs, L)[c] \cap S = {}
  <2>1. S \in (SUBSET DOMAIN cs) \ {{}}
    BY <1>1
  <2>2. PICK c \in S : Demands(cs, focus, c) \cap S = {}
    BY <2>1 DEF Orderable
  <2> QED BY <1>1, <2>2
<1> QED BY <1>2 DEF Acyclic, L

\* Enforcing twice changes nothing, if the demands can be met.
LEMMA PolicyRepeats ==
  ASSUME NEW M, NEW cs \in [M -> Shape], NEW order \in Stacks(M), NEW focus,
         Orderable(cs, focus)
  PROVE  IsSettled(cs, PolicyOrder(cs, order, focus), focus)
<1> DEFINE r == PolicyOrder(cs, order, focus)
           at == Layers(cs, order, focus)
           again == Layers(cs, r, focus)
<1>1. r \in Stacks(M)
  BY PolicyOrderLists
<1>2. /\ Layered(cs, focus, 6, r, at)
      /\ \A l \in 1..6 : at[l] \in Stacks(OfLayer(cs, focus, l))
  BY PolicyLayered
<1> HIDE DEF r
<1>3. ASSUME NEW l \in 1..6
      PROVE  again[l] = at[l]
  <2> DEFINE L == OfLayer(cs, focus, l)
             need == Needs(cs, L)
             kept == Keep(order, L)
  <2>1. /\ L \in SUBSET M /\ IsFiniteSet(L) /\ need \in [L -> SUBSET L]
        /\ \A c \in L : Below(cs, order, L, c) = need[c]
        /\ kept \in Seq(L) /\ order \in Seq(M)
    BY NeedsOfLayer
  <2>2. r \in Seq(M) /\ \A c \in L : Below(cs, r, L, c) = need[c]
    BY <1>1, NeedsOfLayer
  <2>3. Acyclic(need, L)
    BY LayerAcyclic
  <2>4. at[l] = Placing(cs, order, L)[<<kept, {}>>]
    BY PlaceLayerIs DEF Layers
  <2>5. again[l] = Placing(cs, r, L)[<<Keep(r, L), {}>>]
    BY PlaceLayerIs DEF Layers
  <2>6. Keep(r, L) = at[l] /\ at[l] \in Stacks(L)
    BY <1>2 DEF Layered
  <2> HIDE DEF need, kept, L, at, again
  <2>7. \A p \in Seq(L), v \in SUBSET L : Respects(need, Placing(cs, order, L)[<<p, v>>], v)
    BY <2>1, <2>3, PlacedRespects
  <2>8. Respects(need, at[l], {})
    BY <2>1, <2>4, <2>7
  <2>9. \A p \in Seq(L), v \in SUBSET L :
          Unique(p) /\ Members(p) \cap v = {} /\ Respects(need, p, v)
          => Placing(cs, r, L)[<<p, v>>] = p
    <3>1. /\ IsFiniteSet(L) /\ need \in [L -> SUBSET L] /\ r \in Seq(M)
          /\ \A c \in L : Below(cs, r, L, c) = need[c]
      BY <2>1, <2>2
    <3> QED BY ONLY <3>1, RespectfulStays, SMTT(60)
  <2>10. at[l] \in Seq(L) /\ Unique(at[l])
    BY <2>6 DEF Stacks, Enumerates
  <2>11. {} \in SUBSET L /\ Members(at[l]) \cap {} = {}
    OBVIOUS
  <2>12. Placing(cs, r, L)[<<at[l], {}>>] = at[l]
    BY <2>8, <2>9, <2>10, <2>11
  <2> QED BY <2>5, <2>6, <2>12
<1>4. \A l \in 1..6 : PlaceLayer(cs, r, OfLayer(cs, focus, l)) = PlaceLayer(cs, order, OfLayer(cs, focus, l))
  BY <1>3 DEF Layers
<1>5. /\ PlaceLayer(cs, r, OfLayer(cs, focus, 1)) = PlaceLayer(cs, order, OfLayer(cs, focus, 1))
      /\ PlaceLayer(cs, r, OfLayer(cs, focus, 2)) = PlaceLayer(cs, order, OfLayer(cs, focus, 2))
      /\ PlaceLayer(cs, r, OfLayer(cs, focus, 3)) = PlaceLayer(cs, order, OfLayer(cs, focus, 3))
      /\ PlaceLayer(cs, r, OfLayer(cs, focus, 4)) = PlaceLayer(cs, order, OfLayer(cs, focus, 4))
      /\ PlaceLayer(cs, r, OfLayer(cs, focus, 5)) = PlaceLayer(cs, order, OfLayer(cs, focus, 5))
      /\ PlaceLayer(cs, r, OfLayer(cs, focus, 6)) = PlaceLayer(cs, order, OfLayer(cs, focus, 6))
  BY <1>4
<1>6. PolicyOrder(cs, r, focus) = PolicyOrder(cs, order, focus)
  BY <1>5, PolicyOrderIs, Zenon
<1> QED BY <1>6 DEF IsSettled, r

\* In an order that respects the needs, a client is above those it needs.
LEMMA RespectedAbove ==
  ASSUME NEW L, NEW need \in [L -> SUBSET L], NEW s \in Stacks(L), Respects(need, s, {}),
         NEW c \in L, NEW d \in need[c]
  PROVE  Above(s, c, d)
<1> DEFINE i == Position(s, c)
<1>1. i \in 1..Len(s) /\ s[i] = c /\ s \in Seq(L) /\ Unique(s)
  BY PositionIn DEF Stacks, Enumerates
<1> HIDE DEF i
<1>2. need[s[i]] \subseteq ({} \cup {s[j] : j \in 1..(i - 1)})
  BY <1>1 DEF Respects
<1>3. PICK j \in 1..(i - 1) : s[j] = d
  BY <1>1, <1>2
<1>4. j \in 1..Len(s) /\ j < i /\ i \in Nat /\ j \in Nat
  BY <1>1
<1>5. Position(s, d) = j
  BY <1>1, <1>3, <1>4, PositionOf
<1> QED BY <1>4, <1>5 DEF Above, i

\* In a settled order each client is above those it has to be above, and above those of
\* lower layers.
LEMMA SettledAbove ==
  ASSUME NEW M, NEW cs \in [M -> Shape], NEW order \in Stacks(M), NEW focus,
         IsSettled(cs, order, focus), \A c \in M : cs[c].transientFor # c
  PROVE  /\ \A c \in M : \A d \in Demands(cs, focus, c) : Above(order, c, d)
         /\ \A c, d \in M :
              EffectiveLayer(cs, focus, d) < EffectiveLayer(cs, focus, c) => Above(order, c, d)
<1> DEFINE at == Layers(cs, order, focus)
<1>1. PolicyOrder(cs, order, focus) = order
  BY DEF IsSettled
<1>2. /\ Layered(cs, focus, 6, order, at) /\ UpTo(cs, focus, 6) = M
      /\ \A l \in 1..6 : at[l] \in Stacks(OfLayer(cs, focus, l))
  BY <1>1, PolicyLayered
<1>5. \A k \in 1..6 :
        at[k] = Placing(cs, order, OfLayer(cs, focus, k))[<<Keep(order, OfLayer(cs, focus, k)), {}>>]
  <2> SUFFICES ASSUME NEW k \in 1..6
               PROVE  at[k] = Placing(cs, order, OfLayer(cs, focus, k))
                                [<<Keep(order, OfLayer(cs, focus, k)), {}>>]
    OBVIOUS
  <2> QED BY PlaceLayerIs DEF Layers
<1>3. ASSUME NEW c \in M, NEW d \in Demands(cs, focus, c)
      PROVE  Above(order, c, d)
  <2> DEFINE l == EffectiveLayer(cs, focus, c)
             L == OfLayer(cs, focus, l)
             need == Needs(cs, L)
  <2>1. l \in 1..6 /\ c \in L
    BY LayerIsHighest DEF OfLayer
  <2> HIDE DEF l
  <2>2. /\ L \in SUBSET M /\ IsFiniteSet(L) /\ need \in [L -> SUBSET L]
        /\ \A e \in L : Below(cs, order, L, e) = need[e]
        /\ \A e \in L : need[e] = Demands(cs, focus, e)
        /\ order \in Seq(M)
    BY NeedsOfLayer
  <2>3. \A e \in L : e \notin need[e]
    <3>1. \A e \in L : need[e] = {f \in L : f = cs[e].transientFor \/ f \in GroupMembers(cs, e)}
      BY DEF Needs
    <3>2. \A e \in L : e \notin GroupMembers(cs, e)
      BY DEF GroupMembers
    <3> HIDE DEF need, L
    <3> QED BY <2>2, <3>1, <3>2
  <2>4. at[l] = Placing(cs, order, L)[<<Keep(order, L), {}>>]
    <3> HIDE DEF at
    <3> QED BY <1>5, <2>1
  <2>5. Keep(order, L) = at[l] /\ at[l] \in Stacks(L)
    BY <1>2, <2>1 DEF Layered
  <2>6. Above(at[l], c, d) /\ d \in L => Above(order, c, d)
    BY <1>2, <2>1 DEF Layered
  <2> HIDE DEF need, L, at
  <2>7. \A p \in Seq(L), v \in SUBSET L :
          Unique(p) /\ Members(p) \cap v = {} /\ Placing(cs, order, L)[<<p, v>>] = p
          => Respects(need, p, v)
    BY <2>2, <2>3, StayingRespects
  <2>8. at[l] \in Seq(L) /\ Unique(at[l]) /\ {} \in SUBSET L /\ Members(at[l]) \cap {} = {}
    BY <2>5 DEF Stacks, Enumerates
  <2>9. Respects(need, at[l], {})
    BY <2>4, <2>5, <2>7, <2>8
  <2>10. d \in need[c] /\ d \in L
    BY <2>1, <2>2
  <2>11. Above(at[l], c, d)
    BY <2>1, <2>2, <2>5, <2>9, <2>10, RespectedAbove
  <2> QED BY <2>6, <2>10, <2>11
<1>4. \A c, d \in M :
        EffectiveLayer(cs, focus, d) < EffectiveLayer(cs, focus, c) => Above(order, c, d)
  BY <1>2 DEF Layered
<1> QED BY <1>3, <1>4

\* The policy puts a raised client above all of its layer, and of the lower ones, if
\* nobody in its layer has to be above it.
LEMMA LeafRaised ==
  ASSUME NEW M, NEW cs \in [M -> Shape], NEW s \in Stacks(M), NEW focus, NEW c \in M,
         \A d \in M : c \notin Demands(cs, focus, d)
  PROVE  \A d \in M \ {c} :
           EffectiveLayer(cs, focus, d) <= EffectiveLayer(cs, focus, c)
           => Above(PolicyOrder(cs, MoveToEnd(s, c), focus), c, d)
<1> DEFINE order == MoveToEnd(s, c)
           r == PolicyOrder(cs, order, focus)
           at == Layers(cs, order, focus)
           l == EffectiveLayer(cs, focus, c)
           L == OfLayer(cs, focus, l)
           rest == Without(s, c)
           p == Keep(rest, L)
           one == <<c>>
<1>1. order \in Stacks(M)
  BY MovedListing
<1>16. \A k \in 1..6 :
         at[k] = Placing(cs, order, OfLayer(cs, focus, k))[<<Keep(order, OfLayer(cs, focus, k)), {}>>]
  <2> SUFFICES ASSUME NEW k \in 1..6
               PROVE  at[k] = Placing(cs, order, OfLayer(cs, focus, k))
                                [<<Keep(order, OfLayer(cs, focus, k)), {}>>]
    OBVIOUS
  <2> HIDE DEF order
  <2> QED BY PlaceLayerIs DEF Layers
<1>2. l \in 1..6 /\ c \in L /\ \A d \in M : EffectiveLayer(cs, focus, d) \in 1..6
  BY LayerIsHighest DEF OfLayer
<1>3. \A d \in M : d \in L <=> EffectiveLayer(cs, focus, d) = l
  BY DEF OfLayer
<1> HIDE DEF l
<1>4. /\ Layered(cs, focus, 6, r, at) /\ UpTo(cs, focus, 6) = M
      /\ \A k \in 1..6 : at[k] \in Stacks(OfLayer(cs, focus, k))
  <2> HIDE DEF order
  <2> QED BY <1>1, PolicyLayered
<1>5. /\ L \in SUBSET M /\ IsFiniteSet(L) /\ order \in Seq(M)
      /\ \A e \in L : Below(cs, order, L, e) = Needs(cs, L)[e]
      /\ \A e \in L : Needs(cs, L)[e] = Demands(cs, focus, e)
  <2> HIDE DEF order
  <2> QED BY <1>1, NeedsOfLayer
<1>6. \A e \in L : c \notin Below(cs, order, L, e)
  <2> HIDE DEF order, L
  <2> QED BY <1>5
<1>7. at[l] = Placing(cs, order, L)[<<Keep(order, L), {}>>]
  <2> HIDE DEF order, at
  <2> QED BY <1>2, <1>16
<1>8. /\ s \in Seq(M) /\ Members(s) = M /\ rest \in Seq(M) /\ Members(rest) = M \ {c}
  <2>1. s \in Seq(M) /\ Members(s) = M
    BY DEF Stacks, Enumerates
  <2> QED BY <2>1, WithoutFacts
<1>9. order = rest \o one /\ one \in Seq(M) /\ one \in Seq(L) /\ Members(one) = {c}
  <2>1. order = Append(rest, c)
    BY DEF MoveToEnd
  <2> HIDE DEF rest, order
  <2>2. order = rest \o <<c>>
    BY <1>8, <2>1
  <2> HIDE DEF L
  <2> QED BY <1>2, <2>2, SingletonFacts
<1> HIDE DEF rest, L, order, one
<1>10. Keep(order, L) = p \o one
  <2>1. Keep(rest \o one, L) = Keep(rest, L) \o Keep(one, L)
    BY <1>8, <1>9, KeepConcat
  <2>2. Keep(one, L) = one
    BY <1>2, <1>9, KeepAll
  <2> QED BY <1>9, <2>1, <2>2
<1>11. p \in Seq(L) /\ Members(p) = L \ {c}
  <2>1. p \in Seq(M) /\ Members(p) = Members(rest) \cap L
    BY <1>8, KeepFacts
  <2>2. Members(p) = L \ {c}
    BY <1>5, <1>8, <2>1
  <2> HIDE DEF p
  <2> QED BY <2>1, <2>2, OverMembers
<1> HIDE DEF p, at
<1>12. PICK a \in Seq(L) : /\ Members(a) = L \ {c} /\ Unique(a)
                           /\ Placing(cs, order, L)[<<p \o <<c>>, {}>>] = a \o <<c>>
  <2>1. /\ order \in Seq(M) /\ IsFiniteSet(L) /\ c \in L /\ p \in Seq(L)
        /\ Members(p) = L \ {c} /\ \A d \in L : c \notin Below(cs, order, L, d)
    BY <1>2, <1>5, <1>6, <1>11
  <2>2. PlacedLast(Placing(cs, order, L), L, p, c)
    BY ONLY <2>1, LeafPlacedLast
  <2> QED BY <2>2 DEF PlacedLast
<1>13. at[l] = a \o one
  BY <1>7, <1>10, <1>12 DEF one
<1>14. \A d \in L \ {c} : Above(at[l], c, d)
  <2> DEFINE A == L \ {c}
             C == {c}
  <2>1. A \cap C = {} /\ a \in Stacks(A)
    <3>1. a \in Seq(A)
      <4> HIDE DEF A
      <4>1. Members(a) = A
        BY <1>12 DEF A
      <4> QED BY <1>12, <4>1, OverMembers
    <3> QED BY <1>12, <3>1 DEF Stacks, Enumerates
  <2>2. one \in Stacks(C)
    BY SingletonFacts DEF one, Stacks, Enumerates
  <2>3. JoinedAbove(A, C, a, one, a \o one)
    BY <2>1, <2>2, JoinedStacks
  <2> QED BY <1>13, <2>3 DEF JoinedAbove
<1>15. ASSUME NEW d \in M \ {c}, EffectiveLayer(cs, focus, d) <= l
       PROVE  Above(r, c, d)
  <2>1. CASE EffectiveLayer(cs, focus, d) = l
    <3>1. d \in L \ {c}
      BY <1>3, <2>1
    <3>2. Above(at[l], c, d)
      BY <1>14, <3>1
    <3>3. c \in OfLayer(cs, focus, l) /\ d \in OfLayer(cs, focus, l)
      BY <1>2, <3>1 DEF L
    <3> HIDE DEF r
    <3> QED BY <1>2, <1>4, <3>2, <3>3 DEF Layered
  <2>2. CASE EffectiveLayer(cs, focus, d) # l
    <3>1. EffectiveLayer(cs, focus, d) < EffectiveLayer(cs, focus, c)
      <4>1. l = EffectiveLayer(cs, focus, c)
        BY DEF l
      <4>2. l \in 1..6 /\ EffectiveLayer(cs, focus, d) \in 1..6
        BY <1>2
      <4> QED BY <1>15, <2>2, <4>1, <4>2
    <3> HIDE DEF r
    <3> QED BY <1>4, <3>1 DEF Layered
  <2> QED BY <2>1, <2>2
<1> QED BY <1>15 DEF r, order, l

(* ---- Families in a settled stack ---- *)
\* No client is its own parent.
NoSelf == \A c \in Managed : clients[c].transientFor # c

\* A change of shapes leaves no client its own parent if the new shape is not.
LEMMA ReshapeNoSelf ==
  ASSUME IInv, NoSelf, NEW c \in Managed, NEW shape, Reshape(c, shape), shape.transientFor # c
  PROVE  NoSelf'
<1>1. DOMAIN clients = Managed /\ clients' = [clients EXCEPT ![c] = shape]
  BY IInvGives DEF Reshape, Commit
<1>2. /\ DOMAIN clients' = Managed /\ clients'[c] = shape
      /\ \A d \in Managed \ {c} : clients'[d] = clients[d]
  BY <1>1
<1> QED BY <1>2 DEF NoSelf, Managed

\* No handler makes a client its own parent.
LEMMA NoSelfKept ==
  ASSUME IInv, NoSelf, [Next]_vars
  PROVE  NoSelf'
<1>0. DOMAIN clients = Managed /\ clients \in [Managed -> Shape] /\ NoTransient \notin Managed
  BY IInvGives, StackingSentinels
<1>1. ASSUME clients' = clients PROVE NoSelf'
  BY <1>1 DEF NoSelf, Managed
<1>2. ASSUME NEW c \in Clients, NEW shape \in Shapes[c], Manage(c, shape)
      PROVE  NoSelf'
  <2>1. /\ clients' = [d \in Managed \cup {c} |-> IF d = c THEN shape ELSE clients[d]]
        /\ shape.transientFor # c /\ c \notin Managed
    BY <1>2 DEF Manage, Commit
  <2>2. /\ DOMAIN clients' = Managed \cup {c} /\ clients'[c] = shape
        /\ \A d \in Managed : clients'[d] = clients[d]
    BY <2>1
  <2> QED BY <2>1, <2>2 DEF NoSelf, Managed
<1>3. ASSUME NEW c \in Clients, Unmanage(c)
      PROVE  NoSelf'
  <2>1. clients' = [d \in Managed \ {c} |->
                      IF clients[d].transientFor = c
                      THEN [clients[d] EXCEPT !.transientFor = NoTransient] ELSE clients[d]]
    BY <1>3 DEF Unmanage, Commit
  <2>2. DOMAIN clients' = Managed \ {c}
    BY <2>1
  <2>3. ASSUME NEW d \in Managed \ {c} PROVE clients'[d].transientFor # d
    <3>1. clients[d] \in Shape
      BY <1>0
    <3>2. [clients[d] EXCEPT !.transientFor = NoTransient].transientFor = NoTransient
      BY <3>1 DEF Shape
    <3>3. clients[d].transientFor # d /\ d # NoTransient
      BY <1>0 DEF NoSelf
    <3> QED BY <2>1, <3>2, <3>3
  <2> QED BY <2>2, <2>3 DEF NoSelf, Managed
<1>4. ASSUME NEW c \in Clients,
             Iconify(c) \/ Restore(c) \/ Focus(c) \/ Raise(c) \/ Lower(c) \/ Restack(c)
      PROVE  NoSelf'
  <2>1. clients' = clients
    BY <1>4 DEF Iconify, Restore, Focus, Raise, Lower, Restack, Commit
  <2> QED BY <1>1, <2>1
<1>5. ASSUME NEW c \in Clients, NEW parent, NEW group, SetRelationships(c, parent, group)
      PROVE  NoSelf'
  <2>1. c \in Managed /\ clients[c] \in Shape /\ parent # c
    BY <1>0, <1>5 DEF SetRelationships
  <2> DEFINE shape == [clients[c] EXCEPT !.transientFor = parent, !.group = group]
  <2>2. shape.transientFor = parent
    BY <2>1 DEF Shape
  <2>3. Reshape(c, shape)
    BY <1>5 DEF SetRelationships
  <2> HIDE DEF shape
  <2> QED BY <2>1, <2>2, <2>3, ReshapeNoSelf
<1>6. ASSUME NEW c \in Clients, NEW layer, SetLayer(c, layer)
      PROVE  NoSelf'
  <2>1. c \in Managed /\ clients[c] \in Shape /\ clients[c].transientFor # c
    BY <1>0, <1>6 DEF SetLayer, NoSelf
  <2> DEFINE shape == [clients[c] EXCEPT !.layer = layer]
  <2>2. shape.transientFor = clients[c].transientFor
    BY <2>1 DEF Shape
  <2>3. Reshape(c, shape)
    BY <1>6 DEF SetLayer
  <2> HIDE DEF shape
  <2> QED BY <2>1, <2>2, <2>3, ReshapeNoSelf
<1>7. ASSUME NEW c \in Clients, NEW b, NEW output, NEW coverage,
             SetFullscreen(c, b, output, coverage)
      PROVE  NoSelf'
  <2>1. c \in Managed /\ clients[c] \in Shape /\ clients[c].transientFor # c
    BY <1>0, <1>7 DEF SetFullscreen, NoSelf
  <2> DEFINE shape == [clients[c] EXCEPT !.covering = IF b THEN "Fullscreen" ELSE coverage,
                                         !.output = output]
  <2>2. shape.transientFor = clients[c].transientFor
    BY <2>1 DEF Shape
  <2>3. Reshape(c, shape)
    BY <1>7 DEF SetFullscreen
  <2> HIDE DEF shape
  <2> QED BY <2>1, <2>2, <2>3, ReshapeNoSelf
<1>8. ASSUME NEW c \in Clients, NEW role, NEW coverage, SetPolicy(c, role, coverage)
      PROVE  NoSelf'
  <2> DEFINE covering == IF clients[c].covering = "Fullscreen" /\ ~(role \notin {"Normal", "Dialog"})
                         THEN clients[c].covering
                         ELSE IF role \in {"Desktop", "Dock"} THEN "No" ELSE coverage
             shape == [clients[c] EXCEPT !.role = role, !.covering = covering]
  <2>1. c \in Managed /\ clients[c] \in Shape /\ clients[c].transientFor # c
    BY <1>0, <1>8 DEF SetPolicy, NoSelf
  <2>2. clients' = [clients EXCEPT ![c] = shape]
    BY <1>8, <2>1 DEF SetPolicy, Commit
  <2> HIDE DEF covering
  <2>3. shape.transientFor = clients[c].transientFor
    BY <2>1 DEF Shape
  <2> HIDE DEF shape
  <2>4. /\ DOMAIN clients' = Managed /\ clients'[c] = shape
        /\ \A d \in Managed \ {c} : clients'[d] = clients[d]
    BY <1>0, <2>1, <2>2
  <2> QED BY <2>1, <2>3, <2>4 DEF NoSelf, Managed
<1>9. ASSUME NEW c \in Clients, NEW output, NEW coverage, MoveTo(c, output, coverage)
      PROVE  NoSelf'
  <2>1. c \in Managed /\ clients[c] \in Shape /\ clients[c].transientFor # c
    BY <1>0, <1>9 DEF MoveTo, NoSelf
  <2>2. clients' = [clients EXCEPT ![c].output = output, ![c].covering = coverage]
    BY <1>9 DEF MoveTo, Commit
  <2>3. /\ DOMAIN clients' = Managed
        /\ clients'[c] = [clients[c] EXCEPT !.output = output, !.covering = coverage]
        /\ \A d \in Managed \ {c} : clients'[d] = clients[d]
    BY <1>0, <2>1, <2>2
  <2>4. clients'[c].transientFor = clients[c].transientFor
    BY <2>1, <2>3 DEF Shape
  <2> QED BY <2>1, <2>3, <2>4 DEF NoSelf, Managed
<1>10. ASSUME NEW c \in Clients, NEW output, MoveFullscreen(c, output)
       PROVE  NoSelf'
  <2>1. c \in Managed /\ clients[c] \in Shape /\ clients[c].transientFor # c
    BY <1>0, <1>10 DEF MoveFullscreen, NoSelf
  <2>2. clients' = [clients EXCEPT ![c].output = output]
    BY <1>10 DEF MoveFullscreen, Commit
  <2>3. /\ DOMAIN clients' = Managed
        /\ clients'[c] = [clients[c] EXCEPT !.output = output]
        /\ \A d \in Managed \ {c} : clients'[d] = clients[d]
    BY <1>0, <2>1, <2>2
  <2>4. clients'[c].transientFor = clients[c].transientFor
    BY <2>1, <2>3 DEF Shape
  <2> QED BY <2>1, <2>3, <2>4 DEF NoSelf, Managed
<1>11. CASE ClearFocus
  BY <1>1, <1>11 DEF ClearFocus, Commit
<1>12. CASE UNCHANGED vars
  BY <1>1, <1>12 DEF vars
<1> QED
  BY <1>2, <1>3, <1>4, <1>5, <1>6, <1>7, <1>8, <1>9, <1>10, <1>11, <1>12
     DEF Next, ClientStep, ShapeStep

\* Both parts of the invariant hold throughout.
LEMMA Inductive == Spec => [](IInv /\ NoSelf)
<1>1. Init => NoSelf
  <2> SUFFICES ASSUME Init PROVE NoSelf
    OBVIOUS
  <2>1. DOMAIN clients = {}
    BY DEF Init
  <2> QED BY <2>1 DEF NoSelf, Managed
<1>2. IInv /\ NoSelf /\ [Next]_vars => (IInv /\ NoSelf)'
  BY NextKeeps, NoSelfKept
<1> QED BY <1>1, <1>2, InitIInv, PTL DEF Spec

\* A client's parent, and the parent's ancestors, are its ancestors.
LEMMA ParentsAreAncestors ==
  ASSUME NEW M, NEW cs \in [M -> Shape], NEW c \in M, cs[c].transientFor \in M
  PROVE  {cs[c].transientFor} \cup Ancestors(cs, cs[c].transientFor) \subseteq Ancestors(cs, c)
<1> DEFINE p == cs[c].transientFor
<1>1. DOMAIN cs = M
  OBVIOUS
<1>2. ASSUME NEW S \in SUBSET M, FollowsParents(cs, S, c)
      PROVE  p \in S /\ FollowsParents(cs, S, p)
  <2>1. p \in S
    BY <1>1, <1>2 DEF FollowsParents
  <2> QED BY <1>2, <2>1 DEF FollowsParents
<1> HIDE DEF p
<1>3. p \in Ancestors(cs, c)
  <2>1. p \in M
    BY DEF p
  <2> QED BY <1>1, <1>2, <2>1 DEF Ancestors
<1>4. ASSUME NEW a \in Ancestors(cs, p)
      PROVE  a \in Ancestors(cs, c)
  <2>1. a \in M /\ \A S \in SUBSET M : FollowsParents(cs, S, p) => a \in S
    BY <1>1 DEF Ancestors
  <2>2. \A S \in SUBSET M : FollowsParents(cs, S, c) => a \in S
    BY <1>2, <2>1
  <2> QED BY <1>1, <2>1, <2>2 DEF Ancestors
<1> QED BY <1>3, <1>4 DEF p

\* A client is in its parent's layer or a higher one.
LEMMA ParentLayer ==
  ASSUME NEW M, NEW cs \in [M -> Shape], NEW focus, NEW c \in M, cs[c].transientFor \in M
  PROVE  EffectiveLayer(cs, focus, cs[c].transientFor) <= EffectiveLayer(cs, focus, c)
<1> DEFINE p == cs[c].transientFor
           layers(d) == {OwnLayer(cs, focus, e) : e \in {d} \cup Ancestors(cs, d)}
<1>1. /\ EffectiveLayer(cs, focus, p) \in layers(p)
      /\ \A k \in layers(c) : k <= EffectiveLayer(cs, focus, c)
  BY LayerIsHighest
<1>2. {p} \cup Ancestors(cs, p) \subseteq Ancestors(cs, c)
  BY ParentsAreAncestors
<1>3. layers(p) \subseteq layers(c)
  BY <1>2
<1> HIDE DEF layers, p
<1>4. EffectiveLayer(cs, focus, p) \in layers(c)
  BY <1>1, <1>3
<1> QED BY <1>1, <1>4 DEF p

\* FamiliesStacked follows from what a settled order is.
LEMMA FamiliesAre == IInv /\ NoSelf => FamiliesStacked
<1> SUFFICES ASSUME IInv, NoSelf, Settled PROVE FamiliesStacked
  BY DEF FamiliesStacked, ParentsBelow, GroupTransientsAbove
<1>1. clients \in [Managed -> Shape] /\ stacking \in Stacks(Managed) /\ DOMAIN clients = Managed
  BY IInvGives
<1>2. IsSettled(clients, stacking, focused) /\ \A c \in Managed : clients[c].transientFor # c
  BY DEF Settled, NoSelf
<1>3. /\ \A c \in Managed : \A d \in Demands(clients, focused, c) : Above(stacking, c, d)
      /\ \A c, d \in Managed :
           EffectiveLayer(clients, focused, d) < EffectiveLayer(clients, focused, c)
           => Above(stacking, c, d)
  <2> DEFINE M == Managed
             cs == clients
             order == stacking
             focus == focused
  <2> HIDE DEF M, cs, order, focus
  <2>1. /\ cs \in [M -> Shape] /\ order \in Stacks(M) /\ IsSettled(cs, order, focus)
        /\ \A c \in M : cs[c].transientFor # c
    BY <1>1, <1>2 DEF M, cs, order, focus
  <2>2. /\ \A c \in M : \A d \in Demands(cs, focus, c) : Above(order, c, d)
        /\ \A c, d \in M :
             EffectiveLayer(cs, focus, d) < EffectiveLayer(cs, focus, c) => Above(order, c, d)
    BY ONLY <2>1, SettledAbove
  <2> QED BY <2>2 DEF M, cs, order, focus
<1>4. ASSUME NEW c \in Managed, clients[c].transientFor \in Managed
      PROVE  Above(stacking, c, clients[c].transientFor)
  <2> DEFINE p == clients[c].transientFor
  <2>1. /\ EffectiveLayer(clients, focused, p) <= EffectiveLayer(clients, focused, c)
        /\ EffectiveLayer(clients, focused, p) \in 1..6
        /\ EffectiveLayer(clients, focused, c) \in 1..6
    BY <1>1, <1>4, ParentLayer, LayerIsHighest
  <2>2. CASE EffectiveLayer(clients, focused, p) = EffectiveLayer(clients, focused, c)
    <3>1. p \in Demands(clients, focused, c)
      BY <1>1, <1>4, <2>2 DEF Demands
    <3> QED BY <1>3, <3>1
  <2>3. CASE EffectiveLayer(clients, focused, p) < EffectiveLayer(clients, focused, c)
    <3> HIDE DEF p
    <3>1. p \in Managed
      BY <1>4 DEF p
    <3>2. Above(stacking, c, p)
      BY <1>3, <2>3, <3>1
    <3> QED BY <3>2 DEF p
  <2> HIDE DEF p
  <2> QED BY <2>1, <2>2, <2>3 DEF p
<1>5. ASSUME NEW c \in Managed, NEW d \in Managed, c # d,
             clients[c].transientFor = GroupTransient, clients[d].transientFor # GroupTransient,
             clients[c].group = clients[d].group, clients[c].group # NoGroup,
             clients[d].role \in {"Normal", "Dialog"}, ~DescendsFrom(clients, c, d),
             Layer(c) = Layer(d)
      PROVE  Above(stacking, c, d)
  <2>1. d \in GroupMembers(clients, c)
    BY <1>1, <1>5 DEF GroupMembers
  <2>2. d \in Demands(clients, focused, c)
    BY <1>1, <1>5, <2>1 DEF Demands, Layer
  <2> QED BY <1>3, <2>2
<1> QED BY <1>4, <1>5 DEF FamiliesStacked, ParentsBelow, GroupTransientsAbove

\* In a settled stack a client is above its parent, and a group transient above the
\* ordinary members of its group in its layer that are no dialogs of its own: what
\* place does within a layer, and the layers on top of each other, agree with the
\* relationships of any number of clients.
THEOREM Families == Spec => []FamiliesStacked
BY Inductive, FamiliesAre, PTL

\* What enforcing leaves in the core is the policy order.
LEMMA EnforcedCore ==
  ASSUME NEW cs, NEW focus, NEW stack
  PROVE  /\ EnforceLayers(cs, focus, stack).core = PolicyOrder(cs, stack.core, focus)
         /\ \A c : EnforceClientLayer(cs, focus, stack, c).core = PolicyOrder(cs, stack.core, focus)
<1>1. EnforceLayers(cs, focus, stack).core = PolicyOrder(cs, stack.core, focus)
  BY DEF EnforceLayers
<1>2. ASSUME NEW c
      PROVE  EnforceClientLayer(cs, focus, stack, c).core = PolicyOrder(cs, stack.core, focus)
  BY <1>1, Zenon DEF EnforceClientLayer
<1> QED BY <1>1, <1>2

\* A raised client that nobody has to be above is at the top of its layer.
LEMMA LeafIsRaised == IInv => RaiseLeafReachesTop
<1> SUFFICES ASSUME IInv, NEW c \in Managed,
                    \A d \in Managed : c \notin Demands(clients, focused, d)
             PROVE  RaisedToTop(c)
  BY DEF RaiseLeafReachesTop
<1>1. /\ clients \in [Managed -> Shape] /\ stacking \in Stacks(Managed)
      /\ Stack \in Agreed(Managed)
  BY IInvGives
<1> DEFINE raised == RaiseWithinLayer(clients, focused, Stack, c)
           order == MoveToEnd(stacking, c)
           result == PolicyOrder(clients, order, focused)
<1>2. raised.server = result /\ result \in Stacks(Managed)
  <2>1. raised \in Agreed(Managed)
    BY <1>1, Raised
  <2>2. raised.core = result
    <3> DEFINE up == [Stack EXCEPT !.core = MoveToEnd(@, c)]
    <3>1. up.core = order
      BY DEF Stack
    <3>2. raised = EnforceClientLayer(clients, focused, up, c)
      BY DEF RaiseWithinLayer
    <3> HIDE DEF up, raised, order
    <3>3. raised.core = PolicyOrder(clients, up.core, focused)
      BY <3>2, EnforcedCore
    <3> QED BY <3>1, <3>3
  <2> HIDE DEF raised, result
  <2> QED BY <2>1, <2>2 DEF Agreed, Pairs
<1>3. \A d \in Managed \ {c} :
        EffectiveLayer(clients, focused, d) <= EffectiveLayer(clients, focused, c)
        => Above(result, c, d)
  <2> DEFINE M == Managed
             cs == clients
             focus == focused
             s == stacking
  <2> HIDE DEF M, cs, focus, s
  <2>1. /\ cs \in [M -> Shape] /\ s \in Stacks(M) /\ c \in M
        /\ \A d \in M : c \notin Demands(cs, focus, d)
    BY <1>1 DEF M, cs, focus, s
  <2>2. \A d \in M \ {c} :
           EffectiveLayer(cs, focus, d) <= EffectiveLayer(cs, focus, c)
           => Above(PolicyOrder(cs, MoveToEnd(s, c), focus), c, d)
    BY ONLY <2>1, LeafRaised
  <2> QED BY <2>2 DEF M, cs, focus, s
<1> HIDE DEF raised, result
<1>4. ASSUME NEW d \in Managed \ {c}, Above(raised.server, d, c)
      PROVE  Layer(d) > Layer(c)
  <2>1. Position(result, c) \in Nat /\ Position(result, d) \in Nat
    <3>1. Position(result, c) \in 1..Len(result) /\ Position(result, d) \in 1..Len(result)
      BY <1>2, PositionIn
    <3> QED BY <3>1
  <2>2. ~Above(result, c, d)
    BY <1>2, <1>4, <2>1 DEF Above
  <2>3. Layer(d) \in 1..6 /\ Layer(c) \in 1..6
    BY <1>1, LayerIsHighest DEF Layer
  <2>4. ~(Layer(d) <= Layer(c))
    BY <1>3, <2>2 DEF Layer
  <2> QED BY <2>3, <2>4
<1> QED BY <1>4 DEF RaisedToTop, raised

\* Raising a client that nobody has to be above puts it above every client of its
\* layer and of the lower ones, by the one request of the fast path as by the full pass.
THEOREM LeafRaises == Spec => []RaiseLeafReachesTop
BY Inductive, LeafIsRaised, PTL

(* ---- The stack stays settled ---- *)
\* The focused client is one that takes the focus.
FocusTakes ==
  focused # NoClient => focused \in Managed /\ clients[focused].role \in {"Normal", "Dialog"}

\* The outcomes of a change of focus focus the target or nobody.
LEMMA OutcomeFocus ==
  ASSUME NEW cs, NEW stack, NEW focus
  PROVE  /\ \A o \in Focusing(cs, stack, focus) : o.focus = focus
         /\ \A previous : Clearing(cs, stack, previous).focus = NoClient
         /\ \A o \in Settling(cs, stack, focus) : o.focus \in {focus, NoClient}
<1>1. \A o \in Focusing(cs, stack, focus) : o.focus = focus
  BY DEF Focusing
<1>2. \A previous : Clearing(cs, stack, previous).focus = NoClient
  BY DEF Clearing
<1>3. ASSUME NEW o \in Settling(cs, stack, focus)
      PROVE  o.focus \in {focus, NoClient}
  <2>1. o = Clearing(cs, stack, focus) \/ o \in Focusing(cs, stack, focus)
    BY Zenon DEF Settling
  <2> QED BY <1>1, <1>2, <2>1
<1> QED BY <1>1, <1>2, <1>3

\* A change of shapes that keeps the role keeps the focus where it is taken.
LEMMA ReshapeFocusTakes ==
  ASSUME IInv, FocusTakes, NEW c \in Managed, NEW shape, Reshape(c, shape),
         shape.role = clients[c].role
  PROVE  FocusTakes'
<1>1. DOMAIN clients = Managed /\ clients' = [clients EXCEPT ![c] = shape] /\ focused' = focused
  BY IInvGives DEF Reshape, Commit
<1>2. /\ DOMAIN clients' = Managed /\ clients'[c] = shape
      /\ \A d \in Managed \ {c} : clients'[d] = clients[d]
  BY <1>1
<1> QED BY <1>1, <1>2 DEF FocusTakes, Managed

\* No handler leaves the focus with a client that does not take it.
LEMMA FocusTakesKept ==
  ASSUME IInv, FocusTakes, [Next]_vars
  PROVE  FocusTakes'
<1>0. DOMAIN clients = Managed /\ clients \in [Managed -> Shape]
  BY IInvGives
<1>1. ASSUME clients' = clients, focused' \in {focused, NoClient} \cup Usable
      PROVE  FocusTakes'
  BY <1>1 DEF FocusTakes, Managed, Usable
<1>2. ASSUME NEW c \in Clients, NEW shape \in Shapes[c], Manage(c, shape)
      PROVE  FocusTakes'
  <2>1. /\ clients' = [d \in Managed \cup {c} |-> IF d = c THEN shape ELSE clients[d]]
        /\ c \notin Managed /\ focused' = focused
    BY <1>2 DEF Manage, Commit
  <2>2. /\ DOMAIN clients' = Managed \cup {c}
        /\ \A d \in Managed : clients'[d] = clients[d]
    BY <2>1
  <2> QED BY <2>1, <2>2 DEF FocusTakes, Managed
<1>3. ASSUME NEW c \in Clients, Unmanage(c)
      PROVE  FocusTakes'
  <2>1. /\ c \in Managed
        /\ clients' = [d \in Managed \ {c} |->
                      IF clients[d].transientFor = c
                      THEN [clients[d] EXCEPT !.transientFor = NoTransient] ELSE clients[d]]
    BY <1>3 DEF Unmanage, Commit
  <2>2. DOMAIN clients' = Managed \ {c}
    BY <2>1
  <2>3. ASSUME NEW d \in Managed \ {c} PROVE clients'[d].role = clients[d].role
    <3>1. clients[d] \in Shape
      BY <1>0
    <3>2. [clients[d] EXCEPT !.transientFor = NoTransient].role = clients[d].role
      BY <3>1 DEF Shape
    <3> QED BY <2>1, <3>2
  <2>4. focused' \in ({focused, NoClient} \cup Usable) \ {c}
    <3>1. CASE focused # c
      BY <1>3, <3>1 DEF Unmanage, Commit
    <3>2. CASE focused = c
      <4> DEFINE cs == [d \in Managed \ {c} |->
                      IF clients[d].transientFor = c
                      THEN [clients[d] EXCEPT !.transientFor = NoTransient] ELSE clients[d]]
                 left == [core |-> Without(stacking, c), server |-> Without(server, c)]
      <4>1. \E focus \in FocusWithout(c) : \E settled \in Settling(cs, left, focus) :
              focused' = settled.focus
        BY <1>3, <3>2 DEF Unmanage, Commit
      <4> HIDE DEF cs, left
      <4>2. PICK focus \in FocusWithout(c) : \E settled \in Settling(cs, left, focus) :
              focused' = settled.focus
        BY <4>1
      <4>3. focused' \in {focus, NoClient}
        BY <4>2, OutcomeFocus
      <4>4. focus \in {NoClient} \cup (Usable \ {c})
        BY <3>2 DEF FocusWithout
      <4>5. c # NoClient
        BY StackingSentinels
      <4> QED BY <4>3, <4>4, <4>5
    <3> QED BY <3>1, <3>2
  <2> QED BY <2>2, <2>3, <2>4 DEF FocusTakes, Managed, Usable
<1>4. ASSUME NEW c \in Clients, Restore(c) \/ Raise(c) \/ Lower(c) \/ Restack(c)
      PROVE  FocusTakes'
  <2>1. clients' = clients /\ focused' = focused
    BY <1>4 DEF Restore, Raise, Lower, Restack, Commit
  <2> QED BY <1>1, <2>1
<1>12. ASSUME NEW c \in Clients, Iconify(c)
       PROVE  FocusTakes'
  <2>1. PICK focus \in FocusWithout(c) : \E settled \in Settling(clients, Stack, focus) :
          focused' = settled.focus
    BY <1>12 DEF Iconify, Commit
  <2>2. focused' \in {focus, NoClient}
    BY <2>1, OutcomeFocus
  <2>3. focus \in {focused, NoClient} \cup Usable
    BY DEF FocusWithout
  <2>4. clients' = clients
    BY <1>12 DEF Iconify, Commit
  <2> QED BY <1>1, <2>2, <2>3, <2>4
<1>13. ASSUME NEW c \in Clients, Focus(c)
       PROVE  FocusTakes'
  <2>1. \E settled \in Focusing(clients, Stack, c) : focused' = settled.focus
    BY <1>13 DEF Focus, Commit
  <2>2. focused' = c
    BY <2>1, OutcomeFocus
  <2>3. clients' = clients /\ c \in Usable
    BY <1>13 DEF Focus, Commit
  <2> QED BY <1>1, <2>2, <2>3
<1>5. ASSUME NEW c \in Clients, NEW parent, NEW group, SetRelationships(c, parent, group)
      PROVE  FocusTakes'
  <2>1. c \in Managed /\ clients[c] \in Shape
    BY <1>0, <1>5 DEF SetRelationships
  <2> DEFINE shape == [clients[c] EXCEPT !.transientFor = parent, !.group = group]
  <2>2. shape.role = clients[c].role
    BY <2>1 DEF Shape
  <2>3. Reshape(c, shape)
    BY <1>5 DEF SetRelationships
  <2> HIDE DEF shape
  <2> QED BY <2>1, <2>2, <2>3, ReshapeFocusTakes
<1>6. ASSUME NEW c \in Clients, NEW layer, SetLayer(c, layer)
      PROVE  FocusTakes'
  <2>1. c \in Managed /\ clients[c] \in Shape
    BY <1>0, <1>6 DEF SetLayer
  <2> DEFINE shape == [clients[c] EXCEPT !.layer = layer]
  <2>2. shape.role = clients[c].role
    BY <2>1 DEF Shape
  <2>3. Reshape(c, shape)
    BY <1>6 DEF SetLayer
  <2> HIDE DEF shape
  <2> QED BY <2>1, <2>2, <2>3, ReshapeFocusTakes
<1>7. ASSUME NEW c \in Clients, NEW b, NEW output, NEW coverage,
             SetFullscreen(c, b, output, coverage)
      PROVE  FocusTakes'
  <2>1. c \in Managed /\ clients[c] \in Shape
    BY <1>0, <1>7 DEF SetFullscreen
  <2> DEFINE shape == [clients[c] EXCEPT !.covering = IF b THEN "Fullscreen" ELSE coverage,
                                         !.output = output]
  <2>2. shape.role = clients[c].role
    BY <2>1 DEF Shape
  <2>3. Reshape(c, shape)
    BY <1>7 DEF SetFullscreen
  <2> HIDE DEF shape
  <2> QED BY <2>1, <2>2, <2>3, ReshapeFocusTakes
<1>8. ASSUME NEW c \in Clients, NEW role, NEW coverage, SetPolicy(c, role, coverage)
      PROVE  FocusTakes'
  <2> DEFINE plain == role \notin {"Normal", "Dialog"}
             covering == IF clients[c].covering = "Fullscreen" /\ ~plain
                         THEN clients[c].covering
                         ELSE IF role \in {"Desktop", "Dock"} THEN "No" ELSE coverage
             shape == [clients[c] EXCEPT !.role = role, !.covering = covering]
  <2>1. c \in Managed /\ clients[c] \in Shape
    BY <1>0, <1>8 DEF SetPolicy
  <2>2. clients' = [clients EXCEPT ![c] = shape]
    BY <1>8, <2>1 DEF SetPolicy, Commit
  <2>3. focused' = IF focused = c /\ plain THEN NoClient ELSE focused
    <3> DEFINE before == [clients EXCEPT ![c].covering = coverage]
               after == [clients EXCEPT ![c] = shape]
               ended == IF clients[c].covering = "Fullscreen" /\ plain
                        THEN EnforceLayers(before, focused, Stack) ELSE Stack
               cleared == Clearing(after, ended, c)
               settled == IF focused = c /\ plain THEN cleared
                          ELSE [focus |-> focused, stack |-> ended]
    <3>1. focused' = settled.focus
      BY <1>8 DEF SetPolicy, Commit
    <3>2. cleared.focus = NoClient
      BY DEF Clearing
    <3> HIDE DEF ended, cleared
    <3> QED BY <3>1, <3>2
  <2> HIDE DEF covering
  <2>4. shape.role = role
    BY <2>1 DEF Shape
  <2> HIDE DEF shape
  <2>5. /\ DOMAIN clients' = Managed /\ clients'[c] = shape
        /\ \A d \in Managed \ {c} : clients'[d] = clients[d]
    BY <1>0, <2>1, <2>2
  <2> QED BY <2>1, <2>3, <2>4, <2>5 DEF FocusTakes, Managed
<1>9. ASSUME NEW c \in Clients, NEW output, NEW coverage, MoveTo(c, output, coverage)
      PROVE  FocusTakes'
  <2>1. c \in Managed /\ clients[c] \in Shape
    BY <1>0, <1>9 DEF MoveTo
  <2>2. /\ clients' = [clients EXCEPT ![c].output = output, ![c].covering = coverage]
        /\ focused' = focused
    BY <1>9 DEF MoveTo, Commit
  <2>3. /\ DOMAIN clients' = Managed
        /\ clients'[c] = [clients[c] EXCEPT !.output = output, !.covering = coverage]
        /\ \A d \in Managed \ {c} : clients'[d] = clients[d]
    BY <1>0, <2>1, <2>2
  <2>4. clients'[c].role = clients[c].role
    BY <2>1, <2>3 DEF Shape
  <2> QED BY <2>1, <2>2, <2>3, <2>4 DEF FocusTakes, Managed
<1>14. ASSUME NEW c \in Clients, NEW output, MoveFullscreen(c, output)
       PROVE  FocusTakes'
  <2>1. c \in Managed /\ clients[c] \in Shape
    BY <1>0, <1>14 DEF MoveFullscreen
  <2>2. clients' = [clients EXCEPT ![c].output = output] /\ focused' = focused
    BY <1>14 DEF MoveFullscreen, Commit
  <2>3. /\ DOMAIN clients' = Managed
        /\ clients'[c] = [clients[c] EXCEPT !.output = output]
        /\ \A d \in Managed \ {c} : clients'[d] = clients[d]
    BY <1>0, <2>1, <2>2
  <2>4. clients'[c].role = clients[c].role
    BY <2>1, <2>3 DEF Shape
  <2> QED BY <2>1, <2>2, <2>3, <2>4 DEF FocusTakes, Managed
<1>10. CASE ClearFocus
  BY <1>1, <1>10 DEF ClearFocus, Commit
<1>11. CASE UNCHANGED vars
  BY <1>1, <1>11 DEF vars
<1> QED
  BY <1>2, <1>3, <1>4, <1>5, <1>6, <1>7, <1>8, <1>9, <1>10, <1>11, <1>12, <1>13, <1>14
     DEF Next, ClientStep, ShapeStep

\* A stacking order is settled, if the demands can be met.
SettledWith(cs, focus, order) == Orderable(cs, focus) => IsSettled(cs, order, focus)

\* What enforcing leaves is settled.
LEMMA EnforcedSettles ==
  ASSUME NEW M, NEW cs \in [M -> Shape], NEW focus, NEW stack, stack.core \in Stacks(M)
  PROVE  /\ SettledWith(cs, focus, EnforceLayers(cs, focus, stack).core)
         /\ \A c \in M : SettledWith(cs, focus, EnforceClientLayer(cs, focus, stack, c).core)
<1> DEFINE order == stack.core
<1> HIDE DEF order
<1>1. order \in Stacks(M)
  BY DEF order
<1>2. SettledWith(cs, focus, PolicyOrder(cs, order, focus))
  BY <1>1, PolicyRepeats DEF SettledWith
<1>3. EnforceLayers(cs, focus, stack).core = PolicyOrder(cs, order, focus)
  BY EnforcedCore DEF order
<1>4. \A c \in M : EnforceClientLayer(cs, focus, stack, c).core = PolicyOrder(cs, order, focus)
  BY EnforcedCore DEF order
<1> QED BY <1>2, <1>3, <1>4

\* So is what raising and lowering leave.
LEMMA RaisedSettles ==
  ASSUME NEW M, NEW cs \in [M -> Shape], NEW focus, NEW stack \in Agreed(M), NEW c \in M
  PROVE  /\ SettledWith(cs, focus, RaiseWithinLayer(cs, focus, stack, c).core)
         /\ SettledWith(cs, focus, LowerWithinLayer(cs, focus, stack, c).core)
<1> DEFINE up == [stack EXCEPT !.core = MoveToEnd(@, c)]
           down == [stack EXCEPT !.core = MoveToFront(@, c)]
<1>1. stack.core \in Stacks(M) /\ stack \in Pairs(M)
  BY DEF Agreed, Pairs
<1>2. up.core = MoveToEnd(stack.core, c) /\ down.core = MoveToFront(stack.core, c)
  BY <1>1 DEF Pairs
<1>3. up.core \in Stacks(M) /\ down.core \in Stacks(M)
  <2>1. MoveToEnd(stack.core, c) \in Stacks(M) /\ MoveToFront(stack.core, c) \in Stacks(M)
    BY <1>1, MovedListing
  <2> QED BY <1>2, <2>1
<1>4. /\ RaiseWithinLayer(cs, focus, stack, c) = EnforceClientLayer(cs, focus, up, c)
      /\ LowerWithinLayer(cs, focus, stack, c) = EnforceClientLayer(cs, focus, down, c)
  BY DEF RaiseWithinLayer, LowerWithinLayer
<1> HIDE DEF up, down
<1>5. /\ SettledWith(cs, focus, EnforceClientLayer(cs, focus, up, c).core)
      /\ SettledWith(cs, focus, EnforceClientLayer(cs, focus, down, c).core)
  BY <1>3, EnforcedSettles
<1> QED BY <1>4, <1>5

\* When no client covers its output, the focus is of no matter.
LEMMA UncoveredLayer ==
  ASSUME NEW M, NEW cs \in [M -> Shape], NEW c \in M, \A d \in M : cs[d].covering = "No"
  PROVE  \A f, g : EffectiveLayer(cs, f, c) = EffectiveLayer(cs, g, c)
<1> DEFINE kin == {c} \cup Ancestors(cs, c)
           layers(f) == {OwnLayer(cs, f, d) : d \in kin}
           bases == {BaseLayer(cs[d]) : d \in kin}
           highest(S) == CHOOSE l \in S : \A k \in S : k <= l
<1>1. kin \subseteq M
  BY DEF Ancestors
<1>2. \A d \in M : \A f : OwnLayer(cs, f, d) = BaseLayer(cs[d])
  BY DEF OwnLayer
<1>3. \A f : layers(f) = bases
  <2> HIDE DEF kin
  <2> QED BY <1>1, <1>2
<1>4. \A f : EffectiveLayer(cs, f, c) = highest(layers(f))
  BY DEF EffectiveLayer
<1> HIDE DEF layers, bases, highest
<1> QED BY <1>3, <1>4

\* So the order is settled for one focus if it is for another.
LEMMA UncoveredSettled ==
  ASSUME NEW M, NEW cs \in [M -> Shape], \A d \in M : cs[d].covering = "No",
         NEW order, NEW f, NEW g, IsSettled(cs, order, f)
  PROVE  IsSettled(cs, order, g)
<1>1. LayerTable(cs, f) = LayerTable(cs, g)
  <2>1. DOMAIN cs = M /\ \A c \in M : EffectiveLayer(cs, f, c) = EffectiveLayer(cs, g, c)
    BY UncoveredLayer
  <2> QED BY <2>1 DEF LayerTable
<1>2. PolicyOrder(cs, order, f) = PolicyOrder(cs, order, g)
  BY <1>1, Zenon DEF PolicyOrder
<1> QED BY <1>2 DEF IsSettled

\* A change of focus leaves the stack settled if it was.
LEMMA FocusDependentSettles ==
  ASSUME NEW M, NEW cs \in [M -> Shape], NEW f, NEW stack \in Agreed(M),
         IsSettled(cs, stack.core, f)
  PROVE  \A g : SettledWith(cs, g, EnforceFocusDependent(cs, g, stack).core)
<1> SUFFICES ASSUME NEW g PROVE SettledWith(cs, g, EnforceFocusDependent(cs, g, stack).core)
  OBVIOUS
<1>1. stack.core \in Stacks(M) /\ DOMAIN cs = M
  BY DEF Agreed, Pairs
<1>2. CASE \E c \in M : cs[c].covering # "No"
  <2>1. EnforceFocusDependent(cs, g, stack) = EnforceLayers(cs, g, stack)
    BY <1>1, <1>2 DEF EnforceFocusDependent
  <2> QED BY <1>1, <2>1, EnforcedSettles
<1>3. CASE \A c \in M : cs[c].covering = "No"
  <2>1. EnforceFocusDependent(cs, g, stack) = stack
    BY <1>1, <1>3 DEF EnforceFocusDependent
  <2>2. IsSettled(cs, stack.core, g)
    BY <1>3, UncoveredSettled
  <2> QED BY <2>1, <2>2 DEF SettledWith
<1> QED BY <1>2, <1>3

\* The outcomes of a change of focus are settled if the stack was.
SettledOutcome(cs, o) == SettledWith(cs, o.focus, o.stack.core)

\* So they are, for every target.
LEMMA OutcomesSettle ==
  ASSUME NEW M, NEW cs \in [M -> Shape], NEW f, NEW stack \in Agreed(M),
         IsSettled(cs, stack.core, f)
  PROVE  /\ \A target \in M : \A o \in Focusing(cs, stack, target) : SettledOutcome(cs, o)
         /\ SettledOutcome(cs, Clearing(cs, stack, f))
         /\ \A previous : previous # NoClient => SettledOutcome(cs, Clearing(cs, stack, previous))
<1>1. \A g : SettledWith(cs, g, EnforceFocusDependent(cs, g, stack).core)
  BY FocusDependentSettles
<1>2. ASSUME NEW target \in M, NEW o \in Focusing(cs, stack, target)
      PROVE  SettledOutcome(cs, o)
  <2>1. /\ o.focus = target
        /\ \/ o.stack = RaiseWithinLayer(cs, target, stack, target)
           \/ o.stack = EnforceFocusDependent(cs, target, stack)
    BY <1>2 DEF Focusing
  <2>2. SettledWith(cs, target, RaiseWithinLayer(cs, target, stack, target).core)
    BY RaisedSettles
  <2> QED BY <1>1, <2>1, <2>2 DEF SettledOutcome
<1>3. \A previous : previous # NoClient => SettledOutcome(cs, Clearing(cs, stack, previous))
  BY <1>1 DEF SettledOutcome, Clearing
<1>4. SettledOutcome(cs, Clearing(cs, stack, f))
  <2>1. CASE f = NoClient
    <3>1. Clearing(cs, stack, f).focus = f /\ Clearing(cs, stack, f).stack = stack
      BY <2>1 DEF Clearing
    <3> QED BY <3>1 DEF SettledOutcome, SettledWith
  <2>2. CASE f # NoClient
    BY <1>3, <2>2
  <2> QED BY <2>1, <2>2
<1> QED BY <1>2, <1>3, <1>4

\* What a handler commits decides whether the next state is settled.
LEMMA CommitSettles ==
  ASSUME NEW cs, NEW icons, NEW focus, NEW stack, Commit(cs, icons, focus, stack),
         SettledWith(cs, focus, stack.core)
  PROVE  SettledNext
BY DEF Commit, SettledWith, SettledNext

\* A change of shapes is followed by enforce_layers.
LEMMA ReshapeSettles ==
  ASSUME IInv, NEW c \in Managed, NEW shape, Reshape(c, shape)
  PROVE  SettledNext
<1> DEFINE cs == [clients EXCEPT ![c] = shape]
<1>1. /\ clients \in [Managed -> Shape] /\ Stack.core \in Stacks(Managed)
      /\ Managed \in SUBSET Clients
  BY IInvGives DEF Stack
<1>2. shape \in Shape /\ Commit(cs, iconic, focused, EnforceLayers(cs, focused, Stack))
  BY <1>1, ShapesAssumption DEF Reshape
<1>3. cs \in [Managed -> Shape]
  BY <1>1, <1>2
<1> HIDE DEF cs
<1>4. SettledWith(cs, focused, EnforceLayers(cs, focused, Stack).core)
  BY <1>1, <1>3, EnforcedSettles
<1> QED BY <1>2, <1>4, CommitSettles

\* manage
LEMMA ManageSettles ==
  ASSUME IInv, NEW c \in Clients, NEW shape \in Shapes[c], Manage(c, shape)
  PROVE  SettledNext
<1> DEFINE M == Managed \cup {c}
           cs == [d \in M |-> IF d = c THEN shape ELSE clients[d]]
           new == [core |-> Append(stacking, c), server |-> Append(server, c)]
           shown == IF shape.covering = "Fullscreen" THEN EnforceLayers(cs, focused, new)
                    ELSE new
           layered == EnforceClientLayer(cs, focused, shown, c)
           again(s) == EnforceLayers(cs, focused, SyncFromServer([layered EXCEPT !.server = s]))
           restored == {again(s) : s \in Configured(layered.server, c)}
<1>1. /\ Managed \in SUBSET Clients /\ clients \in [Managed -> Shape]
      /\ stacking \in Stacks(Managed) /\ server = stacking
  BY IInvGives
<1>2. /\ c \notin Managed
      /\ \E stack \in {layered} \cup restored, icons \in {iconic, iconic \cup {c}} :
           Commit(cs, icons, focused, stack)
  BY DEF Manage
<1>3. M \in SUBSET Clients /\ c \in M
  BY <1>1
<1>4. cs \in [M -> Shape]
  <2>1. shape \in Shape
    BY ShapesAssumption
  <2> QED BY <1>1, <2>1
<1>5. Append(stacking, c) \in Stacks(M)
  BY <1>1, <1>2, AppendedListing
<1> HIDE DEF M, cs
<1>6. new \in Agreed(M)
  BY <1>1, <1>5, AgreedPair
<1> HIDE DEF new
<1>7. shown \in Agreed(M)
  <2>1. new \in Pairs(M)
    BY <1>6 DEF Agreed
  <2>2. EnforceLayers(cs, focused, new) \in Agreed(M)
    BY <1>4, <2>1, LayersEnforced
  <2> QED BY <1>6, <2>2
<1> HIDE DEF shown
<1>8. layered \in Agreed(M) /\ SettledWith(cs, focused, layered.core)
  <2>1. /\ shown \in Pairs(M) /\ Without(shown.core, c) = Without(shown.server, c)
        /\ shown.core \in Stacks(M)
    BY <1>7 DEF Agreed, Pairs
  <2> QED BY <1>3, <1>4, <2>1, ClientLayerEnforced, EnforcedSettles
<1> HIDE DEF layered
<1>9. ASSUME NEW s \in Configured(layered.server, c)
      PROVE  SettledWith(cs, focused, again(s).core)
  <2>1. layered.core \in Stacks(M) /\ layered.server \in Stacks(M) /\ layered \in Pairs(M)
    BY <1>8 DEF Agreed, Pairs
  <2>2. s \in Stacks(M)
    BY <1>3, <2>1, ConfiguredListing
  <2> DEFINE moved == [layered EXCEPT !.server = s]
  <2>3. moved \in Pairs(M)
    BY <2>1, <2>2 DEF Pairs
  <2> HIDE DEF moved
  <2>4. SyncFromServer(moved) \in Agreed(M)
    BY <1>3, <2>3, Synchronized
  <2> DEFINE synced == SyncFromServer(moved)
  <2>5. synced.core \in Stacks(M)
    BY <2>4 DEF Agreed, Pairs
  <2> HIDE DEF synced
  <2>6. SettledWith(cs, focused, EnforceLayers(cs, focused, synced).core)
    BY <1>4, <2>5, EnforcedSettles
  <2> QED BY <2>6 DEF moved, synced
<1> HIDE DEF again
<1>10. \A stack \in {layered} \cup restored : SettledWith(cs, focused, stack.core)
  BY <1>8, <1>9
<1> HIDE DEF restored
<1> QED BY <1>2, <1>10, CommitSettles

\* iconify, except for the last usable client
LEMMA IconifySettles ==
  ASSUME IInv, FocusTakes, NEW c \in Clients, Iconify(c), Settled, ~(focused = c /\ Usable = {c})
  PROVE  SettledNext
<1>1. /\ clients \in [Managed -> Shape] /\ Stack \in Agreed(Managed)
      /\ focused \in Managed \cup {NoClient} /\ iconic \in SUBSET Managed
  BY IInvGives
<1>2. IsSettled(clients, Stack.core, focused)
  BY DEF Settled, Stack
<1>3. c \in Managed \ iconic
  BY DEF Iconify
<1>4. PICK focus \in FocusWithout(c) : \E settled \in Settling(clients, Stack, focus) :
        Commit(clients, iconic \cup {c}, settled.focus, settled.stack)
  BY DEF Iconify
<1>5. PICK settled \in Settling(clients, Stack, focus) :
        Commit(clients, iconic \cup {c}, settled.focus, settled.stack)
  BY <1>4
<1>6. focus = focused \/ (focus # NoClient /\ focus \in Managed)
  <2>1. CASE focused # c
    BY <1>4, <2>1 DEF FocusWithout
  <2>2. CASE focused = c
    <3>1. c # NoClient /\ clients[c].role \in {"Normal", "Dialog"}
      BY <2>2, StackingSentinels DEF FocusTakes
    <3>2. c \in Usable
      BY <1>3, <3>1 DEF Usable
    <3>3. Usable \ {c} # {}
      BY <2>2, <3>2
    <3>4. focus \in Usable \ {c}
      BY <1>4, <2>2, <3>3 DEF FocusWithout
    <3>5. focus \in Managed /\ NoClient \notin Managed
      BY <3>4, StackingSentinels, IInvGives DEF Usable
    <3> QED BY <3>5
  <2> QED BY <2>1, <2>2
<1>7. \/ settled = Clearing(clients, Stack, focus)
      \/ focus # NoClient /\ settled \in Focusing(clients, Stack, focus)
  <2>1. \/ settled \in {Clearing(clients, Stack, focus)}
        \/ settled \in IF focus = NoClient THEN {} ELSE Focusing(clients, Stack, focus)
    BY <1>5, Zenon DEF Settling
  <2> QED BY <2>1
<1>8. SettledOutcome(clients, settled)
  <2> DEFINE M == Managed
             cs == clients
             f == focused
             stack == Stack
  <2> HIDE DEF M, cs, f, stack
  <2>1. cs \in [M -> Shape] /\ stack \in Agreed(M) /\ IsSettled(cs, stack.core, f)
    BY <1>1, <1>2 DEF M, cs, f, stack
  <2>2. /\ \A target \in M : \A o \in Focusing(cs, stack, target) : SettledOutcome(cs, o)
        /\ SettledOutcome(cs, Clearing(cs, stack, f))
        /\ \A previous : previous # NoClient => SettledOutcome(cs, Clearing(cs, stack, previous))
    BY ONLY <2>1, OutcomesSettle
  <2>3. CASE settled = Clearing(clients, Stack, focus)
    BY <1>6, <2>2, <2>3 DEF M, cs, f, stack
  <2>4. CASE focus # NoClient /\ settled \in Focusing(clients, Stack, focus)
    <3>1. focus \in Managed
      BY <1>1, <1>6, <2>4
    <3> QED BY <2>2, <2>4, <3>1 DEF M, cs, stack
  <2> QED BY <1>7, <2>3, <2>4
<1> QED BY <1>5, <1>8, CommitSettles DEF SettledOutcome

\* focus_with_raise_policy, activate_focus_cycle_target, observe_focus, and a cleared focus
LEMMA FocusSettles ==
  ASSUME IInv, Settled
  PROVE  /\ \A c : Focus(c) => SettledNext
         /\ ClearFocus => SettledNext
<1>1. clients \in [Managed -> Shape] /\ Stack \in Agreed(Managed)
  BY IInvGives
<1>2. IsSettled(clients, Stack.core, focused)
  BY DEF Settled, Stack
<1> DEFINE M == Managed
           cs == clients
           f == focused
           stack == Stack
<1> HIDE DEF M, cs, f, stack
<1>3. cs \in [M -> Shape] /\ stack \in Agreed(M) /\ IsSettled(cs, stack.core, f)
  BY <1>1, <1>2 DEF M, cs, f, stack
<1>4. /\ \A target \in M : \A o \in Focusing(cs, stack, target) : SettledOutcome(cs, o)
      /\ SettledOutcome(cs, Clearing(cs, stack, f))
  BY ONLY <1>3, OutcomesSettle
<1>5. ASSUME NEW c, Focus(c) PROVE SettledNext
  <2>1. c \in Managed /\ \E o \in Focusing(clients, Stack, c) :
          Commit(clients, iconic, o.focus, o.stack)
    BY <1>5 DEF Focus, Usable
  <2>2. PICK o \in Focusing(clients, Stack, c) : Commit(clients, iconic, o.focus, o.stack)
    BY <2>1
  <2>3. SettledWith(clients, o.focus, o.stack.core)
    BY <1>4, <2>1, <2>2 DEF SettledOutcome, M, cs, stack
  <2> QED BY <2>2, <2>3, CommitSettles
<1>6. ASSUME ClearFocus PROVE SettledNext
  <2> DEFINE cleared == Clearing(clients, Stack, focused)
  <2>1. Commit(clients, iconic, NoClient, cleared.stack)
    BY <1>6 DEF ClearFocus
  <2>2. cleared.focus = NoClient
    BY DEF Clearing
  <2>3. SettledWith(clients, cleared.focus, cleared.stack.core)
    BY <1>4 DEF SettledOutcome, cs, stack, f
  <2> HIDE DEF cleared
  <2>4. SettledWith(clients, NoClient, cleared.stack.core)
    BY <2>2, <2>3
  <2> QED BY <2>1, <2>4, CommitSettles
<1> QED BY <1>5, <1>6

\* restore, raise, lower, and a request to restack
LEMMA MovesSettle ==
  ASSUME IInv, Settled, NEW c \in Clients, Restore(c) \/ Raise(c) \/ Lower(c) \/ Restack(c)
  PROVE  SettledNext
<1>1. /\ Managed \in SUBSET Clients /\ clients \in [Managed -> Shape]
      /\ Stack \in Agreed(Managed) /\ Stack \in Pairs(Managed)
      /\ stacking \in Stacks(Managed) /\ server = stacking
  BY IInvGives
<1>2. CASE Restore(c)
  <2>1. Commit(clients, iconic \ {c}, focused, Stack)
    BY <1>2 DEF Restore
  <2>2. SettledWith(clients, focused, Stack.core)
    BY DEF SettledWith, Settled, Stack
  <2> QED BY <2>1, <2>2, CommitSettles
<1>3. CASE Raise(c)
  <2>1. c \in Managed
        /\ Commit(clients, iconic, focused, RaiseWithinLayer(clients, focused, Stack, c))
    BY <1>3 DEF Raise
  <2>2. SettledWith(clients, focused, RaiseWithinLayer(clients, focused, Stack, c).core)
    BY <1>1, <2>1, RaisedSettles
  <2> QED BY <2>1, <2>2, CommitSettles
<1>4. CASE Lower(c)
  <2>1. c \in Managed
        /\ Commit(clients, iconic, focused, LowerWithinLayer(clients, focused, Stack, c))
    BY <1>4 DEF Lower
  <2>2. SettledWith(clients, focused, LowerWithinLayer(clients, focused, Stack, c).core)
    BY <1>1, <2>1, RaisedSettles
  <2> QED BY <2>1, <2>2, CommitSettles
<1>5. CASE Restack(c)
  <2>1. c \in Managed
        /\ \E s \in Configured(server, c) :
             Commit(clients, iconic, focused,
                    EnforceLayers(clients, focused, SyncFromServer([Stack EXCEPT !.server = s])))
    BY <1>5 DEF Restack
  <2>2. PICK s \in Configured(server, c) :
          Commit(clients, iconic, focused,
                 EnforceLayers(clients, focused, SyncFromServer([Stack EXCEPT !.server = s])))
    BY <2>1
  <2>3. s \in Stacks(Managed)
    BY <1>1, <2>1, ConfiguredListing
  <2> DEFINE moved == [Stack EXCEPT !.server = s]
             synced == SyncFromServer(moved)
  <2>4. moved \in Pairs(Managed)
    BY <1>1, <2>3 DEF Pairs
  <2>5. Commit(clients, iconic, focused, EnforceLayers(clients, focused, synced))
    BY <2>2
  <2> HIDE DEF moved
  <2>6. synced.core \in Stacks(Managed)
    BY <1>1, <2>4, Synchronized DEF Agreed, Pairs
  <2> HIDE DEF synced
  <2>7. SettledWith(clients, focused, EnforceLayers(clients, focused, synced).core)
    BY <1>1, <2>6, EnforcedSettles
  <2> QED BY <2>5, <2>7, CommitSettles
<1> QED BY <1>2, <1>3, <1>4, <1>5

\* refresh_client_policy
LEMMA SetPolicySettles ==
  ASSUME IInv, NEW c \in Clients, NEW role, NEW coverage \in {"No", "Coverage"},
         SetPolicy(c, role, coverage)
  PROVE  SettledNext
<1> DEFINE plain == role \notin {"Normal", "Dialog"}
           wasFullscreen == clients[c].covering = "Fullscreen"
           shape == [clients[c] EXCEPT
                       !.role = role,
                       !.covering = IF wasFullscreen /\ ~plain THEN @
                                    ELSE IF role \in {"Desktop", "Dock"} THEN "No"
                                    ELSE coverage]
           before == [clients EXCEPT ![c].covering = coverage]
           after == [clients EXCEPT ![c] = shape]
           ended == IF wasFullscreen /\ plain THEN EnforceLayers(before, focused, Stack)
                    ELSE Stack
           settled == IF focused = c /\ plain THEN Clearing(after, ended, c)
                      ELSE [focus |-> focused, stack |-> ended]
<1>1. /\ Managed \in SUBSET Clients /\ clients \in [Managed -> Shape]
      /\ Stack \in Agreed(Managed) /\ Stack \in Pairs(Managed)
      /\ focused \in Managed \cup {NoClient}
  BY IInvGives
<1>2. /\ c \in Managed /\ shape \in Shapes[c]
      /\ Commit(after, iconic, settled.focus,
                EnforceLayers(after, settled.focus, settled.stack))
  BY DEF SetPolicy
<1>3. before \in [Managed -> Shape]
  <2>1. clients[c] \in Shape
    BY <1>1, <1>2
  <2>2. [clients[c] EXCEPT !.covering = coverage] \in Shape
    BY <2>1 DEF Shape
  <2>3. before = [clients EXCEPT ![c] = [clients[c] EXCEPT !.covering = coverage]]
    BY <1>1, <1>2
  <2> HIDE DEF before
  <2> QED BY <1>1, <1>2, <2>2, <2>3
<1>4. after \in [Managed -> Shape]
  <2>1. shape \in Shape
    <3> HIDE DEF shape
    <3> QED BY <1>1, <1>2, ShapesAssumption
  <2> HIDE DEF shape
  <2> QED BY <1>1, <1>2, <2>1
<1> HIDE DEF before, after, shape
<1>5. ended \in Agreed(Managed)
  <2>1. EnforceLayers(before, focused, Stack) \in Agreed(Managed)
    BY <1>1, <1>3, LayersEnforced
  <2> QED BY <1>1, <2>1
<1> HIDE DEF ended, plain
<1>6. settled \in Outcomes(Managed)
  <2>1. Clearing(after, ended, c) \in Outcomes(Managed)
    BY <1>4, <1>5, FocusSettled
  <2>2. [focus |-> focused, stack |-> ended] \in Outcomes(Managed)
    BY <1>1, <1>5 DEF Outcomes
  <2> QED BY <2>1, <2>2
<1> DEFINE stack == settled.stack
           focus == settled.focus
<1> HIDE DEF settled
<1>7. stack.core \in Stacks(Managed)
  BY <1>6 DEF Outcomes, Agreed, Pairs
<1>8. Commit(after, iconic, focus, EnforceLayers(after, focus, stack))
  BY <1>2
<1> HIDE DEF stack, focus
<1>9. SettledWith(after, focus, EnforceLayers(after, focus, stack).core)
  BY <1>4, <1>7, EnforcedSettles
<1> QED BY <1>8, <1>9, CommitSettles

\* configure_managed_geometry, finish_drag, cancel_drag, except for a client that covers
\* nothing before and after
LEMMA MoveToSettles ==
  ASSUME IInv, NEW c \in Clients, NEW output, NEW coverage \in {"No", "Coverage"},
         MoveTo(c, output, coverage), ~(clients[c].covering = "No" /\ coverage = "No")
  PROVE  SettledNext
<1> DEFINE cs == [clients EXCEPT ![c].output = output, ![c].covering = coverage]
           covered(d) == IF d.covering = "No" THEN {} ELSE {d.output}
           changed == covered(clients[c]) # covered(cs[c])
           shape == [clients[c] EXCEPT !.output = output, !.covering = coverage]
<1>1. /\ Managed \in SUBSET Clients /\ clients \in [Managed -> Shape]
      /\ Stack \in Agreed(Managed) /\ Stack \in Pairs(Managed)
      /\ Stack.core \in Stacks(Managed)
  BY IInvGives DEF Stack
<1>2. /\ c \in Managed /\ cs[c] \in Shapes[c] /\ cs # clients
      /\ clients[c].covering # "Fullscreen"
      /\ Commit(cs, iconic, focused,
                IF changed THEN EnforceLayers(cs, focused, Stack) ELSE Stack)
  BY DEF MoveTo
<1>3. clients[c] \in Shape
  BY <1>1, <1>2
<1>4. /\ cs = [clients EXCEPT ![c] = shape] /\ cs[c] = shape
      /\ shape.output = output /\ shape.covering = coverage
  BY <1>1, <1>2, <1>3 DEF Shape
<1>5. cs \in [Managed -> Shape]
  <2>1. shape \in Shape
    <3>1. cs[c] \in Shape
      <4> HIDE DEF cs
      <4> QED BY <1>1, <1>2, ShapesAssumption
    <3> QED BY <1>4, <3>1
  <2> HIDE DEF cs, shape
  <2> QED BY <1>1, <1>2, <1>4, <2>1
<1>6. changed
  <2>1. SUFFICES ASSUME ~changed PROVE FALSE
    OBVIOUS
  <2>2. /\ clients[c].covering \in {"No", "Coverage"}
        /\ clients[c].covering = coverage
        /\ clients[c].output = output
    <3>1. clients[c].covering \in {"No", "Coverage"}
      BY <1>2, <1>3 DEF Shape
    <3>2. covered(clients[c]) = covered(shape)
      BY <1>4, <2>1
    <3> HIDE DEF shape
    <3> QED BY <1>4, <3>1, <3>2
  <2>3. shape = clients[c]
    BY <1>3, <2>2 DEF Shape
  <2>4. cs = clients
    <3> HIDE DEF cs, shape
    <3> QED BY <1>1, <1>2, <1>4, <2>3
  <2> QED BY <1>2, <2>4
<1>7. Commit(cs, iconic, focused, EnforceLayers(cs, focused, Stack))
  <2> HIDE DEF changed
  <2> QED BY <1>2, <1>6
<1> HIDE DEF cs
<1>8. SettledWith(cs, focused, EnforceLayers(cs, focused, Stack).core)
  BY <1>1, <1>5, EnforcedSettles
<1> QED BY <1>7, <1>8, CommitSettles

\* Every step keeps the stack settled, but for the exceptions.
LEMMA StepSettles ==
  ASSUME IInv, FocusTakes, Next
  PROVE  SettledKept \/ LeavesStack
<1> SUFFICES ASSUME Settled, ~LeavesStack PROVE SettledNext
  BY DEF SettledKept
<1>1. CASE ClientStep
  <2>1. PICK c \in Clients :
          \/ \E shape \in Shapes[c] : Manage(c, shape)
          \/ Unmanage(c) \/ Iconify(c) \/ Restore(c) \/ Focus(c)
          \/ Raise(c) \/ Lower(c) \/ Restack(c)
    BY <1>1 DEF ClientStep
  <2>2. ~Unmanage(c)
    BY DEF Unmanage, LeavesStack
  <2>3. Iconify(c) => SettledNext
    <3>1. Iconify(c) => ~(focused = c /\ Usable = {c})
      BY DEF Iconify, LeavesStack
    <3> QED BY <3>1, IconifySettles
  <2> QED BY <2>1, <2>2, <2>3, ManageSettles, MovesSettle, FocusSettles
<1>2. CASE ShapeStep
  <2>1. PICK c \in Clients, coverage \in {"No", "Coverage"} : \E s \in Shapes[c] :
          \/ SetRelationships(c, s.transientFor, s.group)
          \/ SetLayer(c, s.layer)
          \/ SetPolicy(c, s.role, coverage)
          \/ \E b \in BOOLEAN : SetFullscreen(c, b, s.output, coverage)
          \/ MoveTo(c, s.output, coverage)
          \/ MoveFullscreen(c, s.output)
    BY <1>2 DEF ShapeStep
  <2>2. PICK s \in Shapes[c] :
          \/ SetRelationships(c, s.transientFor, s.group)
          \/ SetLayer(c, s.layer)
          \/ SetPolicy(c, s.role, coverage)
          \/ \E b \in BOOLEAN : SetFullscreen(c, b, s.output, coverage)
          \/ MoveTo(c, s.output, coverage)
          \/ MoveFullscreen(c, s.output)
    BY <2>1
  <2>3. ASSUME SetRelationships(c, s.transientFor, s.group)
        PROVE  SettledNext
    <3>1. /\ c \in Managed
          /\ Reshape(c, [clients[c] EXCEPT !.transientFor = s.transientFor, !.group = s.group])
      BY <2>3 DEF SetRelationships
    <3> QED BY <3>1, ReshapeSettles
  <2>4. ASSUME SetLayer(c, s.layer)
        PROVE  SettledNext
    <3>1. c \in Managed /\ Reshape(c, [clients[c] EXCEPT !.layer = s.layer])
      BY <2>4 DEF SetLayer
    <3> QED BY <3>1, ReshapeSettles
  <2>5. ASSUME NEW b \in BOOLEAN, SetFullscreen(c, b, s.output, coverage)
        PROVE  SettledNext
    <3>1. /\ c \in Managed
          /\ Reshape(c, [clients[c] EXCEPT !.covering = IF b THEN "Fullscreen" ELSE coverage,
                                        !.output = s.output])
      BY <2>5 DEF SetFullscreen
    <3> QED BY <3>1, ReshapeSettles
  <2>6. ASSUME MoveTo(c, s.output, coverage)
        PROVE  SettledNext
    <3>1. ~(clients[c].covering = "No" /\ coverage = "No")
      <4> SUFFICES ASSUME clients[c].covering = "No", coverage = "No" PROVE LeavesStack
        OBVIOUS
      <4>1. c \in Managed /\ MoveTo(c, s.output, "No")
        BY <2>6, SMT DEF MoveTo, Commit
      <4> QED BY <4>1 DEF LeavesStack
    <3> QED BY <2>6, <3>1, MoveToSettles
  <2>7. ~MoveFullscreen(c, s.output)
    <3>1. MoveFullscreen(c, s.output) => c \in Managed
      BY DEF MoveFullscreen
    <3> QED BY <3>1 DEF LeavesStack
  <2> QED BY <2>2, <2>3, <2>4, <2>5, <2>6, <2>7, SetPolicySettles
<1>3. CASE ClearFocus
  BY <1>3, FocusSettles
<1> QED BY <1>1, <1>2, <1>3 DEF Next

\* A settled stack stays settled whatever handler runs, if its demands can be met: what
\* each handler enforces covers what it changed, the focus decides nothing when no
\* client covers its output, and what is enforced once stays when it is enforced again.
THEOREM SettledStays == Spec => StackStaysSettled
<1>1. Init => FocusTakes
  BY DEF Init, FocusTakes
<1>2. IInv /\ FocusTakes /\ [Next]_vars => (IInv /\ FocusTakes)'
  BY NextKeeps, FocusTakesKept
<1>3. IInv /\ FocusTakes /\ [Next]_vars => [SettledKept \/ LeavesStack]_vars
  BY StepSettles
<1>4. Spec => [][SettledKept \/ LeavesStack]_vars
  BY <1>1, <1>2, <1>3, InitIInv, PTL DEF Spec
<1> QED BY <1>4 DEF StackStaysSettled
=============================================================================
