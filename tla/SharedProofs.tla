----------------------------- MODULE SharedProofs -----------------------------
(***************************************************************************)
(* Proofs about what both backends share: the set of clients and the       *)
(* saving of files.                                                        *)
(*                                                                         *)
(* The set of clients.  Type correctness and consistency of ClientSet, the *)
(* agreement of the focus histories with the workspaces of their clients,  *)
(* what becomes of the focus and where focus requests end, for every set   *)
(* of clients, every bound on the workspaces and every choice of the       *)
(* values clients have.                                                    *)
(*                                                                         *)
(* Files.  FileSaving implements AtomicFiles, for any files and processes  *)
(* and any bounds: every step of a saver, of the kernel and of the power   *)
(* maps to a step of AtomicFiles or to none.  The invariant this rests on: *)
(* whatever a file has ever been is a whole document that is on the disk   *)
(* (a saver makes it durable before it gives it its name), and a saver     *)
(* that is about to report success finds its document among those that a   *)
(* loss of power cannot take away, where the directory is made durable.    *)
(***************************************************************************)
EXTENDS ClientSet, FileSaving, FiniteSetTheorems, SequenceTheorems, WellFoundedInduction, TLAPS

(* ---- What the operators of UniqueSeqs return, for every sequence ---- *)
\* The rank of a member of K, counted from below.
Rank(K, i) == Cardinality(K \cap 1..i)

\* A set of positions is finite.
LEMMA PositionsFinite ==
  ASSUME NEW n \in Nat, NEW K \in SUBSET (1..n)
  PROVE  IsFiniteSet(K) /\ Cardinality(K) \in Nat
<1>1. IsFiniteSet(1..n)
  <2>1. 1 \in Int /\ n \in Int
    OBVIOUS
  <2> QED BY ONLY <2>1, FS_Interval
<1>2. IsFiniteSet(K)
  BY <1>1, FS_Subset
<1> QED BY <1>2, FS_CardinalityType

\* Ranks are strictly increasing, so no two members of K have the same.
LEMMA RankIncreases ==
  ASSUME NEW n \in Nat, NEW K \in SUBSET (1..n), NEW i \in K, NEW j \in K, i < j
  PROVE  Rank(K, i) < Rank(K, j)
<1>1. IsFiniteSet(K)
  BY PositionsFinite
<1>2. IsFiniteSet(K \cap 1..j) /\ Cardinality(K \cap 1..j) \in Nat
  BY <1>1, FS_Subset, FS_CardinalityType
<1>3. K \cap 1..i \in SUBSET (K \cap 1..j)
  OBVIOUS
<1>4. j \in K \cap 1..j /\ j \notin K \cap 1..i
  OBVIOUS
<1>5. /\ IsFiniteSet(K \cap 1..i)
      /\ Cardinality(K \cap 1..i) <= Cardinality(K \cap 1..j)
      /\ Cardinality(K \cap 1..i) # Cardinality(K \cap 1..j)
  BY <1>2, <1>3, <1>4, FS_Subset
<1>6. Cardinality(K \cap 1..i) \in Nat
  BY <1>5, FS_CardinalityType
<1> QED BY <1>2, <1>5, <1>6 DEF Rank

\* Every number up to the size of K is the rank of one of its members.
LEMMA RankExists ==
  ASSUME NEW n \in Nat, NEW K \in SUBSET (1..n), NEW k \in 1..Cardinality(K)
  PROVE  \E i \in K : Rank(K, i) = k
<1> DEFINE size == Cardinality(K)
           rank == [i \in K |-> Rank(K, i)]
<1>1. IsFiniteSet(K) /\ size \in Nat
  BY PositionsFinite
<1>2. ASSUME NEW i \in K
      PROVE  Rank(K, i) \in 1..size
  <2>1. K \cap 1..i \in SUBSET K /\ i \in K \cap 1..i
    OBVIOUS
  <2>2. IsFiniteSet(K \cap 1..i) /\ Cardinality(K \cap 1..i) <= size
    BY <1>1, <2>1, FS_Subset
  <2>3. Cardinality(K \cap 1..i) \in Nat
    BY <2>2, FS_CardinalityType
  <2>4. Cardinality(K \cap 1..i) # 0
    BY <2>1, <2>2, FS_EmptySet
  <2> QED BY <1>1, <2>2, <2>3, <2>4 DEF Rank
<1>3. rank \in [K -> 1..size]
  BY <1>2
<1>4. \A i, j \in K : rank[i] = rank[j] => i = j
  <2> SUFFICES ASSUME NEW i \in K, NEW j \in K, i # j
               PROVE  rank[i] # rank[j]
    OBVIOUS
  <2>1. rank[i] \in Nat /\ rank[j] \in Nat
    BY <1>1, <1>3
  <2>2. i < j => Rank(K, i) < Rank(K, j)
    BY RankIncreases
  <2>3. j < i => Rank(K, j) < Rank(K, i)
    BY RankIncreases
  <2>4. rank[i] = Rank(K, i) /\ rank[j] = Rank(K, j)
    OBVIOUS
  <2>5. i \in Nat /\ j \in Nat
    OBVIOUS
  <2> QED BY <2>1, <2>2, <2>3, <2>4, <2>5
<1>5. rank \in Injection(K, 1..size)
  BY <1>3, <1>4 DEF Injection, IsInjective
<1>6. IsFiniteSet(1..size) /\ Cardinality(1..size) = size
  BY <1>1, FS_Interval
<1>7. rank \in Surjection(K, 1..size)
  <2> HIDE DEF rank
  <2> QED BY <1>5, <1>6, FS_Injection
<1> QED BY <1>7 DEF Surjection

\* The positions Keep reads: one for each position it fills, rising with it.
LEMMA KeepPositions ==
  ASSUME NEW S, NEW s \in Seq(S), NEW T
  PROVE  /\ KeptAt(s, T) \in SUBSET (1..Len(s))
         /\ Cardinality(KeptAt(s, T)) \in Nat
         /\ DOMAIN Keep(s, T) = 1..Cardinality(KeptAt(s, T))
         /\ \A k \in 1..Cardinality(KeptAt(s, T)) :
              \E i \in KeptAt(s, T) :
                /\ Rank(KeptAt(s, T), i) = k
                /\ Keep(s, T)[k] = s[i]
<1> DEFINE K == KeptAt(s, T)
           at(k) == CHOOSE i \in K : Rank(K, i) = k
<1>1. K \in SUBSET (1..Len(s)) /\ Len(s) \in Nat
  BY DEF KeptAt
<1>2. IsFiniteSet(K) /\ Cardinality(K) \in Nat
  BY <1>1, PositionsFinite
<1>3. Keep(s, T) = [k \in 1..Cardinality(K) |-> s[at(k)]]
  BY DEF Keep, Rank
<1>4. ASSUME NEW k \in 1..Cardinality(K)
      PROVE  at(k) \in K /\ Rank(K, at(k)) = k
  <2>1. \E i \in K : Rank(K, i) = k
    <3> HIDE DEF K
    <3> QED BY <1>1, RankExists
  <2> QED BY <2>1
<1> QED
  <2> HIDE DEF K, at
  <2>1. \A k \in 1..Cardinality(K) : Keep(s, T)[k] = s[at(k)]
    BY <1>3
  <2>2. DOMAIN Keep(s, T) = 1..Cardinality(K)
    BY <1>3
  <2>3. \A k \in 1..Cardinality(K) :
          \E i \in K : Rank(K, i) = k /\ Keep(s, T)[k] = s[i]
    BY <1>4, <2>1
  <2> QED BY <1>1, <1>2, <2>2, <2>3 DEF K

\* Vec::retain returns a sequence of the members it was asked to keep, all of
\* them, and repeats none that was not repeated.
LEMMA KeepFacts ==
  ASSUME NEW S, NEW s \in Seq(S), NEW T
  PROVE  /\ Keep(s, T) \in Seq(S)
         /\ Members(Keep(s, T)) = Members(s) \cap T
         /\ Unique(s) => Unique(Keep(s, T))
<1> DEFINE K == KeptAt(s, T)
           size == Cardinality(K)
           kept == Keep(s, T)
<1>1. /\ K \in SUBSET (1..Len(s))
      /\ size \in Nat
      /\ DOMAIN kept = 1..size
      /\ \A k \in 1..size : \E i \in K : Rank(K, i) = k /\ kept[k] = s[i]
  BY KeepPositions
<1>2. \A i \in K : i \in 1..Len(s) /\ s[i] \in S /\ s[i] \in T
  BY <1>1, ElementOfSeq DEF KeptAt
<1>3. Len(s) \in Nat
  OBVIOUS
<1>4. kept = [k \in 1..size |-> kept[k]]
  BY DEF Keep
<1> HIDE DEF kept, size
<1>5. kept \in Seq(S) /\ Len(kept) = size
  <2>1. \A k \in 1..size : kept[k] \in S
    BY <1>1, <1>2
  <2>2. kept \in [1..size -> S]
    BY <1>4, <2>1
  <2> QED BY <1>1, <2>2
<1>6. Members(kept) \subseteq Members(s) \cap T
  BY <1>1, <1>2, <1>5 DEF Members
<1>7. ASSUME NEW i \in K
      PROVE  s[i] \in Members(kept)
  <2>1. Rank(K, i) \in 1..size
    <3>1. IsFiniteSet(K)
      BY <1>1, <1>3, PositionsFinite
    <3>2. IsFiniteSet(K \cap 1..i) /\ Cardinality(K \cap 1..i) <= size
      BY <3>1, FS_Subset DEF size
    <3>3. Cardinality(K \cap 1..i) \in Nat
      BY <3>2, FS_CardinalityType
    <3>4. i \in K \cap 1..i
      BY <1>2, <1>3
    <3>5. Cardinality(K \cap 1..i) # 0
      BY <3>2, <3>4, FS_EmptySet
    <3> QED BY <1>1, <3>2, <3>3, <3>5 DEF Rank
  <2>2. PICK j \in K : Rank(K, j) = Rank(K, i) /\ kept[Rank(K, i)] = s[j]
    BY <1>1, <2>1
  <2>3. j = i
    <3>1. i \in Nat /\ j \in Nat /\ Rank(K, i) \in Nat
      BY <1>1, <1>2, <1>3, <2>1
    <3>2. ~(i < j) /\ ~(j < i)
      <4> HIDE DEF K
      <4>1. i < j => Rank(K, i) < Rank(K, j)
        BY <1>1, <1>3, RankIncreases
      <4>2. j < i => Rank(K, j) < Rank(K, i)
        BY <1>1, <1>3, RankIncreases
      <4> QED BY <2>2, <3>1, <4>1, <4>2
    <3> QED BY <3>1, <3>2
  <2> QED BY <1>5, <2>1, <2>2, <2>3 DEF Members
<1>8. Members(s) \cap T \subseteq Members(kept)
  BY <1>7 DEF Members, KeptAt
<1>9. ASSUME Unique(s), NEW k \in 1..size, NEW l \in 1..size, kept[k] = kept[l]
      PROVE  k = l
  <2>1. PICK i \in K : Rank(K, i) = k /\ kept[k] = s[i]
    BY <1>1
  <2>2. PICK j \in K : Rank(K, j) = l /\ kept[l] = s[j]
    BY <1>1
  <2>3. i = j
    BY <1>2, <1>9, <2>1, <2>2 DEF Unique
  <2> QED BY <2>1, <2>2, <2>3
<1> QED BY <1>5, <1>6, <1>8, <1>9 DEF Unique, kept

\* A list of what was reported repeats nobody, whatever the report repeats.
LEMMA KeepOnceFacts ==
  ASSUME NEW S, NEW s \in Seq(S), NEW T
  PROVE  /\ KeepOnce(s, T) \in Seq(S) /\ Unique(KeepOnce(s, T))
         /\ Members(KeepOnce(s, T)) \subseteq Members(s) \cap T
<1> DEFINE all == [i \in 1..Len(s) |-> i]
           places == Keep(all, FirstAt(s, T))
           n == Len(places)
           once == KeepOnce(s, T)
<1>1. Len(s) \in Nat /\ \A i \in 1..Len(s) : s[i] \in S
  BY ElementOfSeq
<1>2. all \in Seq(Nat) /\ Len(all) = Len(s) /\ Unique(all)
  BY <1>1 DEF Unique
<1>3. places \in Seq(Nat) /\ Unique(places) /\ Members(places) \subseteq FirstAt(s, T)
  <2> HIDE DEF all
  <2> QED BY <1>2, KeepFacts
<1>4. once = [k \in 1..n |-> s[places[k]]]
  BY DEF KeepOnce
<1> HIDE DEF all, places, once
<1>5. n \in Nat /\ \A k \in 1..n : places[k] \in FirstAt(s, T)
  BY <1>3 DEF Members
<1> HIDE DEF n
<1>6. \A i \in FirstAt(s, T) : i \in 1..Len(s) /\ s[i] \in T /\ \A j \in 1..(i - 1) : s[j] # s[i]
  BY DEF FirstAt, KeptAt
<1>7. \A i, j \in FirstAt(s, T) : s[i] = s[j] => i = j
  BY <1>1, <1>6
<1>8. \A k \in 1..n : once[k] \in S /\ once[k] \in Members(s) \cap T
  BY <1>1, <1>4, <1>5, <1>6 DEF Members
<1>9. once \in Seq(S) /\ Len(once) = n
  BY <1>4, <1>5, <1>8
<1>10. ASSUME NEW k \in 1..n, NEW l \in 1..n, once[k] = once[l] PROVE k = l
  <2>1. places[k] = places[l]
    BY <1>4, <1>5, <1>7, <1>10
  <2>2. n = Len(places)
    BY DEF n
  <2> QED BY <1>3, <2>1, <2>2 DEF Unique
<1>11. Unique(once) /\ Members(once) \subseteq Members(s) \cap T
  BY <1>8, <1>9, <1>10 DEF Unique, Members
<1> QED BY <1>9, <1>11 DEF once

\* Two duplicate-free sequences without a common member make a third.
LEMMA ConcatFacts ==
  ASSUME NEW S, NEW s \in Seq(S), NEW t \in Seq(S)
  PROVE  /\ s \o t \in Seq(S)
         /\ Members(s \o t) = Members(s) \cup Members(t)
         /\ Unique(s) /\ Unique(t) /\ Members(s) \cap Members(t) = {} => Unique(s \o t)
<1> DEFINE st == s \o t
           m == Len(s)
           n == Len(t)
<1>1. /\ st \in Seq(S)
      /\ Len(st) = m + n
      /\ \A i \in 1..(m + n) : st[i] = IF i <= m THEN s[i] ELSE t[i - m]
  BY ConcatProperties
<1>2. m \in Nat /\ n \in Nat
  OBVIOUS
<1> HIDE DEF st, m, n
<1>3. \A i \in 1..m : i \in 1..Len(st) /\ st[i] = s[i]
  BY <1>1, <1>2
<1>4. \A j \in 1..n : m + j \in 1..Len(st) /\ st[m + j] = t[j]
  <2> SUFFICES ASSUME NEW j \in 1..n
               PROVE  m + j \in 1..Len(st) /\ st[m + j] = t[j]
    OBVIOUS
  <2>1. m + j \in 1..(m + n) /\ ~(m + j <= m) /\ (m + j) - m = j
    BY <1>2
  <2> QED BY <1>1, <2>1
<1>5. \A i \in 1..Len(st) : i \notin 1..m => i - m \in 1..n
  BY <1>1, <1>2
<1>6. \A i \in 1..Len(st) :
        \/ i \in 1..m /\ st[i] = s[i]
        \/ i \notin 1..m /\ i - m \in 1..n /\ st[i] = t[i - m]
  <2> SUFFICES ASSUME NEW i \in 1..Len(st), i \notin 1..m
               PROVE  i - m \in 1..n /\ st[i] = t[i - m]
    BY <1>3
  <2>1. i \in 1..(m + n) /\ ~(i <= m) /\ i - m \in 1..n
    BY <1>1, <1>2, <1>5
  <2> QED BY <1>1, <2>1
<1>7. Members(s) = {s[i] : i \in 1..m} /\ Members(t) = {t[j] : j \in 1..n}
  BY DEF Members, m, n
<1>8. Members(st) = Members(s) \cup Members(t)
  <2>1. Members(st) \subseteq Members(s) \cup Members(t)
    BY <1>6, <1>7 DEF Members
  <2>2. Members(s) \subseteq Members(st)
    BY <1>3, <1>7 DEF Members
  <2>3. Members(t) \subseteq Members(st)
    BY <1>4, <1>7 DEF Members
  <2> QED BY <2>1, <2>2, <2>3
<1>9. ASSUME Unique(s), Unique(t), Members(s) \cap Members(t) = {},
             NEW i \in 1..Len(st), NEW j \in 1..Len(st), st[i] = st[j]
      PROVE  i = j
  <2>1. CASE i \in 1..m /\ j \in 1..m
    BY <1>3, <1>9, <2>1 DEF Unique, m
  <2>2. CASE i \notin 1..m /\ j \notin 1..m
    <3>1. /\ i - m \in 1..n /\ j - m \in 1..n
          /\ t[i - m] = t[j - m]
      BY <1>6, <1>9, <2>2
    <3>2. i - m = j - m
      BY <1>9, <3>1 DEF Unique, n
    <3> QED BY <1>1, <1>2, <3>2
  <2>3. CASE i \in 1..m /\ j \notin 1..m
    <3>1. st[i] \in Members(s)
      BY <1>3, <1>7, <2>3
    <3>2. st[j] \in Members(t)
      BY <1>6, <1>7, <2>3
    <3> QED BY <1>9, <3>1, <3>2
  <2>4. CASE i \notin 1..m /\ j \in 1..m
    <3>1. st[j] \in Members(s)
      BY <1>3, <1>7, <2>4
    <3>2. st[i] \in Members(t)
      BY <1>6, <1>7, <2>4
    <3> QED BY <1>9, <3>1, <3>2
  <2> QED BY <2>1, <2>2, <2>3, <2>4
<1> QED BY <1>1, <1>8, <1>9 DEF Unique, st

\* A one-member sequence.
LEMMA SingletonFacts ==
  ASSUME NEW S, NEW e \in S
  PROVE  <<e>> \in Seq(S) /\ Members(<<e>>) = {e} /\ Unique(<<e>>)
BY DEF Members, Unique

\* The empty sequence.
LEMMA EmptyFacts ==
  ASSUME NEW S
  PROVE  <<>> \in Seq(S) /\ Members(<<>>) = {} /\ Unique(<<>>)
BY DEF Members, Unique

\* Only the empty sequence has no members.
LEMMA NoMembers ==
  ASSUME NEW S, NEW s \in Seq(S), Members(s) = {}
  PROVE  s = <<>>
<1>1. Len(s) \in Nat /\ 1..Len(s) = {}
  BY DEF Members
<1>2. Len(s) \notin Nat \ {0}
  <2>1. Len(s) \in Nat \ {0} => 1 \in 1..Len(s)
    OBVIOUS
  <2> QED BY <1>1, <2>1
<1> QED BY <1>2, EmptySeq

\* Append is concatenation with a one-member sequence.
LEMMA AppendFacts ==
  ASSUME NEW S, NEW s \in Seq(S), NEW e \in S
  PROVE  /\ Append(s, e) \in Seq(S)
         /\ Members(Append(s, e)) = Members(s) \cup {e}
         /\ Unique(s) /\ e \notin Members(s) => Unique(Append(s, e))
<1>1. Append(s, e) = s \o <<e>>
  OBVIOUS
<1>2. <<e>> \in Seq(S) /\ Members(<<e>>) = {e} /\ Unique(<<e>>)
  BY SingletonFacts
<1> DEFINE single == <<e>>
<1> HIDE DEF single
<1>3. /\ s \o single \in Seq(S)
      /\ Members(s \o single) = Members(s) \cup Members(single)
      /\ Unique(s) /\ Unique(single) /\ Members(s) \cap Members(single) = {}
         => Unique(s \o single)
  BY <1>2, ConcatFacts DEF single
<1> QED BY <1>1, <1>2, <1>3 DEF single

\* retain of all members but one.
LEMMA WithoutFacts ==
  ASSUME NEW S, NEW s \in Seq(S), NEW e
  PROVE  /\ Without(s, e) \in Seq(S)
         /\ Members(Without(s, e)) = Members(s) \ {e}
         /\ Unique(s) => Unique(Without(s, e))
<1>1. Members(s) \cap (Members(s) \ {e}) = Members(s) \ {e}
  OBVIOUS
<1> QED BY <1>1, KeepFacts DEF Without

\* Moving a member to either end keeps the rest and repeats nothing.
LEMMA MoveFacts ==
  ASSUME NEW S, NEW s \in Seq(S), NEW e \in S
  PROVE  /\ MoveToEnd(s, e) \in Seq(S)
         /\ Members(MoveToEnd(s, e)) = Members(s) \cup {e}
         /\ Unique(s) => Unique(MoveToEnd(s, e))
         /\ MoveToFront(s, e) \in Seq(S)
         /\ Members(MoveToFront(s, e)) = Members(s) \cup {e}
         /\ Unique(s) => Unique(MoveToFront(s, e))
<1> DEFINE rest == Without(s, e)
<1>1. /\ rest \in Seq(S) /\ Members(rest) = Members(s) \ {e}
      /\ Unique(s) => Unique(rest)
  BY WithoutFacts
<1>2. <<e>> \in Seq(S) /\ Members(<<e>>) = {e} /\ Unique(<<e>>)
  BY SingletonFacts
<1> HIDE DEF rest
<1>3. /\ Append(rest, e) \in Seq(S) /\ Members(Append(rest, e)) = Members(rest) \cup {e}
      /\ Unique(s) => Unique(Append(rest, e))
  BY <1>1, AppendFacts
<1> DEFINE single == <<e>>
<1> HIDE DEF single
<1>4. /\ single \o rest \in Seq(S)
      /\ Members(single \o rest) = Members(single) \cup Members(rest)
      /\ Unique(single) /\ Unique(rest) /\ Members(single) \cap Members(rest) = {}
         => Unique(single \o rest)
  BY <1>1, <1>2, ConcatFacts DEF single
<1>5. /\ MoveToEnd(s, e) = Append(rest, e)
      /\ MoveToFront(s, e) = single \o rest
  BY DEF MoveToEnd, MoveToFront, rest, single
<1> QED BY <1>1, <1>2, <1>3, <1>4, <1>5 DEF single

\* The last member in a set is a member in that set.
LEMMA LastInFacts ==
  ASSUME NEW S, NEW s \in Seq(S), NEW T, Members(s) \cap T # {}
  PROVE  LastIn(s, T) \in Members(s) \cap T
<1> DEFINE K == KeptAt(s, T)
           size == Cardinality(K)
<1>1. K \in SUBSET (1..Len(s)) /\ K # {} /\ Len(s) \in Nat
  BY DEF KeptAt, Members
<1>2. IsFiniteSet(K) /\ size \in Nat
  BY <1>1, PositionsFinite
<1>3. size # 0
  BY <1>1, <1>2, FS_EmptySet
<1>4. PICK i \in K : Rank(K, i) = size
  <2> HIDE DEF K
  <2>1. size \in 1..Cardinality(K)
    BY <1>2, <1>3
  <2> QED BY <1>1, <2>1, RankExists
<1>5. K \cap 1..i = K
  <2>1. K \cap 1..i \in SUBSET K /\ Cardinality(K \cap 1..i) = size
    BY <1>4 DEF Rank
  <2> QED BY <1>2, <2>1, FS_Subset
<1>6. \A j \in K : j <= i
  BY <1>1, <1>5
<1>7. LastIn(s, T) = s[CHOOSE j \in K : \A l \in K : l <= j]
  BY DEF LastIn
<1>8. PICK m \in K : LastIn(s, T) = s[m]
  BY <1>6, <1>7
<1> QED BY <1>8 DEF KeptAt, Members

\* The members of a sequence are finitely many.
LEMMA MembersFinite ==
  ASSUME NEW S, NEW s \in Seq(S)
  PROVE  IsFiniteSet(Members(s))
<1> DEFINE at == [i \in 1..Len(s) |-> s[i]]
<1>1. IsFiniteSet(1..Len(s))
  <2>1. Len(s) \in Nat
    OBVIOUS
  <2> QED BY <2>1, PositionsFinite
<1>2. at \in Surjection(1..Len(s), Members(s))
  BY DEF Surjection, Members
<1> HIDE DEF at
<1> QED BY <1>1, <1>2, FS_Surjection

\* A listing of a finite set has exactly its members.
LEMMA ListingFacts ==
  ASSUME NEW S, IsFiniteSet(S), NEW s \in Listings(S)
  PROVE  s \in Seq(S) /\ Unique(s) /\ Members(s) = S
<1> DEFINE n == Cardinality(S)
<1>1. n \in Nat
  BY FS_CardinalityType
<1>2. s \in [1..n -> S] /\ Unique(s)
  BY DEF Listings
<1> HIDE DEF n
<1>3. s \in Seq(S) /\ Len(s) = n
  BY <1>1, <1>2
<1>4. s \in Injection(1..n, S)
  BY <1>2, <1>3 DEF Injection, IsInjective, Unique
<1>5. Cardinality(1..n) = n
  <2>1. 1 \in Int /\ n \in Int
    BY <1>1
  <2>2. Cardinality(1..n) = IF 1 > n THEN 0 ELSE n - 1 + 1
    BY ONLY <2>1, FS_Interval
  <2> QED BY <1>1, <2>2
<1>6. s \in Surjection(1..n, S)
  BY <1>4, <1>5, FS_Injection DEF n
<1> QED BY <1>2, <1>3, <1>6 DEF Surjection, Members

(* ---- The client set ---- *)
\* The inductive invariant: TypeOK and Consistent, regrouped by the variables
\* they constrain so that a step only has to look at the groups it touches.
ClientsOK ==
  /\ Managed \subseteq Clients
  /\ clients \in [Managed -> ClientType]
  /\ \A c \in Managed :
       clients[c].workspace # AllWorkspaces => clients[c].workspace < workspaceCount
OrdersOK ==
  /\ managementOrder \in Seq(Clients) /\ stacking \in Seq(Clients)
  /\ OrdersMatchManaged
SpacesOK ==
  /\ workspaceCount \in 1..MaxWorkspaces
  /\ currentWorkspace \in 0..(workspaceCount - 1)
  /\ lastWorkspace \in 0..(workspaceCount - 1)
  /\ showingDesktop \in BOOLEAN
HistoriesOK ==
  /\ focusOrder \in [WorkspaceIds -> Seq(Clients)]
  /\ HistoriesMatchManaged
FocusOK == focused \in Managed \cup {NoClient}

DataOK == ClientsOK /\ OrdersOK /\ SpacesOK /\ HistoriesOK
IInv == DataOK /\ FocusOK

LEMMA IInvMeaning == IInv <=> TypeOK /\ Consistent
<1> USE WorkspacesAssumption
<1>1. IInv => TypeOK
  BY DEF IInv, DataOK, ClientsOK, OrdersOK, SpacesOK, HistoriesOK, FocusOK, TypeOK,
         WorkspaceIds
<1>2. IInv => Consistent
  BY SentinelsAssumption
     DEF IInv, DataOK, ClientsOK, OrdersOK, SpacesOK, HistoriesOK, FocusOK,
         Consistent, WorkspacesExist, FocusIsManaged
<1>3. TypeOK /\ Consistent => IInv
  BY DEF IInv, DataOK, ClientsOK, OrdersOK, SpacesOK, HistoriesOK, FocusOK, TypeOK,
         Consistent, WorkspacesExist, FocusIsManaged, WorkspaceIds
<1> QED BY <1>1, <1>2, <1>3

(* ---- Facts about the operators ---- *)
\* Changing one field of a client leaves the others alone.
LEMMA FieldFacts ==
  ASSUME NEW r \in ClientType
  PROVE  /\ \A a \in Assignments : /\ [r EXCEPT !.workspace = a] \in ClientType
                                   /\ [r EXCEPT !.workspace = a].workspace = a
         /\ \A b \in BOOLEAN : /\ [r EXCEPT !.iconic = b] \in ClientType
                               /\ [r EXCEPT !.iconic = b].workspace = r.workspace
         /\ \A b \in BOOLEAN : /\ [r EXCEPT !.shaded = b] \in ClientType
                               /\ [r EXCEPT !.shaded = b].workspace = r.workspace
         /\ \A b \in BOOLEAN : /\ [r EXCEPT !.modal = b] \in ClientType
                               /\ [r EXCEPT !.modal = b].workspace = r.workspace
         /\ \A p \in Policies : /\ [r EXCEPT !.policy = p] \in ClientType
                                /\ [r EXCEPT !.policy = p].workspace = r.workspace
         /\ \A n \in Presentations :
              /\ [r EXCEPT !.presentation = n] \in ClientType
              /\ [r EXCEPT !.presentation = n].workspace = r.workspace
         /\ \A t \in Transients : /\ [r EXCEPT !.transientFor = t] \in ClientType
                                  /\ [r EXCEPT !.transientFor = t].workspace = r.workspace
BY DEF ClientType

\* Every client a backend may manage is well formed.
LEMMA NewClientsTyped == NewClients \subseteq ClientType
BY ValuesAssumption DEF NewClients, ClientType, RelationType

\* A checked assignment names an existing workspace.
LEMMA ValidFacts ==
  ASSUME SpacesOK, NEW r \in Assignments
  PROVE  /\ ValidAssignment(r) \in Assignments
         /\ ValidAssignment(r) # AllWorkspaces =>
              ValidAssignment(r) \in 0..(workspaceCount - 1)
         /\ HistoryOf(ValidAssignment(r)) \in 0..(workspaceCount - 1)
BY WorkspacesAssumption, SentinelsAssumption
   DEF ValidAssignment, HistoryOf, Assignments, WorkspaceIds, SpacesOK

\* A workspace below an admissible count is a workspace.
LEMMA BelowCount ==
  ASSUME NEW n \in 1..MaxWorkspaces, NEW w \in 0..(n - 1)
  PROVE  w \in WorkspaceIds
BY WorkspacesAssumption DEF WorkspaceIds

\* recover_focus chooses a managed client or none.
LEMMA RecoveredChoice ==
  ASSUME NEW C, NEW history \in Seq(C), NEW order \in Seq(C), NEW U, NEW none
  PROVE  (IF Members(history) \cap U # {} THEN LastIn(history, U)
          ELSE IF Members(order) \cap U # {} THEN LastIn(order, U)
          ELSE none) \in U \cup {none}
BY LastInFacts

LEMMA RecoveredOK ==
  ASSUME DataOK', focused' = RecoveredFocus'
  PROVE  FocusOK'
<1>1. currentWorkspace' \in WorkspaceIds
  <2>1. /\ workspaceCount' \in 1..MaxWorkspaces
        /\ currentWorkspace' \in 0..(workspaceCount' - 1)
    BY DEF DataOK, SpacesOK
  <2> QED BY <2>1, BelowCount
<1>2. focusOrder'[currentWorkspace'] \in Seq(Clients) /\ stacking' \in Seq(Clients)
  BY <1>1 DEF DataOK, HistoriesOK, OrdersOK
<1>3. RecoveredFocus' \in Usable' \cup {NoClient}
  BY <1>2, RecoveredChoice DEF RecoveredFocus
<1> QED BY <1>3 DEF FocusOK, Usable

\* record_workspace_membership leaves well-formed histories.
LEMMA RecordFacts ==
  ASSUME DataOK, NEW moved \in Seq(Clients), Unique(moved), Members(moved) \subseteq Managed,
         NEW a, HistoryOf(a) \in 0..(workspaceCount - 1)
  PROVE  /\ RecordMembership(moved, a) \in [WorkspaceIds -> Seq(Clients)]
         /\ \A w \in WorkspaceIds :
              /\ Unique(RecordMembership(moved, a)[w])
              /\ Members(RecordMembership(moved, a)[w]) \subseteq Managed
              /\ w >= workspaceCount => RecordMembership(moved, a)[w] = <<>>
<1> DEFINE others(w) == Keep(focusOrder[w], Clients \ Members(moved))
<1>1. ASSUME NEW w \in WorkspaceIds
      PROVE  /\ others(w) \in Seq(Clients)
             /\ Unique(others(w))
             /\ Members(others(w)) = Members(focusOrder[w]) \cap (Clients \ Members(moved))
             /\ Members(focusOrder[w]) \subseteq Managed
             /\ w >= workspaceCount => others(w) = <<>>
  <2>1. /\ focusOrder[w] \in Seq(Clients) /\ Unique(focusOrder[w])
        /\ Members(focusOrder[w]) \subseteq Managed
        /\ w >= workspaceCount => focusOrder[w] = <<>>
    BY DEF DataOK, HistoriesOK, HistoriesMatchManaged
  <2>2. /\ others(w) \in Seq(Clients) /\ Unique(others(w))
        /\ Members(others(w)) = Members(focusOrder[w]) \cap (Clients \ Members(moved))
    BY <2>1, KeepFacts
  <2>3. w >= workspaceCount => others(w) = <<>>
    <3> HIDE DEF others
    <3> QED BY <2>1, <2>2, EmptyFacts, NoMembers
  <2> QED BY <2>1, <2>2, <2>3
<1> HIDE DEF others
<1>2. \A w \in WorkspaceIds :
        RecordMembership(moved, a)[w] = IF w = HistoryOf(a) THEN others(w) \o moved
                                                            ELSE others(w)
  BY DEF RecordMembership, others
<1>3. ASSUME NEW w \in WorkspaceIds
      PROVE  /\ others(w) \o moved \in Seq(Clients)
             /\ Unique(others(w) \o moved)
             /\ Members(others(w) \o moved) \subseteq Managed
  BY <1>1, ConcatFacts
<1>4. RecordMembership(moved, a) = [w \in WorkspaceIds |-> RecordMembership(moved, a)[w]]
  BY DEF RecordMembership
<1>5. RecordMembership(moved, a) \in [WorkspaceIds -> Seq(Clients)]
  <2>1. \A w \in WorkspaceIds : RecordMembership(moved, a)[w] \in Seq(Clients)
    BY <1>1, <1>2, <1>3
  <2> QED BY <1>4, <2>1
<1>6. \A w \in WorkspaceIds : w >= workspaceCount => w # HistoryOf(a)
  BY DEF DataOK, SpacesOK
<1> QED BY <1>1, <1>2, <1>3, <1>5, <1>6

\* Renumbering the fixed assignments keeps every client well formed.
LEMMA MapFacts ==
  ASSUME DataOK, NEW f, NEW n \in Nat,
         \A w \in 0..(workspaceCount - 1) : f[w] \in WorkspaceIds /\ f[w] < n
  PROVE  /\ MapWorkspaces(f) \in [Managed -> ClientType]
         /\ \A c \in Managed : MapWorkspaces(f)[c].workspace # AllWorkspaces =>
                                 MapWorkspaces(f)[c].workspace < n
<1>1. ASSUME NEW c \in Managed, clients[c].workspace # AllWorkspaces
      PROVE  /\ f[clients[c].workspace] \in WorkspaceIds
             /\ f[clients[c].workspace] < n
  <2>1. clients[c].workspace \in 0..(workspaceCount - 1)
    BY <1>1 DEF DataOK, ClientsOK, SpacesOK, ClientType, Assignments, WorkspaceIds
  <2> QED BY <2>1
<1>2. ASSUME NEW c \in Managed, clients[c].workspace # AllWorkspaces
      PROVE  /\ [clients[c] EXCEPT !.workspace = f[@]] \in ClientType
             /\ [clients[c] EXCEPT !.workspace = f[@]].workspace < n
  <2>1. f[clients[c].workspace] \in Assignments /\ f[clients[c].workspace] < n
    BY <1>1, <1>2 DEF Assignments
  <2>2. clients[c] \in ClientType
    BY DEF DataOK, ClientsOK
  <2> QED BY <2>1, <2>2, FieldFacts
<1> QED BY <1>2 DEF MapWorkspaces, DataOK, ClientsOK

(* ---- Management ---- *)
LEMMA ManagePreserves ==
  ASSUME IInv, NEW c \in Clients, NEW client \in ClientType, Manage(c, client)
  PROVE  IInv'
<1> USE DEF IInv, DataOK
<1> DEFINE a == ValidAssignment(client.workspace)
           w == HistoryOf(a)
           placed == [client EXCEPT !.workspace = a]
<1>1. /\ a \in Assignments
      /\ a # AllWorkspaces => a < workspaceCount
      /\ w \in 0..(workspaceCount - 1)
      /\ w \in WorkspaceIds
  <2>1. client.workspace \in Assignments
    BY DEF ClientType
  <2>2. /\ a \in Assignments
        /\ a # AllWorkspaces => a \in 0..(workspaceCount - 1)
        /\ w \in 0..(workspaceCount - 1)
    BY <2>1, ValidFacts
  <2>3. workspaceCount \in 1..MaxWorkspaces
    BY DEF SpacesOK
  <2>4. a # AllWorkspaces => a < workspaceCount
    BY <2>2, <2>3
  <2>5. w \in WorkspaceIds
    BY <2>2, <2>3, BelowCount
  <2> QED BY <2>2, <2>4, <2>5
<1>2. placed \in ClientType /\ placed.workspace = a
  BY <1>1, FieldFacts
<1> HIDE DEF a, w, placed
<1>3. /\ c \notin Managed
      /\ clients' = [d \in Managed \cup {c} |-> IF d = c THEN placed ELSE clients[d]]
      /\ focusOrder' = [focusOrder EXCEPT ![w] = Append(@, c)]
      /\ managementOrder' = Append(managementOrder, c)
      /\ stacking' = Append(stacking, c)
      /\ UNCHANGED <<workspaceCount, currentWorkspace, lastWorkspace, focused, showingDesktop>>
  BY DEF Manage, workspaces, a, w, placed
<1>4. Managed' = Managed \cup {c}
  BY <1>3 DEF Managed
<1>5. ClientsOK'
  <2>1. clients' \in [Managed' -> ClientType]
    BY <1>2, <1>3, <1>4 DEF ClientsOK
  <2>2. \A d \in Managed' : clients'[d].workspace # AllWorkspaces =>
                              clients'[d].workspace < workspaceCount'
    BY <1>1, <1>2, <1>3, <1>4 DEF ClientsOK
  <2> QED BY <1>4, <2>1, <2>2 DEF ClientsOK
<1>6. OrdersOK'
  BY <1>3, <1>4, AppendFacts DEF OrdersOK, OrdersMatchManaged, Enumerates
<1>7. SpacesOK'
  BY <1>3 DEF SpacesOK
<1>8. HistoriesOK'
  <2>1. /\ Append(focusOrder[w], c) \in Seq(Clients)
        /\ Members(Append(focusOrder[w], c)) = Members(focusOrder[w]) \cup {c}
        /\ Unique(Append(focusOrder[w], c))
    BY <1>1, <1>3, AppendFacts DEF HistoriesOK, HistoriesMatchManaged
  <2>2. ~(w >= workspaceCount)
    BY <1>1 DEF SpacesOK
  <2>3. focusOrder' \in [WorkspaceIds -> Seq(Clients)]
    BY <1>3, <2>1 DEF HistoriesOK
  <2>4. \A v \in WorkspaceIds :
          focusOrder'[v] = IF v = w THEN Append(focusOrder[w], c) ELSE focusOrder[v]
    BY <1>3 DEF HistoriesOK
  <2> QED BY <1>3, <1>4, <2>1, <2>2, <2>3, <2>4 DEF HistoriesOK, HistoriesMatchManaged
<1> QED BY <1>3, <1>4, <1>5, <1>6, <1>7, <1>8 DEF FocusOK

\* A step that leaves the managed clients and the count alone and replaces
\* every history by a well-formed one keeps the histories well formed.
LEMMA HistoriesReplaced ==
  ASSUME NEW h, h \in [WorkspaceIds -> Seq(Clients)],
         \A w \in WorkspaceIds : /\ Unique(h[w]) /\ Members(h[w]) \subseteq Managed
                                 /\ w >= workspaceCount => h[w] = <<>>,
         focusOrder' = h, Managed' = Managed, workspaceCount' = workspaceCount
  PROVE  HistoriesOK'
BY DEF HistoriesOK, HistoriesMatchManaged

\* What a client gets when it is given an assignment.
LEMMA AssignFacts ==
  ASSUME DataOK, NEW r \in Assignments
  PROVE  /\ ValidAssignment(r) \in Assignments
         /\ ValidAssignment(r) # AllWorkspaces => ValidAssignment(r) < workspaceCount
         /\ HistoryOf(ValidAssignment(r)) \in 0..(workspaceCount - 1)
<1>1. workspaceCount \in 1..MaxWorkspaces /\ SpacesOK
  BY DEF DataOK, SpacesOK
<1>2. /\ ValidAssignment(r) \in Assignments
      /\ ValidAssignment(r) # AllWorkspaces => ValidAssignment(r) \in 0..(workspaceCount - 1)
      /\ HistoryOf(ValidAssignment(r)) \in 0..(workspaceCount - 1)
  BY <1>1, ValidFacts
<1> QED BY <1>1, <1>2

LEMMA RefreshPreserves ==
  ASSUME IInv, NEW c \in Clients, NEW client \in ClientType, Refresh(c, client)
  PROVE  IInv'
<1> DEFINE a == ValidAssignment(client.workspace)
           placed == [client EXCEPT !.workspace = a]
<1>1. /\ a \in Assignments
      /\ a # AllWorkspaces => a < workspaceCount
      /\ HistoryOf(a) \in 0..(workspaceCount - 1)
  BY AssignFacts DEF ClientType, IInv
<1>2. placed \in ClientType /\ placed.workspace = a
  BY <1>1, FieldFacts
<1> HIDE DEF a, placed
<1>3. /\ c \in Managed
      /\ clients' = [clients EXCEPT ![c] = placed]
      /\ \/ /\ focusOrder' = RecordMembership(<<c>>, a)
            /\ focused' = RecoveredFocus'
         \/ focusOrder' = focusOrder /\ focused' = focused
      /\ UNCHANGED <<managementOrder, stacking, workspaceCount, currentWorkspace,
                     lastWorkspace, showingDesktop>>
  BY DEF Refresh, workspaces, a, placed
<1>4. Managed' = Managed
  BY <1>3 DEF Managed, IInv, DataOK, ClientsOK
<1>5. ClientsOK'
  <2>1. clients' \in [Managed' -> ClientType]
    BY <1>2, <1>3, <1>4 DEF ClientsOK, IInv, DataOK
  <2>2. \A d \in Managed' : clients'[d].workspace # AllWorkspaces =>
                              clients'[d].workspace < workspaceCount'
    BY <1>1, <1>2, <1>3, <1>4 DEF ClientsOK, IInv, DataOK
  <2> QED BY <1>4, <2>1, <2>2 DEF ClientsOK, IInv, DataOK
<1>6. OrdersOK' /\ SpacesOK'
  BY <1>3, <1>4 DEF IInv, DataOK, OrdersOK, OrdersMatchManaged, SpacesOK
<1>7. CASE focusOrder' = RecordMembership(<<c>>, a) /\ focused' = RecoveredFocus'
  <2>1. <<c>> \in Seq(Clients) /\ Unique(<<c>>) /\ Members(<<c>>) \subseteq Managed
    BY <1>3, SingletonFacts
  <2>2. HistoriesOK'
    BY <1>1, <1>3, <1>4, <1>7, <2>1, RecordFacts, HistoriesReplaced DEF IInv
  <2>3. DataOK'
    BY <1>5, <1>6, <2>2 DEF DataOK
  <2> QED BY <1>7, <2>3, RecoveredOK DEF IInv
<1>8. CASE focusOrder' = focusOrder /\ focused' = focused
  BY <1>3, <1>4, <1>5, <1>6, <1>8
     DEF IInv, DataOK, HistoriesOK, HistoriesMatchManaged, FocusOK
<1> QED BY <1>3, <1>7, <1>8

LEMMA UnmanagePreserves ==
  ASSUME IInv, NEW c \in Clients, Unmanage(c)
  PROVE  IInv'
<1> USE DEF IInv, DataOK
<1>1. /\ c \in Managed
      /\ clients' = [d \in Managed \ {c} |->
                       IF clients[d].transientFor = c
                       THEN [clients[d] EXCEPT !.transientFor = NoTransient] ELSE clients[d]]
      /\ managementOrder' = Without(managementOrder, c)
      /\ stacking' = Without(stacking, c)
      /\ focusOrder' = [w \in WorkspaceIds |-> Without(focusOrder[w], c)]
      /\ UNCHANGED <<workspaceCount, currentWorkspace, lastWorkspace, showingDesktop>>
      /\ focused' = RecoveredFocus' \/ (focused # c /\ focused' = focused)
  BY DEF Unmanage, workspaces
<1>2. Managed' = Managed \ {c}
  BY <1>1 DEF Managed
<1>3. ClientsOK'
  <2>1. \A d \in Managed :
          /\ clients[d] \in ClientType
          /\ [clients[d] EXCEPT !.transientFor = NoTransient] \in ClientType
          /\ [clients[d] EXCEPT !.transientFor = NoTransient].workspace = clients[d].workspace
    BY FieldFacts DEF ClientsOK, Transients
  <2>2. clients' \in [Managed' -> ClientType]
    BY <1>1, <1>2, <2>1
  <2>3. \A d \in Managed' : clients'[d].workspace = clients[d].workspace
    BY <1>1, <1>2, <2>1
  <2> QED BY <1>1, <1>2, <2>2, <2>3 DEF ClientsOK
<1>4. OrdersOK'
  BY <1>1, <1>2, WithoutFacts DEF OrdersOK, OrdersMatchManaged, Enumerates
<1>5. SpacesOK'
  BY <1>1 DEF SpacesOK
<1>6. HistoriesOK'
  <2>1. ASSUME NEW w \in WorkspaceIds
        PROVE  /\ Without(focusOrder[w], c) \in Seq(Clients)
               /\ Unique(Without(focusOrder[w], c))
               /\ Members(Without(focusOrder[w], c)) \subseteq Managed \ {c}
               /\ w >= workspaceCount => Without(focusOrder[w], c) = <<>>
    <3>1. /\ focusOrder[w] \in Seq(Clients) /\ Unique(focusOrder[w])
          /\ Members(focusOrder[w]) \subseteq Managed
          /\ w >= workspaceCount => Members(focusOrder[w]) = {}
      BY EmptyFacts DEF HistoriesOK, HistoriesMatchManaged
    <3>2. /\ Without(focusOrder[w], c) \in Seq(Clients)
          /\ Unique(Without(focusOrder[w], c))
          /\ Members(Without(focusOrder[w], c)) = Members(focusOrder[w]) \ {c}
      BY <3>1, WithoutFacts
    <3> QED BY <3>1, <3>2, NoMembers
  <2>2. focusOrder' \in [WorkspaceIds -> Seq(Clients)]
    BY <1>1, <2>1
  <2> QED BY <1>1, <1>2, <2>1, <2>2 DEF HistoriesOK, HistoriesMatchManaged
<1>7. CASE focused' = RecoveredFocus'
  BY <1>3, <1>4, <1>5, <1>6, <1>7, RecoveredOK
<1>8. CASE focused # c /\ focused' = focused
  BY <1>2, <1>3, <1>4, <1>5, <1>6, <1>8 DEF FocusOK
<1> QED BY <1>1, <1>7, <1>8

(* ---- Focus ---- *)
\* Steps that change neither the clients nor the workspaces nor the orders.
KeepsClients ==
  UNCHANGED <<clients, managementOrder, stacking, workspaceCount, currentWorkspace,
              lastWorkspace>>

\* Moving a managed client within the current history keeps it well formed.
LEMMA CurrentHistoryMoved ==
  ASSUME DataOK, KeepsClients, NEW c \in Managed, NEW s \in Seq(Clients),
         Unique(s), Members(s) \subseteq Managed,
         focusOrder' = [focusOrder EXCEPT ![currentWorkspace] = s]
  PROVE  HistoriesOK'
<1>1. /\ Managed' = Managed /\ workspaceCount' = workspaceCount
      /\ ~(currentWorkspace >= workspaceCount)
  BY DEF KeepsClients, Managed, DataOK, SpacesOK
<1>2. focusOrder \in [WorkspaceIds -> Seq(Clients)]
  BY DEF DataOK, HistoriesOK
<1>3. focusOrder' \in [WorkspaceIds -> Seq(Clients)]
  BY <1>2
<1>4. \A w \in WorkspaceIds :
        focusOrder'[w] = IF w = currentWorkspace THEN s ELSE focusOrder[w]
  BY <1>2
<1> QED BY <1>1, <1>3, <1>4 DEF HistoriesOK, HistoriesMatchManaged, DataOK

\* The history of the current workspace is well formed.
LEMMA CurrentHistory ==
  ASSUME DataOK
  PROVE  /\ focusOrder[currentWorkspace] \in Seq(Clients)
         /\ Unique(focusOrder[currentWorkspace])
         /\ Members(focusOrder[currentWorkspace]) \subseteq Managed
<1>1. currentWorkspace \in WorkspaceIds
  <2>1. workspaceCount \in 1..MaxWorkspaces /\ currentWorkspace \in 0..(workspaceCount - 1)
    BY DEF DataOK, SpacesOK
  <2> QED BY <2>1, BelowCount
<1> QED BY <1>1 DEF DataOK, HistoriesOK, HistoriesMatchManaged

LEMMA TakeFocusPreserves ==
  ASSUME IInv, KeepsClients, showingDesktop' = showingDesktop,
         NEW id \in Managed, TakeFocus(id)
  PROVE  IInv'
<1> DEFINE s == MoveToEnd(focusOrder[currentWorkspace], id)
<1>1. id \in Clients
  BY DEF IInv, DataOK, ClientsOK
<1>2. s \in Seq(Clients) /\ Unique(s) /\ Members(s) \subseteq Managed
  BY <1>1, CurrentHistory, MoveFacts DEF IInv
<1> HIDE DEF s
<1>3. HistoriesOK'
  <2>1. focusOrder' = [focusOrder EXCEPT ![currentWorkspace] = s]
    BY DEF TakeFocus, s
  <2> QED BY <1>2, <2>1, CurrentHistoryMoved DEF IInv
<1>4. ClientsOK' /\ OrdersOK' /\ SpacesOK' /\ Managed' = Managed
  BY DEF IInv, DataOK, ClientsOK, OrdersOK, OrdersMatchManaged, SpacesOK, KeepsClients, Managed
<1> QED BY <1>3, <1>4 DEF IInv, DataOK, FocusOK, TakeFocus

LEMMA FocusPreserves ==
  ASSUME IInv, NEW requested \in Clients, Focus(requested)
  PROVE  IInv'
<1>1. FocusTarget(requested) \in Managed /\ KeepsClients
  BY DEF Focus, Usable, KeepsClients, workspaces
<1> QED BY <1>1, TakeFocusPreserves DEF Focus

\* What a step that changes the focus alone has to show.
LEMMA FocusOnlyPreserves ==
  ASSUME IInv, KeepsClients, showingDesktop' = showingDesktop, focusOrder' = focusOrder,
         focused' \in Managed \cup {NoClient}
  PROVE  IInv'
BY DEF IInv, DataOK, ClientsOK, OrdersOK, OrdersMatchManaged, SpacesOK, HistoriesOK,
       HistoriesMatchManaged, FocusOK, KeepsClients, Managed

LEMMA FocusToBottomPreserves ==
  ASSUME IInv, NEW c \in Clients, FocusToBottom(c)
  PROVE  IInv'
<1> DEFINE s == MoveToFront(focusOrder[currentWorkspace], c)
<1>1. KeepsClients /\ c \in Managed /\ focused' = focused /\ showingDesktop' = showingDesktop
  BY DEF FocusToBottom, KeepsClients, workspaces
<1>2. s \in Seq(Clients) /\ Unique(s) /\ Members(s) \subseteq Managed
  BY <1>1, CurrentHistory, MoveFacts DEF IInv
<1> HIDE DEF s
<1>3. focusOrder' = [focusOrder EXCEPT ![currentWorkspace] = s]
  BY DEF FocusToBottom, s
<1>4. HistoriesOK'
  BY <1>1, <1>2, <1>3, CurrentHistoryMoved DEF IInv
<1>5. ClientsOK' /\ OrdersOK' /\ SpacesOK' /\ Managed' = Managed
  BY <1>1
     DEF IInv, DataOK, ClientsOK, OrdersOK, OrdersMatchManaged, SpacesOK, KeepsClients, Managed
<1> QED BY <1>1, <1>4, <1>5 DEF IInv, DataOK, FocusOK

LEMMA FocusFallbackPreserves ==
  ASSUME IInv, NEW old \in Clients, FocusFallbackFrom(old)
  PROVE  IInv'
<1> DEFINE target == Fallback(old)
           id == FocusTarget(target)
<1>1. /\ KeepsClients /\ showingDesktop' = showingDesktop
      /\ IF target # NoClient /\ id \in Usable
         THEN TakeFocus(id)
         ELSE focused' = NoClient /\ focusOrder' = focusOrder
  BY DEF FocusFallbackFrom, KeepsClients, workspaces
<1> HIDE DEF target, id
<1>2. CASE target # NoClient /\ id \in Usable
  BY <1>1, <1>2, TakeFocusPreserves DEF Usable
<1>3. CASE ~(target # NoClient /\ id \in Usable)
  BY <1>1, <1>3, FocusOnlyPreserves
<1> QED BY <1>2, <1>3

LEMMA ClearFocusPreserves ==
  ASSUME IInv, ClearFocus
  PROVE  IInv'
<1>1. /\ KeepsClients /\ showingDesktop' = showingDesktop /\ focusOrder' = focusOrder
      /\ focused' = NoClient
  BY DEF ClearFocus, KeepsClients, workspaces
<1> QED BY <1>1, FocusOnlyPreserves

LEMMA SetShowingDesktopPreserves ==
  ASSUME IInv, NEW showing \in BOOLEAN, SetShowingDesktop(showing)
  PROVE  IInv'
<1>1. KeepsClients /\ focusOrder' = focusOrder /\ showingDesktop' = showing
  BY DEF SetShowingDesktop, KeepsClients, workspaces
<1>2. DataOK'
  BY <1>1 DEF IInv, DataOK, ClientsOK, OrdersOK, OrdersMatchManaged, SpacesOK, HistoriesOK,
              HistoriesMatchManaged, KeepsClients, Managed
<1>3. focused' = RecoveredFocus'
  BY DEF SetShowingDesktop
<1> QED BY <1>2, <1>3, RecoveredOK DEF IInv

(* ---- Workspaces ---- *)
LEMMA SwitchWorkspacePreserves ==
  ASSUME IInv, NEW w \in WorkspaceIds, SwitchWorkspace(w)
  PROVE  IInv'
<1>1. SpacesOK'
  BY WorkspacesAssumption DEF IInv, DataOK, SpacesOK, SwitchWorkspace, WorkspaceIds
<1>2. ClientsOK' /\ OrdersOK' /\ HistoriesOK'
  BY DEF IInv, DataOK, ClientsOK, OrdersOK, OrdersMatchManaged, HistoriesOK,
         HistoriesMatchManaged, Managed, SwitchWorkspace
<1>3. focused' = RecoveredFocus'
  BY DEF SwitchWorkspace
<1> QED BY <1>1, <1>2, <1>3, RecoveredOK DEF IInv, DataOK

\* What a step that renumbers the workspaces has to show.
LEMMA RenumberPreserves ==
  ASSUME IInv, NEW f, NEW n \in 1..MaxWorkspaces,
         \A w \in 0..(workspaceCount - 1) : f[w] \in WorkspaceIds /\ f[w] < n,
         NEW h, h \in [WorkspaceIds -> Seq(Clients)],
         \A w \in WorkspaceIds : /\ Unique(h[w]) /\ Members(h[w]) \subseteq Managed
                                 /\ w >= n => h[w] = <<>>,
         clients' = MapWorkspaces(f), workspaceCount' = n, focusOrder' = h,
         currentWorkspace' \in 0..(n - 1), lastWorkspace' \in 0..(n - 1),
         UNCHANGED <<managementOrder, stacking, showingDesktop>>,
         focused' = RecoveredFocus'
  PROVE  IInv'
<1>1. Managed' = Managed
  BY DEF Managed, MapWorkspaces
<1>2. ClientsOK'
  <2>1. n \in Nat
    BY WorkspacesAssumption
  <2>2. /\ MapWorkspaces(f) \in [Managed -> ClientType]
        /\ \A c \in Managed : MapWorkspaces(f)[c].workspace # AllWorkspaces =>
                                MapWorkspaces(f)[c].workspace < n
    BY <2>1, MapFacts DEF IInv
  <2> QED BY <1>1, <2>2 DEF ClientsOK, IInv, DataOK
<1>3. OrdersOK'
  BY <1>1 DEF IInv, DataOK, OrdersOK, OrdersMatchManaged
<1>4. SpacesOK'
  BY DEF IInv, DataOK, SpacesOK
<1>5. HistoriesOK'
  BY <1>1 DEF HistoriesOK, HistoriesMatchManaged
<1>6. DataOK'
  BY <1>2, <1>3, <1>4, <1>5 DEF DataOK
<1> QED BY <1>6, RecoveredOK DEF IInv

LEMMA SetWorkspaceCountPreserves ==
  ASSUME IInv, NEW requested \in 0..MaxWorkspaces, SetWorkspaceCount(requested)
  PROVE  IInv'
<1> DEFINE n == IF requested = 0 THEN 1 ELSE requested
           last == n - 1
           clamp == [w \in WorkspaceIds |-> IF w >= n THEN last ELSE w]
           moved == {c \in Managed : /\ clients[c].workspace # AllWorkspaces
                                     /\ clients[c].workspace >= n}
           stay(w) == Keep(focusOrder[w], Clients \ moved)
           arrive == Keep(IdOrder, moved)
           h == [w \in WorkspaceIds |->
                   IF w >= n THEN <<>>
                   ELSE stay(w) \o (IF w = last THEN arrive ELSE <<>>)]
<1>1. /\ workspaceCount' = n
      /\ currentWorkspace' = clamp[currentWorkspace]
      /\ lastWorkspace' = clamp[lastWorkspace]
      /\ clients' = MapWorkspaces(clamp)
      /\ focusOrder' = h
      /\ UNCHANGED <<managementOrder, stacking, showingDesktop>>
      /\ focused' = RecoveredFocus'
  BY DEF SetWorkspaceCount
<1>2. /\ n \in 1..MaxWorkspaces /\ last \in 0..(n - 1) /\ last \in WorkspaceIds
  BY WorkspacesAssumption DEF WorkspaceIds
<1>3. /\ workspaceCount \in 1..MaxWorkspaces
      /\ currentWorkspace \in 0..(workspaceCount - 1)
      /\ lastWorkspace \in 0..(workspaceCount - 1)
  BY DEF IInv, DataOK, SpacesOK
<1>4. \A w \in 0..(workspaceCount - 1) : w \in WorkspaceIds
  BY <1>3, BelowCount
<1>5. \A w \in WorkspaceIds : w \in Nat
  BY WorkspacesAssumption DEF WorkspaceIds
<1>6. \A w \in WorkspaceIds : clamp[w] \in WorkspaceIds /\ clamp[w] \in 0..(n - 1)
  <2> HIDE DEF n, last
  <2>1. \A w \in WorkspaceIds : clamp[w] = IF w >= n THEN last ELSE w
    OBVIOUS
  <2>2. \A w \in WorkspaceIds : ~(w >= n) => w \in 0..(n - 1)
    BY <1>2, <1>5
  <2> QED BY <1>2, <2>1, <2>2
<1>7. \A w \in 0..(workspaceCount - 1) : clamp[w] \in WorkspaceIds /\ clamp[w] < n
  BY <1>2, <1>4, <1>6
<1>8. clamp[currentWorkspace] \in 0..(n - 1) /\ clamp[lastWorkspace] \in 0..(n - 1)
  BY <1>3, <1>4, <1>6
<1>9. arrive \in Seq(Clients) /\ Unique(arrive) /\ Members(arrive) \subseteq moved
  BY IdOrderAssumption, KeepFacts
<1>10. ASSUME NEW w \in WorkspaceIds
       PROVE  /\ stay(w) \in Seq(Clients) /\ Unique(stay(w))
              /\ Members(stay(w)) \subseteq Managed \ moved
  BY KeepFacts DEF IInv, DataOK, HistoriesOK, HistoriesMatchManaged
<1>11. moved \subseteq Managed /\ Managed \subseteq Clients
  BY DEF IInv, DataOK, ClientsOK
<1> HIDE DEF stay, arrive, moved
<1>12. ASSUME NEW w \in WorkspaceIds
       PROVE  /\ stay(w) \o arrive \in Seq(Clients)
              /\ Unique(stay(w) \o arrive)
              /\ Members(stay(w) \o arrive) \subseteq Managed
  BY <1>9, <1>10, <1>11, ConcatFacts
<1>13. ASSUME NEW w \in WorkspaceIds
       PROVE  stay(w) \o <<>> = stay(w)
  BY <1>10
<1>14. ASSUME NEW w \in WorkspaceIds
       PROVE  /\ h[w] \in Seq(Clients) /\ Unique(h[w]) /\ Members(h[w]) \subseteq Managed
              /\ w >= n => h[w] = <<>>
  <2>1. CASE w >= n
    BY <2>1, EmptyFacts
  <2>2. CASE ~(w >= n) /\ w = last
    BY <2>2, <1>12
  <2>3. CASE ~(w >= n) /\ w # last
    BY <2>3, <1>10, <1>13
  <2> QED BY <2>1, <2>2, <2>3
<1>15. h \in [WorkspaceIds -> Seq(Clients)]
  BY <1>14
<1> HIDE DEF h, clamp, n, last
<1> QED BY <1>1, <1>2, <1>7, <1>8, <1>14, <1>15, RenumberPreserves

LEMMA InsertWorkspacePreserves ==
  ASSUME IInv, NEW index \in 0..MaxWorkspaces, InsertWorkspace(index)
  PROVE  IInv'
<1> DEFINE n == workspaceCount + 1
           shift == [w \in WorkspaceIds |-> IF w >= index THEN w + 1 ELSE w]
           h == [w \in WorkspaceIds |->
                   IF w < index THEN focusOrder[w]
                   ELSE IF w = index THEN <<>> ELSE focusOrder[w - 1]]
<1>1. /\ workspaceCount < MaxWorkspaces /\ index <= workspaceCount
      /\ clients' = MapWorkspaces(shift)
      /\ lastWorkspace' = shift[lastWorkspace]
      /\ currentWorkspace' = IF currentWorkspace > index THEN currentWorkspace + 1
                                                         ELSE currentWorkspace
      /\ focusOrder' = h
      /\ workspaceCount' = n
      /\ UNCHANGED <<managementOrder, stacking, showingDesktop>>
      /\ focused' = RecoveredFocus'
  BY DEF InsertWorkspace, RoomForWorkspace
<1>2. /\ workspaceCount \in 1..MaxWorkspaces
      /\ currentWorkspace \in 0..(workspaceCount - 1)
      /\ lastWorkspace \in 0..(workspaceCount - 1)
      /\ MaxWorkspaces \in Nat
  BY WorkspacesAssumption DEF IInv, DataOK, SpacesOK
<1>3. n \in 1..MaxWorkspaces
  BY <1>1, <1>2
<1>4. \A w \in 0..(workspaceCount - 1) :
        /\ w \in WorkspaceIds
        /\ shift[w] \in WorkspaceIds /\ shift[w] \in 0..(n - 1) /\ shift[w] < n
  BY <1>1, <1>2 DEF WorkspaceIds
<1>5. currentWorkspace' \in 0..(n - 1) /\ lastWorkspace' \in 0..(n - 1)
  BY <1>1, <1>2, <1>4
<1>6. ASSUME NEW w \in WorkspaceIds
      PROVE  /\ h[w] \in Seq(Clients) /\ Unique(h[w]) /\ Members(h[w]) \subseteq Managed
             /\ w >= n => h[w] = <<>>
  <2>1. \A v \in WorkspaceIds :
          /\ focusOrder[v] \in Seq(Clients) /\ Unique(focusOrder[v])
          /\ Members(focusOrder[v]) \subseteq Managed
          /\ v >= workspaceCount => focusOrder[v] = <<>>
    BY DEF IInv, DataOK, HistoriesOK, HistoriesMatchManaged
  <2>2. w \in Nat /\ index \in Nat
    BY <1>2 DEF WorkspaceIds
  <2>3. CASE w < index
    BY <1>1, <1>2, <2>1, <2>2, <2>3
  <2>4. CASE w = index
    BY <2>2, <2>4, EmptyFacts
  <2>5. CASE w > index
    <3>1. w - 1 \in WorkspaceIds /\ (w >= n => w - 1 >= workspaceCount)
      BY <1>2, <2>2, <2>5 DEF WorkspaceIds
    <3>2. h[w] = focusOrder[w - 1]
      BY <2>2, <2>5
    <3> QED BY <2>1, <3>1, <3>2
  <2> QED BY <2>2, <2>3, <2>4, <2>5
<1>7. h \in [WorkspaceIds -> Seq(Clients)]
  BY <1>6
<1> HIDE DEF h, shift, n
<1> QED BY <1>1, <1>3, <1>4, <1>5, <1>6, <1>7, RenumberPreserves

LEMMA RemoveWorkspacePreserves ==
  ASSUME IInv, NEW index \in WorkspaceIds, RemoveWorkspace(index)
  PROVE  IInv'
<1> DEFINE n == workspaceCount - 1
           remap == [w \in WorkspaceIds |-> RemapRemoved(w, index, n)]
           merged == remap[index]
           lower == focusOrder[merged]
           upper == Keep(focusOrder[merged + 1], Clients \ Members(lower))
           h == [w \in WorkspaceIds |->
                   IF w < merged THEN focusOrder[w]
                   ELSE IF w = merged THEN lower \o upper
                   ELSE IF w < n THEN focusOrder[w + 1] ELSE <<>>]
<1>1. /\ workspaceCount > 1 /\ index < workspaceCount
      /\ clients' = MapWorkspaces(remap)
      /\ focusOrder' = h
      /\ currentWorkspace' = remap[currentWorkspace]
      /\ lastWorkspace' = remap[lastWorkspace]
      /\ workspaceCount' = n
      /\ UNCHANGED <<managementOrder, stacking, showingDesktop>>
      /\ focused' = RecoveredFocus'
  BY DEF RemoveWorkspace
<1>2. /\ workspaceCount \in 1..MaxWorkspaces
      /\ currentWorkspace \in 0..(workspaceCount - 1)
      /\ lastWorkspace \in 0..(workspaceCount - 1)
      /\ MaxWorkspaces \in Nat /\ index \in Nat
  BY WorkspacesAssumption DEF IInv, DataOK, SpacesOK, WorkspaceIds
<1>3. n \in 1..MaxWorkspaces
  BY <1>1, <1>2
<1>4. \A w \in 0..(workspaceCount - 1) :
        /\ w \in WorkspaceIds
        /\ remap[w] \in WorkspaceIds /\ remap[w] \in 0..(n - 1) /\ remap[w] < n
  BY <1>1, <1>2 DEF WorkspaceIds, RemapRemoved
<1>5. currentWorkspace' \in 0..(n - 1) /\ lastWorkspace' \in 0..(n - 1)
  BY <1>1, <1>2, <1>4
<1>6. merged \in 0..(n - 1) /\ merged \in WorkspaceIds /\ merged + 1 \in WorkspaceIds
  <2>1. index \in 0..(workspaceCount - 1)
    BY <1>1, <1>2
  <2>2. merged \in 0..(n - 1)
    BY <1>4, <2>1
  <2> HIDE DEF merged
  <2> QED BY <1>1, <1>2, <2>2 DEF WorkspaceIds
<1>7. \A v \in WorkspaceIds :
        /\ focusOrder[v] \in Seq(Clients) /\ Unique(focusOrder[v])
        /\ Members(focusOrder[v]) \subseteq Managed
  BY DEF IInv, DataOK, HistoriesOK, HistoriesMatchManaged
<1>8. /\ lower \o upper \in Seq(Clients) /\ Unique(lower \o upper)
      /\ Members(lower \o upper) \subseteq Managed
  <2>1. lower \in Seq(Clients) /\ Unique(lower) /\ Members(lower) \subseteq Managed
    BY <1>6, <1>7
  <2>2. /\ upper \in Seq(Clients) /\ Unique(upper)
        /\ Members(upper) \subseteq Managed \ Members(lower)
    BY <1>6, <1>7, KeepFacts
  <2> HIDE DEF lower, upper
  <2> QED BY <2>1, <2>2, ConcatFacts
<1> HIDE DEF lower, upper, merged
<1>9. ASSUME NEW w \in WorkspaceIds
      PROVE  /\ h[w] \in Seq(Clients) /\ Unique(h[w]) /\ Members(h[w]) \subseteq Managed
             /\ w >= n => h[w] = <<>>
  <2>1. w \in Nat
    BY <1>2 DEF WorkspaceIds
  <2>2. CASE w < merged
    BY <1>1, <1>2, <1>6, <1>7, <2>1, <2>2
  <2>3. CASE w = merged
    BY <1>1, <1>2, <1>6, <1>8, <2>1, <2>3
  <2>4. CASE w > merged /\ w < n
    <3>1. w + 1 \in WorkspaceIds
      BY <1>2, <2>1, <2>4 DEF WorkspaceIds
    <3>2. h[w] = focusOrder[w + 1] /\ ~(w >= n)
      BY <1>1, <1>2, <1>6, <2>1, <2>4
    <3> QED BY <1>7, <3>1, <3>2
  <2>5. CASE w > merged /\ w >= n
    <3>1. h[w] = <<>>
      BY <1>1, <1>2, <1>6, <2>1, <2>5
    <3> QED BY <3>1, EmptyFacts
  <2> QED BY <1>2, <1>6, <2>1, <2>2, <2>3, <2>4, <2>5
<1>10. h \in [WorkspaceIds -> Seq(Clients)]
  BY <1>9
<1> HIDE DEF h, remap, n
<1> QED BY <1>1, <1>3, <1>4, <1>5, <1>9, <1>10, RenumberPreserves

\* What a step that reassigns the clients of a sequence has to show.
LEMMA ReassignPreserves ==
  ASSUME IInv, NEW r \in Assignments, NEW moved \in Seq(Clients), Unique(moved),
         Members(moved) \subseteq Managed,
         clients' = [m \in Managed |->
                       IF m \in Members(moved)
                       THEN [clients[m] EXCEPT !.workspace = ValidAssignment(r)]
                       ELSE clients[m]],
         focusOrder' = RecordMembership(moved, ValidAssignment(r)),
         UNCHANGED <<managementOrder, stacking, workspaces, showingDesktop>>,
         focused' = RecoveredFocus'
  PROVE  IInv'
<1> DEFINE a == ValidAssignment(r)
<1>1. /\ a \in Assignments
      /\ a # AllWorkspaces => a < workspaceCount
      /\ HistoryOf(a) \in 0..(workspaceCount - 1)
  BY AssignFacts DEF IInv
<1> HIDE DEF a
<1>2. Managed' = Managed /\ workspaceCount' = workspaceCount
  BY DEF Managed, workspaces
<1>3. ClientsOK'
  <2>1. \A m \in Managed : /\ clients[m] \in ClientType
                           /\ [clients[m] EXCEPT !.workspace = a] \in ClientType
                           /\ [clients[m] EXCEPT !.workspace = a].workspace = a
    <3>1. \A m \in Managed : clients[m] \in ClientType
      BY DEF IInv, DataOK, ClientsOK
    <3> QED BY <1>1, <3>1, FieldFacts
  <2>2. \A m \in Managed :
          clients'[m] = IF m \in Members(moved) THEN [clients[m] EXCEPT !.workspace = a]
                                                ELSE clients[m]
    BY DEF a
  <2>3. clients' \in [Managed -> ClientType]
    BY <2>1 DEF a
  <2> QED BY <1>1, <1>2, <2>1, <2>2, <2>3 DEF IInv, DataOK, ClientsOK
<1>4. OrdersOK' /\ SpacesOK'
  BY <1>2 DEF IInv, DataOK, OrdersOK, OrdersMatchManaged, SpacesOK, workspaces
<1>5. HistoriesOK'
  BY <1>1, <1>2, RecordFacts, HistoriesReplaced DEF IInv, a
<1>6. DataOK'
  BY <1>3, <1>4, <1>5 DEF DataOK
<1> QED BY <1>6, RecoveredOK DEF IInv

LEMMA AssignWorkspacePreserves ==
  ASSUME IInv, NEW c \in Clients, NEW r \in Assignments, AssignWorkspace(c, r)
  PROVE  IInv'
<1> DEFINE a == ValidAssignment(r)
<1>1. /\ c \in Managed
      /\ clients' = [clients EXCEPT ![c].workspace = a]
      /\ focusOrder' = RecordMembership(<<c>>, a)
      /\ UNCHANGED <<managementOrder, stacking, workspaces, showingDesktop>>
      /\ focused' = RecoveredFocus'
  BY DEF AssignWorkspace
<1>2. <<c>> \in Seq(Clients) /\ Unique(<<c>>) /\ Members(<<c>>) = {c}
  BY SingletonFacts
<1> HIDE DEF a
<1>3. clients' = [m \in Managed |-> IF m \in Members(<<c>>)
                                    THEN [clients[m] EXCEPT !.workspace = a] ELSE clients[m]]
  BY <1>1, <1>2 DEF IInv, DataOK, ClientsOK, Managed
<1> DEFINE moved == <<c>>
<1> HIDE DEF moved
<1>4. moved \in Seq(Clients) /\ Unique(moved) /\ Members(moved) \subseteq Managed
  BY <1>1, <1>2 DEF moved
<1>5. /\ clients' = [m \in Managed |-> IF m \in Members(moved)
                                       THEN [clients[m] EXCEPT !.workspace = a]
                                       ELSE clients[m]]
      /\ focusOrder' = RecordMembership(moved, a)
  BY <1>1, <1>3 DEF moved
<1> QED BY <1>1, <1>4, <1>5, ReassignPreserves DEF a

LEMMA AssignFamilyPreserves ==
  ASSUME IInv, NEW c \in Clients, NEW r \in Assignments, AssignWorkspaceFamily(c, r)
  PROVE  IInv'
<1> DEFINE a == ValidAssignment(r)
           moving == {m \in Managed : /\ m \in Members(TransientDescendants(FamilyRoot(c)))
                                      /\ clients[m].workspace # a}
<1>1. PICK changed \in Listings(moving) :
        /\ clients' = [m \in Managed |-> IF m \in moving
                                         THEN [clients[m] EXCEPT !.workspace = a]
                                         ELSE clients[m]]
        /\ focusOrder' = RecordMembership(changed, a)
  BY DEF AssignWorkspaceFamily
<1>2. /\ UNCHANGED <<managementOrder, stacking, workspaces, showingDesktop>>
      /\ focused' = RecoveredFocus'
  BY DEF AssignWorkspaceFamily
<1>3. moving \subseteq Managed /\ IsFiniteSet(moving)
  <2>1. Managed \subseteq Members(IdOrder)
    BY DEF IInv, DataOK, ClientsOK, Clients
  <2>2. IsFiniteSet(Members(IdOrder))
    BY IdOrderAssumption, MembersFinite
  <2> QED BY <2>1, <2>2, FS_Subset
<1> HIDE DEF moving
<1>4. /\ changed \in Seq(Clients) /\ Unique(changed)
      /\ Members(changed) = moving
  <2>1. changed \in Seq(moving) /\ Unique(changed) /\ Members(changed) = moving
    BY <1>3, ListingFacts
  <2>2. moving \subseteq Clients
    BY <1>3 DEF IInv, DataOK, ClientsOK
  <2> QED BY <2>1, <2>2, SeqMonotonic
<1> QED BY <1>1, <1>2, <1>3, <1>4, ReassignPreserves DEF a

(* ---- Stacking and attributes ---- *)
\* What a step that only reorders `stacking` has to show.
LEMMA RestackPreserves ==
  ASSUME IInv, NEW s \in Seq(Clients), Unique(s), Members(s) = Managed, stacking' = s,
         UNCHANGED <<clients, managementOrder, workspaces, focusOrder, focused, showingDesktop>>
  PROVE  IInv'
BY DEF IInv, DataOK, ClientsOK, OrdersOK, OrdersMatchManaged, Enumerates, SpacesOK,
       HistoriesOK, HistoriesMatchManaged, FocusOK, Managed, workspaces

\* The stacking order as the other lemmas need it.
LEMMA StackingFacts ==
  ASSUME IInv
  PROVE  /\ stacking \in Seq(Clients) /\ Unique(stacking) /\ Members(stacking) = Managed
         /\ Managed \subseteq Clients
BY DEF IInv, DataOK, ClientsOK, OrdersOK, OrdersMatchManaged, Enumerates

LEMMA RaisePreserves ==
  ASSUME IInv, NEW c \in Clients, Raise(c)
  PROVE  IInv'
<1> DEFINE s == MoveToEnd(stacking, c)
<1>1. c \in Managed /\ stacking' = s
  BY DEF Raise
<1>2. s \in Seq(Clients) /\ Unique(s) /\ Members(s) = Managed \cup {c}
  <2>1. stacking \in Seq(Clients) /\ Unique(stacking) /\ Members(stacking) = Managed
    BY StackingFacts
  <2>2. /\ s \in Seq(Clients) /\ Members(s) = Members(stacking) \cup {c}
        /\ Unique(stacking) => Unique(s)
    <3>1. stacking \in Seq(Clients) /\ c \in Clients
      BY <2>1
    <3> QED BY ONLY <3>1, MoveFacts
  <2> HIDE DEF s
  <2> QED BY <2>1, <2>2
<1> HIDE DEF s
<1>3. Members(s) = Managed
  BY <1>1, <1>2
<1> QED BY <1>1, <1>2, <1>3, RestackPreserves DEF Raise

LEMMA LowerPreserves ==
  ASSUME IInv, NEW c \in Clients, Lower(c)
  PROVE  IInv'
<1> DEFINE s == MoveToFront(stacking, c)
<1>1. c \in Managed /\ stacking' = s
  BY DEF Lower
<1>2. s \in Seq(Clients) /\ Unique(s) /\ Members(s) = Managed \cup {c}
  <2>1. stacking \in Seq(Clients) /\ Unique(stacking) /\ Members(stacking) = Managed
    BY StackingFacts
  <2>2. /\ s \in Seq(Clients) /\ Members(s) = Members(stacking) \cup {c}
        /\ Unique(stacking) => Unique(s)
    <3>1. stacking \in Seq(Clients) /\ c \in Clients
      BY <2>1
    <3> QED BY ONLY <3>1, MoveFacts
  <2> HIDE DEF s
  <2> QED BY <2>1, <2>2
<1> HIDE DEF s
<1>3. Members(s) = Managed
  BY <1>1, <1>2
<1> QED BY <1>1, <1>2, <1>3, RestackPreserves DEF Lower

LEMMA SyncStackingPreserves ==
  ASSUME IInv, NEW order \in StackingReports, SyncStacking(order)
  PROVE  IInv'
<1> DEFINE observed == KeepOnce(order, Managed)
           others == Keep(stacking, Clients \ Members(observed))
<1>1. order \in Seq(Clients)
  BY ValuesAssumption
<1>2. observed \in Seq(Clients) /\ Unique(observed) /\ Members(observed) \subseteq Managed
  BY <1>1, KeepOnceFacts
<1>3. /\ others \in Seq(Clients) /\ Unique(others)
      /\ Members(others) = Managed \ Members(observed)
  BY StackingFacts, KeepFacts
<1>4. stacking' = others \o observed
  BY DEF SyncStacking
<1> HIDE DEF observed, others
<1>5. /\ others \o observed \in Seq(Clients) /\ Unique(others \o observed)
      /\ Members(others \o observed) = Members(others) \cup Members(observed)
  BY <1>2, <1>3, ConcatFacts
<1>6. Members(others \o observed) = Managed
  BY <1>2, <1>3, <1>5
<1> QED BY <1>4, <1>5, <1>6, RestackPreserves DEF SyncStacking

\* What a step that updates one client has to show.
LEMMA UpdatePreserves ==
  ASSUME IInv, NEW c \in Managed, NEW client \in ClientType,
         client.workspace = clients[c].workspace, Update(c, client),
         focused' = focused \/ focused' = RecoveredFocus'
  PROVE  IInv'
<1>1. /\ clients' = [clients EXCEPT ![c] = client]
      /\ UNCHANGED <<managementOrder, stacking, workspaceCount, currentWorkspace,
                     lastWorkspace, focusOrder, showingDesktop>>
  BY DEF Update, workspaces
<1>2. Managed' = Managed
  BY <1>1 DEF IInv, DataOK, ClientsOK, Managed
<1>3. ClientsOK'
  <2>1. clients' \in [Managed' -> ClientType]
    BY <1>1, <1>2 DEF IInv, DataOK, ClientsOK
  <2>2. \A d \in Managed : clients'[d].workspace = clients[d].workspace
    BY <1>1 DEF IInv, DataOK, ClientsOK
  <2> QED BY <1>1, <1>2, <2>1, <2>2 DEF IInv, DataOK, ClientsOK
<1>4. OrdersOK' /\ SpacesOK' /\ HistoriesOK'
  BY <1>1, <1>2 DEF IInv, DataOK, OrdersOK, OrdersMatchManaged, SpacesOK, HistoriesOK,
                    HistoriesMatchManaged
<1>5. DataOK'
  BY <1>3, <1>4 DEF DataOK
<1> QED BY <1>2, <1>5, RecoveredOK DEF IInv, FocusOK

LEMMA AttributePreserves ==
  ASSUME IInv, AttributeStep
  PROVE  IInv'
<1>1. PICK c \in Clients :
        \/ \E b \in IconicModes : SetIconic(c, b)
        \/ \E b \in BOOLEAN : SetShaded(c, b)
        \/ \E b \in {r.modal : r \in Relations} : SetModal(c, b)
        \/ \E p \in Policies : SetPolicy(c, p)
        \/ \E n \in Presentations : SetPresentation(c, n)
        \/ \E r \in Relations : SetRelationships(c, r)
  BY DEF AttributeStep
<1>2. c \in Managed /\ clients[c] \in ClientType
  BY <1>1 DEF IInv, DataOK, ClientsOK, SetIconic, SetShaded, SetModal, SetPolicy,
              SetPresentation, SetRelationships
<1>3. CASE \E b \in IconicModes : SetIconic(c, b)
  <2>1. PICK b \in BOOLEAN : SetIconic(c, b)
    BY <1>3, ValuesAssumption
  <2>2. /\ Update(c, [clients[c] EXCEPT !.iconic = b])
        /\ focused' = focused \/ focused' = RecoveredFocus'
    BY <2>1 DEF SetIconic
  <2> QED BY <1>2, <2>2, FieldFacts, UpdatePreserves
<1>4. CASE \E b \in BOOLEAN : SetShaded(c, b)
  BY <1>2, <1>4, FieldFacts, UpdatePreserves DEF SetShaded
<1>5. CASE \E b \in {r.modal : r \in Relations} : SetModal(c, b)
  <2>1. PICK b \in BOOLEAN : SetModal(c, b)
    BY <1>5, ValuesAssumption DEF RelationType
  <2> QED BY <1>2, <2>1, FieldFacts, UpdatePreserves DEF SetModal
<1>6. CASE \E p \in Policies : SetPolicy(c, p)
  BY <1>2, <1>6, FieldFacts, UpdatePreserves DEF SetPolicy
<1>7. CASE \E n \in Presentations : SetPresentation(c, n)
  BY <1>2, <1>7, FieldFacts, UpdatePreserves DEF SetPresentation
<1>8. CASE \E r \in Relations : SetRelationships(c, r)
  <2>1. PICK r \in Relations : SetRelationships(c, r)
    BY <1>8
  <2> DEFINE parent == IF r.transientFor = c THEN NoTransient ELSE r.transientFor
             kept == [r EXCEPT !.transientFor = parent]
             group == r.group
             modal == r.modal
             updated == [clients[c] EXCEPT !.transientFor = parent, !.group = group,
                                           !.modal = modal]
  <2>2. /\ parent \in Transients /\ r.group \in Groups \cup {NoGroup} /\ r.modal \in BOOLEAN
        /\ kept.transientFor = parent /\ kept.group = r.group /\ kept.modal = r.modal
    BY ValuesAssumption DEF RelationType, Transients
  <2>3. Update(c, [clients[c] EXCEPT !.transientFor = kept.transientFor,
                                     !.group = kept.group, !.modal = kept.modal])
    BY <2>1 DEF SetRelationships
  <2> HIDE DEF parent, kept, group, modal
  <2>4. Update(c, updated)
    BY <2>2, <2>3 DEF group, modal
  <2>5. updated \in ClientType /\ updated.workspace = clients[c].workspace
    <3>1. /\ clients[c] \in ClientType /\ parent \in Transients
          /\ group \in Groups \cup {NoGroup} /\ modal \in BOOLEAN
      BY <1>2, <2>2 DEF group, modal
    <3> QED BY <3>1 DEF ClientType
  <2>6. focused' = focused
    BY <2>1 DEF SetRelationships
  <2> HIDE DEF updated
  <2> QED BY <1>2, <2>4, <2>5, <2>6, UpdatePreserves
<1> QED BY <1>1, <1>3, <1>4, <1>5, <1>6, <1>7, <1>8

(* ---- The theorems ---- *)
LEMMA InitIInv ==
  ASSUME Init
  PROVE  IInv
<1>1. Managed = {} /\ workspaceCount = 1 /\ currentWorkspace = 0 /\ lastWorkspace = 0
  BY DEF Init, Managed
<1>2. ClientsOK
  BY <1>1 DEF ClientsOK, Init, Managed
<1>3. OrdersOK
  BY <1>1, EmptyFacts DEF OrdersOK, OrdersMatchManaged, Enumerates, Init
<1>4. SpacesOK
  <2>1. 1 \in 1..MaxWorkspaces /\ 0 \in 0..(1 - 1)
    BY WorkspacesAssumption
  <2>2. showingDesktop \in BOOLEAN
    BY DEF Init
  <2> QED BY <1>1, <2>1, <2>2 DEF SpacesOK
<1>5. HistoriesOK
  BY <1>1, EmptyFacts DEF HistoriesOK, HistoriesMatchManaged, Init
<1> QED BY <1>2, <1>3, <1>4, <1>5 DEF IInv, DataOK, FocusOK, Init

\* Every method of ClientSet, called in any state it can be in, leaves the
\* inductive invariant true.
LEMMA NextIInv ==
  ASSUME IInv, [Next]_vars
  PROVE  IInv'
<1>1. CASE ManagementStep
  <2>1. ASSUME NEW c \in Managed, NEW r \in WorkspaceRequests
        PROVE  Reassigned(c, r) \in ClientType
    BY <2>1, ValuesAssumption, FieldFacts DEF Reassigned, IInv, DataOK, ClientsOK
  <2> QED
    BY <1>1, <2>1, NewClientsTyped, ManagePreserves, RefreshPreserves, UnmanagePreserves
       DEF ManagementStep
<1>2. CASE FocusStep
  BY <1>2, FocusPreserves, FocusToBottomPreserves, FocusFallbackPreserves,
     ClearFocusPreserves, SetShowingDesktopPreserves DEF FocusStep
<1>3. CASE WorkspaceStep
  <2>1. WorkspaceRequests \subseteq Assignments
    BY ValuesAssumption
  <2> QED
    BY <1>3, <2>1, SwitchWorkspacePreserves, RemoveWorkspacePreserves,
       InsertWorkspacePreserves, SetWorkspaceCountPreserves, AssignWorkspacePreserves,
       AssignFamilyPreserves DEF WorkspaceStep
<1>4. CASE StackingStep
  BY <1>4, RaisePreserves, LowerPreserves, SyncStackingPreserves DEF StackingStep
<1>5. CASE AttributeStep
  BY <1>5, AttributePreserves
<1>6. CASE UNCHANGED vars
  BY <1>6 DEF vars, workspaces, IInv, DataOK, ClientsOK, OrdersOK, OrdersMatchManaged,
              SpacesOK, HistoriesOK, HistoriesMatchManaged, FocusOK, Managed
<1> QED BY <1>1, <1>2, <1>3, <1>4, <1>5, <1>6 DEF Next

THEOREM Inductive == Spec => []IInv
<1>1. Init => IInv
  BY InitIInv
<1>2. IInv /\ [Next]_vars => IInv'
  BY NextIInv
<1> QED BY <1>1, <1>2, PTL DEF Spec

\* Every state of ClientSet is well typed: no workspace index leaves its
\* range, whatever is inserted, removed, counted down or assigned.
THEOREM TypeCorrect == Spec => []TypeOK
<1>1. IInv => TypeOK
  BY IInvMeaning
<1> QED BY <1>1, Inductive, PTL

\* The client map, the two orders, the focus histories, the workspace indexes
\* and the focus always agree.
THEOREM Consistency == Spec => []Consistent
<1>1. IInv => Consistent
  BY IInvMeaning
<1> QED BY <1>1, Inductive, PTL

(* ---- Memberships and histories ---- *)
\* A step that moves no client to another workspace and loses no history
\* entry keeps every member remembered.
LEMMA MembershipsStay ==
  ASSUME MembersRemembered, Managed' \subseteq Managed,
         \A c \in Managed' : clients'[c].workspace = clients[c].workspace,
         \A c \in Managed' : clients[c].workspace # AllWorkspaces =>
           \/ c \notin Members(focusOrder[clients[c].workspace])
           \/ c \in Members(focusOrder'[clients[c].workspace])
  PROVE  MembersRemembered'
BY DEF MembersRemembered

\* A client's fixed workspace is one of those that exist.
LEMMA FixedWorkspace ==
  ASSUME IInv, NEW c \in Managed, clients[c].workspace # AllWorkspaces
  PROVE  clients[c].workspace \in 0..(workspaceCount - 1) /\ clients[c].workspace \in WorkspaceIds
<1>1. /\ clients[c].workspace \in WorkspaceIds
      /\ clients[c].workspace < workspaceCount /\ workspaceCount \in Nat
  BY WorkspacesAssumption DEF IInv, DataOK, ClientsOK, SpacesOK, ClientType, Assignments
<1> QED BY <1>1, WorkspacesAssumption DEF WorkspaceIds

LEMMA ManageRemembers ==
  ASSUME IInv, MembersRemembered, NEW c \in Clients, NEW client \in ClientType,
         Manage(c, client)
  PROVE  MembersRemembered'
<1> DEFINE a == ValidAssignment(client.workspace)
           w == HistoryOf(a)
           placed == [client EXCEPT !.workspace = a]
<1>1. a \in Assignments /\ w \in 0..(workspaceCount - 1)
  BY AssignFacts DEF ClientType, IInv
<1>2. w \in WorkspaceIds
  <2>1. workspaceCount \in 1..MaxWorkspaces
    BY DEF IInv, DataOK, SpacesOK
  <2> QED BY <1>1, <2>1, BelowCount
<1>3. placed.workspace = a
  BY <1>1, FieldFacts
<1>4. a # AllWorkspaces => w = a
  BY DEF HistoryOf
<1> HIDE DEF a, w, placed
<1>5. /\ c \notin Managed
      /\ clients' = [d \in Managed \cup {c} |-> IF d = c THEN placed ELSE clients[d]]
      /\ focusOrder' = [focusOrder EXCEPT ![w] = Append(@, c)]
  BY DEF Manage, a, w, placed
<1>6. focusOrder \in [WorkspaceIds -> Seq(Clients)]
  BY DEF IInv, DataOK, HistoriesOK
<1>7. \A v \in WorkspaceIds : Members(focusOrder[v]) \subseteq Members(focusOrder'[v])
  <2>1. Members(Append(focusOrder[w], c)) = Members(focusOrder[w]) \cup {c}
    BY <1>2, <1>6, AppendFacts
  <2> QED BY <1>2, <1>5, <1>6, <2>1
<1>8. c \in Members(focusOrder'[w])
  BY <1>2, <1>5, <1>6, AppendFacts
<1>9. ASSUME NEW d \in Managed', clients'[d].workspace # AllWorkspaces
      PROVE  d \in Members(focusOrder'[clients'[d].workspace])
  <2>1. CASE d = c
    BY <1>3, <1>4, <1>5, <1>8, <1>9, <2>1
  <2>2. CASE d # c
    <3>1. d \in Managed /\ clients'[d] = clients[d]
      BY <1>5, <2>2 DEF Managed
    <3>2. clients[d].workspace \in WorkspaceIds
      BY <1>9, <3>1, FixedWorkspace
    <3> QED BY <1>7, <1>9, <3>1, <3>2 DEF MembersRemembered
  <2> QED BY <2>1, <2>2
<1> QED BY <1>9 DEF MembersRemembered

LEMMA UnmanageRemembers ==
  ASSUME IInv, MembersRemembered, NEW c \in Clients, Unmanage(c)
  PROVE  MembersRemembered'
<1>1. /\ clients' = [d \in Managed \ {c} |->
                       IF clients[d].transientFor = c
                       THEN [clients[d] EXCEPT !.transientFor = NoTransient] ELSE clients[d]]
      /\ focusOrder' = [w \in WorkspaceIds |-> Without(focusOrder[w], c)]
  BY DEF Unmanage
<1>2. Managed' = Managed \ {c}
  BY <1>1 DEF Managed
<1>3. \A d \in Managed' : clients'[d].workspace = clients[d].workspace
  <2>1. \A d \in Managed : clients[d] \in ClientType
    BY DEF IInv, DataOK, ClientsOK
  <2>2. \A d \in Managed :
          [clients[d] EXCEPT !.transientFor = NoTransient].workspace = clients[d].workspace
    BY <2>1, FieldFacts DEF Transients
  <2> QED BY <1>1, <1>2, <2>2
<1>4. \A w \in WorkspaceIds : Members(focusOrder'[w]) = Members(focusOrder[w]) \ {c}
  BY <1>1, WithoutFacts DEF IInv, DataOK, HistoriesOK
<1>5. \A d \in Managed' : clients[d].workspace # AllWorkspaces =>
                            clients[d].workspace \in WorkspaceIds
  BY <1>2, FixedWorkspace
<1> QED BY <1>2, <1>3, <1>4, <1>5, MembershipsStay

\* The clients that record_workspace_membership records are in the history of
\* their new workspace, and the others stay where they were.
LEMMA RecordMembers ==
  ASSUME IInv, NEW moved \in Seq(Clients), NEW a, NEW w \in WorkspaceIds
  PROVE  Members(RecordMembership(moved, a)[w]) =
           (Members(focusOrder[w]) \ Members(moved))
             \cup (IF w = HistoryOf(a) THEN Members(moved) ELSE {})
<1> DEFINE others == Keep(focusOrder[w], Clients \ Members(moved))
<1>1. focusOrder[w] \in Seq(Clients) /\ Members(focusOrder[w]) \subseteq Clients
  BY DEF IInv, DataOK, HistoriesOK, HistoriesMatchManaged, ClientsOK
<1>2. /\ others \in Seq(Clients)
      /\ Members(others) = Members(focusOrder[w]) \cap (Clients \ Members(moved))
  BY <1>1, KeepFacts
<1>3. RecordMembership(moved, a)[w] = IF w = HistoryOf(a) THEN others \o moved ELSE others
  BY DEF RecordMembership
<1> HIDE DEF others
<1>4. Members(others \o moved) = Members(others) \cup Members(moved)
  BY <1>2, ConcatFacts
<1> QED BY <1>1, <1>2, <1>3, <1>4

LEMMA ReassignRemembers ==
  ASSUME IInv, MembersRemembered, NEW r \in Assignments, NEW moved \in Seq(Clients),
         clients' = [m \in Managed |->
                       IF m \in Members(moved)
                       THEN [clients[m] EXCEPT !.workspace = ValidAssignment(r)]
                       ELSE clients[m]],
         focusOrder' = RecordMembership(moved, ValidAssignment(r))
  PROVE  MembersRemembered'
<1> DEFINE a == ValidAssignment(r)
<1>1. a \in Assignments /\ HistoryOf(a) \in 0..(workspaceCount - 1)
  BY AssignFacts DEF IInv
<1>2. HistoryOf(a) \in WorkspaceIds
  <2>1. workspaceCount \in 1..MaxWorkspaces
    BY DEF IInv, DataOK, SpacesOK
  <2> QED BY <1>1, <2>1, BelowCount
<1>3. a # AllWorkspaces => HistoryOf(a) = a
  BY DEF HistoryOf
<1> HIDE DEF a
<1>4. Managed' = Managed
  BY DEF Managed
<1>5. ASSUME NEW m \in Managed, clients'[m].workspace # AllWorkspaces
      PROVE  m \in Members(focusOrder'[clients'[m].workspace])
  <2>1. CASE m \in Members(moved)
    <3>1. clients[m] \in ClientType
      BY DEF IInv, DataOK, ClientsOK
    <3>2. clients'[m].workspace = a
      BY <1>1, <2>1, <3>1, FieldFacts DEF a
    <3>3. m \in Members(RecordMembership(moved, a)[HistoryOf(a)])
      BY <1>2, <2>1, RecordMembers
    <3> QED BY <1>3, <1>5, <3>2, <3>3 DEF a
  <2>2. CASE m \notin Members(moved)
    <3>1. clients'[m] = clients[m]
      BY <2>2
    <3>2. clients[m].workspace \in WorkspaceIds
      BY <1>5, <3>1, FixedWorkspace
    <3>3. m \in Members(focusOrder[clients[m].workspace])
      BY <1>5, <3>1 DEF MembersRemembered
    <3>4. m \in Members(RecordMembership(moved, a)[clients[m].workspace])
      BY <2>2, <3>2, <3>3, RecordMembers
    <3> QED BY <3>1, <3>4 DEF a
  <2> QED BY <2>1, <2>2
<1> QED BY <1>4, <1>5 DEF MembersRemembered

\* What a step that renumbers the workspaces has to show.
LEMMA RenumberRemembers ==
  ASSUME IInv, MembersRemembered, NEW f, NEW h,
         \A w \in 0..(workspaceCount - 1) : f[w] \in WorkspaceIds,
         \A c \in Managed, w \in 0..(workspaceCount - 1) :
           clients[c].workspace = w /\ c \in Members(focusOrder[w]) => c \in Members(h[f[w]]),
         clients' = MapWorkspaces(f), focusOrder' = h
  PROVE  MembersRemembered'
<1>1. Managed' = Managed
  BY DEF Managed, MapWorkspaces
<1>2. ASSUME NEW c \in Managed, clients'[c].workspace # AllWorkspaces
      PROVE  c \in Members(h[clients'[c].workspace])
  <2>1. clients[c].workspace # AllWorkspaces
    BY <1>2 DEF MapWorkspaces
  <2> DEFINE w == clients[c].workspace
  <2>2. w \in 0..(workspaceCount - 1)
    BY <2>1, FixedWorkspace
  <2>3. clients'[c] = [clients[c] EXCEPT !.workspace = f[w]]
    BY <2>1 DEF MapWorkspaces
  <2>4. clients'[c].workspace = f[w]
    <3>1. f[w] \in Assignments /\ clients[c] \in ClientType
      BY <2>2 DEF Assignments, IInv, DataOK, ClientsOK
    <3> QED BY <2>3, <3>1, FieldFacts
  <2>5. c \in Members(focusOrder[w])
    BY <2>1 DEF MembersRemembered
  <2> QED BY <2>2, <2>4, <2>5
<1> QED BY <1>1, <1>2 DEF MembersRemembered

LEMMA SetWorkspaceCountRemembers ==
  ASSUME IInv, MembersRemembered, NEW requested \in 0..MaxWorkspaces,
         SetWorkspaceCount(requested)
  PROVE  MembersRemembered'
<1> DEFINE n == IF requested = 0 THEN 1 ELSE requested
           last == n - 1
           clamp == [w \in WorkspaceIds |-> IF w >= n THEN last ELSE w]
           moved == {c \in Managed : /\ clients[c].workspace # AllWorkspaces
                                     /\ clients[c].workspace >= n}
           stay(w) == Keep(focusOrder[w], Clients \ moved)
           arrive == Keep(IdOrder, moved)
           h == [w \in WorkspaceIds |->
                   IF w >= n THEN <<>>
                   ELSE stay(w) \o (IF w = last THEN arrive ELSE <<>>)]
<1>1. clients' = MapWorkspaces(clamp) /\ focusOrder' = h
  BY DEF SetWorkspaceCount
<1>2. n \in 1..MaxWorkspaces /\ last \in 0..(n - 1) /\ last \in WorkspaceIds
  BY WorkspacesAssumption DEF WorkspaceIds
<1>3. \A w \in 0..(workspaceCount - 1) : w \in WorkspaceIds
  <2>1. workspaceCount \in 1..MaxWorkspaces
    BY DEF IInv, DataOK, SpacesOK
  <2> QED BY <2>1, BelowCount
<1>4. \A w \in WorkspaceIds : w \in Nat
  BY WorkspacesAssumption DEF WorkspaceIds
<1>5. \A w \in WorkspaceIds : clamp[w] = IF w >= n THEN last ELSE w
  OBVIOUS
<1>6. moved \subseteq Managed /\ Managed \subseteq Clients
  BY DEF IInv, DataOK, ClientsOK
<1>7. arrive \in Seq(Clients) /\ Members(arrive) = moved
  <2>1. Members(IdOrder) = Clients
    BY DEF Clients
  <2> QED BY <1>6, <2>1, IdOrderAssumption, KeepFacts
<1>8. ASSUME NEW w \in WorkspaceIds
      PROVE  /\ stay(w) \in Seq(Clients)
             /\ Members(stay(w)) = Members(focusOrder[w]) \cap (Clients \ moved)
  BY KeepFacts DEF IInv, DataOK, HistoriesOK
<1>9. ASSUME NEW w \in WorkspaceIds
      PROVE  h[w] = IF w >= n THEN <<>> ELSE IF w = last THEN stay(w) \o arrive ELSE stay(w)
  <2>1. stay(w) \o <<>> = stay(w)
    BY <1>8
  <2> HIDE DEF stay, arrive, last, n
  <2> QED BY <2>1
<1>10. ASSUME NEW c \in Managed, NEW w \in 0..(workspaceCount - 1),
              clients[c].workspace = w, c \in Members(focusOrder[w])
       PROVE  c \in Members(h[clamp[w]])
  <2>1. w \in WorkspaceIds /\ w \in Nat /\ w # AllWorkspaces
    BY <1>3, <1>4, SentinelsAssumption
  <2>2. c \in moved <=> w >= n
    BY <1>10, <2>1
  <2>3. /\ Members(stay(last) \o arrive) = Members(stay(last)) \cup moved
        /\ \A v \in WorkspaceIds :
             Members(stay(v) \o arrive) = Members(stay(v)) \cup moved
    <3> HIDE DEF stay, arrive, moved, last
    <3> QED BY <1>2, <1>7, <1>8, ConcatFacts
  <2> HIDE DEF h, clamp, stay, arrive, moved
  <2>4. CASE w >= n
    <3>1. clamp[w] = last /\ ~(last >= n)
      BY <1>2, <1>5, <2>1, <2>4
    <3> HIDE DEF last, n
    <3>2. h[last] = stay(last) \o arrive
      BY <1>2, <1>9, <3>1
    <3> QED BY <2>2, <2>3, <2>4, <3>1, <3>2
  <2>5. CASE ~(w >= n)
    <3>1. clamp[w] = w
      BY <1>5, <2>1, <2>5
    <3>2. c \in Members(stay(w))
      BY <1>6, <1>8, <1>10, <2>1, <2>2, <2>5
    <3> HIDE DEF last, n
    <3>3. h[w] = stay(w) \o arrive \/ h[w] = stay(w)
      BY <1>9, <2>1, <2>5
    <3> QED BY <2>1, <2>3, <3>1, <3>2, <3>3
  <2> QED BY <2>4, <2>5
<1>11. \A w \in 0..(workspaceCount - 1) : clamp[w] \in WorkspaceIds
  BY <1>2, <1>3, <1>5
<1> HIDE DEF h, clamp
<1> QED BY <1>1, <1>10, <1>11, RenumberRemembers

LEMMA InsertWorkspaceRemembers ==
  ASSUME IInv, MembersRemembered, NEW index \in 0..MaxWorkspaces, InsertWorkspace(index)
  PROVE  MembersRemembered'
<1> DEFINE shift == [w \in WorkspaceIds |-> IF w >= index THEN w + 1 ELSE w]
           h == [w \in WorkspaceIds |->
                   IF w < index THEN focusOrder[w]
                   ELSE IF w = index THEN <<>> ELSE focusOrder[w - 1]]
<1>1. /\ workspaceCount < MaxWorkspaces
      /\ clients' = MapWorkspaces(shift) /\ focusOrder' = h
  BY DEF InsertWorkspace, RoomForWorkspace
<1>2. workspaceCount \in Nat /\ MaxWorkspaces \in Nat /\ index \in Nat
  BY WorkspacesAssumption DEF IInv, DataOK, SpacesOK
<1>3. ASSUME NEW w \in 0..(workspaceCount - 1)
      PROVE  shift[w] \in WorkspaceIds /\ h[shift[w]] = focusOrder[w]
  <2>1. w \in WorkspaceIds /\ w + 1 \in WorkspaceIds
    BY <1>1, <1>2 DEF WorkspaceIds
  <2>2. CASE w < index
    BY <1>2, <2>1, <2>2
  <2>3. CASE w >= index
    <3>1. shift[w] = w + 1 /\ w + 1 > index /\ (w + 1) - 1 = w
      BY <1>2, <2>1, <2>3
    <3>2. h[w + 1] = focusOrder[(w + 1) - 1]
      BY <1>2, <2>1, <3>1
    <3> QED BY <2>1, <3>1, <3>2
  <2> QED BY <1>2, <2>2, <2>3
<1> HIDE DEF shift, h
<1> QED BY <1>1, <1>3, RenumberRemembers

LEMMA RemoveWorkspaceRemembers ==
  ASSUME IInv, MembersRemembered, NEW index \in WorkspaceIds, RemoveWorkspace(index)
  PROVE  MembersRemembered'
<1> DEFINE n == workspaceCount - 1
           remap == [w \in WorkspaceIds |-> RemapRemoved(w, index, n)]
           merged == remap[index]
           lower == focusOrder[merged]
           upper == Keep(focusOrder[merged + 1], Clients \ Members(lower))
           h == [w \in WorkspaceIds |->
                   IF w < merged THEN focusOrder[w]
                   ELSE IF w = merged THEN lower \o upper
                   ELSE IF w < n THEN focusOrder[w + 1] ELSE <<>>]
<1>1. /\ workspaceCount > 1 /\ index < workspaceCount
      /\ clients' = MapWorkspaces(remap) /\ focusOrder' = h
  BY DEF RemoveWorkspace
<1>2. /\ workspaceCount \in 1..MaxWorkspaces /\ MaxWorkspaces \in Nat /\ index \in Nat
      /\ workspaceCount \in Nat
  BY WorkspacesAssumption DEF IInv, DataOK, SpacesOK, WorkspaceIds
<1>3. \A w \in 0..(workspaceCount - 1) :
        /\ w \in WorkspaceIds /\ remap[w] \in WorkspaceIds
        /\ remap[w] = IF w > index THEN w - 1 ELSE IF w >= n THEN n - 1 ELSE w
  BY <1>1, <1>2 DEF WorkspaceIds, RemapRemoved
<1>4. merged = (IF index >= n THEN n - 1 ELSE index) /\ merged \in 0..(n - 1)
  <2>1. index \in 0..(workspaceCount - 1) /\ n \in Nat /\ n > 0
    BY <1>1, <1>2
  <2>2. remap[index] = IF index > index THEN index - 1 ELSE IF index >= n THEN n - 1 ELSE index
    BY <1>3, <2>1
  <2> HIDE DEF n, remap
  <2> QED BY <1>1, <1>2, <2>1, <2>2
<1>5. merged \in WorkspaceIds /\ merged + 1 \in WorkspaceIds
  <2> HIDE DEF merged
  <2> QED BY <1>1, <1>2, <1>4 DEF WorkspaceIds
<1>6. /\ Members(lower \o upper) = Members(lower) \cup Members(upper)
      /\ Members(focusOrder[merged + 1]) \subseteq Members(lower) \cup Members(upper)
  <2>1. /\ lower \in Seq(Clients) /\ focusOrder[merged + 1] \in Seq(Clients)
        /\ Members(focusOrder[merged + 1]) \subseteq Clients
    BY <1>5 DEF IInv, DataOK, HistoriesOK, HistoriesMatchManaged, ClientsOK
  <2>2. /\ upper \in Seq(Clients)
        /\ Members(upper) = Members(focusOrder[merged + 1]) \cap (Clients \ Members(lower))
    BY <2>1, KeepFacts
  <2> HIDE DEF lower, upper
  <2> QED BY <2>1, <2>2, ConcatFacts
<1>7. ASSUME NEW w \in 0..(workspaceCount - 1)
      PROVE  Members(focusOrder[w]) \subseteq Members(h[remap[w]])
  <2>1. w \in WorkspaceIds
    BY <1>3
  <2>2. \A v \in WorkspaceIds :
          h[v] = IF v < merged THEN focusOrder[v]
                 ELSE IF v = merged THEN lower \o upper
                 ELSE IF v < n THEN focusOrder[v + 1] ELSE <<>>
    OBVIOUS
  <2>3. ~(merged < merged)
    BY <1>2, <1>4
  <2>4. h[merged] = lower \o upper
    <3> HIDE DEF h, lower, upper, merged, remap
    <3> QED BY <1>5, <2>2, <2>3
  <2> HIDE DEF h, lower, upper, merged, remap
  <2>5. CASE w < merged
    <3>1. remap[w] = w
      BY <1>1, <1>2, <1>3, <1>4, <2>5
    <3> QED BY <2>1, <2>2, <2>5, <3>1
  <2>6. CASE w = merged
    <3>1. remap[w] = merged
      BY <1>1, <1>2, <1>3, <1>4, <2>6
    <3> QED BY <1>6, <2>4, <2>6, <3>1 DEF lower
  <2>7. CASE w = merged + 1
    <3>1. remap[w] = merged
      BY <1>1, <1>2, <1>3, <1>4, <2>7
    <3> QED BY <1>6, <2>4, <2>7, <3>1
  <2>8. CASE w > merged + 1
    <3>1. remap[w] = w - 1 /\ w - 1 \in WorkspaceIds
      BY <1>1, <1>2, <1>3, <1>4, <2>8
    <3>2. h[w - 1] = focusOrder[(w - 1) + 1]
      BY <1>1, <1>2, <1>4, <2>2, <2>8, <3>1
    <3>3. (w - 1) + 1 = w
      OBVIOUS
    <3> QED BY <3>1, <3>2, <3>3
  <2> QED BY <1>2, <1>4, <2>5, <2>6, <2>7, <2>8
<1>8. \A w \in 0..(workspaceCount - 1) : remap[w] \in WorkspaceIds
  BY <1>3
<1> HIDE DEF h, remap
<1> QED BY <1>1, <1>7, <1>8, RenumberRemembers

\* A focus step moves its client within the current history.
LEMMA HistoryMoveRemembers ==
  ASSUME IInv, MembersRemembered, clients' = clients, NEW c \in Clients,
         \/ focusOrder' = focusOrder
         \/ focusOrder' = [focusOrder EXCEPT ![currentWorkspace] = MoveToEnd(@, c)]
         \/ focusOrder' = [focusOrder EXCEPT ![currentWorkspace] = MoveToFront(@, c)]
  PROVE  MembersRemembered'
<1>1. Managed' = Managed
  BY DEF Managed
<1>2. /\ focusOrder \in [WorkspaceIds -> Seq(Clients)]
      /\ focusOrder[currentWorkspace] \in Seq(Clients)
  BY CurrentHistory DEF IInv, DataOK, HistoriesOK
<1>3. /\ Members(MoveToEnd(focusOrder[currentWorkspace], c))
           = Members(focusOrder[currentWorkspace]) \cup {c}
      /\ Members(MoveToFront(focusOrder[currentWorkspace], c))
           = Members(focusOrder[currentWorkspace]) \cup {c}
  <2> DEFINE h == focusOrder[currentWorkspace]
  <2>1. h \in Seq(Clients) /\ c \in Clients
    BY <1>2
  <2> HIDE DEF h
  <2>2. /\ Members(MoveToEnd(h, c)) = Members(h) \cup {c}
        /\ Members(MoveToFront(h, c)) = Members(h) \cup {c}
    BY ONLY <2>1, MoveFacts, SMTT(60)
  <2> QED BY <2>2 DEF h
<1>4. \A w \in WorkspaceIds : Members(focusOrder[w]) \subseteq Members(focusOrder'[w])
  BY <1>2, <1>3
<1>5. \A d \in Managed : clients[d].workspace # AllWorkspaces =>
                           clients[d].workspace \in WorkspaceIds
  BY FixedWorkspace
<1> QED BY <1>1, <1>4, <1>5, MembershipsStay

LEMMA FocusRemembers ==
  ASSUME IInv, MembersRemembered, FocusStep
  PROVE  MembersRemembered'
<1>1. ASSUME NEW c \in Clients, Focus(c) PROVE MembersRemembered'
  <2>1. FocusTarget(c) \in Clients
    BY <1>1 DEF Focus, Usable, IInv, DataOK, ClientsOK
  <2> QED BY <1>1, <2>1, HistoryMoveRemembers DEF Focus, TakeFocus
<1>2. ASSUME NEW c \in Clients, FocusToBottom(c) PROVE MembersRemembered'
  BY <1>2, HistoryMoveRemembers DEF FocusToBottom
<1>3. ASSUME NEW c \in Clients, FocusFallbackFrom(c) PROVE MembersRemembered'
  <2> DEFINE id == FocusTarget(Fallback(c))
  <2>1. /\ clients' = clients
        /\ (id \in Usable /\ TakeFocus(id)) \/ focusOrder' = focusOrder
    BY <1>3 DEF FocusFallbackFrom
  <2>2. Usable \subseteq Clients
    BY DEF Usable, IInv, DataOK, ClientsOK
  <2> HIDE DEF id
  <2> QED BY <2>1, <2>2, HistoryMoveRemembers DEF TakeFocus
<1>4. ASSUME ClearFocus \/ \E showing \in BOOLEAN : SetShowingDesktop(showing)
      PROVE  MembersRemembered'
  <2>1. clients' = clients /\ focusOrder' = focusOrder
    BY <1>4 DEF ClearFocus, SetShowingDesktop
  <2> QED BY <2>1 DEF MembersRemembered, Managed
<1> QED BY <1>1, <1>2, <1>3, <1>4 DEF FocusStep

\* An attribute step updates one client, which stays in its workspace; unless
\* the focus is recovered or the policy changes, the focused client remains as
\* usable as it was.
LEMMA AttributeUpdates ==
  ASSUME IInv, AttributeStep
  PROVE  \E c \in Managed, client \in ClientType :
           /\ Update(c, client) /\ client.workspace = clients[c].workspace
           /\ \/ focused' = RecoveredFocus'
              \/ focused' = focused /\ focused # c
              \/ /\ focused' = focused /\ client.policy = clients[c].policy
                 /\ client.iconic => clients[c].iconic
              \/ \E p \in Policies : SetPolicy(c, p)
<1>1. PICK c \in Clients :
        \/ \E b \in IconicModes : SetIconic(c, b)
        \/ \E b \in BOOLEAN : SetShaded(c, b)
        \/ \E b \in {r.modal : r \in Relations} : SetModal(c, b)
        \/ \E p \in Policies : SetPolicy(c, p)
        \/ \E n \in Presentations : SetPresentation(c, n)
        \/ \E r \in Relations : SetRelationships(c, r)
  BY DEF AttributeStep
<1>2. c \in Managed /\ clients[c] \in ClientType
  BY <1>1 DEF IInv, DataOK, ClientsOK, SetIconic, SetShaded, SetModal, SetPolicy,
              SetPresentation, SetRelationships
<1> DEFINE Goal(client) ==
             /\ Update(c, client) /\ client.workspace = clients[c].workspace
             /\ \/ focused' = RecoveredFocus'
                \/ focused' = focused /\ focused # c
                \/ /\ focused' = focused /\ client.policy = clients[c].policy
                   /\ client.iconic => clients[c].iconic
                \/ \E p \in Policies : SetPolicy(c, p)
<1>3. ASSUME NEW b \in IconicModes, SetIconic(c, b)
      PROVE  \E client \in ClientType : Goal(client)
  <2> DEFINE client == [clients[c] EXCEPT !.iconic = b]
  <2>1. b \in BOOLEAN
    BY ValuesAssumption
  <2>2. /\ client \in ClientType /\ client.workspace = clients[c].workspace
        /\ client.policy = clients[c].policy /\ client.iconic = b
    BY <1>2, <2>1 DEF ClientType
  <2>3. /\ Update(c, client)
        /\ focused' = IF b /\ focused = c THEN RecoveredFocus' ELSE focused
    BY <1>3 DEF SetIconic
  <2> HIDE DEF client
  <2> QED BY <2>1, <2>2, <2>3
<1>4. ASSUME NEW b \in BOOLEAN, SetShaded(c, b)
      PROVE  \E client \in ClientType : Goal(client)
  <2> DEFINE client == [clients[c] EXCEPT !.shaded = b]
  <2>1. /\ client \in ClientType /\ client.workspace = clients[c].workspace
        /\ client.policy = clients[c].policy /\ client.iconic = clients[c].iconic
    BY <1>2 DEF ClientType
  <2>2. Update(c, client) /\ focused' = focused
    BY <1>4 DEF SetShaded
  <2> HIDE DEF client
  <2> QED BY <2>1, <2>2
<1>5. ASSUME NEW b \in {r.modal : r \in Relations}, SetModal(c, b)
      PROVE  \E client \in ClientType : Goal(client)
  <2> DEFINE client == [clients[c] EXCEPT !.modal = b]
  <2>1. b \in BOOLEAN
    BY ValuesAssumption DEF RelationType
  <2>2. /\ client \in ClientType /\ client.workspace = clients[c].workspace
        /\ client.policy = clients[c].policy /\ client.iconic = clients[c].iconic
    BY <1>2, <2>1 DEF ClientType
  <2>3. Update(c, client) /\ focused' = focused
    BY <1>5 DEF SetModal
  <2> HIDE DEF client
  <2> QED BY <2>2, <2>3
<1>6. ASSUME NEW p \in Policies, SetPolicy(c, p)
      PROVE  \E client \in ClientType : Goal(client)
  <2> DEFINE client == [clients[c] EXCEPT !.policy = p]
  <2>1. client \in ClientType /\ client.workspace = clients[c].workspace
    BY <1>2, FieldFacts
  <2>2. Update(c, client)
    BY <1>6 DEF SetPolicy
  <2> HIDE DEF client
  <2> QED BY <1>6, <2>1, <2>2
<1>7. ASSUME NEW n \in Presentations, SetPresentation(c, n)
      PROVE  \E client \in ClientType : Goal(client)
  <2> DEFINE client == [clients[c] EXCEPT !.presentation = n]
  <2>1. /\ client \in ClientType /\ client.workspace = clients[c].workspace
        /\ client.policy = clients[c].policy /\ client.iconic = clients[c].iconic
    BY <1>2 DEF ClientType
  <2>2. Update(c, client) /\ focused' = focused
    BY <1>7 DEF SetPresentation
  <2> HIDE DEF client
  <2> QED BY <2>1, <2>2
<1>8. ASSUME NEW r \in Relations, SetRelationships(c, r)
      PROVE  \E client \in ClientType : Goal(client)
  <2> DEFINE parent == IF r.transientFor = c THEN NoTransient ELSE r.transientFor
             kept == [r EXCEPT !.transientFor = parent]
             client == [clients[c] EXCEPT !.transientFor = kept.transientFor,
                                          !.group = kept.group, !.modal = kept.modal]
  <2>1. /\ kept.transientFor \in Transients /\ kept.group \in Groups \cup {NoGroup}
        /\ kept.modal \in BOOLEAN
    BY ValuesAssumption DEF RelationType, Transients
  <2>2. Update(c, client) /\ focused' = focused
    BY <1>8 DEF SetRelationships
  <2> HIDE DEF kept
  <2>3. /\ client \in ClientType /\ client.workspace = clients[c].workspace
        /\ client.policy = clients[c].policy /\ client.iconic = clients[c].iconic
    <3> DEFINE t == kept.transientFor
               g == kept.group
               m == kept.modal
    <3>1. t \in Transients /\ g \in Groups \cup {NoGroup} /\ m \in BOOLEAN
      BY <2>1
    <3>2. client = [clients[c] EXCEPT !.transientFor = t, !.group = g, !.modal = m]
      OBVIOUS
    <3> HIDE DEF t, g, m, client
    <3> QED BY <1>2, <3>1, <3>2 DEF ClientType
  <2> HIDE DEF client
  <2> QED BY <2>2, <2>3
<1>9. \E client \in ClientType : Goal(client)
  BY <1>1, <1>3, <1>4, <1>5, <1>6, <1>7, <1>8
<1> QED BY <1>2, <1>9

LEMMA NextRemembers ==
  ASSUME IInv, MembersRemembered, [Next]_vars
  PROVE  MembersRemembered'
<1>1. CASE ManagementStep
  <2>1. PICK c \in Clients :
          \/ \E client \in NewClients : Manage(c, client)
          \/ \E r \in WorkspaceRequests : c \in Managed /\ Refresh(c, Reassigned(c, r))
          \/ Unmanage(c)
    BY <1>1 DEF ManagementStep
  <2>2. CASE \E client \in NewClients : Manage(c, client)
    BY <2>2, NewClientsTyped, ManageRemembers
  <2>3. ASSUME NEW r \in WorkspaceRequests, c \in Managed, Refresh(c, Reassigned(c, r))
        PROVE  MembersRemembered'
    <3> DEFINE a == ValidAssignment(r)
    <3>1. r \in Assignments /\ clients[c] \in ClientType /\ clients \in [Managed -> ClientType]
      BY <2>3, ValuesAssumption DEF IInv, DataOK, ClientsOK
    <3>2. Reassigned(c, r).workspace = r
      BY <3>1, FieldFacts DEF Reassigned
    <3>3. a \in Assignments
      BY <3>1, AssignFacts DEF IInv
    <3>4. [Reassigned(c, r) EXCEPT !.workspace = a] = [clients[c] EXCEPT !.workspace = a]
      BY <3>1 DEF Reassigned, ClientType
    <3>5. clients' = [clients EXCEPT ![c] = [clients[c] EXCEPT !.workspace = a]]
      BY <2>3, <3>2, <3>4 DEF Refresh
    <3>6. CASE a # clients[c].workspace
      <4> DEFINE moved == <<c>>
      <4>1. focusOrder' = RecordMembership(moved, a)
        BY <2>3, <3>2, <3>6, FieldFacts DEF Refresh, Reassigned
      <4>2. moved \in Seq(Clients) /\ Members(moved) = {c}
        BY SingletonFacts
      <4> HIDE DEF moved
      <4>3. clients' = [m \in Managed |-> IF m \in Members(moved)
                                          THEN [clients[m] EXCEPT !.workspace = a]
                                          ELSE clients[m]]
        BY <3>1, <3>5, <4>2
      <4> QED BY <3>1, <4>1, <4>2, <4>3, ReassignRemembers
    <3>7. CASE a = clients[c].workspace
      <4>1. focusOrder' = focusOrder
        BY <2>3, <3>2, <3>7, FieldFacts DEF Refresh, Reassigned
      <4>2. Managed' = Managed /\ \A d \in Managed : clients'[d].workspace = clients[d].workspace
        BY <3>1, <3>3, <3>5, <3>7, FieldFacts DEF Managed
      <4> QED BY <4>1, <4>2, MembershipsStay
    <3> QED BY <3>6, <3>7
  <2>4. CASE Unmanage(c)
    BY <2>4, UnmanageRemembers
  <2> QED BY <2>1, <2>2, <2>3, <2>4
<1>2. CASE FocusStep
  BY <1>2, FocusRemembers
<1>3. CASE WorkspaceStep
  <2>1. ASSUME NEW w \in WorkspaceIds, SwitchWorkspace(w) PROVE MembersRemembered'
    BY <2>1 DEF SwitchWorkspace, MembersRemembered, Managed
  <2>2. ASSUME NEW c \in Clients, NEW r \in Assignments, AssignWorkspace(c, r)
        PROVE  MembersRemembered'
    <3> DEFINE a == ValidAssignment(r)
               moved == <<c>>
    <3>1. clients' = [clients EXCEPT ![c].workspace = a] /\ focusOrder' = RecordMembership(moved, a)
      BY <2>2 DEF AssignWorkspace
    <3>2. moved \in Seq(Clients) /\ Members(moved) = {c}
      BY SingletonFacts
    <3>3. clients = [m \in Managed |-> clients[m]]
      BY DEF IInv, DataOK, ClientsOK
    <3> HIDE DEF moved
    <3>4. clients' = [m \in Managed |-> IF m \in Members(moved)
                                        THEN [clients[m] EXCEPT !.workspace = a] ELSE clients[m]]
      BY <3>1, <3>2, <3>3
    <3> QED BY <3>1, <3>2, <3>4, ReassignRemembers
  <2>3. ASSUME NEW c \in Clients, NEW r \in Assignments, AssignWorkspaceFamily(c, r)
        PROVE  MembersRemembered'
    <3> DEFINE a == ValidAssignment(r)
               moving == {m \in Managed : /\ m \in Members(TransientDescendants(FamilyRoot(c)))
                                          /\ clients[m].workspace # a}
    <3>1. PICK changed \in Listings(moving) :
            /\ clients' = [m \in Managed |-> IF m \in moving
                                             THEN [clients[m] EXCEPT !.workspace = a]
                                             ELSE clients[m]]
            /\ focusOrder' = RecordMembership(changed, a)
      BY <2>3 DEF AssignWorkspaceFamily
    <3>2. moving \subseteq Clients /\ IsFiniteSet(moving)
      <4>1. moving \subseteq Members(IdOrder)
        BY DEF IInv, DataOK, ClientsOK, Clients
      <4>2. IsFiniteSet(Members(IdOrder))
        BY IdOrderAssumption, MembersFinite
      <4> QED BY <4>1, <4>2, FS_Subset DEF Clients
    <3> HIDE DEF moving
    <3>3. changed \in Seq(Clients) /\ Members(changed) = moving
      <4>1. changed \in Seq(moving) /\ Members(changed) = moving
        BY <3>2, ListingFacts
      <4> QED BY <3>2, <4>1, SeqMonotonic
    <3> QED BY <3>1, <3>3, ReassignRemembers
  <2>4. WorkspaceRequests \subseteq Assignments
    BY ValuesAssumption
  <2> QED
    BY <1>3, <2>1, <2>2, <2>3, <2>4, RemoveWorkspaceRemembers, InsertWorkspaceRemembers,
       SetWorkspaceCountRemembers DEF WorkspaceStep
<1>4. CASE StackingStep
  BY <1>4 DEF StackingStep, Raise, Lower, SyncStacking, MembersRemembered, Managed
<1>5. CASE AttributeStep
  <2>1. PICK c \in Managed, client \in ClientType :
          Update(c, client) /\ client.workspace = clients[c].workspace
    BY <1>5, AttributeUpdates
  <2>2. Managed' = Managed /\ \A d \in Managed : clients'[d].workspace = clients[d].workspace
    BY <2>1 DEF Update, Managed, IInv, DataOK, ClientsOK
  <2>3. focusOrder' = focusOrder
    BY <2>1 DEF Update
  <2> QED BY <2>2, <2>3, MembershipsStay
<1>6. CASE UNCHANGED vars
  BY <1>6 DEF vars, MembersRemembered, Managed
<1> QED BY <1>1, <1>2, <1>3, <1>4, <1>5, <1>6 DEF Next

\* Whoever is in a history, and whoever was recorded as a member, is
\* remembered: the inductive invariant of MembersRemembered.
THEOREM Remembering == Spec => []MembersRemembered
<1>1. Init => IInv /\ MembersRemembered
  <2>1. ASSUME Init PROVE Managed = {}
    BY <2>1 DEF Init, Managed
  <2> QED BY <2>1, InitIInv DEF MembersRemembered
<1>2. IInv /\ MembersRemembered /\ [Next]_vars => (IInv /\ MembersRemembered)'
  BY NextIInv, NextRemembers
<1> QED BY <1>1, <1>2, PTL DEF Spec

(* ---- Focus ---- *)
\* recover_focus finds a usable client whenever there is one, because every
\* managed client is in the stacking order.
LEMMA RecoveredKeeps ==
  ASSUME IInv', focused' = RecoveredFocus'
  PROVE  FocusKept
<1>1. /\ stacking' \in Seq(Clients) /\ Members(stacking') = Managed'
      /\ Usable' \subseteq Managed'
  BY DEF IInv, DataOK, OrdersOK, OrdersMatchManaged, Enumerates, Usable
<1>2. focusOrder'[currentWorkspace'] \in Seq(Clients)
  <2>1. currentWorkspace' \in WorkspaceIds
    <3>1. workspaceCount' \in 1..MaxWorkspaces /\ currentWorkspace' \in 0..(workspaceCount' - 1)
      BY DEF IInv, DataOK, SpacesOK
    <3> QED BY <3>1, BelowCount
  <2> QED BY <2>1 DEF IInv, DataOK, HistoriesOK
<1> DEFINE history == focusOrder'[currentWorkspace']
<1>3. focused' = IF Members(history) \cap Usable' # {} THEN LastIn(history, Usable')
                 ELSE IF Members(stacking') \cap Usable' # {} THEN LastIn(stacking', Usable')
                 ELSE NoClient
  BY DEF RecoveredFocus
<1> HIDE DEF history
<1>4. CASE Members(history) \cap Usable' # {}
  BY <1>2, <1>3, <1>4, LastInFacts DEF FocusKept, history
<1>5. CASE Members(history) \cap Usable' = {} /\ Members(stacking') \cap Usable' # {}
  BY <1>1, <1>3, <1>5, LastInFacts DEF FocusKept
<1>6. CASE Members(history) \cap Usable' = {} /\ Members(stacking') \cap Usable' = {}
  BY <1>1, <1>3, <1>6 DEF FocusKept
<1> QED BY <1>4, <1>5, <1>6

\* A step that leaves the focus where it is keeps it usable if it leaves what
\* makes its client usable alone.
LEMMA FocusUntouched ==
  ASSUME focused' = focused, UNCHANGED <<currentWorkspace, showingDesktop>>,
         focused \in Managed =>
           /\ focused \in Managed'
           /\ clients'[focused].workspace = clients[focused].workspace
           /\ clients'[focused].policy = clients[focused].policy
           /\ clients'[focused].iconic => clients[focused].iconic
  PROVE  FocusKept
BY DEF FocusKept, Usable, IsVisible

LEMMA ManagementKeepsFocus ==
  ASSUME IInv, IInv', ManagementStep
  PROVE  FocusKept
<1>1. PICK c \in Clients :
        \/ \E client \in NewClients : Manage(c, client)
        \/ \E r \in WorkspaceRequests : c \in Managed /\ Refresh(c, Reassigned(c, r))
        \/ Unmanage(c)
  BY DEF ManagementStep
<1>2. ASSUME NEW client \in NewClients, Manage(c, client) PROVE FocusKept
  <2>1. \A d \in Managed : d \in Managed' /\ clients'[d] = clients[d]
    BY <1>2 DEF Manage, Managed
  <2> QED BY <1>2, <2>1, FocusUntouched DEF Manage, workspaces
<1>3. ASSUME NEW r \in WorkspaceRequests, c \in Managed, Refresh(c, Reassigned(c, r))
      PROVE  FocusKept
  <2> DEFINE client == Reassigned(c, r)
             a == ValidAssignment(client.workspace)
             placed == [client EXCEPT !.workspace = a]
  <2>1. clients[c] \in ClientType /\ r \in Assignments
    BY <1>3, ValuesAssumption DEF IInv, DataOK, ClientsOK
  <2>2. client \in ClientType /\ client.policy = clients[c].policy /\ client.iconic = clients[c].iconic
    BY <2>1 DEF Reassigned, ClientType
  <2> HIDE DEF client
  <2>3. placed.policy = clients[c].policy /\ placed.iconic = clients[c].iconic /\ placed.workspace = a
    BY <2>2 DEF ClientType
  <2>4. /\ clients' = [clients EXCEPT ![c] = placed]
        /\ UNCHANGED <<currentWorkspace, showingDesktop>>
        /\ focused' = RecoveredFocus' \/ (focused' = focused /\ a = clients[c].workspace)
    BY <1>3 DEF Refresh, workspaces, client
  <2> HIDE DEF placed, a
  <2>5. CASE focused' = RecoveredFocus'
    BY <2>5, RecoveredKeeps
  <2>6. CASE focused' = focused /\ a = clients[c].workspace
    BY <2>3, <2>4, <2>6, FocusUntouched DEF Managed, IInv, DataOK, ClientsOK
  <2> QED BY <2>4, <2>5, <2>6
<1>4. CASE Unmanage(c)
  <2>1. /\ clients' = [d \in Managed \ {c} |->
                         IF clients[d].transientFor = c
                         THEN [clients[d] EXCEPT !.transientFor = NoTransient] ELSE clients[d]]
        /\ UNCHANGED <<currentWorkspace, showingDesktop>>
        /\ focused' = RecoveredFocus' \/ (focused' = focused /\ focused # c)
    BY <1>4 DEF Unmanage, workspaces
  <2>2. \A d \in Managed : d # c =>
          /\ d \in Managed'
          /\ clients'[d].workspace = clients[d].workspace
          /\ clients'[d].policy = clients[d].policy
          /\ clients'[d].iconic = clients[d].iconic
    <3>1. \A d \in Managed : clients[d] \in ClientType
      BY DEF IInv, DataOK, ClientsOK
    <3> QED BY <2>1, <3>1 DEF Managed, ClientType
  <2>3. CASE focused' = RecoveredFocus'
    BY <2>3, RecoveredKeeps
  <2>4. CASE focused' = focused /\ focused # c
    BY <2>1, <2>2, <2>4, FocusUntouched
  <2> QED BY <2>1, <2>3, <2>4
<1> QED BY <1>1, <1>2, <1>3, <1>4

\* Every step but those that may drop the focus keeps it.
LEMMA NextKeepsFocus ==
  ASSUME IInv, Next
  PROVE  FocusKept \/ MayLoseFocus
<1>1. IInv'
  BY NextIInv
<1>2. CASE ManagementStep
  BY <1>1, <1>2, ManagementKeepsFocus
<1>3. CASE FocusStep
  <2>1. ASSUME NEW c \in Clients, Focus(c) PROVE FocusKept
    <3>1. FocusTarget(c) \in Usable /\ focused' = FocusTarget(c)
      BY <2>1 DEF Focus, TakeFocus
    <3>2. Usable' = Usable
      BY <2>1 DEF Focus, workspaces, Usable, IsVisible, Managed
    <3> QED BY <3>1, <3>2 DEF FocusKept
  <2>2. ASSUME NEW c \in Clients, FocusToBottom(c) PROVE FocusKept
    BY <2>2, FocusUntouched DEF FocusToBottom, workspaces, Managed
  <2>3. ASSUME NEW showing \in BOOLEAN, SetShowingDesktop(showing) PROVE FocusKept
    BY <1>1, <2>3, RecoveredKeeps DEF SetShowingDesktop
  <2> QED BY <1>3, <2>1, <2>2, <2>3 DEF FocusStep, MayLoseFocus
<1>4. CASE WorkspaceStep
  <2>1. focused' = RecoveredFocus'
    BY <1>4 DEF WorkspaceStep, SwitchWorkspace, RemoveWorkspace, InsertWorkspace,
                SetWorkspaceCount, AssignWorkspace, AssignWorkspaceFamily
  <2> QED BY <1>1, <2>1, RecoveredKeeps
<1>5. CASE StackingStep
  <2>1. UNCHANGED <<clients, currentWorkspace, focused, showingDesktop>>
    BY <1>5 DEF StackingStep, Raise, Lower, SyncStacking, workspaces
  <2> QED BY <2>1, FocusUntouched DEF Managed
<1>6. CASE AttributeStep
  <2>1. PICK c \in Managed, client \in ClientType :
          /\ Update(c, client) /\ client.workspace = clients[c].workspace
          /\ \/ focused' = RecoveredFocus'
             \/ focused' = focused /\ focused # c
             \/ /\ focused' = focused /\ client.policy = clients[c].policy
                /\ client.iconic => clients[c].iconic
             \/ \E p \in Policies : SetPolicy(c, p)
    BY <1>6, AttributeUpdates
  <2>2. /\ clients' = [clients EXCEPT ![c] = client]
        /\ UNCHANGED <<currentWorkspace, showingDesktop>>
    BY <2>1 DEF Update, workspaces
  <2>3. CASE focused' = RecoveredFocus'
    BY <1>1, <2>3, RecoveredKeeps
  <2>4. CASE \/ focused' = focused /\ focused # c
             \/ /\ focused' = focused /\ client.policy = clients[c].policy
                /\ client.iconic => clients[c].iconic
    BY <2>1, <2>2, <2>4, FocusUntouched DEF Managed, IInv, DataOK, ClientsOK
  <2>5. CASE \E p \in Policies : SetPolicy(c, p)
    BY <2>5 DEF MayLoseFocus, IInv, DataOK, ClientsOK
  <2> QED BY <2>1, <2>3, <2>4, <2>5
<1> QED BY <1>2, <1>3, <1>4, <1>5, <1>6 DEF Next

\* Outside the operations that drop focus on purpose, a usable focused client
\* is followed by a usable one, or by none only when nobody could take the
\* focus: recover_focus misses no client.
THEOREM FocusKeeping == Spec => FocusSurvives
<1>1. IInv /\ [Next]_vars => [FocusKept \/ MayLoseFocus]_vars
  BY NextKeepsFocus
<1> QED BY <1>1, Inductive, PTL DEF Spec, FocusSurvives

(* ---- Loops ---- *)
\* A set of natural numbers has a least one.
LEMMA LeastNat ==
  ASSUME NEW S \in SUBSET Nat, S # {}
  PROVE  \E k \in S : \A j \in S : k <= j
<1>1. \E k \in S : \A j \in S : ~ (<<j, k>> \in OpToRel(<, Nat))
  BY NatLessThanWellFounded, WFMin, Zenon
<1>2. \A j, k \in S : j < k => <<j, k>> \in OpToRel(<, Nat)
  BY Zenon DEF OpToRel
<1>3. \A j, k \in S : ~ (j < k) => k <= j
  OBVIOUS
<1>4. PICK k \in S : \A j \in S : ~ (<<j, k>> \in OpToRel(<, Nat))
  BY <1>1
<1>5. \A j \in S : k <= j
  BY <1>2, <1>3, <1>4, Zenon
<1> QED BY <1>4, <1>5

\* A loop over D: it stops in `stop` with the result val and goes on with nxt elsewhere.
Descends(D, stop, nxt, m) == \A x \in D \ stop : m[nxt[x]] < m[x]
Computes(f, D, stop, val, nxt) ==
  \A x \in D : f[x] = IF x \in stop THEN val[x] ELSE f[nxt[x]]

\* A loop on which a bounded measure decreases has a result.
LEMMA TailRecursion ==
  ASSUME NEW D, NEW V, NEW M \in Nat, NEW m \in [D -> 0..M],
         NEW stop, NEW val \in [D -> V], NEW nxt \in [D -> D],
         Descends(D, stop, nxt, m)
  PROVE  \E f \in [D -> V] : Computes(f, D, stop, val, nxt)
<1> USE DEF Descends, Computes
<1> DEFINE Below(n) == {x \in D : m[x] < n}
           Solves(f, n) == /\ f \in [Below(n) -> V]
                           /\ \A x \in Below(n) :
                                f[x] = IF x \in stop THEN val[x] ELSE f[nxt[x]]
           Unsolved == {n \in Nat : ~ \E f : Solves(f, n)}
<1>1. 0 \notin Unsolved
  <2> DEFINE f == [x \in Below(0) |-> val[x]]
  <2>1. Below(0) = {}
    OBVIOUS
  <2>2. f \in [Below(0) -> V]
    BY <2>1
  <2> HIDE DEF f
  <2>3. Solves(f, 0)
    BY <2>1, <2>2
  <2> QED BY <2>3
<1>2. ASSUME NEW n \in Nat, NEW g, Solves(g, n)
      PROVE  n + 1 \notin Unsolved
  <2> DEFINE f == [x \in Below(n + 1) |-> IF x \in stop THEN val[x] ELSE g[nxt[x]]]
  <2>1. \A x \in Below(n + 1) : x \notin stop => nxt[x] \in Below(n)
    OBVIOUS
  <2>2. f \in [Below(n + 1) -> V]
    BY <1>2, <2>1
  <2>3. \A x \in Below(n) : x \in Below(n + 1) /\ f[x] = g[x]
    BY <1>2
  <2>4. \A x \in Below(n + 1) : f[x] = IF x \in stop THEN val[x] ELSE f[nxt[x]]
    BY <2>1, <2>3
  <2> HIDE DEF f
  <2>5. Solves(f, n + 1)
    BY <2>2, <2>4
  <2> QED BY <2>5
<1> HIDE DEF Unsolved
<1>3. Unsolved = {}
  <2> SUFFICES ASSUME Unsolved # {} PROVE FALSE
    OBVIOUS
  <2>1. Unsolved \in SUBSET Nat
    BY DEF Unsolved
  <2>2. PICK k \in Unsolved : \A j \in Unsolved : k <= j
    BY <2>1, LeastNat
  <2>3. k # 0 /\ k \in Nat
    BY <1>1, <2>1, <2>2
  <2>4. k - 1 \in Nat /\ k - 1 \notin Unsolved /\ (k - 1) + 1 = k
    BY <2>1, <2>2, <2>3
  <2>5. PICK g : Solves(g, k - 1)
    BY <2>4 DEF Unsolved
  <2> QED BY <1>2, <2>2, <2>4, <2>5
<1>4. M + 1 \in Nat
  OBVIOUS
<1>5. PICK f : Solves(f, M + 1)
  BY <1>3, <1>4 DEF Unsolved
<1>6. Below(M + 1) = D
  OBVIOUS
<1> QED BY <1>5, <1>6

(* ---- Where focus requests end ---- *)
\* The blocking transients the loop of focus_target has not visited, and the
\* path with the topmost of them.
Unvisited(path) == Members(stacking) \cap (Blocking(path[Len(path)]) \ Members(path))
Followed(path) == Append(path, LastIn(stacking, Unvisited(path)))

\* One more client is visited.
LEMMA FollowedFacts ==
  ASSUME IInv, NEW path \in Seq(Clients), Unvisited(path) # {}
  PROVE  LET next == LastIn(stacking, Unvisited(path))
         IN /\ next \in Unvisited(path) /\ next \in Clients
            /\ Followed(path) \in Seq(Clients)
            /\ Len(Followed(path)) \in Nat \ {0}
            /\ Followed(path)[Len(Followed(path))] = next
            /\ Members(Followed(path)) = Members(path) \cup {next}
<1> DEFINE last == path[Len(path)]
           fresh == Blocking(last) \ Members(path)
           next == LastIn(stacking, Unvisited(path))
<1>1. stacking \in Seq(Clients)
  BY DEF IInv, DataOK, OrdersOK
<1>2. Members(stacking) \cap Unvisited(path) # {}
  BY DEF Unvisited
<1>3. next \in Members(stacking) \cap Unvisited(path)
  BY <1>1, <1>2, LastInFacts
<1>4. next \in Clients
  BY <1>1, <1>3 DEF Members
<1> HIDE DEF next
<1>5. Members(Append(path, next)) = Members(path) \cup {next}
  BY <1>4, AppendFacts
<1>6. /\ Append(path, next) \in Seq(Clients) /\ Len(Append(path, next)) \in Nat \ {0}
      /\ Append(path, next)[Len(Append(path, next))] = next
  BY <1>4
<1> QED BY <1>3, <1>4, <1>5, <1>6 DEF Followed, next

\* Fewer clients are left to visit.
LEMMA FollowedDescends ==
  ASSUME IInv, NEW p \in Seq(Clients), Unvisited(p) # {}
  PROVE  /\ Cardinality(Clients \ Members(Followed(p))) \in Nat
         /\ Cardinality(Clients \ Members(p)) \in Nat
         /\ Cardinality(Clients \ Members(Followed(p))) < Cardinality(Clients \ Members(p))
<1> DEFINE next == LastIn(stacking, Unvisited(p))
           before == Clients \ Members(p)
           after == Clients \ Members(Followed(p))
<1>1. /\ next \in Unvisited(p) /\ next \in Clients
      /\ Members(Followed(p)) = Members(p) \cup {next}
  BY FollowedFacts
<1>2. next \notin Members(p)
  BY <1>1 DEF Unvisited
<1>3. after = before \ {next} /\ next \in before
  BY <1>1, <1>2
<1>4. IsFiniteSet(before) /\ IsFiniteSet(after)
  <2>1. IsFiniteSet(Clients)
    BY IdOrderAssumption, MembersFinite DEF Clients
  <2> QED BY <2>1, FS_Subset
<1> HIDE DEF before, after, next
<1>5. Cardinality(after) = Cardinality(before) - 1
  BY <1>3, <1>4, FS_RemoveElement
<1>6. Cardinality(before) \in Nat /\ Cardinality(after) \in Nat
  BY <1>4, FS_CardinalityType
<1> QED BY <1>5, <1>6 DEF before, after

\* The loop ends, since it never comes back to a client: what it computes is
\* determined by one step of it.
LEMMA FollowModalStep ==
  ASSUME IInv, NEW path \in Seq(Clients)
  PROVE  FollowModal[path] = IF Unvisited(path) = {} THEN path[Len(path)]
                             ELSE FollowModal[Followed(path)]
<1> DEFINE D == Seq(Clients)
           V == {p[Len(p)] : p \in D}
           m == [p \in D |-> Cardinality(Clients \ Members(p))]
           stop == {p \in D : Unvisited(p) = {}}
           val == [p \in D |-> p[Len(p)]]
           nxt == [p \in D |-> IF Unvisited(p) = {} THEN p ELSE Followed(p)]
           M == Cardinality(Clients)
<1>1. IsFiniteSet(Clients) /\ M \in Nat
  BY IdOrderAssumption, MembersFinite, FS_CardinalityType DEF Clients
<1>2. \A p \in D : m[p] \in 0..M
  <2> SUFFICES ASSUME NEW p \in D PROVE Cardinality(Clients \ Members(p)) \in 0..M
    OBVIOUS
  <2>1. Clients \ Members(p) \in SUBSET Clients
    OBVIOUS
  <2>2. /\ IsFiniteSet(Clients \ Members(p))
        /\ Cardinality(Clients \ Members(p)) <= Cardinality(Clients)
    BY <1>1, <2>1, FS_Subset
  <2>3. Cardinality(Clients \ Members(p)) \in Nat
    BY <2>2, FS_CardinalityType
  <2> QED BY <1>1, <2>2, <2>3
<1>3. m \in [D -> 0..M]
  BY <1>2
<1>4. val \in [D -> V]
  OBVIOUS
<1>5. nxt \in [D -> D]
  BY FollowedFacts
<1>6. \A p \in D \ stop : m[nxt[p]] < m[p]
  BY <1>5, FollowedDescends
<1> HIDE DEF m, val, nxt, stop, D, V, M
<1>7. Descends(D, stop, nxt, m)
  BY <1>6 DEF Descends
<1>8. PICK f \in [D -> V] : Computes(f, D, stop, val, nxt)
  BY <1>1, <1>3, <1>4, <1>5, <1>7, TailRecursion
<1>9. \A p \in D : f[p] = IF Unvisited(p) = {} THEN p[Len(p)] ELSE f[Followed(p)]
  BY <1>8 DEF Computes, stop, val, nxt
<1> DEFINE Solution(g) ==
             g = [p \in D |-> IF Unvisited(p) = {} THEN p[Len(p)] ELSE g[Followed(p)]]
<1>10. Solution(f)
  BY <1>8, <1>9
<1>11. FollowModal = CHOOSE g : Solution(g)
  BY DEF FollowModal, Unvisited, Followed, D
<1> HIDE DEF Solution
<1>12. Solution(FollowModal)
  BY <1>10, <1>11
<1> QED BY <1>12 DEF Solution, D

\* Where the modal dialogs form trees, every client on the path from `root` but the first
\* is a dialog of one visited before it.
Descended(root, path) ==
  /\ path \in Seq(Clients) /\ Len(path) \in Nat \ {0}
  /\ root \in Members(path) /\ Members(path) \subseteq Managed
  /\ path[Len(path)] \in Members(path)
  /\ \A u \in Members(path) \ {root} :
       clients[u].transientFor \in Members(path) \ {path[Len(path)]}

\* The path goes on that way.
LEMMA DescendedFollowed ==
  ASSUME IInv, NoGroupModals, NEW root, NEW path, Descended(root, path), Unvisited(path) # {}
  PROVE  Descended(root, Followed(path))
<1> DEFINE next == LastIn(stacking, Unvisited(path))
           last == path[Len(path)]
<1>1. /\ next \in Unvisited(path) /\ next \in Clients
      /\ Followed(path) \in Seq(Clients)
      /\ Len(Followed(path)) \in Nat \ {0}
      /\ Followed(path)[Len(Followed(path))] = next
      /\ Members(Followed(path)) = Members(path) \cup {next}
  BY FollowedFacts DEF Descended
<1> HIDE DEF next
<1>2. next \in Blocking(last) /\ next \notin Members(path)
  BY <1>1 DEF Unvisited
<1>3. next \in Managed /\ clients[next].transientFor = last
  BY <1>2 DEF Blocking, NoGroupModals
<1> QED BY <1>1, <1>2, <1>3 DEF Descended

\* Where nothing is left to visit, nothing blocks the client that was reached.
LEMMA DescendedEnd ==
  ASSUME IInv, SpecificForest, NoGroupModals, NEW root, NEW path, Descended(root, path),
         Unvisited(path) = {}
  PROVE  Blocking(path[Len(path)]) = {}
<1> DEFINE last == path[Len(path)]
           Visited == Members(path)
<1> SUFFICES ASSUME NEW blocker \in Blocking(last) PROVE FALSE
  OBVIOUS
<1>1. Members(stacking) = Managed
  BY DEF IInv, DataOK, OrdersOK, OrdersMatchManaged, Enumerates
<1>2. blocker \in Managed /\ clients[blocker].transientFor = last
  BY DEF Blocking, NoGroupModals
<1>3. blocker \in Visited
  BY <1>1, <1>2 DEF Unvisited
<1>4. blocker = root
  BY <1>2, <1>3 DEF Descended
<1>5. \A u \in Visited : clients[u].transientFor \in Visited
  BY <1>2, <1>4 DEF Descended
<1>6. Visited \in (SUBSET Managed) \ {{}}
  BY <1>3 DEF Descended
<1> QED BY <1>5, <1>6 DEF SpecificForest

\* The loop ends at a client that nothing blocks.
LEMMA FollowModalReaches ==
  ASSUME IInv, SpecificForest, NoGroupModals, NEW root, NEW start, Descended(root, start)
  PROVE  Blocking(FollowModal[start]) = {}
<1> DEFINE Left(p) == Cardinality(Clients \ Members(p))
           Bad == {p \in Seq(Clients) : Descended(root, p) /\ Blocking(FollowModal[p]) # {}}
           Lefts == {Left(p) : p \in Bad}
<1>1. ASSUME NEW p \in Bad
      PROVE  /\ Left(p) \in Nat
             /\ \E q \in Bad : Left(q) < Left(p)
  <2>1. p \in Seq(Clients) /\ Descended(root, p) /\ Blocking(FollowModal[p]) # {}
    OBVIOUS
  <2>2. FollowModal[p] = IF Unvisited(p) = {} THEN p[Len(p)] ELSE FollowModal[Followed(p)]
    BY <2>1, FollowModalStep
  <2>3. Unvisited(p) # {}
    BY <2>1, <2>2, DescendedEnd
  <2>4. Descended(root, Followed(p)) /\ Blocking(FollowModal[Followed(p)]) # {}
    BY <2>1, <2>2, <2>3, DescendedFollowed
  <2>5. Left(Followed(p)) < Left(p) /\ Left(p) \in Nat
    BY <2>1, <2>3, FollowedDescends
  <2>6. Followed(p) \in Bad
    BY <2>4 DEF Descended
  <2> QED BY <2>5, <2>6
<1> HIDE DEF Bad, Left
<1>2. Lefts \in SUBSET Nat
  BY <1>1
<1>3. Bad = {}
  <2> SUFFICES ASSUME Bad # {} PROVE FALSE
    OBVIOUS
  <2>1. PICK k \in Lefts : \A l \in Lefts : k <= l
    BY <1>2, LeastNat, ZenonT(60)
  <2>2. PICK p \in Bad : k = Left(p)
    BY <2>1
  <2>3. PICK q \in Bad : Left(q) < Left(p)
    BY <1>1
  <2>4. Left(q) \in Lefts /\ Left(q) \in Nat /\ Left(p) \in Nat
    BY <1>2
  <2> QED BY <2>1, <2>2, <2>3, <2>4
<1> QED BY <1>3 DEF Bad, Descended

\* A request is the whole path so far.
LEMMA RequestDescended ==
  ASSUME IInv, NEW c \in Managed
  PROVE  Descended(c, <<c>>)
<1>1. c \in Clients
  BY DEF IInv, DataOK, ClientsOK
<1>2. Members(<<c>>) = {c}
  BY <1>1, SingletonFacts
<1>3. <<c>> \in Seq(Clients) /\ Len(<<c>>) = 1 /\ <<c>>[1] = c
  BY <1>1
<1> DEFINE one == <<c>>
<1>4. Members(one) = {c} /\ one \in Seq(Clients) /\ Len(one) = 1 /\ one[1] = c
  BY <1>2, <1>3
<1> HIDE DEF one
<1>5. Descended(c, one)
  BY <1>4 DEF Descended
<1> QED BY <1>5 DEF one

LEMMA FocusTargetReaches ==
  ASSUME IInv, SpecificForest, NoGroupModals, NEW c \in Managed, FocusTarget(c) # NoClient
  PROVE  Blocking(FocusTarget(c)) = {}
<1>1. FocusTarget(c) = FollowModal[<<c>>]
  BY DEF FocusTarget
<1> QED BY <1>1, RequestDescended, FollowModalReaches

\* Where modal dialogs form trees, a focus request ends at a client that no modal dialog
\* blocks, however the dialogs are stacked and however many there are (focus_target).
THEOREM ModalReached == Spec => []FocusReachesModal
<1>1. IInv => FocusReachesModal
  BY FocusTargetReaches DEF FocusReachesModal
<1> QED BY <1>1, Inductive, PTL

\* A client that nothing blocks is its own focus target.
LEMMA UnblockedStays ==
  ASSUME IInv, NEW c \in Usable, Blocking(c) = {}
  PROVE  FocusTarget(c) = c
<1>1. c \in Managed /\ ~clients[c].iconic /\ IsVisible(c) /\ c \in Clients
  BY DEF Usable, IInv, DataOK, ClientsOK
<1> DEFINE one == <<c>>
<1>2. one \in Seq(Clients) /\ one[Len(one)] = c
  BY <1>1
<1>3. FocusTarget(c) = FollowModal[one]
  BY <1>1 DEF FocusTarget
<1> HIDE DEF one
<1>4. Unvisited(one) = {}
  BY <1>2 DEF Unvisited
<1> QED BY <1>2, <1>3, <1>4, FollowModalStep

LEMMA FallbackReached ==
  ASSUME IInv, SpecificForest, NoGroupModals, NEW old \in Clients, FocusFallbackFrom(old)
  PROVE  focused' \in FallbackTargets(old) \cup {NoClient}
<1> DEFINE target == Fallback(old)
           accepted == {c \in Members(FallbackRequests) :
                          FocusTarget(c) \in FallbackTargets(old)}
<1>1. CASE target = NoClient \/ FocusTarget(target) \notin Usable
  BY <1>1 DEF FocusFallbackFrom
<1>2. CASE target # NoClient /\ FocusTarget(target) \in Usable
  <2>1. focused' = FocusTarget(target)
    BY <1>2 DEF FocusFallbackFrom, TakeFocus
  <2>2. accepted # {} /\ target = FocusTarget(LastIn(FallbackRequests, accepted))
    BY <1>2 DEF Fallback
  <2>3. FallbackRequests \in Seq(Clients)
    <3>1. stacking \in Seq(Clients) /\ currentWorkspace \in WorkspaceIds
      BY BelowCount DEF IInv, DataOK, OrdersOK, SpacesOK
    <3>2. focusOrder[currentWorkspace] \in Seq(Clients)
      BY <3>1 DEF IInv, DataOK, HistoriesOK
    <3> QED BY <3>1, <3>2 DEF FallbackRequests
  <2>4. Members(FallbackRequests) \cap accepted # {}
    BY <2>2
  <2>5. PICK c \in Members(FallbackRequests) :
          target = FocusTarget(c) /\ FocusTarget(c) \in FallbackTargets(old)
    BY <2>2, <2>3, <2>4, LastInFacts, ZenonT(60)
  <2>6. target \in Usable /\ target \in FallbackTargets(old)
    BY <2>5 DEF FallbackTargets, AutomaticCandidates
  <2>7. c \in Managed
    BY <1>2, <2>5 DEF FocusTarget
  <2>8. Blocking(target) = {}
    BY <1>2, <2>5, <2>7, FocusTargetReaches
  <2> QED BY <2>1, <2>6, <2>8, UnblockedStays
<1> QED BY <1>1, <1>2

\* Where modal dialogs form trees, focus_fallback_from ends at a client it may choose or
\* clears the focus, although focus resolves the dialogs of its choice once more.
THEOREM FallbackChooses == Spec => FallbackEligibleInTrees
<1>1. IInv /\ [Next]_vars =>
        [SpecificForest /\ NoGroupModals => FallbackIsEligible]_vars
  BY FallbackReached DEF FallbackIsEligible
<1> QED BY <1>1, Inductive, PTL DEF Spec, FallbackEligibleInTrees

(* ---- Files ---- *)
Whole == [document : Documents, durable : {TRUE}]

Disks == [past : Seq(Whole), kept : Nat, temps : SUBSET Pids, lingering : SUBSET Pids]

DiskOK ==
    /\ disk \in [Files -> Disks]
    /\ \A f \in Files : 1 <= disk[f].kept /\ disk[f].kept <= Len(disk[f].past)

Steps == {"created", "synced", "renamed", "settled", "failed"}

Counts == [Files -> Nat]

Busy ==
    [alive : {TRUE}, at : Steps, file : Files,
     contents : [document : Documents, durable : BOOLEAN], blocked : Counts]

Resting == [alive : {TRUE}, at : {"idle"}, blocked : Counts]

\* The document of a saver is among the first n that its file has been.
Has(p, n) ==
    \E i \in 1..n : disk[process[p].file].past[i].document = process[p].contents.document

OnItsWay(p) ==
    /\ At(p, "synced") => process[p].contents.durable
    /\ At(p, "renamed") => Has(p, Len(disk[process[p].file].past))
    /\ At(p, "settled") => Has(p, disk[process[p].file].kept)

ProcessOK ==
    /\ process \in [Pids -> {NoProcess} \cup Resting \cup Busy]
    /\ \A p \in Pids : OnItsWay(p)

\* What a saver was told is saved is there, or was replaced by something saved later.
ReportedIsKept ==
    \A f \in SyncsDirectory : \A d \in acknowledged[f] :
       \E i \in 1..disk[f].kept : disk[f].past[i].document = d

FileInv ==
    /\ DiskOK /\ ProcessOK
    /\ saves \in 0..MaxSaves
    /\ acknowledged \in [Files -> SUBSET Documents]
    /\ ReportedIsKept

-----------------------------------------------------------------------------
(* ---- Facts about the operators ---- *)
LEMMA Bounds == MaxSaves \in Nat
  BY BoundsAssumption

LEMMA OneDocument ==
    ASSUME NEW contents \in Whole
    PROVE  <<contents>> \in Seq(Whole) /\ Len(<<contents>>) = 1
  OBVIOUS

LEMMA DocumentsOfType ==
    ASSUME NEW past \in Seq(Whole)
    PROVE  /\ DocumentsOf(past) \in Seq(Documents)
           /\ Len(DocumentsOf(past)) = Len(past)
           /\ \A i \in 1..Len(past) : DocumentsOf(past)[i] = past[i].document
  <1>1. /\ Len(past) \in Nat /\ DOMAIN past = 1..Len(past)
        /\ \A i \in 1..Len(past) : past[i] \in Whole
    OBVIOUS
  <1>2. /\ DOMAIN DocumentsOf(past) = 1..Len(past)
        /\ \A i \in 1..Len(past) :
              DocumentsOf(past)[i] = past[i].document /\ past[i].document \in Documents
    BY <1>1 DEF DocumentsOf, Whole
  <1>3. DocumentsOf(past) \in [1..Len(past) -> Documents]
    BY <1>1, <1>2 DEF DocumentsOf
  <1> QED BY <1>1, <1>2, <1>3

LEMMA DocumentsOfAppend ==
    ASSUME NEW past \in Seq(Whole), NEW contents \in Whole
    PROVE  DocumentsOf(Append(past, contents)) = Append(DocumentsOf(past), contents.document)
  <1> DEFINE longer == Append(past, contents)
             left == DocumentsOf(longer)
             right == Append(DocumentsOf(past), contents.document)
  <1>1. /\ longer \in Seq(Whole) /\ Len(longer) = Len(past) + 1
        /\ \A i \in 1..Len(past) : longer[i] = past[i]
        /\ longer[Len(past) + 1] = contents
    OBVIOUS
  <1>2. contents.document \in Documents
    BY DEF Whole
  <1>3. /\ left \in Seq(Documents) /\ Len(left) = Len(past) + 1
        /\ \A i \in 1..Len(past) + 1 : left[i] = longer[i].document
    BY <1>1, DocumentsOfType
  <1>4. /\ right \in Seq(Documents) /\ Len(right) = Len(past) + 1
        /\ \A i \in 1..Len(past) : right[i] = past[i].document
        /\ right[Len(past) + 1] = contents.document
    BY <1>2, DocumentsOfType
  <1> HIDE DEF longer, left, right
  <1>5. \A i \in 1..Len(left) : left[i] = right[i]
    BY <1>1, <1>3, <1>4, SMTT(40)
  <1>6. left = right
    BY <1>3, <1>4, <1>5, SeqEqual
  <1> QED BY <1>6 DEF left, right, longer

\* A loss of power takes the latest names away, and nothing else where all is durable.
LEMMA AfterFacts ==
    ASSUME NEW d \in Disks, NEW n \in 0..Len(d.past), NEW temps \in SUBSET Pids
    PROVE  /\ After(d, n, temps) \in Disks
           /\ After(d, n, temps).kept = n
           /\ After(d, n, temps).past = SubSeq(d.past, 1, n)
           /\ DocumentsOf(SubSeq(d.past, 1, n)) = SubSeq(DocumentsOf(d.past), 1, n)
  <1> DEFINE past == d.past
             first == SubSeq(past, 1, n)
             left == [i \in 1..n |-> Survives(past[i])]
  <1>1. /\ past \in Seq(Whole) /\ Len(past) \in Nat /\ n \in Nat /\ n <= Len(past)
        /\ \A i \in 1..Len(past) : past[i] \in Whole
    BY DEF Disks
  <1>2. \A i \in 1..n : past[i] \in Whole
    BY <1>1
  <1>3. /\ first \in Seq(Whole) /\ Len(first) = n
        /\ \A i \in 1..n : first[i] = past[i]
    <2> HIDE DEF past
    <2>1. /\ first \in Seq(Whole)
          /\ Len(first) = IF 1 <= n THEN n - 1 + 1 ELSE 0
          /\ \A i \in 1..n - 1 + 1 : first[i] = past[1 + i - 1]
      BY <1>1, <1>2, SubSeqProperties
    <2> QED BY <1>1, <2>1
  <1>4. /\ left \in Seq(Whole) /\ Len(left) = n
        /\ \A i \in 1..n : left[i] = past[i]
    <2>1. \A i \in 1..n : Survives(past[i]) = past[i]
      BY <1>2 DEF Survives, Whole
    <2>2. left \in [1..n -> Whole]
      BY <1>2, <2>1
    <2> QED BY <1>1, <2>1, <2>2
  <1>5. left = first
    <2> HIDE DEF left, first
    <2> QED BY <1>3, <1>4, SeqEqual
  <1>6. /\ After(d, n, temps) \in Disks
        /\ After(d, n, temps).kept = n
        /\ After(d, n, temps).past = first
    <2> HIDE DEF first
    <2> QED BY <1>1, <1>3, <1>5 DEF After, Disks
  <1>7. DocumentsOf(first) = SubSeq(DocumentsOf(past), 1, n)
    <2> DEFINE ours == DocumentsOf(first)
               docs == DocumentsOf(past)
               theirs == SubSeq(docs, 1, n)
    <2>1. /\ ours \in Seq(Documents) /\ Len(ours) = n
          /\ \A i \in 1..n : ours[i] = past[i].document
      <3> HIDE DEF first
      <3> QED BY <1>3, DocumentsOfType
    <2>2. /\ docs \in Seq(Documents) /\ Len(docs) = Len(past)
          /\ \A i \in 1..Len(past) : docs[i] = past[i].document
      <3> HIDE DEF past
      <3> QED BY <1>1, DocumentsOfType
    <2> HIDE DEF ours, docs, past, first
    <2>3. \A i \in 1..n : docs[i] \in Documents
      BY <1>1, <2>2
    <2>4. /\ theirs \in Seq(Documents)
          /\ Len(theirs) = IF 1 <= n THEN n - 1 + 1 ELSE 0
          /\ \A i \in 1..n - 1 + 1 : theirs[i] = docs[1 + i - 1]
      BY <1>1, <2>3, SubSeqProperties
    <2>5. /\ Len(theirs) = n
          /\ \A i \in 1..n : theirs[i] = past[i].document
      BY <1>1, <2>2, <2>4
    <2> HIDE DEF theirs
    <2>6. ours = theirs
      BY <2>1, <2>4, <2>5, SeqEqual
    <2> QED BY <2>6 DEF ours, theirs, docs
  <1> QED BY <1>6, <1>7
-----------------------------------------------------------------------------
(* ---- The invariant ---- *)
\* All steps but a loss of power add names, and keep those there are.
Grows ==
    \A f \in Files :
       /\ disk[f].kept <= disk'[f].kept /\ Len(disk[f].past) <= Len(disk'[f].past)
       /\ \A i \in 1..Len(disk[f].past) : disk'[f].past[i] = disk[f].past[i]

LEMMA AtBusy ==
    ASSUME ProcessOK, NEW p \in Pids
    PROVE  /\ \A at \in Steps : At(p, at) => process[p] \in Busy
           /\ At(p, "idle") => process[p] \in Resting
           /\ process[p].alive => process[p].blocked \in Counts
  <1>1. process[p] \in {NoProcess} \cup Resting \cup Busy
    BY DEF ProcessOK
  <1>2. CASE process[p] = NoProcess
    BY <1>2 DEF NoProcess, At
  <1>3. CASE process[p] \in Resting
    BY <1>3 DEF Resting, At, Steps
  <1>4. CASE process[p] \in Busy
    BY <1>4 DEF Busy, At, Steps
  <1> QED BY <1>1, <1>2, <1>3, <1>4

\* A saver that does nothing is still on its way.
LEMMA OthersOnTheirWay ==
    ASSUME DiskOK, ProcessOK, DiskOK', Grows, NEW p \in Pids, process'[p] = process[p]
    PROVE  OnItsWay(p)'
  <1>1. (At(p, "synced") => process[p].contents.durable)'
    BY DEF ProcessOK, OnItsWay, At
  <1>2. ASSUME At(p, "renamed")' PROVE Has(p, Len(disk[process[p].file].past))'
    <2> DEFINE f == process[p].file
    <2>1. f \in Files /\ Has(p, Len(disk[f].past))
      BY <1>2, AtBusy DEF ProcessOK, OnItsWay, At, Steps, Busy
    <2>2. PICK i \in 1..Len(disk[f].past) :
             disk[f].past[i].document = process[p].contents.document
      BY <2>1 DEF Has
    <2>3. i \in 1..Len(disk'[f].past)
      BY <2>1 DEF Grows, DiskOK, Disks
    <2> QED BY <2>1, <2>2, <2>3 DEF Has, Grows
  <1>3. ASSUME At(p, "settled")' PROVE Has(p, disk[process[p].file].kept)'
    <2> DEFINE f == process[p].file
    <2>1. f \in Files /\ Has(p, disk[f].kept)
      BY <1>3, AtBusy DEF ProcessOK, OnItsWay, At, Steps, Busy
    <2>2. PICK i \in 1..disk[f].kept :
             disk[f].past[i].document = process[p].contents.document
      BY <2>1 DEF Has
    <2>3. i \in 1..disk'[f].kept /\ i \in 1..Len(disk[f].past)
      BY <2>1 DEF Grows, DiskOK, Disks
    <2> QED BY <2>1, <2>2, <2>3 DEF Has, Grows
  <1> QED BY <1>1, <1>2, <1>3 DEF OnItsWay

LEMMA ReportedStay ==
    ASSUME DiskOK, DiskOK', Grows, ReportedIsKept, UNCHANGED acknowledged
    PROVE  ReportedIsKept'
  <1> SUFFICES ASSUME NEW f \in SyncsDirectory, NEW d \in acknowledged[f]
               PROVE  \E i \in 1..disk'[f].kept : disk'[f].past[i].document = d
    BY DEF ReportedIsKept
  <1>1. PICK i \in 1..disk[f].kept : disk[f].past[i].document = d
    BY DEF ReportedIsKept
  <1>2. f \in Files /\ i \in 1..disk'[f].kept /\ i \in 1..Len(disk[f].past)
    BY FilesAssumption DEF DiskOK, Disks, Grows
  <1> QED BY <1>1, <1>2 DEF Grows

\* A step of one process, which reports nothing.
LEMMA StepOf ==
    ASSUME FileInv, DiskOK', Grows, UNCHANGED acknowledged, saves' \in 0..MaxSaves,
           NEW p \in Pids, NEW new \in {NoProcess} \cup Resting \cup Busy,
           process' = [process EXCEPT ![p] = new], OnItsWay(p)'
    PROVE  FileInv'
  <1>1. \A q \in Pids : OnItsWay(q)'
    BY OthersOnTheirWay DEF FileInv, ProcessOK
  <1>2. ProcessOK'
    BY <1>1 DEF FileInv, ProcessOK
  <1> QED BY <1>2, ReportedStay DEF FileInv

LEMMA SameDisk == ASSUME DiskOK, UNCHANGED disk PROVE DiskOK' /\ Grows
  BY DEF DiskOK, Disks, Grows

\* A step that changes the directory of one file
LEMMA DiskStep ==
    ASSUME DiskOK, NEW f \in Files, NEW d \in Disks,
           disk' = disk \/ disk' = [disk EXCEPT ![f] = d],
           disk[f].kept <= d.kept, d.kept <= Len(d.past),
           Len(disk[f].past) <= Len(d.past),
           \A i \in 1..Len(disk[f].past) : d.past[i] = disk[f].past[i]
    PROVE  DiskOK' /\ Grows
  <1>1. CASE disk' = disk
    BY <1>1, SameDisk
  <1>2. CASE disk' = [disk EXCEPT ![f] = d]
    <2>1. \A g \in Files : disk'[g] = IF g = f THEN d ELSE disk[g]
      BY <1>2 DEF DiskOK
    <2>2. disk' \in [Files -> Disks]
      BY <1>2 DEF DiskOK
    <2>3. \A g \in Files : 1 <= disk'[g].kept /\ disk'[g].kept <= Len(disk'[g].past)
      BY <2>1 DEF DiskOK, Disks
    <2>4. Grows
      <3> SUFFICES ASSUME NEW g \in Files
                   PROVE  /\ disk[g].kept <= disk'[g].kept
                          /\ Len(disk[g].past) <= Len(disk'[g].past)
                          /\ \A i \in 1..Len(disk[g].past) : disk'[g].past[i] = disk[g].past[i]
        BY DEF Grows
      <3>1. CASE g = f
        BY <2>1, <3>1
      <3>2. CASE g /= f
        BY <2>1, <3>2 DEF DiskOK, Disks
      <3> QED BY <3>1, <3>2
    <2> QED BY <2>2, <2>3, <2>4 DEF DiskOK
  <1> QED BY <1>1, <1>2

LEMMA InitInv == FileInit => FileInv
  <1> SUFFICES ASSUME FileInit PROVE FileInv
    OBVIOUS
  <1>1. DiskOK
    <2>1. Contents(0, TRUE) \in Whole
      BY Bounds DEF Contents, Whole, Documents
    <2>2. <<Contents(0, TRUE)>> \in Seq(Whole) /\ Len(<<Contents(0, TRUE)>>) = 1
      BY <2>1, OneDocument
    <2>3. NewDisk \in Disks /\ NewDisk.kept = 1 /\ Len(NewDisk.past) = 1
      BY <2>2 DEF NewDisk, Disks
    <2>4. disk \in [Files -> Disks] /\ \A f \in Files : disk[f] = NewDisk
      BY <2>3 DEF FileInit
    <2> QED BY <2>3, <2>4, SMTT(40) DEF DiskOK
  <1>2. ProcessOK
    BY DEF FileInit, ProcessOK, OnItsWay, At, NoProcess
  <1> QED BY <1>1, <1>2, Bounds, FilesAssumption DEF FileInit, FileInv, ReportedIsKept

LEMMA StartInv == ASSUME FileInv, NEW p \in Pids, Start(p) PROVE FileInv'
  <1> DEFINE new == Idle([f \in Files |-> 0])
  <1>1. new \in Resting /\ new.at = "idle"
    BY DEF Idle, Resting, Counts
  <1>2. OnItsWay(p)'
    BY <1>1 DEF FileInv, ProcessOK, Start, OnItsWay, At
  <1> QED BY <1>1, <1>2, SameDisk, StepOf DEF FileInv, Start

LEMMA CreateInv == ASSUME FileInv, NEW p \in Pids, NEW f \in Files, Create(p, f) PROVE FileInv'
  <1>1. /\ saves' \in 0..MaxSaves
        /\ process[p].blocked \in Counts
    BY AtBusy, Bounds DEF FileInv, Create, At
  <1>2. DiskOK' /\ Grows
    <2>1. \A g \in Files : /\ disk'[g] \in Disks
                           /\ disk'[g].past = disk[g].past /\ disk'[g].kept = disk[g].kept
      <3>1. /\ WithTemporary(disk[f], p) \in Disks
            /\ WithTemporary(disk[f], p).past = disk[f].past
            /\ WithTemporary(disk[f], p).kept = disk[f].kept
        BY DEF FileInv, DiskOK, Disks, WithTemporary
      <3>2. disk' \in {disk, [disk EXCEPT ![f] = WithTemporary(@, p)]}
        BY DEF Create
      <3> QED BY <3>1, <3>2 DEF FileInv, DiskOK
    <2>2. disk' \in [Files -> Disks]
      BY <2>1 DEF FileInv, DiskOK, Create
    <2> QED BY <2>1, <2>2 DEF FileInv, DiskOK, Disks, Grows
  <1>3. PICK new \in Busy : /\ process' = [process EXCEPT ![p] = new]
                            /\ new.at \in {"created", "failed"}
    <2>1. Contents(saves', FALSE) \in [document : Documents, durable : BOOLEAN]
      BY <1>1 DEF Contents, Documents
    <2> DEFINE made == Saving(p, "created", f, Contents(saves', FALSE))
               met == [Saving(p, "failed", f, Contents(saves', FALSE))
                         EXCEPT !.blocked[f] = @ + 1]
    <2>2. made \in Busy /\ made.at = "created"
      BY <1>1, <2>1 DEF Saving, Busy, Steps
    <2>3. met \in Busy /\ met.at = "failed"
      <3> DEFINE one == Saving(p, "failed", f, Contents(saves', FALSE))
      <3>1. one \in Busy /\ one.at = "failed"
        BY <1>1, <2>1 DEF Saving, Busy, Steps
      <3> HIDE DEF one
      <3>2. one.blocked[f] + 1 \in Nat /\ one.blocked \in Counts
        BY <3>1 DEF Busy, Counts
      <3>3. [one.blocked EXCEPT ![f] = @ + 1] \in Counts
        BY <3>2 DEF Counts
      <3>4. [one EXCEPT !.blocked[f] = @ + 1] \in Busy
        BY <3>1, <3>3 DEF Busy
      <3>5. [one EXCEPT !.blocked[f] = @ + 1].at = "failed"
        BY <3>1 DEF Busy
      <3> QED BY <3>4, <3>5 DEF one
    <2> QED BY <2>2, <2>3 DEF Create
  <1>4. OnItsWay(p)'
    BY <1>3 DEF FileInv, ProcessOK, OnItsWay, At
  <1> QED BY <1>1, <1>2, <1>3, <1>4, StepOf DEF Create

LEMMA SyncFacts ==
    ASSUME FileInv, NEW p \in Pids, Sync(p)
    PROVE  /\ process[p] \in Busy
           /\ \E new \in Busy :
                 /\ process' = [process EXCEPT ![p] = new]
                 /\ new.at = "synced" /\ new.contents.durable
                 /\ new.file = process[p].file /\ new.blocked = process[p].blocked
  <1> DEFINE new == [process[p] EXCEPT !.at = "synced", !.contents.durable = TRUE]
  <1>1. process[p] \in Busy
    BY AtBusy DEF FileInv, Sync, Steps
  <1>2. /\ new \in Busy /\ new.at = "synced" /\ new.contents.durable
        /\ new.file = process[p].file /\ new.blocked = process[p].blocked
    BY <1>1 DEF Busy, Steps
  <1>3. process' = [process EXCEPT ![p] = new]
    BY <1>1 DEF Sync, Busy
  <1> HIDE DEF new
  <1> QED BY <1>1, <1>2, <1>3

LEMMA SyncInv == ASSUME FileInv, NEW p \in Pids, Sync(p) PROVE FileInv'
  <1>1. PICK new \in Busy :
           /\ process' = [process EXCEPT ![p] = new]
           /\ new.at = "synced" /\ new.contents.durable
    BY SyncFacts
  <1>2. OnItsWay(p)'
    BY <1>1 DEF FileInv, ProcessOK, OnItsWay, At
  <1> QED BY <1>1, <1>2, SameDisk, StepOf DEF FileInv, Sync

\* Renaming adds a whole document, for the saver has made it durable.
LEMMA RenameFacts ==
    ASSUME FileInv, NEW p \in Pids, Rename(p)
    PROVE  LET f == process[p].file
               contents == process[p].contents IN
           /\ f \in Files /\ contents \in Whole /\ process[p] \in Busy
           /\ disk' = [disk EXCEPT ![f] = Named(@, p)]
           /\ Named(disk[f], p) \in Disks
           /\ Named(disk[f], p).kept = disk[f].kept
           /\ Named(disk[f], p).past = Append(disk[f].past, contents)
  <1>1. process[p] \in Busy /\ process[p].contents.durable
    BY AtBusy DEF FileInv, Rename, Steps, ProcessOK, OnItsWay
  <1>2. process[p].contents \in Whole
    BY <1>1 DEF Busy, Whole
  <1>3. process[p].file \in Files /\ disk[process[p].file] \in Disks
    BY <1>1 DEF FileInv, DiskOK, Busy
  <1>4. ASSUME NEW d \in Disks
        PROVE  /\ Named(d, p) \in Disks /\ Named(d, p).kept = d.kept
               /\ Named(d, p).past = Append(d.past, process[p].contents)
    <2>1. Append(d.past, process[p].contents) \in Seq(Whole)
      BY <1>2 DEF Disks
    <2> QED BY <2>1 DEF Named, Disks
  <1> QED BY <1>1, <1>2, <1>3, <1>4 DEF Rename

LEMMA RenameInv == ASSUME FileInv, NEW p \in Pids, Rename(p) PROVE FileInv'
  <1> DEFINE f == process[p].file
             contents == process[p].contents
             new == [process[p] EXCEPT !.at = "renamed"]
             d == Named(disk[f], p)
  <1>1. /\ f \in Files /\ contents \in Whole /\ process[p] \in Busy
        /\ disk' = [disk EXCEPT ![f] = d]
        /\ d \in Disks /\ d.kept = disk[f].kept /\ d.past = Append(disk[f].past, contents)
    BY RenameFacts
  <1>2. /\ new \in Busy /\ new.at = "renamed" /\ new.file = f /\ new.contents = contents
    BY <1>1 DEF Busy, Steps
  <1>3. process' = [process EXCEPT ![p] = new] /\ UNCHANGED <<acknowledged, saves>>
    BY DEF Rename, Goes
  <1>4. /\ disk[f] \in Disks /\ Len(d.past) = Len(disk[f].past) + 1
        /\ \A i \in 1..Len(disk[f].past) : d.past[i] = disk[f].past[i]
        /\ d.past[Len(d.past)] = contents
    <2> HIDE DEF d, f, contents
    <2>1. disk[f] \in Disks
      BY <1>1 DEF FileInv, DiskOK
    <2>2. disk[f].past \in Seq(Whole) /\ contents \in Whole /\ d.past = Append(disk[f].past, contents)
      BY <1>1, <2>1 DEF Disks
    <2> QED BY ONLY <2>1, <2>2
  <1> HIDE DEF d, new
  <1> DEFINE before == disk[f]
  <1> HIDE DEF before
  <1>5. DiskOK' /\ Grows
    <2>1. /\ disk[f].kept <= d.kept /\ d.kept <= Len(d.past)
          /\ Len(disk[f].past) <= Len(d.past)
      <3>1. before.kept <= Len(before.past)
        BY <1>1 DEF FileInv, DiskOK, before
      <3>2. /\ before \in Disks /\ d.kept = before.kept
            /\ Len(d.past) = Len(before.past) + 1
        BY <1>1, <1>4 DEF before
      <3>3. before.kept \in Nat /\ Len(before.past) \in Nat
        BY ONLY <3>2 DEF Disks
      <3>4. /\ before.kept <= d.kept /\ d.kept <= Len(d.past)
            /\ Len(before.past) <= Len(d.past)
        BY ONLY <3>1, <3>2, <3>3
      <3> QED BY <3>4 DEF before
    <2> QED BY <1>1, <1>4, <2>1, DiskStep DEF FileInv
  <1>6. OnItsWay(p)'
    <2>1. process'[p] = new /\ disk'[f] = d
      BY <1>1, <1>3 DEF FileInv, DiskOK, ProcessOK
    <2>2. Len(d.past) \in 1..Len(d.past)
      <3>1. Len(before.past) \in Nat /\ Len(d.past) = Len(before.past) + 1
        BY <1>4 DEF Disks, before
      <3> QED BY ONLY <3>1
    <2> QED BY <1>2, <1>4, <2>1, <2>2 DEF OnItsWay, At, Has
  <1> QED BY <1>2, <1>3, <1>5, <1>6, StepOf DEF FileInv

LEMMA SettledFacts ==
    ASSUME DiskOK, NEW f \in Files, disk' = [disk EXCEPT ![f] = Settled(@)]
    PROVE  /\ DiskOK' /\ Grows
           /\ disk'[f].past = disk[f].past /\ disk'[f].kept = Len(disk[f].past)
  <1>1. /\ Settled(disk[f]) \in Disks /\ Settled(disk[f]).past = disk[f].past
        /\ Settled(disk[f]).kept = Len(disk[f].past)
    <2>1. disk[f] \in Disks /\ Len(disk[f].past) \in Nat
      BY DEF DiskOK, Disks
    <2> QED BY <2>1 DEF Disks, Settled
  <1>2. disk[f].kept <= Len(disk[f].past) /\ Len(disk[f].past) \in Nat
    BY DEF DiskOK, Disks
  <1>3. disk'[f] = Settled(disk[f])
    BY DEF DiskOK
  <1>4. DiskOK' /\ Grows
    <2> DEFINE d == Settled(disk[f])
    <2>1. /\ d \in Disks /\ disk' = [disk EXCEPT ![f] = d]
          /\ disk[f].kept <= d.kept /\ d.kept <= Len(d.past)
          /\ Len(disk[f].past) <= Len(d.past)
          /\ \A i \in 1..Len(disk[f].past) : d.past[i] = disk[f].past[i]
      BY <1>1, <1>2
    <2> HIDE DEF d
    <2> QED BY <2>1, DiskStep
  <1> QED BY <1>1, <1>3, <1>4

LEMMA SyncDirectoryInv == ASSUME FileInv, NEW p \in Pids, SyncDirectory(p) PROVE FileInv'
  <1> DEFINE f == process[p].file
             new == [process[p] EXCEPT !.at = "settled"]
  <1>1. process[p] \in Busy /\ f \in Files /\ Has(p, Len(disk[f].past))
    BY AtBusy DEF FileInv, ProcessOK, OnItsWay, SyncDirectory, Steps, Busy
  <1>2. /\ DiskOK' /\ Grows
        /\ disk'[f].past = disk[f].past /\ disk'[f].kept = Len(disk[f].past)
    BY <1>1, SettledFacts DEF FileInv, SyncDirectory
  <1>3. new \in Busy /\ new.at = "settled" /\ new.file = f /\ new.contents = process[p].contents
    BY <1>1 DEF Busy, Steps
  <1>4. process' = [process EXCEPT ![p] = new] /\ UNCHANGED <<acknowledged, saves>>
    BY DEF SyncDirectory, Goes
  <1> HIDE DEF new
  <1>5. OnItsWay(p)'
    BY <1>1, <1>2, <1>3, <1>4 DEF FileInv, ProcessOK, OnItsWay, At, Has
  <1> QED BY <1>2, <1>3, <1>4, <1>5, StepOf DEF FileInv

LEMMA SucceedFacts ==
    ASSUME FileInv, NEW p \in Pids, Succeed(p)
    PROVE  /\ process[p] \in Busy
           /\ \E i \in 1..Len(disk[process[p].file].past) :
                 /\ process[p].file \in SyncsDirectory => i <= disk[process[p].file].kept
                 /\ disk[process[p].file].past[i].document = process[p].contents.document
  <1>1. process[p] \in Busy /\ process[p].file \in Files
    BY AtBusy DEF FileInv, Succeed, Steps, Busy
  <1>2. CASE At(p, "settled")
    <2>1. Has(p, disk[process[p].file].kept)
      BY <1>2 DEF FileInv, ProcessOK, OnItsWay
    <2> QED BY <1>1, <2>1 DEF FileInv, DiskOK, Disks, Has
  <1>3. CASE At(p, "renamed") /\ process[p].file \notin SyncsDirectory
    BY <1>1, <1>3 DEF FileInv, ProcessOK, OnItsWay, Has
  <1> QED BY <1>1, <1>2, <1>3 DEF Succeed

LEMMA SucceedInv == ASSUME FileInv, NEW p \in Pids, Succeed(p) PROVE FileInv'
  <1> DEFINE f == process[p].file
             document == process[p].contents.document
             new == Idle(process[p].blocked)
  <1>1. PICK i \in 1..Len(disk[f].past) :
           /\ process[p] \in Busy
           /\ f \in SyncsDirectory => i <= disk[f].kept
           /\ disk[f].past[i].document = document
    BY SucceedFacts
  <1>2. /\ process' = [process EXCEPT ![p] = new] /\ UNCHANGED <<disk, saves>>
        /\ acknowledged' = [acknowledged EXCEPT ![f] = @ \cup {document}]
    BY DEF Succeed
  <1>3. new \in Resting /\ new.at = "idle"
    BY <1>1 DEF Idle, Resting, Busy
  <1>4. DiskOK' /\ Grows
    BY <1>2, SameDisk DEF FileInv
  <1>5. ProcessOK'
    <2>1. \A q \in Pids \ {p} : OnItsWay(q)'
      BY <1>2, <1>4, OthersOnTheirWay DEF FileInv, ProcessOK
    <2>2. OnItsWay(p)'
      BY <1>2, <1>3 DEF FileInv, ProcessOK, OnItsWay, At
    <2> QED BY <1>2, <1>3, <2>1, <2>2 DEF FileInv, ProcessOK
  <1>6. acknowledged' \in [Files -> SUBSET Documents]
    BY <1>1, <1>2 DEF FileInv, Busy
  <1>7. ReportedIsKept'
    <2> SUFFICES ASSUME NEW g \in SyncsDirectory, NEW d \in acknowledged'[g]
                 PROVE  \E j \in 1..disk[g].kept : disk[g].past[j].document = d
      BY <1>2 DEF ReportedIsKept
    <2>1. CASE d \in acknowledged[g]
      BY <2>1 DEF FileInv, ReportedIsKept
    <2>2. CASE d \notin acknowledged[g]
      <3>1. g = f /\ d = document
        BY <1>2, <2>2, FilesAssumption DEF FileInv
      <3>2. i \in 1..disk[f].kept
        BY <1>1, <3>1, FilesAssumption DEF FileInv, DiskOK, Disks
      <3> QED BY <1>1, <3>1, <3>2
    <2> QED BY <2>1, <2>2
  <1> QED BY <1>2, <1>4, <1>5, <1>6, <1>7 DEF FileInv

LEMMA FailInv == ASSUME FileInv, NEW p \in Pids, Fail(p) PROVE FileInv'
  <1> DEFINE new == [process[p] EXCEPT !.at = "failed"]
  <1>1. new \in Busy /\ new.at = "failed"
    BY AtBusy DEF FileInv, Fail, Steps, Busy
  <1>2. /\ process' = [process EXCEPT ![p] = new] /\ UNCHANGED <<disk, acknowledged, saves>>
    BY DEF Fail, Goes
  <1> HIDE DEF new
  <1>3. OnItsWay(p)'
    BY <1>1, <1>2 DEF FileInv, ProcessOK, OnItsWay, At
  <1> QED BY <1>1, <1>2, <1>3, SameDisk, StepOf DEF FileInv

LEMMA CleanUpInv == ASSUME FileInv, NEW p \in Pids, CleanUp(p) PROVE FileInv'
  <1> DEFINE f == process[p].file
             new == Idle(process[p].blocked)
  <1>1. process[p] \in Busy /\ f \in Files
    BY AtBusy DEF FileInv, CleanUp, Steps, Busy
  <1>2. new \in Resting /\ new.at = "idle"
    BY <1>1 DEF Idle, Resting, Busy
  <1>3. process' = [process EXCEPT ![p] = new] /\ UNCHANGED <<acknowledged, saves>>
    BY DEF CleanUp
  <1>4. DiskOK' /\ Grows
    <2>1. disk' \in {disk, [disk EXCEPT ![f].temps = @ \ {p}]}
      BY DEF CleanUp
    <2> DEFINE d == [disk[f] EXCEPT !.temps = @ \ {p}]
    <2>2. d \in Disks /\ d.past = disk[f].past /\ d.kept = disk[f].kept
      BY <1>1 DEF FileInv, DiskOK, Disks
    <2>3. disk' \in {disk, [disk EXCEPT ![f] = d]}
      BY <2>1
    <2> HIDE DEF d
    <2> QED
      <3>1. /\ disk[f].kept <= d.kept /\ d.kept <= Len(d.past)
            /\ Len(disk[f].past) <= Len(d.past)
            /\ \A i \in 1..Len(disk[f].past) : d.past[i] = disk[f].past[i]
        BY <1>1, <2>2 DEF FileInv, DiskOK, Disks
      <3> QED BY <1>1, <2>2, <2>3, <3>1, DiskStep DEF FileInv
  <1>5. OnItsWay(p)'
    BY <1>2, <1>3 DEF FileInv, ProcessOK, OnItsWay, At
  <1> QED BY <1>2, <1>3, <1>4, <1>5, StepOf DEF FileInv

LEMMA EndInv == ASSUME FileInv, NEW p \in Pids, Exit(p) \/ Die(p) PROVE FileInv'
  <1>1. process' = [process EXCEPT ![p] = NoProcess] /\ UNCHANGED <<disk, acknowledged, saves>>
    BY DEF Exit, Die
  <1>2. OnItsWay(p)'
    BY <1>1 DEF FileInv, ProcessOK, OnItsWay, At, NoProcess
  <1> QED BY <1>1, <1>2, SameDisk, StepOf DEF FileInv

LEMMA FlushInv == ASSUME FileInv, NEW f \in Files, Flush(f) PROVE FileInv'
  <1>1. DiskOK' /\ Grows
    BY SettledFacts DEF FileInv, Flush
  <1>2. \A p \in Pids : OnItsWay(p)'
    BY <1>1, OthersOnTheirWay DEF FileInv, Flush
  <1> QED BY <1>1, <1>2, ReportedStay DEF FileInv, ProcessOK, Flush

\* A loss of power leaves some of the names that each file has had, none older than what
\* is on the disk for certain.
LEMMA LosePowerFacts ==
    ASSUME FileInv, LosePower
    PROVE  \E n \in [Files -> Nat] : \A f \in Files :
              /\ disk[f].kept <= n[f] /\ n[f] <= Len(disk[f].past)
              /\ disk'[f] \in Disks /\ disk'[f].kept = n[f]
              /\ disk'[f].past = SubSeq(disk[f].past, 1, n[f])
              /\ DocumentsOf(disk'[f].past) = SubSeq(DocumentsOf(disk[f].past), 1, n[f])
  <1>1. PICK n \in [Files -> 1..MaxSaves + 1], temps \in [Files -> SUBSET Pids] :
           /\ \A f \in Files : n[f] \in disk[f].kept..Len(disk[f].past)
           /\ disk' = [f \in Files |-> After(disk[f], n[f], temps[f])]
    BY DEF LosePower
  <1>2. n \in [Files -> Nat]
    BY <1>1, Bounds
  <1>3. ASSUME NEW f \in Files
        PROVE  /\ disk[f].kept <= n[f] /\ n[f] <= Len(disk[f].past)
               /\ disk'[f] \in Disks /\ disk'[f].kept = n[f]
               /\ disk'[f].past = SubSeq(disk[f].past, 1, n[f])
               /\ DocumentsOf(disk'[f].past) = SubSeq(DocumentsOf(disk[f].past), 1, n[f])
    <2>1. /\ disk[f] \in Disks /\ disk[f].kept \in Nat /\ Len(disk[f].past) \in Nat
          /\ n[f] \in disk[f].kept..Len(disk[f].past)
      BY <1>1 DEF FileInv, DiskOK, Disks
    <2>2. n[f] \in 0..Len(disk[f].past) /\ temps[f] \in SUBSET Pids
      BY <1>1, <1>2, <2>1
    <2>3. disk'[f] = After(disk[f], n[f], temps[f])
      BY <1>1
    <2> DEFINE d == disk[f]
               k == n[f]
               t == temps[f]
    <2>4. d \in Disks /\ k \in 0..Len(d.past) /\ t \in SUBSET Pids
      BY <2>1, <2>2
    <2> HIDE DEF d, k, t
    <2>5. /\ After(d, k, t) \in Disks /\ After(d, k, t).kept = k
          /\ After(d, k, t).past = SubSeq(d.past, 1, k)
          /\ DocumentsOf(SubSeq(d.past, 1, k)) = SubSeq(DocumentsOf(d.past), 1, k)
      BY <2>4, AfterFacts
    <2> QED BY <2>1, <2>3, <2>5 DEF d, k, t
  <1> QED BY <1>2, <1>3

LEMMA LosePowerInv == ASSUME FileInv, LosePower PROVE FileInv'
  <1>1. PICK n \in [Files -> Nat] : \A f \in Files :
           /\ disk[f].kept <= n[f] /\ n[f] <= Len(disk[f].past)
           /\ disk'[f] \in Disks /\ disk'[f].kept = n[f]
           /\ disk'[f].past = SubSeq(disk[f].past, 1, n[f])
    BY LosePowerFacts
  <1>2. ASSUME NEW f \in Files
        PROVE  /\ disk[f].kept \in Nat /\ 1 <= disk[f].kept
               /\ Len(disk'[f].past) = n[f]
               /\ \A i \in 1..n[f] : disk'[f].past[i] = disk[f].past[i]
    <2> DEFINE past == disk[f].past
    <2>1. /\ past \in Seq(Whole) /\ Len(past) \in Nat
          /\ disk[f].kept \in Nat /\ 1 <= disk[f].kept
      BY DEF FileInv, DiskOK, Disks
    <2>2. n[f] \in Nat /\ n[f] <= Len(past) /\ disk'[f].past = SubSeq(past, 1, n[f])
      BY <1>1
    <2> HIDE DEF past
    <2>3. \A i \in 1..n[f] : past[i] \in Whole
      BY <2>1, <2>2
    <2>4. /\ Len(SubSeq(past, 1, n[f])) = IF 1 <= n[f] THEN n[f] - 1 + 1 ELSE 0
          /\ \A i \in 1..n[f] - 1 + 1 : SubSeq(past, 1, n[f])[i] = past[1 + i - 1]
      BY <2>2, <2>3, SubSeqProperties
    <2>5. /\ Len(disk'[f].past) = n[f]
          /\ \A i \in 1..n[f] : disk'[f].past[i] = past[i]
      BY <2>2, <2>4
    <2> QED BY <2>1, <2>5 DEF past
  <1>3. DiskOK'
    <2>1. disk' \in [Files -> Disks]
      BY <1>1 DEF LosePower
    <2>2. \A f \in Files : 1 <= disk'[f].kept /\ disk'[f].kept <= Len(disk'[f].past)
      BY <1>1, <1>2
    <2> QED BY <2>1, <2>2 DEF DiskOK
  <1>4. ProcessOK'
    BY DEF LosePower, ProcessOK, OnItsWay, At, NoProcess
  <1>5. ReportedIsKept'
    <2> SUFFICES ASSUME NEW f \in SyncsDirectory, NEW d \in acknowledged[f]
                 PROVE  \E i \in 1..disk'[f].kept : disk'[f].past[i].document = d
      BY DEF ReportedIsKept, LosePower
    <2>1. f \in Files
      BY FilesAssumption
    <2>2. PICK i \in 1..disk[f].kept : disk[f].past[i].document = d
      BY DEF FileInv, ReportedIsKept
    <2>3. i \in 1..n[f]
      BY <1>1, <1>2, <2>1
    <2> QED BY <1>1, <1>2, <2>1, <2>2, <2>3
  <1> QED BY <1>3, <1>4, <1>5 DEF FileInv, LosePower

LEMMA StutterInv == ASSUME FileInv, UNCHANGED fileVars PROVE FileInv'
  BY DEF fileVars, counters, FileInv, DiskOK, ProcessOK, OnItsWay, At, Has, ReportedIsKept

LEMMA NextInv == ASSUME FileInv, [FileNext]_fileVars PROVE FileInv'
  BY StartInv, CreateInv, SyncInv, RenameInv, SyncDirectoryInv, SucceedInv, FailInv,
     CleanUpInv, EndInv, FlushInv, LosePowerInv, StutterInv DEF FileNext

LEMMA Invariance == FileSpec => []FileInv
  BY InitInv, NextInv, PTL DEF FileSpec

-----------------------------------------------------------------------------
(* ---- The refinement ---- *)
OurPast == [f \in Files |-> DocumentsOf(disk[f].past)]

OurKept == [f \in Files |-> disk[f].kept]

LEMMA InitImplements == FileInit => Promise!Init
  <1> SUFFICES ASSUME FileInit PROVE Promise!Init
    OBVIOUS
  <1>1. 0 \in Documents
    BY Bounds DEF Documents
  <1>2. DocumentsOf(<<Contents(0, TRUE)>>) = <<0>>
    BY DEF DocumentsOf, Contents
  <1>3. OurPast = [f \in Files |-> <<0>>]
    BY <1>2 DEF FileInit, NewDisk, OurPast
  <1>4. OurPast \in [Files -> {<<d>> : d \in Documents}]
    BY <1>1, <1>3
  <1>5. OurKept = [f \in Files |-> 1]
    BY DEF FileInit, NewDisk, OurKept
  <1> QED BY <1>4, <1>5 DEF FileInit, Promise!Init, OurPast, OurKept

\* Steps that change no name are not seen.
LEMMA QuietStep ==
    ASSUME UNCHANGED acknowledged,
           \A f \in Files : disk'[f].past = disk[f].past /\ disk'[f].kept = disk[f].kept
    PROVE  UNCHANGED Promise!vars
  <1>1. OurPast' = OurPast /\ OurKept' = OurKept
    BY DEF OurPast, OurKept
  <1> QED BY <1>1 DEF Promise!vars, OurPast, OurKept

LEMMA SettleStep ==
    ASSUME DiskOK, UNCHANGED acknowledged,
           NEW f \in Files, disk' = [disk EXCEPT ![f] = Settled(@)]
    PROVE  Promise!Settle(f)
  <1>1. /\ \A g \in Files : disk'[g].past = disk[g].past
        /\ \A g \in Files \ {f} : disk'[g].kept = disk[g].kept
        /\ disk'[f].kept = Len(disk[f].past)
    BY DEF DiskOK, Settled, Disks
  <1>2. OurPast' = OurPast
    BY <1>1 DEF OurPast
  <1>3. OurKept' = [OurKept EXCEPT ![f] = Len(disk[f].past)]
    BY <1>1 DEF OurKept
  <1>4. /\ Len(OurPast[f]) = Len(disk[f].past) /\ OurKept[f] = disk[f].kept
        /\ Len(disk[f].past) \in OurKept[f]..Len(OurPast[f])
    BY DocumentsOfType DEF DiskOK, Disks, OurPast, OurKept
  <1>5. \E n \in OurKept[f]..Len(OurPast[f]) : OurKept' = [OurKept EXCEPT ![f] = n]
    BY <1>3, <1>4
  <1> QED BY <1>2, <1>5 DEF Promise!Settle, OurPast, OurKept

LEMMA RenameStep == ASSUME FileInv, NEW p \in Pids, Rename(p) PROVE Promise!Replace(process[p].file)
  <1> DEFINE f == process[p].file
             contents == process[p].contents
  <1>1. /\ f \in Files /\ contents \in Whole
        /\ disk' = [disk EXCEPT ![f] = Named(@, p)]
        /\ Named(disk[f], p).kept = disk[f].kept
        /\ Named(disk[f], p).past = Append(disk[f].past, contents)
    BY RenameFacts
  <1>2. contents.document \in Documents /\ disk[f].past \in Seq(Whole)
    BY <1>1 DEF Whole, FileInv, DiskOK, Disks
  <1>3. DocumentsOf(disk'[f].past) = Append(DocumentsOf(disk[f].past), contents.document)
    BY <1>1, <1>2, DocumentsOfAppend, ZenonT(40) DEF FileInv, DiskOK
  <1>4. OurPast' = [OurPast EXCEPT ![f] = Append(@, contents.document)]
    BY <1>1, <1>3, ZenonT(40) DEF OurPast, FileInv, DiskOK
  <1>5. OurKept' = OurKept
    <2> DEFINE named == Named(disk[f], p)
    <2>1. disk \in [Files -> Disks]
      BY DEF FileInv, DiskOK
    <2>2. f \in Files /\ disk' = [disk EXCEPT ![f] = named] /\ named.kept = disk[f].kept
      BY <1>1
    <2> HIDE DEF named, f
    <2>3. \A g \in Files : disk'[g].kept = disk[g].kept
      BY ONLY <2>1, <2>2
    <2> QED BY <2>3 DEF OurKept
  <1> QED BY <1>2, <1>4, <1>5 DEF Promise!Replace, OurPast, OurKept, Rename

LEMMA SucceedStep ==
    ASSUME FileInv, NEW p \in Pids, Succeed(p)
    PROVE  Promise!Acknowledge(process[p].file)
  <1> DEFINE f == process[p].file
             document == process[p].contents.document
  <1>1. PICK i \in 1..Len(disk[f].past) :
           /\ process[p] \in Busy
           /\ f \in SyncsDirectory => i <= disk[f].kept
           /\ disk[f].past[i].document = document
    BY SucceedFacts
  <1>2. f \in Files /\ disk[f].past \in Seq(Whole)
    BY <1>1 DEF Busy, FileInv, DiskOK, Disks
  <1>3. /\ DocumentsOf(disk[f].past)[i] = document
        /\ i \in DOMAIN DocumentsOf(disk[f].past)
    BY <1>1, <1>2, DocumentsOfType
  <1>4. i \in DOMAIN OurPast[f] /\ OurPast[f][i] = document /\ OurKept[f] = disk[f].kept
    BY <1>2, <1>3 DEF OurPast, OurKept
  <1>5. acknowledged' = [acknowledged EXCEPT ![f] = @ \cup {OurPast[f][i]}]
    BY <1>4 DEF Succeed
  <1>6. OurPast' = OurPast /\ OurKept' = OurKept
    BY DEF Succeed, OurPast, OurKept
  <1> QED BY <1>1, <1>4, <1>5, <1>6, ZenonT(40) DEF Promise!Acknowledge, OurPast, OurKept

LEMMA LosePowerStep == ASSUME FileInv, LosePower PROVE Promise!LosePower
  <1>1. PICK n \in [Files -> Nat] : \A f \in Files :
           /\ disk[f].kept <= n[f] /\ n[f] <= Len(disk[f].past)
           /\ disk'[f].kept = n[f]
           /\ DocumentsOf(disk'[f].past) = SubSeq(DocumentsOf(disk[f].past), 1, n[f])
    BY LosePowerFacts
  <1>2. \A f \in Files : OurKept'[f] = n[f] /\ OurKept'[f] \in OurKept[f]..Len(OurPast[f])
    BY <1>1, DocumentsOfType DEF FileInv, DiskOK, Disks, OurPast, OurKept
  <1>3. OurPast' = [f \in Files |-> SubSeq(OurPast[f], 1, OurKept'[f])]
    BY <1>1, <1>2 DEF OurPast
  <1>4. OurKept' = [f \in Files |-> OurKept'[f]]
    BY DEF OurKept
  <1>5. UNCHANGED acknowledged
    BY DEF LosePower
  <1> QED BY <1>2, <1>3, <1>4, <1>5 DEF Promise!LosePower, OurPast, OurKept

\* Making and removing temporary files changes no name that anybody reads.
LEMMA TemporaryStep ==
    ASSUME DiskOK, NEW p \in Pids, UNCHANGED acknowledged,
           \/ \E f \in Files : disk' = [disk EXCEPT ![f] = WithTemporary(@, p)]
           \/ \E f \in Files : disk' = [disk EXCEPT ![f].temps = @ \ {p}]
    PROVE  UNCHANGED Promise!vars
  <1>1. ASSUME NEW f \in Files, disk' = [disk EXCEPT ![f] = WithTemporary(@, p)]
        PROVE  UNCHANGED Promise!vars
    BY <1>1, QuietStep, ZenonT(60) DEF DiskOK, Disks, WithTemporary
  <1>2. ASSUME NEW f \in Files, disk' = [disk EXCEPT ![f].temps = @ \ {p}]
        PROVE  UNCHANGED Promise!vars
    BY <1>2, QuietStep DEF DiskOK, Disks
  <1> QED BY <1>1, <1>2

LEMMA NextImplements == ASSUME FileInv, [FileNext]_fileVars PROVE [Promise!Next]_(Promise!vars)
  <1>1. CASE UNCHANGED <<disk, acknowledged>>
    BY <1>1, QuietStep
  <1>2. ASSUME NEW p \in Pids, NEW f \in Files, Create(p, f)
        PROVE  UNCHANGED Promise!vars
    <2>1. CASE UNCHANGED disk
      BY <1>2, <2>1, QuietStep DEF Create
    <2>2. CASE disk' = [disk EXCEPT ![f] = WithTemporary(@, p)]
      BY <1>2, <2>2, TemporaryStep DEF FileInv, Create
    <2> QED BY <1>2, <2>1, <2>2 DEF Create
  <1>3. ASSUME NEW p \in Pids, CleanUp(p)
        PROVE  UNCHANGED Promise!vars
    <2>1. CASE UNCHANGED disk
      BY <1>3, <2>1, QuietStep DEF CleanUp
    <2>2. CASE disk' = [disk EXCEPT ![process[p].file].temps = @ \ {p}]
      <3>1. process[p].file \in Files
        BY <1>3, AtBusy DEF FileInv, CleanUp, Steps, Busy
      <3> QED BY <1>3, <2>2, <3>1, TemporaryStep DEF FileInv, CleanUp
    <2> QED BY <1>3, <2>1, <2>2 DEF CleanUp
  <1>4. ASSUME NEW p \in Pids, Rename(p) \/ SyncDirectory(p) \/ Succeed(p)
        PROVE  Promise!Next
    <2>1. process[p].file \in Files
      BY <1>4, AtBusy DEF FileInv, Rename, SyncDirectory, Succeed, Steps, Busy
    <2>2. CASE Rename(p)
      BY <2>1, <2>2, RenameStep DEF Promise!Next
    <2>3. CASE SyncDirectory(p)
      BY <2>1, <2>3, SettleStep DEF Promise!Next, SyncDirectory, FileInv
    <2>4. CASE Succeed(p)
      BY <2>1, <2>4, SucceedStep DEF Promise!Next
    <2> QED BY <1>4, <2>2, <2>3, <2>4
  <1>5. ASSUME NEW f \in Files, Flush(f) PROVE Promise!Next
    BY <1>5, SettleStep DEF Promise!Next, Flush, FileInv
  <1>6. CASE LosePower
    BY <1>6, LosePowerStep DEF Promise!Next
  <1>7. ASSUME NEW p \in Pids, Start(p) \/ Sync(p) \/ Fail(p) \/ Exit(p) \/ Die(p)
        PROVE  UNCHANGED <<disk, acknowledged>>
    BY <1>7 DEF Start, Sync, Fail, Exit, Die
  <1> QED BY <1>1, <1>2, <1>3, <1>4, <1>5, <1>6, <1>7 DEF FileNext, fileVars

\* What the saving functions do implements AtomicFiles: a reader never finds half a
\* document, and what was reported as saved where the directory is made durable is not
\* lost (save_source, save).
THEOREM Atomicity == FileSpec => ReplacedAtomically
  <1>1. ASSUME FileInv, [FileNext]_fileVars PROVE [Promise!Next]_(Promise!vars)
    BY <1>1, NextImplements
  <1> QED
    BY <1>1, InitImplements, Invariance, PTL DEF FileSpec, ReplacedAtomically, Promise!Spec

\* What a saver was told is saved stays there or is replaced by something saved later,
\* whatever fails and however often the power goes, where the directory is made durable
\* (save_source).
THEOREM ReportsKept == FileSpec => []ReportedIsKept
  <1>1. FileInv => ReportedIsKept
    BY DEF FileInv
  <1> QED BY <1>1, Invariance, PTL

-----------------------------------------------------------------------------
(***************************************************************************)
(* Leftover temporary files.  A saver that is not busy with a file and     *)
(* finds a temporary file of its name beside it has been hindered by it no *)
(* more often than something has failed; being hindered once more, it      *)
(* removes it.                                                             *)
(***************************************************************************)
BusyWith(p, f) == process[p].at /= "idle" /\ process[p].file = f

Left(p, f) == p \in disk[f].temps

HinderedSoFar(p, f) ==
    process[p].alive =>
       /\ process[p].blocked[f] <= 1 + failures
       /\ Left(p, f) /\ ~ BusyWith(p, f) => process[p].blocked[f] <= failures
       /\ BusyWith(p, f) /\ process[p].at \in {"renamed", "settled"} => ~ Left(p, f)

LInv == failures \in Nat /\ \A p \in Pids, f \in Files : HinderedSoFar(p, f)

\* A process that does nothing is not hindered either.
LEMMA OthersHindered ==
    ASSUME NEW p \in Pids, NEW f \in Files, FileInv, LInv,
           process'[p] = process[p], p \in disk'[f].temps => p \in disk[f].temps,
           failures' \in Nat, failures <= failures'
    PROVE  HinderedSoFar(p, f)'
  <1> SUFFICES ASSUME process[p].alive PROVE HinderedSoFar(p, f)'
    BY DEF HinderedSoFar
  <1>1. process[p].blocked[f] \in Nat
    BY AtBusy DEF FileInv, Counts
  <1> QED BY <1>1 DEF LInv, HinderedSoFar, Left, BusyWith

LEMMA LInit == FileInit => LInv
  BY DEF FileInit, LInv, HinderedSoFar, NoProcess

\* What each step does to the temporary files of one name
Makes(p, f) == disk' = [disk EXCEPT ![f] = WithTemporary(@, p)]
Removes(p, f) == disk' = [disk EXCEPT ![f].temps = @ \ {p}]
Renames(p, f) == disk' = [disk EXCEPT ![f] = Named(@, p)]
Settles(f) == disk' = [disk EXCEPT ![f] = Settled(@)]

LEMMA TemporariesOf ==
    ASSUME FileInv, NEW p \in Pids, NEW f \in Files, NEW g \in Files
    PROVE  /\ UNCHANGED disk => disk'[g].temps = disk[g].temps
           /\ Makes(p, f) =>
                 disk'[g].temps = IF g = f THEN disk[g].temps \cup {p} ELSE disk[g].temps
           /\ Removes(p, f) =>
                 disk'[g].temps = IF g = f THEN disk[g].temps \ {p} ELSE disk[g].temps
           /\ Renames(p, f) =>
                 disk'[g].temps = IF g = f THEN disk[g].temps \ {p} ELSE disk[g].temps
           /\ Settles(f) => disk'[g].temps = disk[g].temps
  <1> USE DEF FileInv, DiskOK
  <1>1. Makes(p, f) =>
           disk'[g].temps = IF g = f THEN disk[g].temps \cup {p} ELSE disk[g].temps
    BY DEF Disks, Makes, WithTemporary
  <1>2. Removes(p, f) =>
           disk'[g].temps = IF g = f THEN disk[g].temps \ {p} ELSE disk[g].temps
    BY DEF Disks, Removes
  <1>3. Renames(p, f) =>
           disk'[g].temps = IF g = f THEN disk[g].temps \ {p} ELSE disk[g].temps
    BY ZenonT(60) DEF Disks, Renames, Named
  <1>4. Settles(f) => disk'[g].temps = disk[g].temps
    BY DEF Disks, Settles, Settled
  <1> QED BY <1>1, <1>2, <1>3, <1>4

\* A step of one process hinders none but itself.
LEMMA StepHinders ==
    ASSUME FileInv, LInv, NEW p \in Pids, NEW f \in Files,
           \/ UNCHANGED disk
           \/ Makes(p, f)
           \/ Removes(p, f)
           \/ Renames(p, f)
           \/ Settles(f),
           \A q \in Pids \ {p} : process'[q] = process[q],
           failures' \in {failures, failures + 1},
           \A g \in Files : HinderedSoFar(p, g)'
    PROVE  LInv'
  <1>1. failures' \in Nat /\ failures <= failures'
    BY DEF LInv
  <1>2. ASSUME NEW q \in Pids \ {p}, NEW g \in Files PROVE HinderedSoFar(q, g)'
    <2>1. disk'[g].temps = disk[g].temps \/ disk'[g].temps = disk[g].temps \cup {p}
             \/ disk'[g].temps = disk[g].temps \ {p}
      <3>1. CASE UNCHANGED disk
        BY <3>1
      <3>2. CASE Makes(p, f)
        BY <3>2 DEF FileInv, DiskOK, Disks, Makes, WithTemporary
      <3>3. CASE Removes(p, f)
        BY <3>3 DEF FileInv, DiskOK, Disks, Removes
      <3>4. CASE Renames(p, f)
        BY <3>4 DEF FileInv, DiskOK, Disks, Renames, Named
      <3>5. CASE Settles(f)
        BY <3>5 DEF FileInv, DiskOK, Disks, Settles, Settled
      <3> QED BY <3>1, <3>2, <3>3, <3>4, <3>5
    <2>2. q \in disk'[g].temps => q \in disk[g].temps
      BY <2>1
    <2> QED BY <1>1, <2>2, OthersHindered
  <1> QED BY <1>1, <1>2 DEF LInv

LEMMA CreateHinders ==
    ASSUME FileInv, LInv, NEW p \in Pids, NEW f \in Files, Create(p, f) PROVE LInv'
  <1> DEFINE one == Saving(p, "failed", f, Contents(saves', FALSE))
             met == [one EXCEPT !.blocked[f] = @ + 1]
             made == Saving(p, "created", f, Contents(saves', FALSE))
             blocked == process[p].blocked
  <1>1. /\ process[p] \in Resting /\ blocked \in Counts
        /\ \A g \in Files : blocked[g] \in Nat
    BY AtBusy DEF FileInv, Create, Resting, Counts
  <1>2. \A g \in Files :
           /\ blocked[g] <= 1 + failures /\ failures \in Nat
           /\ Left(p, g) => blocked[g] <= failures
    BY <1>1 DEF LInv, HinderedSoFar, BusyWith, Resting
  <1>3. CASE p \in disk[f].temps
    <2>1. /\ process' = [process EXCEPT ![p] = met] /\ UNCHANGED <<disk, failures>>
      BY <1>3 DEF Create, counters
    <2>2. /\ met.alive /\ met.at = "failed" /\ met.file = f
          /\ \A g \in Files : met.blocked[g] = IF g = f THEN blocked[g] + 1 ELSE blocked[g]
      BY <1>1 DEF Saving, Counts
    <2> HIDE DEF met, one
    <2>3. \A g \in Files : HinderedSoFar(p, g)'
      BY <1>1, <1>2, <1>3, <2>1, <2>2
         DEF FileInv, ProcessOK, HinderedSoFar, Left, BusyWith
    <2> QED BY <2>1, <2>3, StepHinders DEF FileInv, ProcessOK
  <1>4. CASE p \notin disk[f].temps
    <2>1. /\ process' = [process EXCEPT ![p] = made] /\ UNCHANGED failures
          /\ Makes(p, f)
      BY <1>4 DEF Create, Makes, counters
    <2>2. /\ made.alive /\ made.at = "created" /\ made.file = f /\ made.blocked = blocked
      BY DEF Saving
    <2> HIDE DEF made
    <2>3. \A g \in Files : g /= f => disk'[g].temps = disk[g].temps
      BY <2>1 DEF Makes, FileInv, DiskOK
    <2>4. \A g \in Files : HinderedSoFar(p, g)'
      BY <1>1, <1>2, <2>1, <2>2, <2>3
         DEF FileInv, ProcessOK, HinderedSoFar, Left, BusyWith
    <2> QED BY <2>1, <2>4, StepHinders DEF FileInv, ProcessOK
  <1> QED BY <1>3, <1>4

\* The steps of a save that goes on; renaming takes the temporary file away.
LEMMA WorkHinders ==
    ASSUME FileInv, LInv, NEW p \in Pids,
           Sync(p) \/ Rename(p) \/ SyncDirectory(p) \/ Fail(p)
    PROVE  LInv'
  <1> DEFINE f == process[p].file
  <1>1. process[p] \in Busy /\ f \in Files /\ process[p].at /= "idle"
    BY AtBusy DEF FileInv, Sync, Rename, SyncDirectory, Fail, Steps, Busy
  <1>2. /\ process'[p].alive /\ process'[p].file = f
        /\ process'[p].blocked = process[p].blocked
        /\ process'[p].at /= "idle"
        /\ \A q \in Pids \ {p} : process'[q] = process[q]
        /\ Sync(p) => process'[p].at = "synced"
        /\ Fail(p) => process'[p].at = "failed"
    <2> USE <1>1 DEF FileInv, ProcessOK, Busy
    <2>1. CASE Sync(p)
      <3>1. PICK new \in Busy :
               /\ process' = [process EXCEPT ![p] = new] /\ new.at = "synced"
               /\ new.file = f /\ new.blocked = process[p].blocked
        BY <2>1, SyncFacts
      <3>2. ~ Fail(p)
        BY <2>1 DEF Sync, Fail, counters, LInv
      <3> QED BY <3>1, <3>2
    <2>2. CASE Rename(p)
      BY <2>2 DEF Sync, Rename, Fail, Goes, At
    <2>3. CASE SyncDirectory(p)
      BY <2>3 DEF Sync, SyncDirectory, Fail, Goes, At
    <2>4. CASE Fail(p)
      BY <2>4 DEF Sync, Fail, Goes, At
    <2> QED BY <2>1, <2>2, <2>3, <2>4
  <1>3. /\ failures' \in {failures, failures + 1} /\ failures \in Nat
        /\ \A g \in Files : process[p].blocked[g] \in Nat
    BY <1>1 DEF LInv, Busy, Counts, Sync, Rename, SyncDirectory, Fail, counters
  <1>4. \/ UNCHANGED disk
        \/ Renames(p, f)
        \/ Settles(f)
    BY DEF Sync, Rename, SyncDirectory, Fail, Renames, Settles
  <1>5. Rename(p) => Renames(p, f)
    BY DEF Rename, Renames
  <1>6. SyncDirectory(p) => process[p].at = "renamed"
    BY DEF SyncDirectory, At
  <1>7. process'[p].at \in {"renamed", "settled"} => Rename(p) \/ SyncDirectory(p)
    BY <1>2
  <1> DEFINE at == process[p].at
             blocked == process[p].blocked
  <1>8. /\ process[p].alive /\ process[p].at = at /\ process[p].file = f
        /\ process[p].blocked = blocked
    BY <1>1 DEF Busy
  <1> HIDE DEF f, at, blocked
  <1>9. \A g \in Files : disk'[g].temps \subseteq disk[g].temps
    <2> TAKE g \in Files
    <2>1. disk'[g].temps = disk[g].temps \/ disk'[g].temps = disk[g].temps \ {p}
      BY <1>1, <1>4, TemporariesOf
    <2> QED BY <2>1
  <1>10. Rename(p) => p \notin disk'[f].temps
    BY <1>1, <1>5, TemporariesOf
  <1>11. \A g \in Files : HinderedSoFar(p, g)'
    <2> SUFFICES ASSUME NEW g \in Files PROVE HinderedSoFar(p, g)'
      OBVIOUS
    <2>1. /\ blocked[g] <= 1 + failures
          /\ Left(p, g) /\ g /= f => blocked[g] <= failures
          /\ g = f /\ at \in {"renamed", "settled"} => ~ Left(p, g)
      BY <1>1, <1>8 DEF LInv, HinderedSoFar, BusyWith
    <2>2. /\ process'[p].blocked[g] <= 1 + failures'
          /\ Left(p, g)' /\ ~ BusyWith(p, g)' => process'[p].blocked[g] <= failures'
      BY <1>2, <1>3, <1>8, <1>9, <2>1 DEF Left, BusyWith
    <2>3. BusyWith(p, g)' => g = f
      BY <1>2, <1>8 DEF BusyWith
    <2>4. SyncDirectory(p) => p \notin disk[f].temps
      BY <1>1, <1>6, <1>8 DEF LInv, HinderedSoFar, BusyWith, Left
    <2>5. process'[p].at \in {"renamed", "settled"} => p \notin disk'[f].temps
      BY <1>1, <1>7, <1>9, <1>10, <2>4
    <2>6. (BusyWith(p, g) /\ process[p].at \in {"renamed", "settled"} => ~ Left(p, g))'
      BY <2>3, <2>5 DEF Left
    <2> QED BY <2>2, <2>6 DEF HinderedSoFar
  <1> QED BY <1>1, <1>2, <1>3, <1>4, <1>11, StepHinders

\* A save that ends: by success the temporary file has become the file; after a failure
\* it is removed, or something has failed once more.
LEMMA EndHinders ==
    ASSUME FileInv, LInv, NEW p \in Pids, Succeed(p) \/ CleanUp(p)
    PROVE  LInv'
  <1> DEFINE f == process[p].file
  <1>1. process[p] \in Busy /\ f \in Files /\ process[p].at /= "idle"
    BY AtBusy DEF FileInv, Succeed, CleanUp, Steps, Busy
  <1>2. /\ process'[p].alive /\ process'[p].at = "idle"
        /\ process'[p].blocked = process[p].blocked
        /\ \A q \in Pids \ {p} : process'[q] = process[q]
    BY <1>1 DEF FileInv, ProcessOK, Succeed, CleanUp, Idle
  <1>3. /\ failures' \in {failures, failures + 1} /\ failures \in Nat
        /\ \A g \in Files : process[p].blocked[g] \in Nat
    BY <1>1 DEF LInv, Busy, Counts, Succeed, CleanUp, counters
  <1>4. UNCHANGED disk \/ Removes(p, f)
    BY DEF Succeed, CleanUp, Removes
  <1>5. /\ CleanUp(p) => \/ Removes(p, f)
                         \/ failures' = failures + 1
        /\ Succeed(p) => UNCHANGED disk /\ process[p].at \in {"renamed", "settled"}
    BY DEF Succeed, CleanUp, At, Removes
  <1>6. process[p].alive /\ process[p].file = f
    BY <1>1 DEF Busy
  <1> DEFINE blocked == process[p].blocked
  <1>7. process[p].blocked = blocked
    OBVIOUS
  <1> HIDE DEF f, blocked
  <1>8. \A g \in Files : disk'[g].temps \subseteq disk[g].temps
    <2> TAKE g \in Files
    <2>1. disk'[g].temps = disk[g].temps \/ disk'[g].temps = disk[g].temps \ {p}
      BY <1>1, <1>4, TemporariesOf
    <2> QED BY <2>1
  <1>9. p \notin disk'[f].temps \/ failures' = failures + 1
    <2>1. CASE Succeed(p)
      BY <1>1, <1>5, <1>6, <2>1 DEF LInv, HinderedSoFar, Left, BusyWith
    <2>2. CASE CleanUp(p)
      BY <1>1, <1>5, <2>2, TemporariesOf
    <2> QED BY <2>1, <2>2
  <1>10. \A g \in Files : HinderedSoFar(p, g)'
    <2> SUFFICES ASSUME NEW g \in Files PROVE HinderedSoFar(p, g)'
      OBVIOUS
    <2>1. /\ blocked[g] <= 1 + failures
          /\ Left(p, g) /\ g /= f => blocked[g] <= failures
      BY <1>1, <1>6, <1>7 DEF LInv, HinderedSoFar, BusyWith
    <2>2. /\ process'[p].blocked[g] <= 1 + failures'
          /\ Left(p, g)' => process'[p].blocked[g] <= failures'
      BY <1>2, <1>3, <1>7, <1>8, <1>9, <2>1 DEF Left
    <2> QED BY <1>2, <2>2 DEF HinderedSoFar, BusyWith
  <1> QED BY <1>1, <1>2, <1>3, <1>4, <1>10, StepHinders

LEMMA LNext == ASSUME FileInv, LInv, [FileNext]_fileVars PROVE LInv'
  <1>1. CASE UNCHANGED fileVars
    BY <1>1 DEF fileVars, counters, LInv, HinderedSoFar, Left, BusyWith
  <1>2. ASSUME NEW p \in Pids, Start(p) PROVE LInv'
    <2>1. \A f \in Files : HinderedSoFar(p, f)'
      BY <1>2 DEF FileInv, ProcessOK, Start, Idle, counters, LInv, HinderedSoFar, Left, BusyWith
    <2>2. CASE Files = {}
      BY <1>2, <2>2 DEF Start, counters, LInv
    <2>3. CASE Files /= {}
      BY <1>2, <2>1, <2>3, StepHinders DEF Start, counters, FileInv, ProcessOK
    <2> QED BY <2>2, <2>3
  <1>3. ASSUME NEW p \in Pids, Exit(p) \/ Die(p) PROVE LInv'
    <2>1. \A f \in Files : HinderedSoFar(p, f)'
      BY <1>3 DEF FileInv, ProcessOK, Exit, Die, NoProcess, HinderedSoFar
    <2>2. CASE Files = {}
      BY <1>3, <2>2 DEF Exit, Die, counters, LInv
    <2>3. CASE Files /= {}
      BY <1>3, <2>1, <2>3, StepHinders DEF Exit, Die, counters, FileInv, ProcessOK
    <2> QED BY <2>2, <2>3
  <1>4. ASSUME NEW f \in Files, Flush(f) PROVE LInv'
    <2>1. ASSUME NEW p \in Pids, NEW g \in Files PROVE HinderedSoFar(p, g)'
      <3>1. disk'[g].temps = disk[g].temps
        BY <1>4, TemporariesOf DEF Flush, Settles
      <3> QED BY <1>4, <3>1, OthersHindered DEF Flush, counters, LInv
    <2> QED BY <1>4, <2>1 DEF Flush, counters, LInv
  <1>5. CASE LosePower
    BY <1>5 DEF LosePower, NoProcess, LInv, HinderedSoFar
  <1> QED BY <1>1, <1>2, <1>3, <1>4, <1>5, CreateHinders, WorkHinders, EndHinders DEF FileNext

\* A temporary file left by a process of the same number is in the way of one save of a
\* file only, and of one more for every failure (save_source, temporary_path).
THEOREM Leftovers == FileSpec => []LeftoverBlocksOnce
  <1>1. LInv => LeftoverBlocksOnce
    BY DEF LInv, HinderedSoFar, LeftoverBlocksOnce
  <1> QED BY <1>1, LInit, LNext, Invariance, PTL DEF FileSpec
=============================================================================
