------------------------------ MODULE UniqueSeqs ------------------------------
(***************************************************************************)
(* Duplicate-free sequences: the Vec<ClientId> values nobox keeps for      *)
(* management order, stacking order and focus histories.  The operators    *)
(* stand for the Vec methods the code calls on them.                       *)
(*                                                                         *)
(* Keep is written by positions rather than with a recursive filter so     *)
(* that what it returns can be proved.                                     *)
(***************************************************************************)
EXTENDS Naturals, Sequences, FiniteSets

\* The members of a sequence.
Members(s) == {s[i] : i \in 1..Len(s)}

\* No member occurs twice.
Unique(s) == \A i, j \in 1..Len(s) : s[i] = s[j] => i = j

\* s lists exactly the members of S, each once.
Enumerates(s, S) == Unique(s) /\ Members(s) = S

\* All the ways of listing S.
Listings(S) == {s \in [1..Cardinality(S) -> S] : Unique(s)}

\* Vec::retain: the subsequence of the members that are in S.
KeptAt(s, S) == {i \in 1..Len(s) : s[i] \in S}
Keep(s, S) ==
  [k \in 1..Cardinality(KeptAt(s, S)) |->
     s[CHOOSE i \in KeptAt(s, S) : Cardinality(KeptAt(s, S) \cap 1..i) = k]]

\* The members that are in S, each where it occurs first.
FirstAt(s, S) == {i \in KeptAt(s, S) : \A j \in 1..(i - 1) : s[j] # s[i]}
KeepOnce(s, S) ==
  LET places == Keep([i \in 1..Len(s) |-> i], FirstAt(s, S))
  IN [k \in 1..Len(places) |-> s[places[k]]]

\* retain(|candidate| candidate != e)
Without(s, e) == Keep(s, Members(s) \ {e})

\* retain + push, and retain + insert(0, _).
MoveToEnd(s, e) == Append(Without(s, e), e)
MoveToFront(s, e) == <<e>> \o Without(s, e)

\* iter().rev().find(_): the last member that is in S, which must be there.
LastIn(s, S) ==
  s[CHOOSE i \in KeptAt(s, S) : \A j \in KeptAt(s, S) : j <= i]
===============================================================================
