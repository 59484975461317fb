------------------------------ MODULE SeqLists ------------------------------
(***************************************************************************)
(* What lib/kernel/list.h promises, on sequences: the reference that the   *)
(* linked lists are compared with.                                         *)
(***************************************************************************)
EXTENDS Integers, Sequences, FiniteSets

CONSTANT Key(_)

\* s with t put in front of its i-th element (i = Len(s) + 1: at its end).
PutAt(s, i, t) == SubSeq(s, 1, i - 1) \o t \o SubSeq(s, i, Len(s))

\* s without the elements from the i-th up to the n-th (exclusive).
Cut(s, i, n) == SubSeq(s, 1, i - 1) \o SubSeq(s, n, Len(s))

Reversed(s) == [i \in DOMAIN s |-> s[Len(s) + 1 - i]]

Ordered(s) == \A i \in 2 .. Len(s) : Key(s[i - 1]) <= Key(s[i])

\* The stable ordering of s.
Sorted(s) ==
  LET Before(i) == {j \in DOMAIN s : \/ Key(s[j]) < Key(s[i])
                                     \/ Key(s[j]) = Key(s[i]) /\ j < i}
  IN [k \in DOMAIN s |-> s[CHOOSE i \in DOMAIN s : Cardinality(Before(i)) = k - 1]]

\* Where an element of e's key goes: after the elements that are not greater.
OrderedPlace(s, e) == Cardinality({i \in DOMAIN s : Key(s[i]) <= Key(e)}) + 1

\* The elements of s at the positions in S, and the positions that start a
\* group of equal neighbours.
Pick(s, S) ==
  [k \in 1 .. Cardinality(S) |->
     s[CHOOSE i \in S : Cardinality({j \in S : j <= i}) = k]]
Leaders(s) == {i \in DOMAIN s : i = 1 \/ Key(s[i]) # Key(s[i - 1])}

\* The earliest element of s that no other is better than.
Earliest(s, Better(_, _)) ==
  LET best == {i \in DOMAIN s : \A j \in DOMAIN s : ~ Better(s[j], s[i])}
  IN s[CHOOSE i \in best : \A j \in best : i <= j]
=============================================================================
