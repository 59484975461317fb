---------------------------- MODULE KernelLists -----------------------------
(***************************************************************************)
(* Any sequence of calls of lib/kernel/list.c that respects its ASSERTs    *)
(* and comments, on lists that share one memory, side by side with the     *)
(* same calls on sequences.  The caller frees an element it has removed,   *)
(* and free() overwrites its links.                                        *)
(***************************************************************************)
EXTENDS LinkedList

R == INSTANCE SeqLists

VARIABLES
  h,    \* the links of all nodes
  seq   \* history: the elements of each list, front first

vars == <<h, seq>>

Loose == {e \in Elem : \A l \in List : \A i \in DOMAIN seq[l] : seq[l][i] # e}

\* The node at position i of list l; the tail is the position after the last.
At(l, i) == IF i = Len(seq[l]) + 1 THEN list_end(l) ELSE seq[l][i]

RECURSIVE InitLists(_, _)
InitLists(m, L) ==
  IF L = {} THEN m
  ELSE LET l == CHOOSE x \in L : TRUE IN InitLists(list_init(m, l), L \ {l})

Freed(m, e) == [prev |-> [m.prev EXCEPT ![e] = NULL], next |-> [m.next EXCEPT ![e] = NULL]]

Init ==
  /\ h = InitLists([prev |-> [n \in Node |-> NULL], next |-> [n \in Node |-> NULL]], List)
  /\ seq = [l \in List |-> <<>>]

Insert(l, e) ==
  /\ e \in Loose
  /\ \E i \in 1 .. Len(seq[l]) + 1 :
       /\ h' = list_insert(h, At(l, i), e)
       /\ seq' = [seq EXCEPT ![l] = R!PutAt(seq[l], i, <<e>>)]

Push(l, e) ==
  /\ e \in Loose
  /\ \/ /\ h' = list_push_front(h, l, e)
        /\ seq' = [seq EXCEPT ![l] = <<e>> \o seq[l]]
     \/ /\ h' = list_push_back(h, l, e)
        /\ seq' = [seq EXCEPT ![l] = seq[l] \o <<e>>]

Remove(l) ==
  \E i \in DOMAIN seq[l] :
    /\ h' = Freed(list_remove(h, seq[l][i]), seq[l][i])
    /\ seq' = [seq EXCEPT ![l] = R!Cut(seq[l], i, i + 1)]

Pop(l) ==
  /\ ~ list_empty(h, l)
  /\ \/ /\ h' = Freed(list_pop_front(h, l), list_front(h, l))
        /\ seq' = [seq EXCEPT ![l] = Tail(seq[l])]
     \/ /\ h' = Freed(list_pop_back(h, l), list_back(h, l))
        /\ seq' = [seq EXCEPT ![l] = SubSeq(seq[l], 1, Len(seq[l]) - 1)]

\* Positions i up to n (exclusive) of list l move in front of position k of
\* another list ...
SpliceOver(l, m) ==
  /\ l # m
  /\ \E i \in 1 .. Len(seq[l]) + 1 : \E n \in i .. Len(seq[l]) + 1, k \in 1 .. Len(seq[m]) + 1 :
       /\ h' = list_splice(h, At(m, k), At(l, i), At(l, n))
       /\ seq' = [seq EXCEPT ![l] = R!Cut(seq[l], i, n),
                             ![m] = R!PutAt(seq[m], k, SubSeq(seq[l], i, n - 1))]

\* ... or of the same list, outside the range that moves.
SpliceWithin(l) ==
  \E i \in 1 .. Len(seq[l]) + 1 : \E n \in i .. Len(seq[l]) + 1 :
    \E k \in 1 .. i \union n .. Len(seq[l]) + 1 :
      LET kept == R!Cut(seq[l], i, n)
          place == IF k <= i THEN k ELSE k - (n - i)
      IN /\ i < n => k # i
         /\ h' = list_splice(h, At(l, k), At(l, i), At(l, n))
         /\ seq' = [seq EXCEPT ![l] = R!PutAt(kept, place, SubSeq(seq[l], i, n - 1))]

Reverse(l) ==
  /\ h' = list_reverse(h, l)
  /\ seq' = [seq EXCEPT ![l] = R!Reversed(seq[l])]

Sort(l) ==
  /\ h' = list_sort(h, l)
  /\ seq' = [seq EXCEPT ![l] = R!Sorted(seq[l])]

InsertOrdered(l, e) ==
  /\ e \in Loose
  /\ is_sorted(h, list_begin(h, l), list_end(l))
  /\ h' = list_insert_ordered(h, l, e)
  /\ seq' = [seq EXCEPT ![l] = R!PutAt(seq[l], R!OrderedPlace(seq[l], e), <<e>>)]

Unique(l, dup) ==
  /\ l # dup
  /\ h' = list_unique(h, l, dup)
  /\ LET lead == R!Leaders(seq[l])
     IN seq' = [seq EXCEPT ![l] = R!Pick(seq[l], lead),
                           ![dup] = seq[dup] \o R!Pick(seq[l], DOMAIN seq[l] \ lead)]

Next == \E l \in List :
  \/ \E e \in Elem : Insert(l, e) \/ Push(l, e) \/ InsertOrdered(l, e)
  \/ Remove(l) \/ Pop(l) \/ SpliceWithin(l) \/ Reverse(l) \/ Sort(l)
  \/ \E m \in List : SpliceOver(l, m) \/ Unique(l, m)

Spec == Init /\ [][Next]_vars
-----------------------------------------------------------------------------
\* Whatever is linked, moved, merged or turned around by changing links in
\* place, the lists are the sequences that list.h describes: walking either
\* way finds every element once and in order, sorting is stable, elements of
\* a list are interior and those of none are not, and the queries (list_size,
\* list_front, list_back, list_max and list_min with their rule for ties)
\* answer for the sequence.
ListsAreSequences ==
  \A l \in List :
    /\ Contents(h, l) = seq[l]
    /\ WalkBack(h, l, list_rbegin(h, l)) = seq[l]
    /\ \A e \in Elem : is_interior(h, e) <=> e \notin Loose
    /\ is_tail(h, list_end(l))
    /\ is_sorted(h, list_begin(h, l), list_end(l)) <=> R!Ordered(seq[l])
    /\ list_size(h, l) = Len(seq[l])
    /\ IF seq[l] = <<>>
       THEN list_max(h, l) = list_end(l) /\ list_min(h, l) = list_end(l)
       ELSE /\ list_front(h, l) = seq[l][1]
            /\ list_back(h, l) = seq[l][Len(seq[l])]
            /\ list_max(h, l) = R!Earliest(seq[l], LAMBDA a, b : less(b, a))
            /\ list_min(h, l) = R!Earliest(seq[l], less)
=============================================================================
