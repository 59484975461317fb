----------------------------- MODULE LinkedList -----------------------------
(***************************************************************************)
(* The doubly linked lists of lib/kernel/list.c, link by link.  A node is  *)
(* its address: elements are positive, the two header elements of a list   *)
(* are negative, NULL is 0.  The memory is a record h of two functions,    *)
(* h.prev and h.next; a function of list.c is an operator from the memory  *)
(* before the call to the memory after it, a loop of list.c is a RECURSIVE *)
(* operator over the nodes it visits.  The ASSERTs are the guards of the   *)
(* actions: what a caller must respect.                                    *)
(***************************************************************************)
EXTENDS Integers, Sequences

CONSTANTS
  Elem,     \* addresses of the elements that can be linked into a list
  List,     \* numbers of the lists
  Key(_)    \* what the caller's less function compares

NULL == 0

list_head(l) == -2 * l
list_tail(l) == -2 * l - 1
Node == Elem \union {list_head(l) : l \in List} \union {list_tail(l) : l \in List}

less(a, b) == Key(a) < Key(b)

is_interior(h, e) == h.prev[e] # NULL /\ h.next[e] # NULL
is_tail(h, e) == h.prev[e] # NULL /\ h.next[e] = NULL

list_init(h, l) ==
  [prev |-> [h.prev EXCEPT ![list_head(l)] = NULL, ![list_tail(l)] = list_head(l)],
   next |-> [h.next EXCEPT ![list_head(l)] = list_tail(l), ![list_tail(l)] = NULL]]

list_begin(h, l) == h.next[list_head(l)]
list_end(l) == list_tail(l)
list_rbegin(h, l) == h.prev[list_tail(l)]
list_rend(l) == list_head(l)
list_next(h, e) == h.next[e]
list_prev(h, e) == h.prev[e]
list_empty(h, l) == list_begin(h, l) = list_end(l)

list_insert(h, before, e) ==
  LET p == h.prev[before]
  IN [prev |-> [h.prev EXCEPT ![e] = p, ![before] = e],
      next |-> [h.next EXCEPT ![e] = before, ![p] = e]]

list_remove(h, e) ==
  [prev |-> [h.prev EXCEPT ![h.next[e]] = h.prev[e]],
   next |-> [h.next EXCEPT ![h.prev[e]] = h.next[e]]]

list_push_front(h, l, e) == list_insert(h, list_begin(h, l), e)
list_push_back(h, l, e) == list_insert(h, list_end(l), e)
list_front(h, l) == h.next[list_head(l)]
list_back(h, l) == h.prev[list_tail(l)]
list_pop_front(h, l) == list_remove(h, list_front(h, l))
list_pop_back(h, l) == list_remove(h, list_back(h, l))

\* FIRST up to LAST (exclusive) is unlinked, then linked in before BEFORE,
\* whose prev link the unlinking may just have changed.
list_splice(h, before, first, last) ==
  IF first = last THEN h
  ELSE LET end == list_prev(h, last)
           cut == [prev |-> [h.prev EXCEPT ![h.next[end]] = h.prev[first]],
                   next |-> [h.next EXCEPT ![h.prev[first]] = h.next[end]]]
           p == cut.prev[before]
       IN [prev |-> [cut.prev EXCEPT ![first] = p, ![before] = end],
           next |-> [cut.next EXCEPT ![end] = before, ![p] = first]]

RECURSIVE CountFrom(_, _, _)
CountFrom(h, l, e) ==
  IF e = list_end(l) THEN 0 ELSE 1 + CountFrom(h, l, list_next(h, e))

list_size(h, l) == CountFrom(h, l, list_begin(h, l))

\* swap(&e->prev, &e->next) for every interior element; the next one is then
\* behind the prev link.
RECURSIVE SwapLinks(_, _, _)
SwapLinks(h, l, e) ==
  IF e = list_end(l) THEN h
  ELSE SwapLinks([prev |-> [h.prev EXCEPT ![e] = h.next[e]],
                  next |-> [h.next EXCEPT ![e] = h.prev[e]]], l, h.next[e])

\* The headers exchange their links, and the new first and last element
\* exchange theirs.
list_reverse(h, l) ==
  IF list_empty(h, l) THEN h
  ELSE LET s == SwapLinks(h, l, list_begin(h, l))
           first == s.prev[list_tail(l)]
           last == s.next[list_head(l)]
       IN [prev |-> [s.prev EXCEPT ![list_tail(l)] = last, ![first] = s.next[last]],
           next |-> [s.next EXCEPT ![list_head(l)] = first, ![last] = s.prev[first]]]

RECURSIVE is_sorted(_, _, _)
is_sorted(h, a, b) ==
  LET n == list_next(h, a)
  IN IF a = b \/ n = b THEN TRUE
     ELSE IF less(n, list_prev(h, n)) THEN FALSE ELSE is_sorted(h, n, b)

RECURSIVE find_end_of_run(_, _, _)
find_end_of_run(h, a, b) ==
  LET n == list_next(h, a)
  IN IF n # b /\ ~ less(n, list_prev(h, n)) THEN find_end_of_run(h, n, b) ELSE n

\* Mutant: an element equal to the first run's goes before it.
MergesUnstably(h, a0, a1b0) == less(a0, a1b0)

StaysFirst(h, a0, a1b0) == ~ less(a1b0, a0)

RECURSIVE inplace_merge(_, _, _, _)
inplace_merge(h, a0, a1b0, b1) ==
  IF a0 = a1b0 \/ a1b0 = b1 THEN h
  ELSE IF StaysFirst(h, a0, a1b0) THEN inplace_merge(h, list_next(h, a0), a1b0, b1)
  ELSE LET n == list_next(h, a1b0)
       IN inplace_merge(list_splice(h, a0, list_prev(h, n), n), a0, n, b1)

\* One pass of the merge sort: the memory after it and the runs it made.
RECURSIVE SortPass(_, _, _, _)
SortPass(h, l, a0, cnt) ==
  IF a0 = list_end(l) THEN [h |-> h, cnt |-> cnt]
  ELSE LET a1b0 == find_end_of_run(h, a0, list_end(l))
           b1 == find_end_of_run(h, a1b0, list_end(l))
       IN IF a1b0 = list_end(l) THEN [h |-> h, cnt |-> cnt + 1]
          ELSE SortPass(inplace_merge(h, a0, a1b0, b1), l, b1, cnt + 1)

RECURSIVE list_sort(_, _)
list_sort(h, l) ==
  LET pass == SortPass(h, l, list_begin(h, l), 0)
  IN IF pass.cnt > 1 THEN list_sort(pass.h, l) ELSE pass.h

RECURSIVE FirstGreater(_, _, _, _)
FirstGreater(h, l, e, new) ==
  IF e = list_end(l) \/ less(new, e) THEN e
  ELSE FirstGreater(h, l, list_next(h, e), new)

list_insert_ordered(h, l, e) == list_insert(h, FirstGreater(h, l, list_begin(h, l), e), e)

RECURSIVE UniqueFrom(_, _, _, _)
UniqueFrom(h, l, dup, e) ==
  LET n == list_next(h, e)
  IN IF n = list_end(l) THEN h
     ELSE IF ~ less(e, n) /\ ~ less(n, e)
          THEN UniqueFrom(list_push_back(list_remove(h, n), dup, n), l, dup, e)
          ELSE UniqueFrom(h, l, dup, n)

list_unique(h, l, dup) ==
  IF list_empty(h, l) THEN h ELSE UniqueFrom(h, l, dup, list_begin(h, l))

RECURSIVE MaxFrom(_, _, _, _)
MaxFrom(h, l, e, max) ==
  IF e = list_end(l) THEN max
  ELSE MaxFrom(h, l, list_next(h, e), IF less(max, e) THEN e ELSE max)

list_max(h, l) ==
  IF list_empty(h, l) THEN list_end(l)
  ELSE MaxFrom(h, l, list_next(h, list_begin(h, l)), list_begin(h, l))

RECURSIVE MinFrom(_, _, _, _)
MinFrom(h, l, e, min) ==
  IF e = list_end(l) THEN min
  ELSE MinFrom(h, l, list_next(h, e), IF less(e, min) THEN e ELSE min)

list_min(h, l) ==
  IF list_empty(h, l) THEN list_end(l)
  ELSE MinFrom(h, l, list_next(h, list_begin(h, l)), list_begin(h, l))

\* What a caller that iterates over a list finds, from the front ...
RECURSIVE Walk(_, _, _)
Walk(h, l, e) == IF e = list_end(l) THEN <<>> ELSE <<e>> \o Walk(h, l, list_next(h, e))
Contents(h, l) == Walk(h, l, list_begin(h, l))

\* ... and from the back.
RECURSIVE WalkBack(_, _, _)
WalkBack(h, l, e) ==
  IF e = list_rend(l) THEN <<>> ELSE WalkBack(h, l, list_prev(h, e)) \o <<e>>
=============================================================================
