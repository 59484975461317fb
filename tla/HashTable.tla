----------------------------- MODULE HashTable ------------------------------
(***************************************************************************)
(* The hash table of lib/kernel/hash.c over the linked lists of list.c:    *)
(* any sequence of its calls, with malloc() failing at any rehash().  An   *)
(* array of buckets is number 0 or 1, so that rehash() can fill the one    *)
(* while it empties the other.  MinBuckets (4 in the code) and             *)
(* BEST_ELEMS_PER_BUCKET are parameters, to reach the rehashing of small   *)
(* tables.                                                                 *)
(***************************************************************************)
EXTENDS Integers, Sequences, FiniteSets, Bitwise

CONSTANTS
  Elem,                    \* addresses of hash elements
  Key(_),                  \* what less compares and hash is computed from
  MinBuckets,              \* fewest buckets of a table
  MaxBuckets,              \* most buckets that the elements can ask for
  BEST_ELEMS_PER_BUCKET

Bucket(array, i) == array * MaxBuckets + i + 1

L == INSTANCE LinkedList WITH List <- 1 .. 2 * MaxBuckets

NULL == L!NULL

VARIABLES
  h,            \* the links of all nodes
  buckets,      \* the array in use
  bucket_cnt,
  elem_cnt,
  content       \* history: the elements the caller believes to be in the table

vars == <<h, buckets, bucket_cnt, elem_cnt, content>>

find_bucket(array, cnt, e) == Bucket(array, Key(e) & (cnt - 1))

RECURSIVE FindFrom(_, _, _, _)
FindFrom(m, b, i, e) ==
  IF i = L!list_end(b) THEN NULL
  ELSE IF ~ L!less(i, e) /\ ~ L!less(e, i) THEN i
  ELSE FindFrom(m, b, L!list_next(m, i), e)

find_elem(m, b, e) == FindFrom(m, b, L!list_begin(m, b), e)

turn_off_least_1bit(x) == x & (x - 1)
is_power_of_2(x) == x # 0 /\ turn_off_least_1bit(x) = 0

RECURSIVE DownToPower(_)
DownToPower(x) == IF is_power_of_2(x) THEN x ELSE DownToPower(turn_off_least_1bit(x))

\* The number of buckets that rehash() wants for cnt elements.
WantedBuckets(cnt) ==
  LET best == cnt \div BEST_ELEMS_PER_BUCKET
  IN DownToPower(IF best < MinBuckets THEN MinBuckets ELSE best)

RECURSIVE InitBuckets(_, _, _)
InitBuckets(m, array, n) ==
  IF n = 0 THEN m ELSE L!list_init(InitBuckets(m, array, n - 1), Bucket(array, n - 1))

\* Mutant: an element is moved to the bucket it would have had before.
MovesByOldCount(old_cnt, cnt) == old_cnt

MovesBy(old_cnt, cnt) == cnt

\* The elements of bucket b, from node e on, move to array `to'.
RECURSIVE MoveBucket(_, _, _, _, _)
MoveBucket(m, b, e, to, cnt) ==
  IF e = L!list_end(b) THEN m
  ELSE MoveBucket(L!list_push_front(L!list_remove(m, e), find_bucket(to, cnt, e), e),
                  b, L!list_next(m, e), to, cnt)

RECURSIVE MoveAll(_, _, _, _, _)
MoveAll(m, from, n, to, cnt) ==
  IF n = 0 THEN m
  ELSE LET before == MoveAll(m, from, n - 1, to, cnt)
           b == Bucket(from, n - 1)
       IN MoveBucket(before, b, L!list_begin(before, b), to, cnt)

\* free() overwrites what it is given.
Overwritten(m, nodes) ==
  [prev |-> [n \in DOMAIN m.prev |-> IF n \in nodes THEN NULL ELSE m.prev[n]],
   next |-> [n \in DOMAIN m.next |-> IF n \in nodes THEN NULL ELSE m.next[n]]]
Headers(array, cnt) ==
  UNION {{L!list_head(Bucket(array, i)), L!list_tail(Bucket(array, i))} : i \in 0 .. cnt - 1}

\* rehash() of a table with memory m and cnt elements; without memory for
\* the new array the table stays as it is.
rehash(m, cnt) ==
  LET want == WantedBuckets(cnt)
      to == 1 - buckets
      moved == MoveAll(InitBuckets(m, to, want), buckets, bucket_cnt, to,
                       MovesBy(bucket_cnt, want))
  IN \/ /\ h' = m
        /\ UNCHANGED <<buckets, bucket_cnt>>
     \/ /\ want # bucket_cnt
        /\ h' = Overwritten(moved, Headers(buckets, bucket_cnt))
        /\ buckets' = to
        /\ bucket_cnt' = want

insert_elem(m, b, e) == L!list_push_front(m, b, e)
remove_elem(m, e) == L!list_remove(m, e)

\* hash_init() with its call of hash_clear().
Init ==
  LET blank == [prev |-> [n \in L!Node |-> NULL], next |-> [n \in L!Node |-> NULL]]
  IN /\ h = InitBuckets(blank, 0, MinBuckets)
     /\ buckets = 0
     /\ bucket_cnt = MinBuckets
     /\ elem_cnt = 0
     /\ content = {}

InTable == {e \in Elem : L!is_interior(h, e)}

hash_insert(e) ==
  LET b == find_bucket(buckets, bucket_cnt, e)
      old == find_elem(h, b, e)
  IN /\ e \notin InTable
     /\ elem_cnt' = elem_cnt + (IF old = NULL THEN 1 ELSE 0)
     /\ rehash(IF old = NULL THEN insert_elem(h, b, e) ELSE h, elem_cnt')
     /\ content' = IF old = NULL THEN content \union {e} ELSE content

WithoutOld(m, old) == IF old = NULL THEN m ELSE remove_elem(m, old)

\* The caller frees the element that was replaced.
hash_replace(e) ==
  LET b == find_bucket(buckets, bucket_cnt, e)
      old == find_elem(h, b, e)
      m == insert_elem(WithoutOld(h, old), b, e)
  IN /\ e \notin InTable
     /\ elem_cnt' = elem_cnt + (IF old = NULL THEN 1 ELSE 0)
     /\ rehash(IF old = NULL THEN m ELSE Overwritten(m, {old}), elem_cnt')
     /\ content' = (content \ {old}) \union {e}

hash_find(e) == find_elem(h, find_bucket(buckets, bucket_cnt, e), e)

hash_delete(e) ==
  LET found == hash_find(e)
  IN /\ found # NULL
     /\ elem_cnt' = elem_cnt - 1
     /\ rehash(Overwritten(remove_elem(h, found), {found}), elem_cnt')
     /\ content' = content \ {found}

\* hash_clear() pops every element and hands it to a destructor that frees it.
RECURSIVE PopAll(_, _)
PopAll(m, b) ==
  IF L!list_empty(m, b) THEN L!list_init(m, b)
  ELSE PopAll(Overwritten(L!list_pop_front(m, b), {L!list_front(m, b)}), b)

RECURSIVE ClearBuckets(_, _)
ClearBuckets(m, n) ==
  IF n = 0 THEN m ELSE PopAll(ClearBuckets(m, n - 1), Bucket(buckets, n - 1))

hash_clear ==
  /\ h' = ClearBuckets(h, bucket_cnt)
  /\ elem_cnt' = 0
  /\ content' = {}
  /\ UNCHANGED <<buckets, bucket_cnt>>

Next ==
  \/ \E e \in Elem : hash_insert(e) \/ hash_replace(e) \/ hash_delete(e)
  \/ hash_clear

Spec == Init /\ [][Next]_vars
-----------------------------------------------------------------------------
\* An iterator: the bucket number and the node; hash_next() returns the node
\* it advances to, NULL at the end of the table.
hash_first == [bucket |-> 0, elem |-> L!list_head(Bucket(buckets, 0))]

RECURSIVE SkipEmpty(_)
SkipEmpty(it) ==
  IF it.elem # L!list_end(Bucket(buckets, it.bucket)) THEN it
  ELSE IF it.bucket + 1 >= bucket_cnt THEN [it EXCEPT !.elem = NULL]
  ELSE SkipEmpty([bucket |-> it.bucket + 1,
                  elem |-> L!list_begin(h, Bucket(buckets, it.bucket + 1))])

hash_next(it) == SkipEmpty([it EXCEPT !.elem = L!list_next(h, it.elem)])

RECURSIVE Iterate(_)
Iterate(it) ==
  LET n == hash_next(it) IN IF n.elem = NULL THEN <<>> ELSE <<n.elem>> \o Iterate(n)

\* The order in which hash_apply() meets the elements.
RECURSIVE hash_apply(_)
hash_apply(n) ==
  IF n = 0 THEN <<>> ELSE hash_apply(n - 1) \o L!Contents(h, Bucket(buckets, n - 1))

\* Through inserts, replacements, deletions and rehashing, also when malloc()
\* fails in rehash(), the table is the set of elements its return values told
\* the caller, with one element per key: lookups find exactly those, the
\* iterator and hash_apply() meet each of them once, the count is exact, and
\* the mask in find_bucket() selects every bucket.
TableIsSet ==
  /\ \A e \in Elem :
       IF \E c \in content : Key(c) = Key(e)
       THEN hash_find(e) \in content /\ Key(hash_find(e)) = Key(e)
       ELSE hash_find(e) = NULL
  /\ \A c, d \in content : Key(c) = Key(d) => c = d
  /\ LET it == Iterate(hash_first)
     IN /\ {it[i] : i \in DOMAIN it} = content
        /\ Len(it) = Cardinality(content)
        /\ hash_apply(bucket_cnt) = it
  /\ elem_cnt = Cardinality(content)
  /\ is_power_of_2(bucket_cnt) /\ bucket_cnt >= MinBuckets
=============================================================================
