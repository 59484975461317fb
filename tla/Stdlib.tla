------------------------------- MODULE Stdlib -------------------------------
(***************************************************************************)
(* Sorting, searching and atoi() of lib/stdlib.c.  An array is a sequence  *)
(* of keys (the byte size of an element plays no part), a loop is a        *)
(* RECURSIVE operator from the state before an iteration to the result.    *)
(***************************************************************************)
EXTENDS Integers, Sequences, FiniteSets

compare(a, b) == IF a < b THEN -1 ELSE IF a > b THEN 1 ELSE 0

do_swap(array, i, j) == [array EXCEPT ![i] = array[j], ![j] = array[i]]

do_compare(array, i, j) == compare(array[i], array[j])

\* Mutant: the right child is compared with the parent, not with the larger.
RightAgainstParent(array, right, max, i, cnt) ==
  IF right <= cnt /\ do_compare(array, right, i) > 0 THEN right ELSE max

RightIfLarger(array, right, max, i, cnt) ==
  IF right <= cnt /\ do_compare(array, right, max) > 0 THEN right ELSE max

RECURSIVE heapify(_, _, _)
heapify(array, i, cnt) ==
  LET left == IF 2 * i <= cnt /\ do_compare(array, 2 * i, i) > 0 THEN 2 * i ELSE i
      max == RightIfLarger(array, 2 * i + 1, left, i, cnt)
  IN IF max = i THEN array ELSE heapify(do_swap(array, i, max), max, cnt)

RECURSIVE BuildHeap(_, _)
BuildHeap(array, i) ==
  IF i = 0 THEN array ELSE BuildHeap(heapify(array, i, Len(array)), i - 1)

RECURSIVE SortHeap(_, _)
SortHeap(array, i) ==
  IF i <= 1 THEN array ELSE SortHeap(heapify(do_swap(array, 1, i), 1, i - 1), i - 1)

sort(array) == SortHeap(BuildHeap(array, Len(array) \div 2), Len(array))

\* first and last are 0-based, last exclusive; 0 is the null pointer and i + 1
\* the element at index i.
RECURSIVE SearchBetween(_, _, _, _)
SearchBetween(key, array, first, last) ==
  LET middle == first + (last - first) \div 2
      cmp == compare(key, array[middle + 1])
  IN IF first >= last THEN 0
     ELSE IF cmp < 0 THEN SearchBetween(key, array, first, middle)
     ELSE IF cmp > 0 THEN SearchBetween(key, array, middle + 1, last)
     ELSE middle + 1

binary_search(key, array) == SearchBetween(key, array, 0, Len(array))

\* Strings are sequences of one-character strings.
isspace(c) == c = " "
digits == <<"0", "1", "2", "3", "4", "5", "6", "7", "8", "9">>
isdigit(c) == \E i \in DOMAIN digits : digits[i] = c
DigitValue(c) == (CHOOSE i \in DOMAIN digits : digits[i] = c) - 1

RECURSIVE SkipSpace(_)
SkipSpace(s) == IF s # <<>> /\ isspace(Head(s)) THEN SkipSpace(Tail(s)) ELSE s

\* What an int of `bits' bits holds after an operation whose result is v.
Wrap(v, bits) == ((v + 2 ^ (bits - 1)) % 2 ^ bits) - 2 ^ (bits - 1)

\* The value is built negative: that range is the larger one.
RECURSIVE ParseDigits(_, _, _)
ParseDigits(s, value, bits) ==
  IF s = <<>> \/ ~ isdigit(Head(s)) THEN value
  ELSE ParseDigits(Tail(s), Wrap(value * 10 - DigitValue(Head(s)), bits), bits)

atoi(s, bits) ==
  LET t == SkipSpace(s)
      signed == t # <<>> /\ Head(t) \in {"+", "-"}
      negative == t # <<>> /\ Head(t) = "-"
      value == ParseDigits(IF signed THEN Tail(t) ELSE t, 0, bits)
  IN IF negative THEN value ELSE Wrap(-value, bits)
-----------------------------------------------------------------------------
Count(s, x) == Cardinality({i \in DOMAIN s : s[i] = x})

\* sort() returns its input in order, nothing lost, and binary_search() finds
\* a key in the result exactly if it is there, at every array length up to
\* the bound, where the heap's last parent has one child or two.
SortsAndFinds(array, keys) ==
  LET s == sort(array)
  IN /\ Len(s) = Len(array)
     /\ \A i \in 2 .. Len(s) : s[i - 1] <= s[i]
     /\ \A x \in keys : Count(s, x) = Count(array, x)
     /\ \A x \in keys : LET p == binary_search(x, s)
                        IN IF Count(s, x) = 0 THEN p = 0 ELSE p > 0 /\ s[p] = x
=============================================================================
