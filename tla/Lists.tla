------------------------------- MODULE Lists -------------------------------
(***************************************************************************)
(* Views of the kernel's lists (lib/kernel/list.c) that the modules on     *)
(* threads share: list_push_back() is Append, list_pop_front() takes Head  *)
(* and leaves Tail.                                                        *)
(***************************************************************************)
EXTENDS Integers, Sequences

\* The elements of a list.
OnList(s) == {s[i] : i \in 1 .. Len(s)}

\* No element is linked into the list twice.
NoDup(s) == \A i, j \in 1 .. Len(s) : s[i] = s[j] => i = j
=============================================================================
