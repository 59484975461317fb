------------------------------- MODULE Palloc -------------------------------
(***************************************************************************)
(* One pool of the page allocator, threads/palloc.c, with the bitmap       *)
(* operations of lib/kernel/bitmap.c it is built from.  Allocation scans   *)
(* and flips bits one at a time under the pool's lock; freeing clears them *)
(* one at a time and takes no lock, because thread_switch_tail() frees a   *)
(* dead thread's page where it must not sleep.  A bit is set or cleared by *)
(* one instruction, so a bit is the unit of interleaving.                  *)
(***************************************************************************)
EXTENDS Integers

CONSTANTS
  Thread,   \* the threads that allocate and free
  NULL,     \* no lock holder: not one of them
  PageCnt   \* pages in the pool, a natural number

VARIABLES
  used_map,  \* the pool's bitmap: the pages whose bit is set
  lock,      \* holder of the pool's lock
  pc,        \* where each thread is
  cnt,       \* page_cnt of the call a thread is in
  idx,       \* bitmap_scan()'s i, then the index of the block obtained
  j,         \* position within the group that is tested, set or cleared
  contents,  \* what a page was last filled with: "zero" or "cc" (0xcc)
  snap       \* history: the pages that were free when the lock was acquired

vars == <<used_map, lock, pc, cnt, idx, j, contents, snap>>

Page == 0 .. PageCnt - 1
Group(start, n) == start .. start + n - 1

Init ==
  /\ used_map = {}
  /\ lock = NULL
  /\ pc = [t \in Thread |-> "idle"]
  /\ cnt = [t \in Thread |-> 0]
  /\ idx = [t \in Thread |-> 0]
  /\ j = [t \in Thread |-> 0]
  /\ contents = [p \in Page |-> "cc"]
  /\ snap = {}

\* Mutant: the pool's lock is not taken.
NoLock == TRUE

PoolLockFree == lock = NULL

\* palloc_get_multiple() takes the lock and starts to scan.  A request for
\* no page, or for more than the pool has, fails without looking.
palloc_get_multiple(t, n) ==
  /\ pc[t] = "idle"
  /\ PoolLockFree
  /\ n \in 1 .. PageCnt
  /\ lock' = t
  /\ snap' = Page \ used_map
  /\ pc' = [pc EXCEPT ![t] = "scan"]
  /\ cnt' = [cnt EXCEPT ![t] = n]
  /\ idx' = [idx EXCEPT ![t] = 0]
  /\ j' = [j EXCEPT ![t] = 0]
  /\ UNCHANGED <<used_map, contents>>

\* Mutants: the last group of the pool is not looked at; one past it is.
LastShort(t) == PageCnt - cnt[t] - 1
LastLong(t) == PageCnt - cnt[t] + 1

last(t) == PageCnt - cnt[t]

\* bitmap_contains() finds a used page: the next group is tried, ...
ScanNext(t) ==
  /\ pc[t] = "scan"
  /\ idx[t] + j[t] \in used_map
  /\ idx[t] < last(t)
  /\ idx' = [idx EXCEPT ![t] = @ + 1]
  /\ j' = [j EXCEPT ![t] = 0]
  /\ UNCHANGED <<used_map, lock, pc, cnt, contents, snap>>

\* ... and if there is none BITMAP_ERROR is returned and the lock released.
ScanFail(t) ==
  /\ pc[t] = "scan"
  /\ idx[t] + j[t] \in used_map
  /\ idx[t] >= last(t)
  /\ lock' = NULL
  /\ pc' = [pc EXCEPT ![t] = "idle"]
  /\ UNCHANGED <<used_map, cnt, idx, j, contents, snap>>

\* Mutant: one page of the group is not tested.
TestsOneLess(t) == j[t] + 2 >= cnt[t]

GroupTested(t) == j[t] + 1 = cnt[t]

\* A free page: test the next one, or begin to flip the group.
ScanFree(t) ==
  /\ pc[t] = "scan"
  /\ idx[t] + j[t] \notin used_map
  /\ \/ /\ ~ GroupTested(t)
        /\ j' = [j EXCEPT ![t] = @ + 1]
        /\ UNCHANGED pc
     \/ /\ GroupTested(t)
        /\ j' = [j EXCEPT ![t] = 0]
        /\ pc' = [pc EXCEPT ![t] = "flip"]
  /\ UNCHANGED <<used_map, lock, cnt, idx, contents, snap>>

\* bitmap_set_multiple() sets the bits; the lock is released after the last.
FlipBit(t) ==
  /\ pc[t] = "flip"
  /\ used_map' = used_map \union {idx[t] + j[t]}
  /\ j' = [j EXCEPT ![t] = @ + 1]
  /\ \/ j[t] + 1 < cnt[t] /\ UNCHANGED <<pc, lock>>
     \/ /\ j[t] + 1 = cnt[t]
        /\ pc' = [pc EXCEPT ![t] = "zero"]
        /\ lock' = NULL
  /\ UNCHANGED <<cnt, idx, contents, snap>>

\* The pages are zeroed (PAL_ZERO), outside the lock.
Zero(t) ==
  /\ pc[t] = "zero"
  /\ contents' = [p \in Page |-> IF p \in Group(idx[t], cnt[t])
                                 THEN "zero" ELSE contents[p]]
  /\ pc' = [pc EXCEPT ![t] = "own"]
  /\ UNCHANGED <<used_map, lock, cnt, idx, j, snap>>

\* palloc_free_multiple() fills the pages with 0xcc, ...
palloc_free_multiple(t) ==
  /\ pc[t] = "own"
  /\ contents' = [p \in Page |-> IF p \in Group(idx[t], cnt[t])
                                 THEN "cc" ELSE contents[p]]
  /\ j' = [j EXCEPT ![t] = 0]
  /\ pc' = [pc EXCEPT ![t] = "clear"]
  /\ UNCHANGED <<used_map, lock, cnt, idx, snap>>

BlockCleared(t) == j[t] + 1 = cnt[t]

\* ... and bitmap_set_multiple() clears their bits, without the lock.
ClearBit(t) ==
  /\ pc[t] = "clear"
  /\ used_map' = used_map \ {idx[t] + j[t]}
  /\ j' = [j EXCEPT ![t] = @ + 1]
  /\ pc' = [pc EXCEPT ![t] = IF BlockCleared(t) THEN "idle" ELSE @]
  /\ UNCHANGED <<lock, cnt, idx, contents, snap>>

Next == \E t \in Thread :
  \/ \E n \in 1 .. PageCnt : palloc_get_multiple(t, n)
  \/ ScanNext(t) \/ ScanFail(t) \/ ScanFree(t) \/ FlipBit(t) \/ Zero(t)
  \/ palloc_free_multiple(t) \/ ClearBit(t)

Spec == Init /\ [][Next]_vars
-----------------------------------------------------------------------------
\* The pages whose bit is set on behalf of t.
Claim(t) ==
  CASE pc[t] = "flip" -> Group(idx[t], j[t])
    [] pc[t] \in {"zero", "own"} -> Group(idx[t], cnt[t])
    [] pc[t] = "clear" -> idx[t] + j[t] .. idx[t] + cnt[t] - 1
    [] OTHER -> {}

\* Every variable has its type, and indices stay within the bitmap
\* (bitmap_set()'s ASSERT(idx < b->bit_cnt)).
TypeOK ==
  /\ used_map \in SUBSET Page
  /\ lock \in Thread \union {NULL}
  /\ pc \in [Thread -> {"idle", "scan", "flip", "zero", "own", "clear"}]
  /\ cnt \in [Thread -> 0 .. PageCnt]
  /\ idx \in [Thread -> Nat]
  /\ j \in [Thread -> Nat]
  /\ contents \in [Page -> {"zero", "cc"}]
  /\ snap \in SUBSET Page
  /\ \A t \in Thread : pc[t] # "idle" => idx[t] + cnt[t] <= PageCnt

\* No page is given to two callers: the claims of different threads are
\* disjoint, although bits are cleared while another thread scans.
NoDoubleAllocation ==
  \A t, u \in Thread : t # u => Claim(t) \cap Claim(u) = {}

\* A bit is set exactly while somebody has the page: none leaks, and
\* palloc_free_multiple()'s ASSERT(bitmap_all(...)) holds.
UsedMapExact ==
  \A p \in Page : p \in used_map <=> \E t \in Thread : p \in Claim(t)

\* The bitmap says who has what: no page belongs to two callers, although bits
\* are cleared while another thread scans, and a bit is set exactly while
\* somebody has the page.
PoolIsExact == NoDoubleAllocation /\ UsedMapExact

\* A caller finds its pages as palloc_get_multiple() zeroed them: nobody
\* else's 0xcc fill reaches them.
ZeroedPagesStayZeroed ==
  \A t \in Thread : pc[t] = "own" => \A p \in Claim(t) : contents[p] = "zero"

\* palloc_get_multiple() fails only if no group was free when it got the
\* lock: pages freed during the scan cannot hide one that was there.
FailsOnlyWithoutRoom ==
  [][\A t \in Thread : pc[t] = "scan" /\ pc'[t] = "idle" =>
       \A p \in Page : p + cnt[t] <= PageCnt => ~ (Group(p, cnt[t]) \subseteq snap)]_vars
=============================================================================
