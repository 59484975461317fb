-------------------------------- MODULE Heap --------------------------------
(***************************************************************************)
(* The kernel heap, threads/malloc.c, in a small memory: pages 1 ..        *)
(* PageCnt of PGSIZE bytes, an address is page * PGSIZE + offset, 0 is the *)
(* null pointer.  The bytes are there, because the allocator keeps its own *)
(* data in them: an arena's header at the start of a page, the links of a  *)
(* free block in the block.  The page allocator is the one of Palloc, here *)
(* with calls that take effect at once.  The part of a call before and     *)
(* after the descriptor's lock, and every access to the page allocator     *)
(* under it, is a step of its own.                                         *)
(***************************************************************************)
EXTENDS Integers, Sequences, FiniteSets

CONSTANTS
  Thread,
  NULL,         \* no holder of a lock
  PageCnt,      \* pages in the pool
  PGSIZE,       \* 4096 in the code
  ArenaSize,    \* sizeof (struct arena)
  MinBlock,     \* 16 in the code
  SizeMod,      \* the values of size_t: 2^32 in the code
  Sizes,        \* bound: the sizes a caller asks for
  Factors,      \* bound: the factors a caller passes to calloc()
  MaxHeld       \* bound: blocks the callers have at a time

VARIABLES
  used,        \* pages that the page allocator has given out
  arena,       \* the header in each page: desc (0: a big block) and free_cnt
  bytes,       \* what each byte of memory was last overwritten with
  free_list,   \* per descriptor: its free blocks, front first
  lock,        \* per descriptor: the holder of its lock
  pc,          \* where each thread is
  arg,         \* per thread: size it asks for, block it frees, and for realloc()
               \* the bytes to copy and the new block
  held         \* history: the blocks callers have, with the bytes they wrote

vars == <<used, arena, bytes, free_list, lock, pc, arg, held>>

\* Fills: by the page allocator or free(), a link, an arena's header.
CC == -1
LINK == -2
HEADER == -3

Page == 1 .. PageCnt
Address == PGSIZE .. PGSIZE * (PageCnt + 1) - 1
Region(addr, size) == addr .. addr + size - 1

\* malloc_init(): the descriptors, by their block sizes.
descs == {MinBlock * 2 ^ i : i \in {k \in 0 .. PGSIZE : MinBlock * 2 ^ k < PGSIZE \div 2}}
blocks_per_arena(d) == (PGSIZE - ArenaSize) \div d

block_to_arena(b) == b \div PGSIZE
arena_to_block(a, i, d) == a * PGSIZE + ArenaSize + i * d
BlocksOf(a, d) == {arena_to_block(a, i, d) : i \in 0 .. blocks_per_arena(d) - 1}

Written(mem, region, value) ==
  [x \in Address |-> IF x \in region THEN value ELSE mem[x]]

NoHeader == [desc |-> 0, free_cnt |-> 0]
NoArg == [size |-> 0, block |-> 0, copy |-> <<>>, new |-> 0]

\* A descriptor's block has a size, and an arena room for one; a request can be
\* rounded up to pages in size_t, which malloc() leaves to its callers.
ASSUME HeapAssumption ==
  /\ NULL \notin Thread
  /\ PageCnt \in Nat
  /\ PGSIZE \in Nat
  /\ ArenaSize \in 1 .. PGSIZE - 1
  /\ SizeMod \in Nat
  /\ \A d \in descs : d \in Nat \ {0} /\ ArenaSize + d <= PGSIZE
  /\ \A size \in Sizes : size \in Nat \ {0} /\ size + ArenaSize + PGSIZE - 1 < SizeMod

Init ==
  /\ used = {}
  /\ arena = [p \in Page |-> NoHeader]
  /\ bytes = [x \in Address |-> CC]
  /\ free_list = [d \in descs |-> <<>>]
  /\ lock = [d \in descs |-> NULL]
  /\ pc = [t \in Thread |-> "idle"]
  /\ arg = [t \in Thread |-> NoArg]
  /\ held = {}

Goto(t, label) == pc' = [pc EXCEPT ![t] = label]

\* The block is the caller's.  What realloc() copied stays in it until that
\* call returns; the caller fills the rest with the block's address.
Hand(t, mem, b, size) ==
  LET old == arg[t].copy
      text == [i \in 1 .. size |-> IF i <= Len(old) THEN old[i] ELSE b]
  IN /\ held' = held \union {[addr |-> b, text |-> text]}
     /\ bytes' = [x \in Address |-> IF x \in Region(b, size) THEN text[x - b + 1] ELSE mem[x]]

\* After malloc(), realloc() frees the old block; a plain malloc() returns.
Obtained(t, b) ==
  IF arg[t].block = 0
  THEN Goto(t, "idle") /\ arg' = [arg EXCEPT ![t] = NoArg]
  ELSE Goto(t, "free") /\ arg' = [arg EXCEPT ![t].new = b, ![t].copy = <<>>]

\* free() or realloc() returns: the caller fills the new block, if any.
Refill(mem, kept, b) ==
  /\ held' = {IF r.addr = b THEN [r EXCEPT !.text = [i \in DOMAIN r.text |-> b]] ELSE r : r \in kept}
  /\ bytes' = [x \in Address |->
                 IF \E r \in kept : r.addr = b /\ x \in Region(b, Len(r.text)) THEN b ELSE mem[x]]

\* A list without some of its elements, the rest in their order.
Nth(K, n) == CHOOSE i \in K : Cardinality({k \in K : k <= i}) = n
Without(s, B) ==
  LET kept == {i \in DOMAIN s : s[i] \notin B}
  IN [n \in 1 .. Cardinality(kept) |-> s[Nth(kept, n)]]

\* No call is working on the block.
Idle(b) == \A u \in Thread : b \notin {arg[u].block, arg[u].new}

\* Mutant: the header is forgotten in the size of a big block.
PagesWithoutHeader(size) == (size + PGSIZE - 1) \div PGSIZE

BigPages(size) == ((size + ArenaSize + PGSIZE - 1) % SizeMod) \div PGSIZE

Fits(size) == {d \in descs : d >= size}

\* A caller calls malloc() (block 0) or realloc() on a block of its own.
malloc(t, size) ==
  /\ pc[t] = "idle"
  /\ size \in Sizes
  /\ Cardinality(held) < MaxHeld
  /\ arg' = [arg EXCEPT ![t] = [size |-> size, block |-> 0, copy |-> <<>>, new |-> 0]]
  /\ Goto(t, "malloc")
  /\ UNCHANGED <<used, arena, bytes, free_list, lock, held>>

\* calloc() multiplies in size_t and refuses some products that wrapped.
calloc(t, a, b) ==
  LET size == (a * b) % SizeMod
  IN /\ ~ (size < a \/ size < b)
     /\ malloc(t, size)

\* The caller gives the old block up only if there is a new one: the history
\* variable changes when realloc() frees it.
realloc(t, size) ==
  /\ pc[t] = "idle"
  /\ size \in Sizes
  /\ \E b \in held :
       /\ Idle(b.addr)
       /\ arg' = [arg EXCEPT ![t] = [size |-> size, block |-> b.addr, copy |-> b.text, new |-> 0]]
  /\ Goto(t, "malloc")
  /\ UNCHANGED <<used, arena, bytes, free_list, lock, held>>

Groups(n) == {p \in Page : p + n - 1 <= PageCnt /\ (p .. p + n - 1) \cap used = {}}

\* No descriptor is large enough: whole pages.
MallocBig(t) ==
  LET n == BigPages(arg[t].size)
  IN /\ pc[t] = "malloc"
     /\ Fits(arg[t].size) = {}
     /\ \E p \in Groups(n) :
          /\ used' = used \union (p .. p + n - 1)
          /\ arena' = [arena EXCEPT ![p] = [desc |-> 0, free_cnt |-> n]]
          /\ Hand(t, Written(bytes, Region(p * PGSIZE, ArenaSize), HEADER),
                  p * PGSIZE + ArenaSize, arg[t].size)
          /\ Obtained(t, p * PGSIZE + ArenaSize)
     /\ UNCHANGED <<free_list, lock>>

\* malloc() fails; realloc() keeps the old block.
Fail(t) ==
  /\ Goto(t, "idle")
  /\ arg' = [arg EXCEPT ![t] = NoArg]

MallocBigFails(t) ==
  /\ pc[t] = "malloc"
  /\ Fits(arg[t].size) = {}
  /\ Groups(BigPages(arg[t].size)) = {}
  /\ Fail(t)
  /\ UNCHANGED <<used, arena, bytes, free_list, lock, held>>

Smallest(S) == CHOOSE d \in S : \A e \in S : d <= e

\* The descriptor a thread works with.
Desc(t) ==
  IF pc[t] \in {"malloc", "pop"} THEN Smallest(Fits(arg[t].size))
  ELSE arena[block_to_arena(arg[t].block)].desc

MallocLock(t) ==
  /\ pc[t] = "malloc"
  /\ Fits(arg[t].size) # {}
  /\ lock[Desc(t)] = NULL
  /\ lock' = [lock EXCEPT ![Desc(t)] = t]
  /\ Goto(t, "pop")
  /\ UNCHANGED <<used, arena, bytes, free_list, arg, held>>

\* The free list is empty: a page becomes an arena and its blocks free ones.
NewArena(t) ==
  LET d == Desc(t)
  IN /\ pc[t] = "pop"
     /\ free_list[d] = <<>>
     /\ \E p \in Groups(1) :
          /\ used' = used \union {p}
          /\ arena' = [arena EXCEPT ![p] = [desc |-> d, free_cnt |-> blocks_per_arena(d)]]
          /\ free_list' = [free_list EXCEPT ![d] =
                             [i \in 1 .. blocks_per_arena(d) |-> arena_to_block(p, i - 1, d)]]
          /\ bytes' = Written(Written(bytes, Region(p * PGSIZE, ArenaSize), HEADER),
                              BlocksOf(p, d), LINK)
     /\ UNCHANGED <<lock, pc, arg, held>>

NewArenaFails(t) ==
  /\ pc[t] = "pop"
  /\ free_list[Desc(t)] = <<>>
  /\ Groups(1) = {}
  /\ lock' = [lock EXCEPT ![Desc(t)] = NULL]
  /\ Fail(t)
  /\ UNCHANGED <<used, arena, bytes, free_list, held>>

\* The first block of the list is the caller's.
PopBlock(t) ==
  LET d == Desc(t)
      b == Head(free_list[d])
  IN /\ pc[t] = "pop"
     /\ free_list[d] # <<>>
     /\ free_list' = [free_list EXCEPT ![d] = Tail(@)]
     /\ arena' = [arena EXCEPT ![block_to_arena(b)].free_cnt = @ - 1]
     /\ lock' = [lock EXCEPT ![d] = NULL]
     /\ Hand(t, bytes, b, arg[t].size)
     /\ Obtained(t, b)
     /\ UNCHANGED used

\* The caller gives a block back, also by realloc() with size 0.
free(t) ==
  /\ pc[t] = "idle"
  /\ \E b \in held :
       /\ Idle(b.addr)
       /\ arg' = [arg EXCEPT ![t] = [size |-> 0, block |-> b.addr, copy |-> <<>>, new |-> 0]]
  /\ Goto(t, "free")
  /\ UNCHANGED <<used, arena, bytes, free_list, lock, held>>

StillHeld(t) == {b \in held : b.addr # arg[t].block}

\* A big block goes back to the page allocator, which overwrites it; ...
FreeBig(t) ==
  LET a == block_to_arena(arg[t].block)
  IN /\ pc[t] = "free"
     /\ Desc(t) = 0
     /\ used' = used \ (a .. a + arena[a].free_cnt - 1)
     /\ arena' = [arena EXCEPT ![a] = NoHeader]
     /\ Refill(Written(bytes, Region(a * PGSIZE, arena[a].free_cnt * PGSIZE), CC),
               StillHeld(t), arg[t].new)
     /\ arg' = [arg EXCEPT ![t] = NoArg]
     /\ Goto(t, "idle")
     /\ UNCHANGED <<free_list, lock>>

\* ... a small one is overwritten before its descriptor's lock is taken.
FreeFill(t) ==
  /\ pc[t] = "free"
  /\ Desc(t) # 0
  /\ bytes' = Written(bytes, Region(arg[t].block, Desc(t)), CC)
  /\ held' = StillHeld(t)
  /\ Goto(t, "lock")
  /\ UNCHANGED <<used, arena, free_list, lock, arg>>

FreeLock(t) ==
  /\ pc[t] = "lock"
  /\ lock[Desc(t)] = NULL
  /\ lock' = [lock EXCEPT ![Desc(t)] = t]
  /\ Goto(t, "push")
  /\ UNCHANGED <<used, arena, bytes, free_list, arg, held>>

PushBlock(t) ==
  LET d == Desc(t)
      b == arg[t].block
  IN /\ pc[t] = "push"
     /\ free_list' = [free_list EXCEPT ![d] = <<b>> \o @]
     /\ bytes' = Written(bytes, {b}, LINK)
     /\ arena' = [arena EXCEPT ![block_to_arena(b)].free_cnt = @ + 1]
     /\ Goto(t, "test")
     /\ UNCHANGED <<used, lock, arg, held>>

NeverUnused(a, d) == FALSE

EntirelyUnused(a, d) == arena[a].free_cnt >= blocks_per_arena(d)

\* An arena with no block in use is taken apart and its page given back,
\* before the lock is released.
FreeArena(t) ==
  LET d == Desc(t)
      a == block_to_arena(arg[t].block)
  IN /\ pc[t] = "test"
     /\ EntirelyUnused(a, d)
     /\ free_list' = [free_list EXCEPT ![d] = Without(@, BlocksOf(a, d))]
     /\ used' = used \ {a}
     /\ arena' = [arena EXCEPT ![a] = NoHeader]
     /\ bytes' = Written(bytes, Region(a * PGSIZE, PGSIZE), CC)
     /\ arg' = [arg EXCEPT ![t] = [arg[t] EXCEPT !.block = 0, !.size = d]]
     /\ Goto(t, "unlock")
     /\ UNCHANGED <<lock, held>>

KeepArena(t) ==
  /\ pc[t] = "test"
  /\ ~ EntirelyUnused(block_to_arena(arg[t].block), Desc(t))
  /\ arg' = [arg EXCEPT ![t] = [arg[t] EXCEPT !.block = 0, !.size = Desc(t)]]
  /\ Goto(t, "unlock")
  /\ UNCHANGED <<used, arena, bytes, free_list, lock, held>>

FreeUnlock(t) ==
  /\ pc[t] = "unlock"
  /\ lock' = [lock EXCEPT ![arg[t].size] = NULL]
  /\ Refill(bytes, held, arg[t].new)
  /\ arg' = [arg EXCEPT ![t] = NoArg]
  /\ Goto(t, "idle")
  /\ UNCHANGED <<used, arena, free_list>>

Step(t) ==
  \/ \E size \in Sizes : malloc(t, size) \/ realloc(t, size)
  \/ \E a, b \in Factors : calloc(t, a, b)
  \/ MallocBig(t) \/ MallocBigFails(t) \/ MallocLock(t) \/ NewArena(t) \/ NewArenaFails(t)
  \/ PopBlock(t) \/ free(t) \/ FreeBig(t) \/ FreeFill(t) \/ FreeLock(t) \/ PushBlock(t)
  \/ FreeArena(t) \/ KeepArena(t) \/ FreeUnlock(t)

Next == \E t \in Thread : Step(t)

Spec == Init /\ [][Next]_vars
-----------------------------------------------------------------------------
\* What a caller wrote into its block stays there until it frees the block,
\* through realloc() too: no other block, free block's link, arena header or
\* fill of the page allocator overlaps it.
BlocksKeepTheirBytes ==
  /\ \A b \in held : \A i \in DOMAIN b.text : bytes[b.addr + i - 1] = b.text[i]
  /\ \A b, c \in held : b # c =>
       Region(b.addr, Len(b.text)) \cap Region(c.addr, Len(c.text)) = {}
  /\ \A b \in held : \A x \in Region(b.addr, Len(b.text)) : x \div PGSIZE \in used

\* The blocks of an arena that somebody has, or is about to give back.
Busy(a) ==
  {b.addr : b \in {b \in held : block_to_arena(b.addr) = a}}
  \union {arg[t].block : t \in {t \in Thread : /\ pc[t] \in {"lock", "push"}
                                               /\ block_to_arena(arg[t].block) = a}}

\* Every page the heap has is one of a big block or an arena of which the free
\* blocks are on the list once each and counted by free_cnt; and unless its
\* descriptor is being changed, an arena has a block in use: the page of one
\* that has none was given back.
ArenasAreExact ==
  /\ \A d \in descs : \A i, k \in DOMAIN free_list[d] : i # k => free_list[d][i] # free_list[d][k]
  /\ \A p \in used :
       LET d == arena[p].desc
           free_blocks == {i \in DOMAIN free_list[d] : block_to_arena(free_list[d][i]) = p}
       IN IF \E b \in held : /\ arena[block_to_arena(b.addr)].desc = 0
                             /\ p - block_to_arena(b.addr) \in
                                  0 .. arena[block_to_arena(b.addr)].free_cnt - 1
          THEN TRUE
          ELSE /\ d # 0
               /\ \A x \in Region(p * PGSIZE, ArenaSize) : bytes[x] = HEADER
               /\ arena[p].free_cnt = Cardinality(free_blocks)
               /\ {free_list[d][i] : i \in free_blocks} = BlocksOf(p, d) \ Busy(p)
               /\ lock[d] = NULL => Busy(p) # {}
  /\ \A d \in descs : \A i \in DOMAIN free_list[d] :
       block_to_arena(free_list[d][i]) \in used /\ arena[block_to_arena(free_list[d][i])].desc = d
=============================================================================
