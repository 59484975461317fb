------------------------------ MODULE MCPalloc ------------------------------
(***************************************************************************)
(* Memory allocation: a behaviour is one of the page pool, or one of the   *)
(* heap that is built on it.                                               *)
(***************************************************************************)
EXTENDS Heap, TLC

CONSTANTS PoolThread, PoolPages

ASSUME PoolAssumption == NULL \notin PoolThread /\ PoolPages \in Nat

VARIABLES
  part,   \* "pool" or "heap"
  used_map, pool_lock, pool_pc, cnt, idx, j, contents, snap

poolVars == <<used_map, pool_lock, pool_pc, cnt, idx, j, contents, snap>>

Pool == INSTANCE Palloc WITH
  Thread <- PoolThread, PageCnt <- PoolPages, lock <- pool_lock, pc <- pool_pc

MCInit == part \in {"pool", "heap"} /\ Init /\ Pool!Init

MCNext ==
  /\ UNCHANGED part
  /\ \/ part = "pool" /\ Pool!Next /\ UNCHANGED vars
     \/ part = "heap" /\ Next /\ UNCHANGED poolVars

MCSpec == MCInit /\ [][MCNext]_<<part, vars, poolVars>>

ThreadSymmetry == Permutations(Thread) \union Permutations(PoolThread)

\* The pool's bitmap says who has what.
PoolIsExact == Pool!PoolIsExact

\* Pages stay as palloc_get_multiple() zeroed them.
ZeroedPagesStayZeroed == Pool!ZeroedPagesStayZeroed

\* An allocation fails only if there was no room.
FailsOnlyWithoutRoom == Pool!FailsOnlyWithoutRoom
=============================================================================
