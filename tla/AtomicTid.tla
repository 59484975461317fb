----------------------------- MODULE AtomicTid -----------------------------
(***************************************************************************)
(* What allocate_tid() promises: each call returns the next number of a    *)
(* counter, in one indivisible step.                                       *)
(***************************************************************************)
EXTENDS Naturals

CONSTANTS Thread

VARIABLES next_tid, tid   \* the counter, and the last number each thread got

Init == next_tid = 1 /\ tid = [t \in Thread |-> 0]

Allocate(t) ==
  /\ tid' = [tid EXCEPT ![t] = next_tid]
  /\ next_tid' = next_tid + 1

Next == \E t \in Thread : Allocate(t)

Spec == Init /\ [][Next]_<<next_tid, tid>>
=============================================================================
