-------------------------------- MODULE Lock --------------------------------
(***************************************************************************)
(* struct lock of threads/synch.c, built on a semaphore whose list of      *)
(* waiters is explicit, with the kernel's own use of it as the client:     *)
(* allocate_tid() of threads/thread.c increments a counter between         *)
(* lock_acquire() and lock_release().                                      *)
(*                                                                         *)
(* Any thread that is not on the waiters list may take the next step: the  *)
(* timer can preempt the running one wherever interrupts are on (module    *)
(* Threads).  What the code does with interrupts off is one step.  The     *)
(* lock's holder field is written outside those sections.                  *)
(***************************************************************************)
EXTENDS Lists, Integers, Sequences

CONSTANTS
  Thread,   \* the threads that call allocate_tid()
  NULL,     \* the null pointer
  MaxTid    \* bound: no call of allocate_tid() starts once this is reached

ASSUME LockAssumption == NULL \notin Thread /\ MaxTid \in Nat

VARIABLES
  value, waiters,  \* lock->semaphore
  holder,          \* lock->holder
  pc,              \* where each thread is
  next_tid,        \* allocate_tid()'s static counter
  tmp,             \* the value of next_tid a thread has read
  tid              \* the last tid returned to each thread

vars == <<value, waiters, holder, pc, next_tid, tmp, tid>>

(***************************************************************************)
(* "idle": outside; "acquire": in sema_down() for the first time;          *)
(* "blocked": on the waiters list; "woken": taken off it, about to recheck *)
(* the value; "take": has the unit, has not set holder; "read", "write":   *)
(* the two halves of next_tid++; "release": about to call lock_release();  *)
(* "up": has cleared holder, has not called sema_up().                     *)
(***************************************************************************)
Pc == {"idle", "acquire", "blocked", "woken", "take", "read", "write",
       "release", "up"}

Goto(t, from, to) == pc[t] = from /\ pc' = [pc EXCEPT ![t] = to]

\* Mutant: the semaphore starts with two units.
TwoUnits == 2

InitialValue == 1

lock_init ==
  /\ holder = NULL
  /\ value = InitialValue
  /\ waiters = <<>>

Init ==
  /\ lock_init
  /\ pc = [t \in Thread |-> "idle"]
  /\ next_tid = 1
  /\ tmp = [t \in Thread |-> 0]
  /\ tid = [t \in Thread |-> 0]

\* lock_acquire() is called.
lock_acquire(t) ==
  /\ next_tid < MaxTid
  /\ Goto(t, "idle", "acquire")
  /\ UNCHANGED <<value, waiters, holder, next_tid, tmp, tid>>

MayTake(t) == value > 0

\* The loop of sema_down() finds a unit ...
SemaTake(t) ==
  /\ pc[t] \in {"acquire", "woken"}
  /\ MayTake(t)
  /\ value' = value - 1
  /\ pc' = [pc EXCEPT ![t] = "take"]
  /\ UNCHANGED <<waiters, holder, next_tid, tmp, tid>>

\* ... or queues the thread, at the back even if it was woken before.
SemaBlock(t) ==
  /\ pc[t] \in {"acquire", "woken"}
  /\ ~ MayTake(t)
  /\ waiters' = Append(waiters, t)
  /\ pc' = [pc EXCEPT ![t] = "blocked"]
  /\ UNCHANGED <<value, holder, next_tid, tmp, tid>>

\* lock_try_acquire(), when it succeeds; when it fails nothing changes.
lock_try_acquire(t) ==
  /\ next_tid < MaxTid
  /\ value > 0
  /\ Goto(t, "idle", "take")
  /\ value' = value - 1
  /\ UNCHANGED <<waiters, holder, next_tid, tmp, tid>>

\* lock->holder = thread_current(), after the semaphore has been taken.
SetHolder(t) ==
  /\ Goto(t, "take", "read")
  /\ holder' = t
  /\ UNCHANGED <<value, waiters, next_tid, tmp, tid>>

\* tid = next_tid++, as the load and the store it compiles to.
ReadNextTid(t) ==
  /\ Goto(t, "read", "write")
  /\ tmp' = [tmp EXCEPT ![t] = next_tid]
  /\ UNCHANGED <<value, waiters, holder, next_tid, tid>>

WriteNextTid(t) ==
  /\ Goto(t, "write", "release")
  /\ next_tid' = tmp[t] + 1
  /\ tid' = [tid EXCEPT ![t] = tmp[t]]
  /\ UNCHANGED <<value, waiters, holder, tmp>>

\* Mutant: lock_release() leaves the old holder.
HolderKept == holder

HolderAfterRelease == NULL

\* lock_release(): the holder is cleared, and in a second step ...
ClearHolder(t) ==
  /\ Goto(t, "release", "up")
  /\ holder' = HolderAfterRelease
  /\ UNCHANGED <<value, waiters, next_tid, tmp, tid>>

\* Mutant: a waiter is woken only if the unit is already there.
WakesLate == waiters # <<>> /\ value > 0

WakesWaiter == waiters # <<>>

\* ... sema_up() wakes the first waiter, if any, and adds the unit.
sema_up(t) ==
  /\ pc[t] = "up"
  /\ value' = value + 1
  /\ \/ /\ ~ WakesWaiter
        /\ pc' = [pc EXCEPT ![t] = "idle"]
        /\ UNCHANGED waiters
     \/ /\ WakesWaiter
        /\ pc' = [pc EXCEPT ![t] = "idle", ![Head(waiters)] = "woken"]
        /\ waiters' = Tail(waiters)
  /\ UNCHANGED <<holder, next_tid, tmp, tid>>

\* The steps of a thread inside allocate_tid().
Inside(t) ==
  \/ SemaTake(t) \/ SemaBlock(t) \/ SetHolder(t)
  \/ ReadNextTid(t) \/ WriteNextTid(t)
  \/ ClearHolder(t) \/ sema_up(t)

Next == \E t \in Thread : lock_acquire(t) \/ lock_try_acquire(t) \/ Inside(t)

Spec == Init /\ [][Next]_vars

\* A runnable thread inside the kernel gets the CPU (EveryReadyThreadRuns of
\* Threads).
FairSpec == Spec /\ \A t \in Thread : WF_vars(Inside(t))
-----------------------------------------------------------------------------
\* Threads that have taken the unit and not given it back.
Owner == {t \in Thread : pc[t] \in {"take", "read", "write", "release", "up"}}

\* Every variable has the type of the C object it stands for.
TypeOK ==
  /\ value \in Nat
  /\ waiters \in Seq(Thread)
  /\ holder \in Thread \union {NULL}
  /\ pc \in [Thread -> Pc]
  /\ next_tid \in Nat
  /\ tmp \in [Thread -> Nat]
  /\ tid \in [Thread -> Nat]

\* "A lock can be held by at most a single thread" (lock_init()'s comment),
\* through the windows in which the semaphore and holder disagree.
MutualExclusion ==
  /\ \A t, u \in Owner : t = u
  /\ value = (IF Owner = {} THEN 1 ELSE 0)

\* The assertions of lock_acquire(), lock_try_acquire() and lock_release():
\* holder names a thread exactly while that thread is between setting and
\* clearing it, so no thread ever sees itself as holder when it is not, or
\* another one while it is.
HolderIsOwner ==
  \A t \in Thread : holder = t <=> pc[t] \in {"read", "write", "release"}

\* At most one thread has the lock, and what the assertions read agrees with
\* who that is, through every window between the semaphore and the holder.
LockIsExclusive == MutualExclusion /\ HolderIsOwner

\* Exactly the sleeping threads are queued, each once, and while one is
\* queued somebody owns the lock or is about to test the semaphore: nobody
\* is left asleep beside a free lock.
NobodyLeftAsleep ==
  /\ NoDup(waiters)
  /\ OnList(waiters) = {t \in Thread : pc[t] = "blocked"}
  /\ waiters # <<>> =>
       Owner # {} \/ \E t \in Thread : pc[t] = "woken" \/ pc[t] = "acquire"

\* allocate_tid() implements the atomic counter, so tids are never reused.
Atomic == INSTANCE AtomicTid
AllocatesAtomically == Atomic!Spec

\* Every call of allocate_tid() returns (calls being finitely many: the
\* semaphore does not promise that one caller cannot overtake for ever).
EveryCallReturns == \A t \in Thread : [](pc[t] # "idle" => <>(pc[t] = "idle"))
=============================================================================
