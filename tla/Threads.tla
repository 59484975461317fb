------------------------------ MODULE Threads ------------------------------
(***************************************************************************)
(* The kernel thread scheduler of Pintos (threads/thread.c) on its single  *)
(* CPU, together with the semaphores of threads/synch.c that put threads   *)
(* to sleep and wake them, the idle thread, and the external interrupts    *)
(* of threads/interrupt.c that preempt.                                    *)
(*                                                                         *)
(* A thread is named by the page that holds its struct thread and its      *)
(* kernel stack; `cur' is the page the stack pointer is in, which is what  *)
(* running_thread() computes.  Code that runs with interrupts disabled is  *)
(* one step, except that schedule() is split at switch_threads(): the      *)
(* second half, thread_switch_tail(), already runs on the new stack.       *)
(***************************************************************************)
EXTENDS Lists, Integers, Sequences, FiniteSets

CONSTANTS
  Thread,          \* pages that can hold a struct thread
  initial_thread,  \* the page main() runs on; not obtained from palloc
  NULL,            \* the null pointer
  Sema,            \* the semaphores
  idle_started,    \* the one on thread_start()'s stack
  TIME_SLICE,      \* timer ticks a thread runs before it is preempted
  MaxValue         \* bound on a semaphore's value

ASSUME ThreadsAssumption ==
  /\ IsFiniteSet(Thread)
  /\ initial_thread \in Thread
  /\ NULL \notin Thread
  /\ NULL \notin Sema
  /\ idle_started \in Sema
  /\ TIME_SLICE \in Nat \ {0}
  /\ MaxValue \in Nat \ {0}

VARIABLES
  status,           \* struct thread's status; "free": the page holds no thread
  pc,               \* where each thread is in the code modelled here
  child,            \* the thread a thread_create() in progress is building
  wait_sema,        \* the argument of the sema_down() a thread is in
  fifo_ready_list,  \* the run queue
  all_list,         \* the threads on all_list
  idle_thread,      \* the idle thread, NULL until it has run once
  thread_ticks,     \* ticks since the last switch
  cur,              \* the page the stack pointer is in
  prev,             \* the thread switched from, during a switch
  cpu,              \* "thread", or "switch" inside schedule()
  intr_level,       \* the CPU's interrupt flag
  value, waiters    \* the two fields of each struct semaphore

schedVars == <<status, fifo_ready_list, cur, prev, cpu>>
semaVars == <<value, waiters>>
progVars == <<pc, child, wait_sema>>
vars == <<schedVars, semaVars, progVars, all_list, idle_thread,
          thread_ticks, intr_level>>

Status == {"THREAD_RUNNING", "THREAD_READY", "THREAD_BLOCKED",
           "THREAD_DYING", "free"}
Pc == {"boot", "start", "run", "sema_down", "create", "idle", "idle_up",
       "block", "hlt"}

(***************************************************************************)
(* main() after thread_init(): the boot thread is the only one and         *)
(* interrupts are still off.                                               *)
(***************************************************************************)
thread_init ==
  /\ status = [t \in Thread |-> IF t = initial_thread
                                THEN "THREAD_RUNNING" ELSE "free"]
  /\ pc = [t \in Thread |-> IF t = initial_thread THEN "boot" ELSE "run"]
  /\ child = [t \in Thread |-> NULL]
  /\ wait_sema = [t \in Thread |-> NULL]
  /\ fifo_ready_list = <<>>
  /\ all_list = {initial_thread}
  /\ idle_thread = NULL
  /\ thread_ticks = 0
  /\ cur = initial_thread
  /\ prev = NULL
  /\ cpu = "thread"
  /\ intr_level = "INTR_OFF"
  /\ value = [s \in Sema |-> 0]
  /\ waiters = [s \in Sema |-> <<>>]

(***************************************************************************)
(* The scheduler proper.                                                   *)
(***************************************************************************)
\* Mutant: the run queue is used as a stack.
PushFrontEnqueue(t, ready) == <<t>> \o ready

thread_enqueue(t, ready) == Append(ready, t)

thread_unblock(t) ==
  /\ status' = [status EXCEPT ![t] = "THREAD_READY"]
  /\ fifo_ready_list' = thread_enqueue(t, fifo_ready_list)

\* Mutant: the idle thread is queued like any other.
YieldAlwaysQueues(t) == thread_enqueue(t, fifo_ready_list)

\* thread_yield() of the idle thread does not put it on the run queue.
YieldQueue(t) ==
  IF t # idle_thread THEN thread_enqueue(t, fifo_ready_list)
                     ELSE fifo_ready_list

\* What next_thread_to_run() returns for a run queue, and what it leaves.
thread_schedule_fifo(ready) == IF ready # <<>> THEN Head(ready) ELSE idle_thread
AfterPop(ready) == IF ready # <<>> THEN Tail(ready) ELSE <<>>

(***************************************************************************)
(* schedule() up to switch_threads(): the running thread's status has      *)
(* become st and the run queue is `ready'.  With nothing to switch to, the *)
(* same thread goes on and prev stays NULL.                                *)
(***************************************************************************)
schedule(st, ready) ==
  LET next == thread_schedule_fifo(ready)
  IN  /\ status' = [status EXCEPT ![cur] = st]
      /\ fifo_ready_list' = AfterPop(ready)
      /\ cur' = next
      /\ prev' = IF cur # next THEN cur ELSE NULL
      /\ cpu' = "switch"
      /\ intr_level' = "INTR_OFF"

\* Mutants: the page is never freed; the status is not tested.
NeverDestroyed == {}
PrevDestroyed == IF prev # NULL /\ prev # initial_thread THEN {prev} ELSE {}

\* The page thread_switch_tail() frees, and what the status fields become.
Destroyed ==
  IF prev # NULL /\ status[prev] = "THREAD_DYING" /\ prev # initial_thread
  THEN {prev} ELSE {}

\* The new thread is marked as running, and the page of a dead one is free.
SwitchedStatus ==
  [t \in Thread |-> IF t = cur THEN "THREAD_RUNNING"
                    ELSE IF t \in Destroyed THEN "free" ELSE status[t]]

(***************************************************************************)
(* The new thread finishes the switch, on its own stack, and goes back to  *)
(* where it was: sema_down() rechecks with interrupts still off, all other *)
(* callers of schedule() restore or enable them.                           *)
(***************************************************************************)
thread_switch_tail ==
  /\ cpu = "switch"
  /\ status' = SwitchedStatus
  /\ thread_ticks' = 0
  /\ cpu' = "thread"
  /\ prev' = NULL
  /\ intr_level' = IF pc[cur] = "sema_down" THEN "INTR_OFF" ELSE "INTR_ON"
  /\ UNCHANGED <<progVars, semaVars, fifo_ready_list, all_list, idle_thread, cur>>

(***************************************************************************)
(* What a running thread can do.  Running(t, p): t is at p and may be      *)
(* preempted there.                                                        *)
(***************************************************************************)
Running(t, p) ==
  /\ cpu = "thread"
  /\ cur = t
  /\ intr_level = "INTR_ON"
  /\ pc[t] = p

thread_yield(t) ==
  /\ Running(t, "run")
  /\ schedule("THREAD_READY", YieldQueue(t))
  /\ UNCHANGED <<progVars, semaVars, all_list, idle_thread, thread_ticks>>

thread_exit(t) ==
  /\ Running(t, "run")
  /\ all_list' = all_list \ {t}
  /\ schedule("THREAD_DYING", fifo_ready_list)
  /\ UNCHANGED <<progVars, semaVars, idle_thread, thread_ticks>>

\* thread_create() up to its call of thread_unblock(): the page is obtained
\* and init_thread() makes it a blocked thread known only to its creator.
thread_create(t, new) ==
  /\ Running(t, "run")
  /\ status[new] = "free"
  /\ status' = [status EXCEPT ![new] = "THREAD_BLOCKED"]
  /\ all_list' = all_list \union {new}
  /\ child' = [child EXCEPT ![t] = new]
  /\ pc' = [pc EXCEPT ![t] = "create", ![new] = "run"]
  /\ UNCHANGED <<semaVars, wait_sema, fifo_ready_list, idle_thread,
                 thread_ticks, cur, prev, cpu, intr_level>>

\* The end of thread_create(): the child may now run, and exit, at any time.
CreateUnblock(t) ==
  /\ Running(t, "create")
  /\ thread_unblock(child[t])
  /\ child' = [child EXCEPT ![t] = NULL]
  /\ pc' = [pc EXCEPT ![t] = "run"]
  /\ UNCHANGED <<semaVars, wait_sema, all_list, idle_thread, thread_ticks,
                 cur, prev, cpu, intr_level>>

(***************************************************************************)
(* Semaphores.  A woken waiter rechecks the value when it next runs, so a  *)
(* thread that calls sema_down() in between can take the unit first.       *)
(***************************************************************************)
WakesOnlyFromZero(s) == waiters[s] # <<>> /\ value[s] = 0

PushWaiter(q, t) == Append(q, t)
PopWaiter(q) == Tail(q)
WakesWaiter(s) == waiters[s] # <<>>

SemaBlock(t, s) ==
  /\ value[s] = 0
  /\ waiters' = [waiters EXCEPT ![s] = PushWaiter(@, t)]
  /\ pc' = [pc EXCEPT ![t] = "sema_down"]
  /\ wait_sema' = [wait_sema EXCEPT ![t] = s]
  /\ schedule("THREAD_BLOCKED", fifo_ready_list)
  /\ UNCHANGED value

SemaTake(t, s) ==
  /\ value[s] > 0
  /\ value' = [value EXCEPT ![s] = @ - 1]
  /\ pc' = [pc EXCEPT ![t] = "run"]
  /\ wait_sema' = [wait_sema EXCEPT ![t] = NULL]
  /\ intr_level' = "INTR_ON"
  /\ UNCHANGED <<waiters, schedVars>>

\* One trip round the loop of sema_down(), entered from the thread's own
\* code or resumed after thread_block().
sema_down(t, s) ==
  /\ \/ Running(t, "run") /\ s # idle_started
     \/ Running(t, "start") /\ s = idle_started
     \/ cpu = "thread" /\ cur = t /\ pc[t] = "sema_down" /\ wait_sema[t] = s
  /\ SemaBlock(t, s) \/ SemaTake(t, s)
  /\ UNCHANGED <<child, all_list, idle_thread, thread_ticks>>

sema_up(s) ==
  /\ value[s] < MaxValue
  /\ value' = [value EXCEPT ![s] = @ + 1]
  /\ \/ /\ ~ WakesWaiter(s)
        /\ UNCHANGED <<waiters, status, fifo_ready_list>>
     \/ /\ WakesWaiter(s)
        /\ waiters' = [waiters EXCEPT ![s] = PopWaiter(@)]
        /\ thread_unblock(Head(waiters[s]))

SemaUp(t, s) ==
  /\ Running(t, "run")
  /\ s # idle_started
  /\ sema_up(s)
  /\ UNCHANGED <<progVars, all_list, idle_thread, thread_ticks, cur, prev,
                 cpu, intr_level>>

\* The successful branch; the other one changes nothing.
sema_try_down(t, s) ==
  /\ Running(t, "run")
  /\ s # idle_started
  /\ value[s] > 0
  /\ value' = [value EXCEPT ![s] = @ - 1]
  /\ UNCHANGED <<waiters, schedVars, progVars, all_list, idle_thread,
                 thread_ticks, intr_level>>

(***************************************************************************)
(* Starting up: thread_start() creates the idle thread with interrupts     *)
(* off, enables them, and waits on idle_started.                           *)
(***************************************************************************)
thread_start(idlePage) ==
  /\ pc[initial_thread] = "boot"
  /\ status[idlePage] = "free"
  /\ status' = [status EXCEPT ![idlePage] = "THREAD_READY"]
  /\ fifo_ready_list' = thread_enqueue(idlePage, fifo_ready_list)
  /\ all_list' = all_list \union {idlePage}
  /\ pc' = [pc EXCEPT ![initial_thread] = "start", ![idlePage] = "idle"]
  /\ intr_level' = "INTR_ON"
  /\ UNCHANGED <<semaVars, child, wait_sema, idle_thread, thread_ticks, cur,
                 prev, cpu>>

\* idle(): its first statement, ...
IdleInit(t) ==
  /\ Running(t, "idle")
  /\ idle_thread' = t
  /\ pc' = [pc EXCEPT ![t] = "idle_up"]
  /\ UNCHANGED <<schedVars, semaVars, child, wait_sema, all_list,
                 thread_ticks, intr_level>>

\* ... its second, ...
IdleUp(t) ==
  /\ Running(t, "idle_up")
  /\ sema_up(idle_started)
  /\ pc' = [pc EXCEPT ![t] = "block"]
  /\ UNCHANGED <<child, wait_sema, all_list, idle_thread, thread_ticks,
                 cur, prev, cpu, intr_level>>

\* ... and the loop: block, and when scheduled wait in sti; hlt.
IdleBlock(t) ==
  /\ Running(t, "block")
  /\ pc' = [pc EXCEPT ![t] = "hlt"]
  /\ schedule("THREAD_BLOCKED", fifo_ready_list)
  /\ UNCHANGED <<semaVars, child, wait_sema, all_list, idle_thread, thread_ticks>>

(***************************************************************************)
(* External interrupts.  intr_handler() runs with interrupts off, and an   *)
(* interrupt ends the idle thread's hlt.                                   *)
(***************************************************************************)
Interruptible == cpu = "thread" /\ intr_level = "INTR_ON"

WakeHlt == pc' = IF pc[cur] = "hlt" THEN [pc EXCEPT ![cur] = "block"] ELSE pc

SliceOver(n) == n >= TIME_SLICE

\* The timer: thread_tick() asks for a yield at the end of the time slice.
thread_tick ==
  /\ Interruptible
  /\ thread_ticks' = thread_ticks + 1
  /\ WakeHlt
  /\ \/ /\ ~ SliceOver(thread_ticks')
        /\ UNCHANGED <<schedVars, intr_level>>
     \/ /\ SliceOver(thread_ticks')
        /\ schedule("THREAD_READY", YieldQueue(cur))
  /\ UNCHANGED <<semaVars, child, wait_sema, all_list, idle_thread>>

\* A device handler ups a semaphore; the interrupted thread goes on.
device_interrupt(s) ==
  /\ Interruptible
  /\ s # idle_started
  /\ sema_up(s)
  /\ WakeHlt
  /\ UNCHANGED <<child, wait_sema, all_list, idle_thread, thread_ticks,
                 cur, prev, cpu, intr_level>>

Init == thread_init

ThreadStep(t) ==
  \/ thread_yield(t)
  \/ thread_exit(t)
  \/ CreateUnblock(t)
  \/ IdleInit(t)
  \/ IdleUp(t)
  \/ IdleBlock(t)
  \/ \E new \in Thread : thread_create(t, new)
  \/ \E s \in Sema : sema_down(t, s) \/ SemaUp(t, s) \/ sema_try_down(t, s)

Next ==
  \/ \E t \in Thread : ThreadStep(t)
  \/ \E t \in Thread : thread_start(t)
  \/ thread_switch_tail
  \/ thread_tick
  \/ \E s \in Sema : device_interrupt(s)

Spec == Init /\ [][Next]_vars

\* The timer keeps ticking, a switch completes, and kernel code that does not
\* wait runs to its end.  A thread at "run" owes nobody anything.
Fairness ==
  /\ WF_vars(thread_tick)
  /\ WF_vars(thread_switch_tail)
  /\ WF_vars(\E t \in Thread : thread_start(t))
  /\ \A t \in Thread :
       /\ WF_vars(CreateUnblock(t) \/ IdleInit(t) \/ IdleUp(t) \/ IdleBlock(t))
       /\ WF_vars(pc[t] # "run" /\ \E s \in Sema : sema_down(t, s))

FairSpec == Spec /\ Fairness
-----------------------------------------------------------------------------
\* The threads that exist: their page has not been returned to palloc.
Live == {t \in Thread : status[t] # "free"}

\* Threads that a sema_up() took off s's list, or that are on their way into
\* sema_down(s) again, and will look at its value when they next run.
Woken(s) == {t \in Thread : /\ pc[t] = "sema_down"
                            /\ wait_sema[t] = s
                            /\ status[t] # "THREAD_BLOCKED"}

\* Every variable has the type of the C object it stands for.
TypeOK ==
  /\ status \in [Thread -> Status]
  /\ pc \in [Thread -> Pc]
  /\ child \in [Thread -> Thread \union {NULL}]
  /\ wait_sema \in [Thread -> Sema \union {NULL}]
  /\ fifo_ready_list \in Seq(Thread)
  /\ all_list \in SUBSET Thread
  /\ idle_thread \in Thread \union {NULL}
  /\ thread_ticks \in 0 .. TIME_SLICE
  /\ cur \in Thread \union {NULL}
  /\ prev \in Thread \union {NULL}
  /\ cpu \in {"thread", "switch"}
  /\ intr_level \in {"INTR_ON", "INTR_OFF"}
  /\ value \in [Sema -> 0 .. MaxValue]
  /\ waiters \in [Sema -> Seq(Thread)]

\* thread.h on `elem': the run queue holds exactly the ready threads, each
\* once, except the idle thread, which never is on it once it has set
\* idle_thread (comment of idle()), and the thread being switched to.
RunQueueIsReadyThreads ==
  /\ NoDup(fifo_ready_list)
  /\ \A t \in Thread :
       t \in OnList(fifo_ready_list) <=>
         /\ status[t] = "THREAD_READY"
         /\ t # idle_thread
         /\ ~ (cpu = "switch" /\ t = cur)

\* thread.h on `elem', the other use: only blocked threads are on a
\* semaphore's list, on one list, once, and it is the list of the semaphore
\* whose sema_down() they are in.
WaitersAreBlocked ==
  \A s \in Sema :
    /\ NoDup(waiters[s])
    /\ \A t \in OnList(waiters[s]) :
         /\ status[t] = "THREAD_BLOCKED"
         /\ pc[t] = "sema_down"
         /\ wait_sema[t] = s

\* No thread sleeps where nobody can find it: a blocked thread is on the list
\* of its semaphore, or is the idle thread, or is still being created.
BlockedIsFindable ==
  \A t \in Thread : status[t] = "THREAD_BLOCKED" =>
    \/ \E s \in Sema : t \in OnList(waiters[s])
    \/ t = idle_thread
    \/ \E c \in Thread : child[c] = t /\ pc[c] = "create"

\* Both: every sleeping thread is on one list, where its waker looks.
SleepersAreFindable == WaitersAreBlocked /\ BlockedIsFindable

\* thread_current()'s assertion: outside a switch the thread whose stack is
\* in use, and no other, is marked running; schedule() always finds a thread
\* (its ASSERT(is_thread(next))), the idle one included before it ever ran.
OneRunning ==
  /\ cur \in Live
  /\ cpu = "thread" => {t \in Thread : status[t] = "THREAD_RUNNING"} = {cur}

\* Both uses of `elem' together: no thread is on two lists, twice on one, or
\* on none while somebody has to find it, whatever woke, overtook or preempted
\* it in between; the one that is on no list because it runs is the one that
\* thread_current() returns.
ListsAreExact == RunQueueIsReadyThreads /\ SleepersAreFindable /\ OneRunning

\* Nothing points into a freed page: not the stack pointer, the idle_thread
\* pointer, all_list or a thread_create() in progress; and the page of a
\* thread that exited is freed by whoever runs next (the boot thread's
\* excepted), so none leaks.
ExitedThreadIsReclaimed ==
  /\ all_list = {t \in Live : status[t] # "THREAD_DYING"}
  /\ idle_thread \in all_list \union {NULL}
  /\ \A t \in Live : pc[t] = "create" => child[t] \in all_list
  /\ \A t \in Thread : status[t] = "THREAD_DYING" =>
       t = initial_thread \/ (cpu = "switch" /\ t = prev)

\* sema_up() wakes one waiter per unit: while threads are queued on s, every
\* unit of its value is spoken for by a woken thread that has not run yet,
\* although such a thread can be overtaken and queue again.
NoLostWakeup ==
  \A s \in Sema : waiters[s] # <<>> => value[s] <= Cardinality(Woken(s))

\* FIFO scheduling with a time slice: a thread that is ready gets the CPU.
EveryReadyThreadRuns ==
  \A t \in Thread :
    (status[t] = "THREAD_READY" /\ t # idle_thread) ~> (status[t] = "THREAD_RUNNING")

\* A page is freed only while another thread's stack is in use and the dead
\* thread is on no list (thread_switch_tail()'s "pull out the rug").
FreeIsSafe ==
  [][\A t \in Thread : status[t] # "free" /\ status'[t] = "free" =>
       /\ t # cur
       /\ t \notin OnList(fifo_ready_list)
       /\ \A s \in Sema : t \notin OnList(waiters[s])]_vars
=============================================================================
