------------------------------ MODULE Process ------------------------------
(***************************************************************************)
(* User processes: userprog/process.c, the page directories of             *)
(* userprog/pagedir.c and the ways out of user mode in syscall.c and       *)
(* exception.c.  The main thread runs the tasks of the kernel command line *)
(* one after another (run_task() in threads/init.c); each process is a     *)
(* thread that builds its PCB and address space, runs user code and takes  *)
(* everything down again.  All of it is preemptible, and every switch      *)
(* reads the PCB of the thread switched to (process_activate()), so a step *)
(* here is one access to what that function reads.                         *)
(*                                                                         *)
(* Scheduling and semaphores are those of Threads, memory that of Palloc:  *)
(* any ready thread may be next; an allocation gets the first free pages,  *)
(* and may fail at any time since other kernel threads use the pool too.   *)
(***************************************************************************)
EXTENDS Integers, FiniteSets

CONSTANTS
  Child,          \* threads that can run start_process()
  main, idle,     \* the two kernel threads
  NPages,         \* pages of memory
  Block,          \* heap blocks that can hold a struct process
  init_page_dir,  \* the kernel's own page directory
  NULL,           \* the null pointer
  JUNK            \* what malloc()ed or free()d memory holds

Thread == Child \union {main, idle}
Page == 1 .. NPages

ASSUME ProcessAssumption ==
  /\ main # idle /\ main \notin Child /\ idle \notin Child
  /\ NULL \notin Thread \union Page \union Block
  /\ init_page_dir \notin Page \union {NULL, JUNK}
  /\ JUNK \notin Page \union {NULL}
  /\ Block # {}
  /\ NPages \in Nat

VARIABLES
  pc,         \* where each thread is; "none": no such thread
  cur,        \* the running thread
  cr3,        \* the active page directory
  esp0,       \* whose stack the TSS names for entries from user mode
  pcb,        \* each struct thread's pcb
  heap,       \* the blocks that are allocated
  pagedir,    \* the pagedir field of each block
  inUse,      \* the pages that are allocated
  refs,       \* page tables and user pages each page directory references
  file_name,  \* the page with the command line: argument of start_process()
  local,      \* new_pcb, pcb_to_free or pd: the pointer kept in a local
  left,       \* pages a pagedir_destroy() has still to free
  temporary,  \* value of the semaphore
  started,    \* the process main waits for was created
  abandoned   \* history: pages that only a freed PCB led to

memVars == <<pcb, heap, pagedir, inUse, refs, file_name, local, left, abandoned>>
vars == <<pc, cur, cr3, esp0, memVars, temporary, started>>

Pc == {"none", "run_task", "palloc", "thread_create", "wait", "asleep", "idle",
       "malloc", "init_pcb", "set_pcb", "create", "activate", "open",
       "segments", "unset_pcb", "free_pcb", "free_name", "free_name_failed",
       "up", "thread_exit", "user", "get_pd", "clear_pd", "deactivate",
       "destroy", "exit_unset_pcb", "exit_free_pcb"}

\* main() after userprog_init(): its PCB has been zeroed by calloc().
userprog_init ==
  /\ pc = [t \in Thread |-> IF t = main THEN "run_task"
                            ELSE IF t = idle THEN "idle" ELSE "none"]
  /\ cur = main
  /\ cr3 = init_page_dir
  /\ esp0 = main
  /\ \E b \in Block :
       /\ pcb = [t \in Thread |-> IF t = main THEN b ELSE NULL]
       /\ heap = {b}
       /\ pagedir = [c \in Block |-> IF c = b THEN NULL ELSE JUNK]
  /\ inUse = {}
  /\ refs = [p \in Page |-> {}]
  /\ file_name = [t \in Thread |-> NULL]
  /\ local = [t \in Thread |-> NULL]
  /\ left = [t \in Thread |-> {}]
  /\ temporary = 0
  /\ started = FALSE
  /\ abandoned = {}

(***************************************************************************)
(* The CPU.                                                                *)
(***************************************************************************)
\* The page directory process_activate() loads for t.
process_activate(t) ==
  IF pcb[t] # NULL /\ pagedir[pcb[t]] # NULL
  THEN pagedir[pcb[t]] ELSE init_page_dir

Ready(t) == pc[t] \notin {"none", "asleep", "idle"}

\* schedule() and thread_switch_tail() as the processes see them: the idle
\* thread runs only when nobody else can.
SwitchTo(t) ==
  /\ t # cur
  /\ Ready(t) \/ (t = idle /\ \A u \in Thread \ {cur} : ~ Ready(u))
  /\ cur' = t
  /\ cr3' = process_activate(t)
  /\ esp0' = t

\* The running thread's time slice ends, or it sleeps until the disk has read
\* a sector of the executable and is ready again at once.
Preempt(t) ==
  /\ t # idle \/ pc[cur] \in {"open", "segments"}
  /\ SwitchTo(t)
  /\ UNCHANGED <<pc, memVars, temporary, started>>

At(t, p) == cur = t /\ pc[t] = p
Goto(t, p) == pc' = [pc EXCEPT ![t] = p]
SameCpu == UNCHANGED <<cur, cr3, esp0>>

\* A step of t that touches memory only.
Step(t, p, q) == At(t, p) /\ Goto(t, q) /\ SameCpu /\ UNCHANGED <<temporary, started>>

\* new: the first free pages of the pool.
FirstFree(new) ==
  /\ new \subseteq Page \ inUse
  /\ \A p \in new, q \in Page \ (inUse \union new) : p < q

(***************************************************************************)
(* process_execute() and process_wait(), called by main.                   *)
(***************************************************************************)
sema_init ==
  /\ At(main, "run_task")
  /\ Goto(main, "palloc")
  /\ temporary' = 0
  /\ started' = FALSE
  /\ SameCpu
  /\ UNCHANGED memVars

\* The copy of the file name.
CopyName ==
  \/ \E p \in Page :
       /\ FirstFree({p})
       /\ Step(main, "palloc", "thread_create")
       /\ inUse' = inUse \union {p}
       /\ file_name' = [file_name EXCEPT ![main] = p]
       /\ UNCHANGED <<pcb, heap, pagedir, refs, local, left, abandoned>>
  \/ Step(main, "palloc", "wait") /\ UNCHANGED memVars

\* thread_create() of start_process(); without a page for it the copy of the
\* name is freed.
CreateThread ==
  /\ At(main, "thread_create")
  /\ SameCpu
  /\ \/ \E t \in Child :
          /\ pc[t] = "none"
          /\ pc' = [pc EXCEPT ![main] = "wait", ![t] = "malloc"]
          /\ file_name' = [file_name EXCEPT ![t] = file_name[main], ![main] = NULL]
          /\ started' = TRUE
          /\ UNCHANGED inUse
     \/ /\ Goto(main, "wait")
        /\ inUse' = inUse \ {file_name[main]}
        /\ file_name' = [file_name EXCEPT ![main] = NULL]
        /\ UNCHANGED started
  /\ UNCHANGED <<pcb, heap, pagedir, refs, local, left, abandoned, temporary>>

\* process_wait() is a sema_down(), whatever its argument.
process_wait ==
  /\ At(main, "wait")
  /\ \/ /\ temporary > 0
        /\ temporary' = temporary - 1
        /\ Goto(main, "run_task")
        /\ SameCpu
     \/ /\ temporary = 0
        /\ Goto(main, "asleep")
        /\ \E t \in Thread : SwitchTo(t)
        /\ UNCHANGED temporary
  /\ UNCHANGED <<memVars, started>>

(***************************************************************************)
(* start_process().                                                        *)
(***************************************************************************)
MallocPcb(t) ==
  \/ \E b \in Block \ heap :
       /\ Step(t, "malloc", "init_pcb")
       /\ heap' = heap \union {b}
       /\ local' = [local EXCEPT ![t] = b]
       /\ UNCHANGED <<pcb, pagedir, inUse, refs, file_name, left, abandoned>>
  \/ Step(t, "malloc", "free_name_failed") /\ UNCHANGED memVars

\* new_pcb->pagedir before t->pcb is set.
FirstPagedir(b) == NULL

InitPcb(t) ==
  /\ Step(t, "init_pcb", "set_pcb")
  /\ pagedir' = [pagedir EXCEPT ![local[t]] = FirstPagedir(local[t])]
  /\ UNCHANGED <<pcb, heap, inUse, refs, file_name, local, left, abandoned>>

SetPcb(t) ==
  /\ Step(t, "set_pcb", "create")
  /\ pcb' = [pcb EXCEPT ![t] = local[t]]
  /\ local' = [local EXCEPT ![t] = NULL]
  /\ UNCHANGED <<heap, pagedir, inUse, refs, file_name, left, abandoned>>

(***************************************************************************)
(* load().  Any of its tests of the file can fail.                         *)
(***************************************************************************)
LoadFails(t, p) == Step(t, p, "unset_pcb") /\ UNCHANGED memVars

pagedir_create(t) ==
  \/ \E p \in Page :
       /\ FirstFree({p})
       /\ Step(t, "create", "activate")
       /\ inUse' = inUse \union {p}
       /\ refs' = [refs EXCEPT ![p] = {}]
       /\ pagedir' = [pagedir EXCEPT ![pcb[t]] = p]
       /\ UNCHANGED <<pcb, heap, file_name, local, left, abandoned>>
  \/ LoadFails(t, "create")

Activate(t) ==
  /\ At(t, "activate")
  /\ Goto(t, "open")
  /\ cr3' = process_activate(t)
  /\ esp0' = t
  /\ UNCHANGED <<cur, memVars, temporary, started>>

OpenFile(t) ==
  \/ Step(t, "open", "segments") /\ UNCHANGED memVars
  \/ LoadFails(t, "open")

\* How many pages a new mapping in pd can take: the page itself, and a page
\* table when its part of the address space has none yet.
lookup_page(pd) == IF refs[pd] = {} THEN {2} ELSE {1, 2}

\* install_page() succeeds.
InstallPage(t) ==
  LET pd == pagedir[pcb[t]]
  IN  \E new \in SUBSET Page :
        /\ FirstFree(new)
        /\ Cardinality(new) \in lookup_page(pd)
        /\ inUse' = inUse \union new
        /\ refs' = [refs EXCEPT ![pd] = @ \union new]
        /\ UNCHANGED <<pcb, heap, pagedir, file_name, local, left, abandoned>>

\* One page of load_segment(); a page that cannot be filled or mapped is
\* freed before load() fails.
load_segment(t) ==
  \/ Step(t, "segments", "segments") /\ InstallPage(t)
  \/ LoadFails(t, "segments")

setup_stack(t) == Step(t, "segments", "free_name") /\ InstallPage(t)

\* Mutant: the PCB is freed while the thread still points to it.
UnsetLater(t) == pcb

\* t->pcb in the failure branch and in process_exit(), before the free().
UnsetPcb(t) == [pcb EXCEPT ![t] = NULL]

\* Failure after the PCB was set: nothing destroys the page directory.
ForgetPcb(t) ==
  LET pd == pagedir[pcb[t]]
  IN  /\ Step(t, "unset_pcb", "free_pcb")
      /\ local' = [local EXCEPT ![t] = pcb[t]]
      /\ pcb' = UnsetPcb(t)
      /\ abandoned' = IF pd = NULL THEN abandoned
                      ELSE abandoned \union {pd} \union refs[pd]
      /\ UNCHANGED <<heap, pagedir, inUse, refs, file_name, left>>

\* free() fills the block with 0xcc.
FreePcb(t, p, q) ==
  /\ Step(t, p, q)
  /\ heap' = heap \ {local[t]}
  /\ pagedir' = [pagedir EXCEPT ![local[t]] = JUNK]
  /\ local' = [local EXCEPT ![t] = NULL]
  /\ UNCHANGED <<pcb, inUse, refs, file_name, left, abandoned>>

\* Mutant: a process that could not start is not reported.
FreeNameSilently(t) ==
  /\ Step(t, "free_name", "user") \/ Step(t, "free_name_failed", "thread_exit")
  /\ inUse' = inUse \ {file_name[t]}
  /\ file_name' = [file_name EXCEPT ![t] = NULL]
  /\ UNCHANGED <<pcb, heap, pagedir, refs, local, left, abandoned>>

FreeName(t) ==
  /\ Step(t, "free_name", "user") \/ Step(t, "free_name_failed", "up")
  /\ inUse' = inUse \ {file_name[t]}
  /\ file_name' = [file_name EXCEPT ![t] = NULL]
  /\ UNCHANGED <<pcb, heap, pagedir, refs, local, left, abandoned>>

(***************************************************************************)
(* process_exit(), reached from user mode by SYS_EXIT or by an exception.  *)
(***************************************************************************)
\* Mutant: the semaphore is upped before anything is freed.
UpFirst(t) ==
  /\ At(t, "user")
  /\ temporary' = temporary + 1
  /\ pc' = [pc EXCEPT ![t] = "get_pd", ![main] = IF @ = "asleep" THEN "wait" ELSE @]
  /\ SameCpu
  /\ UNCHANGED <<memVars, started>>

LeaveUser(t) == Step(t, "user", "get_pd") /\ UNCHANGED memVars

GetPagedir(t) ==
  /\ Step(t, "get_pd", IF pagedir[pcb[t]] # NULL THEN "clear_pd" ELSE "exit_unset_pcb")
  /\ local' = [local EXCEPT ![t] = pagedir[pcb[t]]]
  /\ UNCHANGED <<pcb, heap, pagedir, inUse, refs, file_name, left, abandoned>>

\* Mutant: the field keeps the directory until the PCB is freed.
NotCleared(t) == pagedir

ClearedPagedir(t) == [pagedir EXCEPT ![pcb[t]] = NULL]

ClearPagedir(t) ==
  /\ Step(t, "clear_pd", "deactivate")
  /\ pagedir' = ClearedPagedir(t)
  /\ UNCHANGED <<pcb, heap, inUse, refs, file_name, local, left, abandoned>>

Deactivate(t) ==
  /\ At(t, "deactivate")
  /\ Goto(t, "destroy")
  /\ cr3' = init_page_dir
  /\ left' = [left EXCEPT ![t] = refs[local[t]]]
  /\ UNCHANGED <<cur, esp0, pcb, heap, pagedir, inUse, refs, file_name, local,
                 abandoned, temporary, started>>

\* The pages one by one, each table after what it maps, the directory last.
pagedir_destroy(t) ==
  \/ \E p \in left[t] :
       /\ Step(t, "destroy", "destroy")
       /\ inUse' = inUse \ {p}
       /\ left' = [left EXCEPT ![t] = @ \ {p}]
       /\ UNCHANGED <<pcb, heap, pagedir, refs, file_name, local, abandoned>>
  \/ /\ left[t] = {}
     /\ Step(t, "destroy", "exit_unset_pcb")
     /\ inUse' = inUse \ {local[t]}
     /\ local' = [local EXCEPT ![t] = NULL]
     /\ UNCHANGED <<pcb, heap, pagedir, refs, file_name, left, abandoned>>

ExitUnsetPcb(t) ==
  /\ Step(t, "exit_unset_pcb", "exit_free_pcb")
  /\ local' = [local EXCEPT ![t] = pcb[t]]
  /\ pcb' = UnsetPcb(t)
  /\ UNCHANGED <<heap, pagedir, inUse, refs, file_name, left, abandoned>>

\* sema_up(&temporary), and the thread is gone.
SemaUp(t) ==
  /\ At(t, "up")
  /\ temporary' = temporary + 1
  /\ pc' = [pc EXCEPT ![t] = "thread_exit", ![main] = IF @ = "asleep" THEN "wait" ELSE @]
  /\ SameCpu
  /\ UNCHANGED <<memVars, started>>

thread_exit(t) ==
  /\ At(t, "thread_exit")
  /\ Goto(t, "none")
  /\ \E u \in Thread : SwitchTo(u)
  /\ UNCHANGED <<memVars, temporary, started>>

Init == userprog_init

MainStep == sema_init \/ CopyName \/ CreateThread \/ process_wait

start_process(t) ==
  \/ MallocPcb(t) \/ InitPcb(t) \/ SetPcb(t)
  \/ pagedir_create(t) \/ Activate(t) \/ OpenFile(t) \/ load_segment(t) \/ setup_stack(t)
  \/ ForgetPcb(t) \/ FreePcb(t, "free_pcb", "free_name_failed") \/ FreeName(t)

process_exit(t) ==
  \/ GetPagedir(t) \/ ClearPagedir(t) \/ Deactivate(t) \/ pagedir_destroy(t)
  \/ ExitUnsetPcb(t) \/ FreePcb(t, "exit_free_pcb", "up")
  \/ SemaUp(t) \/ thread_exit(t)

Next ==
  \/ MainStep
  \/ \E t \in Child : start_process(t) \/ LeaveUser(t) \/ process_exit(t)
  \/ \E t \in Thread : Preempt(t)

Spec == Init /\ [][Next]_vars

\* The scheduler is fair (EveryReadyThreadRuns of Threads), and a thread that
\* gets the CPU again and again gets on with its kernel code.  User code need
\* never exit.  A load() ends: memory, like the file, has finitely many pages.
Fairness ==
  /\ \A t \in Thread : WF_vars(Preempt(t))
  /\ SF_vars(MainStep)
  /\ \A t \in Child : SF_vars(start_process(t)) /\ SF_vars(process_exit(t))

FairSpec == Spec /\ Fairness
-----------------------------------------------------------------------------
\* Every variable has the type of the C object it stands for.
TypeOK ==
  /\ pc \in [Thread -> Pc]
  /\ cur \in Thread
  /\ cr3 \in Page \union {init_page_dir}
  /\ esp0 \in Thread
  /\ pcb \in [Thread -> Block \union {NULL}]
  /\ heap \subseteq Block
  /\ pagedir \in [Block -> Page \union {NULL, JUNK}]
  /\ inUse \subseteq Page
  /\ refs \in [Page -> SUBSET Page]
  /\ file_name \in [Thread -> Page \union {NULL}]
  /\ local \in [Thread -> Block \union Page \union {NULL}]
  /\ left \in [Thread -> SUBSET Page]
  /\ temporary \in 0 .. 1
  /\ started \in BOOLEAN
  /\ abandoned \subseteq inUse

\* process.c on "unfortunately timed" timer interrupts: whichever thread a
\* switch activates, at any moment, its PCB is allocated and the directory
\* in it is either NULL or a directory none of whose pages has been freed.
SwitchReadsLiveMemory ==
  \A t \in Thread : pcb[t] # NULL =>
    /\ pcb[t] \in heap
    /\ LET pd == pagedir[pcb[t]]
       IN  pd # NULL => pd \in inUse /\ refs[pd] \subseteq inUse

\* process_exit() on its ordering: the active directory is never one that
\* has been freed, nor one with a freed page in it, nor another thread's.
ActiveDirectoryIsOwn ==
  cr3 # init_page_dir =>
    /\ cr3 \in inUse /\ refs[cr3] \subseteq inUse
    /\ \A t \in Thread \ {cur} : pcb[t] # NULL => pagedir[pcb[t]] # cr3
    /\ \A t \in Thread \ {cur} : local[t] # cr3

\* User code runs only in its own, populated address space, and enters the
\* kernel on its own stack, whatever it was preempted by.
UserRunsInItsSpace ==
  pc[cur] = "user" =>
    /\ pcb[cur] # NULL
    /\ cr3 = pagedir[pcb[cur]]
    /\ refs[cr3] # {}
    /\ esp0 = cur

\* Whatever is activated, deactivated and preempted when: the active directory
\* is live and no other thread's, and user code finds its own.
AddressSpaceIsOwn == ActiveDirectoryIsOwn /\ UserRunsInItsSpace

\* When process_wait() returns, the process is gone: nothing of it is left
\* but a thread on its way out, only what failed loads abandon is lost, and
\* no unit is left over that the next process_wait() could take.
WaitReturnsAfterReclaim ==
  pc[main] = "run_task" =>
    /\ temporary = 0
    /\ \A t \in Child : pc[t] \in {"none", "thread_exit"}
    /\ heap = {pcb[main]}
    /\ inUse = abandoned

\* A process that is started enters user mode or is reported to main, and
\* one that leaves user mode is reported.
EndIsReported ==
  \A t \in Child :
    /\ pc[t] = "malloc" ~> (pc[t] = "user" \/ pc[main] = "run_task")
    /\ pc[t] = "get_pd" ~> pc[main] = "run_task"
=============================================================================
