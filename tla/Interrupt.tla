----------------------------- MODULE Interrupt ------------------------------
(***************************************************************************)
(* Interrupts, threads/interrupt.c and userprog/exception.c: the CPU's     *)
(* interrupt flag, gates, frames on the stacks of the threads, the two     *)
(* interrupt controllers and the levels that kernel code sets and          *)
(* restores.  Which thread runs next is a choice here; Threads has the     *)
(* scheduler.  The CPU and the controllers are external.                   *)
(***************************************************************************)
EXTENDS Integers, Sequences, SequencesExt

CONSTANTS
  Thread,          \* the threads of processes; one that stays in a system call
                   \* is to this code what a kernel thread is
  Line,            \* the lines that devices raise, of 0 .. 15
  MaxSections,     \* bound on nested sections with interrupts off
  NULL

VARIABLES
  cur,               \* the thread that has the CPU
  flag,              \* the CPU's interrupt flag
  stack,             \* what each thread is in, innermost last
  in_external_intr, yield_on_return,
  raised,            \* lines that wait for the CPU
  isr0, isr1,        \* lines in service, of the master and the slave
  cr2                \* address of the last page fault: the thread whose it is

vars == <<cur, flag, stack, in_external_intr, yield_on_return, raised, isr0, isr1, cr2>>
picVars == <<raised, isr0, isr1>>
extVars == <<in_external_intr, yield_on_return>>

\* Vectors: external ones are 0x20 to 0x2f.
Vector(line) == 32 + line
PageFault == 14
Protection == 13      \* stands for all exceptions that kill() handles
SystemCall == 48
external(vec_no) == vec_no >= 32 /\ vec_no < 48

\* register_handler() for the vectors that threads cause themselves; devices
\* use intr_register_ext(), and intr_init() has made interrupt gates of all.
RegisteredOn == {Protection, SystemCall}
LevelAtEntry(vec_no) == IF vec_no \in RegisteredOn THEN flag ELSE "INTR_OFF"

\* What a thread can be in: user code, a section with interrupts off that
\* will restore old, or the handling of an interrupt, with the flag that the CPU
\* saved.
UserCode == [kind |-> "user"]
Section(old) == [kind |-> "section", old |-> old]
Frame(vec_no) ==
  [kind |-> "frame", vec_no |-> vec_no, eflags |-> flag, pc |-> "enter", fault_addr |-> NULL]

Top == Last(stack[cur])
Push(item) == [stack EXCEPT ![cur] = Append(@, item)]
Pop == [stack EXCEPT ![cur] = Front(@)]
AtPc(vec_no, p) == Top.kind = "frame" /\ Top.vec_no = vec_no /\ Top.pc = p
GoTo(p) == [stack EXCEPT ![cur] = Append(Front(@), [Last(@) EXCEPT !.pc = p])]
Sections(t) == Len(SelectSeq(stack[t], LAMBDA x : x.kind = "section"))

\* A thread that has not run yet will return from schedule() and then enable
\* interrupts, as kernel_thread() and the frame of start_process() do.
Created == <<UserCode, Section("INTR_ON")>>

\* thread_start() has been called and a process runs.
Init ==
  /\ cur \in Thread
  /\ flag = "INTR_ON"
  /\ stack = [t \in Thread |-> IF t = cur THEN <<UserCode>> ELSE Created]
  /\ in_external_intr = FALSE /\ yield_on_return = FALSE
  /\ raised = {} /\ isr0 = {} /\ isr1 = {}
  /\ cr2 = NULL
-----------------------------------------------------------------------------
(***************************************************************************)
(* The controllers.  A line waits while one of the same or a higher        *)
(* priority is in service; the slave is on line 2 of the master.           *)
(***************************************************************************)
Raise(line) ==
  /\ line \notin raised
  /\ raised' = raised \union {line}
  /\ UNCHANGED <<cur, flag, stack, extVars, isr0, isr1, cr2>>

Priority(line) == IF line < 8 THEN 10 * line ELSE 20 + line - 8
Master(line) == IF line < 8 THEN line ELSE 2
Free(line) ==
  /\ \A s \in isr0 : s > Master(line)
  /\ line >= 8 => \A s \in isr1 : s > line

Accept(line) ==
  /\ flag = "INTR_ON"
  /\ flag' = LevelAtEntry(Vector(line))
  /\ stack' = Push(Frame(Vector(line)))
  /\ isr0' = isr0 \union {Master(line)}
  /\ UNCHANGED <<cur, extVars, cr2>>

Deliver(line) ==
  /\ line \in raised /\ Free(line)
  /\ \A l \in raised : Free(l) => Priority(line) <= Priority(l)
  /\ Accept(line)
  /\ raised' = raised \ {line}
  /\ isr1' = IF line >= 8 THEN isr1 \union {line} ELSE isr1

\* A line that went away before the CPU asked for it: the controller answers
\* with its last line, and does not mark that line as in service.
SpuriousMaster ==
  /\ flag = "INTR_ON"
  /\ flag' = LevelAtEntry(Vector(7))
  /\ stack' = Push(Frame(Vector(7)))
  /\ UNCHANGED <<cur, extVars, picVars, cr2>>
SpuriousSlave == Free(15) /\ Accept(15) /\ UNCHANGED <<raised, isr1>>

\* The end-of-interrupt command clears the line of the highest priority.
Acknowledged(isr) == {s \in isr : \E r \in isr : r < s}

\* Mutant: the slave is not told.
MasterOnly(vec_no) == isr0' = Acknowledged(isr0) /\ isr1' = isr1

pic_end_of_interrupt(vec_no) ==
  /\ isr0' = Acknowledged(isr0)
  /\ isr1' = IF vec_no >= 40 THEN Acknowledged(isr1) ELSE isr1
-----------------------------------------------------------------------------
(***************************************************************************)
(* intr_handler().                                                         *)
(***************************************************************************)
EnterHandler ==
  /\ Top.kind = "frame" /\ Top.pc = "enter"
  /\ stack' = GoTo("handler")
  /\ IF external(Top.vec_no)
     THEN in_external_intr' = TRUE /\ yield_on_return' = FALSE
     ELSE UNCHANGED extVars
  /\ UNCHANGED <<cur, flag, picVars, cr2>>

\* A device's handler, or none for a spurious vector.  Only the timer's calls
\* intr_yield_on_return(), at the end of a time slice.  What a handler does with
\* interrupts off is a section.
DeviceHandler ==
  /\ Top.kind = "frame" /\ Top.pc = "handler" /\ external(Top.vec_no)
  /\ stack' = GoTo("leave")
  /\ \/ UNCHANGED yield_on_return
     \/ Top.vec_no = Vector(0) /\ yield_on_return' = TRUE
  /\ UNCHANGED <<cur, flag, in_external_intr, picVars, cr2>>

\* After it a switch may follow, the return from the interrupt comes later.
LeaveHandler ==
  /\ Top.kind = "frame" /\ Top.pc = "leave"
  /\ IF external(Top.vec_no)
     THEN /\ in_external_intr' = FALSE
          /\ pic_end_of_interrupt(Top.vec_no)
          /\ stack' = IF yield_on_return
                      THEN [stack EXCEPT ![cur] = Append(GoTo("iret")[cur], Section(flag))]
                      ELSE GoTo("iret")
     ELSE stack' = GoTo("iret") /\ UNCHANGED <<in_external_intr, isr0, isr1>>
  /\ UNCHANGED <<cur, flag, yield_on_return, raised, cr2>>

intr_exit ==
  /\ Top.kind = "frame" /\ Top.pc = "iret"
  /\ flag' = Top.eflags
  /\ stack' = Pop
  /\ UNCHANGED <<cur, extVars, picVars, cr2>>
-----------------------------------------------------------------------------
(***************************************************************************)
(* What threads cause: system calls and exceptions of user code.           *)
(***************************************************************************)
Trap(vec_no) ==
  /\ Top.kind = "user"
  /\ flag' = LevelAtEntry(vec_no)
  /\ stack' = Push(Frame(vec_no))
  /\ UNCHANGED <<cur, extVars, picVars, cr2>>

Fault ==
  /\ Top.kind = "user"
  /\ cr2' = cur
  /\ flag' = LevelAtEntry(PageFault)
  /\ stack' = Push(Frame(PageFault))
  /\ UNCHANGED <<cur, extVars, picVars>>

\* syscall_handler() has no steps of its own besides its sections.
SystemCallDone ==
  /\ AtPc(SystemCall, "handler")
  /\ stack' = GoTo("leave")
  /\ UNCHANGED <<cur, flag, extVars, picVars, cr2>>

\* page_fault() up to its intr_enable(): the address is read, then other
\* threads may run, and fault.
page_fault ==
  /\ AtPc(PageFault, "handler")
  /\ stack' = [stack EXCEPT ![cur] =
                 Append(Front(@), [Last(@) EXCEPT !.fault_addr = cr2, !.pc = "enable"])]
  /\ UNCHANGED <<cur, flag, extVars, picVars, cr2>>
FaultEnable ==
  /\ AtPc(PageFault, "enable")
  /\ flag' = "INTR_ON"
  /\ stack' = GoTo("kill")
  /\ UNCHANGED <<cur, extVars, picVars, cr2>>

\* kill() of a user process: process_exit() ends in thread_exit(), which turns
\* interrupts off for good and switches.  Another process takes its place.
kill ==
  /\ AtPc(PageFault, "kill") \/ AtPc(Protection, "handler")
  /\ flag' = "INTR_OFF"
  /\ \E t \in Thread \ {cur} : cur' = t
  /\ stack' = [stack EXCEPT ![cur] = Created]
  /\ UNCHANGED <<extVars, picVars, cr2>>
-----------------------------------------------------------------------------
(***************************************************************************)
(* Kernel code: intr_disable() and intr_set_level(), thread_yield() and    *)
(* thread_block(), in threads and in handlers that may call them.          *)
(***************************************************************************)
InKernel ==
  \/ Top.kind = "section"
  \/ Top.kind = "frame" /\ Top.pc = "handler" /\ Top.vec_no # PageFault
  \/ AtPc(PageFault, "kill")

intr_disable ==
  /\ InKernel /\ Sections(cur) < MaxSections
  /\ flag' = "INTR_OFF"
  /\ stack' = Push(Section(flag))
  /\ UNCHANGED <<cur, extVars, picVars, cr2>>

intr_set_level(old) == old

EndSection ==
  /\ Top.kind = "section"
  /\ flag' = intr_set_level(Top.old)
  /\ stack' = Pop
  /\ UNCHANGED <<cur, extVars, picVars, cr2>>

\* thread_yield() and thread_block() may not be called in an interrupt context.
MaySwitch == ~ in_external_intr /\ Top.kind = "section"

schedule(t) ==
  /\ MaySwitch
  /\ t # cur
  /\ cur' = t
  /\ UNCHANGED <<flag, stack, extVars, picVars, cr2>>

Next ==
  \/ \E l \in Line : Raise(l) \/ Deliver(l)
  \/ SpuriousMaster \/ SpuriousSlave
  \/ EnterHandler \/ DeviceHandler \/ LeaveHandler \/ intr_exit
  \/ \E v \in RegisteredOn : Trap(v)
  \/ Fault \/ SystemCallDone \/ page_fault \/ FaultEnable \/ kill
  \/ intr_disable \/ EndSection
  \/ \E t \in Thread : schedule(t)

Spec == Init /\ [][Next]_vars
-----------------------------------------------------------------------------
\* The ASSERTs of intr_handler() and intr_enable().
AssertionsHold ==
  /\ Top.kind = "frame" /\ external(Top.vec_no) /\ Top.pc = "enter" =>
       flag = "INTR_OFF" /\ ~ in_external_intr
  /\ Top.kind = "frame" /\ external(Top.vec_no) /\ Top.pc = "leave" =>
       flag = "INTR_OFF" /\ in_external_intr
  /\ (Top.kind = "section" /\ Top.old = "INTR_ON") \/ AtPc(PageFault, "enable") =>
       ~ in_external_intr

\* Whoever can be interrupted can be interrupted by every line: each line that
\* was delivered has been acknowledged, at the controller it came from, before
\* any thread runs with interrupts on, also if the handler made it yield.
NoLineIsBlocked == flag = "INTR_ON" => isr0 = {} /\ isr1 = {} /\ ~ in_external_intr

\* No interrupt comes into a section with interrupts off, and threads that were
\* switched from keep theirs: user code always runs with interrupts on.
SectionsAreAtomic ==
  /\ \A t \in Thread : \A i \in 1 .. Len(stack[t]) - 1 :
       stack[t][i].kind = "section" => stack[t][i + 1].kind = "section"
  /\ Top.kind = "section" => flag = "INTR_OFF"
  /\ Top.kind = "user" => flag = "INTR_ON"

\* page_fault() gets the address of its own thread's fault.
FaultsKeepTheirAddress ==
  \A t \in Thread : \A i \in DOMAIN stack[t] :
    stack[t][i].kind = "frame" => stack[t][i].fault_addr \in {NULL, t}

\* Interrupts as a whole: they do not nest, do not get lost in the controllers
\* and come back to what they interrupted.
InterruptsAreSafe ==
  AssertionsHold /\ NoLineIsBlocked /\ SectionsAreAtomic /\ FaultsKeepTheirAddress
=============================================================================
