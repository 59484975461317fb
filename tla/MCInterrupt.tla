---------------------------- MODULE MCInterrupt -----------------------------
(***************************************************************************)
(* Interrupts of processes that make system calls and fault, and what they *)
(* and the handlers print: a behaviour is one of the CPU, or one of the    *)
(* console.  The names differ from those of Threads, so that the proofs    *)
(* about threads, interrupts and the console are in one module.            *)
(***************************************************************************)
EXTENDS Integers, Sequences

CONSTANTS
  Process, Line, MaxSections, NOBODY,                       \* see Interrupt
  Main, HANDLER, Text, PanicText, MaxCalls, MaxNested       \* see Console

\* The two controllers have eight lines each.
ASSUME InterruptAssumption == Line \subseteq 0 .. 15

\* The thread that boots is one of the threads, and messages are strings.
ASSUME ConsoleAssumption ==
  /\ Main \in Process
  /\ HANDLER \notin Process
  /\ NOBODY \notin Process \union {HANDLER}
  /\ Text \subseteq Seq(STRING)
  /\ PanicText \in Seq(STRING) \X Seq(STRING)

VARIABLES
  part,   \* "cpu" or "console"
  intr_cur, flag, stack, in_external_intr, yield_on_return, raised, isr0, isr1, cr2,
  use_console_lock, holder, console_lock_depth, calls, started, level, panicked,
  wire, shown

cpuVars == <<intr_cur, flag, stack, in_external_intr, yield_on_return, raised, isr0, isr1, cr2>>
consoleVars == <<use_console_lock, holder, console_lock_depth, calls, started, level,
                 panicked, wire, shown>>

Cpu == INSTANCE Interrupt WITH Thread <- Process, NULL <- NOBODY, cur <- intr_cur

Terminal == INSTANCE Console WITH Thread <- Process, NULL <- NOBODY, INTR <- HANDLER

\* A thread prints what beeps and something after it; a panic prints more.
BellText == {<<"bell", "x">>}
TwoPanics == <<<<"p">>, <<"r">>>>

MCInit ==
  /\ part \in {"cpu", "console"}
  /\ Cpu!Init /\ (part = "console" => intr_cur = Main)
  /\ Terminal!Init

MCNext ==
  /\ UNCHANGED part
  /\ \/ part = "cpu" /\ Cpu!Next /\ UNCHANGED consoleVars
     \/ part = "console" /\ Terminal!Next /\ UNCHANGED cpuVars

MCSpec == MCInit /\ [][MCNext]_<<part, cpuVars, consoleVars>>

\* Interrupts do not nest, are acknowledged and come back where they should.
InterruptsAreSafe == Cpu!InterruptsAreSafe

\* Messages stay whole, the lock is balanced and a panic is seen.
ConsoleIsWhole == Terminal!ConsoleIsWhole
=============================================================================
