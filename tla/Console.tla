------------------------------ MODULE Console -------------------------------
(***************************************************************************)
(* The console: lib/kernel/console.c with its lock, which one thread can   *)
(* take again while it holds it, and debug_panic() of lib/kernel/debug.c.  *)
(* Threads print, interrupt handlers print without the lock, and a thread  *)
(* that is printing can be made to print something else, by a page fault   *)
(* for one.  The serial port and the display each take one character with  *)
(* interrupts off; what they do with it is in Serial and Vga.  Statistics  *)
(* are left out.                                                           *)
(***************************************************************************)
EXTENDS Integers, Sequences, SequencesExt

CONSTANTS
  Thread, Main,      \* the threads, and the one that boots
  INTR,              \* the external interrupt handler
  NULL,
  Text,              \* what one call may print
  PanicText,         \* what debug_panic() prints, by panic level
  MaxCalls,          \* bound on the calls of one boot
  MaxNested          \* bound on the calls a thread is in

Context == Thread \union {INTR}

VARIABLES
  use_console_lock,
  holder,              \* the thread that has console_lock
  console_lock_depth,
  calls,               \* the calls each context is in, innermost last
  started,             \* number of calls so far
  level,               \* of panic
  panicked,            \* the context that called debug_panic()
  wire, shown          \* characters given to the serial port and to the display

lockVars == <<use_console_lock, holder, console_lock_depth>>
panicVars == <<level, panicked>>
vars == <<lockVars, calls, started, panicVars, wire, shown>>
-----------------------------------------------------------------------------
\* Interrupts are off and there is one thread.
Init ==
  /\ use_console_lock = FALSE
  /\ holder = NULL
  /\ console_lock_depth = 0
  /\ calls = [c \in Context |-> <<>>]
  /\ started = 0
  /\ level = 0 /\ panicked = NULL
  /\ wire = <<>> /\ shown = <<>>

EarlyBoot == ~ use_console_lock /\ level = 0

console_init ==
  /\ EarlyBoot
  /\ calls[Main] = <<>>
  /\ use_console_lock' = TRUE
  /\ UNCHANGED <<holder, console_lock_depth, calls, started, panicVars, wire, shown>>

\* Who may take a step: alone the thread that boots, a context that has
\* panicked, or an interrupt handler that has begun; otherwise anyone.
MayRun(c) ==
  IF panicked # NULL THEN c = panicked
  ELSE IF EarlyBoot THEN c = Main
  ELSE IF calls[INTR] # <<>> THEN c = INTR
  ELSE TRUE

Busy(c) == calls[c] # <<>>
Current(c) == Last(calls[c])
Update(c, call) == [calls EXCEPT ![c] = Append(Front(@), call)]
Enter(c, text) ==
  [calls EXCEPT ![c] = Append(@, [id |-> started + 1, todo |-> text, at |-> "acquire"])]

\* vprintf(), puts(), putbuf() or putchar() is called: by anyone, or by a thread
\* that is in one already.
StartPrinting(c) ==
  /\ MayRun(c) /\ panicked = NULL
  /\ started < MaxCalls
  /\ Len(calls[c]) < IF c = INTR THEN 1 ELSE MaxNested
  /\ \E text \in Text : calls' = Enter(c, text)
  /\ started' = started + 1
  /\ UNCHANGED <<lockVars, panicVars, wire, shown>>

\* Whether acquire_console() and release_console() concern the lock.
Locks(c) == c # INTR /\ use_console_lock

\* Mutant: a thread that holds the lock takes it again and does not count.
TakenAnew(c) == holder \in {NULL, c} /\ holder' = c /\ UNCHANGED console_lock_depth

\* acquire_console(), with lock_held_by_current_thread() and lock_acquire().
Take(c) ==
  IF holder = c THEN console_lock_depth' = console_lock_depth + 1 /\ UNCHANGED holder
  ELSE holder = NULL /\ holder' = c /\ UNCHANGED console_lock_depth

acquire_console(c) ==
  /\ MayRun(c) /\ Busy(c) /\ Current(c).at = "acquire"
  /\ IF Locks(c) THEN Take(c) ELSE UNCHANGED <<holder, console_lock_depth>>
  /\ calls' = Update(c, [Current(c) EXCEPT !.at = "serial"])
  /\ UNCHANGED <<use_console_lock, started, panicVars, wire, shown>>

Char(c) == [by |-> c, call |-> Current(c).id, char |-> Head(Current(c).todo)]

\* putchar_have_lock(): the serial port's character, then the display's.
SerialPutc(c) ==
  /\ MayRun(c) /\ Busy(c) /\ Current(c).at = "serial" /\ Current(c).todo # <<>>
  /\ wire' = Append(wire, Char(c))
  /\ calls' = Update(c, [Current(c) EXCEPT !.at = "vga"])
  /\ UNCHANGED <<lockVars, started, panicVars, shown>>

\* speaker_beep() sleeps if interrupts are on.
Beeps(c) == Head(Current(c).todo) = "bell" /\ c # INTR /\ panicked = NULL /\ use_console_lock

VgaPutc(c) ==
  /\ MayRun(c) /\ Busy(c) /\ Current(c).at = "vga"
  /\ shown' = Append(shown, Char(c))
  /\ calls' = Update(c, [Current(c) EXCEPT !.todo = Tail(@),
                                           !.at = IF Beeps(c) THEN "beep" ELSE "serial"])
  /\ UNCHANGED <<lockVars, started, panicVars, wire>>

EndBeep(c) ==
  /\ MayRun(c) /\ Busy(c) /\ Current(c).at = "beep"
  /\ calls' = Update(c, [Current(c) EXCEPT !.at = "serial"])
  /\ UNCHANGED <<lockVars, started, panicVars, wire, shown>>

\* The outermost call gives the lock back.
GiveBack ==
  IF console_lock_depth > 0
  THEN console_lock_depth' = console_lock_depth - 1 /\ UNCHANGED holder
  ELSE holder' = NULL /\ UNCHANGED console_lock_depth

release_console(c) ==
  /\ MayRun(c) /\ Busy(c) /\ Current(c).at = "serial" /\ Current(c).todo = <<>>
  /\ panicked = NULL
  /\ IF Locks(c) THEN GiveBack ELSE UNCHANGED <<holder, console_lock_depth>>
  /\ calls' = [calls EXCEPT ![c] = Front(@)]
  /\ UNCHANGED <<use_console_lock, started, panicVars, wire, shown>>
-----------------------------------------------------------------------------
console_panic == use_console_lock' = FALSE

\* debug_panic(), also while it prints: the first message, the second, none.
debug_panic(c) ==
  /\ MayRun(c) /\ level < 3
  /\ level > 0 => Current(c).todo # <<>>
  /\ console_panic
  /\ level' = level + 1
  /\ panicked' = c
  /\ calls' = Enter(c, IF level' > 2 THEN <<>> ELSE PanicText[level'])
  /\ started' = started + 1
  /\ UNCHANGED <<holder, console_lock_depth, wire, shown>>

\* The message is out; debug_panic() shuts down and never returns.
Halted ==
  panicked # NULL /\ Current(panicked).at = "serial" /\ Current(panicked).todo = <<>>

Done == started = MaxCalls /\ \A c \in Context : ~ Busy(c)

\* The machine starts again.
Reboot ==
  /\ Halted \/ Done
  /\ use_console_lock' = FALSE
  /\ holder' = NULL
  /\ console_lock_depth' = 0
  /\ calls' = [c \in Context |-> <<>>]
  /\ started' = 0
  /\ level' = 0 /\ panicked' = NULL
  /\ wire' = <<>> /\ shown' = <<>>

Next ==
  \/ console_init \/ Reboot
  \/ \E c \in Context :
       \/ StartPrinting(c) \/ acquire_console(c) \/ SerialPutc(c) \/ VgaPutc(c) \/ EndBeep(c)
       \/ release_console(c) \/ debug_panic(c)

Spec == Init /\ [][Next]_vars
-----------------------------------------------------------------------------
\* What a call prints is in one piece on the serial line and on the display:
\* only the same thread's nested calls and interrupt handlers come between.
InOnePiece(s) ==
  \A i \in DOMAIN s : \A k \in i + 1 .. Len(s) :
    s[k].by \notin {s[i].by, INTR} => \A j \in k + 1 .. Len(s) : s[j].call # s[i].call

\* The lock's depth is the number of calls the holder made inside its first,
\* so that the outermost release_console() is the one that releases.
DepthIsExact ==
  use_console_lock =>
    \A t \in Thread :
      LET inside == {i \in DOMAIN calls[t] : calls[t][i].at # "acquire"}
      IN IF holder = t THEN inside # {} /\ console_lock_depth = Cardinality(inside) - 1
         ELSE inside = {} /\ (holder = NULL => console_lock_depth = 0)

\* The message of a panic gets out to both devices, last and in one piece,
\* whoever has the console's lock.
PanicGetsOut ==
  Halted /\ level = 1 =>
    \A s \in {wire, shown} :
      LET n == Len(PanicText[1])
      IN /\ Len(s) >= n
         /\ \A i \in 1 .. n : s[Len(s) - n + i] =
              [by |-> panicked, call |-> started, char |-> PanicText[1][i]]

\* The console as a whole: messages stay in one piece, the recursive lock is
\* balanced and a panic is always seen.
ConsoleIsWhole ==
  /\ InOnePiece(wire) /\ InOnePiece(shown)
  /\ DepthIsExact
  /\ PanicGetsOut
=============================================================================
