# A verification project for the CS162 repository

The repository holds one large program, the Pintos kernel under
`src/group0/src/`, and some small ones: a shell (`src/hw-shell`), word counters
(`src/hw-list`) and exercises (`src/hw0`). Pintos is a preemptive single-CPU
kernel. Its core is the part that is hard to test: threads, locks, memory, address
spaces, drivers and a disk, all of which an interrupt, a switch or a power failure
can cut in two anywhere. Around it is a library whose functions are sequential
and right except at their limits. This directory models both in TLA+, checks them
with TLC on small instances and proves the most important parts with TLAPS for
every instance. Paths below are relative to `src/group0/src/` unless they begin
with `src/`.

`PROJECT.json` lists the components, runs, mutants, the source lines of each
definition, findings, hazards and theorems.

## 1. Inventory

| Component | State | Operations | Hard because |
|---|---|---|---|
| Scheduler (`threads/thread.c`) | run queue, `all_list`, status of each thread, `idle_thread`, ticks of the slice | create, block, unblock, yield, exit, switch and its tail, tick | a dead thread's page is freed by its successor; one `elem` links a thread into two kinds of list; preemption wherever interrupts are on |
| Interrupts (`threads/interrupt.c`, `intr-stubs.S`, `userprog/exception.c`) | interrupt flag, gates, frames on the stacks, `in_external_intr`, `yield_on_return`, lines in service | enter, handle, acknowledge, yield, return; disable and restore; fault | a handler ends in a switch, on the stack of the thread it interrupted; the fault address is in one register |
| Semaphores (`threads/synch.c`) | value, waiters | down, try_down, up (also from handlers) | a woken waiter can be overtaken |
| Locks (`threads/synch.c`), thread ids (`thread.c`) | holder, semaphore; `next_tid` | acquire, try_acquire, release; `allocate_tid` | `holder` is written outside the sections with interrupts off |
| Condition variables, readers-writers lock (`threads/synch.c`) | AR, WR, AW, WW, two waiters lists | acquire and release, as reader or writer | signals to threads that have been overtaken, counts taken back late |
| Page allocator (`threads/palloc.c`, `lib/kernel/bitmap.c`) | bitmap and lock of a pool | get and free groups of pages | freeing takes no lock |
| Kernel heap (`threads/malloc.c`) | descriptors, arenas, free lists | malloc, free | arenas given back while blocks are taken |
| Processes (`userprog/process.c`, `syscall.c`, `exception.c`, `tss.c`) | PCB, `temporary` semaphore, active page directory | execute, wait, start, load, exit, activate | every switch reads the PCB and the page directory of the thread it switches to; load fails anywhere |
| Page directories (`userprog/pagedir.c`) | directory, tables, pages | create, map, activate, destroy | must not be destroyed while active |
| Input and serial port (`devices/intq.c`, `input.c`, `serial.c`, `kbd.c`) | two ring buffers, mode, interrupt enable register, shift keys | getc, putc, flush, notify, the handlers | threads, handlers and callers with interrupts off share the queues |
| Disk driver (`devices/ide.c`) | lock, `expecting_interrupt`, `completion_wait` of a channel | read, write, handler | completions must find their own command |
| File system (`filesys/*.c`) | sectors on disk, free map, open inodes, open files | create, open, reopen, remove, close, read, write, seek, deny and allow writes | several sector writes per call, removal of open files |
| Block layer, partitions, probing (`devices/block.c`, `partition.c`, `ide.c`, `threads/init.c`) | list of blocks, roles, registers of the devices | reset, identify, scan, locate, read and write through a role | what is plugged in, and what its tables say, is only known at boot |
| Boot actions, file system utilities (`threads/init.c`, `filesys/fsutil.c`) | options, two positions on the scratch device | ls, cat, rm, extract, append | an archive is read, erased and written sector by sector |
| Console and panics (`lib/kernel/console.c`, `debug.c`, `devices/vga.c`, `speaker.c`) | recursive lock, cursor, panic level | print, beep, panic | printing inside printing, from handlers, and after a panic |
| Timer (`devices/timer.c`) | loops per tick | calibrate, sleep, delay | rounding |
| Lists, hash tables (`lib/kernel/list.c`, `hash.c`) | links; buckets and counts | insert, splice, sort, unique; insert, replace, delete, rehash | links are changed by hand; growth can fail |
| C library (`lib/stdlib.c`, `string.c`, `stdio.c`, `ustar.c`) | none | sort, search, copy, tokenize, format, make and read headers | limits: overlap, truncation, width, overflow |
| Clock, shutdown, segments, loader | registers and processor tables | | |
| User library (`lib/user`) | | wrappers of system calls | |
| Shell (`src/hw-shell`) | tasks, jobs, pipes, the terminal | tokenize, pipelines, redirection, fg, bg | `setpgid` and `tcsetpgrp` in two processes; pipe ends; children that end or stop at any time |
| Word counters (`src/hw-list`) | a list of counts, a mutex | add a word, join, sort, print | all threads use one list |
| Exercises (`src/hw0`) | | | |

**Interaction.** Everything rests on the scheduler: locks and condition variables
are semaphores, semaphores block and unblock threads, and each switch calls
`process_activate()`. The device handlers call `sema_up()` and
`thread_unblock()`; the interrupted thread goes on after them, and yields only
after the timer's, when its slice is over. `process_execute()`
allocates pages, blocks and a thread; `load()` reads the file system, which
reads the disk through the driver. The main thread runs one action of the
command line after the other and waits for each process on `temporary`, or moves
files between the file system and an archive on the scratch device. Every list
in the kernel is one of `list.c`; `malloc()` takes its arenas from `palloc.c`;
`printf()` ends in the console, and the console in the serial port and the display.

**What correctness means.** A ready thread runs, and a sleeping one is found by
who wakes it; no memory is freed under a stack or an active page directory; a
lock excludes; a page or a sector has one owner and is not lost; bytes keep
their order; a completion belongs to its command; a file keeps its bytes,
whatever else happens and wherever the machine stops. A block of a disk stays
inside its partition; a list is the sequence, and a table the set, that its
callers think it is; what was formatted or written to an archive can be read back; the
shell gets its terminal back; no word is counted twice or not at all.

## 2. Modules

| Module | Models | Composes or refines |
|---|---|---|
| `Lists` | a kernel list as a sequence | |
| `Threads` | scheduler, idle thread, semaphores, timer, a device handler | |
| `Lock` | locks and `allocate_tid()` | refines `AtomicTid` |
| `RWLock` | readers-writers lock on condition variables | refines `ReadersWriters` |
| `Palloc` | one page pool, bit by bit | |
| `Heap` | `malloc.c`, byte by byte | on top of a pool as `Palloc` promises it |
| `Process` | processes and address spaces under preemption | takes scheduling from `Threads`, allocation from `Palloc` |
| `Interrupt` | the interrupt flag, frames, controllers, page faults | takes the choice of the next thread from `Threads` |
| `Serial` | interrupt queues, serial port, keyboard, input buffer | |
| `Kbd` | what a key means | gives `Serial` its keys |
| `Ide`, `Probe` | one ATA channel; how disks and partitions are found | composed in `MCDisk`: the threads of `Ide` use the blocks that `Probe` registered |
| `FileSys` | the file system on one device | refines `FileStore` |
| `Fsutil` | the command line of the kernel and its file actions | files as `FileStore` has them, headers as `Ustar` reads them |
| `Console`, `Vga`, `Timer` | printing and panics; the display; delays | |
| `LinkedList`, `SeqLists`, `KernelLists` | `list.c` on links; the same calls on sequences; any sequence of calls on both | `KernelLists` compares the two |
| `HashTable` | `hash.c` | uses `LinkedList` |
| `Stdlib`, `Strings`, `Printf`, `Ustar`, `Tokenizer` | functions, each with a definition of its result | |
| `Shell` | the shell, its children, pipes and terminal | `Tokenizer` is its first stage |
| `Words` | `pwords` | |
| `ThreadsProof`, `SynchProof`, `MemoryProof`, `ProcessProof`, `SerialProof`, `IdeProof`, `FileSysProof`, `ShellProof` | theorems | each extends the module it is named for; `SynchProof` extends `MCSynch`, `MemoryProof` `MCPalloc`, `IdeProof` `MCDisk`, and `ThreadsProof` `Threads` and `MCInterrupt` |
| `MCFileSys`, `MCShell` | instances for TLC | |
| `MCSynch`, `MCInterrupt`, `MCPalloc`, `MCDisk`, `MCLibrary` | two or more modules in one instance: a behaviour is one of its parts | `Lock` and `RWLock`; `Interrupt` and `Console`; `Palloc` and `Heap`; `Probe`, then `Ide`; the modules of the library, and `MCInterrupt` |

Definitions have the names of the functions they model, and the variables those
of the C objects. Some conventions hold throughout.

* **Grain.** Code that runs with interrupts off is one step. Elsewhere a step is
  one access to shared state: a field, a bit of the bitmap, a sector.
  `schedule()` is cut at `switch_threads()`, because the second half runs on
  another stack.
* **Program counters.** `pc[t]` is the place in the functions of the module where
  thread `t` is. "Outside" (`"run"`, `"idle"`, `"out"`) stands for all other code.
* **Mutants.** A definition marked as a mutant is a wrong version of the one that
  follows it: the bug that a property is there to catch. It is not part of the
  specification.
* **Types.** Each module's `TypeOK` says which values its variables take. It is a
  property of a run where it also bounds something (ticks in `Threads`, indices in
  `Palloc`) and part of the inductive invariant where there are proofs.
* **History variables** (`snap`, `abandoned`, `lost`, `written`, `sent`, `keys`)
  are written and never guard a step.

### Threads

The state is that of `thread.c`, with a thread named by its page. `prev` and
`cpu = "switch"` stand for the time between the choice of the next thread and
the end of `thread_switch_tail()`. Interrupts off is part of the step, except
before `thread_start()` and in `idle()`, where `intr_level` is a variable.
`thread_create()` is two steps: the page is set up and linked, and later
`CreateUnblock`. `device_interrupt(s)` is a handler that ups a semaphore;
`thread_tick` is the one that makes the interrupted thread yield, at the end of its
slice. The three other scheduling policies are stubs that panic, and
priorities have no effect in the code.

### Lock

The waiters list is explicit, and any thread that is not on it may take the next
step. `next_tid++` is a read and a write. `lock_try_acquire()` is there too.

### RWLock

A step is what happens between taking and releasing the guard lock, because
`cond_wait()` has queued its semaphore before it releases that lock, and a
semaphore upped early stays upped. A woken thread competes for the guard again
and goes round its loop. It is there that it can be overtaken.

### Palloc

`bitmap_scan()`, the flip and the clearing are bit by bit. Allocation holds the
pool's lock and freeing does not, as `thread_switch_tail()` frees where nobody may
sleep. Each thread owns at most one block at a time: the code keeps no record of
owners, so a thread with two blocks is to it what two threads are.

### Process

One step is one access to what `process_activate()` reads. Preemption between
any two steps loads the directory of the thread that is switched to. Allocation
takes the first free pages and may fail at any time, since other threads use the
pool as well. The contents of an executable are a choice between the outcomes of
the tests in `load()`. A `free()`d or fresh heap block holds `JUNK`.

### Serial

Both queues are ring buffers with indices. Threads sleep in `wait()` or on the
queue's lock. Callers with interrupts off poll out the oldest byte when the
queue is full. The UART is external: it becomes ready and interrupts as `ier`
allows. Bytes are numbered, so that order can be stated.

`Kbd` is the rest of the keyboard's handler, an operator on the bytes of one interrupt.
Its reference is a person who holds some keys and presses another.

### Interrupt

Each thread has a stack of what it is in: user code, sections with interrupts off that
remember the level to restore, and interrupt frames that remember the flag. A switch in the
tail of a handler leaves the frame on the stack of the thread it came from. Lines have
the priorities of two cascaded controllers, which keep the lines in service until they are
told; spurious vectors are delivered too. `cr2` holds the thread whose fault was last.

### Ide and Probe

In `Ide` the disk is external: it works on the command it was given, and then
raises the line. Spurious interrupts come while no command is outstanding,
`MaxSpurious` of them. `wait_until_idle()` gives up after 1000 polls and
its caller goes on: `select_sector` may come while the disk is busy, which then
ignores the registers and the command. `wait_while_busy()` that returns false is
`DiskFailed`: the kernel panics with the lock held. `timed_out` remembers that a
wait was given up. `Probe` is what one thread does at boot: reset, type check and
identification of the devices of both channels, the scan of the partition tables
and the choice of a block for each role. What a device answers at each stage, and
what its tables hold, is a constant. A device that interrupts for `IDENTIFY DEVICE`
without data is passed over; one that never interrupts hangs the boot (`Hang`),
since that wait has no limit. Sector numbers keep their width (`WORD`
stands for 2^32). In `MCDisk` a boot is followed by threads that read and write
through the roles.

### Heap

A page is 8 bytes, and the allocator's own data are in them: the header of an
arena, the links of a free block. So an overlap of any two things shows as a
changed byte. Sizes wrap at `SizeMod`, as `size_t` does in `calloc()`. `malloc()` does not
test for a size that wraps once the header is added and the sum is rounded up to pages;
that no caller asks for so much is part of `HeapAssumption`. The steps of a
call are those at which another thread can come between: the taking of the
descriptor's lock, and the calls of the page allocator.

### Shell

Children run from the moment they are forked, each step of
`create_process_and_exec()` beside each step of the shell. Ctrl-C and Ctrl-Z reach
the terminal's foreground group at any time. A program reads its input to the end,
or runs without. `pipe()` and `fork()` can fail: a pipe that was not made leaves the
descriptors of an earlier turn in the array, or none that are open (`PipeCalls`), and
`dup2()` of one that is closed does nothing (`Redirect`). `fg` and `bg` are two or
three steps, since the group can end between the test, `killpg()` and
`tcsetpgrp()`. The descriptors of `<` and `>` are left out, because no property
depends on them.

### Console, Vga, Timer

A context is a thread or an interrupt handler, and a call is a text. Characters go
to the serial port and to the display one by one. The bell makes a thread sleep
with the lock in its hands, which is where others come in. A context can panic at any
place, inside a panic too.

### Fsutil

One step handles one sector of the archive. The power may fail between two; the
positions on the scratch device are forgotten then and the sectors stay.
The contents of headers are records; that they survive the way through text
is the subject of `Ustar`.

### The library modules

Functions without state are operators. `MCLibrary` calls them with all arguments
from small sets, and the invariants compare the result with what a reader expects
of it: a permutation in order, the longest match, the text that the C
standard prescribes for a conversion. `CallPrint` tries every set of flags with
widths and precisions of either sign, for integers and for `%f`. Where the code
departs from the standard, the reference follows the code and its comment says so: the commas
of `'` count as digits of the precision (`DigitsText`), a negative width keeps the flag `0`
(`FieldText`), and `%f` cuts its value, prints one decimal for precision 0 and gives each of its two parts
a field of its own (`DoubleText`). So `AlgorithmsAgree` says what `printf()` prints, and only for the other
conversions that it is what the standard wants. C types have few bits there (`SmallBits`), so
that the ends of their ranges are reached. `KernelLists` and `HashTable` are
state machines: one memory of links, any sequence of legal calls, `free()` that
overwrites what it gets.

### Words

A step of `add_word()` is one access to the list, so the mutex is all that keeps
threads apart. `count_words()` is in an object file and external: it adds each
word of its file once.

### FileSys

One step ends with one sector write. `filesys_init` can happen in every state: the
machine stops, loses its memory and starts from the disk. `op` holds the locals
of the call in progress. The callers take turns, as they do in this kernel,
which has no system calls for files yet. The model allows every sequence of
calls that the headers allow, with several files open at once. A call that fails
before it changed anything is no step. `malloc()` can fail everywhere, except
that a directory scan which stops early in `dir_add()` is governed by
`ShortReads`: its comment says that this cannot happen (section 5).

## 3. Runs

With two workers TLC needs about a minute or less for most of these. Where a run has no deadlock check, the system really may stop: all
bounded work is done (`synch`, `serial`, `disk`, `shell`), the shell was told to
exit, or the main thread waits for a process that was never created (`process`).

| Run | Instance | What it shows |
|---|---|---|
| `threads` | main, idle and two more pages, two semaphores besides `idle_started`, slices of 2 ticks, values up to 2 | The run queue is exactly the ready threads, a sleeper is on the list where its waker looks, and one thread is marked running. A dead thread leaves nothing behind and its page is freed from another stack. No wake-up is lost to overtaking. Every ready thread runs. |
| `synch` | a lock with 4 threads and 4 tids; or a readers-writers lock with 5 threads, each in both roles | Exclusion, and assertions on `holder` that hold, through the windows in which `holder` and the semaphore disagree. Nobody sleeps beside a free lock. `allocate_tid()` is atomic, and each call returns. The readers-writers lock's counters count, and it refines the abstract writer-preferring lock. Some waiting writer gets in although readers keep coming. Readers get in once writers stop. |
| `palloc` | 3 threads, 4 pages, symmetric; or a heap of 2 pages with 2 threads, blocks of 1, 2 and 4 bytes | No page has two owners and the bitmap is exact. Zeroed pages stay zeroed. Allocation fails only if there was no room when the lock was taken. A block keeps its bytes until it is freed. Arenas count their free blocks and go back with the last one in use. |
| `process` | 2 child threads, 6 pages, 2 heap blocks | No switch ever reads freed memory, no directory is destroyed while active, and user code runs in its own. `process_wait()` returns after everything is reclaimed and leaves no unit behind. The end of every process is reported. |
| `serial` | 2 writers, 2 readers, 3 slots, 4 bytes out, 3 keys | Bytes and keys keep their order through full, empty and wrapped queues. Whoever sleeps in a queue is known to it, for a reason, and the interrupt that wakes it is enabled. Each accepted byte is transmitted, and no reader sleeps beside a key. |
| `disk` | 8 machines with present, missing, damaged, hung, mute, dead and huge devices; then 2 threads, 1 spurious interrupt | Exactly the disks and the partitions inside them are registered, each under its name; no block reaches past its disk. Without spurious interrupts no completion is left over that the next command could take, no command fails, and the disk holds what returned writes wrote; with one, reads are right unless a wait was given up. The channel is always released, or the kernel panics. |
| `disk_extended` | one disk with an extended partition | Violation, finding 2. |
| `filesys` | 2 names, 2 handles, 4 free sectors of 2 bytes, files of 1 and 3 bytes, positions in them and behind their end, symmetric | The disk alone is sound in every state. The free map is exact up to the sectors known as lost. Open and denial counts are exact. The whole refines `FileStore`: removed files stay readable, new ones are zeros, writes touch their own bytes only, a crash keeps named files. |
| `filesys_short_reads` | the same, `ShortReads` | Violation, finding 1. |
| `shell` | 3 processes, 2 pipes, lines of every kind | When the prompt is back the shell has the terminal and nobody of the foreground job runs. Unless somebody is stopped the prompt does come back. |
| `library` | 5 elements on 2 lists; a table of 5 elements, 1 to 4 buckets; arrays up to 6, strings up to 4; conversions of 4 to 18 bits; 3 boots; 3 counting threads; up to 4 key events; or 2 processes, lines 0, 7 and 14 of the interrupt controllers, 2 nested sections; or 2 processes and a handler on the console, 3 calls, 2 nested, and panics | Lists are sequences and the table is a set, also when memory runs out. Functions agree with their definitions. Archives, headers and command lines read back. Word counts are exact. Interrupts do not nest, no line stays unacknowledged while interrupts are on, sections with interrupts off are not entered, and a page fault reads its own address. Messages stay in one piece on the serial line and on the display, the console lock's depth is exact, and the first panic is seen on both, whoever has the lock. |
| `library_memmove` | the same | Violation, finding 3. |

**Why the bounds are enough.** The properties are about pairs: two owners of a page,
two threads on a list, a waker and a sleeper, an owner and an overtaker. Each
instance has one actor more than the pair, so a third can interfere: `threads`
has a creator, a child and the idle thread; `synch` an owner, two waiters and an
overtaker of the lock, and two threads of either role and one more for the other; `palloc` a scanner and two
that free. Limits are reached: queues of 3 slots fill, empty and wrap; a pool
of 4 pages and a disk with 4 free sectors run out and fragment. A file of 3 bytes
in sectors of 2 has a whole and a partial sector, and two one-byte files live side by side.
A heap page holds three blocks of one byte or one of two behind its header, or part of a big one.
Line 0 is the timer's, line 14 comes through the second controller, and line 7 is the
first one's spurious vector; two processes are enough for a switch away from a frame and back.
Three calls on the console are a thread's, one nested in it, and another thread's or a handler's that comes between.
Three processes make the longest pipeline in which one has a neighbour on both
sides. Five list elements give runs to merge, equal neighbours and a second list;
a table of five grows twice and shrinks twice. An array of six has a last parent with
one child, a shorter one a last parent with two.
`MaxTid`, `MaxValue`, `MaxTx`, `MaxKey`, `MaxSpurious`, `MaxHeld`, `MaxProc`, `MaxPipe`,
`MaxCalls`, `MaxNested`, `MaxBoots`, `MaxSections`, `MaxEvents` and `MaxDepth` cap counters that the
code leaves unbounded. They are guards on new work only, and nothing that is
under way is stopped by them. In `disk` nothing new is written once a wait for the disk was
given up: the content of the disk is nobody's promise from there on. `Offset` is the set of
positions that `file_seek()` gets; one of them is behind the end of every file.

**Fairness.** `Threads` assumes a ticking timer, a switch that completes and kernel
code that runs to its end unless it waits; from this follows
`EveryReadyThreadRuns`. The other modules assume what it states: a runnable
thread inside the kernel takes its next step. `RWLock` assumes that a holder
releases. `Process` needs strong fairness, since a step of a thread is enabled only
while it has the CPU, and gets it because the scheduler is fair. User code need
never exit. In `Shell` the shell and its children run, programs end, and who reads
from the terminal gets its end of file; nobody has to type. `Ide` and `Serial` also assume that the device answers
and that its interrupts are delivered. No thread is ever obliged to begin a call.

## 4. Proofs

The theorems hold for every value of the constants that satisfies the named `ASSUME`s of
the component modules. Each component has an inductive invariant (`IInv`; `RWIInv`, `PoolIInv` and
`IntrIInv`, `ProbeIInv` where a proof module covers a second one), proved from the initial states
and kept by every step (`Invariance`); the other theorems follow from it. What the
runs check is seldom inductive, so the entries below say what had to be added.

* `SynchProof`, locks: `LockExcludes` (exclusion, and what the assertions on `holder`
  rely on), `NoSleeperBesideFreeLock`, and `TidsAreAtomic`, the refinement of
  `AtomicTid`. The inductive invariant adds to
  the checked ones `ReadIsCurrent`: a thread between the read and the write of
  `next_tid` still has its current value. Exclusion is what keeps this true, and
  it makes the write the atomic step.
* `SynchProof`, readers-writers lock: `CountersAreExact` (the four counters count, and readers and writers exclude
  each other), `NobodyIsForgotten` (whoever sleeps has somebody inside, or somebody already
  woken, who will wake him), and `Refinement`, that the lock implements
  `ReadersWriters`. The invariant adds `ListsExact`, that the lists of the condition
  variables hold exactly the threads that sleep. A broadcast empties a list and moves a
  whole set of threads, so that the counters are compared with sizes of sets.
* `MemoryProof`, page pool: `PoolTypeCorrect`, `PagesAreExclusive` (one owner for each page, and a
  bitmap that agrees), `PagesStayZeroed`, `FailureIsJustified`. The invariant adds `LockDiscipline`
  (who scans or flips has the lock), `Positions` (the ranges of the indices), `SeenIsFree` (what the scan has
  tested stays clear, since only the lock's holder sets bits) and
  `PassedWithReason` (each group passed over had a page that was in use when the
  lock was taken). The lemma `ClaimsChange` reduces all actions to three cases: no
  claim changes, or one thread gains, or loses, one page with its bit.
* `MemoryProof`, heap: `BytesKept` (a block keeps what its owner wrote into it until it is freed, through
  `realloc()` too) and `ArenasExact` (an arena counts its free blocks, and goes back with the last one
  that is in use), for every page size, header, set of block sizes and number of threads. The invariant
  accounts for all memory: a used page is an arena or a page of one big block (`PagesOK`), a block of an
  arena is listed once or taken, and never both (`ListsOK`), and `free_cnt` is the number of its listed blocks
  (`CountOK`). A block on its way back, freed and not yet pushed, is nobody's and is taken all the same
  (`Transit`); without it an arena would be empty while a thread still has a block to push into it.
  `InUse` says that an arena has a block that is taken, except between two steps of the thread that has
  the descriptor's lock (`Passing`). That the bytes of two blocks do not overlap
  is arithmetic, done once (`BlocksApart`, `Apart`): blocks of one arena are multiples of the block's size apart,
  arenas and big blocks have pages of their own.
* `ThreadsProof`: `TypeCorrect`, `ListsAreCorrect` (the run queue, the semaphores'
  lists and the running thread), `OneRunningAlways`, `ExitIsClean`, `FreeIsAlwaysSafe`, `WakeupsAreNotLost`.
  The invariant adds what holds in the middle of
  things: `SwitchState` (nobody is marked running during a switch, and the
  thread switched to is ready and off the queue), `BootState` (before
  `thread_start()` is done), `IdleState` (where the idle thread can be),
  `DeadState` and `CreateState` (a thread in creation is blocked and has one
  creator). Without these a switch could pick a thread that is queued
  elsewhere. `WakeupsAreNotLost` is a second induction on top of it: each step on a semaphore
  changes its value and its set of woken threads together (`CountUp`, `CountTake`, `CountBlock`),
  and every other step changes neither (`CountKept`).
* `ThreadsProof`, interrupts: `InterruptSafety`, for any number of processes and nested sections and any of the
  lines of the two controllers. The checked invariant speaks of the top of the stacks; the inductive
  one of every item: it restores the flag of the item below it, and above one with interrupts off there are
  only sections (`Stacks`). So an external interrupt's frame that is not acknowledged is the last frame of the
  running thread, since a switch happens only in its tail or in a section of its own; the controllers
  have nothing but its line in service (`Acknowledgement`). `Addresses` says that CR2 is the running thread's
  while one of its page faults has not read it.
* `ThreadsProof`, console: `ConsoleStaysWhole`, for any number of threads, messages and nested calls, and panics at
  any place. `InOnePiece` is a property of what was printed; the inductive form is about who may print next
  (`OutputOK`): a character belongs to its call's context, and a call after which another thread has
  printed is over, or its context will not run again because another one has panicked (`CutOff`). It is kept since a thread that prints
  is alone (the lemma `Alone`): the others of its kind are in front of the lock (`DepthOK`: the depth is the number of calls that
  have taken it), or have not begun, before `console_init()` (`EarlyOK`). `PanicOK` says how far the first panic's
  message has come on each device; the serial line is at most one character ahead.
* `ProcessProof`: `SwitchesAreSafe` (what `process_activate()` reads at any switch is live),
  `SpacesAreOwn` (user code runs in its own populated address space) and `WaitIsExact`. Preemption can
  come between any two steps of `start_process()` and `process_exit()`, so the
  invariant says for each place in them what the child has: which pointers are set
  (`Pointers`), which pages and blocks are allocated and for what (`Owns`), and which page directory the
  CPU may have (`Cpu`). It accounts for all of memory, because only then is a
  page that is taken known to be no one's. `Protocol` says that there is at most one child that
  main has not been told of, since main waits on `temporary` before it starts the next.
* `ShellProof`: `PromptIsAlwaysClean`, for any lines, processes and pipes. `Waiting` says that every process of the job
  which the shell has waited for is gone or stopped, and `Quiet` that this stays so, and the terminal
  the shell's, from the prompt to the next wait. What keeps it is that nobody but the shell continues a
  process (`Still`), and that a process id is not given twice (`Types`: a job has ids that were given out).
* `SerialProof`: `TypeCorrect`, `BytesAreInOrder` and `SleepersAreWoken`, for every size of the ring buffers. The module
  first shows that a `struct intq` behaves as a sequence: what it holds is a function of
  `head`, `tail` and the bytes between them, and `intq_putc()` appends to it and
  `intq_getc()` takes its head, when the indices wrap too. Order then is that what was sent, what is
  queued and what has been written form one sequence at each moment. The invariant
  adds who may be recorded as `not_full` or `not_empty`, and when the interrupt enable
  register has which bits.
* `IdeProof`, the channel: `CompletionsAreOwn`. `Commands` says where the disk is for each place
  of the thread with the channel's lock, up to the sector number that the registers hold: the
  lemma `RegistersSelect` takes a number of 28 bits apart into the bytes that `select_sector()` writes, and
  puts it together again. With spurious interrupts a thread can be woken
  before the disk has finished, and then the disk still writes for it when the next thread
  has the lock; `Between` allows for that, and the theorem says that reads are right all the same, until
  a wait for the disk is given up (`Sane` is the part of the invariant that needs it not to be, and
  `Excluded` the part that holds in any case).
  `Completions` adds what holds without spurious interrupts: one completion for each command.
  The assumption on `Sector` is the assertion in `select_sector()` (`devices/ide.c:352`).
  The theorem is about the channel alone. In `MCDisk`, each step of the threads is a step of `Ide` after the boot actions of `Probe`.
* `IdeProof`, the boot: `BlocksExact`, for any devices, partition tables and options, and `RequestsStayInside`, for
  what the threads then do with the blocks. `ProbeIInv` says what holds half way: blocks are registered in the
  order of their names (`SortedBlocks`), which makes the names unique and the first block of a type the smallest;
  of the devices before the current one exactly the disks have blocks (`DisksOK`, from `DetectedOK`: what
  `check_device_type()` left in `is_ata` is what the registers say); and the partitions of the disk that is being
  scanned are those that the entries passed so far describe (`ScanOK`), numbered by how many of them were not empty. A
  block is registered only if its end, a sum of 32 bits, has not wrapped (`FitsExact`), so that it
  lies within its disk on disks with extended partitions too (`BlocksOK`). `RequestsStayInside` then says that the
  sums of `partition_read()` do not wrap either, and that `select_sector()`'s assertion holds for every request.
  `BusAssumption` is about the devices, which are external: only a disk answers `IDENTIFY DEVICE`, a disk
  comes up after the reset, and an entry of a table is a byte and two words of 32 bits. The limit of 1 GB
  in `identify_ata_device()` (`devices/ide.c:272`) is below the 28 bits of a sector number.
* `FileSysProof`: `DiskStaysSound` (the disk is sound between any two sector writes, hence after a
  crash), `FreeMapIsExact`, `CountsAreExact`, `NamesStayUnique` and `Refinement`, that callers see
  the store of `FileStore`. They assume `~ ShortReads`, which
  is what the comment in `dir_add()` says of `inode_read_at()`; finding 1 shows that names and
  entries are lost without it. `Partition` is the argument: the bits that are set are
  the disjoint union of the system's sectors, the lost ones, those of the
  call in progress and the extents of the files, and each call only moves a set
  from one of these to another, or to or from the clear bits (`PartAllocate`,
  `PartRelease`, `PartLose`, `PartCreate`, `PartRemove`, `PartRestart`). The invariant adds that each live inode is
  on the disk where its sector is and outside its own data (`Files`), that the inode of a file in
  creation is written before `dir_add()` (`Creating`), that the two ranges
  of a release are disjoint (`Releasing`), and that a bit that is set in memory is set on
  disk (`DiskType`): the disk may mark more than memory, never less, which
  is why a restart between the two writes of a removal loses sectors and never gives one to two files.
  `Refinement` needs what the sectors hold, in a second invariant beside the first, `Written`: the
  sectors of every file are data, those of a file in creation are zeros up to the one that is next,
  and nobody denies a write that goes on. Then each step
  either leaves the names, bytes and handles alone (the lemmas `...Unseen`) or is one step of the store
  (`...Refines`). A file appears with the write of its directory entry, and each sector that
  `inode_write_at()` writes is a write of the store of its own: `BytePlace` says which byte of which
  sector is which byte of the file.

The lemmas on `list_push_back()` and `list_pop_front()` stand in each of the two modules on lists of threads.

The assumptions are what the code has or asserts: a finite set of threads, a
null pointer that is no object, buffers and sectors of positive size, a page that has room for a header and
for a block of each descriptor, sizes that do not wrap, the sixteen lines of the controllers, a handler that is no thread, messages that are strings, the range of sector numbers, and disks that answer as the ATA protocol has it.

Only model-checked:

* every liveness property (`EveryReadyThreadRuns`, `EveryCallReturns`, `WaitersGetIn`, `QueuesDrain`,
  `EndIsReported`, `JobsFinish`, `ChannelIsReleased`), which need fairness and `ENABLED`;
* everything in `MCLibrary`: what the functions of the library compute is induction over data, and
  their modules have `RECURSIVE` operators for the loops of the code, which the
  prover cannot use. `WordsAreCounted` compares sums over sets of threads and words, and is induction as well.

## 5. Findings

1. `filesys_short_reads`: `dir_add()` takes a read that failed for lack of memory for
   the end of the directory, which its comment says cannot happen. It can give a name
   twice and overwrite an entry.
2. `disk_extended`: `read_partition_table()` reads sector 0 whatever sector it is
   called for. Logical partitions are never found, and primary ones are
   registered again, shifted. An extended partition in the first half of the disk
   recurses for ever.
3. `library_memmove`: `memmove()` returns the end of the destination when it copies
   upwards; the comment (`lib/string.c:23-24`) says it returns `DST`.

Other things were met on the way. The models have them as the code does, and
the properties are stated so that they hold beside them.

Kernel:

* `intq_getc()` tests for an empty queue before it takes the queue's lock and not
  after. With two readers, one enters `wait()` although a key has arrived, and
  the assertion at `devices/intq.c:73` fails. `panic` in `Serial` records it, and
  the machine stops there.
* `expecting_interrupt` is set by the first command and never cleared
  (`devices/ide.c:369`). A spurious interrupt later counts as the completion of the
  next command, whose `ide_write()` returns too early.
* A `load()` that fails after `pagedir_create()` loses the directory and its pages
  (`userprog/process.c:111`); `abandoned` in `Process` accounts for them.
* `process_wait()` after a failed `process_execute()` waits for ever.
* `filesys_create()` loses the data sectors when `dir_add()` fails, for
  instance because the name exists; `lost` in `FileSys` accounts for them.
* `calloc()` tests for overflow with `size < a || size < b`, which misses products
  that wrap to something larger than both.
* A device that answers the reset as a disk does and never interrupts for `IDENTIFY DEVICE` hangs the boot
  (`devices/ide.c:253`).
* The comment on `wait_until_idle()` says 10 seconds; a thousand polls of 10 microseconds are 10
  milliseconds (`devices/ide.c:391-402`).
* A negative width given by `*` sets the flag `-` after `0` has been looked at, so that both
  stay set and the field is padded twice (`lib/stdio.c:389`): the width is not what
  the comment at 508 sets out to fill.
* `%f` applies width and flags to its decimals: `%09f` of 1.5 prints `000000001.000500000`, and `%'f` puts
  commas into them (`lib/stdio.c:288-320`).
* `timer_calibrate()` says it refines the next 8 bits and refines 9; it starts at 2^10 even
  if that is too many.
* `write_cnt++` in `console.c` is not protected from interrupt handlers that print.
* Ctrl+Alt+Del reboots with the Delete key of the keypad only: that of the other block has a
  prefix, and its code is in no keymap.
* `descramble_ata_string()` always drops the last character.
* A third `extract` in one boot reads behind the marker that the first two erased.

Shell:

* An invalid or empty line, or a lone `&`, leads to the dereference of a null task
  (`src/hw-shell/shell.c:545`), although the comments at 366 and 507 say what
  is returned then. The model's shell is dead after that.
* The descriptor of `<` is overwritten with -1 for a command without pipes. The pipes of
  a rejected line stay open. A second background job overwrites the first. `cmd_fg()`
  uses its status before anything is stored there if there is nobody to wait for.

## 6. What is not modelled, and the plan

Not modelled, since there is nothing a state machine would add: the loader
and the segments (one thread, processor tables, assembly), the clock and
shutdown (registers in a fixed order), 64-bit division, the random number generator and
fixed-point arithmetic (words that are wider than TLC's integers), the user library,
whose system calls the kernel does not have yet, the exercises of `src/hw0`, the programs
that run on the host (`utils`) and the example programs (`examples`), most of which need
system calls that are missing. Within the modelled parts: ELF parsing, `hash_bytes()` and its relatives,
page tables beyond creation, mapping, activation and destruction, the
timer chip, free maps and root directories of several sectors, and empty files, which
multiply the instance of `filesys` by more than ten. A disk that stops working for good after
the boot is left out: its reads would sleep for ever, since `sema_down()` has no limit. So is a spurious
interrupt that ends the wait for a device which never interrupts.

The order of the work, most important first:

1. Done: the modules of the kernel's threads, memory, devices and file system, of the
   shell and of the library.
2. Done: the safety invariants of threads, interrupts, the console, locks, the page pool, the heap, processes, the serial
   port, the disk channel, the probe of the disks, the file system and the shell, and the
   refinements of `AtomicTid`, `ReadersWriters` and `FileStore`.
3. Left: the library's functions and the word counters, which are induction over data, and liveness. They stay with TLC.
