-------------------------------- MODULE Ide --------------------------------
(***************************************************************************)
(* One ATA channel of devices/ide.c: threads read and write sectors under  *)
(* the channel's lock, and sleep on completion_wait until the interrupt    *)
(* handler, running at any moment, ups it.  The disk is external; it does  *)
(* what the driver's own polling and the ATA protocol assume.              *)
(***************************************************************************)
EXTENDS Integers

CONSTANTS
  Thread,      \* the threads that use the disk
  Sector,      \* sectors of the channel: pairs of a device and a number
  Data,        \* what a sector can hold
  Blank,       \* what every sector holds at first
  NULL,        \* no lock holder
  MaxSpurious  \* bound on the spurious interrupts the channel delivers

ASSUME IdeAssumption ==
  /\ NULL \notin Thread
  /\ Blank \in Data
  /\ Sector # {} /\ Sector \subseteq {0, 1} \X Nat
  /\ \A s \in Sector : s[2] < 16 * 256 * 256 * 256  \* ASSERT in select_sector()
  /\ MaxSpurious \in Nat

VARIABLES
  lock,                 \* holder of the channel's lock
  expecting_interrupt,  \* the flag of struct channel
  completion_wait,      \* value of the semaphore
  pc,                   \* where each thread is
  req,                  \* the call each thread is in
  regs,                 \* the channel's sector selection registers
  dev,                  \* external: the disk's state and the command it works on
  irq,                  \* external: the channel's interrupt line
  disk,                 \* external: the sectors
  written,              \* history: each sector as the writes that returned left it
  spurious,             \* spurious interrupts so far
  timed_out             \* history: a wait for the disk to become idle was given up

vars == <<lock, expecting_interrupt, completion_wait, pc, req, regs, dev, irq,
          disk, written, spurious, timed_out>>

Request == [op : {"read", "write"}, sec : Sector, data : Data]

AnySector == CHOOSE s \in Sector : TRUE

NoRequest == [op |-> "read", sec |-> AnySector, data |-> Blank]

\* What select_sector() writes to the registers, a byte each.  The device
\* register has two bits that must be set, the LBA bit, the device and the
\* sector's last bits.
Registers(sec) ==
  [lbal |-> sec[2] % 256,
   lbam |-> (sec[2] \div 256) % 256,
   lbah |-> (sec[2] \div (256 * 256)) % 256,
   device |-> 160 + 64 + (IF sec[1] = 1 THEN 16 ELSE 0) + sec[2] \div (256 * 256 * 256)]

\* External: the sector that the registers select.
Addressed(r) ==
  <<(r.device \div 16) % 2,
    r.lbal + 256 * r.lbam + 256 * 256 * r.lbah + 256 * 256 * 256 * (r.device % 16)>>

Init ==
  /\ lock = NULL
  /\ expecting_interrupt = FALSE
  /\ completion_wait = 0
  /\ pc = [t \in Thread |-> "idle"]
  /\ req = [t \in Thread |-> NoRequest]
  /\ regs = Registers(AnySector)
  /\ dev = [st |-> "idle", sec |-> AnySector, data |-> Blank]
  /\ irq = FALSE
  /\ disk = [s \in Sector |-> Blank]
  /\ written = disk
  /\ spurious = 0
  /\ timed_out = FALSE

ChannelFree == lock = NULL

\* ide_read() and ide_write() begin with lock_acquire().
Call(t, r) ==
  /\ pc[t] = "idle"
  /\ ChannelFree
  /\ lock' = t
  /\ req' = [req EXCEPT ![t] = r]
  /\ pc' = [pc EXCEPT ![t] = "select"]
  /\ UNCHANGED <<expecting_interrupt, completion_wait, regs, dev, irq, disk, written,
                 spurious, timed_out>>

\* select_sector(): wait_until_idle() polls the status register, and reading
\* it clears a pending interrupt.  After 1000 polls it only prints a message:
\* then a disk that is still busy ignores what is written to its registers.
select_sector(t) ==
  /\ pc[t] = "select"
  /\ irq' = FALSE
  /\ regs' = IF dev.st = "idle" THEN Registers(req[t].sec) ELSE regs
  /\ timed_out' = (timed_out \/ dev.st # "idle")
  /\ pc' = [pc EXCEPT ![t] = "issue"]
  /\ UNCHANGED <<lock, expecting_interrupt, completion_wait, req, dev, disk,
                 written, spurious>>

\* Mutant: the flag is not set.
NotExpected == expecting_interrupt

Expected == TRUE

\* issue_pio_command(); a read then sleeps, a write first waits for DRQ.  A disk
\* that is busy ignores the command.
issue_pio_command(t) ==
  /\ pc[t] = "issue"
  /\ expecting_interrupt' = Expected
  /\ dev' = IF dev.st # "idle" THEN dev
            ELSE [dev EXCEPT !.st = IF req[t].op = "read" THEN "reading" ELSE "drq_write",
                             !.sec = Addressed(regs)]
  /\ pc' = [pc EXCEPT ![t] = IF req[t].op = "read" THEN "sleep" ELSE "output"]
  /\ UNCHANGED <<lock, completion_wait, req, regs, irq, disk, written, spurious, timed_out>>

\* ide_write(): the data goes to the disk, then the thread sleeps.
output_sector(t) ==
  /\ pc[t] = "output"
  /\ dev.st = "drq_write"
  /\ dev' = [dev EXCEPT !.st = "writing", !.data = req[t].data]
  /\ pc' = [pc EXCEPT ![t] = "sleep"]
  /\ UNCHANGED <<lock, expecting_interrupt, completion_wait, req, regs, irq, disk,
                 written, spurious, timed_out>>

\* Mutant: the unit is not taken.
UnitLeft == completion_wait

UnitTaken == completion_wait - 1

\* sema_down(&completion_wait) returns.  A write then releases the lock and
\* returns; a read goes on.
Completed(t) ==
  /\ pc[t] = "sleep"
  /\ completion_wait > 0
  /\ completion_wait' = UnitTaken
  /\ \/ /\ req[t].op = "read"
        /\ pc' = [pc EXCEPT ![t] = "input"]
        /\ UNCHANGED <<lock, req, written>>
     \/ /\ req[t].op = "write"
        /\ pc' = [pc EXCEPT ![t] = "idle"]
        /\ lock' = NULL
        /\ req' = [req EXCEPT ![t] = NoRequest]
        /\ written' = [written EXCEPT ![req[t].sec] = req[t].data]
  /\ UNCHANGED <<expecting_interrupt, regs, dev, irq, disk, spurious, timed_out>>

\* The end of ide_read(): wait_while_busy() polls until the data is there.
input_sector(t) ==
  /\ pc[t] = "input"
  /\ dev.st = "drq_read"
  /\ dev' = [dev EXCEPT !.st = "idle"]
  /\ req' = [req EXCEPT ![t] = NoRequest]
  /\ pc' = [pc EXCEPT ![t] = "idle"]
  /\ lock' = NULL
  /\ UNCHANGED <<expecting_interrupt, completion_wait, regs, irq, disk, written,
                 spurious, timed_out>>

\* wait_while_busy() returns false: the disk has no data and asks for none, or is
\* still busy after 3000 polls.  The kernel panics, with the lock held.
DiskFailed(t) ==
  /\ pc[t] \in {"output", "input"}
  /\ dev.st \notin {"drq_read", "drq_write"}
  /\ pc' = [pc EXCEPT ![t] = "panic"]
  /\ UNCHANGED <<lock, expecting_interrupt, completion_wait, req, regs, dev, irq, disk,
                 written, spurious, timed_out>>

\* identify_ata_device() issues its command at boot, before the threads use
\* the disk, and takes the completion itself.
Identify ==
  /\ lock = NULL
  /\ expecting_interrupt' = Expected
  /\ UNCHANGED <<lock, completion_wait, pc, req, regs, dev, irq, disk, written,
                 spurious, timed_out>>

Acknowledged == FALSE

\* The handler ups the semaphore, or only reports an unexpected interrupt.
UpIfExpected == completion_wait' = IF expecting_interrupt THEN completion_wait + 1
                                   ELSE completion_wait

interrupt_handler ==
  /\ irq
  /\ irq' = Acknowledged
  /\ UpIfExpected
  /\ UNCHANGED <<lock, expecting_interrupt, pc, req, regs, dev, disk, written, spurious, timed_out>>

\* External: the disk completes the command and raises its interrupt.
DiskDone ==
  /\ \/ /\ dev.st = "reading"
        /\ dev' = [dev EXCEPT !.st = "drq_read", !.data = disk[dev.sec]]
        /\ UNCHANGED disk
     \/ /\ dev.st = "writing"
        /\ dev' = [dev EXCEPT !.st = "idle"]
        /\ disk' = [disk EXCEPT ![dev.sec] = dev.data]
  /\ irq' = TRUE
  /\ UNCHANGED <<lock, expecting_interrupt, completion_wait, pc, req, regs, written,
                 spurious, timed_out>>

\* External: an interrupt while no command is outstanding, which the handler
\* takes at once.
SpuriousInterrupt ==
  /\ lock = NULL /\ ~ irq
  /\ spurious < MaxSpurious
  /\ spurious' = spurious + 1
  /\ UpIfExpected
  /\ UNCHANGED <<lock, expecting_interrupt, pc, req, regs, dev, irq, disk, written, timed_out>>

\* The steps of a thread that is inside a call.
Inside(t) == \/ select_sector(t) \/ issue_pio_command(t) \/ output_sector(t)
             \/ Completed(t) \/ input_sector(t) \/ DiskFailed(t)

\* What the channel does by itself and the threads inside a call do.
Work ==
  \/ \E t \in Thread : Inside(t)
  \/ interrupt_handler
  \/ DiskDone
  \/ SpuriousInterrupt

Next == Identify \/ Work \/ \E t \in Thread, r \in Request : Call(t, r)

Spec == Init /\ [][Next]_vars
-----------------------------------------------------------------------------
Places == {"idle", "select", "issue", "output", "sleep", "input", "panic"}

\* Every variable has the type of the C object it stands for.
TypeOK ==
  /\ lock \in Thread \union {NULL}
  /\ expecting_interrupt \in BOOLEAN
  /\ completion_wait \in Nat
  /\ pc \in [Thread -> Places]
  /\ req \in [Thread -> Request]
  /\ dev \in [st : {"idle", "reading", "drq_read", "drq_write", "writing"},
              sec : Sector, data : Data]
  /\ irq \in BOOLEAN
  /\ disk \in [Sector -> Data] /\ written \in [Sector -> Data]
  /\ spurious \in Nat /\ timed_out \in BOOLEAN

\* Commands do not overlap, and each takes exactly its own completion: when
\* the channel is free no interrupt, completion or disk activity is left over
\* that the next command could take for its own, the disk holds what the writes
\* that returned wrote, and no command fails.  This is while no spurious
\* interrupt comes.  What a read is about to return is what the last write to its
\* sector wrote, unless a wait for the disk to become idle was given up: after a
\* spurious interrupt the disk may be busy for the last thread still.
NoStaleCompletion ==
  /\ \A t \in Thread : pc[t] # "idle" <=> lock = t
  /\ \A t \in Thread : pc[t] = "input" /\ dev.st = "drq_read" /\ ~ timed_out =>
       dev.data = written[req[t].sec]
  /\ spurious = 0 =>
       /\ \A t \in Thread : pc[t] # "panic"
       /\ lock = NULL => completion_wait = 0 /\ ~ irq /\ dev.st = "idle" /\ disk = written

\* Nobody keeps the channel: a completion always comes and finds its sleeper, or
\* the kernel panics because the disk has failed.
ChannelIsReleased ==
  [](lock # NULL => <>(lock = NULL \/ \E t \in Thread : pc[t] = "panic"))
=============================================================================
