------------------------------ MODULE IdeProof ------------------------------
(***************************************************************************)
(* Proofs about Ide, for any threads, sectors and data and any number of   *)
(* spurious interrupts: the registers select the sector that was asked     *)
(* for, the disk holds what the writes that returned wrote, and a          *)
(* completion belongs to the command that waits for it.  Then proofs about *)
(* Probe, for any devices and any partition tables: the boot registers     *)
(* exactly the disks and the partitions that lie within them, and what is  *)
(* read and written through a role's block stays within its disk.          *)
(***************************************************************************)
EXTENDS MCDisk, FiniteSetTheorems, NaturalsInduction, TLAPS

\* The lock is held by the one thread that is inside a call.
OneInside == \A t \in Thread : pc[t] # "idle" <=> lock = t

Finished == dev.st \in {"idle", "drq_read"}

\* The sectors as they are once the disk has finished its command.
Settled == IF dev.st = "writing" THEN [disk EXCEPT ![dev.sec] = dev.data] ELSE disk

\* Between commands the disk may still be writing for a thread that a stale
\* completion woke too early.
Between == dev.st \in {"idle", "writing"} /\ Settled = written

\* Where the disk is in the command of the thread t that holds the lock.
CommandOf(t) ==
  LET r == req[t]
  IN  /\ pc[t] = "select" => Between
      /\ pc[t] = "issue" =>
           dev.st = "idle" /\ disk = written /\ regs = Registers(r.sec)
      /\ pc[t] = "output" =>
           dev.st = "drq_write" /\ dev.sec = r.sec /\ disk = written /\ r.op = "write"
      /\ pc[t] \in {"sleep", "input"} /\ r.op = "read" =>
           /\ dev.st \in {"reading", "drq_read"} /\ dev.sec = r.sec /\ disk = written
           /\ dev.st = "drq_read" => dev.data = disk[dev.sec]
      /\ pc[t] = "sleep" /\ r.op = "write" =>
           /\ dev.st \in {"writing", "idle"}
           /\ dev.st = "writing" => dev.sec = r.sec /\ dev.data = r.data
           /\ Settled = [written EXCEPT ![r.sec] = r.data]
      /\ pc[t] = "input" => r.op = "read"

Commands ==
  /\ lock = NULL => Between
  /\ lock # NULL => CommandOf(lock)

\* Without spurious interrupts there is one completion for each command, and
\* it is on its way or there exactly when the disk has finished.
Quiet == completion_wait = 0 /\ ~ irq

Completions ==
  spurious = 0 =>
    /\ lock = NULL => Quiet /\ dev.st = "idle"
    /\ lock # NULL =>
         /\ pc[lock] # "panic"
         /\ pc[lock] = "select" => dev.st = "idle"
         /\ pc[lock] \in {"select", "issue", "output", "input"} => Quiet
         /\ pc[lock] = "input" => Finished
         /\ pc[lock] \in {"output", "sleep"} => expecting_interrupt
         /\ pc[lock] = "sleep" =>
              /\ ~ Finished => Quiet
              /\ Finished => \/ irq /\ completion_wait = 0
                             \/ ~ irq /\ completion_wait = 1

\* The channel as long as no wait for an idle disk was given up.
Sane == TypeOK /\ OneInside /\ Commands /\ Completions

\* What is left of it afterwards: the threads still exclude each other, and the
\* registers select a sector, if not the right one.
Excluded ==
  /\ TypeOK /\ OneInside
  /\ \E s \in Sector : regs = Registers(s)

\* The inductive invariant.
IInv ==
  /\ Excluded
  /\ timed_out => spurious # 0
  /\ ~ timed_out => Sane

-----------------------------------------------------------------------------
\* A number of 28 bits, taken apart into bytes and put together again.
LEMMA OneByte ==
  ASSUME NEW n \in Nat
  PROVE  n \div 256 \in Nat /\ n % 256 \in Nat /\ n = (n % 256) + 256 * (n \div 256)
  <1>1. n % 256 = n - 256 * (n \div 256)
    OBVIOUS
  <1>2. n \div 256 \in Nat
    OBVIOUS
  <1>3. n % 256 \in Nat
    OBVIOUS
  <1> QED BY <1>1, <1>2, <1>3

\* A sector number is the sum of what the four registers hold of it.
LEMMA ByBytes ==
  ASSUME NEW n \in Nat, n < 16 * 256 * 256 * 256
  PROVE  /\ n \div (256 * 256 * 256) \in 0 .. 15
         /\ n = (n % 256) + 256 * ((n \div 256) % 256) + 256 * 256 * ((n \div (256 * 256)) % 256)
                + 256 * 256 * 256 * (n \div (256 * 256 * 256))
  <1> DEFINE a == n \div 256
             b == a \div 256
             c == b \div 256
  <1>1. n \div (256 * 256) = b
    OBVIOUS
  <1>2. n \div (256 * 256 * 256) = c
    OBVIOUS
  <1>3. a \in Nat /\ n % 256 \in Nat /\ n = (n % 256) + 256 * a
    BY OneByte
  <1> HIDE DEF a
  <1>4. b \in Nat /\ a % 256 \in Nat /\ a = (a % 256) + 256 * b
    BY <1>3, OneByte
  <1> HIDE DEF b
  <1>5. c \in Nat /\ b % 256 \in Nat /\ b = (b % 256) + 256 * c
    BY <1>4, OneByte
  <1> HIDE DEF c
  <1>6. c \in 0 .. 15
    BY <1>3, <1>4, <1>5
  <1>7. n = (n % 256) + 256 * (a % 256) + 256 * 256 * (b % 256) + 256 * 256 * 256 * c
    BY <1>3, <1>4, <1>5
  <1> QED BY <1>1, <1>2, <1>6, <1>7 DEF a

\* The device register keeps the device and the last bits apart.
LEMMA DeviceRegister ==
  ASSUME NEW d \in {0, 1}, NEW m \in 0 .. 15
  PROVE  LET r == 160 + 64 + (IF d = 1 THEN 16 ELSE 0) + m
         IN  (r \div 16) % 2 = d /\ r % 16 = m
  OBVIOUS

\* What select_sector() writes selects the sector.
LEMMA RegistersSelect ==
  ASSUME NEW s \in Sector
  PROVE  Addressed(Registers(s)) = s
  <1>1. s[1] \in {0, 1} /\ s[2] \in Nat /\ s[2] < 16 * 256 * 256 * 256 /\ s = <<s[1], s[2]>>
    BY IdeAssumption
  <1>2. /\ s[2] \div (256 * 256 * 256) \in 0 .. 15
        /\ s[2] = (s[2] % 256) + 256 * ((s[2] \div 256) % 256)
                  + 256 * 256 * ((s[2] \div (256 * 256)) % 256)
                  + 256 * 256 * 256 * (s[2] \div (256 * 256 * 256))
    BY <1>1, ByBytes
  <1>3. /\ (Registers(s).device \div 16) % 2 = s[1]
        /\ Registers(s).device % 16 = s[2] \div (256 * 256 * 256)
    BY <1>1, <1>2, DeviceRegister DEF Registers
  <1>4. /\ Registers(s).lbal = s[2] % 256
        /\ Registers(s).lbam = (s[2] \div 256) % 256
        /\ Registers(s).lbah = (s[2] \div (256 * 256)) % 256
    BY DEF Registers
  <1> QED BY <1>1, <1>2, <1>3, <1>4 DEF Addressed

-----------------------------------------------------------------------------
DevType == [st : {"idle", "reading", "drq_read", "drq_write", "writing"},
            sec : Sector, data : Data]

\* The types of what the channel begins with.
LEMMA InitTypes ==
  /\ AnySector \in Sector
  /\ NoRequest \in Request
  <1>1. AnySector \in Sector
    BY IdeAssumption DEF AnySector
  <1> QED BY <1>1, IdeAssumption DEF NoRequest, Request

\* The channel begins free, with nothing left over.
LEMMA InitIInv == Init => IInv
  <1> SUFFICES ASSUME Init PROVE IInv
    OBVIOUS
  <1> USE InitTypes DEF Init
  <1>1. TypeOK
    BY IdeAssumption DEF TypeOK, Places
  <1>2. OneInside
    BY IdeAssumption DEF OneInside
  <1>3. Commands
    BY DEF Commands, Between, Settled
  <1>4. Completions
    BY DEF Completions, Quiet
  <1>5. \E s \in Sector : regs = Registers(s)
    OBVIOUS
  <1> QED BY <1>1, <1>2, <1>3, <1>4, <1>5 DEF IInv, Sane, Excluded

\* A thread that is inside holds the lock, and no other is inside.
LEMMA Holder ==
  ASSUME Sane, NEW t \in Thread, pc[t] # "idle"
  PROVE  /\ lock = t /\ lock # NULL /\ CommandOf(t)
         /\ \A u \in Thread \ {t} : pc[u] = "idle"
  BY IdeAssumption DEF Sane, OneInside, Commands

\* ide_read() and ide_write() take the channel.
LEMMA CallStep ==
  ASSUME Sane, NEW t \in Thread, NEW r \in Request, Call(t, r)
  PROVE  Sane'
  <1> USE DEF Sane, Call, ChannelFree
  <1>1. /\ t # NULL /\ lock = NULL /\ lock' = t /\ pc'[t] = "select"
        /\ \A u \in Thread \ {t} : pc'[u] = pc[u] /\ pc[u] = "idle"
    BY IdeAssumption DEF TypeOK, OneInside
  <1>2. TypeOK'
    BY DEF TypeOK, Places
  <1>3. OneInside'
    BY <1>1 DEF OneInside
  <1>4. Between'
    BY <1>1 DEF Commands, Between, Settled
  <1>5. Commands'
    BY <1>1, <1>4 DEF Commands, CommandOf
  <1>6. Completions'
    BY <1>1 DEF Completions, Quiet
  <1> QED BY <1>2, <1>3, <1>5, <1>6

\* select_sector() waits for the disk and writes the registers.
LEMMA SelectStep ==
  ASSUME Sane, NEW t \in Thread, select_sector(t), dev.st = "idle"
  PROVE  Sane'
  <1> USE DEF Sane, select_sector
  <1>1. /\ lock = t /\ lock # NULL /\ CommandOf(t)
        /\ \A u \in Thread \ {t} : pc[u] = "idle"
    BY Holder
  <1>2. /\ pc'[t] = "issue" /\ \A u \in Thread \ {t} : pc'[u] = pc[u]
        /\ pc' \in [Thread -> Places]
    BY DEF TypeOK, Places
  <1>3. TypeOK'
    BY <1>2 DEF TypeOK
  <1>4. OneInside'
    BY <1>1, <1>2 DEF OneInside
  <1>5. disk = written
    BY <1>1 DEF CommandOf, Between, Settled
  <1>6. Commands'
    BY <1>1, <1>2, <1>5 DEF Commands, CommandOf
  <1>7. Completions'
    BY <1>1, <1>2 DEF Completions, Quiet
  <1> QED BY <1>3, <1>4, <1>6, <1>7

\* issue_pio_command() starts the command of the holder.
LEMMA IssueStep ==
  ASSUME Sane, NEW t \in Thread, issue_pio_command(t)
  PROVE  Sane'
  <1> USE DEF Sane, issue_pio_command
  <1>1. /\ lock = t /\ lock # NULL /\ CommandOf(t)
        /\ \A u \in Thread \ {t} : pc[u] = "idle"
    BY Holder
  <1>2. /\ dev.st = "idle" /\ disk = written /\ regs = Registers(req[t].sec)
        /\ req[t] \in Request /\ req[t].sec \in Sector /\ req[t].op \in {"read", "write"}
        /\ dev \in DevType
    BY <1>1 DEF CommandOf, TypeOK, Request, DevType
  <1>3. Addressed(regs) = req[t].sec
    BY <1>2, RegistersSelect
  <1>4. CASE req[t].op = "read"
    <2>1. /\ dev' = [dev EXCEPT !.st = "reading", !.sec = req[t].sec]
          /\ pc' = [pc EXCEPT ![t] = "sleep"]
      BY <1>2, <1>3, <1>4
    <2>2. dev' \in DevType /\ dev'.st = "reading" /\ dev'.sec = req[t].sec
      BY <1>2, <2>1 DEF DevType
    <2>3. /\ pc'[t] = "sleep" /\ \A u \in Thread \ {t} : pc'[u] = pc[u]
          /\ pc' \in [Thread -> Places]
      BY <2>1 DEF TypeOK, Places
    <2>4. TypeOK'
      BY <2>2, <2>3 DEF TypeOK, Expected, DevType
    <2>5. OneInside'
      BY <1>1, <2>3 DEF OneInside
    <2>6. Commands'
      BY <1>1, <1>2, <1>4, <2>2, <2>3 DEF Commands, CommandOf
    <2>7. Completions'
      BY <1>1, <2>2, <2>3 DEF Completions, Quiet, Finished, Expected
    <2> QED BY <2>4, <2>5, <2>6, <2>7
  <1>5. CASE req[t].op = "write"
    <2>1. /\ dev' = [dev EXCEPT !.st = "drq_write", !.sec = req[t].sec]
          /\ pc' = [pc EXCEPT ![t] = "output"]
      BY <1>2, <1>3, <1>5
    <2>2. dev' \in DevType /\ dev'.st = "drq_write" /\ dev'.sec = req[t].sec
      BY <1>2, <2>1 DEF DevType
    <2>3. /\ pc'[t] = "output" /\ \A u \in Thread \ {t} : pc'[u] = pc[u]
          /\ pc' \in [Thread -> Places]
      BY <2>1 DEF TypeOK, Places
    <2>4. TypeOK'
      BY <2>2, <2>3 DEF TypeOK, Expected, DevType
    <2>5. OneInside'
      BY <1>1, <2>3 DEF OneInside
    <2>6. Commands'
      BY <1>1, <1>2, <1>5, <2>2, <2>3 DEF Commands, CommandOf
    <2>7. Completions'
      BY <1>1, <2>2, <2>3 DEF Completions, Quiet, Expected
    <2> QED BY <2>4, <2>5, <2>6, <2>7
  <1> QED BY <1>2, <1>4, <1>5

\* ide_write() gives the disk its data.
LEMMA OutputStep ==
  ASSUME Sane, NEW t \in Thread, output_sector(t)
  PROVE  Sane'
  <1> USE DEF Sane, output_sector
  <1>1. /\ lock = t /\ lock # NULL /\ CommandOf(t)
        /\ \A u \in Thread \ {t} : pc[u] = "idle"
    BY Holder
  <1>2. /\ dev.sec = req[t].sec /\ disk = written /\ req[t].op = "write"
        /\ req[t].data \in Data /\ dev \in DevType
    BY <1>1 DEF CommandOf, TypeOK, Request, DevType
  <1>3. dev' \in DevType /\ dev'.st = "writing" /\ dev'.sec = req[t].sec /\ dev'.data = req[t].data
    BY <1>2 DEF DevType
  <1>4. /\ pc'[t] = "sleep" /\ \A u \in Thread \ {t} : pc'[u] = pc[u]
        /\ pc' \in [Thread -> Places]
    BY DEF TypeOK, Places
  <1>5. TypeOK'
    BY <1>3, <1>4 DEF TypeOK, DevType
  <1>6. OneInside'
    BY <1>1, <1>4 DEF OneInside
  <1>7. Settled' = [written' EXCEPT ![req'[t].sec] = req'[t].data]
    BY <1>2, <1>3 DEF Settled
  <1>8. Commands'
    BY <1>1, <1>2, <1>3, <1>4, <1>7 DEF Commands, CommandOf
  <1>9. Completions'
    BY <1>1, <1>3, <1>4 DEF Completions, Quiet, Finished
  <1> QED BY <1>5, <1>6, <1>8, <1>9

\* sema_down() returns: a write is over, a read goes on.
LEMMA CompletedStep ==
  ASSUME Sane, NEW t \in Thread, Completed(t)
  PROVE  Sane'
  <1> USE DEF Sane, Completed, UnitTaken
  <1>1. /\ lock = t /\ lock # NULL /\ CommandOf(t)
        /\ \A u \in Thread \ {t} : pc[u] = "idle"
    BY Holder
  <1>2. /\ pc[t] = "sleep" /\ completion_wait > 0 /\ completion_wait' = completion_wait - 1
        /\ expecting_interrupt' = expecting_interrupt /\ dev' = dev /\ irq' = irq
        /\ disk' = disk /\ spurious' = spurious
    OBVIOUS
  <1>3. completion_wait' \in Nat
    BY <1>2 DEF TypeOK
  <1>4. spurious = 0 => Finished /\ Quiet'
    BY <1>1, <1>2 DEF Completions, Quiet, TypeOK
  <1>5. CASE /\ req[t].op = "read"
             /\ pc' = [pc EXCEPT ![t] = "input"]
             /\ UNCHANGED <<lock, req, written>>
    <2>1. /\ pc'[t] = "input" /\ \A u \in Thread \ {t} : pc'[u] = pc[u]
          /\ pc' \in [Thread -> Places]
      BY <1>5 DEF TypeOK, Places
    <2>2. TypeOK'
      BY <1>2, <1>3, <1>5, <2>1 DEF TypeOK
    <2>3. OneInside'
      BY <1>1, <1>5, <2>1 DEF OneInside
    <2>4. Commands'
      BY <1>1, <1>2, <1>5, <2>1 DEF Commands, CommandOf
    <2>5. Completions'
      BY <1>1, <1>2, <1>4, <1>5, <2>1 DEF Completions, Finished
    <2> QED BY <2>2, <2>3, <2>4, <2>5
  <1>6. CASE /\ req[t].op = "write"
             /\ pc' = [pc EXCEPT ![t] = "idle"]
             /\ lock' = NULL
             /\ req' = [req EXCEPT ![t] = NoRequest]
             /\ written' = [written EXCEPT ![req[t].sec] = req[t].data]
    <2>1. /\ pc'[t] = "idle" /\ \A u \in Thread \ {t} : pc'[u] = pc[u]
          /\ pc' \in [Thread -> Places]
      BY <1>6 DEF TypeOK, Places
    <2>2. TypeOK'
      <3>1. written' \in [Sector -> Data] /\ req' \in [Thread -> Request]
        BY <1>6, InitTypes DEF TypeOK, Request
      <3> QED BY <1>2, <1>3, <1>6, <2>1, <3>1 DEF TypeOK
    <2>3. OneInside'
      BY <1>1, <1>6, <2>1, IdeAssumption DEF OneInside
    <2>4. Commands'
      <3>1. dev.st \in {"idle", "writing"} /\ Settled = written'
        BY <1>1, <1>2, <1>6 DEF CommandOf
      <3>2. Settled' = Settled
        BY <1>2 DEF Settled
      <3> QED BY <1>2, <1>6, <3>1, <3>2 DEF Commands, Between
    <2>5. Completions'
      <3>1. dev.st \in {"idle", "writing"}
        BY <1>1, <1>2, <1>6 DEF CommandOf
      <3> QED BY <1>2, <1>4, <1>6, <3>1 DEF Completions, Finished
    <2> QED BY <2>2, <2>3, <2>4, <2>5
  <1> QED BY <1>5, <1>6

\* ide_read() takes the data and frees the channel.
LEMMA InputStep ==
  ASSUME Sane, NEW t \in Thread, input_sector(t)
  PROVE  Sane'
  <1> USE DEF Sane, input_sector
  <1>1. /\ lock = t /\ lock # NULL /\ CommandOf(t)
        /\ \A u \in Thread \ {t} : pc[u] = "idle"
    BY Holder
  <1>2. dev \in DevType
    BY DEF TypeOK, DevType
  <1>3. dev' \in DevType /\ dev'.st = "idle"
    BY <1>2 DEF DevType
  <1>4. /\ pc'[t] = "idle" /\ \A u \in Thread \ {t} : pc'[u] = pc[u]
        /\ pc' \in [Thread -> Places]
    BY DEF TypeOK, Places
  <1>5. TypeOK'
    <2>1. req' \in [Thread -> Request]
      BY InitTypes DEF TypeOK
    <2> QED BY <1>3, <1>4, <2>1 DEF TypeOK, DevType
  <1>6. OneInside'
    BY <1>1, <1>4, IdeAssumption DEF OneInside
  <1>7. Commands'
    BY <1>1, <1>3 DEF Commands, CommandOf, Between, Settled
  <1>8. Completions'
    BY <1>1, <1>3 DEF Completions, Quiet
  <1> QED BY <1>5, <1>6, <1>7, <1>8

\* Steps that leave the threads and their calls where they are.
LEMMA HandlerStep ==
  ASSUME Sane, interrupt_handler
  PROVE  Sane'
  <1> USE DEF Sane, interrupt_handler, Acknowledged, UpIfExpected
  <1>1. completion_wait' \in Nat
    BY DEF TypeOK
  <1>2. TypeOK'
    BY <1>1 DEF TypeOK
  <1>3. OneInside'
    BY DEF OneInside
  <1>4. Commands'
    BY DEF Commands, CommandOf, Between, Settled
  <1>5. Completions'
    BY DEF Completions, Quiet, Finished, TypeOK, OneInside, Places
  <1> QED BY <1>2, <1>3, <1>4, <1>5

\* identify_ata_device() only sets the flag.
LEMMA IdentifyStep ==
  ASSUME Sane, Identify
  PROVE  Sane'
  <1> USE DEF Sane, Identify, Expected
  <1>1. TypeOK'
    BY DEF TypeOK
  <1>2. OneInside'
    BY DEF OneInside
  <1>3. Commands'
    BY DEF Commands, CommandOf, Between, Settled
  <1>4. Completions'
    BY DEF Completions, Quiet
  <1> QED BY <1>1, <1>2, <1>3, <1>4

\* An interrupt that belongs to no command leaves the commands alone.
LEMMA SpuriousStep ==
  ASSUME Sane, SpuriousInterrupt
  PROVE  Sane'
  <1> USE DEF Sane, SpuriousInterrupt, UpIfExpected
  <1>1. completion_wait' \in Nat /\ spurious' \in Nat /\ spurious' # 0
    BY DEF TypeOK
  <1>2. TypeOK'
    BY <1>1 DEF TypeOK
  <1>3. OneInside'
    BY DEF OneInside
  <1>4. Commands'
    BY DEF Commands, CommandOf, Between, Settled
  <1>5. Completions'
    BY <1>1 DEF Completions
  <1> QED BY <1>2, <1>3, <1>4, <1>5

\* The disk completes the command of the thread that waits for it.
LEMMA DiskDoneStep ==
  ASSUME Sane, DiskDone
  PROVE  Sane'
  <1> USE DEF Sane, DiskDone
  <1>1. /\ lock' = lock /\ expecting_interrupt' = expecting_interrupt
        /\ completion_wait' = completion_wait /\ pc' = pc /\ req' = req /\ regs' = regs
        /\ written' = written /\ spurious' = spurious /\ irq' = TRUE
        /\ dev \in DevType /\ dev.sec \in Sector /\ dev.data \in Data
    BY DEF TypeOK, DevType
  <1>2. OneInside'
    BY <1>1 DEF OneInside
  <1>3. CASE /\ dev.st = "reading"
             /\ dev' = [dev EXCEPT !.st = "drq_read", !.data = disk[dev.sec]]
             /\ UNCHANGED disk
    <2>1. /\ dev' \in DevType /\ dev'.st = "drq_read" /\ dev'.sec = dev.sec
          /\ dev'.data = disk[dev.sec]
      BY <1>1, <1>3 DEF DevType, TypeOK
    <2>2. TypeOK'
      BY <1>1, <1>3, <2>1 DEF TypeOK, DevType
    <2>3. lock # NULL /\ lock \in Thread /\ CommandOf(lock)
      BY <1>3 DEF Commands, Between, TypeOK
    <2>4. pc[lock] \in {"sleep", "input", "panic"} /\ (pc[lock] # "panic" => req[lock].op = "read")
      <3>1. pc[lock] # "idle" /\ pc[lock] \in Places
        BY <2>3 DEF OneInside, TypeOK
      <3>2. req[lock].op \in {"read", "write"}
        BY <2>3 DEF TypeOK, Request
      <3> QED BY <1>3, <2>3, <3>1, <3>2 DEF CommandOf, Between, Places
    <2>5. Commands'
      BY <1>1, <1>3, <2>1, <2>3, <2>4 DEF Commands, CommandOf
    <2>6. Completions'
      BY <1>1, <1>3, <2>1, <2>3, <2>4 DEF Completions, Quiet, Finished
    <2> QED BY <1>2, <2>2, <2>5, <2>6
  <1>4. CASE /\ dev.st = "writing"
             /\ dev' = [dev EXCEPT !.st = "idle"]
             /\ disk' = [disk EXCEPT ![dev.sec] = dev.data]
    <2>1. dev' \in DevType /\ dev'.st = "idle"
      BY <1>1, <1>4 DEF DevType
    <2>2. disk' = Settled /\ Settled' = disk' /\ disk' \in [Sector -> Data]
      BY <1>1, <1>4, <2>1 DEF Settled, TypeOK
    <2>3. TypeOK'
      BY <1>1, <2>1, <2>2 DEF TypeOK, DevType
    <2>4. lock = NULL => Commands'
      BY <1>1, <2>1, <2>2 DEF Commands, Between
    <2>5. lock # NULL => pc[lock] \in {"select", "sleep", "panic"} /\ lock \in Thread
      <3> SUFFICES ASSUME lock # NULL PROVE pc[lock] \in {"select", "sleep", "panic"} /\ lock \in Thread
        OBVIOUS
      <3>1. lock \in Thread /\ pc[lock] # "idle" /\ pc[lock] \in Places /\ CommandOf(lock)
        BY DEF OneInside, TypeOK, Commands
      <3> QED BY <1>4, <3>1 DEF CommandOf, Places
    <2>6. lock # NULL => Commands'
      <3> SUFFICES ASSUME lock # NULL PROVE Commands'
        OBVIOUS
      <3>1. CommandOf(lock) /\ pc[lock] \in {"select", "sleep", "panic"}
        BY <2>5 DEF Commands
      <3>2. pc[lock] = "sleep" => req[lock].op = "write"
        BY <1>4, <2>5, <3>1 DEF CommandOf, TypeOK, Request
      <3> QED BY <1>1, <1>4, <2>1, <2>2, <3>1, <3>2 DEF Commands, CommandOf, Between
    <2>7. Completions'
      BY <1>1, <1>4, <2>1, <2>5 DEF Completions, Quiet, Finished
    <2> QED BY <1>2, <2>3, <2>4, <2>6, <2>7
  <1> QED BY <1>3, <1>4

\* wait_while_busy() fails: then some interrupt was spurious.
LEMMA FailedStep ==
  ASSUME Sane, NEW t \in Thread, DiskFailed(t)
  PROVE  Sane'
  <1> USE DEF Sane, DiskFailed
  <1>1. /\ lock = t /\ lock # NULL /\ CommandOf(t)
        /\ \A u \in Thread \ {t} : pc[u] = "idle"
    BY Holder
  <1>2. /\ pc'[t] = "panic" /\ \A u \in Thread \ {t} : pc'[u] = pc[u]
        /\ pc' \in [Thread -> Places]
    BY DEF TypeOK, Places
  <1>3. TypeOK'
    BY <1>2 DEF TypeOK
  <1>4. OneInside'
    BY <1>1, <1>2 DEF OneInside
  <1>5. Commands'
    BY <1>1, <1>2 DEF Commands, CommandOf
  <1>6. spurious # 0
    BY <1>1 DEF Completions, CommandOf, Finished
  <1>7. Completions'
    BY <1>6 DEF Completions
  <1> QED BY <1>3, <1>4, <1>5, <1>7

\* As long as no wait is given up, the channel stays in order.
LEMMA SaneNext ==
  ASSUME Sane, [Next]_vars, ~ timed_out'
  PROVE  Sane'
  <1>1. ASSUME NEW t \in Thread, Inside(t) PROVE Sane'
    <2>1. CASE select_sector(t)
      BY <2>1, SelectStep DEF select_sector
    <2> QED BY <1>1, <2>1, IssueStep, OutputStep, CompletedStep, InputStep, FailedStep, Zenon DEF Inside
  <1>2. CASE \E t \in Thread, r \in Request : Call(t, r)
    BY <1>2, CallStep, Zenon
  <1>3. CASE UNCHANGED vars
    BY <1>3 DEF vars, Sane, TypeOK, OneInside, Commands, CommandOf, Between, Settled,
                Completions, Quiet, Finished
  <1> QED BY <1>1, <1>2, <1>3, HandlerStep, DiskDoneStep, SpuriousStep, IdentifyStep, Zenon
          DEF Next, Work

\* The types and the exclusion, whether or not a wait was given up.
LEMMA ExcludedNext ==
  ASSUME Excluded, [Next]_vars
  PROVE  Excluded'
  <1> USE DEF Excluded
  <1>1. dev \in DevType
    BY DEF TypeOK, DevType
  <1>2. ASSUME NEW t \in Thread, NEW p \in Places, pc' = [pc EXCEPT ![t] = p],
               p # "idle", pc[t] # "idle", lock' = lock
        PROVE  pc' \in [Thread -> Places] /\ OneInside'
    BY <1>2 DEF TypeOK, OneInside
  <1>3. ASSUME NEW t \in Thread, pc' = [pc EXCEPT ![t] = "idle"], pc[t] # "idle", lock' = NULL
        PROVE  pc' \in [Thread -> Places] /\ OneInside'
    BY <1>3, IdeAssumption DEF TypeOK, OneInside, Places
  <1>4. ASSUME NEW t \in Thread, Inside(t) PROVE Excluded'
    <2>1. CASE select_sector(t)
      <3>1. pc' \in [Thread -> Places] /\ OneInside'
        BY <1>2, <2>1 DEF select_sector, Places
      <3>2. \E s \in Sector : regs' = Registers(s)
        BY <2>1 DEF select_sector, TypeOK, Request
      <3> QED BY <2>1, <3>1, <3>2 DEF select_sector, TypeOK
    <2>2. CASE issue_pio_command(t)
      <3>1. pc' \in [Thread -> Places] /\ OneInside'
        BY <1>2, <2>2 DEF issue_pio_command, Places
      <3>2. dev' \in DevType
        <4>1. Addressed(regs) \in Sector
          BY RegistersSelect
        <4> QED BY <1>1, <2>2, <4>1 DEF issue_pio_command, DevType
      <3> QED BY <2>2, <3>1, <3>2 DEF issue_pio_command, TypeOK, Expected, DevType
    <2>3. CASE output_sector(t)
      <3>1. pc' \in [Thread -> Places] /\ OneInside'
        BY <1>2, <2>3 DEF output_sector, Places
      <3>2. dev' \in DevType
        BY <1>1, <2>3 DEF output_sector, DevType, TypeOK, Request
      <3> QED BY <2>3, <3>1, <3>2 DEF output_sector, TypeOK, DevType
    <2>4. CASE Completed(t) /\ lock' = lock
      <3>1. /\ pc[t] = "sleep" /\ completion_wait' \in Nat /\ pc' = [pc EXCEPT ![t] = "input"]
            /\ UNCHANGED <<lock, req, written, expecting_interrupt, regs, dev, irq, disk, spurious, timed_out>>
        BY <2>4, IdeAssumption DEF Completed, UnitTaken, TypeOK, OneInside
      <3>2. pc' \in [Thread -> Places] /\ OneInside'
        BY <1>2, <3>1 DEF Places
      <3> QED BY <3>1, <3>2 DEF TypeOK
    <2>5. CASE Completed(t) /\ lock' # lock
      <3>1. /\ pc[t] = "sleep" /\ completion_wait' \in Nat /\ pc' = [pc EXCEPT ![t] = "idle"]
            /\ lock' = NULL /\ req' = [req EXCEPT ![t] = NoRequest]
            /\ written' = [written EXCEPT ![req[t].sec] = req[t].data]
            /\ UNCHANGED <<expecting_interrupt, regs, dev, irq, disk, spurious, timed_out>>
        BY <2>5 DEF Completed, UnitTaken, TypeOK
      <3>2. pc' \in [Thread -> Places] /\ OneInside'
        BY <1>3, <3>1
      <3>3. req' \in [Thread -> Request] /\ written' \in [Sector -> Data]
        BY <3>1, InitTypes DEF TypeOK, Request
      <3> QED BY <3>1, <3>2, <3>3 DEF TypeOK
    <2>6. CASE input_sector(t)
      <3>1. pc' \in [Thread -> Places] /\ OneInside'
        BY <1>3, <2>6 DEF input_sector
      <3>2. dev' \in DevType /\ req' \in [Thread -> Request]
        BY <1>1, <2>6, InitTypes DEF input_sector, DevType, TypeOK
      <3> QED BY <2>6, <3>1, <3>2 DEF input_sector, TypeOK, DevType
    <2>7. CASE DiskFailed(t)
      <3>1. pc' \in [Thread -> Places] /\ OneInside'
        BY <1>2, <2>7 DEF DiskFailed, Places
      <3> QED BY <2>7, <3>1 DEF DiskFailed, TypeOK
    <2> QED BY <1>4, <2>1, <2>2, <2>3, <2>4, <2>5, <2>6, <2>7 DEF Inside
  <1>5. ASSUME NEW t \in Thread, NEW q \in Request, Call(t, q) PROVE Excluded'
    <2>1. pc' \in [Thread -> Places] /\ req' \in [Thread -> Request]
      BY <1>5 DEF Call, TypeOK, Places
    <2>2. OneInside'
      BY <1>5, IdeAssumption DEF Call, ChannelFree, TypeOK, OneInside
    <2> QED BY <1>5, <2>1, <2>2 DEF Call, TypeOK
  <1>6. CASE interrupt_handler \/ SpuriousInterrupt \/ Identify
    <2>1. completion_wait' \in Nat /\ spurious' \in Nat
      BY <1>6 DEF interrupt_handler, SpuriousInterrupt, Identify, UpIfExpected, TypeOK
    <2> QED BY <1>6, <2>1 DEF interrupt_handler, SpuriousInterrupt, Identify, Acknowledged,
                              Expected, TypeOK, OneInside
  <1>7. CASE DiskDone
    <2>1. dev' \in DevType /\ disk' \in [Sector -> Data]
      BY <1>1, <1>7 DEF DiskDone, DevType, TypeOK
    <2> QED BY <1>7, <2>1 DEF DiskDone, TypeOK, DevType, OneInside
  <1>8. CASE UNCHANGED vars
    BY <1>8 DEF vars, TypeOK, OneInside
  <1> QED BY <1>4, <1>5, <1>6, <1>7, <1>8 DEF Next, Work

\* A wait is given up only after a spurious interrupt.
LEMMA TimedOutNext ==
  ASSUME IInv, [Next]_vars, timed_out'
  PROVE  spurious' # 0
  <1>1. spurious \in Nat /\ (spurious' = spurious \/ spurious' = spurious + 1)
    BY DEF IInv, Excluded, TypeOK, Next, Work, Inside, vars, Call, select_sector,
           issue_pio_command, output_sector, Completed, input_sector, DiskFailed, Identify,
           interrupt_handler, DiskDone, SpuriousInterrupt
  <1>2. CASE timed_out
    BY <1>1, <1>2 DEF IInv
  <1>3. CASE ~ timed_out
    <2>1. PICK t \in Thread : select_sector(t)
      BY <1>3 DEF Next, Work, Inside, vars, Call, issue_pio_command, output_sector, Completed,
                  input_sector, DiskFailed, Identify, interrupt_handler, DiskDone, SpuriousInterrupt
    <2>2. dev.st # "idle" /\ pc[t] = "select"
      BY <1>3, <2>1 DEF select_sector
    <2>3. lock = t /\ lock # NULL /\ Sane
      BY <1>3, <2>2, Holder DEF IInv
    <2> QED BY <1>1, <2>2, <2>3 DEF Sane, Completions
  <1> QED BY <1>2, <1>3

\* The invariant is inductive.
LEMMA NextIInv == IInv /\ [Next]_vars => IInv'
  <1> SUFFICES ASSUME IInv, [Next]_vars PROVE IInv'
    OBVIOUS
  <1>1. timed_out => timed_out'
    BY DEF IInv, Excluded, TypeOK, Next, Work, Inside, vars, Call, select_sector,
           issue_pio_command, output_sector, Completed, input_sector, DiskFailed, Identify,
           interrupt_handler, DiskDone, SpuriousInterrupt
  <1> QED BY <1>1, ExcludedNext, SaneNext, TimedOutNext DEF IInv

\* The invariant holds throughout ide_read(), ide_write() and
\* interrupt_handler(), in any order.
THEOREM Invariance == Spec => []IInv
  BY InitIInv, NextIInv, PTL DEF Spec

\* What the invariant says when the channel is free or a read is at its end.
LEMMA IInvImplies == IInv => NoStaleCompletion
  <1> SUFFICES ASSUME IInv PROVE NoStaleCompletion
    OBVIOUS
  <1>1. \A t \in Thread : pc[t] # "idle" <=> lock = t
    BY DEF IInv, Excluded, OneInside
  <1>2. ASSUME NEW t \in Thread, pc[t] = "input", dev.st = "drq_read", ~ timed_out
        PROVE  dev.data = written[req[t].sec]
    BY <1>2, Holder DEF IInv, CommandOf
  <1>3. ASSUME spurious = 0
        PROVE  /\ \A t \in Thread : pc[t] # "panic"
               /\ lock = NULL => completion_wait = 0 /\ ~ irq /\ dev.st = "idle" /\ disk = written
    <2>1. Sane
      BY <1>3 DEF IInv
    <2>2. \A t \in Thread : pc[t] = "panic" => lock = t /\ lock # NULL
      BY <1>1, IdeAssumption
    <2> QED BY <1>3, <2>1, <2>2 DEF Sane, Completions, Quiet, Commands, Between, Settled
  <1> QED BY <1>1, <1>2, <1>3 DEF NoStaleCompletion

\* ide_read(), ide_write() and interrupt_handler(), for any threads, sectors and
\* data: commands do not overlap; reads return what was written last, even after
\* spurious interrupts, as long as no wait for an idle disk is given up; and without
\* spurious interrupts each command takes its own completion and none fails.
THEOREM CompletionsAreOwn == Spec => [](TypeOK /\ NoStaleCompletion)
  <1>1. IInv => TypeOK
    BY DEF IInv, Excluded
  <1> QED BY <1>1, Invariance, IInvImplies, PTL
-----------------------------------------------------------------------------
\* Devices are probed in the order of their names.
Pos(d) == 2 * d[1] + d[2]
Here == 2 * at.chan + at.dev_no
DeviceOf(d) == bus[d[1]][d[2]]
Current == <<at.chan, at.dev_no>>

ProbePlace == {"reset", "identify", "hung", "scan", "locate", "done", "panic"}
Frame == [sector : Nat, primary_extended_sector : Nat, i : Nat]
Type == {"raw", "kernel", "filesys", "scratch", "swap", "foreign"}
Block == [name : Nat \X Nat, type : Type, chan : 0 .. 1, dev_no : 0 .. 1, start : Nat, size : Nat]

ProbeTypeOK ==
  /\ bus \in Bus
  /\ boot \in ProbePlace
  /\ at \in [chan : 0 .. 2, dev_no : 0 .. 1]
  /\ boot \in {"reset", "identify", "scan"} => at.chan \in 0 .. 1
  /\ boot \in {"reset", "locate", "done", "panic"} => at.dev_no = 0
  /\ boot \in {"locate", "done", "panic"} => at.chan = 2
  /\ DOMAIN is_ata = 0 .. 1
  /\ all_blocks \in Seq(Block)
  /\ stack \in Seq(Frame)
  /\ part_nr \in Nat

\* What check_device_type() found out about the devices that are yet to be
\* identified.
Detected(d) ==
  /\ P!IsAta(P!Registers(bus[at.chan][d]), d)
  /\ d = 1 => P!SlavePossible(P!Registers(bus[at.chan][0]))
DetectedOK ==
  /\ boot = "identify" => (is_ata[at.dev_no] <=> Detected(at.dev_no))
  /\ boot \in {"identify", "scan"} => (is_ata[1] <=> Detected(1)) \/ at.dev_no = 1

\* A block lies within its disk, and is named for it.
BlockOK(b) ==
  /\ <<b.chan, b.dev_no>> \in P!Disks
  /\ b.name[1] = 2 * b.chan + b.dev_no
  /\ b.start + b.size <= bus[b.chan][b.dev_no].capacity
  /\ b.type = "raw" <=> b.name[2] = 0

\* Blocks are registered in the order of their names.
Before(m, n) == m[1] < n[1] \/ (m[1] = n[1] /\ m[2] < n[2])
SortedBlocks ==
  /\ \A i, j \in 1 .. Len(all_blocks) : i < j => Before(all_blocks[i].name, all_blocks[j].name)
  /\ \A i \in 1 .. Len(all_blocks) :
       \/ all_blocks[i].name[1] < Here
       \/ boot = "scan" /\ all_blocks[i].name[1] = Here /\ all_blocks[i].name[2] <= part_nr

BlocksOK == \A i \in 1 .. Len(all_blocks) : BlockOK(all_blocks[i])

\* The disks that have been reached have a block.
Reached(d) == Pos(d) < Here \/ (boot = "scan" /\ d = Current)
DisksOK ==
  \A d \in P!Disks : Reached(d) =>
    \E i \in 1 .. Len(all_blocks) : d = <<all_blocks[i].chan, all_blocks[i].dev_no>>

\* The partitions among the blocks of a disk, and those that the first entries of
\* its table describe.
PartitionsOn(d) == {b \in P!On(d) : b.type # "raw"}
Plain(d) == \A n \in DOMAIN P!Partitions(DeviceOf(d)) : ~ P!Extended(P!Partitions(DeviceOf(d))[n])
Valid(d, n) ==
  LET e == P!Partitions(DeviceOf(d))[n]
  IN ~ P!Empty(e) /\ e.offset + e.size <= DeviceOf(d).capacity
Described(d, n) ==
  LET e == P!Partitions(DeviceOf(d))[n]
  IN [name |-> <<2 * d[1] + d[2], P!NumberOf(P!Partitions(DeviceOf(d)), n)>>,
      type |-> P!BlockType(e.type),
      chan |-> d[1], dev_no |-> d[2], start |-> e.offset, size |-> e.size]
PrimaryUpTo(d, m) ==
  {Described(d, n) : n \in {k \in DOMAIN P!Partitions(DeviceOf(d)) : k <= m /\ Valid(d, k)}}

\* A disk without extended partitions: those that are done, and the one that
\* is being scanned.
PrimaryOK ==
  \A d \in P!Disks : Plain(d) /\ Pos(d) < Here => PartitionsOn(d) = P!Primary(d)
ScanOK ==
  boot = "scan" =>
    /\ Current \in P!Disks
    /\ Plain(Current) =>
         /\ stack = <<>> => PartitionsOn(Current) = P!Primary(Current)
         /\ stack # <<>> =>
              /\ Len(stack) = 1 /\ stack[1].sector = 0
              /\ stack[1].i <= Len(P!Partitions(DeviceOf(Current))) + 1
              /\ stack[1].i > 0 => P!TableIn(0).signature
              /\ part_nr = P!NumberOf(P!Partitions(DeviceOf(Current)), stack[1].i - 1)
              /\ PartitionsOn(Current) = PrimaryUpTo(Current, stack[1].i - 1)

\* A role has the block of its option's name, or the first of its type.
RoleOK(r) ==
  block_by_role[r] # NULL =>
    \E i \in 1 .. Len(all_blocks) :
      /\ block_by_role[r] = all_blocks[i]
      /\ bdev_name[r] # NULL => all_blocks[i].name = bdev_name[r]
      /\ bdev_name[r] = NULL =>
           all_blocks[i].type = r /\ \A k \in 1 .. i - 1 : all_blocks[k].type # r
RolesOK == \A r \in P!Role : IF boot = "done" THEN RoleOK(r) ELSE block_by_role[r] = NULL

ProbeIInv ==
  /\ ProbeTypeOK /\ DetectedOK /\ BlocksOK /\ SortedBlocks
  /\ DisksOK /\ PrimaryOK /\ ScanOK /\ RolesOK
-----------------------------------------------------------------------------
LEMMA WhereAt ==
  ASSUME ProbeTypeOK, boot \in {"reset", "identify", "scan"}
  PROVE  /\ at.chan \in 0 .. 1 /\ at.dev_no \in 0 .. 1 /\ Here \in 0 .. 3
         /\ Current \in P!Channel \X (0 .. 1) /\ Pos(Current) = Here
         /\ at = [chan |-> at.chan, dev_no |-> at.dev_no]
         /\ \A d \in P!Channel \X (0 .. 1) : Pos(d) \in 0 .. 3 /\ (Pos(d) = Here => d = Current)
  <1>1. /\ at.chan \in 0 .. 1 /\ at.dev_no \in 0 .. 1
        /\ at = [chan |-> at.chan, dev_no |-> at.dev_no]
    BY DEF ProbeTypeOK
  <1>2. Here \in 0 .. 3 /\ Pos(Current) = Here /\ Current \in P!Channel \X (0 .. 1)
    BY <1>1 DEF Here, Pos, Current, P!Channel
  <1>3. ASSUME NEW d \in P!Channel \X (0 .. 1)
        PROVE  Pos(d) \in 0 .. 3 /\ (Pos(d) = Here => d = Current)
    <2>1. d = <<d[1], d[2]>> /\ d[1] \in 0 .. 1 /\ d[2] \in 0 .. 1
      BY DEF P!Channel
    <2>2. Pos(d) = Here => d[1] = at.chan /\ d[2] = at.dev_no
      BY <1>1, <2>1 DEF Pos, Here
    <2> QED BY <2>1, <2>2 DEF Current, Pos
  <1> QED BY <1>1, <1>2, <1>3

\* What identify_ata_device() is called for and what it makes of the answer.
LEMMA IgnoredExact ==
  ASSUME ProbeTypeOK, DetectedOK, boot = "identify"
  PROVE  P!Ignored <=> Current \notin P!Disks
  <1>1. at.chan \in 0 .. 1 /\ at.dev_no \in 0 .. 1 /\ Current \in P!Channel \X (0 .. 1)
    BY WhereAt
  <1> DEFINE v == bus[at.chan][at.dev_no]
  <1>2. /\ v.capacity \in Nat
        /\ v.answers = "data" => v.what = "disk"
        /\ v.what = "disk" => Detected(at.dev_no)
    BY <1>1, BusAssumption DEF ProbeTypeOK, Detected
  <1>3. Current \in P!Disks <=> v.what = "disk" /\ v.answers = "data" /\ v.capacity < MaxCapacity
    BY <1>1 DEF P!Disks, Current
  <1>4. P!Ignored <=> ~ is_ata[at.dev_no] \/ v.answers # "data" \/ v.capacity >= MaxCapacity
    BY DEF P!Ignored, P!Device
  <1> QED BY <1>2, <1>3, <1>4, BusAssumption DEF DetectedOK

\* The boot begins with no block and no role.
LEMMA ProbeInit == P!Init => ProbeIInv
  <1> SUFFICES ASSUME P!Init PROVE ProbeIInv
    OBVIOUS
  <1>1. ProbeTypeOK
    BY DEF P!Init, ProbeTypeOK, ProbePlace
  <1>2. at = [chan |-> 0, dev_no |-> 0] /\ boot = "reset" /\ all_blocks = <<>>
    BY DEF P!Init
  <1>3. Here = 0 /\ \A d \in P!Disks : ~ (Pos(d) < Here)
    <2>1. \A d \in P!Disks : d[1] \in 0 .. 1 /\ d[2] \in 0 .. 1
      BY DEF P!Disks, P!Channel
    <2> QED BY <1>2, <2>1 DEF Here, Pos
  <1>4. DetectedOK /\ BlocksOK /\ SortedBlocks /\ DisksOK /\ PrimaryOK /\ ScanOK
    BY <1>2, <1>3 DEF DetectedOK, BlocksOK, SortedBlocks, DisksOK, PrimaryOK, ScanOK, Reached
  <1>5. RolesOK
    BY DEF P!Init, RolesOK
  <1> QED BY <1>1, <1>4, <1>5 DEF ProbeIInv

\* The loops over the devices go on.
LEMMA NextDevice ==
  ASSUME ProbeTypeOK, boot \in {"identify", "scan"}, P!NextDevice
  PROVE  /\ Here' = Here + 1
         /\ boot' \in {"identify", "reset", "locate"}
         /\ at' \in [chan : 0 .. 2, dev_no : 0 .. 1]
         /\ boot' = "identify" => at.dev_no = 0 /\ at'.dev_no = 1 /\ at'.chan = at.chan
         /\ boot' # "identify" => at'.dev_no = 0
         /\ boot' # "locate" => at'.chan \in 0 .. 1
         /\ boot' = "locate" => at'.chan = 2
  <1>1. at.chan \in 0 .. 1 /\ at.dev_no \in 0 .. 1 /\ at = [chan |-> at.chan, dev_no |-> at.dev_no]
    BY WhereAt
  <1>2. CASE at.dev_no = 0
    BY <1>1, <1>2 DEF P!NextDevice, Here
  <1>3. CASE at.dev_no # 0
    BY <1>1, <1>3 DEF P!NextDevice, Here, P!Channel
  <1> QED BY <1>2, <1>3

\* What depends on the disks and the blocks alone.
LEMMA SameBlocks ==
  ASSUME UNCHANGED <<bus, all_blocks>>
  PROVE  /\ P!Disks' = P!Disks
         /\ BlocksOK => BlocksOK'
         /\ \A d : Plain(d)' = Plain(d) /\ PartitionsOn(d)' = PartitionsOn(d)
         /\ \A d : P!Primary(d)' = P!Primary(d)
         /\ \A d, n : PrimaryUpTo(d, n)' = PrimaryUpTo(d, n)
         /\ \A d : DeviceOf(d)' = DeviceOf(d)
  <1>1. P!Disks' = P!Disks
    BY DEF P!Disks
  <1>2. BlocksOK => BlocksOK'
    BY <1>1 DEF BlocksOK, BlockOK
  <1> QED BY <1>1, <1>2 DEF Plain, PartitionsOn, P!On, P!Primary, PrimaryUpTo, Valid, Described, DeviceOf

\* A step of the scan that registers nothing.
LEMMA ScanFrame ==
  ASSUME ProbeIInv, boot = "scan", stack' \in Seq(Frame), ScanOK',
         UNCHANGED <<bus, bdev_name, boot, at, is_ata, all_blocks, part_nr, block_by_role>>
  PROVE  ProbeIInv'
  <1> USE DEF ProbeIInv
  <1>1. Here' = Here /\ Current' = Current
    BY DEF Here, Current
  <1>2. ProbeTypeOK'
    BY DEF ProbeTypeOK
  <1>3. DetectedOK'
    BY DEF DetectedOK, Detected
  <1>4. BlocksOK' /\ SortedBlocks'
    BY <1>1, SameBlocks DEF SortedBlocks
  <1>5. DisksOK'
    BY <1>1, SameBlocks DEF DisksOK, Reached
  <1>6. PrimaryOK'
    BY <1>1, SameBlocks DEF PrimaryOK
  <1>7. RolesOK'
    BY DEF RolesOK, RoleOK
  <1> QED BY <1>2, <1>3, <1>4, <1>5, <1>6, <1>7

\* The stack of calls.
LEMMA StackFacts ==
  ASSUME ProbeTypeOK, stack # <<>>
  PROVE  /\ Len(stack) \in Nat \ {0} /\ P!Top \in Frame /\ P!Top = stack[Len(stack)]
         /\ P!Returned \in Seq(Frame) /\ Len(P!Returned) = Len(stack) - 1
         /\ \A n \in Nat : /\ [stack EXCEPT ![Len(stack)].i = n] \in Seq(Frame)
                           /\ Len([stack EXCEPT ![Len(stack)].i = n]) = Len(stack)
                           /\ [stack EXCEPT ![Len(stack)].i = n][Len(stack)] = [P!Top EXCEPT !.i = n]
  <1>1. stack \in Seq(Frame) /\ Len(stack) \in Nat \ {0} /\ stack[Len(stack)] \in Frame
    BY DEF ProbeTypeOK
  <1>2. P!Top = stack[Len(stack)]
    BY DEF P!Top, P!Last
  <1>3. P!Returned \in Seq(Frame) /\ Len(P!Returned) = Len(stack) - 1
    <2>1. P!Returned = SubSeq(stack, 1, Len(stack) - 1)
      BY DEF P!Returned, P!Front
    <2>2. Len(stack) - 1 \in Nat /\ Len(stack) - 1 <= Len(stack)
      BY <1>1
    <2>3. \A m \in Nat : m <= Len(stack) => SubSeq(stack, 1, m) \in Seq(Frame) /\ Len(SubSeq(stack, 1, m)) = m
      BY <1>1
    <2> QED BY <2>1, <2>2, <2>3
  <1>4. ASSUME NEW n \in Nat
        PROVE  /\ [stack EXCEPT ![Len(stack)].i = n] \in Seq(Frame)
               /\ Len([stack EXCEPT ![Len(stack)].i = n]) = Len(stack)
               /\ [stack EXCEPT ![Len(stack)].i = n][Len(stack)] = [P!Top EXCEPT !.i = n]
    <2> DEFINE f == [stack[Len(stack)] EXCEPT !.i = n]
    <2>1. f \in Frame
      BY <1>1 DEF Frame
    <2>2. [stack EXCEPT ![Len(stack)].i = n] = [stack EXCEPT ![Len(stack)] = f]
      OBVIOUS
    <2> HIDE DEF f
    <2>3. [stack EXCEPT ![Len(stack)] = f] \in Seq(Frame) /\ Len([stack EXCEPT ![Len(stack)] = f]) = Len(stack)
      BY <1>1, <2>1
    <2>4. [stack EXCEPT ![Len(stack)] = f][Len(stack)] = f
      BY <1>1
    <2> QED BY <1>2, <2>2, <2>3, <2>4 DEF f
  <1> QED BY <1>1, <1>2, <1>3, <1>4

\* The table that is scanned is the one that the partitions come from.
LEMMA TableFacts ==
  ASSUME ProbeTypeOK, boot = "scan"
  PROVE  /\ P!Table = P!TableIn(0) /\ P!Device = DeviceOf(Current)
         /\ P!Table.partitions \in Seq(Partition)
         /\ P!TableIn(0).signature => P!Partitions(DeviceOf(Current)) = P!Table.partitions
         /\ ~ P!TableIn(0).signature => P!Partitions(DeviceOf(Current)) = <<>>
         /\ P!Partitions(DeviceOf(Current)) \in Seq(Partition)
         /\ DeviceOf(Current).capacity \in Nat
  <1> DEFINE v == bus[at.chan][at.dev_no]
  <1>1. v.capacity \in Nat /\ \A s \in DOMAIN v.tables : v.tables[s].partitions \in Seq(Partition)
    BY WhereAt, BusAssumption DEF ProbeTypeOK
  <1>2. P!Table = P!TableIn(0) /\ P!Device = v /\ DeviceOf(Current) = v
    BY DEF P!Table, P!TableSector, P!Device, DeviceOf, Current
  <1> HIDE DEF v
  <1>3. CASE 0 \in DOMAIN v.tables
    BY <1>1, <1>2, <1>3 DEF P!TableIn, P!Partitions
  <1>4. CASE 0 \notin DOMAIN v.tables
    <2>1. <<>> \in Seq(Partition)
      OBVIOUS
    <2>2. P!TableIn(0) = [signature |-> FALSE, partitions |-> <<>>]
      BY <1>2, <1>4 DEF P!TableIn
    <2>3. P!Partitions(v) = <<>>
      BY <1>4 DEF P!Partitions
    <2>4. P!Table.partitions = <<>> /\ P!TableIn(0).signature = FALSE
      BY <1>2, <2>2
    <2> QED BY <1>1, <1>2, <2>1, <2>3, <2>4
  <1> QED BY <1>3, <1>4

\* Entries are numbered as they are met.
LEMMA Numbers ==
  ASSUME NEW ps \in Seq(Partition), NEW n \in 0 .. Len(ps)
  PROVE  /\ P!NumberOf(ps, n) \in Nat
         /\ P!NumberOf(ps, 0) = 0 /\ P!NumberOf(ps, -1) = 0
         /\ n > 0 => P!NumberOf(ps, n) =
              IF P!Empty(ps[n]) THEN P!NumberOf(ps, n - 1) ELSE P!NumberOf(ps, n - 1) + 1
         /\ n > 0 => P!NumberOf(ps, n - 1) \in Nat
  <1> DEFINE S(m) == {k \in 1 .. m : ~ P!Empty(ps[k])}
  <1>1. \A m \in Int : IsFiniteSet(S(m))
    <2> SUFFICES ASSUME NEW m \in Int PROVE IsFiniteSet(S(m))
      OBVIOUS
    <2>1. IsFiniteSet(1 .. m)
      BY FS_Interval
    <2> QED BY <2>1, FS_Subset
  <1>2. \A m \in Int : Cardinality(S(m)) \in Nat
    BY <1>1, FS_CardinalityType
  <1>3. S(0) = {} /\ S(-1) = {}
    OBVIOUS
  <1>4. Cardinality(S(0)) = 0 /\ Cardinality(S(-1)) = 0
    BY <1>3, FS_EmptySet
  <1>5. ASSUME n > 0
        PROVE  Cardinality(S(n)) = IF P!Empty(ps[n]) THEN Cardinality(S(n - 1)) ELSE Cardinality(S(n - 1)) + 1
    <2>1. S(n) = IF P!Empty(ps[n]) THEN S(n - 1) ELSE S(n - 1) \union {n}
      BY <1>5
    <2>2. n \notin S(n - 1)
      OBVIOUS
    <2>3. IsFiniteSet(S(n - 1))
      BY <1>1
    <2> HIDE DEF S
    <2> QED BY <2>1, <2>2, <2>3, FS_AddElement
  <1>6. \A m : P!NumberOf(ps, m) = Cardinality(S(m))
    <2>1. \A A : P!Cardinality(A) = Cardinality(A)
      BY DEF P!Cardinality, Cardinality
    <2> QED BY <2>1, Zenon DEF P!NumberOf
  <1> HIDE DEF S
  <1> QED BY <1>2, <1>4, <1>5, <1>6

\* The partitions of a table, entry by entry.
LEMMA Primaries ==
  ASSUME NEW d, P!Partitions(DeviceOf(d)) \in Seq(Partition), DeviceOf(d).capacity \in Nat
  PROVE  /\ PrimaryUpTo(d, 0) = {} /\ PrimaryUpTo(d, -1) = {}
         /\ PrimaryUpTo(d, Len(P!Partitions(DeviceOf(d)))) = P!Primary(d)
         /\ \A n \in 1 .. Len(P!Partitions(DeviceOf(d))) :
              /\ Valid(d, n) => PrimaryUpTo(d, n) = PrimaryUpTo(d, n - 1) \union {Described(d, n)}
              /\ ~ Valid(d, n) => PrimaryUpTo(d, n) = PrimaryUpTo(d, n - 1)
         /\ DeviceOf(d).capacity = 0 \/ P!Partitions(DeviceOf(d)) = <<>> => P!Primary(d) = {}
  <1> DEFINE ps == P!Partitions(DeviceOf(d))
  <1>1. DOMAIN ps = 1 .. Len(ps) /\ Len(ps) \in Nat
    OBVIOUS
  <1>2. PrimaryUpTo(d, 0) = {} /\ PrimaryUpTo(d, -1) = {}
    <2>1. \A k \in DOMAIN ps : ~ (k <= 0) /\ ~ (k <= -1)
      BY <1>1
    <2> QED BY <2>1 DEF PrimaryUpTo
  <1>3. PrimaryUpTo(d, Len(ps)) = P!Primary(d)
    <2>1. P!Primary(d) = {Described(d, n) : n \in {k \in DOMAIN ps : Valid(d, k)}}
      BY DEF P!Primary, Valid, Described, DeviceOf
    <2>2. {k \in DOMAIN ps : Valid(d, k)} = {k \in DOMAIN ps : k <= Len(ps) /\ Valid(d, k)}
      BY <1>1
    <2> QED BY <2>1, <2>2 DEF PrimaryUpTo
  <1>4. ASSUME NEW n \in 1 .. Len(ps)
        PROVE  /\ Valid(d, n) => PrimaryUpTo(d, n) = PrimaryUpTo(d, n - 1) \union {Described(d, n)}
               /\ ~ Valid(d, n) => PrimaryUpTo(d, n) = PrimaryUpTo(d, n - 1)
    <2> DEFINE K(m) == {k \in DOMAIN ps : k <= m /\ Valid(d, k)}
    <2>1. (Valid(d, n) => K(n) = K(n - 1) \union {n}) /\ (~ Valid(d, n) => K(n) = K(n - 1))
      BY <1>1
    <2>2. \A m : PrimaryUpTo(d, m) = {Described(d, k) : k \in K(m)}
      BY DEF PrimaryUpTo
    <2> HIDE DEF K, ps
    <2>3. ASSUME Valid(d, n)
          PROVE  PrimaryUpTo(d, n) = PrimaryUpTo(d, n - 1) \union {Described(d, n)}
      <3>1. K(n) = K(n - 1) \union {n}
        BY <2>1, <2>3
      <3> QED BY <2>2, <3>1
    <2>4. ~ Valid(d, n) => PrimaryUpTo(d, n) = PrimaryUpTo(d, n - 1)
      BY <2>1, <2>2
    <2> QED BY <2>3, <2>4
  <1>5. DeviceOf(d).capacity = 0 \/ ps = <<>> => P!Primary(d) = {}
    <2>1. ps = <<>> => DOMAIN ps = {}
      OBVIOUS
    <2>2. DeviceOf(d).capacity = 0 => \A k \in DOMAIN ps : ~ Valid(d, k)
      <3> SUFFICES ASSUME DeviceOf(d).capacity = 0, NEW k \in DOMAIN ps PROVE ~ Valid(d, k)
        OBVIOUS
      <3>1. ps[k] \in Partition
        BY <1>1
      <3>2. WORD \in Nat
        BY BusAssumption
      <3>3. ps[k].offset \in Nat /\ ps[k].size \in Nat
        BY ONLY <3>1, <3>2 DEF Partition
      <3>4. ps[k].size = 0 => P!Empty(ps[k])
        BY DEF P!Empty
      <3> QED BY <3>3, <3>4 DEF Valid
    <2>3. (\A k \in DOMAIN ps : ~ Valid(d, k)) => P!Primary(d) = {}
      BY <1>3 DEF PrimaryUpTo
    <2> QED BY <2>1, <2>2, <2>3
  <1> QED BY <1>2, <1>3, <1>4, <1>5

\* A disk without extended partitions has one call, which is at an entry.
LEMMA PlainScan ==
  ASSUME ProbeIInv, boot = "scan", stack # <<>>, Plain(Current)
  PROVE  /\ Len(stack) = 1 /\ P!Top = stack[1] /\ P!Top.sector = 0 /\ P!Returned = <<>>
         /\ P!Top.i \in 0 .. Len(P!Partitions(DeviceOf(Current))) + 1
         /\ P!Top.i > 0 => P!TableIn(0).signature
         /\ part_nr = P!NumberOf(P!Partitions(DeviceOf(Current)), P!Top.i - 1)
         /\ PartitionsOn(Current) = PrimaryUpTo(Current, P!Top.i - 1)
  <1>1. /\ Len(stack) = 1 /\ P!Top = stack[1] /\ P!Top \in Frame
        /\ Len(P!Returned) = 0 /\ P!Returned \in Seq(Frame)
    <2>1. Len(stack) = 1
      BY DEF ProbeIInv, ScanOK
    <2>2. /\ P!Top \in Frame /\ P!Top = stack[Len(stack)]
          /\ P!Returned \in Seq(Frame) /\ Len(P!Returned) = Len(stack) - 1
      BY StackFacts DEF ProbeIInv
    <2> QED BY <2>1, <2>2
  <1>2. P!Returned = <<>>
    BY <1>1
  <1>3. Len(P!Partitions(DeviceOf(Current))) \in Nat
    BY TableFacts DEF ProbeIInv
  <1>4. P!Top.i \in Nat
    BY <1>1 DEF Frame
  <1> QED BY <1>1, <1>2, <1>3, <1>4 DEF ProbeIInv, ScanOK

\* read_partition_table() returns at once: of the first table nothing is found.
LEMMA BadTableStep ==
  ASSUME ProbeIInv, P!BadTable
  PROVE  ProbeIInv'
  <1> USE DEF P!BadTable
  <1>1. stack' = P!Returned /\ stack' \in Seq(Frame)
    BY StackFacts DEF ProbeIInv
  <1>2. Current' = Current /\ P!Device' = P!Device
    BY DEF Current, P!Device
  <1>3. ASSUME Plain(Current)
        PROVE  stack' = <<>> /\ PartitionsOn(Current) = P!Primary(Current)
    <2>1. stack' = <<>> /\ PartitionsOn(Current) = {}
      BY <1>1, <1>3, PlainScan, Primaries, TableFacts DEF ProbeIInv
    <2>2. DeviceOf(Current).capacity = 0 \/ P!Partitions(DeviceOf(Current)) = <<>>
      BY <1>3, PlainScan, TableFacts DEF ProbeIInv
    <2> QED BY <2>1, <2>2, Primaries, TableFacts DEF ProbeIInv
  <1>4. ScanOK'
    BY <1>2, <1>3, SameBlocks DEF ProbeIInv, ScanOK
  <1> QED BY <1>1, <1>4, ScanFrame

\* read_partition_table() begins with the first entry.
LEMMA GoodTableStep ==
  ASSUME ProbeIInv, P!GoodTable
  PROVE  ProbeIInv'
  <1> USE DEF P!GoodTable
  <1>1. /\ stack' \in Seq(Frame) /\ Len(stack') = Len(stack)
        /\ stack'[Len(stack)] = [P!Top EXCEPT !.i = 1] /\ P!Top \in Frame
    BY StackFacts DEF ProbeIInv
  <1>2. Current' = Current /\ P!TableIn(0)' = P!TableIn(0)
    BY DEF Current, P!TableIn, P!Device
  <1>3. ASSUME Plain(Current)
        PROVE  /\ Len(stack') = 1 /\ stack'[1].sector = 0 /\ stack'[1].i = 1
               /\ P!TableIn(0).signature
               /\ part_nr = P!NumberOf(P!Partitions(DeviceOf(Current)), 0)
               /\ PartitionsOn(Current) = PrimaryUpTo(Current, 0)
    <2>1. /\ Len(stack) = 1 /\ P!Top.sector = 0
          /\ part_nr = P!NumberOf(P!Partitions(DeviceOf(Current)), -1)
          /\ PartitionsOn(Current) = PrimaryUpTo(Current, -1)
      BY <1>3, PlainScan
    <2>2. stack'[1].sector = 0 /\ stack'[1].i = 1
      BY <1>1, <2>1 DEF Frame
    <2>3. 0 \in 0 .. Len(P!Partitions(DeviceOf(Current)))
      BY TableFacts DEF ProbeIInv
    <2> QED BY <1>1, <2>1, <2>2, <2>3, Numbers, Primaries, TableFacts DEF ProbeIInv
  <1>4. Len(P!Partitions(DeviceOf(Current))) \in Nat
    BY TableFacts DEF ProbeIInv
  <1>5. ScanOK'
    BY <1>1, <1>2, <1>3, <1>4, SameBlocks DEF ProbeIInv, ScanOK
  <1> QED BY <1>1, <1>5, ScanFrame

\* read_partition_table() returns: every entry has been passed.
LEMMA EndOfTableStep ==
  ASSUME ProbeIInv, P!EndOfTable
  PROVE  ProbeIInv'
  <1> USE DEF P!EndOfTable
  <1>1. stack' = P!Returned /\ stack' \in Seq(Frame) /\ P!Top.i \in Nat
    BY StackFacts DEF ProbeIInv, Frame
  <1>2. Current' = Current
    BY DEF Current
  <1>3. ASSUME Plain(Current)
        PROVE  stack' = <<>> /\ PartitionsOn(Current) = P!Primary(Current)
    <2> DEFINE ps == P!Partitions(DeviceOf(Current))
    <2>1. /\ stack' = <<>> /\ PartitionsOn(Current) = PrimaryUpTo(Current, P!Top.i - 1)
          /\ P!Top.i \in 0 .. Len(ps) + 1 /\ (P!Top.i > 0 => P!TableIn(0).signature)
      BY <1>1, <1>3, PlainScan
    <2>2. Len(P!Table.partitions) \in Nat /\ Len(ps) \in Nat
      BY TableFacts DEF ProbeIInv
    <2>3. P!TableIn(0).signature /\ ps = P!Table.partitions
      BY <2>1, <2>2, TableFacts DEF ProbeIInv
    <2>4. P!Top.i - 1 = Len(ps)
      BY <1>1, <2>1, <2>2, <2>3
    <2> QED BY <2>1, <2>4, Primaries, TableFacts DEF ProbeIInv
  <1>4. ScanOK'
    BY <1>2, <1>3, SameBlocks DEF ProbeIInv, ScanOK
  <1> QED BY <1>1, <1>4, ScanFrame

\* At an entry of a disk without extended partitions.
LEMMA PlainEntry ==
  ASSUME ProbeIInv, P!AtEntry, Plain(Current)
  PROVE  /\ Len(stack) = 1 /\ P!Top.sector = 0 /\ P!TableIn(0).signature
         /\ P!Top.i \in 1 .. Len(P!Partitions(DeviceOf(Current)))
         /\ P!Entry = P!Partitions(DeviceOf(Current))[P!Top.i]
         /\ ~ P!Extended(P!Entry)
         /\ part_nr = P!NumberOf(P!Partitions(DeviceOf(Current)), P!Top.i - 1)
         /\ PartitionsOn(Current) = PrimaryUpTo(Current, P!Top.i - 1)
  <1>1. boot = "scan" /\ stack # <<>> /\ P!Top.i \in 1 .. Len(P!Table.partitions)
    BY DEF P!AtEntry
  <1>2. P!TableIn(0).signature /\ P!Partitions(DeviceOf(Current)) = P!Table.partitions
    BY <1>1, PlainScan, TableFacts DEF ProbeIInv
  <1>3. P!Entry = P!Partitions(DeviceOf(Current))[P!Top.i]
    BY <1>2 DEF P!Entry
  <1>4. ~ P!Extended(P!Entry)
    BY <1>1, <1>2, <1>3, TableFacts DEF Plain, ProbeIInv
  <1> QED BY <1>1, <1>2, <1>3, <1>4, PlainScan

\* The innermost call goes to its next entry.
LEMMA SteppedFacts ==
  ASSUME ProbeIInv, P!AtEntry
  PROVE  /\ boot = "scan" /\ stack # <<>> /\ P!Top \in Frame /\ P!Entry \in Partition
         /\ P!Stepped \in Seq(Frame) /\ Len(P!Stepped) = Len(stack)
         /\ P!Stepped[Len(stack)].i = P!Top.i + 1 /\ P!Stepped[Len(stack)].sector = P!Top.sector
  <1>1. boot = "scan" /\ stack # <<>> /\ P!Top.i \in 1 .. Len(P!Table.partitions)
    BY DEF P!AtEntry
  <1>2. P!Top \in Frame /\ P!Top = stack[Len(stack)] /\ P!Top.i + 1 \in Nat
    BY <1>1, StackFacts DEF ProbeIInv, Frame
  <1>3. P!Stepped = [stack EXCEPT ![Len(stack)].i = P!Top.i + 1]
    BY <1>2 DEF P!Stepped
  <1>4. P!Entry \in Partition
    BY <1>1, TableFacts DEF P!Entry, ProbeIInv
  <1>5. [P!Top EXCEPT !.i = P!Top.i + 1].i = P!Top.i + 1 /\ [P!Top EXCEPT !.i = P!Top.i + 1].sector = P!Top.sector
    BY <1>2 DEF Frame
  <1> QED BY <1>1, <1>2, <1>3, <1>4, <1>5, StackFacts DEF ProbeIInv

\* An empty entry is passed over and takes no number.
LEMMA EmptyEntryStep ==
  ASSUME ProbeIInv, P!EmptyEntry
  PROVE  ProbeIInv'
  <1> USE DEF P!EmptyEntry
  <1>1. /\ boot = "scan" /\ stack' \in Seq(Frame) /\ Len(stack') = Len(stack)
        /\ stack'[Len(stack)].i = P!Top.i + 1 /\ stack'[Len(stack)].sector = P!Top.sector
    BY SteppedFacts
  <1>2. Current' = Current /\ P!TableIn(0)' = P!TableIn(0)
    BY DEF Current, P!TableIn, P!Device
  <1>3. ASSUME Plain(Current)
        PROVE  /\ Len(stack') = 1 /\ stack'[1].sector = 0
               /\ stack'[1].i <= Len(P!Partitions(DeviceOf(Current))) + 1
               /\ P!TableIn(0).signature
               /\ part_nr = P!NumberOf(P!Partitions(DeviceOf(Current)), stack'[1].i - 1)
               /\ PartitionsOn(Current) = PrimaryUpTo(Current, stack'[1].i - 1)
    <2> DEFINE ps == P!Partitions(DeviceOf(Current))
               n == P!Top.i
    <2>1. /\ Len(stack) = 1 /\ P!Top.sector = 0 /\ P!TableIn(0).signature
          /\ n \in 1 .. Len(ps) /\ P!Empty(ps[n])
          /\ part_nr = P!NumberOf(ps, n - 1) /\ PartitionsOn(Current) = PrimaryUpTo(Current, n - 1)
      BY <1>3, PlainEntry
    <2>2. ps \in Seq(Partition) /\ Len(ps) \in Nat
      BY <1>1, TableFacts DEF ProbeIInv
    <2>3. P!NumberOf(ps, n) = P!NumberOf(ps, n - 1)
      BY <2>1, <2>2, Numbers
    <2>4. ~ Valid(Current, n)
      BY <2>1 DEF Valid
    <2>5. PrimaryUpTo(Current, n) = PrimaryUpTo(Current, n - 1)
      <3>1. DeviceOf(Current).capacity \in Nat
        BY <1>1, TableFacts DEF ProbeIInv
      <3> QED BY <2>1, <2>2, <2>4, <3>1, Primaries
    <2>6. stack'[1].i - 1 = n /\ stack'[1].i <= Len(ps) + 1
      BY <1>1, <2>1, <2>2
    <2> HIDE DEF ps, n
    <2> QED BY <1>1, <2>1, <2>3, <2>5, <2>6 DEF ps
  <1>4. stack' # <<>>
    BY <1>1, SteppedFacts, StackFacts DEF ProbeIInv
  <1>5. ScanOK'
    BY <1>1, <1>2, <1>3, <1>4, SameBlocks DEF ProbeIInv, ScanOK
  <1> QED BY <1>1, <1>5, ScanFrame

\* An extended partition is there only on disks that are not plain.
LEMMA ExtendedEntryStep ==
  ASSUME ProbeIInv, P!ExtendedEntry
  PROVE  ProbeIInv'
  <1> USE DEF P!ExtendedEntry
  <1>1. /\ boot = "scan" /\ P!Stepped \in Seq(Frame) /\ P!Top \in Frame /\ P!Entry \in Partition
    BY SteppedFacts
  <1>2. ~ Plain(Current)
    BY PlainEntry
  <1>3. PICK f : stack' = Append(P!Stepped, f) /\ f \in Frame
    <2> DEFINE s == (P!Entry.offset + P!Top.primary_extended_sector) % WORD
               f == IF P!Top.sector = 0 THEN P!Call(P!Entry.offset, P!Entry.offset)
                    ELSE P!Call(s, P!Top.primary_extended_sector)
    <2>1. P!Entry.offset \in 0 .. WORD - 1 /\ P!Top.primary_extended_sector \in Nat
      BY <1>1 DEF Partition, Frame
    <2>2. s \in Nat
      BY <2>1, BusAssumption
    <2>3. stack' = Append(P!Stepped, f)
      OBVIOUS
    <2> HIDE DEF s
    <2>4. f \in Frame
      BY <2>1, <2>2, BusAssumption DEF P!Call, Frame
    <2> QED BY <2>3, <2>4
  <1>4. stack' \in Seq(Frame)
    BY <1>1, <1>3
  <1>5. Current' = Current
    BY DEF Current
  <1>6. ScanOK'
    BY <1>1, <1>2, <1>5, SameBlocks DEF ProbeIInv, ScanOK
  <1> QED BY <1>1, <1>4, <1>6, ScanFrame

\* Sums of two words, as a word.
LEMMA WordSum ==
  ASSUME NEW W \in Nat \ {0}, NEW x \in Nat, x < W + W
  PROVE  /\ x < W => x % W = x
         /\ x >= W => x % W = x - W
  <1> DEFINE q == x \div W
             r == x % W
  <1>1. q \in Nat /\ r \in 0 .. W - 1 /\ x = W * q + r
    OBVIOUS
  <1> HIDE DEF q, r
  <1>2. q >= 1 => W * q >= W
    BY <1>1
  <1>3. q >= 2 => W * q >= W + W
    BY <1>1
  <1>4. W * q \in Nat
    BY <1>1
  <1>5. q = 0 => W * q = 0
    OBVIOUS
  <1>6. q = 1 => W * q = W
    OBVIOUS
  <1>7. x < W => q = 0
    BY <1>1, <1>2, <1>4
  <1>8. x >= W => q = 1
    <2>1. x >= W => q # 0
      BY <1>1, <1>5
    <2>2. ~ (q >= 2)
      BY <1>1, <1>3, <1>4
    <2> QED BY <1>1, <2>1, <2>2
  <1>9. (x < W => r = x) /\ (x >= W => r = x - W)
    BY <1>1, <1>5, <1>6, <1>7, <1>8
  <1> QED BY <1>9 DEF r

\* The test of found_partition() is right although its sum can wrap.
LEMMA FitsExact ==
  ASSUME NEW start \in 0 .. WORD - 1, NEW size \in 0 .. WORD - 1,
         P!Device.capacity \in Nat
  PROVE  /\ P!Fits(start, size) => start + size <= P!Device.capacity
         /\ size > 0 /\ P!Device.capacity < WORD /\ start + size <= P!Device.capacity => P!Fits(start, size)
  <1> DEFINE x == start + size
             e == x % WORD
  <1>1. WORD \in Nat \ {0} /\ x \in Nat /\ x < WORD + WORD
    BY BusAssumption
  <1>2. (x < WORD => e = x) /\ (x >= WORD => e = x - WORD)
    BY <1>1, WordSum
  <1>3. P!Fits(start, size) <=> start < P!Device.capacity /\ ~ (e < start \/ e > P!Device.capacity)
    BY DEF P!Fits
  <1> HIDE DEF e
  <1>4. start \in Nat /\ size \in Nat /\ size < WORD /\ start < WORD
    BY <1>1
  <1>5. ASSUME P!Fits(start, size) PROVE x <= P!Device.capacity
    <2>1. x < WORD
      BY <1>1, <1>2, <1>3, <1>4, <1>5
    <2> QED BY <1>2, <1>3, <1>5, <2>1
  <1>6. ASSUME size > 0, P!Device.capacity < WORD, x <= P!Device.capacity PROVE P!Fits(start, size)
    <2>1. x < WORD /\ e = x
      BY <1>1, <1>2, <1>6
    <2> QED BY <1>3, <1>4, <1>6, <2>1
  <1> QED BY <1>5, <1>6

\* found_partition() never makes a partition a raw block.
LEMMA BlockTypes ==
  ASSUME NEW n \in Nat
  PROVE  P!BlockType(n) \in Type /\ P!BlockType(n) # "raw"
  <1> DEFINE names == <<"kernel", "filesys", "scratch", "swap">>
  <1>1. \A k \in 1 .. 4 : names[k] \in {"kernel", "filesys", "scratch", "swap"}
    OBVIOUS
  <1>2. n \in 32 .. 35 => n - 31 \in 1 .. 4
    OBVIOUS
  <1>3. P!BlockType(n) = IF n \in 32 .. 35 THEN names[n - 31] ELSE "foreign"
    BY DEF P!BlockType
  <1> HIDE DEF names
  <1>4. n \in 32 .. 35 => P!BlockType(n) \in {"kernel", "filesys", "scratch", "swap"}
    BY <1>1, <1>2, <1>3
  <1>5. n \notin 32 .. 35 => P!BlockType(n) = "foreign"
    BY <1>3
  <1> QED BY <1>4, <1>5 DEF Type

\* A block is registered.
LEMMA NewBlock ==
  ASSUME ProbeTypeOK, BlocksOK, NEW b \in Block, BlockOK(b),
         all_blocks' = Append(all_blocks, b), bus' = bus
  PROVE  /\ all_blocks' \in Seq(Block) /\ Len(all_blocks') = Len(all_blocks) + 1 /\ Len(all_blocks) \in Nat
         /\ \A i \in 1 .. Len(all_blocks) : all_blocks'[i] = all_blocks[i]
         /\ all_blocks'[Len(all_blocks) + 1] = b
         /\ BlocksOK'
         /\ P!Disks' = P!Disks
         /\ \A d : Plain(d)' = Plain(d) /\ P!Primary(d)' = P!Primary(d) /\ DeviceOf(d)' = DeviceOf(d)
         /\ \A d, n : PrimaryUpTo(d, n)' = PrimaryUpTo(d, n)
         /\ \A d : d # <<b.chan, b.dev_no>> \/ b.type = "raw" => PartitionsOn(d)' = PartitionsOn(d)
         /\ \A d : d = <<b.chan, b.dev_no>> /\ b.type # "raw" => PartitionsOn(d)' = PartitionsOn(d) \union {b}
  <1>1. /\ all_blocks' \in Seq(Block) /\ Len(all_blocks') = Len(all_blocks) + 1 /\ Len(all_blocks) \in Nat
        /\ \A i \in 1 .. Len(all_blocks) : all_blocks'[i] = all_blocks[i]
        /\ all_blocks'[Len(all_blocks) + 1] = b
    BY DEF ProbeTypeOK
  <1>2. P!Disks' = P!Disks
    BY DEF P!Disks
  <1>3. BlocksOK'
    <2> SUFFICES ASSUME NEW i \in 1 .. Len(all_blocks) + 1 PROVE BlockOK(all_blocks[i])'
      BY <1>1 DEF BlocksOK
    <2>1. CASE i = Len(all_blocks) + 1
      <3>1. all_blocks'[i] = b
        BY <1>1, <2>1
      <3> QED BY <1>2, <3>1 DEF BlockOK
    <2>2. CASE i # Len(all_blocks) + 1
      <3>1. i \in 1 .. Len(all_blocks) /\ all_blocks'[i] = all_blocks[i]
        BY <1>1, <2>2
      <3> QED BY <1>2, <3>1 DEF BlockOK, BlocksOK
    <2> QED BY <2>1, <2>2
  <1>4. P!Range(all_blocks)' = P!Range(all_blocks) \union {b}
    <2>1. DOMAIN all_blocks = 1 .. Len(all_blocks) /\ DOMAIN all_blocks' = 1 .. Len(all_blocks) + 1
      BY <1>1 DEF ProbeTypeOK
    <2>2. 1 .. Len(all_blocks) + 1 = (1 .. Len(all_blocks)) \union {Len(all_blocks) + 1}
      BY <1>1
    <2> QED BY <1>1, <2>1, <2>2 DEF P!Range
  <1>5. ASSUME NEW d
        PROVE  /\ d # <<b.chan, b.dev_no>> \/ b.type = "raw" => PartitionsOn(d)' = PartitionsOn(d)
               /\ d = <<b.chan, b.dev_no>> /\ b.type # "raw" => PartitionsOn(d)' = PartitionsOn(d) \union {b}
    <2> DEFINE Q(c) == <<c.chan, c.dev_no>> = d /\ c.type # "raw"
    <2>1. PartitionsOn(d) = {c \in P!Range(all_blocks) : Q(c)}
      BY DEF PartitionsOn, P!On
    <2>2. PartitionsOn(d)' = {c \in P!Range(all_blocks)' : Q(c)}
      BY DEF PartitionsOn, P!On
    <2>3. ~ Q(b) => PartitionsOn(d)' = PartitionsOn(d)
      BY <1>4, <2>1, <2>2
    <2>4. Q(b) => PartitionsOn(d)' = PartitionsOn(d) \union {b}
      BY <1>4, <2>1, <2>2
    <2> QED BY <2>3, <2>4
  <1>6. \A d : Plain(d)' = Plain(d) /\ P!Primary(d)' = P!Primary(d) /\ DeviceOf(d)' = DeviceOf(d)
    BY DEF Plain, P!Primary, DeviceOf
  <1>7. \A d, n : PrimaryUpTo(d, n)' = PrimaryUpTo(d, n)
    BY DEF PrimaryUpTo, Valid, Described, DeviceOf
  <1> QED BY <1>1, <1>2, <1>3, <1>5, <1>6, <1>7

\* A block that is registered in the course of a scan has the next name.
LEMMA SortedNext ==
  ASSUME ProbeIInv, NEW b \in Block, BlockOK(b), all_blocks' = Append(all_blocks, b), UNCHANGED <<bus, at>>,
         boot' = "scan", part_nr' \in Nat, b.name[1] = Here, b.name[2] = part_nr',
         boot = "scan" => part_nr' > part_nr, boot = "identify" \/ boot = "scan"
  PROVE  SortedBlocks'
  <1> USE DEF ProbeIInv
  <1> DEFINE n == Len(all_blocks)
  <1>1. /\ all_blocks' \in Seq(Block) /\ Len(all_blocks') = n + 1 /\ n \in Nat
        /\ \A i \in 1 .. n : all_blocks'[i] = all_blocks[i]
        /\ all_blocks'[n + 1] = b
    BY NewBlock
  <1>2. Here' = Here /\ Here \in Nat /\ part_nr \in Nat
    BY WhereAt DEF Here, ProbeTypeOK
  <1>3. \A i \in 1 .. n : /\ all_blocks[i].name[1] \in Nat /\ all_blocks[i].name[2] \in Nat
    <2>1. \A i \in 1 .. n : all_blocks[i] \in Block
      BY DEF ProbeTypeOK
    <2>2. \A c \in Block : c.name \in Nat \X Nat
      BY DEF Block
    <2> QED BY <2>1, <2>2
  <1>4. \A i \in 1 .. n :
          \/ all_blocks[i].name[1] < Here
          \/ boot = "scan" /\ all_blocks[i].name[1] = Here /\ all_blocks[i].name[2] <= part_nr
    BY DEF SortedBlocks
  <1>5. ASSUME NEW i \in 1 .. n + 1, NEW j \in 1 .. n + 1, i < j
        PROVE  Before(all_blocks'[i].name, all_blocks'[j].name)
    <2>1. i \in 1 .. n
      BY <1>1, <1>5
    <2>2. CASE j = n + 1
      BY <1>1, <1>2, <1>3, <1>4, <2>1, <2>2 DEF Before
    <2>3. CASE j # n + 1
      <3>1. j \in 1 .. n
        BY <1>1, <2>3
      <3> QED BY <1>1, <1>5, <2>1, <3>1 DEF SortedBlocks
    <2> QED BY <2>2, <2>3
  <1>6. ASSUME NEW i \in 1 .. n + 1
        PROVE  \/ all_blocks'[i].name[1] < Here
               \/ all_blocks'[i].name[1] = Here /\ all_blocks'[i].name[2] <= part_nr'
    <2>1. CASE i = n + 1
      BY <1>1, <1>2, <2>1
    <2>2. CASE i # n + 1
      <3>1. i \in 1 .. n
        BY <1>1, <2>2
      <3> QED BY <1>1, <1>2, <1>3, <1>4, <3>1
    <2> QED BY <2>1, <2>2
  <1> HIDE DEF n
  <1> QED BY <1>1, <1>2, <1>5, <1>6 DEF SortedBlocks

\* One more block keeps the disks that have one.
LEMMA DisksNext ==
  ASSUME ProbeIInv, NEW b \in Block, BlockOK(b), all_blocks' = Append(all_blocks, b), UNCHANGED <<bus, at>>,
         boot' = "scan", <<b.chan, b.dev_no>> = Current, boot \in {"identify", "scan"}
  PROVE  DisksOK'
  <1> USE DEF ProbeIInv
  <1> DEFINE n == Len(all_blocks)
  <1>1. /\ Len(all_blocks') = n + 1 /\ n \in Nat
        /\ \A i \in 1 .. n : all_blocks'[i] = all_blocks[i]
        /\ all_blocks'[n + 1] = b /\ P!Disks' = P!Disks
    BY NewBlock
  <1>2. Here' = Here /\ Current' = Current
    BY DEF Here, Current
  <1> SUFFICES ASSUME NEW d \in P!Disks, Reached(d)'
               PROVE  \E i \in 1 .. n + 1 : d = <<all_blocks'[i].chan, all_blocks'[i].dev_no>>
    BY <1>1 DEF DisksOK
  <1>3. CASE d = Current
    <2>1. n + 1 \in 1 .. n + 1
      BY <1>1
    <2> QED BY <1>1, <1>3, <2>1
  <1>4. CASE d # Current
    <2>1. Reached(d)
      BY <1>2, <1>4 DEF Reached
    <2>2. PICK i \in 1 .. n : d = <<all_blocks[i].chan, all_blocks[i].dev_no>>
      BY <2>1 DEF DisksOK
    <2>3. i \in 1 .. n + 1
      BY <1>1
    <2> QED BY <1>1, <2>2, <2>3
  <1> QED BY <1>3, <1>4

\* Disks that are done stay as they are.
LEMMA PrimaryNext ==
  ASSUME ProbeIInv, NEW b \in Block, BlockOK(b), all_blocks' = Append(all_blocks, b), UNCHANGED <<bus, at>>,
         <<b.chan, b.dev_no>> = Current, boot \in {"identify", "scan"}
  PROVE  PrimaryOK'
  <1> USE DEF ProbeIInv
  <1>1. Here' = Here /\ Here \in Nat /\ Pos(Current) = Here
    BY WhereAt DEF Here
  <1>2. ASSUME NEW d \in P!Disks, Plain(d), Pos(d) < Here
        PROVE  PartitionsOn(d)' = P!Primary(d)'
    <2>1. d # Current
      BY <1>1, <1>2
    <2>2. PartitionsOn(d)' = PartitionsOn(d) /\ P!Primary(d)' = P!Primary(d)
      BY <2>1, NewBlock
    <2> QED BY <1>2, <2>2 DEF PrimaryOK
  <1>3. P!Disks' = P!Disks /\ \A d : Plain(d)' = Plain(d)
    BY NewBlock
  <1> QED BY <1>1, <1>2, <1>3 DEF PrimaryOK

\* An entry that describes a partition.
LEMMA PartitionStep ==
  ASSUME ProbeIInv, P!PartitionEntry
  PROVE  ProbeIInv'
  <1> USE DEF ProbeIInv
  <1> DEFINE e == P!Entry
             start == P!StartOf(e)
             v == DeviceOf(Current)
             ps == P!Partitions(v)
             n == P!Top.i
             b == [name |-> <<Here, part_nr + 1>>, type |-> P!BlockType(e.type), chan |-> at.chan,
                   dev_no |-> at.dev_no, start |-> start, size |-> e.size]
  <1>1. /\ P!AtEntry /\ ~ P!Empty(e) /\ part_nr' = part_nr + 1 /\ P!found_partition(e) /\ stack' = P!Stepped
        /\ UNCHANGED <<bus, bdev_name, boot, at, is_ata, block_by_role>>
    BY DEF P!PartitionEntry
  <1>2. /\ boot = "scan" /\ stack # <<>> /\ P!Top \in Frame /\ e \in Partition
        /\ P!Stepped \in Seq(Frame) /\ Len(P!Stepped) = Len(stack)
        /\ P!Stepped[Len(stack)].i = P!Top.i + 1 /\ P!Stepped[Len(stack)].sector = P!Top.sector
    BY <1>1, SteppedFacts
  <1>3. /\ at.chan \in 0 .. 1 /\ at.dev_no \in 0 .. 1 /\ Here \in Nat /\ part_nr \in Nat
        /\ Here' = Here /\ Current' = Current /\ P!Device = v /\ v = bus[at.chan][at.dev_no]
        /\ v.capacity \in Nat /\ ps \in Seq(Partition) /\ P!TableIn(0)' = P!TableIn(0)
    BY <1>1, <1>2, WhereAt, TableFacts DEF ProbeTypeOK, Here, Current, DeviceOf, P!TableIn, P!Device
  <1>4. Current \in P!Disks /\ v.capacity < MaxCapacity /\ v.capacity < WORD
    <2>1. Current \in P!Disks
      BY <1>2 DEF ScanOK
    <2>2. v.capacity < MaxCapacity
      BY <2>1 DEF P!Disks, DeviceOf
    <2> QED BY <1>3, <2>1, <2>2, BusAssumption
  <1>5. /\ e.type \in Nat /\ e.offset \in 0 .. WORD - 1 /\ e.size \in 0 .. WORD - 1 /\ e.size > 0
        /\ P!Top.sector \in Nat
    <2>1. e.type \in 0 .. 255 /\ e.offset \in 0 .. WORD - 1 /\ e.size \in 0 .. WORD - 1
      BY <1>2 DEF Partition
    <2>2. e.size # 0
      BY <1>1 DEF P!Empty
    <2>3. P!Top.sector \in Nat
      BY <1>2 DEF Frame
    <2>4. WORD \in Nat
      BY BusAssumption
    <2> HIDE DEF e
    <2> QED BY <2>1, <2>2, <2>3, <2>4
  <1>6. start = (e.offset + P!Top.sector) % WORD /\ start \in 0 .. WORD - 1
    <2>1. start = (e.offset + P!Top.sector) % WORD
      BY DEF P!StartOf
    <2> HIDE DEF e, start
    <2>2. WORD \in Nat \ {0} /\ e.offset + P!Top.sector \in Nat
      BY <1>5, BusAssumption
    <2>3. \A x \in Nat : x % WORD \in 0 .. WORD - 1
      BY <2>2
    <2> QED BY <2>1, <2>2, <2>3
  <1>7. all_blocks' = IF P!Fits(start, e.size) THEN Append(all_blocks, b) ELSE all_blocks
    <2>1. P!DiskName(at.chan, at.dev_no)[1] = Here
      BY DEF P!DiskName, Here
    <2> QED BY <1>1, <2>1 DEF P!found_partition, P!block_register
  <1>8. b \in Block /\ (P!Fits(start, e.size) => BlockOK(b))
    <2>1. P!BlockType(e.type) \in Type /\ P!BlockType(e.type) # "raw"
      BY <1>5, BlockTypes
    <2>2. b \in Block
      <3> HIDE DEF e, start, v
      <3>1. start \in Nat /\ e.size \in Nat
        BY <1>5, <1>6, BusAssumption
      <3>2. <<Here, part_nr + 1>> \in Nat \X Nat
        BY <1>3
      <3> QED BY <1>3, <2>1, <3>1, <3>2 DEF Block
    <2>3. P!Fits(start, e.size) => start + e.size <= v.capacity
      BY <1>3, <1>5, <1>6, FitsExact
    <2> HIDE DEF e, start, v
    <2>4. P!Fits(start, e.size) => BlockOK(b)
      BY <1>3, <1>4, <2>1, <2>3 DEF BlockOK, Here, Current
    <2> QED BY <2>2, <2>4
  <1> HIDE DEF e, start, v, b, ps, n
  <1>9. <<b.chan, b.dev_no>> = Current /\ b.name[1] = Here /\ b.name[2] = part_nr' /\ b.type # "raw"
    BY <1>1, <1>5, BlockTypes DEF b, Current
  <1>10. all_blocks' \in Seq(Block)
    BY <1>7, <1>8 DEF ProbeTypeOK
  <1>11. ProbeTypeOK'
    BY <1>1, <1>2, <1>3, <1>10 DEF ProbeTypeOK
  <1>12. DetectedOK'
    BY <1>1 DEF DetectedOK, Detected
  <1>13. RolesOK'
    BY <1>1, <1>2 DEF RolesOK
  <1>14. ASSUME ~ P!Fits(start, e.size) PROVE BlocksOK' /\ PrimaryOK' /\ DisksOK' /\ SortedBlocks'
    <2>1. all_blocks' = all_blocks
      BY <1>7, <1>14
    <2>2. BlocksOK' /\ PrimaryOK' /\ DisksOK'
      BY <1>1, <1>3, <2>1, SameBlocks DEF PrimaryOK, DisksOK, Reached
    <2>3. SortedBlocks'
      <3>1. part_nr' = part_nr + 1 /\ part_nr \in Nat
        BY <1>1, <1>3
      <3>2. \A i \in 1 .. Len(all_blocks) : all_blocks[i].name[2] \in Nat
        <4>1. \A i \in 1 .. Len(all_blocks) : all_blocks[i] \in Block
          BY DEF ProbeTypeOK
        <4>2. \A c \in Block : c.name \in Nat \X Nat
          BY DEF Block
        <4> QED BY <4>1, <4>2
      <3> QED BY <1>1, <1>3, <2>1, <3>1, <3>2 DEF SortedBlocks
    <2> QED BY <2>2, <2>3
  <1>15. ASSUME P!Fits(start, e.size) PROVE BlocksOK' /\ PrimaryOK' /\ DisksOK' /\ SortedBlocks'
    <2>1. all_blocks' = Append(all_blocks, b) /\ BlockOK(b)
      BY <1>7, <1>8, <1>15
    <2>2. BlocksOK'
      BY <1>1, <1>8, <2>1, NewBlock
    <2>3. PrimaryOK'
      BY <1>1, <1>2, <1>8, <1>9, <2>1, PrimaryNext
    <2>4. DisksOK'
      BY <1>1, <1>2, <1>8, <1>9, <2>1, DisksNext
    <2>5. SortedBlocks'
      BY <1>1, <1>2, <1>3, <1>8, <1>9, <2>1, SortedNext
    <2> QED BY <2>2, <2>3, <2>4, <2>5
  <1>16. ASSUME Plain(Current)
         PROVE  /\ Len(stack') = 1 /\ stack'[1].sector = 0
                /\ stack'[1].i - 1 = n /\ stack'[1].i <= Len(ps) + 1
                /\ P!TableIn(0).signature
                /\ part_nr' = P!NumberOf(ps, n)
                /\ PartitionsOn(Current)' = PrimaryUpTo(Current, n)
    <2>1. /\ Len(stack) = 1 /\ P!Top.sector = 0 /\ P!TableIn(0).signature
          /\ n \in 1 .. Len(ps) /\ e = ps[n]
          /\ part_nr = P!NumberOf(ps, n - 1) /\ PartitionsOn(Current) = PrimaryUpTo(Current, n - 1)
      BY <1>1, <1>16, PlainEntry DEF ps, n, e, v
    <2>2. /\ Len(stack') = 1 /\ stack'[1].sector = 0
          /\ stack'[1].i - 1 = n /\ stack'[1].i <= Len(ps) + 1
      BY <1>1, <1>2, <1>3, <2>1 DEF n
    <2>3. part_nr' = P!NumberOf(ps, n)
      BY <1>1, <1>3, <2>1, Numbers
    <2>4. start = e.offset
      <3>1. WORD \in Nat \ {0} /\ e.offset \in Nat /\ e.offset < WORD
        BY <1>5, BusAssumption
      <3>2. e.offset % WORD = e.offset
        BY <3>1, WordSum
      <3>3. e.offset + P!Top.sector = e.offset
        BY <2>1, <3>1
      <3> QED BY <1>6, <3>2, <3>3
    <2>5. Valid(Current, n) <=> P!Fits(start, e.size)
      <3>1. Valid(Current, n) <=> e.offset + e.size <= v.capacity
        BY <1>1, <2>1 DEF Valid, ps, v
      <3> QED BY <1>3, <1>4, <1>5, <1>6, <2>4, <3>1, FitsExact
    <2>6. Described(Current, n) = b
      <3>1. P!NumberOf(ps, n) = part_nr + 1
        BY <1>1, <2>3
      <3> QED BY <2>1, <2>4, <3>1 DEF Described, b, ps, v, Current, Here
    <2>7. CASE ~ P!Fits(start, e.size)
      <3>1. all_blocks' = all_blocks
        BY <1>7, <2>7
      <3>2. PartitionsOn(Current)' = PartitionsOn(Current)
        BY <1>1, <1>3, <3>1 DEF PartitionsOn, P!On
      <3>3. PrimaryUpTo(Current, n) = PrimaryUpTo(Current, n - 1)
        BY <1>3, <2>1, <2>5, <2>7, Primaries DEF ps, v
      <3> QED BY <2>1, <2>2, <2>3, <3>2, <3>3
    <2>8. CASE P!Fits(start, e.size)
      <3>1. all_blocks' = Append(all_blocks, b) /\ BlockOK(b)
        BY <1>7, <1>8, <2>8
      <3>2. \A d : d = <<b.chan, b.dev_no>> /\ b.type # "raw" => PartitionsOn(d)' = PartitionsOn(d) \union {b}
        BY <1>1, <1>8, <3>1, NewBlock
      <3>3. PartitionsOn(Current)' = PartitionsOn(Current) \union {b}
        <4>1. Current = <<b.chan, b.dev_no>> /\ b.type # "raw"
          BY <1>9
        <4> DEFINE d0 == Current
        <4>2. PartitionsOn(d0)' = PartitionsOn(d0) \union {b}
          BY <1>3, <3>2, <4>1
        <4> QED BY <4>2
      <3>4. PrimaryUpTo(Current, n) = PrimaryUpTo(Current, n - 1) \union {b}
        BY <1>3, <2>1, <2>5, <2>6, <2>8, Primaries DEF ps, v
      <3> QED BY <2>1, <2>2, <2>3, <3>3, <3>4
    <2> QED BY <2>7, <2>8
  <1>17. ScanOK'
    <2>1. P!Disks' = P!Disks /\ Plain(Current)' = Plain(Current) /\ P!Partitions(DeviceOf(Current))' = ps
      BY <1>1, <1>3 DEF P!Disks, Plain, DeviceOf, ps, v
    <2>2. \A m : PrimaryUpTo(Current, m)' = PrimaryUpTo(Current, m)
      BY <1>1, <1>3 DEF PrimaryUpTo, Valid, Described, DeviceOf
    <2>3. stack' # <<>>
      BY <1>1, <1>2, StackFacts
    <2> QED BY <1>1, <1>2, <1>3, <1>4, <1>16, <2>1, <2>2, <2>3 DEF ScanOK
  <1> QED BY <1>11, <1>12, <1>13, <1>14, <1>15, <1>17

\* The entries of a disk's table are partitions.
LEMMA Entries ==
  ASSUME ProbeTypeOK, NEW c \in 0 .. 1, NEW d \in 0 .. 1
  PROVE  bus[c][d].capacity \in Nat /\ P!Partitions(bus[c][d]) \in Seq(Partition)
  <1>1. /\ bus[c][d].capacity \in Nat
        /\ \A s \in DOMAIN bus[c][d].tables : bus[c][d].tables[s].partitions \in Seq(Partition)
    BY BusAssumption DEF ProbeTypeOK
  <1> QED BY <1>1 DEF P!Partitions

\* identify_ata_device() registers the disk and begins its scan.
LEMMA IdentifyDevice ==
  ASSUME ProbeIInv, P!identify_ata_device
  PROVE  ProbeIInv'
  <1> USE DEF ProbeIInv
  <1> DEFINE v == DeviceOf(Current)
             b == [name |-> <<Here, 0>>, type |-> "raw", chan |-> at.chan,
                   dev_no |-> at.dev_no, start |-> 0, size |-> v.capacity]
             f == [sector |-> 0, primary_extended_sector |-> 0, i |-> 0]
  <1>1. /\ boot = "identify" /\ boot' = "scan" /\ stack' = <<f>> /\ part_nr' = 0 /\ ~ P!Ignored
        /\ UNCHANGED <<bus, bdev_name, at, is_ata, block_by_role>>
    BY DEF P!identify_ata_device, P!Call
  <1>2. all_blocks' = Append(all_blocks, b)
    BY DEF P!identify_ata_device, P!block_register, P!DiskName, P!Device, DeviceOf, Current, Here
  <1>3. /\ at.chan \in 0 .. 1 /\ at.dev_no \in 0 .. 1 /\ Here \in Nat
        /\ Here' = Here /\ Current' = Current /\ v = bus[at.chan][at.dev_no]
    BY <1>1, WhereAt DEF Here, Current, DeviceOf
  <1>4. v.capacity \in Nat
    BY <1>3, BusAssumption DEF ProbeTypeOK
  <1>5. Current \in P!Disks
    BY <1>1, IgnoredExact
  <1>6. b \in Block /\ <<b.chan, b.dev_no>> = Current /\ b.name[1] = Here /\ b.name[2] = 0 /\ b.type = "raw"
    <2>1. <<Here, 0>> \in Nat \X Nat
      BY <1>3
    <2> HIDE DEF v
    <2> QED BY <1>3, <1>4, <2>1 DEF Block, Type, Current
  <1>7. BlockOK(b)
    <2>1. b.start + b.size = v.capacity
      BY <1>4
    <2> QED BY <1>3, <1>4, <1>5, <1>6, <2>1 DEF BlockOK, Here, Current
  <1> HIDE DEF v, b
  <1>8. BlocksOK' /\ SortedBlocks' /\ DisksOK' /\ PrimaryOK'
    <2>1. BlocksOK'
      BY <1>1, <1>2, <1>6, <1>7, NewBlock
    <2>2. SortedBlocks'
      BY <1>1, <1>2, <1>6, <1>7, SortedNext
    <2>3. DisksOK' /\ PrimaryOK'
      BY <1>1, <1>2, <1>6, <1>7, DisksNext, PrimaryNext
    <2> QED BY <2>1, <2>2, <2>3
  <1>9. stack' \in Seq(Frame) /\ Len(stack') = 1 /\ stack'[1] = f /\ stack' # <<>> /\ f \in Frame
    BY <1>1 DEF Frame
  <1>10. ProbeTypeOK'
    <2>1. all_blocks' \in Seq(Block)
      BY <1>2, <1>6 DEF ProbeTypeOK
    <2> QED BY <1>1, <1>3, <1>9, <2>1 DEF ProbeTypeOK, ProbePlace
  <1>11. DetectedOK'
    BY <1>1 DEF DetectedOK, Detected
  <1>12. RolesOK'
    BY <1>1 DEF RolesOK
  <1>13. ScanOK'
    <2>2. PartitionsOn(Current)' = {}
      <3>1. PartitionsOn(Current) = {}
        <4> SUFFICES ASSUME NEW c \in P!On(Current) PROVE FALSE
          BY DEF PartitionsOn
        <4>1. PICK i \in 1 .. Len(all_blocks) : c = all_blocks[i]
          BY DEF P!On, P!Range, ProbeTypeOK
        <4>2. <<c.chan, c.dev_no>> = Current
          BY DEF P!On
        <4>3. c.name[1] = 2 * c.chan + c.dev_no
          BY <4>1 DEF BlocksOK, BlockOK
        <4>4. c.name[1] < Here
          BY <1>1, <4>1 DEF SortedBlocks
        <4>5. c.chan = at.chan /\ c.dev_no = at.dev_no
          BY <4>2 DEF Current
        <4> QED BY <1>3, <4>3, <4>4, <4>5 DEF Here
      <3>2. \A d : b.type = "raw" => PartitionsOn(d)' = PartitionsOn(d)
        BY <1>1, <1>2, <1>6, <1>7, NewBlock
      <3> DEFINE d0 == Current
      <3>3. PartitionsOn(d0)' = PartitionsOn(d0)
        BY <1>3, <1>6, <3>2
      <3> QED BY <3>1, <3>3
    <2>3. v.capacity \in Nat /\ P!Partitions(v) \in Seq(Partition) /\ DeviceOf(Current)' = v
      <3>1. P!Partitions(v) \in Seq(Partition)
        BY <1>3, Entries
      <3>2. DeviceOf(Current)' = DeviceOf(Current)
        BY <1>1, <1>3 DEF DeviceOf
      <3> QED BY <1>4, <3>1, <3>2 DEF v
    <2>4. P!NumberOf(P!Partitions(v), -1) = 0 /\ PrimaryUpTo(Current, -1) = {} /\ Len(P!Partitions(v)) \in Nat
      BY <2>3, Numbers, Primaries DEF v
    <2>5. PrimaryUpTo(Current, -1)' = PrimaryUpTo(Current, -1)
      BY <1>1, <1>3 DEF PrimaryUpTo, Valid, Described, DeviceOf
    <2>6. P!Disks' = P!Disks
      BY <1>1 DEF P!Disks
    <2> HIDE DEF f
    <2>7. f.sector = 0 /\ f.i = 0
      BY DEF f
    <2> QED BY <1>1, <1>3, <1>5, <1>9, <2>2, <2>3, <2>4, <2>5, <2>6, <2>7 DEF ScanOK
  <1> QED BY <1>8, <1>10, <1>11, <1>12, <1>13

\* A device is done with.
LEMMA Advance ==
  ASSUME ProbeIInv, boot \in {"identify", "scan"}, P!NextDevice,
         UNCHANGED <<bus, bdev_name, all_blocks, stack, part_nr, block_by_role>>,
         DOMAIN is_ata' = 0 .. 1, at.dev_no = 0 => is_ata'[1] = is_ata[1],
         Current \in P!Disks =>
           boot = "scan" /\ (Plain(Current) => PartitionsOn(Current) = P!Primary(Current))
  PROVE  ProbeIInv'
  <1> USE DEF ProbeIInv
  <1>1. /\ Here' = Here + 1 /\ Here \in Nat
        /\ boot' \in {"identify", "reset", "locate"}
        /\ at' \in [chan : 0 .. 2, dev_no : 0 .. 1]
        /\ boot' = "identify" => at.dev_no = 0 /\ at'.dev_no = 1 /\ at'.chan = at.chan
        /\ boot' # "identify" => at'.dev_no = 0
        /\ boot' # "locate" => at'.chan \in 0 .. 1
        /\ boot' = "locate" => at'.chan = 2
    BY NextDevice, WhereAt
  <1>2. ProbeTypeOK'
    BY <1>1 DEF ProbeTypeOK, ProbePlace
  <1>3. DetectedOK'
    <2>1. boot' = "identify" => (is_ata'[1] <=> Detected(1)')
      BY <1>1 DEF DetectedOK, Detected
    <2> QED BY <1>1, <2>1 DEF DetectedOK
  <1>4. BlocksOK' /\ P!Disks' = P!Disks
    BY SameBlocks
  <1>5. \A i \in 1 .. Len(all_blocks) : all_blocks[i].name[1] \in Nat
    <2>1. \A i \in 1 .. Len(all_blocks) : all_blocks[i] \in Block
      BY DEF ProbeTypeOK
    <2>2. \A c \in Block : c.name \in Nat \X Nat
      BY DEF Block
    <2> QED BY <2>1, <2>2
  <1>6. SortedBlocks'
    BY <1>1, <1>5 DEF SortedBlocks
  <1>7. \A d \in P!Disks : Pos(d) < Here' => Pos(d) < Here \/ d = Current
    <2> SUFFICES ASSUME NEW d \in P!Disks, Pos(d) < Here + 1 PROVE Pos(d) < Here \/ d = Current
      BY <1>1
    <2>1. d \in P!Channel \X (0 .. 1)
      BY DEF P!Disks
    <2>2. Pos(d) \in 0 .. 3 /\ (Pos(d) = Here => d = Current)
      BY <2>1, WhereAt
    <2> QED BY <1>1, <2>2
  <1>8. DisksOK'
    <2> SUFFICES ASSUME NEW d \in P!Disks, Reached(d)'
                 PROVE  \E i \in 1 .. Len(all_blocks) : d = <<all_blocks[i].chan, all_blocks[i].dev_no>>
      BY <1>4 DEF DisksOK
    <2>1. Pos(d) < Here'
      BY <1>1 DEF Reached
    <2>2. Reached(d)
      BY <1>7, <2>1 DEF Reached
    <2> QED BY <2>2 DEF DisksOK
  <1>9. PrimaryOK'
    <2> SUFFICES ASSUME NEW d \in P!Disks, Plain(d), Pos(d) < Here'
                 PROVE  PartitionsOn(d) = P!Primary(d)
      BY <1>4, SameBlocks DEF PrimaryOK
    <2> QED BY <1>7 DEF PrimaryOK
  <1>10. ScanOK' /\ RolesOK'
    BY <1>1 DEF ScanOK, RolesOK
  <1> QED BY <1>2, <1>3, <1>4, <1>6, <1>8, <1>9, <1>10

\* A device that is passed over is no disk.
LEMMA SkipStep ==
  ASSUME ProbeIInv, P!SkipDevice
  PROVE  ProbeIInv'
  <1>1. boot = "identify" /\ P!Ignored /\ P!NextDevice /\ is_ata' = [is_ata EXCEPT ![at.dev_no] = FALSE]
        /\ UNCHANGED <<bus, bdev_name, all_blocks, stack, part_nr, block_by_role>>
    BY DEF P!SkipDevice
  <1>2. Current \notin P!Disks
    BY <1>1, IgnoredExact DEF ProbeIInv
  <1>3. DOMAIN is_ata = 0 .. 1
    BY DEF ProbeIInv, ProbeTypeOK
  <1>4. DOMAIN is_ata' = 0 .. 1 /\ (at.dev_no = 0 => is_ata'[1] = is_ata[1])
    <2>1. is_ata' = [d \in 0 .. 1 |-> IF d = at.dev_no THEN FALSE ELSE is_ata[d]]
      BY <1>1, <1>3, Zenon
    <2>2. 1 \in 0 .. 1 /\ (at.dev_no = 0 => 1 # at.dev_no)
      OBVIOUS
    <2> QED BY <2>1, <2>2, Zenon
  <1> QED BY <1>1, <1>2, <1>4, Advance

\* A device that does not interrupt: the boot stays where it is.
LEMMA HangStep ==
  ASSUME ProbeIInv, P!Hang
  PROVE  ProbeIInv'
  <1>1. /\ boot = "identify" /\ boot' = "hung"
        /\ UNCHANGED <<bus, bdev_name, at, is_ata, all_blocks, stack, part_nr, block_by_role>>
    BY DEF P!Hang
  <1>2. Here' = Here /\ P!Disks' = P!Disks
    BY <1>1, SameBlocks DEF Here
  <1>3. ProbeTypeOK' /\ DetectedOK' /\ RolesOK' /\ ScanOK'
    BY <1>1 DEF ProbeIInv, ProbeTypeOK, ProbePlace, DetectedOK, RolesOK, ScanOK
  <1>4. BlocksOK' /\ SortedBlocks' /\ DisksOK' /\ PrimaryOK'
    BY <1>1, <1>2, SameBlocks DEF ProbeIInv, SortedBlocks, DisksOK, PrimaryOK, Reached
  <1> QED BY <1>3, <1>4 DEF ProbeIInv

\* partition_scan() returns, and the next device comes.
LEMMA EndOfScanStep ==
  ASSUME ProbeIInv, P!EndOfScan
  PROVE  ProbeIInv'
  <1>1. /\ boot = "scan" /\ stack = <<>> /\ P!NextDevice
        /\ UNCHANGED <<bus, bdev_name, is_ata, all_blocks, stack, part_nr, block_by_role>>
    BY DEF P!EndOfScan
  <1>2. Plain(Current) => PartitionsOn(Current) = P!Primary(Current)
    BY <1>1 DEF ProbeIInv, ScanOK
  <1>3. DOMAIN is_ata' = 0 .. 1 /\ is_ata' = is_ata
    BY <1>1 DEF ProbeIInv, ProbeTypeOK
  <1> QED BY <1>1, <1>2, <1>3, Advance

\* check_device_type() finds out what is on the channel.
LEMMA ResetStep ==
  ASSUME ProbeIInv, P!ResetAndCheck
  PROVE  ProbeIInv'
  <1> USE DEF ProbeIInv
  <1>1. /\ boot = "reset" /\ boot' = "identify" /\ DOMAIN is_ata' = 0 .. 1
        /\ UNCHANGED <<bus, bdev_name, at, all_blocks, stack, part_nr, block_by_role>>
    BY DEF P!ResetAndCheck
  <1>2. Here' = Here /\ Current' = Current /\ at.dev_no \in 0 .. 1
    BY <1>1, WhereAt DEF Here, Current
  <1>3. ProbeTypeOK'
    BY <1>1 DEF ProbeTypeOK, ProbePlace
  <1>4. \A d \in 0 .. 1 : is_ata'[d] <=> Detected(d)'
    <2> SUFFICES ASSUME NEW d \in 0 .. 1
                 PROVE  is_ata'[d] = (P!IsAta(P!Registers(bus[at.chan][d]), d)
                                      /\ (d = 1 => P!SlavePossible(P!Registers(bus[at.chan][0]))))
      BY <1>1 DEF Detected
    <2> DEFINE r == [k \in 0 .. 1 |-> P!Registers(bus[at.chan][k])]
    <2>1. is_ata' = [k \in 0 .. 1 |-> P!IsAta(r[k], k) /\ (k = 1 => P!SlavePossible(r[0]))]
      BY DEF P!ResetAndCheck
    <2>2. r[d] = P!Registers(bus[at.chan][d]) /\ r[0] = P!Registers(bus[at.chan][0])
      OBVIOUS
    <2> HIDE DEF r
    <2> QED BY <2>1, <2>2
  <1>5. DetectedOK'
    BY <1>1, <1>2, <1>4 DEF DetectedOK
  <1>6. BlocksOK' /\ SortedBlocks' /\ DisksOK' /\ PrimaryOK'
    BY <1>1, <1>2, SameBlocks DEF SortedBlocks, DisksOK, PrimaryOK, Reached
  <1>7. ScanOK' /\ RolesOK'
    BY <1>1 DEF ScanOK, RolesOK
  <1> QED BY <1>3, <1>5, <1>6, <1>7

\* A set of numbers has a smallest.
LEMMA Smallest ==
  ASSUME NEW S \in SUBSET Nat, S # {}
  PROVE  \E x \in S : \A y \in S : x <= y
  <1>1. PICK x \in S : \A y \in S : ~ (<<y, x>> \in OpToRel(<, Nat))
    BY NatLessThanWellFounded, WFMin
  <1>2. OpToRel(<, Nat) = {ss \in Nat \X Nat : ss[1] < ss[2]}
    BY DEF OpToRel
  <1>3. \A y \in S : x <= y
    <2> TAKE y \in S
    <2>1. x \in Nat /\ y \in Nat
      OBVIOUS
    <2>2. ~ (<<y, x>> \in {ss \in Nat \X Nat : ss[1] < ss[2]})
      BY <1>1, <1>2
    <2> QED BY <2>1, <2>2
  <1> QED BY <1>3

\* The first block that passes a test.
LEMMA FirstBlock ==
  ASSUME ProbeTypeOK, NEW r, P!Located(r) # 0
  PROVE  /\ P!Located(r) \in 1 .. Len(all_blocks)
         /\ bdev_name[r] # NULL => all_blocks[P!Located(r)].name = bdev_name[r]
         /\ bdev_name[r] = NULL =>
              /\ all_blocks[P!Located(r)].type = r
              /\ \A k \in 1 .. P!Located(r) - 1 : all_blocks[k].type # r
  <1>1. Len(all_blocks) \in Nat
    BY DEF ProbeTypeOK
  <1>2. \A I \in SUBSET (1 .. Len(all_blocks)) :
          I # {} => P!Min(I) \in I /\ \A k \in I : P!Min(I) <= k
    <2> SUFFICES ASSUME NEW I \in SUBSET (1 .. Len(all_blocks)), I # {}
                 PROVE  \E x \in I : \A y \in I : x <= y
      BY DEF P!Min
    <2>1. I \in SUBSET Nat
      BY <1>1
    <2> QED BY <2>1, Smallest
  <1>3. CASE bdev_name[r] # NULL
    <2> DEFINE I == {i \in 1 .. Len(all_blocks) : all_blocks[i].name = bdev_name[r]}
    <2>1. P!Located(r) = IF I # {} THEN P!Min(I) ELSE 0
      BY <1>3 DEF P!Located, P!block_get_by_name, P!SelectInSeq
    <2> QED BY <1>2, <1>3, <2>1
  <1>4. CASE bdev_name[r] = NULL
    <2> DEFINE I == {i \in 1 .. Len(all_blocks) : all_blocks[i].type = r}
    <2>1. P!Located(r) = IF I # {} THEN P!Min(I) ELSE 0
      BY <1>4 DEF P!Located, P!SelectInSeq
    <2>2. P!Located(r) \in I /\ \A k \in I : P!Located(r) <= k
      BY <1>2, <2>1
    <2>3. \A k \in 1 .. P!Located(r) - 1 : k \in 1 .. Len(all_blocks) /\ ~ (P!Located(r) <= k)
      BY <1>1, <2>2
    <2> QED BY <1>4, <2>2, <2>3
  <1> QED BY <1>3, <1>4

\* The roles are given out.
LEMMA LocateStep ==
  ASSUME ProbeIInv, P!locate_block_devices
  PROVE  ProbeIInv'
  <1> USE DEF ProbeIInv
  <1>1. /\ boot = "locate" /\ boot' \in {"done", "panic"}
        /\ UNCHANGED <<bus, bdev_name, at, is_ata, all_blocks, stack, part_nr>>
        /\ boot' = "done" =>
             block_by_role' =
               [r \in P!Role |-> IF P!Located(r) = 0 THEN NULL ELSE all_blocks[P!Located(r)]]
        /\ boot' # "done" => block_by_role' = block_by_role
    BY DEF P!locate_block_devices
  <1>2. Here' = Here /\ Current' = Current
    BY <1>1 DEF Here, Current
  <1>3. ProbeTypeOK' /\ DetectedOK' /\ ScanOK'
    BY <1>1 DEF ProbeTypeOK, ProbePlace, DetectedOK, ScanOK
  <1>4. BlocksOK' /\ SortedBlocks' /\ DisksOK' /\ PrimaryOK'
    BY <1>1, <1>2, SameBlocks DEF SortedBlocks, DisksOK, PrimaryOK, Reached
  <1>5. RolesOK'
    <2>1. CASE boot' # "done"
      BY <1>1, <2>1 DEF RolesOK
    <2>2. CASE boot' = "done"
      <3> SUFFICES ASSUME NEW r \in P!Role PROVE RoleOK(r)'
        BY <2>2 DEF RolesOK
      <3>1. block_by_role'[r] = IF P!Located(r) = 0 THEN NULL ELSE all_blocks[P!Located(r)]
        BY <1>1, <2>2
      <3>2. CASE P!Located(r) = 0
        BY <3>1, <3>2 DEF RoleOK
      <3>3. CASE P!Located(r) # 0
        BY <1>1, <3>1, <3>3, FirstBlock DEF RoleOK
      <3> QED BY <3>2, <3>3
    <2> QED BY <2>1, <2>2
  <1> QED BY <1>3, <1>4, <1>5

\* Every step of the boot keeps the invariant.
LEMMA ProbeNext ==
  ASSUME ProbeIInv, [P!Next]_bootVars
  PROVE  ProbeIInv'
  <1>1. CASE UNCHANGED bootVars
    <2>1. UNCHANGED <<bus, bdev_name, boot, at, is_ata, all_blocks, stack, part_nr, block_by_role>>
      BY <1>1 DEF bootVars
    <2>2. Here' = Here /\ Current' = Current /\ P!Disks' = P!Disks
      BY <2>1, SameBlocks DEF Here, Current
    <2>3. ProbeTypeOK' /\ DetectedOK' /\ RolesOK'
      BY <2>1 DEF ProbeIInv, ProbeTypeOK, DetectedOK, Detected, RolesOK, RoleOK
    <2>4. BlocksOK' /\ SortedBlocks' /\ DisksOK' /\ PrimaryOK'
      BY <2>1, <2>2, SameBlocks DEF ProbeIInv, SortedBlocks, DisksOK, PrimaryOK, Reached
    <2>5. ScanOK'
      <3>1. P!TableIn(0)' = P!TableIn(0)
        BY <2>1 DEF P!TableIn, P!Device
      <3> QED BY <2>1, <2>2, <3>1, SameBlocks DEF ProbeIInv, ScanOK
    <2> QED BY <2>3, <2>4, <2>5 DEF ProbeIInv
  <1>2. CASE P!ResetAndCheck
    BY <1>2, ResetStep
  <1>3. CASE P!SkipDevice
    BY <1>3, SkipStep
  <1>13. CASE P!Hang
    BY <1>13, HangStep
  <1>4. CASE P!identify_ata_device
    BY <1>4, IdentifyDevice
  <1>5. CASE P!BadTable
    BY <1>5, BadTableStep
  <1>6. CASE P!GoodTable
    BY <1>6, GoodTableStep
  <1>7. CASE P!EmptyEntry
    BY <1>7, EmptyEntryStep
  <1>8. CASE P!ExtendedEntry
    BY <1>8, ExtendedEntryStep
  <1>9. CASE P!PartitionEntry
    BY <1>9, PartitionStep
  <1>10. CASE P!EndOfTable
    BY <1>10, EndOfTableStep
  <1>11. CASE P!EndOfScan
    BY <1>11, EndOfScanStep
  <1>12. CASE P!locate_block_devices
    BY <1>12, LocateStep
  <1> QED
    BY <1>1, <1>2, <1>3, <1>4, <1>5, <1>6, <1>7, <1>8, <1>9, <1>10, <1>11, <1>12,
       <1>13 DEF P!Next

\* What the invariant says at the end of the boot.
LEMMA ProbeExact ==
  ASSUME ProbeIInv
  PROVE  BlocksAreExact
  <1> USE DEF ProbeIInv
  <1> SUFFICES ASSUME boot \in {"locate", "done"} PROVE P!BlocksAreExact
    BY DEF BlocksAreExact, P!BlocksAreExact
  <1>1. Len(all_blocks) \in Nat /\ DOMAIN all_blocks = 1 .. Len(all_blocks)
        /\ P!Range(all_blocks) = {all_blocks[i] : i \in 1 .. Len(all_blocks)}
    BY DEF ProbeTypeOK, P!Range
  <1>2. \A i \in 1 .. Len(all_blocks) :
          all_blocks[i] \in Block /\ all_blocks[i].name \in Nat \X Nat
    <2>1. \A i \in 1 .. Len(all_blocks) : all_blocks[i] \in Block
      BY DEF ProbeTypeOK
    <2> QED BY <2>1 DEF Block
  <1>3. Here = 4
    BY DEF Here, ProbeTypeOK
  <1>4. \A d \in P!Disks : Pos(d) < Here
    <2> TAKE d \in P!Disks
    <2>1. d[1] \in 0 .. 1 /\ d[2] \in 0 .. 1
      BY DEF P!Disks, P!Channel
    <2> QED BY <1>3, <2>1 DEF Pos
  <1>5. {<<b.chan, b.dev_no>> : b \in P!Range(all_blocks)} = P!Disks
    <2>1. \A b \in P!Range(all_blocks) : <<b.chan, b.dev_no>> \in P!Disks
      BY <1>1 DEF BlocksOK, BlockOK
    <2>2. \A d \in P!Disks : \E b \in P!Range(all_blocks) : d = <<b.chan, b.dev_no>>
      <3> TAKE d \in P!Disks
      <3>1. PICK i \in 1 .. Len(all_blocks) : d = <<all_blocks[i].chan, all_blocks[i].dev_no>>
        BY <1>4 DEF DisksOK, Reached
      <3> QED BY <1>1, <3>1
    <2> QED BY <2>1, <2>2
  <1>6. \A d \in P!Disks : \A b \in P!On(d) : b.start + b.size <= bus[d[1]][d[2]].capacity
    <2> TAKE d \in P!Disks
    <2> TAKE b \in P!On(d)
    <2>1. b \in P!Range(all_blocks) /\ <<b.chan, b.dev_no>> = d
      BY DEF P!On
    <2>2. BlockOK(b)
      BY <1>1, <2>1 DEF BlocksOK
    <2>3. b.chan = d[1] /\ b.dev_no = d[2]
      BY <2>1
    <2> QED BY <2>2, <2>3 DEF BlockOK
  <1>7. \A d \in P!Disks :
          (\A n \in DOMAIN P!Partitions(bus[d[1]][d[2]]) : ~ P!Extended(P!Partitions(bus[d[1]][d[2]])[n])) =>
             {b \in P!On(d) : b.type # "raw"} = P!Primary(d)
    BY <1>4 DEF PrimaryOK, Plain, DeviceOf, PartitionsOn
  <1>8. \A i, j \in DOMAIN all_blocks : all_blocks[i].name = all_blocks[j].name => i = j
    <2> SUFFICES ASSUME NEW i \in 1 .. Len(all_blocks), NEW j \in 1 .. Len(all_blocks), i < j
                 PROVE  all_blocks[i].name # all_blocks[j].name
      BY <1>1
    <2>1. Before(all_blocks[i].name, all_blocks[j].name)
      BY DEF SortedBlocks
    <2> QED BY <1>2, <2>1 DEF Before
  <1>9. ASSUME NEW r \in P!Role, block_by_role[r] # NULL
        PROVE  LET b == block_by_role[r]
               IN IF bdev_name[r] # NULL THEN b.name = bdev_name[r]
                  ELSE b.type = r /\ \A i \in DOMAIN all_blocks : all_blocks[i].type = r =>
                         \/ all_blocks[i].name[1] > b.name[1]
                         \/ all_blocks[i].name[1] = b.name[1] /\ all_blocks[i].name[2] >= b.name[2]
    <2>1. boot = "done" /\ RoleOK(r)
      BY <1>9 DEF RolesOK
    <2>2. PICK i \in 1 .. Len(all_blocks) :
             /\ block_by_role[r] = all_blocks[i]
             /\ bdev_name[r] # NULL => all_blocks[i].name = bdev_name[r]
             /\ bdev_name[r] = NULL =>
                  all_blocks[i].type = r /\ \A k \in 1 .. i - 1 : all_blocks[k].type # r
      BY <1>9, <2>1 DEF RoleOK
    <2>3. ASSUME bdev_name[r] = NULL, NEW k \in 1 .. Len(all_blocks), all_blocks[k].type = r
          PROVE  \/ all_blocks[k].name[1] > all_blocks[i].name[1]
                 \/ all_blocks[k].name[1] = all_blocks[i].name[1]
                    /\ all_blocks[k].name[2] >= all_blocks[i].name[2]
      <3>1. k = i \/ i < k
        BY <1>1, <2>2, <2>3
      <3>2. i < k => Before(all_blocks[i].name, all_blocks[k].name)
        BY DEF SortedBlocks
      <3>3. /\ all_blocks[i].name[1] \in Nat /\ all_blocks[i].name[2] \in Nat
            /\ all_blocks[k].name[1] \in Nat /\ all_blocks[k].name[2] \in Nat
        BY <1>2
      <3> QED BY <3>1, <3>2, <3>3 DEF Before
    <2> QED BY <1>1, <2>2, <2>3
  <1> QED BY <1>5, <1>6, <1>7, <1>8, <1>9 DEF P!BlocksAreExact

\* Whatever is plugged in and whatever is in the partition tables, the boot
\* registers exactly the disks and the partitions that lie within them, under
\* names of their own, and gives each role its block.
THEOREM BlocksExact == MCSpec => []BlocksAreExact
  <1>1. MCInit => ProbeIInv
    BY ProbeInit DEF MCInit
  <1>2. ProbeIInv /\ [MCNext]_allVars => ProbeIInv'
    <2>1. [MCNext]_allVars => [P!Next]_bootVars
      BY DEF MCNext, Boot, Use, allVars
    <2> QED BY <2>1, ProbeNext
  <1>3. ProbeIInv => BlocksAreExact
    BY ProbeExact
  <1> QED BY <1>1, <1>2, <1>3, PTL DEF MCSpec

-----------------------------------------------------------------------------
\* A sector of a disk that the boot found, one that the registers can select.
Selectable(sec) ==
  /\ <<0, sec[1]>> \in P!Disks
  /\ sec[2] \in Nat /\ sec[2] < bus[0][sec[1]].capacity
  /\ sec[2] < 16 * 256 * 256 * 256

RequestsInside == \A t \in Thread : pc[t] # "idle" => Selectable(req[t].sec)

CallsOK == pc \in [Thread -> Places] /\ req = [t \in Thread |-> req[t]]

\* The blocks of roles reach sectors of their disks.
LEMMA ReachedInside ==
  ASSUME ProbeIInv, boot = "done", NEW r \in P!Role, block_by_role[r] # NULL,
         block_by_role[r].chan = 0, NEW sector \in 0 .. 1,
         sector < block_by_role[r].size
  PROVE  Selectable(P!Reached(block_by_role[r], sector))
  <1> DEFINE b == block_by_role[r]
             disk0 == bus[0][b.dev_no]
  <1>1. PICK i \in 1 .. Len(all_blocks) : b = all_blocks[i]
    BY DEF ProbeIInv, RolesOK, RoleOK
  <1>2. BlockOK(b)
    BY <1>1 DEF ProbeIInv, BlocksOK
  <1>3. b \in Block
    BY <1>1 DEF ProbeIInv, ProbeTypeOK
  <1>4. b.start \in Nat /\ b.size \in Nat /\ b.dev_no \in 0 .. 1 /\ b.chan = 0
    BY <1>3 DEF Block
  <1>5. <<0, b.dev_no>> \in P!Disks /\ b.start + b.size <= disk0.capacity
    BY <1>2, <1>4 DEF BlockOK
  <1>6. disk0.capacity \in Nat
    BY <1>4, BusAssumption DEF ProbeIInv, ProbeTypeOK
  <1>7. disk0.capacity < MaxCapacity
    BY <1>5 DEF P!Disks
  <1>8. sector < b.size
    OBVIOUS
  <1> HIDE DEF b, disk0
  <1>9. /\ b.start + sector \in Nat /\ b.start + sector < disk0.capacity
        /\ b.start + sector < 16 * 256 * 256 * 256 /\ b.start + sector < WORD /\ WORD \in Nat
    <2>1. /\ WORD \in Nat /\ MaxCapacity \in Nat
          /\ MaxCapacity <= WORD /\ MaxCapacity <= 16 * 256 * 256 * 256
      BY BusAssumption
    <2>2. b.start + sector \in Nat /\ b.start + sector < disk0.capacity
      BY ONLY <1>4, <1>5, <1>6, <1>8, sector \in 0 .. 1
    <2>3. b.start + sector < MaxCapacity
      BY ONLY <1>6, <1>7, <2>1, <2>2
    <2> QED BY ONLY <2>1, <2>2, <2>3
  <1>10. (b.start + sector) % WORD = b.start + sector
    BY <1>9
  <1>11. P!Reached(block_by_role[r], sector) = <<b.dev_no, b.start + sector>>
    BY <1>10 DEF P!Reached, b
  <1> QED BY <1>5, <1>9, <1>11 DEF disk0, Selectable

\* What is plugged in stays so, and the threads keep to their requests.
LEMMA BusStays ==
  ASSUME [MCNext]_allVars
  PROVE  bus' = bus
  BY DEF MCNext, Boot, Use, allVars, bootVars, P!Next, P!ResetAndCheck, P!SkipDevice, P!Hang,
         P!identify_ata_device, P!BadTable, P!GoodTable, P!EmptyEntry, P!ExtendedEntry,
         P!PartitionEntry, P!EndOfTable, P!EndOfScan, P!locate_block_devices

\* Requests are made by block_read() and block_write() alone.
LEMMA RequestsNext ==
  ASSUME ProbeIInv, CallsOK, RequestsInside, [MCNext]_allVars
  PROVE  CallsOK' /\ RequestsInside'
  <1>1. \A sec : Selectable(sec)' <=> Selectable(sec)
    BY BusStays DEF P!Disks, Selectable
  <1>2. ASSUME CallsOK',
               \A t \in Thread : pc'[t] # "idle" => pc[t] # "idle" /\ req'[t] = req[t]
        PROVE  RequestsInside'
    BY <1>1, <1>2 DEF RequestsInside
  <1>3. CASE UNCHANGED <<pc, req>>
    BY <1>2, <1>3 DEF CallsOK
  <1>4. ASSUME NEW t \in Thread, Inside(t)
        PROVE  CallsOK' /\ RequestsInside'
    <2>1. PICK p \in Places : pc' = [pc EXCEPT ![t] = p]
                              /\ (p # "idle" => req' = req) /\ pc[t] # "idle"
                              /\ (p = "idle" => req' = [req EXCEPT ![t] = NoRequest])
      BY <1>4, Zenon DEF Inside, select_sector, issue_pio_command, output_sector, Completed,
                    input_sector, DiskFailed, Places
    <2>2. CallsOK'
      BY <2>1 DEF CallsOK
    <2>3. \A u \in Thread : pc'[u] # "idle" => pc[u] # "idle" /\ req'[u] = req[u]
      BY <2>1 DEF CallsOK
    <2> QED BY <1>2, <2>2, <2>3
  <1>5. ASSUME NEW t \in Thread, Use(t)
        PROVE  CallsOK' /\ RequestsInside'
    <2>1. PICK r \in P!Role, op \in {"read", "write"}, sector \in 0 .. 1, data \in Data :
            LET b == block_by_role[r]
            IN /\ b # NULL /\ b.chan = 0 /\ P!check_sector(b, sector)
               /\ Call(t, [op |-> op, sec |-> P!Reached(b, sector), data |-> data])
      BY <1>5 DEF Use
    <2> DEFINE c == [op |-> op, sec |-> P!Reached(block_by_role[r], sector), data |-> data]
    <2>2. pc' = [pc EXCEPT ![t] = "select"] /\ req' = [req EXCEPT ![t] = c]
      BY <2>1 DEF Call
    <2>3. c.sec = P!Reached(block_by_role[r], sector)
      OBVIOUS
    <2> HIDE DEF c
    <2>4. CallsOK'
      <3>1. pc' \in [Thread -> Places]
        BY <2>2 DEF CallsOK, Places
      <3>2. req' = [u \in Thread |-> req'[u]]
        BY <2>2 DEF CallsOK
      <3> QED BY <3>1, <3>2 DEF CallsOK
    <2>5. req'[t] = c /\ \A u \in Thread : u # t => pc'[u] = pc[u] /\ req'[u] = req[u]
      BY <2>2 DEF CallsOK
    <2>6. Selectable(req'[t].sec)
      <3>1. /\ boot = "done" /\ block_by_role[r] # NULL /\ block_by_role[r].chan = 0
            /\ sector < block_by_role[r].size
        BY <1>5, <2>1 DEF Use, P!check_sector
      <3> QED BY <2>3, <2>5, <3>1, ReachedInside
    <2>7. ASSUME NEW u \in Thread, u # t, pc'[u] # "idle"
          PROVE  Selectable(req'[u].sec)
      BY <2>5, <2>7 DEF RequestsInside
    <2> QED BY <1>1, <2>4, <2>6, <2>7 DEF RequestsInside
  <1> QED
    BY <1>3, <1>4, <1>5 DEF MCNext, Boot, Identify, Work, interrupt_handler, DiskDone,
                            SpuriousInterrupt, allVars, vars

\* block_read() and block_write() of a role's block, after any boot: the request
\* that reaches ide_read() or ide_write() is for a sector of the block's disk,
\* and select_sector()'s assertion holds for it.
THEOREM RequestsStayInside == MCSpec => []RequestsInside
  <1>1. MCInit => ProbeIInv /\ CallsOK /\ RequestsInside
    <2>1. Init => CallsOK /\ RequestsInside
      BY DEF Init, CallsOK, RequestsInside, Places
    <2> QED BY <2>1, ProbeInit DEF MCInit
  <1>2. ProbeIInv /\ CallsOK /\ RequestsInside /\ [MCNext]_allVars
          => (ProbeIInv /\ CallsOK /\ RequestsInside)'
    <2>1. [MCNext]_allVars => [P!Next]_bootVars
      BY DEF MCNext, Boot, Use, allVars
    <2> QED BY <2>1, ProbeNext, RequestsNext
  <1> QED BY <1>1, <1>2, PTL DEF MCSpec
=============================================================================
