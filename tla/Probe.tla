------------------------------- MODULE Probe --------------------------------
(***************************************************************************)
(* How the kernel finds its disks at boot: ide_init() probes the two       *)
(* devices of each channel, identify_ata_device() registers a disk with    *)
(* the block layer, partition_scan() walks its partition tables, and       *)
(* locate_block_devices() gives the blocks their roles.  One thread does   *)
(* all of it.  What is plugged in, and what is on it, is external.         *)
(***************************************************************************)
EXTENDS Integers, Sequences, FiniteSets, SequencesExt

CONSTANTS
  Bus,          \* what may be plugged in, by channel and device number
  Options,      \* the -filesys and -scratch options a boot may be given
  MaxCapacity,  \* sectors of a disk that is ignored for safety
  WORD,         \* block_sector_t counts modulo WORD
  MaxDepth,     \* bound on nested partition tables
  NULL          \* no option, no block

VARIABLES
  bus,            \* external: the devices
  bdev_name,      \* the option for each role
  pc,             \* where the boot is
  at,             \* channel and device that are being probed
  is_ata,         \* is_ata of the current channel's devices
  all_blocks,     \* the registered blocks, in probe order
  stack,          \* the calls of read_partition_table() under way
  part_nr,        \* partitions found on the current disk
  block_by_role   \* the block of each role

vars == <<bus, bdev_name, pc, at, is_ata, all_blocks, stack, part_nr, block_by_role>>

Channel == 0 .. 1

\* Only these roles are given out without virtual memory.
Role == {"filesys", "scratch"}

\* External: the device that is being probed.
Device == bus[at.chan][at.dev_no]

\* A disk's name is its letter, a partition's the letter and a number.
DiskName(chan, dev_no) == <<2 * chan + dev_no, 0>>

Init ==
  /\ bus \in Bus
  /\ bdev_name \in Options
  /\ pc = "reset"
  /\ at = [chan |-> 0, dev_no |-> 0]
  /\ is_ata = [d \in 0 .. 1 |-> FALSE]
  /\ all_blocks = << >>
  /\ stack = << >>
  /\ part_nr = 0
  /\ block_by_role = [r \in Role |-> NULL]
-----------------------------------------------------------------------------
\* External: the registers of a device after the reset.
Registers(device) == device.regs

\* check_device_type(): the device did not come up.
Failed(r, dev_no) ==
  \/ r.error # 1 /\ (r.error # 129 \/ dev_no = 1)
  \/ ~ r.drdy
  \/ r.bsy

IsAta(r, dev_no) ==
  ~ Failed(r, dev_no) /\ <<r.lbam, r.lbah>> \in {<<0, 0>>, <<60, 195>>}

\* What check_device_type() returns for device 0.
SlavePossible(r) == Failed(r, 0) => r.error # 129

\* reset_channel(), which waits for the devices that are there, and then
\* check_device_type() on device 0 and perhaps on device 1.
ResetAndCheck ==
  /\ pc = "reset"
  /\ LET r == [d \in 0 .. 1 |-> Registers(bus[at.chan][d])]
     IN is_ata' = [d \in 0 .. 1 |-> IsAta(r[d], d) /\ (d = 1 => SlavePossible(r[0]))]
  /\ pc' = "identify"
  /\ UNCHANGED <<bus, bdev_name, at, all_blocks, stack, part_nr, block_by_role>>

\* The loops of ide_init() over devices and channels go on.
NextDevice ==
  IF at.dev_no = 0 THEN
    /\ at' = [at EXCEPT !.dev_no = 1]
    /\ pc' = "identify"
  ELSE
    /\ at' = [chan |-> at.chan + 1, dev_no |-> 0]
    /\ pc' = IF at.chan + 1 \in Channel THEN "reset" ELSE "locate"

\* identify_ata_device() is not called, gets no data, or finds a disk that it had
\* better not touch.
Ignored ==
  \/ ~ is_ata[at.dev_no]
  \/ Device.answers # "data"
  \/ Device.capacity >= MaxCapacity

\* External: the device does not even interrupt.
Silent == is_ata[at.dev_no] /\ Device.answers = "never"

\* sema_down() for the interrupt of IDENTIFY DEVICE has no time limit.
Hang ==
  /\ pc = "identify"
  /\ Silent
  /\ pc' = "hung"
  /\ UNCHANGED <<bus, bdev_name, at, is_ata, all_blocks, stack, part_nr, block_by_role>>

SkipDevice ==
  /\ pc = "identify"
  /\ Ignored /\ ~ Silent
  /\ is_ata' = [is_ata EXCEPT ![at.dev_no] = FALSE]
  /\ NextDevice
  /\ UNCHANGED <<bus, bdev_name, all_blocks, stack, part_nr, block_by_role>>

\* A block: its disk, the first sector in it, its size and its type.
block_register(name, type, start, size) ==
  Append(all_blocks,
         [name |-> name, type |-> type, chan |-> at.chan, dev_no |-> at.dev_no,
          start |-> start, size |-> size])

\* A call of read_partition_table() that has not read its sector yet.
Call(sector, primary) ==
  [sector |-> sector, primary_extended_sector |-> primary, i |-> 0]

\* identify_ata_device() registers the disk and calls partition_scan().
identify_ata_device ==
  /\ pc = "identify"
  /\ ~ Ignored
  /\ all_blocks' = block_register(DiskName(at.chan, at.dev_no), "raw", 0, Device.capacity)
  /\ stack' = <<Call(0, 0)>>
  /\ part_nr' = 0
  /\ pc' = "scan"
  /\ UNCHANGED <<bus, bdev_name, at, is_ata, block_by_role>>
-----------------------------------------------------------------------------
Top == Last(stack)

\* The innermost call returns.
Returned == Front(stack)

\* The sector that block_read() is given.
TableSector(f) == 0

\* External: the table in a sector; one that holds none has no signature.
TableIn(sector) ==
  IF sector \in DOMAIN Device.tables THEN Device.tables[sector]
  ELSE [signature |-> FALSE, partitions |-> << >>]

Table == TableIn(TableSector(Top))

\* The sector is past the end of the device, or no table is in it.
BadTable ==
  /\ pc = "scan" /\ stack # << >> /\ Top.i = 0
  /\ Top.sector >= Device.capacity \/ ~ Table.signature
  /\ stack' = Returned
  /\ UNCHANGED <<bus, bdev_name, pc, at, is_ata, all_blocks, part_nr, block_by_role>>

GoodTable ==
  /\ pc = "scan" /\ stack # << >> /\ Top.i = 0
  /\ Top.sector < Device.capacity /\ Table.signature
  /\ stack' = [stack EXCEPT ![Len(stack)].i = 1]
  /\ UNCHANGED <<bus, bdev_name, pc, at, is_ata, all_blocks, part_nr, block_by_role>>

\* The call is at an entry of its table.
AtEntry == pc = "scan" /\ stack # << >> /\ Top.i \in 1 .. Len(Table.partitions)

Entry == Table.partitions[Top.i]

Stepped == [stack EXCEPT ![Len(stack)].i = @ + 1]

Empty(e) == e.size = 0 \/ e.type = 0

\* Extended, Windows 98, Linux and DR-DOS.
Extended(e) == e.type \in {5, 15, 133, 197}

EmptyEntry ==
  /\ AtEntry /\ Empty(Entry)
  /\ stack' = Stepped
  /\ UNCHANGED <<bus, bdev_name, pc, at, is_ata, all_blocks, part_nr, block_by_role>>

\* The table of an extended partition is read by a call of its own.
ExtendedEntry ==
  /\ AtEntry /\ ~ Empty(Entry) /\ Extended(Entry)
  /\ Len(stack) < MaxDepth
  /\ stack' =
       Append(Stepped,
              IF Top.sector = 0 THEN Call(Entry.offset, Entry.offset)
              ELSE Call((Entry.offset + Top.primary_extended_sector) % WORD,
                        Top.primary_extended_sector))
  /\ UNCHANGED <<bus, bdev_name, pc, at, is_ata, all_blocks, part_nr, block_by_role>>

BlockType(part_type) ==
  IF part_type \in 32 .. 35 THEN <<"kernel", "filesys", "scratch", "swap">>[part_type - 31]
  ELSE "foreign"

\* Mutant: the sum is compared with the size only.
FitsIfNoWrap(start, size) ==
  start < Device.capacity /\ (start + size) % WORD <= Device.capacity

\* found_partition() takes only partitions that end within the device.
Fits(start, size) ==
  LET end == (start + size) % WORD
  IN start < Device.capacity /\ ~ (end < start \/ end > Device.capacity)

StartOf(e) == (e.offset + Top.sector) % WORD

found_partition(e) ==
  all_blocks' =
    IF Fits(StartOf(e), e.size)
    THEN block_register(<<DiskName(at.chan, at.dev_no)[1], part_nr'>>,
                        BlockType(e.type), StartOf(e), e.size)
    ELSE all_blocks

PartitionEntry ==
  /\ AtEntry /\ ~ Empty(Entry) /\ ~ Extended(Entry)
  /\ part_nr' = part_nr + 1
  /\ found_partition(Entry)
  /\ stack' = Stepped
  /\ UNCHANGED <<bus, bdev_name, pc, at, is_ata, block_by_role>>

EndOfTable ==
  /\ pc = "scan" /\ stack # << >> /\ Top.i > Len(Table.partitions)
  /\ stack' = Returned
  /\ UNCHANGED <<bus, bdev_name, pc, at, is_ata, all_blocks, part_nr, block_by_role>>

EndOfScan ==
  /\ pc = "scan" /\ stack = << >>
  /\ NextDevice
  /\ UNCHANGED <<bus, bdev_name, is_ata, all_blocks, stack, part_nr, block_by_role>>
-----------------------------------------------------------------------------
\* The first block in probe order that has the name.
block_get_by_name(name) == SelectInSeq(all_blocks, LAMBDA b : b.name = name)

\* locate_block_device(): the named block, or the first of the role's type.
\* 0 stands for a null pointer.
Located(role) ==
  IF bdev_name[role] # NULL THEN block_get_by_name(bdev_name[role])
  ELSE SelectInSeq(all_blocks, LAMBDA b : b.type = role)

\* A name that is not there is a PANIC; a role that nobody has stays empty.
locate_block_devices ==
  /\ pc = "locate"
  /\ IF \E r \in Role : bdev_name[r] # NULL /\ Located(r) = 0
     THEN pc' = "panic" /\ UNCHANGED block_by_role
     ELSE /\ pc' = "done"
          /\ block_by_role' =
               [r \in Role |-> IF Located(r) = 0 THEN NULL ELSE all_blocks[Located(r)]]
  /\ UNCHANGED <<bus, bdev_name, at, is_ata, all_blocks, stack, part_nr>>

Next ==
  \/ ResetAndCheck \/ SkipDevice \/ Hang \/ identify_ata_device
  \/ BadTable \/ GoodTable \/ EmptyEntry \/ ExtendedEntry \/ PartitionEntry
  \/ EndOfTable \/ EndOfScan
  \/ locate_block_devices
-----------------------------------------------------------------------------
\* check_sector() panics if this does not hold.
check_sector(b, sector) == sector < b.size

\* The sector of the channel that block_read() and block_write() get to: a
\* partition adds its first sector and asks the disk's block in turn.
Reached(b, sector) == <<b.dev_no, (b.start + sector) % WORD>>

\* block_write() asserts it.
Writable(b) == b.type # "foreign"
-----------------------------------------------------------------------------
\* What a careful reader of the disks would register: the disks that answer
\* and are not too large, and the partitions of the table in sector 0.
Disks ==
  {d \in Channel \X (0 .. 1) :
     LET v == bus[d[1]][d[2]]
     IN v.what = "disk" /\ v.answers = "data" /\ v.capacity < MaxCapacity}

Partitions(v) ==
  IF 0 \notin DOMAIN v.tables \/ ~ v.tables[0].signature THEN << >>
  ELSE v.tables[0].partitions

NumberOf(ps, n) == Cardinality({k \in 1 .. n : ~ Empty(ps[k])})

Primary(d) ==
  LET v == bus[d[1]][d[2]]
      ps == Partitions(v)
  IN {[name |-> <<2 * d[1] + d[2], NumberOf(ps, n)>>, type |-> BlockType(ps[n].type),
       chan |-> d[1], dev_no |-> d[2], start |-> ps[n].offset, size |-> ps[n].size] :
         n \in {k \in DOMAIN ps : ~ Empty(ps[k]) /\ ps[k].offset + ps[k].size <= v.capacity}}

On(d) == {b \in Range(all_blocks) : <<b.chan, b.dev_no>> = d}

\* After the probe exactly the disks are registered, and of a disk without
\* extended partitions exactly the partitions that lie within it, each under
\* a name of its own.  No block reaches beyond its disk, whatever is in the
\* tables, and a role that no option names goes to the first block of its
\* type: what is written through a role stays within its partition.
BlocksAreExact ==
  pc \in {"locate", "done"} =>
    /\ {<<b.chan, b.dev_no>> : b \in Range(all_blocks)} = Disks
    /\ \A d \in Disks :
         LET v == bus[d[1]][d[2]]
         IN /\ \A b \in On(d) : b.start + b.size <= v.capacity
            /\ (\A n \in DOMAIN Partitions(v) : ~ Extended(Partitions(v)[n])) =>
                 {b \in On(d) : b.type # "raw"} = Primary(d)
    /\ \A i, j \in DOMAIN all_blocks : all_blocks[i].name = all_blocks[j].name => i = j
    /\ \A r \in Role : block_by_role[r] # NULL =>
         LET b == block_by_role[r]
         IN IF bdev_name[r] # NULL THEN b.name = bdev_name[r]
            ELSE b.type = r /\ \A i \in DOMAIN all_blocks : all_blocks[i].type = r =>
                   \/ all_blocks[i].name[1] > b.name[1]
                   \/ all_blocks[i].name[1] = b.name[1] /\ all_blocks[i].name[2] >= b.name[2]

\* "Reads the partition table in the given SECTOR of BLOCK and scans it for
\* partitions of interest": the logical partitions in the table that an
\* extended partition begins with are registered.
LogicalPartitionsFound ==
  pc \in {"locate", "done"} =>
    \A d \in Disks :
      LET v == bus[d[1]][d[2]]
      IN \A n \in DOMAIN Partitions(v) :
           LET x == Partitions(v)[n]
           IN Extended(x) /\ x.size > 0 /\ x.offset \in DOMAIN v.tables =>
                \A k \in DOMAIN v.tables[x.offset].partitions :
                  LET e == v.tables[x.offset].partitions[k]
                  IN ~ Empty(e) /\ ~ Extended(e) =>
                       \E b \in On(d) : b.start = x.offset + e.offset /\ b.size = e.size
=============================================================================
