------------------------------- MODULE MCDisk -------------------------------
(***************************************************************************)
(* The disks from boot to use: Probe finds and names them, and then the    *)
(* threads of Ide read and write the blocks that have a role, on channel   *)
(* 0, whose disks hold them.                                               *)
(***************************************************************************)
EXTENDS Ide, Sequences, TLC

CONSTANTS MaxCapacity, WORD, MaxDepth

VARIABLES bus, bdev_name, boot, at, is_ata, all_blocks, stack, part_nr, block_by_role

bootVars == <<bus, bdev_name, boot, at, is_ata, all_blocks, stack, part_nr, block_by_role>>

Large == 1048576

E(type, offset, size) == [type |-> type, offset |-> offset, size |-> size]

T(signature, partitions) == [signature |-> signature, partitions |-> partitions]

\* A device's registers after the reset.
R(error, lbam, lbah, drdy, bsy) ==
  [error |-> error, lbam |-> lbam, lbah |-> lbah, drdy |-> drdy, bsy |-> bsy]

Other(after) ==
  [what |-> "other", regs |-> after, answers |-> "no data", capacity |-> 0, tables |-> << >>]

DiskWith(capacity, tables) ==
  [what |-> "disk", regs |-> R(1, 0, 0, TRUE, FALSE), answers |-> "data",
   capacity |-> capacity, tables |-> tables]

\* Nothing, a CD-ROM, a device that stays busy, one that failed its test.
Nothing == Other(R(255, 255, 255, TRUE, TRUE))
Cdrom == Other(R(1, 20, 235, TRUE, FALSE))
Hung == Other(R(1, 0, 0, TRUE, TRUE))
Bad == Other(R(0, 0, 0, TRUE, FALSE))

At0(t) == [n \in {0} |-> t]

\* Partitions on both sides of the registers' byte limits.
Root == DiskWith(Large, At0(T(TRUE,
          <<E(32, 1, 200), E(33, 255, 2), E(34, 65535, 2), E(131, 2000, 1)>>)))

Scratch == DiskWith(600, At0(T(TRUE, <<E(34, 256, 1), E(0, 1, 5), E(33, 300, 1)>>)))

\* Entries that end or begin past the end, or wrap around.
Damaged == DiskWith(600, At0(T(TRUE,
          <<E(33, 500, 101), E(33, 600, 1), E(33, 10, WORD - 5), E(33, 599, 1)>>)))

Unsigned == DiskWith(600, At0(T(FALSE, <<E(33, 1, 1)>>)))

\* An extended partition in the second half of the disk, with a table in it.
WithLogical == DiskWith(600, 0 :> T(TRUE, <<E(33, 1, 1), E(5, 400, 100)>>)
                             @@ 400 :> T(TRUE, <<E(34, 1, 2)>>))

Huge == [Root EXCEPT !.capacity = MaxCapacity]

\* One that interrupts without data, and one that does not.
Mute == [Root EXCEPT !.answers = "no data"]
Dead == [Root EXCEPT !.answers = "never"]

\* A master whose register says that the slave failed its test.
WithBadSlave(v) == [v EXCEPT !.regs.error = 129]

Pair(master, slave) == 0 :> master @@ 1 :> slave

Buses ==
  {0 :> Pair(p[1], p[2]) @@ 1 :> Pair(p[3], p[4]) :
     p \in {<<Root, Scratch, Nothing, Nothing>>,
            <<Nothing, Scratch, Scratch, Cdrom>>,
            <<Cdrom, Damaged, Root, Hung>>,
            <<Hung, Unsigned, Scratch, Scratch>>,
            <<Huge, WithLogical, Mute, Scratch>>,
            <<Scratch, Dead, Nothing, Nothing>>,
            <<WithBadSlave(Damaged), Bad, Nothing, Root>>,
            <<WithBadSlave(Hung), Bad, Cdrom, WithLogical>>}}

\* The partition with logical partitions in it alone.
ExtendedBus == {0 :> Pair(WithLogical, Nothing) @@ 1 :> Pair(Nothing, Nothing)}

\* The scratch option is the whole slave, a partition of it, or not given.
AllOptions ==
  {[filesys |-> NULL, scratch |-> n] : n \in {NULL, <<1, 0>>, <<1, 1>>}}

NoOptions == {[filesys |-> NULL, scratch |-> NULL]}

CONSTANTS Bus, Options

P == INSTANCE Probe WITH pc <- boot

\* An entry of a partition table: a byte and two words.
Partition == [type : 0 .. 255, offset : 0 .. WORD - 1, size : 0 .. WORD - 1]

\* Sector numbers of the disks that are not ignored have 28 bits.  Only a disk
\* answers IDENTIFY DEVICE, and a disk comes up after the reset, a slave not
\* beside a master that failed and says that the slave failed too.
ASSUME BusAssumption ==
  /\ WORD \in Nat /\ MaxCapacity \in Nat
  /\ MaxCapacity <= WORD /\ MaxCapacity <= 16 * 256 * 256 * 256
  /\ \A b \in Bus : \A c, d \in 0 .. 1 :
       LET v == b[c][d]
       IN /\ v.capacity \in Nat
          /\ \A s \in DOMAIN v.tables : v.tables[s].partitions \in Seq(Partition)
          /\ v.answers = "data" => v.what = "disk"
          /\ v.what = "disk" =>
               P!IsAta(P!Registers(v), d) /\ (d = 1 => P!SlavePossible(P!Registers(b[c][0])))

\* The sectors that the roles' blocks can reach.
Sectors ==
  {0, 1} \X {0, 1, 2, 255, 256, 300, 401, 402, 599, 65535, 65536}
-----------------------------------------------------------------------------
MCInit == P!Init /\ Init

\* IDENTIFY DEVICE goes to the channel by issue_pio_command().
Boot ==
  /\ P!Next
  /\ IF boot = "identify" /\ at.chan = 0 /\ is_ata[at.dev_no] THEN Identify
     ELSE UNCHANGED vars

\* block_read() and block_write() of a block that has a role.  Bound: after a wait
\* for an idle disk was given up, nothing more is written.
Use(t) ==
  /\ boot = "done"
  /\ \E r \in P!Role, op \in {"read", "write"}, sector \in 0 .. 1, data \in Data :
       LET b == block_by_role[r]
       IN /\ b # NULL
          /\ b.chan = 0
          /\ P!check_sector(b, sector)
          /\ IF op = "write" THEN P!Writable(b) /\ ~ timed_out ELSE data = Blank
          /\ Call(t, [op |-> op, sec |-> P!Reached(b, sector), data |-> data])
  /\ UNCHANGED bootVars

MCNext ==
  \/ Boot
  \/ \E t \in Thread : Use(t)
  \/ Work /\ UNCHANGED bootVars

allVars == <<vars, bootVars>>

MCSpec == MCInit /\ [][MCNext]_allVars

\* The disk completes its commands, interrupts are delivered, and a runnable
\* thread runs.
MCFairSpec ==
  /\ MCSpec
  /\ WF_allVars(Boot)
  /\ WF_allVars(DiskDone /\ UNCHANGED bootVars)
  /\ WF_allVars(interrupt_handler /\ UNCHANGED bootVars)
  /\ \A t \in Thread : WF_allVars(Inside(t) /\ UNCHANGED bootVars)

BlocksAreExact == P!BlocksAreExact

LogicalPartitionsFound == P!LogicalPartitionsFound
=============================================================================
