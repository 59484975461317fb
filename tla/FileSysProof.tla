---------------------------- MODULE FileSysProof ----------------------------
(***************************************************************************)
(* Proofs about FileSys, for any disk, directory and sector size, any      *)
(* names and handles and any crashes: whenever the machine stops the disk  *)
(* is sound, the free map accounts for every sector, the counts in the     *)
(* open inodes are those of the open files, and callers see the store of   *)
(* files of FileStore.  They assume what dir_add()'s comment assumes, that *)
(* a short read means the end of the directory.                            *)
(***************************************************************************)
EXTENDS FileSys, FiniteSetTheorems, TLAPS

Entry == [name : Name, inode_sector : Sector]
OpenFile == [inode : Sector, pos : Nat, deny_write : BOOLEAN]
used == disk[FREE_MAP_DATA].used

\* The sectors of a file with its inode in s.
Blocks(s, start, length) == {s} \union Sectors(start, bytes_to_sectors(length))

\* The two system sectors that change have their shape; a bit that is set in
\* memory is set on disk.
DiskType ==
  /\ disk = [s \in Sector |-> disk[s]]
  /\ disk[ROOT_DIR_DATA] = Directory(entry)
  /\ entry \in [Slot -> Entry \union {NULL}]
  /\ disk[FREE_MAP_DATA] = Map(used)
  /\ free_map \subseteq used /\ used \subseteq Sector

\* A sector with an inode in it, apart from the sectors it leads to.
IsInode(s) ==
  LET d == disk[s]
  IN  /\ s \in Sector
      /\ d = OnDisk(d.start, d.length) /\ d.start \in Nat /\ d.length \in Nat
      /\ s \notin Sectors(d.start, bytes_to_sectors(d.length))

\* Names are given once, files have one name, and an inode each.
Files ==
  /\ NamesAreUnique
  /\ \A i, j \in InUse : entry[i].inode_sector = entry[j].inode_sector => i = j
  /\ \A s \in Live : IsInode(s)

\* The locals of filesys_create(), of a release and of a write.
Creating ==
  /\ op.at = "inode_create" =>
       op = [at |-> op.at, name |-> op.name, length |-> op.length, sector |-> op.sector]
  /\ op.at \in {"write_inode", "zero", "dir_add"} =>
       /\ op = [at |-> op.at, name |-> op.name, length |-> op.length, sector |-> op.sector,
                start |-> op.start, i |-> op.i]
       /\ op.start \in Nat /\ op.i \in Nat
       /\ op.sector \notin Sectors(op.start, bytes_to_sectors(op.length))
  /\ op.at \in {"inode_create", "write_inode", "zero", "dir_add"} =>
       op.name \in Name /\ op.length \in Nat /\ op.sector \in Sector
  /\ op.at = "write_inode" => op.i = 0
  /\ op.at = "zero" => op.i < SectorsToZero(op.length)
  /\ op.at \in {"zero", "dir_add"} => disk[op.sector] = OnDisk(op.start, op.length)

\* The bits that a call of free_map_release() clears.
Bits(s) == Sectors(s.start, s.cnt)

Releasing ==
  op.at = "release" =>
    \/ \E a : op = Release(<<a>>)
    \/ \E a, b : op = Release(<<a, b>>) /\ Bits(a) \cap Bits(b) = {}

Writing ==
  op.at = "write" =>
    /\ op = [at |-> "write", file |-> op.file, byte |-> op.byte, size |-> op.size,
             offset |-> op.offset]
    /\ op.file \in OpenFiles /\ op.size \in Nat /\ op.offset \in Nat

OpType ==
  /\ op.at \in {"idle", "inode_create", "write_inode", "zero", "dir_add", "release", "write"}
  /\ Creating /\ Releasing /\ Writing

\* The structs in memory.
IsOpenInode(inode) ==
  /\ inode = [open_cnt |-> inode.open_cnt, removed |-> inode.removed,
              deny_write_cnt |-> inode.deny_write_cnt, data |-> inode.data]
  /\ inode.removed \in BOOLEAN

MemoryType ==
  /\ file \in [Handle -> OpenFile \union {NULL}]
  /\ IsFiniteSet(OpenFiles)
  /\ DOMAIN inodes \subseteq Sector
  /\ inodes = [s \in DOMAIN inodes |-> inodes[s]]
  /\ \A s \in DOMAIN inodes : IsOpenInode(inodes[s])

\* The inductive invariant.
IInv == ~ ShortReads /\ DiskType /\ Files /\ OpType /\ FreeMapExact /\ MemoryType /\ OpenCountsExact

-----------------------------------------------------------------------------
\* FM is made up of the system's sectors, LO, PD and the sets E[s], and no
\* sector is in two of these.
Partition(FM, LO, PD, E) ==
  /\ FM = System \union LO \union PD \union UNION {E[s] : s \in DOMAIN E}
  /\ System \cap (LO \union PD) = {} /\ LO \cap PD = {}
  /\ \A s \in DOMAIN E :
       /\ E[s] \cap (System \union LO \union PD) = {}
       /\ \A t \in DOMAIN E \ {s} : E[s] \cap E[t] = {}

\* Clear bits are set for the call in progress.
LEMMA PartAllocate ==
  ASSUME NEW FM, NEW LO, NEW PD, NEW E, NEW A,
         Partition(FM, LO, PD, E), A \cap FM = {}
  PROVE  Partition(FM \union A, LO, PD \union A, E)
  <1>1. \A x \in A : x \notin FM
    OBVIOUS
  <1> QED BY <1>1 DEF Partition

\* The call in progress clears some of its bits.
LEMMA PartRelease ==
  ASSUME NEW FM, NEW LO, NEW PD, NEW E, NEW A,
         Partition(FM, LO, PD, E), A \subseteq PD
  PROVE  Partition(FM \ A, LO, PD \ A, E)
  <1>1. \A x \in A : x \in PD
    OBVIOUS
  <1> QED BY <1>1 DEF Partition

\* The call in progress forgets some of its sectors.
LEMMA PartLose ==
  ASSUME NEW FM, NEW LO, NEW PD, NEW E, NEW A,
         Partition(FM, LO, PD, E), A \subseteq PD
  PROVE  Partition(FM, LO \union A, PD \ A, E)
  <1>1. \A x \in A : x \in PD
    OBVIOUS
  <1> QED BY <1>1 DEF Partition

\* What the call in progress holds becomes a file.
LEMMA PartCreate ==
  ASSUME NEW FM, NEW LO, NEW PD, NEW E, NEW s, NEW F,
         Partition(FM, LO, PD, E),
         s \notin DOMAIN E, DOMAIN F = DOMAIN E \union {s}, F[s] = PD,
         \A t \in DOMAIN E : F[t] = E[t]
  PROVE  Partition(FM, LO, {}, F)
  BY DEF Partition

\* A file becomes what the call in progress has to give back.
LEMMA PartRemove ==
  ASSUME NEW FM, NEW LO, NEW E, NEW s \in DOMAIN E, NEW F,
         Partition(FM, LO, {}, E),
         DOMAIN F = DOMAIN E \ {s}, \A t \in DOMAIN F : F[t] = E[t]
  PROVE  Partition(FM, LO, E[s], F)
  BY DEF Partition

\* Some of the files are kept, with a map U that marks more than FM.
LEMMA PartRestart ==
  ASSUME NEW FM, NEW LO, NEW PD, NEW E, NEW U, NEW F,
         Partition(FM, LO, PD, E), FM \subseteq U,
         DOMAIN F \subseteq DOMAIN E, \A t \in DOMAIN F : F[t] = E[t]
  PROVE  Partition(U, U \ (System \union UNION {F[s] : s \in DOMAIN F}), {}, F)
  <1> DEFINE LO2 == U \ (System \union UNION {F[s] : s \in DOMAIN F})
  <1>1. \A x : x \in LO2 <=> x \in U /\ x \notin System /\ \A s \in DOMAIN F : x \notin F[s]
    OBVIOUS
  <1>2. \A x \in FM : x \in U
    OBVIOUS
  <1>3. \A s \in DOMAIN F : s \in DOMAIN E /\ F[s] = E[s]
    OBVIOUS
  <1> HIDE DEF LO2
  <1>4. Partition(U, LO2, {}, F)
    BY <1>1, <1>2, <1>3 DEF Partition
  <1> QED BY <1>4 DEF LO2

-----------------------------------------------------------------------------
\* What the invariant says, put the way the proofs use it.
Extents == [s \in Live |-> Extent(s)]

LEMMA MapIsPartition ==
  FreeMapExact <=> Partition(free_map, lost, Pending, Extents)
  BY DEF FreeMapExact, Partition, Extents

LEMMA SectorsOf ==
  /\ \A n \in Nat : bytes_to_sectors(n) \in Nat
  /\ \A n, m \in Nat : m < n => /\ m \div BLOCK_SECTOR_SIZE \in Nat
                                /\ m \div BLOCK_SECTOR_SIZE < bytes_to_sectors(n)
  <1> DEFINE B == BLOCK_SECTOR_SIZE
  <1>1. B \in Nat \ {0}
    BY FileSysAssumption
  <1> HIDE DEF B
  <1>2. \A n \in Nat : (n + B - 1) \div B \in Nat
    BY <1>1
  <1>3. \A n, m \in Nat : m < n => m \div B \in Nat /\ m \div B < (n + B - 1) \div B
    BY <1>1
  <1> QED BY <1>2, <1>3 DEF bytes_to_sectors, B

LEMMA Constants ==
  /\ System = {0, 1, 2, 3} /\ System \subseteq Sector
  /\ FREE_MAP_DATA = 2 /\ ROOT_DIR_DATA = 3
  BY FileSysAssumption DEF System, Sector, FREE_MAP_DATA, ROOT_DIR_DATA,
     FREE_MAP_SECTOR, ROOT_DIR_SECTOR

\* What the call in progress holds, by where it is.
PendingFacts ==
  /\ op.at \in {"idle", "write"} => Pending = {}
  /\ op.at = "inode_create" => Pending = {op.sector}
  /\ op.at \in {"write_inode", "zero", "dir_add"} =>
       Pending = Blocks(op.sector, op.start, op.length)
  /\ \A a : op = Release(<<a>>) => Pending = Bits(a)
  /\ \A a, b : op = Release(<<a, b>>) => Pending = Bits(a) \union Bits(b)

LEMMA PendingIs == PendingFacts
  <1>1. op.at \in {"idle", "write"} => Pending = {}
    BY DEF Pending
  <1>2. op.at = "inode_create" => Pending = {op.sector}
    BY DEF Pending
  <1>3. op.at \in {"write_inode", "zero", "dir_add"} =>
          Pending = Blocks(op.sector, op.start, op.length)
    BY DEF Pending, Blocks
  <1>4. op.at = "release" =>
          Pending = UNION {Bits(op.todo[k]) : k \in DOMAIN op.todo}
    BY DEF Pending, Bits
  <1>5. ASSUME NEW a, op = Release(<<a>>) PROVE Pending = Bits(a)
    <2>1. op.at = "release" /\ op.todo = <<a>>
      BY <1>5 DEF Release
    <2>2. DOMAIN op.todo = {1} /\ op.todo[1] = a
      BY <2>1
    <2> QED BY <1>4, <2>1, <2>2
  <1>6. ASSUME NEW a, NEW b, op = Release(<<a, b>>) PROVE Pending = Bits(a) \union Bits(b)
    <2>1. op.at = "release" /\ op.todo = <<a, b>>
      BY <1>6 DEF Release
    <2>2. DOMAIN op.todo = {1, 2} /\ op.todo[1] = a /\ op.todo[2] = b
      BY <2>1
    <2> QED BY <1>4, <2>1, <2>2
  <1> QED BY <1>1, <1>2, <1>3, <1>5, <1>6 DEF PendingFacts

\* Where the files are.
LEMMA LiveFacts ==
  ASSUME IInv
  PROVE  /\ \A s \in Live : /\ s \in Sector /\ s \notin System /\ s \notin Pending
                            /\ s \in Extent(s) /\ Extent(s) \subseteq free_map
                            /\ Extent(s) \cap Pending = {}
                            /\ \A t \in Live : t \in Extent(s) => t = s
         /\ \A i \in InUse : entry[i].inode_sector \in Live
         /\ Pending \subseteq free_map /\ Pending \cap System = {}
         /\ free_map \subseteq Sector /\ lost \subseteq free_map
  <1>1. \A s \in Live : s \in Extent(s) /\ s \in Sector
    BY DEF Extent, IInv, Files, IsInode
  <1>2. \A s \in Live : Extent(s) \subseteq free_map
    BY DEF IInv, FreeMapExact
  <1>3. \A s \in Live : Extent(s) \cap Pending = {} /\ Extent(s) \cap System = {}
    BY DEF IInv, FreeMapExact
  <1>4. \A s, t \in Live : t \in Extent(s) => t = s
    BY <1>1 DEF IInv, FreeMapExact
  <1>5. \A i \in InUse : entry[i].inode_sector \in Live
    BY DEF Live, Named
  <1>6. /\ Pending \subseteq free_map /\ Pending \cap System = {}
        /\ free_map \subseteq Sector /\ lost \subseteq free_map
    BY DEF IInv, FreeMapExact, DiskType
  <1> QED BY <1>1, <1>2, <1>3, <1>4, <1>5, <1>6

\* The open files of an inode, those of them that deny writes, and what the
\* invariant says of one inode.
FilesOf(s) == {h \in OpenFiles : file[h].inode = s}
Denying(s) == {h \in FilesOf(s) : file[h].deny_write}
InodeExact(s) ==
  /\ inodes[s].open_cnt = Cardinality(FilesOf(s))
  /\ inodes[s].deny_write_cnt = Cardinality(Denying(s))
  /\ inodes[s].open_cnt > 0
  /\ inodes[s].removed <=> s \notin Named
  /\ inodes[s].data = disk[s]

LEMMA CountsAre ==
  OpenCountsExact <=> /\ \A h \in OpenFiles : file[h].inode \in DOMAIN inodes
                      /\ \A s \in DOMAIN inodes : InodeExact(s)
  BY DEF OpenCountsExact, InodeExact, Denying, FilesOf

LEMMA CountsArePrimed ==
  OpenCountsExact' <=> /\ \A h \in OpenFiles' : file'[h].inode \in DOMAIN inodes'
                       /\ \A s \in DOMAIN inodes' : InodeExact(s)'
  BY DEF OpenCountsExact, InodeExact, Denying, FilesOf

-----------------------------------------------------------------------------
\* A step that leaves the directory and every file's inode alone.
Undisturbed == entry' = entry /\ \A s \in Live : disk'[s] = disk[s]

LEMMA UndisturbedFacts ==
  ASSUME IInv, Undisturbed
  PROVE  /\ InUse' = InUse /\ Named' = Named /\ NamesAreUnique'
         /\ \A i, j \in InUse : entry'[i].inode_sector = entry'[j].inode_sector => i = j
         /\ \A s \in Live : Extent(s)' = Extent(s) /\ IsInode(s)'
  <1>1. InUse' = InUse
    BY DEF InUse, Undisturbed
  <1>2. Named' = Named
    BY <1>1 DEF Named, Undisturbed
  <1>3. NamesAreUnique'
    BY <1>1 DEF IInv, Files, NamesAreUnique, Undisturbed
  <1>4. \A i, j \in InUse : entry'[i].inode_sector = entry'[j].inode_sector => i = j
    BY DEF IInv, Files, Undisturbed
  <1>5. \A s \in Live : Extent(s)' = Extent(s)
    BY DEF Extent, Undisturbed
  <1>6. \A s \in Live : IsInode(s)'
    BY DEF IInv, Files, IsInode, Undisturbed
  <1> QED BY <1>1, <1>2, <1>3, <1>4, <1>5, <1>6

\* A step that opens, closes and removes nothing.
LEMMA QuietStep ==
  ASSUME IInv, Undisturbed, DiskType', OpType', inodes' = inodes, file' = file,
         Partition(free_map', lost', Pending', Extents)
  PROVE  IInv'
  <1>1. /\ InUse' = InUse /\ Named' = Named /\ NamesAreUnique'
        /\ \A i, j \in InUse : entry'[i].inode_sector = entry'[j].inode_sector => i = j
        /\ \A s \in Live : Extent(s)' = Extent(s) /\ IsInode(s)'
    BY UndisturbedFacts
  <1>2. Live' = Live
    BY <1>1 DEF Live
  <1>3. Files'
    BY <1>1, <1>2 DEF Files
  <1>4. Extents' = Extents
    BY <1>1, <1>2 DEF Extents
  <1>5. FreeMapExact'
    <2>1. Partition(free_map', lost', Pending', Extents')
      BY <1>4
    <2>2. FreeMapExact' <=> Partition(free_map, lost, Pending, Extents)'
      BY MapIsPartition, PTL
    <2> QED BY <2>1, <2>2 DEF Partition
  <1>6. MemoryType'
    BY DEF IInv, MemoryType, OpenFiles
  <1>7. OpenCountsExact'
    <2>1. OpenFiles' = OpenFiles
      BY DEF OpenFiles
    <2>2. \A s : FilesOf(s)' = FilesOf(s)
      BY <2>1 DEF FilesOf
    <2>3. \A s : Denying(s)' = Denying(s)
      BY <2>2 DEF Denying
    <2>4. \A s \in DOMAIN inodes : disk'[s] = disk[s]
      BY DEF Undisturbed, Live
    <2>5. \A s \in DOMAIN inodes : InodeExact(s)
      BY CountsAre DEF IInv
    <2>6. \A s \in DOMAIN inodes : InodeExact(s)'
      BY <1>1, <2>2, <2>3, <2>4, <2>5 DEF InodeExact
    <2>7. \A h \in OpenFiles' : file'[h].inode \in DOMAIN inodes'
      BY <2>1, CountsAre DEF IInv
    <2> QED BY <2>6, <2>7, CountsArePrimed
  <1> QED BY <1>3, <1>5, <1>6, <1>7 DEF IInv

\* Writes of one sector.
LEMMA DataWrite ==
  ASSUME IInv, NEW w \in Sector, NEW d, w \notin System, w \notin Live,
         disk' = [disk EXCEPT ![w] = d], free_map' = free_map
  PROVE  Undisturbed /\ DiskType'
  <1>1. disk = [s \in Sector |-> disk[s]]
    BY DEF IInv, DiskType
  <1>2. disk'[2] = disk[2] /\ disk'[3] = disk[3] /\ disk' = [s \in Sector |-> disk'[s]]
    BY <1>1, Constants
  <1>3. \A s \in Live : disk'[s] = disk[s]
    BY <1>1, LiveFacts
  <1>4. entry' = entry /\ used' = used
    BY <1>2, Constants DEF entry, used
  <1> QED BY <1>2, <1>3, <1>4, Constants DEF Undisturbed, IInv, DiskType

LEMMA MapWrite ==
  ASSUME IInv, disk' = [disk EXCEPT ![FREE_MAP_DATA] = Map(free_map')],
         free_map' \subseteq Sector
  PROVE  Undisturbed /\ DiskType'
  <1>1. disk = [s \in Sector |-> disk[s]]
    BY DEF IInv, DiskType
  <1>2. /\ disk'[2] = Map(free_map') /\ disk'[3] = disk[3]
        /\ disk' = [s \in Sector |-> disk'[s]]
    BY <1>1, Constants
  <1>3. \A s \in Live : disk'[s] = disk[s]
    BY <1>1, LiveFacts, Constants
  <1>4. entry' = entry /\ used' = free_map'
    BY <1>2, Constants DEF entry, used, Map
  <1> QED BY <1>2, <1>3, <1>4, Constants DEF Undisturbed, IInv, DiskType

LEMMA NoWrite ==
  ASSUME IInv, disk' = disk, free_map' \subseteq free_map
  PROVE  Undisturbed /\ DiskType'
  BY DEF IInv, Undisturbed, DiskType, entry, used

-----------------------------------------------------------------------------
LEMMA InitIInv == ~ ShortReads /\ Init => IInv
  <1> SUFFICES ASSUME ~ ShortReads, Init PROVE IInv
    OBVIOUS
  <1>1. /\ disk = [s \in Sector |-> disk[s]]
        /\ disk[2] = Map(System) /\ disk[3] = Directory([i \in Slot |-> NULL])
    BY Constants DEF Init, do_format, FREE_MAP_SECTOR, ROOT_DIR_SECTOR
  <1>2. entry = [i \in Slot |-> NULL] /\ used = System
    BY <1>1, Constants DEF entry, used, Map, Directory
  <1>3. InUse = {} /\ OpenFiles = {} /\ DOMAIN inodes = {}
    BY <1>2 DEF InUse, OpenFiles, Init, do_format
  <1>4. Live = {}
    BY <1>3 DEF Live, Named
  <1>5. DiskType
    BY <1>1, <1>2, Constants DEF DiskType, Init, do_format
  <1>6. Files
    BY <1>3, <1>4 DEF Files, NamesAreUnique
  <1>7. OpType
    BY DEF OpType, Creating, Releasing, Writing, Init, do_format
  <1>8. Pending = {}
    BY PendingIs DEF PendingFacts, Init, do_format
  <1>9. FreeMapExact
    BY <1>4, <1>8 DEF FreeMapExact, Init, do_format
  <1>10. MemoryType
    BY <1>3, FS_EmptySet DEF MemoryType, Init, do_format
  <1>11. OpenCountsExact
    BY <1>3 DEF OpenCountsExact
  <1> QED BY <1>5, <1>6, <1>7, <1>9, <1>10, <1>11 DEF IInv

-----------------------------------------------------------------------------
\* The steps of filesys_create(), up to dir_add(), and of a release.
LEMMA Allocates ==
  ASSUME IInv, NEW s \in Sector, NEW cnt \in Nat, free_map_allocate(s, cnt)
  PROVE  /\ Undisturbed /\ DiskType'
         /\ free_map' = free_map \union Sectors(s, cnt)
         /\ Sectors(s, cnt) \cap free_map = {} /\ Sectors(s, cnt) \subseteq Sector
  <1>1. /\ free_map' = free_map \union Sectors(s, cnt)
        /\ s + cnt <= NSectors /\ Sectors(s, cnt) \cap free_map = {}
        /\ disk' = [disk EXCEPT ![FREE_MAP_DATA] = Map(free_map')]
    BY DEF free_map_allocate, bitmap_scan, Fits
  <1>2. Sectors(s, cnt) \subseteq Sector
    BY <1>1, FileSysAssumption DEF Sectors, Sector
  <1>3. free_map' \subseteq Sector
    BY <1>1, <1>2, LiveFacts
  <1>4. Undisturbed /\ DiskType'
    BY <1>1, <1>3, MapWrite
  <1> QED BY <1>1, <1>2, <1>4

LEMMA OneSector ==
  ASSUME NEW s \in Nat
  PROVE  Sectors(s, 1) = {s}
  BY DEF Sectors

LEMMA PartitionNow ==
  ASSUME IInv
  PROVE  Partition(free_map, lost, Pending, Extents) /\ PendingFacts /\ PendingFacts'
  <1>1. PendingFacts /\ PendingFacts'
    BY PendingIs, PTL
  <1> QED BY <1>1, MapIsPartition DEF IInv

LEMMA CreateStep ==
  ASSUME IInv, NEW n \in Name, NEW len \in Length, filesys_create(n, len)
  PROVE  IInv'
  <1>1. PICK s \in Sector :
          /\ free_map_allocate(s, 1)
          /\ op' = [at |-> "inode_create", name |-> n, length |-> len, sector |-> s]
    BY DEF filesys_create
  <1>2. op.at = "idle" /\ inodes' = inodes /\ file' = file /\ lost' = lost
    BY DEF filesys_create
  <1>3. /\ Undisturbed /\ DiskType' /\ free_map' = free_map \union Sectors(s, 1)
        /\ Sectors(s, 1) \cap free_map = {}
    BY <1>1, Allocates
  <1>4. s \in Nat /\ len \in Nat
    BY FileSysAssumption DEF Sector
  <1>5. Pending = {} /\ Pending' = {s}
    BY <1>1, <1>2, PartitionNow DEF PendingFacts
  <1>6. Partition(free_map', lost', Pending', Extents)
    BY <1>2, <1>3, <1>4, <1>5, PartitionNow, PartAllocate, OneSector
  <1>7. OpType'
    BY <1>1, <1>4 DEF OpType, Creating, Releasing, Writing
  <1> QED BY <1>2, <1>3, <1>6, <1>7, QuietStep

LEMMA InodeCreateStep ==
  ASSUME IInv, inode_create
  PROVE  IInv'
  <1>1. /\ op.at = "inode_create" /\ inodes' = inodes /\ file' = file /\ lost' = lost
        /\ op.name \in Name /\ op.length \in Nat /\ op.sector \in Sector
    BY DEF inode_create, IInv, OpType, Creating
  <1>2. Pending = {op.sector} /\ op.sector \in free_map /\ op.sector \in Nat
    BY <1>1, PartitionNow, LiveFacts DEF PendingFacts, Sector
  <1> DEFINE cnt == bytes_to_sectors(op.length)
  <1>3. cnt \in Nat
    BY <1>1, SectorsOf
  <1> HIDE DEF cnt
  <1>4. ASSUME NEW s \in Sector, free_map_allocate(s, cnt),
               op' = [at |-> "write_inode", name |-> op.name, length |-> op.length,
                      sector |-> op.sector, start |-> s, i |-> 0]
        PROVE  IInv'
    <2>1. /\ Undisturbed /\ DiskType' /\ free_map' = free_map \union Sectors(s, cnt)
          /\ Sectors(s, cnt) \cap free_map = {}
      BY <1>3, <1>4, Allocates
    <2>2. Pending' = Pending \union Sectors(s, cnt)
      BY <1>2, <1>4, PartitionNow DEF PendingFacts, Blocks, cnt
    <2>3. Partition(free_map', lost', Pending', Extents)
      BY <1>1, <2>1, <2>2, PartitionNow, PartAllocate
    <2>4. op.sector \notin Sectors(s, cnt) /\ s \in Nat
      BY <1>2, <2>1 DEF Sector
    <2>5. OpType'
      BY <1>1, <1>4, <2>4 DEF OpType, Creating, Releasing, Writing, cnt
    <2> QED BY <1>1, <2>1, <2>3, <2>5, QuietStep
  <1>5. ASSUME op' = Release(<<[start |-> op.sector, cnt |-> 1]>>),
               disk' = disk, free_map' = free_map
        PROVE  IInv'
    <2>1. Pending' = Bits([start |-> op.sector, cnt |-> 1])
      BY <1>5, PartitionNow DEF PendingFacts
    <2>2. Pending' = Pending
      BY <1>2, <2>1, OneSector DEF Bits
    <2>3. Partition(free_map', lost', Pending', Extents)
      BY <1>1, <1>5, <2>2, PartitionNow
    <2>4. OpType'
      BY <1>5 DEF OpType, Creating, Releasing, Writing, Release
    <2>5. Undisturbed /\ DiskType'
      BY <1>5, NoWrite
    <2> QED BY <1>1, <2>3, <2>4, <2>5, QuietStep
  <1> QED BY <1>4, <1>5 DEF inode_create, cnt

\* The locals of a call that has its inode's and its data's sectors.
LEMMA CreatingFacts ==
  ASSUME IInv, op.at \in {"write_inode", "zero", "dir_add"}
  PROVE  /\ op = [at |-> op.at, name |-> op.name, length |-> op.length, sector |-> op.sector,
                  start |-> op.start, i |-> op.i]
         /\ op.name \in Name /\ op.length \in Nat /\ op.sector \in Sector
         /\ op.start \in Nat /\ op.i \in Nat
         /\ op.sector \notin Sectors(op.start, bytes_to_sectors(op.length))
         /\ Pending = {op.sector} \union Sectors(op.start, bytes_to_sectors(op.length))
  <1>1. Pending = Blocks(op.sector, op.start, op.length)
    BY PartitionNow DEF PendingFacts
  <1> QED BY <1>1 DEF IInv, OpType, Creating, Blocks

\* A write of one of the sectors of the call in progress.
LEMMA OwnWrite ==
  ASSUME IInv, NEW w \in Pending, NEW d,
         disk' = [disk EXCEPT ![w] = d], free_map' = free_map
  PROVE  Undisturbed /\ DiskType'
  BY LiveFacts, DataWrite

LEMMA WriteInodeStep ==
  ASSUME IInv, WriteInode
  PROVE  IInv'
  <1>1. /\ op.at = "write_inode" /\ inodes' = inodes /\ file' = file /\ lost' = lost
        /\ free_map' = free_map
        /\ disk' = [disk EXCEPT ![op.sector] = OnDisk(op.start, op.length)]
        /\ op' = [op EXCEPT !.at = AfterWrite(0)]
    BY DEF WriteInode
  <1>2. /\ op = [at |-> op.at, name |-> op.name, length |-> op.length, sector |-> op.sector,
                 start |-> op.start, i |-> op.i]
        /\ op.name \in Name /\ op.length \in Nat /\ op.sector \in Sector
        /\ op.start \in Nat /\ op.i \in Nat
        /\ op.sector \notin Sectors(op.start, bytes_to_sectors(op.length))
        /\ Pending = {op.sector} \union Sectors(op.start, bytes_to_sectors(op.length))
    BY <1>1, CreatingFacts
  <1>3. Undisturbed /\ DiskType'
    BY <1>1, <1>2, OwnWrite
  <1>4. /\ op'.at \in {"zero", "dir_add"} /\ op'.at = AfterWrite(0)
        /\ op' = [at |-> op'.at, name |-> op.name, length |-> op.length, sector |-> op.sector,
                  start |-> op.start, i |-> op.i]
    BY <1>1, <1>2 DEF AfterWrite
  <1>5. Pending' = Pending
    BY <1>2, <1>4, PartitionNow DEF PendingFacts, Blocks
  <1>6. Partition(free_map', lost', Pending', Extents)
    BY <1>1, <1>5, PartitionNow
  <1>7. disk'[op.sector] = OnDisk(op.start, op.length)
    BY <1>1, <1>2 DEF IInv, DiskType
  <1>8. op'.at = "zero" => op'.i < SectorsToZero(op'.length)
    <2>1. op.i = 0
      BY <1>1 DEF IInv, OpType, Creating
    <2> QED BY <1>4, <2>1 DEF AfterWrite
  <1>9. OpType'
    BY <1>2, <1>4, <1>7, <1>8 DEF OpType, Creating, Releasing, Writing
  <1> QED BY <1>1, <1>3, <1>6, <1>9, QuietStep

LEMMA ZeroSectorStep ==
  ASSUME IInv, ZeroSector
  PROVE  IInv'
  <1>1. /\ op.at = "zero" /\ inodes' = inodes /\ file' = file /\ lost' = lost
        /\ free_map' = free_map
        /\ disk' = [disk EXCEPT ![op.start + op.i] = Zeros]
        /\ op' = [op EXCEPT !.i = @ + 1, !.at = AfterWrite(op.i + 1)]
        /\ op.i < SectorsToZero(op.length) /\ disk[op.sector] = OnDisk(op.start, op.length)
    BY DEF ZeroSector, IInv, OpType, Creating
  <1>2. /\ op = [at |-> op.at, name |-> op.name, length |-> op.length, sector |-> op.sector,
                 start |-> op.start, i |-> op.i]
        /\ op.name \in Name /\ op.length \in Nat /\ op.sector \in Sector
        /\ op.start \in Nat /\ op.i \in Nat
        /\ op.sector \notin Sectors(op.start, bytes_to_sectors(op.length))
        /\ Pending = {op.sector} \union Sectors(op.start, bytes_to_sectors(op.length))
    BY <1>1, CreatingFacts
  <1>3. op.start + op.i \in Sectors(op.start, bytes_to_sectors(op.length))
    <2>1. bytes_to_sectors(op.length) \in Nat /\ op.i < bytes_to_sectors(op.length)
      BY <1>1, <1>2, SectorsOf DEF SectorsToZero
    <2> QED BY <1>2, <2>1 DEF Sectors
  <1>4. Undisturbed /\ DiskType'
    BY <1>1, <1>2, <1>3, OwnWrite
  <1>5. /\ op'.at \in {"zero", "dir_add"} /\ op'.at = AfterWrite(op.i + 1)
        /\ op' = [at |-> op'.at, name |-> op.name, length |-> op.length, sector |-> op.sector,
                  start |-> op.start, i |-> op.i + 1]
    BY <1>1, <1>2 DEF AfterWrite
  <1>6. Pending' = Pending
    BY <1>2, <1>5, PartitionNow DEF PendingFacts, Blocks
  <1>7. Partition(free_map', lost', Pending', Extents)
    BY <1>1, <1>6, PartitionNow
  <1>8. disk'[op.sector] = OnDisk(op.start, op.length)
    BY <1>1, <1>2, <1>3 DEF IInv, DiskType
  <1>9. op'.at = "zero" => op'.i < SectorsToZero(op'.length)
    BY <1>5 DEF AfterWrite
  <1>10. op.i + 1 \in Nat
    BY <1>2
  <1>11. OpType'
    BY <1>2, <1>5, <1>8, <1>9, <1>10 DEF OpType, Creating, Releasing, Writing
  <1> QED BY <1>1, <1>4, <1>7, <1>11, QuietStep

LEMMA DirAddFailsStep ==
  ASSUME IInv, DirAddFails
  PROVE  IInv'
  <1> DEFINE A == Sectors(op.start, bytes_to_sectors(op.length))
  <1>1. /\ op.at = "dir_add" /\ inodes' = inodes /\ file' = file /\ lost' = lost \union A
        /\ free_map' = free_map /\ disk' = disk
        /\ op' = Release(<<[start |-> op.sector, cnt |-> 1]>>)
    BY DEF DirAddFails
  <1>2. op.sector \in Nat /\ op.sector \notin A /\ Pending = {op.sector} \union A
    BY <1>1, CreatingFacts DEF Sector
  <1>3. Undisturbed /\ DiskType'
    BY <1>1, NoWrite
  <1> HIDE DEF A
  <1>4. Pending' = Bits([start |-> op.sector, cnt |-> 1])
    BY <1>1, PartitionNow DEF PendingFacts
  <1>5. Pending' = Pending \ A
    BY <1>2, <1>4, OneSector DEF Bits
  <1>6. Partition(free_map', lost', Pending', Extents)
    BY <1>1, <1>2, <1>5, PartitionNow, PartLose
  <1>7. OpType'
    BY <1>1 DEF OpType, Creating, Releasing, Writing, Release
  <1> QED BY <1>1, <1>3, <1>6, <1>7, QuietStep

LEMMA ReleaseStep ==
  ASSUME IInv, free_map_release
  PROVE  IInv'
  <1> DEFINE A == Bits(Head(op.todo))
  <1>1. /\ op.at = "release" /\ inodes' = inodes /\ file' = file /\ lost' = lost
        /\ free_map' = free_map \ A
        /\ disk' = disk \/ disk' = [disk EXCEPT ![FREE_MAP_DATA] = Map(free_map')]
        /\ op' = IF Len(op.todo) = 1 THEN [at |-> "idle"] ELSE [op EXCEPT !.todo = Tail(@)]
    BY DEF free_map_release, Bits
  <1> HIDE DEF A
  <1>2. Undisturbed /\ DiskType'
    <2>1. free_map' \subseteq free_map /\ free_map' \subseteq Sector
      BY <1>1, LiveFacts
    <2> QED BY <1>1, <2>1, MapWrite, NoWrite
  <1>3. A \subseteq Pending /\ Pending' = Pending \ A /\ OpType'
    <2>1. CASE \E a : op = Release(<<a>>)
      <3>1. PICK a : op = Release(<<a>>)
        BY <2>1
      <3>2. op.todo = <<a>>
        BY <3>1 DEF Release
      <3>3. Len(op.todo) = 1 /\ Head(op.todo) = a
        BY <3>2
      <3>4. op' = [at |-> "idle"] /\ A = Bits(a)
        BY <1>1, <3>3 DEF A
      <3>5. Pending = Bits(a) /\ Pending' = {}
        BY <3>1, <3>4, PartitionNow DEF PendingFacts
      <3>6. OpType'
        BY <3>4 DEF OpType, Creating, Releasing, Writing
      <3> QED BY <3>4, <3>5, <3>6
    <2>2. CASE \E a, b : op = Release(<<a, b>>) /\ Bits(a) \cap Bits(b) = {}
      <3>1. PICK a, b : op = Release(<<a, b>>) /\ Bits(a) \cap Bits(b) = {}
        BY <2>2
      <3>2. op.todo = <<a, b>> /\ op = [at |-> "release", todo |-> op.todo]
        BY <3>1 DEF Release
      <3>3. Len(op.todo) = 2 /\ Head(op.todo) = a /\ Tail(op.todo) = <<b>>
        BY <3>2
      <3>4. op' = Release(<<b>>) /\ A = Bits(a)
        BY <1>1, <3>2, <3>3 DEF A, Release
      <3>5. Pending = Bits(a) \union Bits(b) /\ Pending' = Bits(b)
        BY <3>1, <3>4, PartitionNow DEF PendingFacts
      <3>6. OpType'
        BY <3>4 DEF OpType, Creating, Releasing, Writing, Release
      <3> QED BY <3>1, <3>4, <3>5, <3>6
    <2> QED BY <1>1, <2>1, <2>2 DEF IInv, OpType, Releasing
  <1>4. Partition(free_map', lost', Pending', Extents)
    BY <1>1, <1>3, PartitionNow, PartRelease
  <1> QED BY <1>1, <1>2, <1>3, <1>4, QuietStep

-----------------------------------------------------------------------------
\* file_write(): its call, and the sectors it writes.
LEMMA FileIs ==
  ASSUME IInv, NEW h \in OpenFiles
  PROVE  LET s == file[h].inode
         IN  /\ h \in Handle /\ file[h] \in OpenFile
             /\ s \in DOMAIN inodes /\ s \in Live /\ InodeExact(s) /\ IsInode(s)
  <1>1. h \in Handle /\ file[h] \in OpenFile
    BY DEF OpenFiles, IInv, MemoryType
  <1>2. file[h].inode \in DOMAIN inodes /\ InodeExact(file[h].inode)
    BY CountsAre DEF IInv
  <1> QED BY <1>1, <1>2 DEF Live, IInv, Files

LEMMA WriteCallStep ==
  ASSUME IInv, NEW h \in Handle, NEW v \in Byte, NEW len \in Length, file_write(h, v, len)
  PROVE  IInv'
  <1>1. /\ op.at = "idle" /\ h \in OpenFiles
        /\ op' = [at |-> "write", file |-> h, byte |-> v, size |-> len, offset |-> file[h].pos]
        /\ disk' = disk /\ free_map' = free_map /\ inodes' = inodes /\ file' = file
        /\ lost' = lost
    BY DEF file_write, OpenFiles
  <1>2. file[h].pos \in Nat /\ len \in Nat
    BY <1>1, FileIs, FileSysAssumption DEF OpenFile
  <1>3. Pending = {} /\ Pending' = {}
    BY <1>1, PartitionNow DEF PendingFacts
  <1>4. Partition(free_map', lost', Pending', Extents)
    BY <1>1, <1>3, PartitionNow
  <1>5. OpType'
    BY <1>1, <1>2 DEF OpType, Creating, Releasing, Writing, OpenFiles
  <1>6. Undisturbed /\ DiskType'
    BY <1>1, NoWrite
  <1> QED BY <1>1, <1>4, <1>5, <1>6, QuietStep

\* A sector that inode_write_at() writes is a data sector of its file.
LEMMA WrittenSector ==
  ASSUME IInv, NEW s \in DOMAIN inodes, NEW pos \in Nat, pos < inodes[s].data.length
  PROVE  LET w == byte_to_sector(inodes[s], pos)
         IN  w \in Sector /\ w \notin System /\ w \notin Live
  <1> DEFINE w == byte_to_sector(inodes[s], pos)
             d == disk[s]
  <1>1. s \in Live /\ inodes[s].data = d
    BY CountsAre DEF IInv, Live, InodeExact
  <1>2. /\ d.start \in Nat /\ d.length \in Nat
        /\ s \notin Sectors(d.start, bytes_to_sectors(d.length))
    BY <1>1 DEF IInv, Files, IsInode
  <1>3. /\ pos \div BLOCK_SECTOR_SIZE \in Nat
        /\ pos \div BLOCK_SECTOR_SIZE < bytes_to_sectors(d.length)
        /\ bytes_to_sectors(d.length) \in Nat
    BY <1>1, <1>2, SectorsOf
  <1>4. w \in Sectors(d.start, bytes_to_sectors(d.length))
    BY <1>1, <1>2, <1>3 DEF byte_to_sector, Sectors
  <1>5. w \in Extent(s) /\ w # s
    BY <1>2, <1>4 DEF Extent
  <1>6. w \in free_map
    BY <1>1, <1>5, LiveFacts
  <1>7. w \notin System
    BY <1>1, <1>5 DEF IInv, FreeMapExact
  <1>8. w \notin Live
    BY <1>1, <1>5, LiveFacts
  <1> QED BY <1>6, <1>7, <1>8, LiveFacts

LEMMA InodeWriteStep ==
  ASSUME IInv, inode_write_at
  PROVE  IInv'
  <1> DEFINE s == file[op.file].inode
             chunk == chunk_size(inodes[s])
             w == byte_to_sector(inodes[s], op.offset)
  <1>1. /\ op.at = "write" /\ inodes' = inodes /\ file' = file /\ lost' = lost
        /\ free_map' = free_map /\ chunk > 0
        /\ \E d : disk' = [disk EXCEPT ![w] = d]
        /\ op' = [op EXCEPT !.offset = @ + chunk, !.size = @ - chunk]
    BY DEF inode_write_at
  <1>2. /\ op = [at |-> "write", file |-> op.file, byte |-> op.byte, size |-> op.size,
                 offset |-> op.offset]
        /\ op.file \in OpenFiles /\ op.size \in Nat /\ op.offset \in Nat
    BY <1>1 DEF IInv, OpType, Writing
  <1>3. s \in DOMAIN inodes /\ inodes[s].data.length \in Nat
    BY <1>2, FileIs DEF InodeExact, IsInode
  <1>4. op.offset % BLOCK_SECTOR_SIZE \in Int /\ BLOCK_SECTOR_SIZE \in Int
    BY <1>2, FileSysAssumption
  <1>5. chunk \in Nat /\ chunk <= op.size /\ op.offset < inodes[s].data.length
    <2>1. BLOCK_SECTOR_SIZE - (op.offset % BLOCK_SECTOR_SIZE) \in Int
      BY <1>4
    <2>2. \A a, b \in Int : Smaller(a, b) \in Int /\ Smaller(a, b) <= a /\ Smaller(a, b) <= b
      BY DEF Smaller
    <2>3. inodes[s].data.length - op.offset \in Int
      BY <1>2, <1>3
    <2> DEFINE rest == inodes[s].data.length - op.offset
               left == BLOCK_SECTOR_SIZE - (op.offset % BLOCK_SECTOR_SIZE)
    <2>4. chunk = Smaller(op.size, Smaller(rest, left))
      BY DEF chunk_size
    <2> HIDE DEF rest, left, chunk
    <2>5. chunk \in Int /\ chunk <= op.size /\ chunk <= rest
      <3>1. Smaller(rest, left) \in Int /\ Smaller(rest, left) <= rest
        BY <2>1, <2>2, <2>3 DEF rest, left
      <3> QED BY <1>2, <2>2, <2>3, <2>4, <3>1 DEF rest
    <2> QED BY <1>1, <1>2, <1>3, <2>5 DEF rest
  <1>6. w \in Sector /\ w \notin System /\ w \notin Live
    BY <1>2, <1>3, <1>5, WrittenSector
  <1> HIDE DEF s, chunk, w
  <1>7. Undisturbed /\ DiskType'
    BY <1>1, <1>6, DataWrite
  <1>8. /\ op' = [at |-> "write", file |-> op.file, byte |-> op.byte,
                  size |-> op.size - chunk, offset |-> op.offset + chunk]
        /\ op.size - chunk \in Nat /\ op.offset + chunk \in Nat
    <2>1. op.size - chunk \in Nat /\ op.offset + chunk \in Nat
      BY <1>2, <1>5
    <2>2. op' = [at |-> "write", file |-> op.file, byte |-> op.byte,
                 size |-> op.size - chunk, offset |-> op.offset + chunk]
      BY <1>1, <1>2
    <2> QED BY <2>1, <2>2
  <1>9. OpType'
    BY <1>1, <1>2, <1>8 DEF OpType, Creating, Releasing, Writing, OpenFiles
  <1>10. Pending = {} /\ Pending' = {}
    BY <1>1, <1>8, PartitionNow DEF PendingFacts
  <1>11. Partition(free_map', lost', Pending', Extents)
    BY <1>1, <1>10, PartitionNow
  <1> QED BY <1>1, <1>7, <1>9, <1>11, QuietStep

-----------------------------------------------------------------------------
\* A step on the open files alone.
LEMMA FileStep ==
  ASSUME IInv, disk' = disk, free_map' = free_map, lost' = lost, Live' = Live,
         Pending' = Pending, OpType', MemoryType', OpenCountsExact'
  PROVE  IInv'
  <1>1. Undisturbed /\ DiskType'
    BY NoWrite
  <1>2. /\ InUse' = InUse /\ NamesAreUnique'
        /\ \A i, j \in InUse : entry'[i].inode_sector = entry'[j].inode_sector => i = j
        /\ \A s \in Live : Extent(s)' = Extent(s) /\ IsInode(s)'
    BY <1>1, UndisturbedFacts
  <1>3. Files'
    BY <1>2 DEF Files
  <1>4. FreeMapExact'
    BY <1>2 DEF IInv, FreeMapExact
  <1> QED BY <1>1, <1>3, <1>4 DEF IInv

\* A step that changes the position of files only.
LEMMA PositionStep ==
  ASSUME IInv, NEW h \in OpenFiles, NEW p \in Nat, file' = [file EXCEPT ![h].pos = p],
         inodes' = inodes, disk' = disk
  PROVE  Live' = Live /\ MemoryType' /\ OpenCountsExact' /\ OpenFiles' = OpenFiles
  <1>1. file \in [Handle -> OpenFile \union {NULL}] /\ file[h] \in OpenFile /\ h \in Handle
    BY FileIs DEF IInv, MemoryType
  <1>2. file' = [file EXCEPT ![h] = [inode |-> file[h].inode, pos |-> p,
                                     deny_write |-> file[h].deny_write]]
    <2>1. [file[h] EXCEPT !.pos = p] = [inode |-> file[h].inode, pos |-> p,
                                        deny_write |-> file[h].deny_write]
      BY <1>1 DEF OpenFile
    <2>2. file' = [file EXCEPT ![h] = [file[h] EXCEPT !.pos = p]]
      BY Zenon
    <2> QED BY <2>1, <2>2, Zenon
  <1>3. [inode |-> file[h].inode, pos |-> p, deny_write |-> file[h].deny_write] \in OpenFile
    BY <1>1 DEF OpenFile
  <1>4. file' \in [Handle -> OpenFile \union {NULL}]
    BY <1>1, <1>2, <1>3
  <1>5. /\ file'[h] # NULL /\ file'[h].inode = file[h].inode
        /\ file'[h].deny_write = file[h].deny_write
        /\ \A g \in Handle \ {h} : file'[g] = file[g]
    BY <1>1, <1>2, <1>3, FileSysAssumption DEF OpenFile
  <1>6. OpenFiles' = OpenFiles
    BY <1>5 DEF OpenFiles
  <1>7. \A g \in OpenFiles : file'[g].inode = file[g].inode
                             /\ file'[g].deny_write = file[g].deny_write
    BY <1>5 DEF OpenFiles
  <1>8. \A s : FilesOf(s)' = FilesOf(s)
    BY <1>6, <1>7 DEF FilesOf
  <1>9. \A s : Denying(s)' = Denying(s)
    BY <1>7, <1>8 DEF Denying, FilesOf
  <1>10. Named' = Named
    BY DEF Named, InUse, entry
  <1>11. \A s \in DOMAIN inodes : InodeExact(s)'
    BY <1>8, <1>9, <1>10, CountsAre DEF IInv, InodeExact
  <1>12. \A g \in OpenFiles' : file'[g].inode \in DOMAIN inodes'
    BY <1>6, <1>7, CountsAre DEF IInv
  <1>13. OpenCountsExact'
    BY <1>11, <1>12, CountsArePrimed
  <1>14. MemoryType'
    BY <1>4, <1>6 DEF IInv, MemoryType
  <1> QED BY <1>6, <1>10, <1>13, <1>14 DEF Live

LEMMA SeekStep ==
  ASSUME IInv, NEW h \in Handle, file_seek(h) \/ file_read(h)
  PROVE  IInv'
  <1>1. /\ op.at = "idle" /\ h \in OpenFiles /\ op' = op
        /\ disk' = disk /\ free_map' = free_map /\ inodes' = inodes /\ lost' = lost
    BY DEF file_seek, file_read, OpenFiles
  <1>2. file[h].pos \in Nat /\ inodes[file[h].inode].data.length \in Nat
    BY <1>1, FileIs DEF OpenFile, InodeExact, IsInode
  <1>3. PICK p \in Nat : file' = [file EXCEPT ![h].pos = p]
    BY <1>2, FileSysAssumption DEF file_seek, file_read
  <1>4. Live' = Live /\ MemoryType' /\ OpenCountsExact' /\ OpenFiles' = OpenFiles
    BY <1>1, <1>3, PositionStep
  <1>5. Pending' = Pending
    BY <1>1, PartitionNow DEF PendingFacts
  <1>6. OpType'
    BY <1>1 DEF OpType, Creating, Releasing, Writing
  <1> QED BY <1>1, <1>4, <1>5, <1>6, FileStep

LEMMA WriteEndsStep ==
  ASSUME IInv, WriteEnds
  PROVE  IInv'
  <1>1. /\ op.at = "write" /\ op' = [at |-> "idle"]
        /\ file' = [file EXCEPT ![op.file].pos = op.offset]
        /\ disk' = disk /\ free_map' = free_map /\ inodes' = inodes /\ lost' = lost
    BY DEF WriteEnds
  <1>2. op.file \in OpenFiles /\ op.offset \in Nat
    BY <1>1 DEF IInv, OpType, Writing
  <1>3. Live' = Live /\ MemoryType' /\ OpenCountsExact' /\ OpenFiles' = OpenFiles
    BY <1>1, <1>2, PositionStep
  <1>4. Pending = {} /\ Pending' = {}
    BY <1>1, PartitionNow DEF PendingFacts
  <1>5. OpType'
    BY <1>1 DEF OpType, Creating, Releasing, Writing
  <1> QED BY <1>1, <1>3, <1>4, <1>5, FileStep

-----------------------------------------------------------------------------
LEMMA CountsAreFinite ==
  ASSUME IInv
  PROVE  \A s : /\ IsFiniteSet(FilesOf(s)) /\ Cardinality(FilesOf(s)) \in Nat
                /\ IsFiniteSet(Denying(s)) /\ Cardinality(Denying(s)) \in Nat
  <1> TAKE s
  <1>1. FilesOf(s) \in SUBSET OpenFiles /\ Denying(s) \in SUBSET OpenFiles
    BY DEF FilesOf, Denying
  <1>2. IsFiniteSet(OpenFiles)
    BY DEF IInv, MemoryType
  <1>3. IsFiniteSet(FilesOf(s)) /\ IsFiniteSet(Denying(s))
    BY <1>1, <1>2, FS_Subset
  <1> QED BY <1>3, FS_CardinalityType

\* A step that puts one inode into the list of open ones or changes it there.
LEMMA WithFacts ==
  ASSUME IInv, NEW s \in Live, NEW inode, IsOpenInode(inode), inodes' = With(s, inode)
  PROVE  /\ DOMAIN inodes' = DOMAIN inodes \union {s} /\ DOMAIN inodes' \subseteq Sector
         /\ inodes'[s] = inode /\ \A t \in DOMAIN inodes \ {s} : inodes'[t] = inodes[t]
         /\ inodes' = [t \in DOMAIN inodes' |-> inodes'[t]]
         /\ \A t \in DOMAIN inodes' : IsOpenInode(inodes'[t])
         /\ Named' = Named => Live' = Live
  <1>1. /\ DOMAIN inodes' = DOMAIN inodes \union {s}
        /\ inodes'[s] = inode /\ \A t \in DOMAIN inodes \ {s} : inodes'[t] = inodes[t]
        /\ inodes' = [t \in DOMAIN inodes' |-> inodes'[t]]
    BY DEF With
  <1>2. DOMAIN inodes' \subseteq Sector
    BY <1>1, LiveFacts DEF IInv, MemoryType
  <1>3. \A t \in DOMAIN inodes' : IsOpenInode(inodes'[t])
    BY <1>1 DEF IInv, MemoryType
  <1> QED BY <1>1, <1>2, <1>3 DEF Live

\* Opening a file that has a name or is open.
LEMMA OpenStep ==
  ASSUME IInv, NEW h \in Handle, NEW s \in Live, op.at = "idle", file_open(h, s)
  PROVE  IInv'
  <1> DEFINE new == [inode |-> s, pos |-> 0, deny_write |-> FALSE]
  <1>1. /\ file[h] = NULL /\ file' = [file EXCEPT ![h] = new]
        /\ inodes' = With(s, inode_open(s))
        /\ disk' = disk /\ free_map' = free_map /\ op' = op /\ lost' = lost
    BY DEF file_open
  <1>2. file \in [Handle -> OpenFile \union {NULL}]
    BY DEF IInv, MemoryType
  <1>3. new \in OpenFile
    BY LiveFacts DEF OpenFile
  <1>4. /\ file'[h] = new /\ new # NULL /\ \A g \in Handle \ {h} : file'[g] = file[g]
        /\ file' \in [Handle -> OpenFile \union {NULL}]
    BY <1>1, <1>2, <1>3, FileSysAssumption DEF OpenFile
  <1>5. OpenFiles' = OpenFiles \union {h} /\ h \notin OpenFiles
    BY <1>1, <1>4 DEF OpenFiles
  <1>6. FilesOf(s)' = FilesOf(s) \union {h} /\ h \notin FilesOf(s)
    BY <1>4, <1>5 DEF FilesOf, OpenFiles
  <1>7. \A t : t # s => FilesOf(t)' = FilesOf(t)
    BY <1>4, <1>5 DEF FilesOf, OpenFiles
  <1>8. \A t : Denying(t)' = Denying(t)
    BY <1>4, <1>5 DEF Denying, FilesOf, OpenFiles
  <1>9. Named' = Named
    BY <1>1 DEF Named, InUse, entry
  <1>10. Cardinality(FilesOf(s)') = Cardinality(FilesOf(s)) + 1
    BY <1>6, CountsAreFinite, FS_AddElement
  <1>11. /\ IsOpenInode(inode_open(s))
         /\ inode_open(s).open_cnt = Cardinality(FilesOf(s)')
         /\ inode_open(s).deny_write_cnt = Cardinality(Denying(s)')
         /\ inode_open(s).removed <=> s \notin Named
         /\ inode_open(s).data = disk[s]
    <2>1. CASE s \in DOMAIN inodes
      <3>1. /\ inode_open(s) = [inodes[s] EXCEPT !.open_cnt = @ + 1]
            /\ IsOpenInode(inodes[s])
        BY <2>1 DEF inode_open, IInv, MemoryType
      <3>2. /\ inode_open(s).open_cnt = inodes[s].open_cnt + 1
            /\ inode_open(s).removed = inodes[s].removed
            /\ inode_open(s).deny_write_cnt = inodes[s].deny_write_cnt
            /\ inode_open(s).data = inodes[s].data
            /\ IsOpenInode(inode_open(s))
        BY <3>1 DEF IsOpenInode
      <3>3. InodeExact(s)
        BY <2>1, CountsAre DEF IInv
      <3> QED BY <1>8, <1>10, <3>2, <3>3 DEF InodeExact
    <2>2. CASE s \notin DOMAIN inodes
      <3>1. inode_open(s) = [open_cnt |-> 1, removed |-> FALSE, deny_write_cnt |-> 0,
                             data |-> disk[s]]
        BY <2>2 DEF inode_open
      <3>2. FilesOf(s) = {} /\ Denying(s) = {} /\ s \in Named
        BY <2>2, CountsAre DEF IInv, FilesOf, Denying, Live
      <3>3. IsOpenInode(inode_open(s))
        BY <3>1 DEF IsOpenInode
      <3> QED BY <1>8, <1>10, <3>1, <3>2, <3>3, FS_EmptySet
    <2> QED BY <2>1, <2>2
  <1>12. /\ DOMAIN inodes' = DOMAIN inodes \union {s} /\ DOMAIN inodes' \subseteq Sector
         /\ inodes'[s] = inode_open(s)
         /\ \A t \in DOMAIN inodes \ {s} : inodes'[t] = inodes[t]
         /\ inodes' = [t \in DOMAIN inodes' |-> inodes'[t]]
         /\ \A t \in DOMAIN inodes' : IsOpenInode(inodes'[t])
         /\ Live' = Live
    BY <1>1, <1>9, <1>11, WithFacts
  <1>13. InodeExact(s)'
    <2>1. Cardinality(FilesOf(s)') > 0
      BY <1>10, CountsAreFinite
    <2> QED BY <1>1, <1>9, <1>11, <1>12, <2>1 DEF InodeExact
  <1>14. \A t \in DOMAIN inodes \ {s} : InodeExact(t)'
    BY <1>1, <1>7, <1>8, <1>9, <1>12, CountsAre DEF IInv, InodeExact
  <1>15. \A g \in OpenFiles' : file'[g].inode \in DOMAIN inodes'
    BY <1>4, <1>5, <1>12, CountsAre DEF IInv, OpenFiles
  <1>16. OpenCountsExact'
    BY <1>12, <1>13, <1>14, <1>15, CountsArePrimed
  <1>17. MemoryType'
    <2>1. IsFiniteSet(OpenFiles')
      BY <1>5, FS_AddElement DEF IInv, MemoryType
    <2> QED BY <1>4, <1>12, <2>1 DEF MemoryType
  <1>18. Pending' = Pending
    BY <1>1, PartitionNow DEF PendingFacts
  <1>19. OpType'
    BY <1>1 DEF OpType, Creating, Releasing, Writing
  <1> QED BY <1>1, <1>12, <1>16, <1>17, <1>18, <1>19, FileStep

LEMMA OpenCallStep ==
  ASSUME IInv, NEW h \in Handle, NEW n \in Name, filesys_open(h, n)
  PROVE  IInv'
  <1>1. PICK i \in Slot : lookup(n, i) /\ file_open(h, entry[i].inode_sector)
    BY DEF filesys_open
  <1>2. op.at = "idle" /\ entry[i].inode_sector \in Live
    BY <1>1, LiveFacts DEF filesys_open, lookup
  <1> QED BY <1>1, <1>2, OpenStep

LEMMA ReopenStep ==
  ASSUME IInv, NEW h \in Handle, NEW g \in Handle, file_reopen(h, g)
  PROVE  IInv'
  <1>1. op.at = "idle" /\ g \in OpenFiles /\ file_open(h, file[g].inode)
    BY DEF file_reopen, OpenFiles
  <1>2. file[g].inode \in Live
    BY <1>1, FileIs
  <1> QED BY <1>1, <1>2, OpenStep

\* Denying writes and allowing them again.
LEMMA DenyChange ==
  ASSUME IInv, op.at = "idle", NEW h \in OpenFiles, NEW s, s = file[h].inode,
         NEW d \in BOOLEAN, NEW c,
         file' = [file EXCEPT ![h].deny_write = d],
         inodes' = With(s, [inodes[s] EXCEPT !.deny_write_cnt = c]),
         NEW C, c = Cardinality(C),
         d => C = Denying(s) \union {h}, ~ d => C = Denying(s) \ {h},
         disk' = disk, free_map' = free_map, op' = op, lost' = lost
  PROVE  IInv'
  <1> DEFINE inode == [inodes[s] EXCEPT !.deny_write_cnt = c]
             new == [inode |-> s, pos |-> file[h].pos, deny_write |-> d]
  <1>1. /\ h \in Handle /\ file[h] \in OpenFile
        /\ s \in DOMAIN inodes /\ s \in Live /\ InodeExact(s)
        /\ file \in [Handle -> OpenFile \union {NULL}]
    BY FileIs DEF IInv, MemoryType
  <1>2. file' = [file EXCEPT ![h] = new]
    <2>1. [file[h] EXCEPT !.deny_write = d] = new
      BY <1>1 DEF OpenFile
    <2>2. file' = [file EXCEPT ![h] = [file[h] EXCEPT !.deny_write = d]]
      BY Zenon
    <2> QED BY <2>1, <2>2, Zenon
  <1>3. new \in OpenFile
    BY <1>1 DEF OpenFile
  <1>4. /\ file'[h] = new /\ new # NULL /\ \A g \in Handle \ {h} : file'[g] = file[g]
        /\ file' \in [Handle -> OpenFile \union {NULL}]
    BY <1>1, <1>2, <1>3, FileSysAssumption DEF OpenFile
  <1>5. OpenFiles' = OpenFiles
    BY <1>4 DEF OpenFiles
  <1>6. \A t : FilesOf(t)' = FilesOf(t)
    <2>1. \A g \in OpenFiles : file'[g].inode = file[g].inode
      BY <1>4 DEF OpenFiles
    <2> QED BY <1>5, <2>1 DEF FilesOf
  <1>7. Denying(s)' = C
    BY <1>4, <1>6 DEF Denying, FilesOf, OpenFiles
  <1>8. \A t : t # s => Denying(t)' = Denying(t)
    BY <1>4, <1>6 DEF Denying, FilesOf, OpenFiles
  <1>9. Named' = Named
    BY DEF Named, InUse, entry
  <1>10. /\ IsOpenInode(inode) /\ inode.open_cnt = inodes[s].open_cnt
         /\ inode.deny_write_cnt = c /\ inode.removed = inodes[s].removed
         /\ inode.data = inodes[s].data
    <2>1. IsOpenInode(inodes[s])
      BY <1>1 DEF IInv, MemoryType
    <2> QED BY <2>1 DEF IsOpenInode
  <1>11. inodes' = With(s, inode)
    OBVIOUS
  <1>12. c = Cardinality(Denying(s)')
    BY <1>7
  <1> HIDE DEF inode
  <1>13. /\ DOMAIN inodes' = DOMAIN inodes /\ DOMAIN inodes' \subseteq Sector
         /\ inodes'[s] = inode /\ \A t \in DOMAIN inodes \ {s} : inodes'[t] = inodes[t]
         /\ inodes' = [t \in DOMAIN inodes' |-> inodes'[t]]
         /\ \A t \in DOMAIN inodes' : IsOpenInode(inodes'[t])
         /\ Live' = Live
    <2>1. s \in Live /\ IsOpenInode(inode)
      BY <1>1, <1>10
    <2>2. /\ DOMAIN inodes' = DOMAIN inodes \union {s} /\ DOMAIN inodes' \subseteq Sector
          /\ inodes'[s] = inode /\ \A t \in DOMAIN inodes \ {s} : inodes'[t] = inodes[t]
          /\ inodes' = [t \in DOMAIN inodes' |-> inodes'[t]]
          /\ \A t \in DOMAIN inodes' : IsOpenInode(inodes'[t])
          /\ Named' = Named => Live' = Live
      BY <1>11, <2>1, WithFacts, Zenon
    <2> QED BY <1>1, <1>9, <2>2
  <1>14. InodeExact(s)'
    BY <1>1, <1>6, <1>9, <1>10, <1>12, <1>13 DEF InodeExact
  <1>15. \A t \in DOMAIN inodes \ {s} : InodeExact(t)'
    <2> TAKE t \in DOMAIN inodes \ {s}
    <2>1. InodeExact(t)
      BY CountsAre DEF IInv
    <2>2. inodes'[t] = inodes[t] /\ FilesOf(t)' = FilesOf(t) /\ Denying(t)' = Denying(t)
      BY <1>6, <1>8, <1>13
    <2> QED BY <1>9, <2>1, <2>2 DEF InodeExact
  <1>16. \A g \in OpenFiles' : file'[g].inode \in DOMAIN inodes'
    BY <1>1, <1>4, <1>5, <1>13, CountsAre DEF IInv, OpenFiles
  <1>17. OpenCountsExact'
    BY <1>13, <1>14, <1>15, <1>16, CountsArePrimed
  <1>18. MemoryType'
    BY <1>4, <1>5, <1>13 DEF IInv, MemoryType
  <1>19. Pending' = Pending
    BY PartitionNow DEF PendingFacts
  <1>20. OpType'
    BY DEF OpType, Creating, Releasing, Writing
  <1> QED BY <1>13, <1>17, <1>18, <1>19, <1>20, FileStep

LEMMA DenyStep ==
  ASSUME IInv, NEW h \in Handle, file_deny_write(h)
  PROVE  IInv'
  <1> PICK s : s = file[h].inode
    OBVIOUS
  <1> DEFINE c == inodes[s].deny_write_cnt + 1
  <1>1. /\ op.at = "idle" /\ h \in OpenFiles /\ ~ file[h].deny_write
        /\ file' = [file EXCEPT ![h].deny_write = TRUE]
        /\ inodes' = [inodes EXCEPT ![s].deny_write_cnt = @ + 1]
        /\ disk' = disk /\ free_map' = free_map /\ op' = op /\ lost' = lost
    BY DEF file_deny_write, OpenFiles
  <1>2. s \in DOMAIN inodes /\ InodeExact(s)
    BY <1>1, FileIs
  <1>3. h \notin Denying(s)
    BY <1>1 DEF Denying
  <1>4. c = Cardinality(Denying(s) \union {h})
    <2>1. IsFiniteSet(Denying(s)) /\ inodes[s].deny_write_cnt = Cardinality(Denying(s))
      BY <1>2, CountsAreFinite DEF InodeExact
    <2> QED BY <1>3, <2>1, FS_AddElement
  <1>5. inodes' = With(s, [inodes[s] EXCEPT !.deny_write_cnt = c])
    <2>1. inodes = [t \in DOMAIN inodes |-> inodes[t]]
      BY DEF IInv, MemoryType
    <2> DEFINE inode == [inodes[s] EXCEPT !.deny_write_cnt = c]
    <2>2. inodes' = [inodes EXCEPT ![s] = inode]
      BY <1>1, Zenon
    <2> HIDE DEF inode
    <2>3. inodes' = With(s, inode)
      BY <1>2, <2>1, <2>2 DEF With
    <2> QED BY <2>3 DEF inode
  <1> HIDE DEF c
  <1> QED BY <1>1, <1>4, <1>5, DenyChange

LEMMA AllowStep ==
  ASSUME IInv, NEW h \in Handle, AllowWrite(h)
  PROVE  IInv'
  <1> PICK s : s = file[h].inode
    OBVIOUS
  <1> DEFINE c == inodes[s].deny_write_cnt - 1
  <1>1. /\ op.at = "idle" /\ h \in OpenFiles /\ file[h].deny_write
        /\ file' = [file EXCEPT ![h].deny_write = FALSE]
        /\ inodes' = With(s, [inodes[s] EXCEPT !.deny_write_cnt = c])
        /\ disk' = disk /\ free_map' = free_map /\ op' = op /\ lost' = lost
    BY DEF AllowWrite, OpenFiles, file_allow_write
  <1>2. s \in DOMAIN inodes /\ InodeExact(s)
    BY <1>1, FileIs
  <1>3. h \in Denying(s)
    BY <1>1 DEF Denying, FilesOf
  <1>4. c = Cardinality(Denying(s) \ {h})
    <2>1. IsFiniteSet(Denying(s)) /\ inodes[s].deny_write_cnt = Cardinality(Denying(s))
      BY <1>2, CountsAreFinite DEF InodeExact
    <2> QED BY <1>3, <2>1, FS_RemoveElement
  <1> HIDE DEF c
  <1> QED BY <1>1, <1>4, DenyChange

-----------------------------------------------------------------------------
\* inode_close() of the last file of an inode.
LEMMA WithoutFacts ==
  ASSUME IInv, NEW s, inodes' = Without(s)
  PROVE  /\ DOMAIN inodes' = DOMAIN inodes \ {s} /\ DOMAIN inodes' \subseteq Sector
         /\ \A t \in DOMAIN inodes \ {s} : inodes'[t] = inodes[t]
         /\ inodes' = [t \in DOMAIN inodes' |-> inodes'[t]]
         /\ \A t \in DOMAIN inodes' : IsOpenInode(inodes'[t])
  <1>1. /\ DOMAIN inodes' = DOMAIN inodes \ {s}
        /\ \A t \in DOMAIN inodes \ {s} : inodes'[t] = inodes[t]
        /\ inodes' = [t \in DOMAIN inodes' |-> inodes'[t]]
    BY DEF Without
  <1> QED BY <1>1 DEF IInv, MemoryType

LEMMA Assemble ==
  ASSUME IInv, DiskType', Files', OpType', MemoryType', OpenCountsExact',
         Partition(free_map', lost', Pending', Extents')
  PROVE  IInv'
  <1>1. FreeMapExact' <=> Partition(free_map, lost, Pending, Extents)'
    BY MapIsPartition, PTL
  <1>2. FreeMapExact'
    BY <1>1 DEF Partition
  <1> QED BY <1>2 DEF IInv

\* What inode_close() leaves to be released of a file without a name.
LEMMA ReleasesExtent ==
  ASSUME IInv, NEW s \in Live, NEW inode, inode.data = disk[s],
         op' = Release(BlocksOf(s, inode))
  PROVE  OpType' /\ Pending' = Extent(s)
  <1> DEFINE a == [start |-> s, cnt |-> 1]
             b == [start |-> disk[s].start, cnt |-> bytes_to_sectors(disk[s].length)]
  <1>1. op' = Release(<<a, b>>)
    BY DEF BlocksOf
  <1>2. s \in Nat /\ s \notin Sectors(disk[s].start, bytes_to_sectors(disk[s].length))
    BY DEF IInv, Files, IsInode, Sector
  <1>3. Bits(a) = {s} /\ Bits(b) = Sectors(disk[s].start, bytes_to_sectors(disk[s].length))
    BY <1>2, OneSector DEF Bits
  <1> HIDE DEF a, b
  <1>4. Bits(a) \cap Bits(b) = {} /\ Extent(s) = Bits(a) \union Bits(b)
    BY <1>2, <1>3 DEF Extent
  <1>5. OpType'
    <2>1. op'.at = "release"
      BY <1>1 DEF Release
    <2>2. Releasing'
      BY <1>1, <1>4 DEF Releasing
    <2> QED BY <2>1, <2>2 DEF OpType, Creating, Writing
  <1>6. Pending' = Bits(a) \union Bits(b)
    BY <1>1, PartitionNow DEF PendingFacts
  <1> QED BY <1>4, <1>5, <1>6

LEMMA IdleOp ==
  ASSUME IInv, op.at = "idle", op' = [at |-> "idle"]
  PROVE  OpType' /\ Pending = {} /\ Pending' = {}
  <1>1. Pending = {} /\ Pending' = {}
    BY PartitionNow DEF PendingFacts
  <1> QED BY <1>1 DEF OpType, Creating, Releasing, Writing

\* The struct inode that file_close() passes to inode_close().
LEMMA AllowFacts ==
  ASSUME IInv, NEW h \in OpenFiles, NEW s, s = file[h].inode
  PROVE  LET inode == file_allow_write(h)
         IN  /\ IsOpenInode(inode) /\ inode.open_cnt = Cardinality(FilesOf(s))
             /\ inode.deny_write_cnt = Cardinality(Denying(s) \ {h})
             /\ inode.removed = inodes[s].removed /\ inode.data = disk[s]
             /\ Cardinality(FilesOf(s) \ {h}) = inode.open_cnt - 1
  <1> DEFINE inode == file_allow_write(h)
  <1>1. s \in DOMAIN inodes /\ InodeExact(s) /\ IsOpenInode(inodes[s])
    BY FileIs DEF IInv, MemoryType
  <1>2. /\ IsFiniteSet(Denying(s)) /\ Cardinality(Denying(s)) \in Nat
        /\ IsFiniteSet(FilesOf(s)) /\ Cardinality(FilesOf(s)) \in Nat
    BY CountsAreFinite
  <1>4. Cardinality(FilesOf(s) \ {h}) = Cardinality(FilesOf(s)) - 1
    BY <1>2, FS_RemoveElement DEF FilesOf
  <1>5. CASE file[h].deny_write
    <2>1. inode = [inodes[s] EXCEPT !.deny_write_cnt = inodes[s].deny_write_cnt - 1]
      BY <1>5 DEF file_allow_write
    <2>2. Cardinality(Denying(s) \ {h}) = Cardinality(Denying(s)) - 1
      BY <1>2, <1>5, FS_RemoveElement DEF Denying, FilesOf
    <2>3. /\ IsOpenInode(inode) /\ inode.open_cnt = inodes[s].open_cnt
          /\ inode.deny_write_cnt = inodes[s].deny_write_cnt - 1
          /\ inode.removed = inodes[s].removed /\ inode.data = inodes[s].data
      BY <1>1, <2>1 DEF IsOpenInode
    <2> QED BY <1>1, <1>4, <2>2, <2>3 DEF InodeExact
  <1>6. CASE ~ file[h].deny_write
    <2>1. inode = inodes[s]
      BY <1>6 DEF file_allow_write
    <2>2. Denying(s) \ {h} = Denying(s)
      BY <1>6 DEF Denying, FilesOf
    <2> QED BY <1>1, <1>4, <2>1, <2>2 DEF InodeExact
  <1> QED BY <1>5, <1>6

LEMMA CloseStep ==
  ASSUME IInv, NEW h \in Handle, file_close(h)
  PROVE  IInv'
  <1> PICK s : s = file[h].inode
    OBVIOUS
  <1> PICK inode : inode = file_allow_write(h)
    OBVIOUS
  <1>1. /\ op.at = "idle" /\ h \in OpenFiles /\ file' = [file EXCEPT ![h] = NULL]
        /\ inode_close(s, inode)
        /\ disk' = disk /\ free_map' = free_map /\ lost' = lost
    BY DEF file_close, OpenFiles
  <1>2. s \in DOMAIN inodes /\ s \in Live /\ InodeExact(s)
    BY <1>1, FileIs
  <1>3. /\ IsOpenInode(inode) /\ inode.open_cnt = Cardinality(FilesOf(s))
        /\ inode.deny_write_cnt = Cardinality(Denying(s) \ {h})
        /\ inode.removed = inodes[s].removed /\ inode.data = disk[s]
        /\ Cardinality(FilesOf(s) \ {h}) = inode.open_cnt - 1
    BY <1>1, AllowFacts
  <1>4. /\ file \in [Handle -> OpenFile \union {NULL}] /\ IsFiniteSet(OpenFiles)
        /\ IsFiniteSet(FilesOf(s)) /\ inode.open_cnt \in Nat
    BY <1>3, CountsAreFinite DEF IInv, MemoryType
  <1>5. /\ file'[h] = NULL /\ \A g \in Handle \ {h} : file'[g] = file[g]
        /\ file' \in [Handle -> OpenFile \union {NULL}]
    BY <1>1, <1>4
  <1>6. OpenFiles' = OpenFiles \ {h} /\ IsFiniteSet(OpenFiles')
    <2>1. OpenFiles' = OpenFiles \ {h}
      BY <1>5 DEF OpenFiles
    <2> QED BY <1>4, <2>1, FS_RemoveElement
  <1>7. \A g \in OpenFiles' : g # h /\ g \in OpenFiles /\ file'[g] = file[g]
    BY <1>5, <1>6 DEF OpenFiles
  <1>8. FilesOf(s)' = FilesOf(s) \ {h} /\ \A t : t # s => FilesOf(t)' = FilesOf(t)
    BY <1>6, <1>7 DEF FilesOf
  <1>9. Denying(s)' = Denying(s) \ {h} /\ \A t : t # s => Denying(t)' = Denying(t)
    BY <1>7, <1>8 DEF Denying, FilesOf
  <1>10. Named' = Named
    BY <1>1 DEF Named, InUse, entry
  <1>11. ASSUME \A t \in DOMAIN inodes \ {s} : inodes'[t] = inodes[t]
         PROVE  \A t \in DOMAIN inodes \ {s} : InodeExact(t)'
    <2> TAKE t \in DOMAIN inodes \ {s}
    <2>1. InodeExact(t)
      BY CountsAre DEF IInv
    <2>2. inodes'[t] = inodes[t] /\ FilesOf(t)' = FilesOf(t) /\ Denying(t)' = Denying(t)
      BY <1>8, <1>9, <1>11
    <2> QED BY <1>1, <1>10, <2>1, <2>2 DEF InodeExact
  <1>12. CASE inode.open_cnt > 1 /\ op' = [at |-> "idle"]
              /\ inodes' = With(s, [inode EXCEPT !.open_cnt = @ - 1])
    <2> DEFINE new == [inode EXCEPT !.open_cnt = @ - 1]
    <2>1. /\ IsOpenInode(new) /\ new.open_cnt = inode.open_cnt - 1
          /\ new.deny_write_cnt = inode.deny_write_cnt /\ new.removed = inode.removed
          /\ new.data = inode.data
      BY <1>3 DEF IsOpenInode
    <2>2. inodes' = With(s, new)
      BY <1>12
    <2> HIDE DEF new
    <2>3. /\ DOMAIN inodes' = DOMAIN inodes \union {s} /\ DOMAIN inodes' \subseteq Sector
          /\ inodes'[s] = new /\ \A t \in DOMAIN inodes \ {s} : inodes'[t] = inodes[t]
          /\ inodes' = [t \in DOMAIN inodes' |-> inodes'[t]]
          /\ \A t \in DOMAIN inodes' : IsOpenInode(inodes'[t])
          /\ Named' = Named => Live' = Live
      BY <1>2, <2>1, <2>2, WithFacts, Zenon
    <2>4. InodeExact(s)'
      BY <1>1, <1>2, <1>3, <1>4, <1>8, <1>9, <1>10, <1>12, <2>1, <2>3 DEF InodeExact
    <2>5. \A t \in DOMAIN inodes \ {s} : InodeExact(t)'
      BY <1>11, <2>3
    <2>6. \A g \in OpenFiles' : file'[g].inode \in DOMAIN inodes'
      BY <1>7, <2>3, CountsAre DEF IInv
    <2>7. OpenCountsExact'
      BY <2>3, <2>4, <2>5, <2>6, CountsArePrimed
    <2>8. MemoryType'
      BY <1>5, <1>6, <2>3 DEF MemoryType
    <2>9. OpType' /\ Pending' = Pending
      BY <1>1, <1>12, IdleOp
    <2> QED BY <1>1, <1>10, <2>3, <2>7, <2>8, <2>9, FileStep
  <1>13. CASE /\ inode.open_cnt = 1 /\ inodes' = Without(s)
              /\ op' = IF Deallocates(inode) THEN Release(BlocksOf(s, inode))
                       ELSE [at |-> "idle"]
    <2>1. /\ DOMAIN inodes' = DOMAIN inodes \ {s} /\ DOMAIN inodes' \subseteq Sector
          /\ \A t \in DOMAIN inodes \ {s} : inodes'[t] = inodes[t]
          /\ inodes' = [t \in DOMAIN inodes' |-> inodes'[t]]
          /\ \A t \in DOMAIN inodes' : IsOpenInode(inodes'[t])
      BY <1>13, WithoutFacts
    <2>2. FilesOf(s)' = {}
      <3>1. Cardinality(FilesOf(s) \ {h}) = 0
        BY <1>3, <1>13
      <3>2. IsFiniteSet(FilesOf(s) \ {h})
        BY <1>4, FS_RemoveElement
      <3> QED BY <1>8, <3>1, <3>2, FS_EmptySet
    <2>3. \A g \in OpenFiles' : file'[g].inode \in DOMAIN inodes'
      <3> TAKE g \in OpenFiles'
      <3>1. g \in OpenFiles /\ file'[g] = file[g] /\ file[g].inode \in DOMAIN inodes
        BY <1>7, CountsAre DEF IInv
      <3>2. file'[g].inode # s
        BY <2>2 DEF FilesOf
      <3> QED BY <2>1, <3>1, <3>2
    <2>4. OpenCountsExact'
      BY <1>11, <2>1, <2>3, CountsArePrimed
    <2>5. MemoryType'
      BY <1>5, <1>6, <2>1 DEF MemoryType
    <2>6. CASE ~ inode.removed
      <3>1. s \in Named
        BY <1>2, <1>3, <2>6 DEF InodeExact
      <3>2. Live' = Live
        BY <1>10, <2>1, <3>1 DEF Live
      <3>3. OpType' /\ Pending' = Pending
        BY <1>1, <1>13, <2>6, IdleOp DEF Deallocates
      <3> QED BY <1>1, <2>4, <2>5, <3>2, <3>3, FileStep
    <2>7. CASE inode.removed
      <3>1. s \notin Named
        BY <1>2, <1>3, <2>7 DEF InodeExact
      <3>2. Live' = Live \ {s}
        BY <1>10, <2>1, <3>1 DEF Live
      <3>3. OpType' /\ Pending' = Extent(s)
        BY <1>2, <1>3, <1>13, <2>7, ReleasesExtent DEF Deallocates
      <3>4. Undisturbed /\ DiskType'
        BY <1>1, NoWrite
      <3>5. /\ InUse' = InUse /\ NamesAreUnique'
            /\ \A i, j \in InUse : entry'[i].inode_sector = entry'[j].inode_sector => i = j
            /\ \A t \in Live : Extent(t)' = Extent(t) /\ IsInode(t)'
        BY <3>4, UndisturbedFacts
      <3>6. Files'
        BY <3>2, <3>5 DEF Files
      <3>7. Partition(free_map, lost, {}, Extents)
        BY <1>1, PartitionNow DEF PendingFacts
      <3>8. /\ s \in DOMAIN Extents /\ Extents[s] = Extent(s)
            /\ DOMAIN Extents' = DOMAIN Extents \ {s}
            /\ \A t \in DOMAIN Extents' : Extents'[t] = Extents[t]
        BY <1>2, <3>2, <3>5 DEF Extents
      <3>9. Partition(free_map, lost, Extents[s], Extents')
        BY <3>7, <3>8, PartRemove
      <3>10. Partition(free_map', lost', Pending', Extents')
        BY <1>1, <3>3, <3>8, <3>9
      <3> QED BY <2>4, <2>5, <3>3, <3>4, <3>6, <3>10, Assemble
    <2> QED BY <2>6, <2>7
  <1> QED BY <1>1, <1>12, <1>13 DEF inode_close

-----------------------------------------------------------------------------
\* Writes of one entry of the directory.
LEMMA EntryWrite ==
  ASSUME IInv, NEW i \in Slot, NEW e \in Entry \union {NULL},
         disk' = [disk EXCEPT ![ROOT_DIR_DATA].entry[i] = e], free_map' = free_map
  PROVE  /\ DiskType' /\ entry' = [entry EXCEPT ![i] = e]
         /\ \A s \in Sector \ System : disk'[s] = disk[s] /\ Extent(s)' = Extent(s)
         /\ \A s \in Live : disk'[s] = disk[s] /\ Extent(s)' = Extent(s) /\ IsInode(s)'
  <1>1. /\ disk = [s \in Sector |-> disk[s]] /\ disk[3] = Directory(entry)
        /\ entry \in [Slot -> Entry \union {NULL}] /\ disk[2] = Map(used)
        /\ free_map \subseteq used /\ used \subseteq Sector /\ 2 \in Sector /\ 3 \in Sector
    BY Constants DEF IInv, DiskType
  <1>2. disk' = [disk EXCEPT ![3] = [disk[3] EXCEPT !.entry = [disk[3].entry EXCEPT ![i] = e]]]
    BY Constants
  <1>3. disk'[3] = Directory([entry EXCEPT ![i] = e])
    <2>1. disk[3].entry = entry
      BY Constants DEF entry
    <2>2. [Directory(entry) EXCEPT !.entry = [entry EXCEPT ![i] = e]]
            = Directory([entry EXCEPT ![i] = e])
      BY DEF Directory
    <2> QED BY <1>1, <1>2, <2>1, <2>2
  <1>4. /\ disk' = [s \in Sector |-> disk'[s]] /\ disk'[2] = disk[2]
        /\ \A s \in Sector \ System : disk'[s] = disk[s]
    BY <1>1, <1>2, Constants
  <1>5. entry' = [entry EXCEPT ![i] = e] /\ used' = used
    BY <1>3, <1>4, Constants DEF entry, used, Directory
  <1>6. [entry EXCEPT ![i] = e] \in [Slot -> Entry \union {NULL}]
    BY <1>1
  <1>7. DiskType'
    BY <1>1, <1>3, <1>4, <1>5, <1>6, Constants DEF DiskType
  <1>8. \A s \in Sector \ System : Extent(s)' = Extent(s)
    BY <1>4 DEF Extent
  <1>9. \A s \in Live : s \in Sector \ System
    BY LiveFacts
  <1>10. \A s \in Live : IsInode(s)'
    BY <1>4, <1>9 DEF IInv, Files, IsInode
  <1> QED BY <1>4, <1>5, <1>7, <1>8, <1>9, <1>10

\* dir_add() of an inode and data that are written.
LEMMA DirAddStep ==
  ASSUME IInv, dir_add
  PROVE  IInv'
  <1> PICK s, n : s = op.sector /\ n = op.name
    OBVIOUS
  <1> DEFINE e == [name |-> n, inode_sector |-> s]
  <1>1. PICK i \in Slot : FreeSlot(i) /\ disk' = [disk EXCEPT ![ROOT_DIR_DATA].entry[i] = e]
    BY DEF dir_add
  <1>2. /\ op.at = "dir_add" /\ NameIsFree(n) /\ op' = [at |-> "idle"]
        /\ free_map' = free_map /\ inodes' = inodes /\ file' = file /\ lost' = lost
    BY DEF dir_add
  <1>3. /\ n \in Name /\ s \in Sector /\ op.length \in Nat /\ op.start \in Nat
        /\ s \notin Sectors(op.start, bytes_to_sectors(op.length))
        /\ Pending = {s} \union Sectors(op.start, bytes_to_sectors(op.length))
        /\ disk[s] = OnDisk(op.start, op.length)
    BY <1>2, CreatingFacts DEF IInv, OpType, Creating
  <1>4. s \notin Live /\ s \notin System /\ s \in Pending
    BY <1>3, LiveFacts
  <1>5. i \notin InUse /\ \A j \in InUse : entry[j].name # n
    BY <1>1, <1>2 DEF FreeSlot, NameIsFree, IInv
  <1>6. e \in Entry /\ e # NULL
    BY <1>3, FileSysAssumption DEF Entry
  <1>7. /\ DiskType' /\ entry' = [entry EXCEPT ![i] = e]
        /\ \A t \in Sector \ System : disk'[t] = disk[t] /\ Extent(t)' = Extent(t)
        /\ \A t \in Live : disk'[t] = disk[t] /\ Extent(t)' = Extent(t) /\ IsInode(t)'
    BY <1>1, <1>2, <1>6, EntryWrite
  <1>8. entry'[i] = e /\ \A j \in Slot \ {i} : entry'[j] = entry[j]
    BY <1>7 DEF IInv, DiskType
  <1>9. InUse' = InUse \union {i}
    BY <1>6, <1>8 DEF InUse
  <1>10. Named' = Named \union {s}
    <2>1. \A j \in InUse : j # i /\ j \in Slot /\ entry'[j] = entry[j]
      BY <1>5, <1>8 DEF InUse
    <2> QED BY <1>8, <1>9, <2>1 DEF Named
  <1>11. Live' = Live \union {s}
    BY <1>2, <1>10 DEF Live
  <1>12. IsInode(s)' /\ Extent(s)' = Pending
    <2>1. disk'[s] = OnDisk(op.start, op.length)
      BY <1>3, <1>4, <1>7
    <2>2. disk'[s].start = op.start /\ disk'[s].length = op.length
      BY <2>1 DEF OnDisk
    <2> QED BY <1>3, <2>1, <2>2 DEF IsInode, Extent
  <1>13. Files'
    <2>1. NamesAreUnique'
      BY <1>5, <1>8, <1>9 DEF NamesAreUnique, IInv, Files, InUse
    <2>2. \A j, k \in InUse' : entry'[j].inode_sector = entry'[k].inode_sector => j = k
      <3>1. \A j \in InUse : entry[j].inode_sector # s
        BY <1>4, LiveFacts
      <3>2. \A j \in InUse : j # i /\ j \in Slot /\ entry'[j] = entry[j]
        BY <1>5, <1>8 DEF InUse
      <3> QED BY <1>8, <1>9, <3>1, <3>2 DEF IInv, Files
    <2>3. \A t \in Live' : IsInode(t)'
      BY <1>7, <1>11, <1>12
    <2> QED BY <2>1, <2>2, <2>3 DEF Files
  <1>14. Pending' = {} /\ OpType'
    <2>1. Pending' = {}
      BY <1>2, PartitionNow DEF PendingFacts
    <2> QED BY <1>2, <2>1 DEF OpType, Creating, Releasing, Writing
  <1>15. Partition(free_map', lost', Pending', Extents')
    <2>1. /\ s \notin DOMAIN Extents /\ DOMAIN Extents' = DOMAIN Extents \union {s}
          /\ Extents'[s] = Pending /\ \A t \in DOMAIN Extents : Extents'[t] = Extents[t]
      BY <1>4, <1>7, <1>11, <1>12 DEF Extents
    <2>2. Partition(free_map, lost, {}, Extents')
      BY <2>1, PartitionNow, PartCreate
    <2> QED BY <1>2, <1>14, <2>2
  <1>16. MemoryType'
    BY <1>2 DEF IInv, MemoryType, OpenFiles
  <1>17. OpenCountsExact'
    <2>1. OpenFiles' = OpenFiles
      BY <1>2 DEF OpenFiles
    <2>2. \A t : FilesOf(t)' = FilesOf(t)
      BY <1>2, <2>1 DEF FilesOf
    <2>3. \A t : Denying(t)' = Denying(t)
      BY <1>2, <2>2 DEF Denying
    <2>4. \A t \in DOMAIN inodes : InodeExact(t)'
      <3> TAKE t \in DOMAIN inodes
      <3>1. InodeExact(t) /\ t \in Live
        BY CountsAre DEF IInv, Live
      <3>2. disk'[t] = disk[t] /\ (t \in Named' <=> t \in Named)
        BY <1>4, <1>7, <1>10, <3>1
      <3> QED BY <1>2, <2>2, <2>3, <3>1, <3>2 DEF InodeExact
    <2>5. \A g \in OpenFiles' : file'[g].inode \in DOMAIN inodes'
      BY <1>2, <2>1, CountsAre DEF IInv
    <2> QED BY <1>2, <2>4, <2>5, CountsArePrimed
  <1> QED BY <1>7, <1>13, <1>14, <1>15, <1>16, <1>17, Assemble

\* filesys_remove(), of a file that is open and of one that is not.
LEMMA RemoveStep ==
  ASSUME IInv, NEW n \in Name, filesys_remove(n)
  PROVE  IInv'
  <1>1. PICK i \in Slot :
          /\ lookup(n, i) /\ disk' = [disk EXCEPT ![ROOT_DIR_DATA].entry[i] = NULL]
          /\ inode_close(entry[i].inode_sector, inode_remove(inode_open(entry[i].inode_sector)))
    BY DEF filesys_remove
  <1> PICK s : s = entry[i].inode_sector
    OBVIOUS
  <1> PICK inode : inode = inode_remove(inode_open(s))
    OBVIOUS
  <1>2. /\ op.at = "idle" /\ free_map' = free_map /\ file' = file /\ lost' = lost
        /\ inode_close(s, inode)
    BY <1>1 DEF filesys_remove
  <1>3. i \in InUse /\ s \in Live /\ s \in Named
    BY <1>1, LiveFacts DEF lookup, Named
  <1>4. /\ DiskType' /\ entry' = [entry EXCEPT ![i] = NULL]
        /\ \A t \in Live : disk'[t] = disk[t] /\ Extent(t)' = Extent(t) /\ IsInode(t)'
    BY <1>1, <1>2, EntryWrite
  <1>5. entry'[i] = NULL /\ \A j \in Slot \ {i} : entry'[j] = entry[j]
    BY <1>4 DEF IInv, DiskType
  <1>6. InUse' = InUse \ {i} /\ \A j \in InUse' : entry'[j] = entry[j] /\ j \in InUse /\ j # i
    BY <1>5 DEF InUse
  <1>7. Named' = Named \ {s}
    <2>1. \A j \in InUse \ {i} : entry[j].inode_sector # s
      BY <1>3 DEF IInv, Files
    <2> QED BY <1>6, <2>1 DEF Named
  <1>8. /\ NamesAreUnique'
        /\ \A j, k \in InUse' : entry'[j].inode_sector = entry'[k].inode_sector => j = k
    BY <1>6 DEF IInv, Files, NamesAreUnique
  <1>9. /\ OpenFiles' = OpenFiles
        /\ \A t : FilesOf(t)' = FilesOf(t) /\ Denying(t)' = Denying(t)
    <2>1. OpenFiles' = OpenFiles
      BY <1>2 DEF OpenFiles
    <2>2. \A t : FilesOf(t)' = FilesOf(t)
      BY <1>2, <2>1 DEF FilesOf
    <2> QED BY <1>2, <2>1, <2>2 DEF Denying
  <1>10. ASSUME NEW t \in DOMAIN inodes \ {s}, inodes'[t] = inodes[t]
         PROVE  InodeExact(t)'
    <2>1. InodeExact(t) /\ t \in Live
      BY CountsAre DEF IInv, Live
    <2>2. disk'[t] = disk[t] /\ (t \in Named' <=> t \in Named)
      BY <1>4, <1>7, <2>1
    <2> QED BY <1>9, <1>10, <2>1, <2>2 DEF InodeExact
  <1>11. CASE s \in DOMAIN inodes
    <2>1. InodeExact(s) /\ IsOpenInode(inodes[s]) /\ Cardinality(FilesOf(s)) \in Nat
      BY <1>11, CountsAre, CountsAreFinite DEF IInv, MemoryType
    <2>2. inode = [[inodes[s] EXCEPT !.open_cnt = @ + 1] EXCEPT !.removed = TRUE]
      BY <1>11 DEF inode_open, inode_remove
    <2>3. /\ IsOpenInode(inode) /\ inode.open_cnt = inodes[s].open_cnt + 1
          /\ inode.removed = TRUE /\ inode.deny_write_cnt = inodes[s].deny_write_cnt
          /\ inode.data = inodes[s].data
      BY <2>1, <2>2 DEF IsOpenInode
    <2> DEFINE new == [inode EXCEPT !.open_cnt = @ - 1]
    <2>4. inodes' = With(s, new) /\ op' = [at |-> "idle"]
      BY <1>2, <2>1, <2>3 DEF inode_close, InodeExact
    <2>5. /\ IsOpenInode(new) /\ new.open_cnt = inode.open_cnt - 1
          /\ new.deny_write_cnt = inode.deny_write_cnt /\ new.removed = TRUE
          /\ new.data = inode.data
      BY <2>3 DEF IsOpenInode
    <2> HIDE DEF new
    <2>6. /\ DOMAIN inodes' = DOMAIN inodes \union {s} /\ DOMAIN inodes' \subseteq Sector
          /\ inodes'[s] = new /\ \A t \in DOMAIN inodes \ {s} : inodes'[t] = inodes[t]
          /\ inodes' = [t \in DOMAIN inodes' |-> inodes'[t]]
          /\ \A t \in DOMAIN inodes' : IsOpenInode(inodes'[t])
      BY <1>3, <2>4, <2>5, WithFacts
    <2>7. Live' = Live
      BY <1>7, <1>11, <2>6 DEF Live
    <2>8. InodeExact(s)'
      <3>1. new.open_cnt = inodes[s].open_cnt
        BY <2>1, <2>3, <2>5 DEF InodeExact
      <3>2. disk'[s] = disk[s] /\ s \notin Named'
        BY <1>3, <1>4, <1>7
      <3> QED BY <1>9, <2>1, <2>3, <2>5, <2>6, <3>1, <3>2 DEF InodeExact
    <2>9. \A g \in OpenFiles' : file'[g].inode \in DOMAIN inodes'
      BY <1>2, <1>9, <2>6, CountsAre DEF IInv
    <2>10. OpenCountsExact'
      BY <1>10, <2>6, <2>8, <2>9, CountsArePrimed
    <2>11. MemoryType'
      BY <1>2, <1>9, <2>6 DEF IInv, MemoryType
    <2>12. Files'
      BY <1>4, <1>8, <2>7 DEF Files
    <2>13. OpType' /\ Pending' = Pending
      BY <1>2, <2>4, IdleOp
    <2>14. Extents' = Extents
      BY <1>4, <2>7 DEF Extents
    <2>15. Partition(free_map', lost', Pending', Extents')
      BY <1>2, <2>13, <2>14, PartitionNow
    <2> QED BY <1>4, <2>10, <2>11, <2>12, <2>13, <2>15, Assemble
  <1>12. CASE s \notin DOMAIN inodes
    <2>1. inode = [[open_cnt |-> 1, removed |-> FALSE, deny_write_cnt |-> 0,
                    data |-> disk[s]] EXCEPT !.removed = TRUE]
      BY <1>12 DEF inode_open, inode_remove
    <2>2. inode.open_cnt = 1 /\ inode.removed = TRUE /\ inode.data = disk[s]
      BY <2>1
    <2>3. inodes' = Without(s) /\ op' = Release(BlocksOf(s, inode))
      BY <1>2, <2>2 DEF inode_close, Deallocates
    <2>4. /\ DOMAIN inodes' = DOMAIN inodes \ {s} /\ DOMAIN inodes' \subseteq Sector
          /\ \A t \in DOMAIN inodes \ {s} : inodes'[t] = inodes[t]
          /\ inodes' = [t \in DOMAIN inodes' |-> inodes'[t]]
          /\ \A t \in DOMAIN inodes' : IsOpenInode(inodes'[t])
      BY <2>3, WithoutFacts
    <2>5. DOMAIN inodes' = DOMAIN inodes /\ Live' = Live \ {s}
      BY <1>7, <1>12, <2>4 DEF Live
    <2>6. \A g \in OpenFiles' : file'[g].inode \in DOMAIN inodes'
      BY <1>2, <1>9, <2>5, CountsAre DEF IInv
    <2>7. OpenCountsExact'
      BY <1>10, <2>4, <2>6, CountsArePrimed
    <2>8. MemoryType'
      BY <1>2, <1>9, <2>4 DEF IInv, MemoryType
    <2>9. Files'
      BY <1>4, <1>8, <2>5 DEF Files
    <2>10. OpType' /\ Pending' = Extent(s)
      BY <1>3, <2>2, <2>3, ReleasesExtent
    <2>11. Partition(free_map, lost, {}, Extents)
      BY <1>2, PartitionNow DEF PendingFacts
    <2>12. /\ s \in DOMAIN Extents /\ Extents[s] = Extent(s)
           /\ DOMAIN Extents' = DOMAIN Extents \ {s}
           /\ \A t \in DOMAIN Extents' : Extents'[t] = Extents[t]
      BY <1>3, <1>4, <2>5 DEF Extents
    <2>13. Partition(free_map, lost, Extents[s], Extents')
      BY <2>11, <2>12, PartRemove
    <2>14. Partition(free_map', lost', Pending', Extents')
      BY <1>2, <2>10, <2>12, <2>13
    <2> QED BY <1>4, <2>7, <2>8, <2>9, <2>10, <2>14, Assemble
  <1> QED BY <1>11, <1>12

\* The machine stops; filesys_init() starts again from the disk.
LEMMA RestartStep ==
  ASSUME IInv, filesys_init
  PROVE  IInv'
  <1>1. /\ free_map' = used /\ inodes' = [s \in {} |-> NULL]
        /\ file' = [h \in Handle |-> NULL] /\ op' = [at |-> "idle"]
        /\ lost' = used \ Reachable /\ disk' = disk
    BY DEF filesys_init, used
  <1>2. Undisturbed /\ entry' = entry /\ used' = used
    BY <1>1 DEF Undisturbed, entry, used
  <1>3. DiskType'
    BY <1>1, <1>2 DEF IInv, DiskType
  <1>4. /\ InUse' = InUse /\ Named' = Named /\ NamesAreUnique'
        /\ \A i, j \in InUse : entry'[i].inode_sector = entry'[j].inode_sector => i = j
        /\ \A s \in Live : Extent(s)' = Extent(s) /\ IsInode(s)'
    BY <1>2, UndisturbedFacts
  <1>5. OpenFiles' = {} /\ DOMAIN inodes' = {}
    BY <1>1 DEF OpenFiles
  <1>6. Live' = Named /\ Named \subseteq Live
    BY <1>4, <1>5 DEF Live
  <1>7. Files'
    BY <1>4, <1>6 DEF Files
  <1>8. Pending' = {} /\ OpType'
    <2>1. Pending' = {}
      BY <1>1, PartitionNow DEF PendingFacts
    <2> QED BY <1>1, <2>1 DEF OpType, Creating, Releasing, Writing
  <1>9. Partition(free_map', lost', Pending', Extents')
    <2> DEFINE F == [s \in Named |-> Extent(s)]
    <2>1. Extents' = F /\ DOMAIN F = Named
      BY <1>4, <1>6 DEF Extents
    <2>2. DOMAIN F \subseteq DOMAIN Extents /\ \A t \in DOMAIN F : F[t] = Extents[t]
      BY <1>6 DEF Extents
    <2>3. Reachable = System \union UNION {F[s] : s \in DOMAIN F}
      <3>1. \A i \in InUse : entry[i].inode_sector \in Named
        BY DEF Named
      <3>2. \A s \in Named : \E i \in InUse : s = entry[i].inode_sector
        BY DEF Named
      <3> QED BY <3>1, <3>2 DEF Reachable
    <2>4. free_map \subseteq used
      BY DEF IInv, DiskType
    <2> HIDE DEF F
    <2>5. Partition(used, used \ (System \union UNION {F[s] : s \in DOMAIN F}), {}, F)
      BY <2>2, <2>4, PartitionNow, PartRestart
    <2>6. Partition(free_map', lost', Pending', F)
      BY <1>1, <1>8, <2>3, <2>5
    <2> QED BY <2>1, <2>6
  <1>10. MemoryType'
    BY <1>1, <1>5, FS_EmptySet DEF MemoryType
  <1>11. OpenCountsExact'
    BY <1>5, CountsArePrimed
  <1> QED BY <1>3, <1>7, <1>8, <1>9, <1>10, <1>11, Assemble

-----------------------------------------------------------------------------
LEMMA NextIInv == IInv /\ [Next]_vars => IInv'
  <1> SUFFICES ASSUME IInv, [Next]_vars PROVE IInv'
    OBVIOUS
  <1>1. ASSUME NEW n \in Name, filesys_remove(n) PROVE IInv'
    BY <1>1, RemoveStep
  <1>2. ASSUME NEW n \in Name, NEW len \in Length, filesys_create(n, len) PROVE IInv'
    BY <1>2, CreateStep
  <1>3. CASE inode_create
    BY <1>3, InodeCreateStep
  <1>4. CASE WriteInode
    BY <1>4, WriteInodeStep
  <1>5. CASE ZeroSector
    BY <1>5, ZeroSectorStep
  <1>6. CASE dir_add
    BY <1>6, DirAddStep
  <1>7. CASE DirAddFails
    BY <1>7, DirAddFailsStep
  <1>8. CASE free_map_release
    BY <1>8, ReleaseStep
  <1>9. ASSUME NEW h \in Handle, NEW n \in Name, filesys_open(h, n) PROVE IInv'
    BY <1>9, OpenCallStep
  <1>10. ASSUME NEW h \in Handle, NEW g \in Handle, file_reopen(h, g) PROVE IInv'
    BY <1>10, ReopenStep
  <1>11. ASSUME NEW h \in Handle, file_close(h) PROVE IInv'
    BY <1>11, CloseStep
  <1>12. ASSUME NEW h \in Handle, file_deny_write(h) PROVE IInv'
    BY <1>12, DenyStep
  <1>13. ASSUME NEW h \in Handle, AllowWrite(h) PROVE IInv'
    BY <1>13, AllowStep
  <1>14. ASSUME NEW h \in Handle, file_seek(h) \/ file_read(h) PROVE IInv'
    BY <1>14, SeekStep
  <1>15. ASSUME NEW h \in Handle, NEW v \in Byte, NEW len \in Length, file_write(h, v, len)
         PROVE  IInv'
    BY <1>15, WriteCallStep
  <1>16. CASE inode_write_at
    BY <1>16, InodeWriteStep
  <1>17. CASE WriteEnds
    BY <1>17, WriteEndsStep
  <1>18. CASE filesys_init
    BY <1>18, RestartStep
  <1>19. CASE UNCHANGED vars
    <2>1. /\ disk' = disk /\ free_map' = free_map /\ inodes' = inodes /\ file' = file
          /\ op' = op /\ lost' = lost
      BY <1>19 DEF vars
    <2>2. Undisturbed /\ DiskType'
      BY <2>1, NoWrite
    <2>3. Pending' = Pending
      BY <2>1 DEF Pending
    <2>4. OpType'
      BY <2>1 DEF IInv, OpType, Creating, Releasing, Writing, OpenFiles
    <2>5. Partition(free_map', lost', Pending', Extents)
      BY <2>1, <2>3, PartitionNow
    <2> QED BY <2>1, <2>2, <2>4, <2>5, QuietStep
  <1> QED BY <1>1, <1>2, <1>3, <1>4, <1>5, <1>6, <1>7, <1>8, <1>9, <1>10, <1>11, <1>12, <1>13,
             <1>14, <1>15, <1>16, <1>17, <1>18, <1>19 DEF Next

\* The inductive invariant holds in every reachable state.
THEOREM Invariance == ~ ShortReads /\ Spec => []IInv
  BY InitIInv, NextIInv, PTL DEF Spec

\* DiskIsSound: whenever the machine stops, the entries of the directory lead
\* to inodes whose sectors are on the device, marked in the free map on disk
\* and shared with no other file.
THEOREM DiskStaysSound == ~ ShortReads /\ Spec => []DiskIsSound
  <1>1. IInv => DiskIsSound
    <2> SUFFICES ASSUME IInv, NEW i \in InUse PROVE
          LET s == entry[i].inode_sector
          IN  /\ disk[s].type = "inode"
              /\ Extent(s) \subseteq disk[FREE_MAP_DATA].used \ System
              /\ Extent(s) \subseteq Sector
              /\ \A j \in InUse \ {i} : Extent(s) \cap Extent(entry[j].inode_sector) = {}
      BY DEF DiskIsSound
    <2> DEFINE s == entry[i].inode_sector
    <2>1. s \in Live /\ Extent(s) \subseteq free_map
      BY LiveFacts
    <2>2. disk[s].type = "inode"
      <3>1. disk[s] = OnDisk(disk[s].start, disk[s].length)
        BY <2>1 DEF IInv, Files, IsInode
      <3>2. OnDisk(disk[s].start, disk[s].length).type = "inode"
        BY DEF OnDisk
      <3> QED BY <3>1, <3>2, Zenon
    <2>3. Extent(s) \cap System = {} /\ \A t \in Live \ {s} : Extent(s) \cap Extent(t) = {}
      BY <2>1 DEF IInv, FreeMapExact
    <2>4. \A j \in InUse \ {i} : entry[j].inode_sector \in Live \ {s}
      BY LiveFacts DEF IInv, Files
    <2>5. free_map \subseteq disk[FREE_MAP_DATA].used /\ free_map \subseteq Sector
      BY LiveFacts DEF IInv, DiskType, used
    <2> QED BY <2>1, <2>2, <2>3, <2>4, <2>5
  <1> QED BY <1>1, Invariance, PTL

\* FreeMapExact: the free map in memory accounts for every sector, through
\* every call, failure and restart.
THEOREM FreeMapIsExact == ~ ShortReads /\ Spec => []FreeMapExact
  <1>1. IInv => FreeMapExact
    BY DEF IInv
  <1> QED BY <1>1, Invariance, PTL

\* OpenCountsExact: open_cnt and deny_write_cnt of every open inode are those
\* of the open files, which the assertions of inode.c rely on.
THEOREM CountsAreExact == ~ ShortReads /\ Spec => []OpenCountsExact
  <1>1. IInv => OpenCountsExact
    BY DEF IInv
  <1> QED BY <1>1, Invariance, PTL

\* NamesAreUnique: what dir_add()'s comment promises holds under what it
\* assumes.  (MCFileSysShortReads shows that it needs the assumption.)
THEOREM NamesStayUnique == ~ ShortReads /\ Spec => []NamesAreUnique
  <1>1. IInv => NamesAreUnique
    BY DEF IInv, Files
  <1> QED BY <1>1, Invariance, PTL

-----------------------------------------------------------------------------
(***************************************************************************)
(* The refinement of FileStore.  It needs more of the invariant: what the  *)
(* data sectors hold.                                                      *)
(***************************************************************************)
DataOf(s) == Sectors(disk[s].start, bytes_to_sectors(disk[s].length))

IsData(d) == /\ d = Data(d.bytes)
             /\ d.bytes = [b \in 0 .. BLOCK_SECTOR_SIZE - 1 |-> d.bytes[b]]

\* The data sectors of every file hold data.
FilesWritten == \A s \in Live : \A w \in DataOf(s) : IsData(disk[w])

\* A file in creation is zeroed sector by sector, and nobody denies a write
\* while it goes on.
OpWritten ==
  /\ op.at \in {"inode_create", "write_inode", "zero", "dir_add"} => op.length \in Length
  /\ op.at = "zero" => \A k \in 0 .. op.i - 1 : disk[op.start + k] = Zeros
  /\ op.at = "dir_add" =>
       \A w \in Sectors(op.start, bytes_to_sectors(op.length)) : disk[w] = Zeros
  /\ op.at = "write" => op.byte \in Byte /\ Denying(file[op.file].inode) = {}

Written == FilesWritten /\ OpWritten

\* The position of a handle is a number.
LEMMA PositionIs ==
  ASSUME IInv, NEW h \in OpenFiles
  PROVE  Position(h) \in Nat
  BY FileIs DEF Position, IInv, OpType, Writing, OpenFile

\* The sector of the byte with index k.
LEMMA SectorOfByte ==
  ASSUME IInv, NEW s \in Live, NEW k \in 1 .. disk[s].length
  PROVE  disk[s].start + (k - 1) \div BLOCK_SECTOR_SIZE \in DataOf(s)
  <1>1. disk[s].start \in Nat /\ disk[s].length \in Nat
    BY DEF IInv, Files, IsInode
  <1>2. k - 1 \in Nat /\ k - 1 < disk[s].length
    BY <1>1
  <1>3. /\ (k - 1) \div BLOCK_SECTOR_SIZE \in Nat
        /\ (k - 1) \div BLOCK_SECTOR_SIZE < bytes_to_sectors(disk[s].length)
        /\ bytes_to_sectors(disk[s].length) \in Nat
    BY <1>1, <1>2, SectorsOf
  <1> QED BY <1>1, <1>3 DEF DataOf, Sectors

\* Each name leads to its inode.
DirFacts ==
  /\ DOMAIN Dir = {entry[i].name : i \in InUse}
  /\ \A i \in InUse : Dir[entry[i].name] = entry[i].inode_sector

LEMMA DirIs == IInv => DirFacts
  <1> SUFFICES ASSUME IInv PROVE DirFacts
    OBVIOUS
  <1>1. DOMAIN Dir = {entry[i].name : i \in InUse}
    BY DEF Dir
  <1>2. ASSUME NEW i \in InUse PROVE Dir[entry[i].name] = entry[i].inode_sector
    <2>1. \A j \in InUse : entry[j].name = entry[i].name => j = i
      BY DEF IInv, Files, NamesAreUnique
    <2>2. (CHOOSE j \in InUse : entry[j].name = entry[i].name) = i
      BY <2>1
    <2> QED BY <2>2 DEF Dir
  <1> QED BY <1>1, <1>2 DEF DirFacts

\* The inodes with a name or a file open on them are those the store has.
LiveIds == Store!Live = Live

LEMMA IdsAreLive == IInv => LiveIds
  <1> SUFFICES ASSUME IInv PROVE Store!Live = Live
    BY DEF LiveIds
  <1>1. Store!Range(Dir) = Named
    <2>1. \A x \in Store!Range(Dir) : x \in Named
      BY DirIs DEF DirFacts, Store!Range, Named
    <2>2. \A x \in Named : x \in Store!Range(Dir)
      BY DirIs DEF DirFacts, Store!Range, Named
    <2> QED BY <2>1, <2>2
  <1>2. {Handles[h].id : h \in DOMAIN Handles} = {file[h].inode : h \in OpenFiles}
    BY DEF Handles
  <1>3. {file[h].inode : h \in OpenFiles} = DOMAIN inodes
    <2>1. \A h \in OpenFiles : file[h].inode \in DOMAIN inodes
      BY CountsAre DEF IInv
    <2>2. ASSUME NEW s \in DOMAIN inodes PROVE \E h \in OpenFiles : file[h].inode = s
      <3>1. Cardinality(FilesOf(s)) > 0
        BY CountsAre DEF IInv, InodeExact
      <3>2. FilesOf(s) # {}
        BY <3>1, FS_EmptySet
      <3> QED BY <3>2 DEF FilesOf
    <2> QED BY <2>1, <2>2
  <1> QED BY <1>1, <1>2, <1>3 DEF Store!Live, Store!IdsOf, Live

-----------------------------------------------------------------------------
\* A step that leaves the sectors of every file alone.
FilesKept == \A s \in Live : \A w \in Extent(s) : disk'[w] = disk[w]

LEMMA OneKept ==
  ASSUME IInv, NEW s \in Live, \A w \in Extent(s) : disk'[w] = disk[w]
  PROVE  /\ disk'[s] = disk[s] /\ DataOf(s)' = DataOf(s) /\ BytesOf(s)' = BytesOf(s)
         /\ \A w \in DataOf(s) : disk'[w] = disk[w]
  <1>1. disk'[s] = disk[s]
    BY LiveFacts
  <1>2. DataOf(s)' = DataOf(s)
    BY <1>1 DEF DataOf
  <1>3. \A w \in DataOf(s) : disk'[w] = disk[w]
    BY DEF Extent, DataOf
  <1>4. BytesOf(s)' = BytesOf(s)
    <2> DEFINE at(k) == disk[s].start + (k - 1) \div BLOCK_SECTOR_SIZE
    <2>1. \A k \in 1 .. disk[s].length : disk'[at(k)] = disk[at(k)]
      BY <1>3, SectorOfByte
    <2> QED BY <1>1, <2>1 DEF BytesOf
  <1> QED BY <1>1, <1>2, <1>3, <1>4

LEMMA KeptFacts ==
  ASSUME IInv, FilesKept, NEW s \in Live
  PROVE  /\ disk'[s] = disk[s] /\ DataOf(s)' = DataOf(s) /\ BytesOf(s)' = BytesOf(s)
         /\ \A w \in DataOf(s) : disk'[w] = disk[w]
  BY OneKept DEF FilesKept

\* A write of a sector that belongs to no file.
LEMMA OtherWrite ==
  ASSUME IInv, NEW w, w \in System \/ w \in Pending, NEW d, disk' = [disk EXCEPT ![w] = d]
  PROVE  FilesKept
  <1> SUFFICES ASSUME NEW s \in Live, NEW v \in Extent(s) PROVE disk'[v] = disk[v]
    BY DEF FilesKept
  <1>1. v \in Sector /\ v # w
    BY LiveFacts DEF IInv, FreeMapExact
  <1>2. disk = [t \in Sector |-> disk[t]]
    BY DEF IInv, DiskType
  <1> QED BY <1>1, <1>2

LEMMA NoWriteKeeps ==
  ASSUME disk' = disk
  PROVE  FilesKept
  BY DEF FilesKept

\* What remains written when files come and go.
LEMMA DataStaysWritten ==
  ASSUME IInv, Written, FilesKept
  PROVE  \A s \in Live : \A w \in DataOf(s)' : IsData(disk'[w])
  <1> SUFFICES ASSUME NEW s \in Live, NEW w \in DataOf(s)' PROVE IsData(disk'[w])
    OBVIOUS
  <1>1. w \in DataOf(s) /\ disk'[w] = disk[w]
    BY KeptFacts
  <1>2. IsData(disk[w])
    BY <1>1 DEF Written, FilesWritten
  <1> QED BY <1>1, <1>2

\* A step that callers cannot see.
LEMMA Unseen ==
  ASSUME IInv, Written, FilesKept, Live' = Live, entry' = entry, OpenFiles' = OpenFiles,
         \A h \in OpenFiles : /\ file'[h].inode = file[h].inode
                              /\ file'[h].deny_write = file[h].deny_write
                              /\ Position(h)' = Position(h)
  PROVE  FilesWritten' /\ UNCHANGED <<Dir, Content, Handles>>
  <1>1. Dir' = Dir
    BY DEF Dir, InUse
  <1>2. Content' = Content
    BY KeptFacts DEF Content
  <1>3. Handles' = Handles
    BY DEF Handles
  <1>4. FilesWritten'
    BY DataStaysWritten DEF FilesWritten, IsData
  <1> QED BY <1>1, <1>2, <1>3, <1>4

\* A step towards or away from a file in creation, or of a release.
LEMMA Background ==
  ASSUME IInv, Written, FilesKept, entry' = entry, inodes' = inodes, file' = file,
         op.at # "write", op'.at # "write"
  PROVE  FilesWritten' /\ UNCHANGED <<Dir, Content, Handles>>
  <1>1. OpenFiles' = OpenFiles
    BY DEF OpenFiles
  <1>2. Live' = Live
    BY DEF Live, Named, InUse
  <1>3. \A h : Position(h)' = Position(h)
    BY DEF Position
  <1> QED BY <1>1, <1>2, <1>3, Unseen

StoreStep == Store!Next \/ UNCHANGED <<Dir, Content, Handles>>

LEMMA AllocateKeeps ==
  ASSUME IInv, NEW s \in Sector, NEW cnt \in Nat, free_map_allocate(s, cnt)
  PROVE  FilesKept /\ entry' = entry
  <1>1. disk' = [disk EXCEPT ![FREE_MAP_DATA] = Map(free_map')]
    BY DEF free_map_allocate
  <1>2. FilesKept
    BY <1>1, OtherWrite, Constants
  <1> QED BY <1>2, Allocates DEF Undisturbed

LEMMA CreateUnseen ==
  ASSUME IInv, Written, NEW n \in Name, NEW len \in Length, filesys_create(n, len)
  PROVE  Written' /\ UNCHANGED <<Dir, Content, Handles>>
  <1>1. PICK s \in Sector :
          /\ free_map_allocate(s, 1)
          /\ op' = [at |-> "inode_create", name |-> n, length |-> len, sector |-> s]
    BY DEF filesys_create
  <1>2. op.at = "idle" /\ inodes' = inodes /\ file' = file
    BY DEF filesys_create
  <1>3. FilesKept /\ entry' = entry
    BY <1>1, AllocateKeeps
  <1>4. FilesWritten' /\ UNCHANGED <<Dir, Content, Handles>>
    BY <1>1, <1>2, <1>3, Background
  <1>5. OpWritten'
    BY <1>1 DEF OpWritten
  <1> QED BY <1>4, <1>5 DEF Written

LEMMA InodeCreateUnseen ==
  ASSUME IInv, Written, inode_create
  PROVE  Written' /\ UNCHANGED <<Dir, Content, Handles>>
  <1>1. /\ op.at = "inode_create" /\ inodes' = inodes /\ file' = file /\ op.length \in Length
        /\ bytes_to_sectors(op.length) \in Nat
    BY SectorsOf DEF inode_create, Written, OpWritten, IInv, OpType, Creating
  <1>2. FilesKept /\ entry' = entry
    <2>1. CASE \E s \in Sector : free_map_allocate(s, bytes_to_sectors(op.length))
      BY <1>1, <2>1, AllocateKeeps
    <2>2. CASE disk' = disk
      BY <2>2, NoWriteKeeps DEF entry
    <2> QED BY <2>1, <2>2 DEF inode_create
  <1>3. OpWritten' /\ op'.at # "write"
    BY <1>1 DEF inode_create, OpWritten, Release
  <1>4. FilesWritten' /\ UNCHANGED <<Dir, Content, Handles>>
    BY <1>1, <1>2, <1>3, Background
  <1> QED BY <1>3, <1>4 DEF Written

LEMMA WriteInodeUnseen ==
  ASSUME IInv, Written, WriteInode
  PROVE  Written' /\ UNCHANGED <<Dir, Content, Handles>>
  <1>1. /\ op.at = "write_inode" /\ inodes' = inodes /\ file' = file /\ free_map' = free_map
        /\ disk' = [disk EXCEPT ![op.sector] = OnDisk(op.start, op.length)]
        /\ op' = [op EXCEPT !.at = AfterWrite(0)] /\ op.length \in Length
    BY DEF WriteInode, Written, OpWritten
  <1>2. /\ op = [at |-> op.at, name |-> op.name, length |-> op.length, sector |-> op.sector,
                 start |-> op.start, i |-> op.i]
        /\ op.length \in Nat /\ op.start \in Nat /\ op.sector \in Pending
        /\ bytes_to_sectors(op.length) \in Nat
    BY <1>1, CreatingFacts, SectorsOf
  <1>3. FilesKept /\ entry' = entry
    <2>1. FilesKept
      BY <1>1, <1>2, OtherWrite
    <2>2. entry' = entry
      BY <1>1, <1>2, OwnWrite DEF Undisturbed
    <2> QED BY <2>1, <2>2
  <1>4. /\ op'.at = AfterWrite(0) /\ op'.length = op.length /\ op'.start = op.start
        /\ op'.i = op.i
    BY <1>1, <1>2
  <1>5. /\ op'.at \in {"zero", "dir_add"}
        /\ op'.at = "dir_add" => Sectors(op.start, bytes_to_sectors(op.length)) = {}
    BY <1>2, <1>4 DEF AfterWrite, SectorsToZero, Sectors
  <1>6. op.i = 0
    BY <1>1 DEF IInv, OpType, Creating
  <1>7. OpWritten'
    BY <1>1, <1>4, <1>5, <1>6 DEF OpWritten
  <1>8. FilesWritten' /\ UNCHANGED <<Dir, Content, Handles>>
    BY <1>1, <1>3, <1>5, Background
  <1> QED BY <1>7, <1>8 DEF Written

LEMMA ZeroSectorUnseen ==
  ASSUME IInv, Written, ZeroSector
  PROVE  Written' /\ UNCHANGED <<Dir, Content, Handles>>
  <1>1. /\ op.at = "zero" /\ inodes' = inodes /\ file' = file /\ free_map' = free_map
        /\ disk' = [disk EXCEPT ![op.start + op.i] = Zeros]
        /\ op' = [op EXCEPT !.i = @ + 1, !.at = AfterWrite(op.i + 1)]
        /\ op.length \in Length /\ \A k \in 0 .. op.i - 1 : disk[op.start + k] = Zeros
        /\ op.i < SectorsToZero(op.length)
    BY DEF ZeroSector, Written, OpWritten, IInv, OpType, Creating
  <1>2. /\ op = [at |-> op.at, name |-> op.name, length |-> op.length, sector |-> op.sector,
                 start |-> op.start, i |-> op.i]
        /\ op.length \in Nat /\ op.start \in Nat /\ op.i \in Nat
        /\ bytes_to_sectors(op.length) \in Nat
        /\ Sectors(op.start, bytes_to_sectors(op.length)) \subseteq Pending
    BY <1>1, CreatingFacts, SectorsOf
  <1>3. op.start + op.i \in Pending
    BY <1>1, <1>2 DEF Sectors, SectorsToZero
  <1>4. FilesKept /\ entry' = entry
    <2>1. FilesKept
      BY <1>1, <1>3, OtherWrite
    <2>2. entry' = entry
      BY <1>1, <1>3, OwnWrite DEF Undisturbed
    <2> QED BY <2>1, <2>2
  <1>5. /\ op'.at = AfterWrite(op.i + 1) /\ op'.length = op.length /\ op'.start = op.start
        /\ op'.i = op.i + 1
    BY <1>1, <1>2
  <1>6. \A k \in 0 .. op.i : disk'[op.start + k] = Zeros
    <2> TAKE k \in 0 .. op.i
    <2>1. disk = [s \in Sector |-> disk[s]] /\ op.start + op.i \in Sector
      BY <1>3, LiveFacts DEF IInv, DiskType
    <2>2. CASE k = op.i
      BY <1>1, <2>1, <2>2
    <2>3. CASE k # op.i
      <3>1. k \in 0 .. op.i - 1 /\ op.start + k # op.start + op.i
        BY <1>2, <2>3
      <3>2. op.start + k \in Pending
        BY <1>1, <1>2, <3>1 DEF Sectors, SectorsToZero
      <3>3. op.start + k \in Sector
        BY <3>2, LiveFacts
      <3> QED BY <1>1, <2>1, <3>1, <3>3
    <2> QED BY <2>2, <2>3
  <1>7. op'.at = "dir_add" =>
          \A w \in Sectors(op.start, bytes_to_sectors(op.length)) : disk'[w] = Zeros
    <2> SUFFICES ASSUME op'.at = "dir_add",
                        NEW w \in Sectors(op.start, bytes_to_sectors(op.length))
                 PROVE  disk'[w] = Zeros
      OBVIOUS
    <2>1. bytes_to_sectors(op.length) = op.i + 1
      BY <1>1, <1>2, <1>5 DEF AfterWrite, SectorsToZero
    <2>2. w - op.start \in 0 .. op.i /\ w = op.start + (w - op.start)
      BY <1>2, <2>1 DEF Sectors
    <2> QED BY <1>6, <2>2
  <1>8. op'.at \in {"zero", "dir_add"} /\ op'.i - 1 = op.i
    BY <1>2, <1>5 DEF AfterWrite
  <1>9. OpWritten'
    BY <1>1, <1>5, <1>6, <1>7, <1>8 DEF OpWritten
  <1>10. FilesWritten' /\ UNCHANGED <<Dir, Content, Handles>>
    BY <1>1, <1>4, <1>8, Background
  <1> QED BY <1>9, <1>10 DEF Written

LEMMA DirAddFailsUnseen ==
  ASSUME IInv, Written, DirAddFails
  PROVE  Written' /\ UNCHANGED <<Dir, Content, Handles>>
  <1>1. /\ op.at = "dir_add" /\ inodes' = inodes /\ file' = file /\ disk' = disk
        /\ op' = Release(<<[start |-> op.sector, cnt |-> 1]>>)
    BY DEF DirAddFails
  <1>2. FilesKept /\ entry' = entry
    BY <1>1, NoWriteKeeps DEF entry
  <1>3. op'.at = "release" /\ OpWritten'
    BY <1>1 DEF Release, OpWritten
  <1>4. FilesWritten' /\ UNCHANGED <<Dir, Content, Handles>>
    BY <1>1, <1>2, <1>3, Background
  <1> QED BY <1>3, <1>4 DEF Written

LEMMA ReleaseUnseen ==
  ASSUME IInv, Written, free_map_release
  PROVE  Written' /\ UNCHANGED <<Dir, Content, Handles>>
  <1>1. /\ op.at = "release" /\ inodes' = inodes /\ file' = file
        /\ disk' = disk \/ disk' = [disk EXCEPT ![FREE_MAP_DATA] = Map(free_map')]
        /\ free_map' \subseteq free_map
        /\ op' = [at |-> "idle"] \/ op' = [op EXCEPT !.todo = Tail(@)]
    BY DEF free_map_release
  <1>2. FilesKept
    BY <1>1, NoWriteKeeps, OtherWrite, Constants
  <1>3. entry' = entry
    <2>1. free_map' \subseteq Sector
      BY <1>1, LiveFacts
    <2> QED BY <1>1, <2>1, MapWrite, NoWrite DEF Undisturbed
  <1>4. op'.at \in {"idle", "release"}
    <2>1. op = [at |-> "release", todo |-> op.todo]
      BY <1>1 DEF IInv, OpType, Releasing, Release
    <2> QED BY <1>1, <2>1
  <1>5. OpWritten'
    BY <1>4 DEF OpWritten
  <1>6. FilesWritten' /\ UNCHANGED <<Dir, Content, Handles>>
    BY <1>1, <1>2, <1>3, <1>4, Background
  <1> QED BY <1>5, <1>6 DEF Written

\* file_write() is seen when it writes, not when it is called or returns.
LEMMA WriteCallUnseen ==
  ASSUME IInv, Written, NEW h \in Handle, NEW v \in Byte, NEW len \in Length,
         file_write(h, v, len)
  PROVE  Written' /\ UNCHANGED <<Dir, Content, Handles>>
  <1>1. /\ op.at = "idle" /\ h \in OpenFiles /\ inodes[file[h].inode].deny_write_cnt = 0
        /\ op' = [at |-> "write", file |-> h, byte |-> v, size |-> len, offset |-> file[h].pos]
        /\ disk' = disk /\ inodes' = inodes /\ file' = file
    BY DEF file_write, OpenFiles
  <1>2. FilesKept /\ entry' = entry /\ OpenFiles' = OpenFiles
    BY <1>1, NoWriteKeeps DEF entry, OpenFiles
  <1>3. Live' = Live
    BY <1>1, <1>2 DEF Live, Named, InUse
  <1>4. \A g \in OpenFiles : Position(g)' = Position(g)
    BY <1>1 DEF Position
  <1>5. FilesWritten' /\ UNCHANGED <<Dir, Content, Handles>>
    BY <1>1, <1>2, <1>3, <1>4, Unseen
  <1>6. Denying(file[h].inode) = {}
    <2>1. InodeExact(file[h].inode)
      BY <1>1, FileIs
    <2>2. IsFiniteSet(Denying(file[h].inode))
      BY CountsAreFinite
    <2> QED BY <1>1, <2>1, <2>2, FS_EmptySet DEF InodeExact
  <1>7. \A s : Denying(s)' = Denying(s)
    BY <1>1, <1>2 DEF Denying, FilesOf
  <1>8. OpWritten'
    BY <1>1, <1>6, <1>7 DEF OpWritten
  <1> QED BY <1>5, <1>8 DEF Written

LEMMA WriteEndsUnseen ==
  ASSUME IInv, Written, WriteEnds
  PROVE  Written' /\ UNCHANGED <<Dir, Content, Handles>>
  <1>1. /\ op.at = "write" /\ op' = [at |-> "idle"]
        /\ file' = [file EXCEPT ![op.file].pos = op.offset]
        /\ disk' = disk /\ inodes' = inodes
    BY DEF WriteEnds
  <1>2. op.file \in OpenFiles /\ op.offset \in Nat /\ op.file \in Handle
    BY <1>1, FileIs DEF IInv, OpType, Writing
  <1>3. Live' = Live /\ OpenFiles' = OpenFiles
    BY <1>1, <1>2, PositionStep
  <1>4. FilesKept /\ entry' = entry
    BY <1>1, NoWriteKeeps DEF entry
  <1>5. /\ file \in [Handle -> OpenFile \union {NULL}] /\ file[op.file] \in OpenFile
    BY <1>2, FileIs DEF IInv, MemoryType
  <1>6. /\ \A g \in Handle : file'[g].inode = file[g].inode
                             /\ file'[g].deny_write = file[g].deny_write
        /\ \A g \in Handle \ {op.file} : file'[g] = file[g]
        /\ file'[op.file].pos = op.offset
    BY <1>1, <1>2, <1>5 DEF OpenFile
  <1>7. \A g \in OpenFiles : g \in Handle
    BY DEF OpenFiles
  <1>8. \A g \in OpenFiles : Position(g)' = Position(g)
    BY <1>1, <1>6, <1>7 DEF Position
  <1>9. FilesWritten' /\ UNCHANGED <<Dir, Content, Handles>>
    BY <1>3, <1>4, <1>6, <1>7, <1>8, Unseen
  <1>10. OpWritten'
    BY <1>1 DEF OpWritten
  <1> QED BY <1>9, <1>10 DEF Written

-----------------------------------------------------------------------------
\* The steps on handles.
LEMMA LengthOf ==
  ASSUME IInv, NEW s \in Live
  PROVE  Len(Content[s]) = disk[s].length /\ disk[s].length \in Nat
  <1>1. disk[s].length \in Nat
    BY DEF IInv, Files, IsInode
  <1> QED BY <1>1 DEF Content, BytesOf

\* Seeking, reading, denying and allowing writes.
LEMMA Adjusts ==
  ASSUME IInv, Written, op.at = "idle", NEW h \in OpenFiles, NEW p \in Nat, NEW d \in BOOLEAN,
         p \in Offset \union (0 .. disk[file[h].inode].length) \union {file[h].pos},
         file'[h] = [inode |-> file[h].inode, pos |-> p, deny_write |-> d],
         \A g \in OpenFiles \ {h} : file'[g] = file[g],
         OpenFiles' = OpenFiles, Live' = Live, disk' = disk, op' = op
  PROVE  Written' /\ Store!Adjust(h)
  <1>1. FilesKept /\ entry' = entry
    BY NoWriteKeeps DEF entry
  <1>2. Dir' = Dir
    BY <1>1 DEF Dir, InUse
  <1>3. Content' = Content
    BY <1>1, KeptFacts DEF Content
  <1>4. \A g : Position(g) = file[g].pos /\ Position(g)' = file'[g].pos
    BY DEF Position
  <1>5. Handles' = [Handles EXCEPT ![h].pos = p, ![h].deny = d]
    <2>1. Handles[h] = [id |-> file[h].inode, pos |-> file[h].pos, deny |-> file[h].deny_write]
      BY <1>4 DEF Handles
    <2>2. [[Handles[h] EXCEPT !.pos = p] EXCEPT !.deny = d]
            = [id |-> file[h].inode, pos |-> p, deny |-> d]
      <3> DEFINE r == [Handles[h] EXCEPT !.pos = p]
      <3>1. r = [id |-> file[h].inode, pos |-> p, deny |-> file[h].deny_write]
        BY <2>1
      <3> HIDE DEF r
      <3>2. [r EXCEPT !.deny = d] = [id |-> file[h].inode, pos |-> p, deny |-> d]
        BY <3>1
      <3> QED BY <3>2 DEF r
    <2>3. Handles' = [g \in OpenFiles |->
                       IF g = h THEN [id |-> file[h].inode, pos |-> p, deny |-> d]
                       ELSE Handles[g]]
      <3>1. \A g \in OpenFiles \ {h} : /\ file'[g].inode = file[g].inode
                                       /\ file'[g].deny_write = file[g].deny_write
                                       /\ Position(g)' = Position(g)
        BY <1>4
      <3>2. /\ file'[h].inode = file[h].inode /\ file'[h].deny_write = d
            /\ Position(h)' = p
        BY <1>4
      <3> QED BY <3>1, <3>2 DEF Handles
    <2>4. DOMAIN Handles = OpenFiles /\ Handles = [g \in OpenFiles |-> Handles[g]]
      BY DEF Handles
    <2> QED BY <2>2, <2>3, <2>4
  <1>6. /\ p \in Offset \union (0 .. Len(Content[Handles[h].id])) \union {Handles[h].pos}
        /\ h \in DOMAIN Handles
    <2>1. Handles[h].id = file[h].inode /\ Handles[h].pos = file[h].pos /\ h \in DOMAIN Handles
      BY <1>4 DEF Handles
    <2> QED BY <2>1, FileIs, LengthOf
  <1>7. Store!Adjust(h)
    BY <1>2, <1>3, <1>5, <1>6 DEF Store!Adjust
  <1>8. FilesWritten'
    BY <1>1, DataStaysWritten DEF FilesWritten, IsData
  <1>9. OpWritten'
    BY DEF OpWritten
  <1> QED BY <1>7, <1>8, <1>9 DEF Written

LEMMA SeekRefines ==
  ASSUME IInv, Written, NEW h \in Handle, file_seek(h) \/ file_read(h)
  PROVE  Written' /\ Store!Adjust(h)
  <1>1. /\ op.at = "idle" /\ h \in OpenFiles /\ op' = op /\ disk' = disk /\ inodes' = inodes
    BY DEF file_seek, file_read, OpenFiles
  <1>2. /\ file[h].pos \in Nat /\ inodes[file[h].inode].data.length = disk[file[h].inode].length
        /\ disk[file[h].inode].length \in Nat /\ file[h] \in OpenFile
        /\ file[h].deny_write \in BOOLEAN
    BY <1>1, FileIs DEF OpenFile, InodeExact, IsInode
  <1>3. PICK p \in Nat : /\ p \in Offset \union (0 .. disk[file[h].inode].length) \union {file[h].pos}
                         /\ file' = [file EXCEPT ![h].pos = p]
    BY <1>2, FileSysAssumption DEF file_seek, file_read
  <1>4. Live' = Live /\ OpenFiles' = OpenFiles
    BY <1>1, <1>3, PositionStep
  <1>5. /\ file'[h] = [inode |-> file[h].inode, pos |-> p, deny_write |-> file[h].deny_write]
        /\ \A g \in OpenFiles \ {h} : file'[g] = file[g]
    <2>1. file \in [Handle -> OpenFile \union {NULL}]
      BY DEF IInv, MemoryType
    <2> QED BY <1>2, <1>3, <2>1 DEF OpenFile, OpenFiles
  <1> QED BY <1>1, <1>2, <1>3, <1>4, <1>5, Adjusts

LEMMA DenyRefines ==
  ASSUME IInv, Written, NEW h \in Handle, file_deny_write(h) \/ AllowWrite(h)
  PROVE  Written' /\ Store!Adjust(h)
  <1>1. PICK d \in BOOLEAN : file' = [file EXCEPT ![h].deny_write = d]
    BY DEF file_deny_write, AllowWrite
  <1>2. /\ op.at = "idle" /\ h \in OpenFiles /\ op' = op /\ disk' = disk
    BY DEF file_deny_write, AllowWrite, OpenFiles
  <1>3. file[h].inode \in DOMAIN inodes
    BY <1>2, FileIs
  <1>4. DOMAIN inodes' = DOMAIN inodes
    BY <1>3 DEF file_deny_write, AllowWrite, With
  <1>5. Live' = Live
    BY <1>2, <1>4 DEF Live, Named, InUse, entry
  <1>6. /\ file \in [Handle -> OpenFile \union {NULL}] /\ file[h] \in OpenFile
        /\ file[h].pos \in Nat
    BY <1>2, FileIs DEF IInv, MemoryType, OpenFile
  <1>7. /\ file'[h] = [inode |-> file[h].inode, pos |-> file[h].pos, deny_write |-> d]
        /\ \A g \in Handle \ {h} : file'[g] = file[g]
    BY <1>1, <1>6 DEF OpenFile
  <1>8. file'[h] # NULL
    <2>1. file'[h] \in OpenFile
      BY <1>6, <1>7 DEF OpenFile
    <2> QED BY <2>1, FileSysAssumption DEF OpenFile
  <1>9. OpenFiles' = OpenFiles
    BY <1>2, <1>7, <1>8 DEF OpenFiles
  <1>10. \A g \in OpenFiles \ {h} : file'[g] = file[g]
    BY <1>7 DEF OpenFiles
  <1> QED BY <1>2, <1>5, <1>6, <1>7, <1>9, <1>10, Adjusts

LEMMA OpenRefines ==
  ASSUME IInv, Written, NEW h \in Handle, NEW s \in Live, op.at = "idle", file_open(h, s)
  PROVE  Written' /\ Store!Open(h)
  <1>1. /\ file[h] = NULL
        /\ file' = [file EXCEPT ![h] = [inode |-> s, pos |-> 0, deny_write |-> FALSE]]
        /\ inodes' = With(s, inode_open(s)) /\ disk' = disk /\ op' = op
    BY DEF file_open
  <1>2. FilesKept /\ entry' = entry
    BY <1>1, NoWriteKeeps DEF entry
  <1>3. Dir' = Dir
    BY <1>2 DEF Dir, InUse
  <1>4. Live' = Live
    BY <1>1, <1>2 DEF Live, Named, InUse, With
  <1>5. Content' = Content
    BY <1>2, <1>4, KeptFacts DEF Content
  <1>6. /\ file'[h] = [inode |-> s, pos |-> 0, deny_write |-> FALSE]
        /\ \A g \in Handle \ {h} : file'[g] = file[g]
    BY <1>1 DEF IInv, MemoryType
  <1>7. file'[h] # NULL
    <2>1. file'[h] \in OpenFile
      BY <1>6, LiveFacts DEF OpenFile
    <2> QED BY <2>1, FileSysAssumption DEF OpenFile
  <1>8. OpenFiles' = OpenFiles \union {h} /\ h \notin OpenFiles
    BY <1>1, <1>6, <1>7 DEF OpenFiles
  <1>9. \A g : Position(g) = file[g].pos /\ Position(g)' = file'[g].pos
    BY <1>1 DEF Position
  <1>10. \A g \in OpenFiles : file'[g] = file[g] /\ g # h
    BY <1>6, <1>8 DEF OpenFiles
  <1>11. Handles' = [g \in DOMAIN Handles \union {h} |->
                       IF g = h THEN [id |-> s, pos |-> 0, deny |-> FALSE] ELSE Handles[g]]
    <2>1. \A g \in OpenFiles : /\ file'[g].inode = file[g].inode
                               /\ file'[g].deny_write = file[g].deny_write
                               /\ Position(g)' = Position(g)
      BY <1>9, <1>10
    <2>2. /\ file'[h].inode = s /\ file'[h].deny_write = FALSE
          /\ Position(h)' = 0
      BY <1>6, <1>9
    <2> QED BY <1>8, <2>1, <2>2 DEF Handles
  <1>12. s \in Store!Live /\ h \notin DOMAIN Handles
    BY <1>8, IdsAreLive DEF LiveIds, Handles
  <1>13. Store!Open(h)
    BY <1>3, <1>5, <1>11, <1>12 DEF Store!Open, Store!NewHandle
  <1>14. FilesWritten'
    BY <1>2, <1>4, DataStaysWritten DEF FilesWritten, IsData
  <1>15. OpWritten'
    BY <1>1 DEF OpWritten
  <1> QED BY <1>13, <1>14, <1>15 DEF Written

-----------------------------------------------------------------------------
\* The same facts once the step is done.
LEMMA Afterwards ==
  ASSUME IInv'
  PROVE  Store!Live' = Live' /\ DirFacts'
  <1>1. (IInv => LiveIds)'
    BY IdsAreLive, PTL
  <1>2. (IInv => DirFacts)'
    BY DirIs, PTL
  <1> QED BY <1>1, <1>2 DEF LiveIds

\* A step that only removes files.
LEMMA Keeps ==
  ASSUME IInv, Written, FilesKept, IInv', Live' \subseteq Live
  PROVE  Store!Keep /\ \A s \in Live' : \A w \in DataOf(s)' : IsData(disk'[w])
  <1>1. Content' = [s \in Live' |-> Content[s]]
    BY KeptFacts DEF Content
  <1>2. Store!IdsOf(Dir', Handles') = Live'
    BY Afterwards DEF Store!Live, Store!IdsOf
  <1>3. \A s \in Live' : \A w \in DataOf(s)' : IsData(disk'[w])
    BY DataStaysWritten
  <1> QED BY <1>1, <1>2, <1>3 DEF Store!Keep, Store!Restrict, Store!IdsOf

LEMMA CloseRefines ==
  ASSUME IInv, Written, NEW h \in Handle, file_close(h), IInv'
  PROVE  Written' /\ Store!Close(h)
  <1>1. /\ op.at = "idle" /\ h \in OpenFiles /\ file' = [file EXCEPT ![h] = NULL]
        /\ inode_close(file[h].inode, file_allow_write(h)) /\ disk' = disk
    BY DEF file_close, OpenFiles
  <1>2. file[h].inode \in DOMAIN inodes
    BY <1>1, FileIs
  <1>3. FilesKept /\ entry' = entry
    BY <1>1, NoWriteKeeps DEF entry
  <1>4. DOMAIN inodes' \subseteq DOMAIN inodes /\ op'.at \in {"idle", "release"}
    BY <1>1, <1>2 DEF inode_close, With, Without, Release
  <1>5. Live' \subseteq Live
    BY <1>3, <1>4 DEF Live, Named, InUse
  <1>6. Store!Keep /\ \A s \in Live' : \A w \in DataOf(s)' : IsData(disk'[w])
    BY <1>3, <1>5, Keeps
  <1>7. file'[h] = NULL /\ \A g \in Handle \ {h} : file'[g] = file[g]
    BY <1>1 DEF IInv, MemoryType
  <1>8. OpenFiles' = OpenFiles \ {h}
    BY <1>7 DEF OpenFiles
  <1>9. \A g \in OpenFiles' : g # h /\ g \in OpenFiles /\ file'[g] = file[g]
    BY <1>7, <1>8 DEF OpenFiles
  <1>10. \A g : Position(g) = file[g].pos /\ Position(g)' = file'[g].pos
    BY <1>1, <1>4 DEF Position
  <1>11. Handles' = Store!Restrict(Handles, DOMAIN Handles \ {h})
    <2>1. \A g \in OpenFiles' : /\ file'[g].inode = file[g].inode
                                /\ file'[g].deny_write = file[g].deny_write
                                /\ Position(g)' = Position(g)
      BY <1>9, <1>10
    <2> QED BY <1>8, <2>1 DEF Handles, Store!Restrict
  <1>12. Dir' = Dir /\ h \in DOMAIN Handles
    BY <1>1, <1>3 DEF Dir, InUse, Handles
  <1>13. Store!Close(h)
    BY <1>6, <1>11, <1>12 DEF Store!Close
  <1>14. Written'
    BY <1>4, <1>6 DEF Written, FilesWritten, OpWritten, IsData
  <1> QED BY <1>13, <1>14

LEMMA RemoveRefines ==
  ASSUME IInv, Written, NEW n \in Name, filesys_remove(n), IInv'
  PROVE  Written' /\ Store!Remove(n)
  <1>1. PICK i \in Slot :
          /\ lookup(n, i) /\ disk' = [disk EXCEPT ![ROOT_DIR_DATA].entry[i] = NULL]
          /\ inode_close(entry[i].inode_sector, inode_remove(inode_open(entry[i].inode_sector)))
    BY DEF filesys_remove
  <1>2. /\ op.at = "idle" /\ file' = file /\ free_map' = free_map
        /\ i \in InUse /\ entry[i].name = n /\ entry[i].inode_sector \in Live
    BY <1>1, LiveFacts DEF filesys_remove, lookup
  <1>3. FilesKept /\ \A s \in Live : disk'[s] = disk[s]
    <2>1. FilesKept
      <3>1. disk' = [disk EXCEPT ![3] = [disk[3] EXCEPT !.entry =
                                           [disk[3].entry EXCEPT ![i] = NULL]]]
        BY <1>1, Constants
      <3> QED BY <3>1, OtherWrite, Constants
    <2> QED BY <2>1, KeptFacts
  <1>4. entry' = [entry EXCEPT ![i] = NULL]
    BY <1>1, <1>2, EntryWrite
  <1>5. entry'[i] = NULL /\ \A j \in Slot \ {i} : entry'[j] = entry[j]
    BY <1>4 DEF IInv, DiskType
  <1>6. InUse' = InUse \ {i} /\ \A j \in InUse' : entry'[j] = entry[j] /\ j \in InUse /\ j # i
    BY <1>5 DEF InUse
  <1>7. /\ DOMAIN inodes' \subseteq DOMAIN inodes \union {entry[i].inode_sector}
        /\ op'.at \in {"idle", "release"}
    BY <1>1 DEF inode_close, With, Without, Release
  <1>8. Live' \subseteq Live
    BY <1>2, <1>6, <1>7 DEF Live, Named
  <1>9. Store!Keep /\ \A s \in Live' : \A w \in DataOf(s)' : IsData(disk'[w])
    BY <1>3, <1>8, Keeps
  <1>10. Dir' = Store!Restrict(Dir, DOMAIN Dir \ {n}) /\ n \in DOMAIN Dir
    <2>1. DirFacts /\ DirFacts'
      BY DirIs, Afterwards
    <2>2. \A j \in InUse : entry[j].name = n <=> j = i
      BY <1>2 DEF IInv, Files, NamesAreUnique
    <2>3. DOMAIN Dir' = DOMAIN Dir \ {n} /\ n \in DOMAIN Dir
      BY <1>2, <1>6, <2>1, <2>2 DEF DirFacts
    <2>4. \A m \in DOMAIN Dir' : Dir'[m] = Dir[m]
      BY <1>6, <2>1 DEF DirFacts
    <2>5. Dir' = [m \in DOMAIN Dir' |-> Dir'[m]]
      BY DEF Dir
    <2> QED BY <2>3, <2>4, <2>5 DEF Store!Restrict
  <1>11. /\ OpenFiles' = OpenFiles
         /\ \A g : Position(g) = file[g].pos /\ Position(g)' = file[g].pos
    BY <1>2, <1>7 DEF OpenFiles, Position
  <1>12. Handles' = Handles
    BY <1>2, <1>11 DEF Handles
  <1>13. Store!Remove(n)
    BY <1>9, <1>10, <1>12 DEF Store!Remove
  <1>14. Written'
    BY <1>7, <1>9 DEF Written, FilesWritten, OpWritten, IsData
  <1> QED BY <1>13, <1>14

LEMMA RestartRefines ==
  ASSUME IInv, Written, filesys_init, IInv'
  PROVE  Written' /\ Store!Crash
  <1>1. /\ inodes' = [s \in {} |-> NULL] /\ file' = [h \in Handle |-> NULL]
        /\ op' = [at |-> "idle"] /\ disk' = disk
    BY DEF filesys_init
  <1>2. FilesKept /\ entry' = entry
    BY <1>1, NoWriteKeeps DEF entry
  <1>3. OpenFiles' = {} /\ DOMAIN inodes' = {}
    BY <1>1 DEF OpenFiles
  <1>4. Live' \subseteq Live
    BY <1>2, <1>3 DEF Live, Named, InUse
  <1>5. Store!Keep /\ \A s \in Live' : \A w \in DataOf(s)' : IsData(disk'[w])
    BY <1>2, <1>4, Keeps
  <1>6. Dir' = Dir
    BY <1>2 DEF Dir, InUse
  <1>7. Handles' = <<>>
    BY <1>3 DEF Handles
  <1>8. Store!Crash
    BY <1>5, <1>6, <1>7 DEF Store!Crash
  <1>9. Written'
    BY <1>1, <1>3, <1>5 DEF Written, FilesWritten, OpWritten, IsData
  <1> QED BY <1>8, <1>9

\* dir_add() makes a file of zeros appear.
LEMMA DirAddRefines ==
  ASSUME IInv, Written, dir_add, IInv'
  PROVE  Written' /\ \E n \in Name : Store!Create(n)
  <1> PICK s, n, len : s = op.sector /\ n = op.name /\ len = op.length
    OBVIOUS
  <1> DEFINE e == [name |-> n, inode_sector |-> s]
  <1>1. PICK i \in Slot : FreeSlot(i) /\ disk' = [disk EXCEPT ![ROOT_DIR_DATA].entry[i] = e]
    BY DEF dir_add
  <1>2. /\ op.at = "dir_add" /\ NameIsFree(n) /\ op' = [at |-> "idle"]
        /\ free_map' = free_map /\ inodes' = inodes /\ file' = file
    BY DEF dir_add
  <1>3. /\ n \in Name /\ s \in Sector /\ len \in Length /\ len \in Nat /\ op.start \in Nat
        /\ Pending = {s} \union Sectors(op.start, bytes_to_sectors(len))
        /\ disk[s] = OnDisk(op.start, len)
        /\ \A w \in Sectors(op.start, bytes_to_sectors(len)) : disk[w] = Zeros
    BY <1>2, CreatingFacts DEF IInv, OpType, Creating, Written, OpWritten
  <1>4. s \notin Live /\ s \notin System /\ s \in Pending
    BY <1>3, LiveFacts
  <1>5. i \notin InUse /\ \A j \in InUse : entry[j].name # n
    BY <1>1, <1>2 DEF FreeSlot, NameIsFree, IInv
  <1>6. e \in Entry /\ e # NULL
    BY <1>3, FileSysAssumption DEF Entry
  <1>7. /\ entry' = [entry EXCEPT ![i] = e]
        /\ \A t \in Sector \ System : disk'[t] = disk[t]
    BY <1>1, <1>2, <1>6, EntryWrite
  <1>8. entry'[i] = e /\ \A j \in Slot \ {i} : entry'[j] = entry[j]
    BY <1>7 DEF IInv, DiskType
  <1>9. /\ InUse' = InUse \union {i}
        /\ \A j \in InUse : j # i /\ j \in Slot /\ entry'[j] = entry[j]
    BY <1>5, <1>6, <1>8 DEF InUse
  <1>10. Live' = Live \union {s}
    BY <1>2, <1>8, <1>9 DEF Live, Named
  <1>11. FilesKept
    <2>1. disk' = [disk EXCEPT ![3] = [disk[3] EXCEPT !.entry = [disk[3].entry EXCEPT ![i] = e]]]
      BY <1>1, Constants
    <2> QED BY <2>1, OtherWrite, Constants
  <1>12. /\ disk'[s].start = op.start /\ disk'[s].length = len
         /\ \A w \in Sectors(op.start, bytes_to_sectors(len)) : disk'[w] = Zeros
    <2>1. disk'[s] = OnDisk(op.start, len)
      BY <1>3, <1>4, <1>7
    <2>2. \A w \in Sectors(op.start, bytes_to_sectors(len)) : w \in Sector \ System
      BY <1>3, LiveFacts
    <2> QED BY <1>3, <1>7, <2>1, <2>2 DEF OnDisk
  <1>13. BytesOf(s)' = [k \in 1 .. len |-> Zero]
    <2> DEFINE B == BLOCK_SECTOR_SIZE
    <2>1. \A k \in 1 .. len :
            disk'[op.start + (k - 1) \div B].bytes[(k - 1) % B] = Zero
      <3> TAKE k \in 1 .. len
      <3>1. k - 1 \in Nat /\ k - 1 < len
        BY <1>3
      <3>2. /\ (k - 1) \div B \in Nat /\ (k - 1) \div B < bytes_to_sectors(len)
            /\ bytes_to_sectors(len) \in Nat
        BY <1>3, <3>1, SectorsOf
      <3>3. op.start + (k - 1) \div B \in Sectors(op.start, bytes_to_sectors(len))
        BY <1>3, <3>2 DEF Sectors
      <3>4. (k - 1) % B \in 0 .. B - 1
        BY <3>1, FileSysAssumption
      <3>5. disk'[op.start + (k - 1) \div B] = Zeros
        BY <1>12, <3>3, Zenon
      <3>6. Zeros.bytes = [b \in 0 .. B - 1 |-> Zero]
        BY DEF Zeros, Data
      <3> HIDE DEF B
      <3> QED BY <3>4, <3>5, <3>6
    <2> QED BY <1>12, <2>1 DEF BytesOf
  <1>14. Content' = [t \in Store!Live \union {s} |->
                       IF t = s THEN [k \in 1 .. len |-> Zero] ELSE Content[t]]
    <2>1. Store!Live = Live
      BY IdsAreLive DEF LiveIds
    <2>2. \A t \in Live : BytesOf(t)' = BytesOf(t) /\ t # s
      BY <1>4, <1>11, KeptFacts
    <2> QED BY <1>10, <1>13, <2>1, <2>2 DEF Content
  <1>15. Dir' = [m \in DOMAIN Dir \union {n} |-> IF m = n THEN s ELSE Dir[m]]
    <2>1. DirFacts /\ DirFacts'
      BY DirIs, Afterwards
    <2>2. DOMAIN Dir' = DOMAIN Dir \union {n}
      BY <1>8, <1>9, <2>1 DEF DirFacts
    <2>3. Dir'[n] = s
      BY <1>8, <1>9, <2>1 DEF DirFacts
    <2>4. \A m \in DOMAIN Dir : Dir'[m] = Dir[m] /\ m # n
      BY <1>5, <1>9, <2>1 DEF DirFacts
    <2>5. Dir' = [m \in DOMAIN Dir' |-> Dir'[m]]
      BY DEF Dir
    <2> QED BY <2>2, <2>3, <2>4, <2>5
  <1>16. /\ OpenFiles' = OpenFiles
         /\ \A g : Position(g) = file[g].pos /\ Position(g)' = file[g].pos
    BY <1>2 DEF OpenFiles, Position
  <1>17. Handles' = Handles
    BY <1>2, <1>16 DEF Handles
  <1>18. Store!Create(n)
    <2>1. n \notin DOMAIN Dir /\ s \in Sector \ Store!Live
      BY <1>3, <1>4, <1>5, DirIs, IdsAreLive DEF DirFacts, LiveIds
    <2> QED BY <1>3, <1>14, <1>15, <1>17, <2>1 DEF Store!Create
  <1>19. FilesWritten'
    <2>1. \A t \in Live : \A w \in DataOf(t)' : IsData(disk'[w])
      BY <1>11, DataStaysWritten
    <2>2. \A w \in DataOf(s)' : IsData(disk'[w])
      <3>1. IsData(Zeros)
        BY DEF IsData, Zeros, Data
      <3> QED BY <1>12, <3>1 DEF DataOf
    <2> QED BY <1>10, <2>1, <2>2 DEF FilesWritten, IsData
  <1>20. OpWritten'
    BY <1>2 DEF OpWritten
  <1> QED BY <1>3, <1>18, <1>19, <1>20 DEF Written

\* Where the bytes lie that are written to one sector at a time.
LEMMA Quotient ==
  ASSUME NEW B \in Nat \ {0}, NEW q \in Nat, NEW r \in 0 .. B - 1, NEW n \in Nat, n = B * q + r
  PROVE  n \div B = q /\ n % B = r
  <1>1. n \div B \in Nat /\ n % B \in 0 .. B - 1 /\ n = B * (n \div B) + (n % B)
    OBVIOUS
  <1> DEFINE a == n \div B
             b == n % B
  <1>2. a \in Nat /\ b \in 0 .. B - 1 /\ B * a + b = B * q + r
    BY <1>1
  <1> HIDE DEF a, b
  <1>3. ~ (a < q)
    <2> SUFFICES ASSUME a + 1 <= q PROVE FALSE
      BY <1>2
    <2>1. B * (a + 1) <= B * q
      BY <1>2
    <2>2. B * (a + 1) = B * a + B
      BY <1>2
    <2> QED BY <1>2, <2>1, <2>2
  <1>4. ~ (q < a)
    <2> SUFFICES ASSUME q + 1 <= a PROVE FALSE
      BY <1>2
    <2>1. B * (q + 1) <= B * a
      BY <1>2
    <2>2. B * (q + 1) = B * q + B
      BY <1>2
    <2> QED BY <1>2, <2>1, <2>2
  <1>5. a = q
    BY <1>2, <1>3, <1>4
  <1>6. b = r
    BY <1>2, <1>5
  <1> QED BY <1>5, <1>6 DEF a, b

LEMMA BytePlace ==
  ASSUME NEW B \in Nat \ {0}, NEW p \in Nat, NEW c \in Nat, c <= B - (p % B), NEW k \in Nat
  PROVE  k \in p .. p + c - 1 <=>
           k \div B = p \div B /\ k % B \in (p % B) .. (p % B) + c - 1
  <1> DEFINE q == p \div B
             r == p % B
  <1>1. q \in Nat /\ r \in 0 .. B - 1 /\ p = B * q + r
    OBVIOUS
  <1>2. ASSUME k \in p .. p + c - 1
        PROVE  k \div B = q /\ k % B \in r .. r + c - 1
    <2>1. c <= B - r
      OBVIOUS
    <2> HIDE DEF q, r
    <2>2. B * q \in Nat
      BY <1>1
    <2>3. PICK m : m = k - B * q
      OBVIOUS
    <2>4. m \in 0 .. B - 1 /\ m \in r .. r + c - 1 /\ k = B * q + m
      BY <1>1, <1>2, <2>1, <2>2, <2>3
    <2>5. k \div B = q /\ k % B = m
      <3>1. q \in Nat
        BY <1>1
      <3>2. m \in 0 .. B - 1
        BY <2>4
      <3>3. k = B * q + m
        BY <2>4
      <3> QED BY <3>1, <3>2, <3>3, Quotient
    <2> QED BY <2>4, <2>5
  <1>3. ASSUME k \div B = q, k % B \in r .. r + c - 1
        PROVE  k \in p .. p + c - 1
    <2>1. k = B * (k \div B) + (k % B)
      OBVIOUS
    <2>2. k % B \in Nat /\ B * q \in Nat
      OBVIOUS
    <2>3. k = B * q + (k % B)
      BY <1>3, <2>1
    <2> DEFINE m == k % B
               t == B * q
    <2>4. m \in r .. r + c - 1 /\ k = t + m /\ p = t + r /\ m \in Nat /\ t \in Nat
      BY <1>1, <1>3, <2>2, <2>3
    <2> HIDE DEF m, t, r, q
    <2> QED BY <1>1, <2>4
  <1> QED BY <1>2, <1>3

\* inode_write_at() of bytes that lie within a sector of the file.
LEMMA WriteRefines ==
  ASSUME IInv, Written, inode_write_at
  PROVE  Written' /\ \E h \in Handle : Store!Write(h)
  <1> PICK h, s, pos, v, B : /\ h = op.file /\ s = file[op.file].inode /\ pos = op.offset
                             /\ v = op.byte /\ B = BLOCK_SECTOR_SIZE
    OBVIOUS
  <1> PICK len, start, w, c, ofs : /\ len = disk[s].length /\ start = disk[s].start
                                   /\ w = start + pos \div B
                                   /\ c = chunk_size(inodes[s]) /\ ofs = pos % B
    OBVIOUS
  <1>1. /\ op.at = "write" /\ inodes' = inodes /\ file' = file /\ free_map' = free_map
        /\ op' = [op EXCEPT !.offset = @ + c, !.size = @ - c] /\ c > 0
        /\ v \in Byte /\ Denying(s) = {}
    BY DEF inode_write_at, Written, OpWritten
  <1>2. /\ op = [at |-> "write", file |-> h, byte |-> v, size |-> op.size, offset |-> pos]
        /\ h \in OpenFiles /\ op.size \in Nat /\ pos \in Nat
    BY <1>1 DEF IInv, OpType, Writing
  <1>3. /\ h \in Handle /\ s \in DOMAIN inodes /\ s \in Live /\ IsInode(s)
        /\ inodes[s].data = disk[s] /\ file[h].inode = s
    BY <1>2, FileIs DEF InodeExact
  <1>4. len \in Nat /\ start \in Nat /\ B \in Nat \ {0} /\ ofs \in 0 .. B - 1 /\ s \notin DataOf(s)
    BY <1>2, <1>3, FileSysAssumption DEF IsInode, DataOf
  <1>5. c \in Nat /\ c <= len - pos /\ c <= B - ofs
    <2>1. \A a, b \in Int : Smaller(a, b) \in Int /\ Smaller(a, b) <= a /\ Smaller(a, b) <= b
      BY DEF Smaller
    <2>2. c = Smaller(op.size, Smaller(len - pos, B - ofs))
      BY <1>3 DEF chunk_size
    <2>3. len - pos \in Int /\ B - ofs \in Int
      BY <1>2, <1>4
    <2> QED BY <1>1, <1>2, <2>1, <2>2, <2>3
  <1>6. w \in DataOf(s)
    <2>1. pos + 1 \in 1 .. len /\ (pos + 1) - 1 = pos
      BY <1>1, <1>2, <1>4, <1>5
    <2> QED BY <1>3, <2>1, SectorOfByte
  <1>7. w \in Sector /\ w \notin System /\ w \notin Live /\ IsData(disk[w])
    <2>1. pos < inodes[s].data.length /\ w = byte_to_sector(inodes[s], pos)
      BY <1>1, <1>2, <1>3, <1>4, <1>5 DEF byte_to_sector
    <2>2. w \in Sector /\ w \notin System /\ w \notin Live
      BY <1>2, <1>3, <2>1, WrittenSector
    <2> QED BY <1>3, <1>6, <2>2 DEF Written, FilesWritten
  <1> DEFINE new == [b \in 0 .. B - 1 |-> IF b \in ofs .. ofs + c - 1 THEN v ELSE disk[w].bytes[b]]
  <1>8. disk' = [disk EXCEPT ![w] = Data(new)]
    BY <1>3 DEF inode_write_at, byte_to_sector
  <1> HIDE DEF new
  <1>9. Undisturbed
    BY <1>1, <1>7, <1>8, DataWrite
  <1>10. disk'[w] = Data(new) /\ \A u \in Sector \ {w} : disk'[u] = disk[u]
    <2>1. disk = [u \in Sector |-> disk[u]]
      BY DEF IInv, DiskType
    <2> QED BY <1>7, <1>8, <2>1
  <1>11. Live' = Live /\ OpenFiles' = OpenFiles /\ Dir' = Dir
    BY <1>1, <1>9 DEF Undisturbed, Live, Named, InUse, OpenFiles, Dir
  <1>12. ASSUME NEW t \in Live, t # s
         PROVE  /\ disk'[t] = disk[t] /\ DataOf(t)' = DataOf(t) /\ BytesOf(t)' = BytesOf(t)
                /\ \A u \in DataOf(t) : disk'[u] = disk[u]
    <2>1. w \in Extent(s)
      BY <1>6 DEF Extent, DataOf
    <2>2. \A u \in Extent(t) : u # w /\ u \in Sector
      BY <1>3, <1>12, <2>1, LiveFacts DEF IInv, FreeMapExact
    <2>3. \A u \in Extent(t) : disk'[u] = disk[u]
      BY <1>10, <2>2
    <2> QED BY <2>3, OneKept
  <1>13. disk'[s] = disk[s] /\ DataOf(s)' = DataOf(s)
    <2>1. s \in Sector /\ s # w
      BY <1>3, <1>7, LiveFacts
    <2> QED BY <1>10, <2>1 DEF DataOf
  <1>14. \A u \in DataOf(s) : u \in Sector
    BY <1>3, LiveFacts DEF Extent, DataOf
  <1>15. BytesOf(s)' = [k \in 1 .. len |-> IF k \in pos + 1 .. pos + c THEN v ELSE BytesOf(s)[k]]
    <2> DEFINE at(k) == start + (k - 1) \div B
    <2>1. \A k \in 1 .. len : BytesOf(s)[k] = disk[at(k)].bytes[(k - 1) % B]
      BY DEF BytesOf
    <2>2. BytesOf(s)' = [k \in 1 .. len |-> disk'[at(k)].bytes[(k - 1) % B]]
      BY <1>13 DEF BytesOf
    <2>3. ASSUME NEW k \in 1 .. len
          PROVE  disk'[at(k)].bytes[(k - 1) % B] =
                   IF k \in pos + 1 .. pos + c THEN v ELSE disk[at(k)].bytes[(k - 1) % B]
      <3>1. k - 1 \in Nat /\ (k - 1) % B \in 0 .. B - 1 /\ (k - 1) \div B \in Nat
            /\ pos \div B \in Nat
        BY <1>2, <1>4
      <3>2. k - 1 \in pos .. pos + c - 1 <=>
              (k - 1) \div B = pos \div B /\ (k - 1) % B \in ofs .. ofs + c - 1
        BY <1>2, <1>4, <1>5, <3>1, BytePlace
      <3>3. k \in pos + 1 .. pos + c <=> k - 1 \in pos .. pos + c - 1
        BY <1>2, <1>5
      <3>4. at(k) = w <=> (k - 1) \div B = pos \div B
        <4> DEFINE a == (k - 1) \div B
                   b == pos \div B
        <4>1. a \in Nat /\ b \in Nat /\ w = start + b /\ at(k) = start + a
          BY <3>1
        <4> HIDE DEF a, b, at
        <4>2. at(k) = w <=> a = b
          BY <1>4, <4>1
        <4> QED BY <4>2 DEF a, b
      <3>5. at(k) \in Sector
        BY <1>3, <1>14, SectorOfByte
      <3>6. CASE at(k) = w
        <4>1. disk'[w].bytes = new
          BY <1>10 DEF Data
        <4>2. new[(k - 1) % B] = IF (k - 1) % B \in ofs .. ofs + c - 1 THEN v
                                 ELSE disk[w].bytes[(k - 1) % B]
          BY <3>1 DEF new
        <4> HIDE DEF at
        <4> QED BY <3>2, <3>3, <3>4, <3>6, <4>1, <4>2
      <3>7. CASE at(k) # w
        <4>1. disk'[at(k)] = disk[at(k)] /\ k \notin pos + 1 .. pos + c
          BY <1>10, <3>2, <3>3, <3>4, <3>5, <3>7
        <4> QED BY <4>1
      <3> QED BY <3>6, <3>7
    <2> HIDE DEF at
    <2> QED BY <2>1, <2>2, <2>3
  <1>16. Content' = [Content EXCEPT ![s] = [b \in DOMAIN Content[s] |->
                       IF b \in pos + 1 .. pos + c THEN v ELSE Content[s][b]]]
    <2>1. Content[s] = BytesOf(s) /\ DOMAIN BytesOf(s) = 1 .. len
      BY <1>3 DEF Content, BytesOf
    <2>2. \A t \in Live \ {s} : BytesOf(t)' = BytesOf(t)
      BY <1>12
    <2>3. Content = [t \in Live |-> BytesOf(t)] /\ Content' = [t \in Live |-> BytesOf(t)']
      BY <1>11 DEF Content
    <2> QED BY <1>3, <1>15, <2>1, <2>2, <2>3
  <1>17. op'.at = "write" /\ op'.file = h /\ op'.byte = v /\ op'.offset = pos + c
    BY <1>1, <1>2
  <1>18. /\ Position(h) = pos /\ Position(h)' = pos + c
         /\ \A g \in OpenFiles \ {h} : Position(g) = file[g].pos /\ Position(g)' = file[g].pos
    BY <1>1, <1>2, <1>17 DEF Position
  <1>19. /\ Handles[h].id = s /\ Handles[h].pos = pos /\ h \in DOMAIN Handles
         /\ Handles' = [Handles EXCEPT ![h].pos = pos + c]
    <2>1. Handles[h] = [id |-> s, pos |-> pos, deny |-> file[h].deny_write]
      BY <1>2, <1>3, <1>18 DEF Handles
    <2>2. Handles' = [g \in OpenFiles |->
                        IF g = h THEN [id |-> s, pos |-> pos + c, deny |-> file[h].deny_write]
                        ELSE Handles[g]]
      BY <1>1, <1>3, <1>11, <1>18 DEF Handles
    <2>3. DOMAIN Handles = OpenFiles /\ Handles = [g \in OpenFiles |-> Handles[g]]
      BY DEF Handles
    <2> QED BY <1>2, <2>1, <2>2, <2>3
  <1>20. \A g \in DOMAIN Handles : Handles[g].id = s => ~ Handles[g].deny
    <2>1. \A g \in OpenFiles : file[g].inode = s => ~ file[g].deny_write
      BY <1>1 DEF Denying, FilesOf
    <2>2. \A g \in DOMAIN Handles : /\ g \in OpenFiles /\ Handles[g].id = file[g].inode
                                   /\ Handles[g].deny = file[g].deny_write
      BY DEF Handles
    <2> QED BY <2>1, <2>2
  <1>21. pos + c <= Len(Content[s]) /\ c \in 1 .. Len(Content[s])
    <2>1. Len(Content[s]) = len
      BY <1>3, LengthOf, Zenon
    <2>2. pos + c <= len /\ c \in 1 .. len
      BY <1>1, <1>2, <1>4, <1>5
    <2> QED BY <2>1, <2>2
  <1>22. Store!Write(h)
    <2>1. s = Handles[h].id /\ pos = Handles[h].pos
      BY <1>19
    <2>2. \A g \in DOMAIN Handles : Handles[g].id = Handles[h].id => ~ Handles[g].deny
      BY <1>20, <2>1
    <2>3. Handles[h].pos + c <= Len(Content[Handles[h].id])
      BY <1>21, <2>1, Zenon
    <2>4. Handles' = [Handles EXCEPT ![h].pos = Handles[h].pos + c]
      BY <1>19, <2>1, Zenon
    <2>5. Content' = [Content EXCEPT ![Handles[h].id] = [b \in DOMAIN Content[Handles[h].id] |->
            IF b \in Handles[h].pos + 1 .. Handles[h].pos + c THEN v
            ELSE Content[Handles[h].id][b]]]
      BY <1>16, <2>1, Zenon
    <2>6. Store!WriteSome(h, c, v)
      BY <2>2, <2>3, <2>4, <2>5, Zenon DEF Store!WriteSome
    <2>7. c \in 1 .. Len(Content[Handles[h].id])
      BY <1>21, <2>1, Zenon
    <2> QED BY <1>1, <1>11, <1>19, <2>6, <2>7, Zenon DEF Store!Write
  <1>23. FilesWritten'
    <2>1. IsData(disk'[w])
      <3>1. Data(new) = Data(Data(new).bytes) /\ Data(new).bytes = new
        BY DEF Data
      <3>2. new = [b \in 0 .. BLOCK_SECTOR_SIZE - 1 |-> new[b]]
        BY DEF new
      <3> QED BY <1>10, <3>1, <3>2 DEF IsData
    <2>2. \A t \in Live : \A u \in DataOf(t)' : IsData(disk'[u])
      <3>1. \A u \in DataOf(s)' : IsData(disk'[u])
        <4> TAKE u \in DataOf(s)'
        <4>1. IsData(disk[u]) /\ u \in Sector
          BY <1>3, <1>13, <1>14 DEF Written, FilesWritten
        <4>2. CASE u = w
          BY <2>1, <4>2
        <4>3. CASE u # w
          <5>1. disk'[u] = disk[u]
            BY <1>10, <4>1, <4>3
          <5> QED BY <4>1, <5>1
        <4> QED BY <4>2, <4>3
      <3>2. ASSUME NEW t \in Live, t # s, NEW u \in DataOf(t)' PROVE IsData(disk'[u])
        <4>1. u \in DataOf(t) /\ disk'[u] = disk[u]
          BY <1>12, <3>2
        <4>2. IsData(disk[u])
          BY <4>1 DEF Written, FilesWritten
        <4> QED BY <4>1, <4>2
      <3> QED BY <3>1, <3>2
    <2> QED BY <1>11, <2>2 DEF FilesWritten, IsData
  <1>24. OpWritten'
    <2>1. Denying(s)' = {}
      BY <1>1, <1>11 DEF Denying, FilesOf
    <2> QED BY <1>1, <1>3, <1>17, <2>1 DEF OpWritten
  <1> QED BY <1>3, <1>22, <1>23, <1>24 DEF Written

-----------------------------------------------------------------------------
LEMMA InitRefines == ~ ShortReads /\ Init => Written /\ Store!Init
  <1> SUFFICES ASSUME ~ ShortReads, Init PROVE Written /\ Store!Init
    OBVIOUS
  <1>1. /\ entry = [i \in Slot |-> NULL] /\ inodes = [s \in {} |-> NULL]
        /\ file = [h \in Handle |-> NULL] /\ op = [at |-> "idle"]
    <2>1. disk[ROOT_DIR_DATA] = Directory([i \in Slot |-> NULL])
      BY Constants DEF Init, do_format
    <2> QED BY <2>1 DEF Init, do_format, entry, Directory
  <1>2. InUse = {} /\ OpenFiles = {}
    BY <1>1 DEF InUse, OpenFiles
  <1>3. Live = {}
    BY <1>1, <1>2 DEF Live, Named
  <1>4. Dir = <<>> /\ Content = <<>> /\ Handles = <<>>
    BY <1>2, <1>3 DEF Dir, Content, Handles
  <1>5. Written
    BY <1>1, <1>2, <1>3 DEF Written, FilesWritten, OpWritten
  <1> QED BY <1>4, <1>5 DEF Store!Init

\* Every step is a step of the store or one that callers cannot see.
LEMMA NextStore == IInv /\ IInv' /\ Written /\ [Next]_vars => Written' /\ StoreStep
  <1> SUFFICES ASSUME IInv, IInv', Written, [Next]_vars PROVE Written' /\ StoreStep
    OBVIOUS
  <1> USE DEF StoreStep
  <1>1. ASSUME NEW n \in Name, filesys_remove(n) PROVE Written' /\ StoreStep
    BY <1>1, RemoveRefines DEF Store!Next
  <1>2. ASSUME NEW n \in Name, NEW len \in Length, filesys_create(n, len)
        PROVE  Written' /\ StoreStep
    BY <1>2, CreateUnseen
  <1>3. CASE inode_create
    BY <1>3, InodeCreateUnseen
  <1>4. CASE WriteInode
    BY <1>4, WriteInodeUnseen
  <1>5. CASE ZeroSector
    BY <1>5, ZeroSectorUnseen
  <1>6. CASE dir_add
    BY <1>6, DirAddRefines DEF Store!Next
  <1>7. CASE DirAddFails
    BY <1>7, DirAddFailsUnseen
  <1>8. CASE free_map_release
    BY <1>8, ReleaseUnseen
  <1>9. ASSUME NEW h \in Handle, NEW n \in Name, filesys_open(h, n) PROVE Written' /\ StoreStep
    <2>1. PICK i \in Slot : lookup(n, i) /\ file_open(h, entry[i].inode_sector)
      BY <1>9 DEF filesys_open
    <2>2. entry[i].inode_sector \in Live /\ op.at = "idle"
      BY <1>9, <2>1, LiveFacts DEF lookup, filesys_open
    <2> QED BY <2>1, <2>2, OpenRefines DEF Store!Next
  <1>10. ASSUME NEW h \in Handle, NEW g \in Handle, file_reopen(h, g)
         PROVE  Written' /\ StoreStep
    <2>1. file_open(h, file[g].inode) /\ g \in OpenFiles /\ op.at = "idle"
      BY <1>10 DEF file_reopen, OpenFiles
    <2>2. file[g].inode \in Live
      BY <2>1, FileIs
    <2> QED BY <2>1, <2>2, OpenRefines DEF Store!Next
  <1>11. ASSUME NEW h \in Handle, file_close(h) PROVE Written' /\ StoreStep
    BY <1>11, CloseRefines DEF Store!Next
  <1>12. ASSUME NEW h \in Handle, file_deny_write(h) \/ AllowWrite(h)
         PROVE  Written' /\ StoreStep
    BY <1>12, DenyRefines DEF Store!Next
  <1>13. ASSUME NEW h \in Handle, file_seek(h) \/ file_read(h) PROVE Written' /\ StoreStep
    BY <1>13, SeekRefines DEF Store!Next
  <1>14. ASSUME NEW h \in Handle, NEW v \in Byte, NEW len \in Length, file_write(h, v, len)
         PROVE  Written' /\ StoreStep
    BY <1>14, WriteCallUnseen
  <1>15. CASE inode_write_at
    BY <1>15, WriteRefines DEF Store!Next
  <1>16. CASE WriteEnds
    BY <1>16, WriteEndsUnseen
  <1>17. CASE filesys_init
    BY <1>17, RestartRefines DEF Store!Next
  <1>18. CASE UNCHANGED vars
    <2>1. disk' = disk /\ inodes' = inodes /\ file' = file /\ op' = op
      BY <1>18 DEF vars
    <2>2. FilesKept /\ entry' = entry /\ OpenFiles' = OpenFiles
      BY <2>1, NoWriteKeeps DEF entry, OpenFiles
    <2>3. Live' = Live /\ \A h : Position(h)' = Position(h)
      BY <2>1, <2>2 DEF Live, Named, InUse, Position
    <2>4. FilesWritten' /\ UNCHANGED <<Dir, Content, Handles>>
      BY <2>1, <2>2, <2>3, Unseen
    <2>5. \A s : Denying(s)' = Denying(s)
      BY <2>1, <2>2 DEF Denying, FilesOf
    <2>6. OpWritten'
      BY <2>1, <2>5 DEF Written, OpWritten
    <2> QED BY <2>4, <2>6 DEF Written
  <1> HIDE DEF StoreStep
  <1> QED BY <1>1, <1>2, <1>3, <1>4, <1>5, <1>6, <1>7, <1>8, <1>9, <1>10, <1>11, <1>12, <1>13,
             <1>14, <1>15, <1>16, <1>17, <1>18 DEF Next

\* ImplementsFileStore: the file system is a store of named files, whatever
\* its callers do and whenever the machine stops.
THEOREM Refinement == ~ ShortReads /\ Spec => ImplementsFileStore
  <1>1. ~ ShortReads /\ Init => IInv /\ Written /\ Store!Init
    BY InitIInv, InitRefines
  <1>2. IInv /\ Written /\ [Next]_vars => (IInv /\ Written)' /\ [Store!Next]_(Store!vars)
    BY NextIInv, NextStore DEF StoreStep, Store!vars
  <1> QED BY <1>1, <1>2, PTL DEF Spec, ImplementsFileStore, Store!Spec
=============================================================================
