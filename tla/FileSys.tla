------------------------------ MODULE FileSys ------------------------------
(***************************************************************************)
(* The file system: filesys/filesys.c, directory.c, inode.c, file.c and    *)
(* free-map.c on one block device.  Its callers take turns (main runs one  *)
(* action of the command line at a time and waits for the process that     *)
(* loads a file), but the machine can stop between any two sector writes   *)
(* and start again from the disk, so a step here ends with one write.      *)
(*                                                                         *)
(* The root directory and the free map each fit one data sector.  A call   *)
(* that fails before it has changed anything is not a step.  malloc() may  *)
(* fail at any call; where the code relies on it (see ShortReads) this is  *)
(* a parameter.                                                            *)
(***************************************************************************)
EXTENDS Integers, FiniteSets, Sequences

CONSTANTS
  Name,               \* valid file names
  Handle,             \* struct files that can be open
  NULL,               \* the null pointer
  NSectors,           \* block_size(fs_device)
  DirSize,            \* entries of the root directory, 16 in do_format()
  BLOCK_SECTOR_SIZE,  \* bytes of a sector, 512 in devices/block.h
  Length,             \* initial sizes files are created with
  Offset,             \* the positions file_seek() is called with
  Byte,               \* the byte values that are written
  ShortReads          \* dir_add() can get a short read before the end of file

FREE_MAP_SECTOR == 0
ROOT_DIR_SECTOR == 1
FREE_MAP_DATA == 2     \* where do_format() puts their data
ROOT_DIR_DATA == 3
System == {FREE_MAP_SECTOR, ROOT_DIR_SECTOR, FREE_MAP_DATA, ROOT_DIR_DATA}

Sector == 0 .. NSectors - 1
Slot == 0 .. DirSize - 1
Zero == 0

ASSUME FileSysAssumption ==
  /\ NSectors \in Nat /\ NSectors > 4
  /\ DirSize \in Nat /\ BLOCK_SECTOR_SIZE \in Nat \ {0}
  /\ Length \subseteq Nat /\ Offset \subseteq Nat /\ Byte \subseteq Nat
  /\ NULL \notin Name /\ NULL \notin Handle
  /\ NULL \notin [name : Name, inode_sector : Sector]
  /\ NULL \notin [inode : Sector, pos : Nat, deny_write : BOOLEAN]
  /\ ShortReads \in BOOLEAN

VARIABLES
  disk,      \* what each sector holds
  free_map,  \* the bits that are set in the free map in memory
  inodes,    \* open_inodes: the struct inode of each inode sector that is open
  file,      \* each struct file
  op,        \* the call in progress, with its locals
  lost       \* history: sectors marked used that nothing leads to any more

vars == <<disk, free_map, inodes, file, op, lost>>

\* What a sector can hold.
OnDisk(start, length) == [type |-> "inode", start |-> start, length |-> length]
Data(bytes) == [type |-> "data", bytes |-> bytes]
Zeros == Data([b \in 0 .. BLOCK_SECTOR_SIZE - 1 |-> Zero])
Map(used) == [type |-> "map", used |-> used]
Directory(entry) == [type |-> "dir", entry |-> entry]

bytes_to_sectors(size) == (size + BLOCK_SECTOR_SIZE - 1) \div BLOCK_SECTOR_SIZE

Sectors(start, cnt) == start .. start + cnt - 1

\* filesys_init(true): do_format(), then free_map_open().
do_format ==
  /\ disk = [s \in Sector |->
       CASE s = FREE_MAP_SECTOR -> OnDisk(FREE_MAP_DATA, BLOCK_SECTOR_SIZE)
         [] s = ROOT_DIR_SECTOR -> OnDisk(ROOT_DIR_DATA, BLOCK_SECTOR_SIZE)
         [] s = FREE_MAP_DATA   -> Map(System)
         [] s = ROOT_DIR_DATA   -> Directory([i \in Slot |-> NULL])
         [] OTHER               -> Zeros]
  /\ free_map = System
  /\ inodes = [s \in {} |-> NULL]
  /\ file = [h \in Handle |-> NULL]
  /\ op = [at |-> "idle"]
  /\ lost = {}

entry == disk[ROOT_DIR_DATA].entry
InUse == {i \in Slot : entry[i] # NULL}

(***************************************************************************)
(* The free map.                                                           *)
(***************************************************************************)
\* bitmap_scan_and_flip() finds CNT clear bits at I first.
Fits(i, cnt) == i + cnt <= NSectors /\ Sectors(i, cnt) \cap free_map = {}
bitmap_scan(i, cnt) == Fits(i, cnt) /\ \A j \in 0 .. i - 1 : ~ Fits(j, cnt)

free_map_allocate(i, cnt) ==
  /\ bitmap_scan(i, cnt)
  /\ free_map' = free_map \union Sectors(i, cnt)
  /\ disk' = [disk EXCEPT ![FREE_MAP_DATA] = Map(free_map')]

\* One call of free_map_release(); what bitmap_write() returns is ignored.
free_map_release ==
  /\ op.at = "release"
  /\ LET s == Head(op.todo)
     IN  free_map' = free_map \ Sectors(s.start, s.cnt)
  /\ disk' \in {disk, [disk EXCEPT ![FREE_MAP_DATA] = Map(free_map')]}
  /\ op' = IF Len(op.todo) = 1 THEN [at |-> "idle"]
           ELSE [op EXCEPT !.todo = Tail(@)]
  /\ UNCHANGED <<inodes, file, lost>>

Release(todo) == [at |-> "release", todo |-> todo]

(***************************************************************************)
(* filesys_create(): a sector for the inode, inode_create(), dir_add().    *)
(***************************************************************************)
filesys_create(n, len) ==
  /\ op.at = "idle"
  /\ \E s \in Sector :
       /\ free_map_allocate(s, 1)
       /\ op' = [at |-> "inode_create", name |-> n, length |-> len, sector |-> s]
  /\ UNCHANGED <<inodes, file, lost>>

\* Without a struct inode_disk or enough sectors only the inode's sector is
\* given back.
inode_create ==
  /\ op.at = "inode_create"
  /\ \/ \E s \in Sector :
          /\ free_map_allocate(s, bytes_to_sectors(op.length))
          /\ op' = [at |-> "write_inode", name |-> op.name, length |-> op.length,
                    sector |-> op.sector, start |-> s, i |-> 0]
     \/ /\ op' = Release(<<[start |-> op.sector, cnt |-> 1]>>)
        /\ UNCHANGED <<disk, free_map>>
  /\ UNCHANGED <<inodes, file, lost>>

\* Mutant: a sector that is only partly used is not zeroed.
ZeroesWholeSectors(len) == len \div BLOCK_SECTOR_SIZE

SectorsToZero(len) == bytes_to_sectors(len)

AfterWrite(i) == IF i < SectorsToZero(op.length) THEN "zero" ELSE "dir_add"

WriteInode ==
  /\ op.at = "write_inode"
  /\ disk' = [disk EXCEPT ![op.sector] = OnDisk(op.start, op.length)]
  /\ op' = [op EXCEPT !.at = AfterWrite(0)]
  /\ UNCHANGED <<free_map, inodes, file, lost>>

ZeroSector ==
  /\ op.at = "zero"
  /\ disk' = [disk EXCEPT ![op.start + op.i] = Zeros]
  /\ op' = [op EXCEPT !.i = @ + 1, !.at = AfterWrite(op.i + 1)]
  /\ UNCHANGED <<free_map, inodes, file, lost>>

lookup(n, i) ==
  /\ i \in InUse /\ entry[i].name = n
  /\ \A j \in InUse : j < i => entry[j].name # n

\* Where the search of dir_add() can stop: at the first free slot, or at a
\* slot that it could not read.
FreeSlot(i) ==
  /\ ShortReads \/ i \notin InUse
  /\ \A j \in Slot : j < i => j \in InUse

NameIsFree(n) == ShortReads \/ \A i \in InUse : entry[i].name # n

dir_add ==
  /\ op.at = "dir_add"
  /\ NameIsFree(op.name)
  /\ \E i \in Slot :
       /\ FreeSlot(i)
       /\ disk' = [disk EXCEPT ![ROOT_DIR_DATA].entry[i] =
                     [name |-> op.name, inode_sector |-> op.sector]]
  /\ op' = [at |-> "idle"]
  /\ UNCHANGED <<free_map, inodes, file, lost>>

\* The name is in use, the directory is full or memory is short: the inode's
\* sector is given back, the data sectors are not.
DirAddFails ==
  /\ op.at = "dir_add"
  /\ lost' = lost \union Sectors(op.start, bytes_to_sectors(op.length))
  /\ op' = Release(<<[start |-> op.sector, cnt |-> 1]>>)
  /\ UNCHANGED <<disk, free_map, inodes, file>>

(***************************************************************************)
(* Inodes in memory, and the files open on them.                           *)
(***************************************************************************)
With(s, inode) ==
  [t \in DOMAIN inodes \union {s} |-> IF t = s THEN inode ELSE inodes[t]]
Without(s) == [t \in DOMAIN inodes \ {s} |-> inodes[t]]

\* inode_open() returns the struct inode of S that is open, or a new one.
inode_open(s) ==
  IF s \in DOMAIN inodes
  THEN [inodes[s] EXCEPT !.open_cnt = @ + 1]
  ELSE [open_cnt |-> 1, removed |-> FALSE, deny_write_cnt |-> 0, data |-> disk[s]]

\* Mutant: the blocks of a file are freed whenever it is closed.
FreesAlways(inode) == TRUE

Deallocates(inode) == inode.removed

\* Mutant: only the inode's sector is freed.
InodeOnly(s, inode) == <<[start |-> s, cnt |-> 1]>>

BlocksOf(s, inode) ==
  <<[start |-> s, cnt |-> 1],
    [start |-> inode.data.start, cnt |-> bytes_to_sectors(inode.data.length)]>>

\* inode_close() of the struct inode INODE of sector S.
inode_close(s, inode) ==
  \/ /\ inode.open_cnt > 1
     /\ inodes' = With(s, [inode EXCEPT !.open_cnt = @ - 1])
     /\ op' = [at |-> "idle"]
  \/ /\ inode.open_cnt = 1
     /\ inodes' = Without(s)
     /\ op' = IF Deallocates(inode) THEN Release(BlocksOf(s, inode)) ELSE [at |-> "idle"]

\* file_open() of an inode that was opened for it.
file_open(h, s) ==
  /\ file[h] = NULL
  /\ file' = [file EXCEPT ![h] = [inode |-> s, pos |-> 0, deny_write |-> FALSE]]
  /\ inodes' = With(s, inode_open(s))
  /\ UNCHANGED <<disk, free_map, op, lost>>

filesys_open(h, n) ==
  /\ op.at = "idle"
  /\ \E i \in Slot : lookup(n, i) /\ file_open(h, entry[i].inode_sector)

file_reopen(h, g) ==
  /\ op.at = "idle"
  /\ file[g] # NULL
  /\ file_open(h, file[g].inode)

\* Mutant: the inode is not marked.
NotMarked(inode) == inode

inode_remove(inode) == [inode EXCEPT !.removed = TRUE]

\* dir_remove() opens the inode, erases the entry, marks and closes the inode.
filesys_remove(n) ==
  /\ op.at = "idle"
  /\ \E i \in Slot :
       /\ lookup(n, i)
       /\ disk' = [disk EXCEPT ![ROOT_DIR_DATA].entry[i] = NULL]
       /\ LET s == entry[i].inode_sector
          IN  inode_close(s, inode_remove(inode_open(s)))
  /\ UNCHANGED <<free_map, file, lost>>

\* The inode of H after inode_allow_write(), if H denied writes.
file_allow_write(h) ==
  LET inode == inodes[file[h].inode]
  IN  IF file[h].deny_write THEN [inode EXCEPT !.deny_write_cnt = @ - 1] ELSE inode

file_close(h) ==
  /\ op.at = "idle"
  /\ file[h] # NULL
  /\ file' = [file EXCEPT ![h] = NULL]
  /\ inode_close(file[h].inode, file_allow_write(h))
  /\ UNCHANGED <<disk, free_map, lost>>

file_deny_write(h) ==
  /\ op.at = "idle"
  /\ file[h] # NULL /\ ~ file[h].deny_write
  /\ file' = [file EXCEPT ![h].deny_write = TRUE]
  /\ inodes' = [inodes EXCEPT ![file[h].inode].deny_write_cnt = @ + 1]
  /\ UNCHANGED <<disk, free_map, op, lost>>

AllowWrite(h) ==
  /\ op.at = "idle"
  /\ file[h] # NULL /\ file[h].deny_write
  /\ file' = [file EXCEPT ![h].deny_write = FALSE]
  /\ inodes' = With(file[h].inode, file_allow_write(h))
  /\ UNCHANGED <<disk, free_map, op, lost>>

\* file_seek() to any position, in the file or behind its end.
file_seek(h) ==
  /\ op.at = "idle"
  /\ file[h] # NULL
  /\ \E p \in Offset :
       file' = [file EXCEPT ![h].pos = p]
  /\ UNCHANGED <<disk, free_map, inodes, op, lost>>

\* file_read() moves on by what inode_read_at() returns: up to the end of the
\* file, or less when there is no bounce buffer; nothing is behind the end.
file_read(h) ==
  /\ op.at = "idle"
  /\ file[h] # NULL
  /\ \E p \in {file[h].pos} \union (file[h].pos .. inodes[file[h].inode].data.length) :
       file' = [file EXCEPT ![h].pos = p]
  /\ UNCHANGED <<disk, free_map, inodes, op, lost>>

(***************************************************************************)
(* file_write(): SIZE bytes V at the file's position, one sector at a      *)
(* time, up to the end of the file or until no bounce buffer is left; none *)
(* when the position is behind the end.                                    *)
(***************************************************************************)
file_write(h, v, size) ==
  /\ op.at = "idle"
  /\ file[h] # NULL
  /\ inodes[file[h].inode].deny_write_cnt = 0
  /\ op' = [at |-> "write", file |-> h, byte |-> v, size |-> size, offset |-> file[h].pos]
  /\ UNCHANGED <<disk, free_map, inodes, file, lost>>

byte_to_sector(inode, pos) == inode.data.start + pos \div BLOCK_SECTOR_SIZE

Smaller(a, b) == IF a < b THEN a ELSE b

chunk_size(inode) ==
  Smaller(op.size, Smaller(inode.data.length - op.offset,
                           BLOCK_SECTOR_SIZE - (op.offset % BLOCK_SECTOR_SIZE)))

inode_write_at ==
  /\ op.at = "write"
  /\ LET inode == inodes[file[op.file].inode]
         chunk == chunk_size(inode)
         ofs == op.offset % BLOCK_SECTOR_SIZE
     IN  /\ chunk > 0
         /\ disk' = [disk EXCEPT ![byte_to_sector(inode, op.offset)] =
              Data([b \in 0 .. BLOCK_SECTOR_SIZE - 1 |->
                      IF b \in ofs .. ofs + chunk - 1 THEN op.byte ELSE @.bytes[b]])]
         /\ op' = [op EXCEPT !.offset = @ + chunk, !.size = @ - chunk]
  /\ UNCHANGED <<free_map, inodes, file, lost>>

WriteEnds ==
  /\ op.at = "write"
  /\ file' = [file EXCEPT ![op.file].pos = op.offset]
  /\ op' = [at |-> "idle"]
  /\ UNCHANGED <<disk, free_map, inodes, lost>>

(***************************************************************************)
(* The machine stops and filesys_init(false) starts from the disk.         *)
(***************************************************************************)
Extent(s) == {s} \union Sectors(disk[s].start, bytes_to_sectors(disk[s].length))
Reachable == System \union UNION {Extent(entry[i].inode_sector) : i \in InUse}

filesys_init ==
  /\ free_map' = disk[FREE_MAP_DATA].used
  /\ inodes' = [s \in {} |-> NULL]
  /\ file' = [h \in Handle |-> NULL]
  /\ op' = [at |-> "idle"]
  /\ lost' = disk[FREE_MAP_DATA].used \ Reachable
  /\ UNCHANGED disk

Init == do_format

Next ==
  \/ \E n \in Name : filesys_remove(n) \/ \E len \in Length : filesys_create(n, len)
  \/ inode_create \/ WriteInode \/ ZeroSector \/ dir_add \/ DirAddFails
  \/ free_map_release
  \/ \E h \in Handle :
       \/ \E n \in Name : filesys_open(h, n)
       \/ \E g \in Handle : file_reopen(h, g)
       \/ file_close(h) \/ file_deny_write(h) \/ AllowWrite(h) \/ file_seek(h) \/ file_read(h)
       \/ \E v \in Byte, len \in Length \ {0} : file_write(h, v, len)
  \/ inode_write_at \/ WriteEnds
  \/ filesys_init

Spec == Init /\ [][Next]_vars
-----------------------------------------------------------------------------
OpenFiles == {h \in Handle : file[h] # NULL}
Named == {entry[i].inode_sector : i \in InUse}

\* The inode sectors of the files that have a name or are open.
Live == Named \union DOMAIN inodes

\* The sectors the call in progress has taken or has still to give back.
Pending ==
  CASE op.at = "inode_create" -> {op.sector}
    [] op.at \in {"write_inode", "zero", "dir_add"} ->
         {op.sector} \union Sectors(op.start, bytes_to_sectors(op.length))
    [] op.at = "release" ->
         UNION {Sectors(op.todo[k].start, op.todo[k].cnt) : k \in DOMAIN op.todo}
    [] OTHER -> {}

\* At every moment the machine can stop, the disk alone is sound: each entry
\* leads to an inode, and the sectors of the files lie on the device, are
\* marked in the free map on disk and belong to one file only.
DiskIsSound ==
  \A i \in InUse :
    LET s == entry[i].inode_sector
    IN  /\ disk[s].type = "inode"
        /\ Extent(s) \subseteq disk[FREE_MAP_DATA].used \ System
        /\ Extent(s) \subseteq Sector
        /\ \A j \in InUse \ {i} : Extent(s) \cap Extent(entry[j].inode_sector) = {}

\* The free map in memory marks exactly the system's sectors, those of files
\* with a name or open, those of the call in progress and those that are
\* lost, and no sector is two of these.
FreeMapExact ==
  /\ free_map = System \union lost \union Pending \union UNION {Extent(s) : s \in Live}
  /\ System \cap (lost \union Pending) = {} /\ lost \cap Pending = {}
  /\ \A s \in Live :
       /\ Extent(s) \cap (System \union lost \union Pending) = {}
       /\ \A t \in Live \ {s} : Extent(s) \cap Extent(t) = {}

\* The assertions of inode_deny_write() and inode_allow_write() hold, the
\* counts are those of the open files, and a struct inode is marked removed
\* exactly when no name is left for it.
OpenCountsExact ==
  /\ \A h \in OpenFiles : file[h].inode \in DOMAIN inodes
  /\ \A s \in DOMAIN inodes :
       LET fs == {h \in OpenFiles : file[h].inode = s}
       IN  /\ inodes[s].open_cnt = Cardinality(fs)
           /\ inodes[s].deny_write_cnt = Cardinality({h \in fs : file[h].deny_write})
           /\ inodes[s].open_cnt > 0
           /\ inodes[s].removed <=> s \notin Named
           /\ inodes[s].data = disk[s]

\* The bytes of the file with inode sector S, as inode_read_at() finds them.
BytesOf(s) ==
  [k \in 1 .. disk[s].length |->
     disk[disk[s].start + (k - 1) \div BLOCK_SECTOR_SIZE].bytes[(k - 1) % BLOCK_SECTOR_SIZE]]

\* The names in use with their inodes, the bytes of each file, and the
\* handles, as the callers of the file system see them.
Dir ==
  [n \in {entry[i].name : i \in InUse} |->
     entry[CHOOSE i \in InUse : entry[i].name = n].inode_sector]
Content == [s \in Live |-> BytesOf(s)]
Position(h) == IF op.at = "write" /\ op.file = h THEN op.offset ELSE file[h].pos
Handles ==
  [h \in OpenFiles |->
     [id |-> file[h].inode, pos |-> Position(h), deny |-> file[h].deny_write]]

\* The file system implements the abstract store of files: names appear and
\* disappear at once, new files are zeros whatever their sectors held, bytes
\* change only by writes that nobody denies, and a crash keeps named files.
Store ==
  INSTANCE FileStore WITH Id <- Sector, dir <- Dir, content <- Content, handle <- Handles
ImplementsFileStore == Store!Spec

\* directory.c: "inode_read_at() will only return a short read at end of
\* file", so that a name is given once and no entry is overwritten.
NamesAreUnique == \A i, j \in InUse : entry[i].name = entry[j].name => i = j
=============================================================================
