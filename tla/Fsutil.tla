------------------------------- MODULE Fsutil -------------------------------
(***************************************************************************)
(* What a boot does for its command line: parse_options() and              *)
(* run_actions() of threads/init.c, and the actions of filesys/fsutil.c,   *)
(* which take files in from an archive on the scratch device and put files *)
(* out to one, sector by sector.  One thread does all of it; the power may *)
(* fail between two sectors.  Files are as FileStore promises them, and a  *)
(* sector that holds a header is a record of what Ustar reads in it.       *)
(***************************************************************************)
EXTENDS Integers, Sequences, Functions

CONSTANTS
  CommandLine,        \* the command lines a boot may be given
  Scratch,            \* what the host may have put on the scratch device
  Files,              \* what the file system may hold at first
  BLOCK_SECTOR_SIZE,
  Zero, Magic,        \* the byte 0, and one that only headers have
  UNKNOWN,            \* no archive can be told
  MaxBoots            \* bound on boots

VARIABLES
  argv,            \* words of the command line not yet taken
  pc,              \* where the boot is
  format_filesys, scheduler_flags, shutdown_type,
  files,           \* name -> bytes
  scratch,         \* sectors, from 0
  extract_sector,  \* the static variables of fsutil_extract() and
  append_sector,   \*   of fsutil_append()
  first,           \* where the extraction under way began
  file, todo,      \* the file that is copied, and how many bytes are left
  archive,         \* the entries that the scratch device is meant to hold
  out,             \* the files that this boot has appended
  boots            \* number of boots

optionVars == <<format_filesys, scheduler_flags, shutdown_type>>
copyVars == <<first, file, todo>>
vars == <<argv, pc, optionVars, files, scratch, extract_sector, append_sector, copyVars,
          archive, out, boots>>

\* A sector is its bytes, and what ustar_parse_header() makes of them.
DataSector(bytes) == [type |-> "error", name |-> "", size |-> 0, bytes |-> bytes]
ZeroSector ==
  [type |-> "eof", name |-> "", size |-> 0, bytes |-> [i \in 1 .. BLOCK_SECTOR_SIZE |-> Zero]]
ustar_header(type, n, size) ==
  [type |-> type, name |-> n, size |-> size, bytes |-> [i \in 1 .. BLOCK_SECTOR_SIZE |-> Magic]]

Put(f, x, y) == [z \in DOMAIN f \union {x} |-> IF z = x THEN y ELSE f[z]]
OnScratch(sector) == sector \in DOMAIN scratch

\* The kernel starts with its static variables as the image has them.
Started(line) ==
  /\ argv' = line
  /\ pc' = "options"
  /\ format_filesys' = FALSE /\ scheduler_flags' = {} /\ shutdown_type' = "none"
  /\ extract_sector' = 0 /\ append_sector' = 0
  /\ first' = 0 /\ file' = "" /\ todo' = 0
  /\ out' = <<>>

Init ==
  /\ pc = "off" /\ argv = <<>>
  /\ format_filesys = FALSE /\ scheduler_flags = {} /\ shutdown_type = "none"
  /\ extract_sector = 0 /\ append_sector = 0
  /\ first = 0 /\ file = "" /\ todo = 0
  /\ out = <<>>
  /\ boots = 0
  /\ files \in Files
  /\ \E s \in Scratch : scratch = s.sectors /\ archive = s.entries

\* The machine is switched on, also after a panic or in the middle of an action,
\* which a failed malloc() or a failed call of the file system ends as well.
Boot ==
  /\ boots < MaxBoots
  /\ boots' = boots + 1
  /\ \E line \in CommandLine : Started(line)
  /\ UNCHANGED <<files, scratch, archive>>

PANIC ==
  /\ pc' = "off"
  /\ UNCHANGED <<argv, optionVars, files, scratch, extract_sector, append_sector, copyVars,
                 archive, out, boots>>
-----------------------------------------------------------------------------
(***************************************************************************)
(* parse_options().                                                        *)
(***************************************************************************)
Schedulers == {"-sched=fifo", "-sched=prio", "-sched=fair", "-sched=mlfqs"}
KnownOptions ==
  {"-q", "-r", "-f", "-filesys", "-scratch", "-rs", "-ul"} \union Schedulers
IsOption(word) == word \in KnownOptions \union {"-h", "-bad"}

OneOption ==
  /\ pc = "options" /\ argv # <<>> /\ Head(argv) \in KnownOptions
  /\ argv' = Tail(argv)
  /\ format_filesys' = (format_filesys \/ Head(argv) = "-f")
  /\ shutdown_type' = CASE Head(argv) = "-q" -> "power_off"
                        [] Head(argv) = "-r" -> "reboot"
                        [] OTHER -> shutdown_type
  /\ scheduler_flags' = scheduler_flags \union (Schedulers \intersect {Head(argv)})
  /\ UNCHANGED <<pc, files, scratch, extract_sector, append_sector, copyVars, archive, out, boots>>

\* An option nobody knows panics, -h shows its help and powers off; so do two
\* schedulers when the options end.
BadOptions ==
  /\ pc = "options"
  /\ IF argv # <<>> /\ IsOption(Head(argv)) THEN Head(argv) \notin KnownOptions
     ELSE \E s, t \in scheduler_flags : s # t
  /\ PANIC

\* The one scheduler, or the default, is chosen, and filesys_init() formats the
\* file system if it is told to.
OptionsEnd ==
  /\ pc = "options"
  /\ argv # <<>> => ~ IsOption(Head(argv))
  /\ \A s, t \in scheduler_flags : s = t
  /\ files' = IF format_filesys THEN <<>> ELSE files
  /\ pc' = "actions"
  /\ UNCHANGED <<argv, optionVars, scratch, extract_sector, append_sector, copyVars,
                 archive, out, boots>>
-----------------------------------------------------------------------------
(***************************************************************************)
(* run_actions().                                                          *)
(***************************************************************************)
\* The table of actions: how many words each takes.
actions == [a \in {"run", "rukt", "ls", "cat", "rm", "extract", "append"} |->
              IF a \in {"ls", "extract"} THEN 1 ELSE 2]

\* The next action is a, with its arguments.
Invokes(a) ==
  /\ pc = "actions" /\ argv # <<>> /\ Head(argv) = a
  /\ Len(argv) >= actions[a]

Advance == argv' = SubSeq(argv, actions[Head(argv)] + 1, Len(argv))

BadAction ==
  /\ pc = "actions" /\ argv # <<>>
  /\ Head(argv) \in DOMAIN actions => Len(argv) < actions[Head(argv)]
  /\ PANIC

\* shutdown() after the last action.
Shutdown == pc = "actions" /\ argv = <<>> /\ PANIC

\* fsutil_ls() and fsutil_cat() leave the files and the scratch device as they
\* are, and so do run_task() and its relatives: exit is the only system call.
Look(a) ==
  /\ a \in {"run", "rukt", "ls", "cat"} /\ Invokes(a)
  /\ a = "cat" => argv[2] \in DOMAIN files
  /\ Advance
  /\ UNCHANGED <<pc, optionVars, files, scratch, extract_sector, append_sector, copyVars,
                 archive, out, boots>>

fsutil_rm ==
  /\ Invokes("rm")
  /\ argv[2] \in DOMAIN files
  /\ files' = Restrict(files, DOMAIN files \ {argv[2]})
  /\ Advance
  /\ UNCHANGED <<pc, optionVars, scratch, extract_sector, append_sector, copyVars,
                 archive, out, boots>>

\* filesys_open() or filesys_remove() finds no such file.
NoSuchFile ==
  /\ \E a \in {"cat", "rm", "append"} : Invokes(a)
  /\ argv[2] \notin DOMAIN files
  /\ PANIC
-----------------------------------------------------------------------------
(***************************************************************************)
(* fsutil_extract().                                                       *)
(***************************************************************************)
ExtractBegins ==
  /\ Invokes("extract")
  /\ first' = extract_sector
  /\ pc' = "header"
  /\ UNCHANGED <<argv, optionVars, files, scratch, extract_sector, append_sector, file, todo,
                 archive, out, boots>>

\* A header: the end of the archive, a directory, or a file, which is created
\* full of zeros and opened.
ExtractHeader ==
  /\ pc = "header" /\ OnScratch(extract_sector)
  /\ extract_sector' = extract_sector + 1
  /\ LET s == scratch[extract_sector]
     IN \/ /\ s.type = "eof"
           /\ pc' = "erase"
           /\ UNCHANGED <<files, copyVars>>
        \/ /\ s.type = "directory"
           /\ UNCHANGED <<pc, files, copyVars>>
        \/ /\ s.type = "regular" /\ s.name \notin DOMAIN files
           /\ files' = Put(files, s.name, [i \in 1 .. s.size |-> Zero])
           /\ file' = s.name /\ todo' = s.size /\ UNCHANGED first
           /\ pc' = "copy_in"
  /\ UNCHANGED <<argv, optionVars, scratch, append_sector, archive, out, boots>>

\* A sector that is no header, a name that is taken, or no room for the file.
ExtractFails ==
  /\ pc = "header"
  /\ OnScratch(extract_sector) => scratch[extract_sector].type \in {"error", "regular"}
  /\ PANIC

ChunkSize(size) == IF size > BLOCK_SECTOR_SIZE THEN BLOCK_SECTOR_SIZE ELSE size

CopyIn ==
  /\ pc = "copy_in" /\ todo > 0 /\ OnScratch(extract_sector)
  /\ LET pos == Len(files[file]) - todo
         n == ChunkSize(todo)
     IN /\ files' = [files EXCEPT ![file] =
                       [i \in DOMAIN @ |-> IF i \in pos + 1 .. pos + n
                                           THEN scratch[extract_sector].bytes[i - pos] ELSE @[i]]]
        /\ todo' = todo - n
  /\ extract_sector' = extract_sector + 1
  /\ UNCHANGED <<argv, pc, optionVars, scratch, append_sector, first, file, archive, out, boots>>

CopiedIn ==
  /\ pc = "copy_in"
  /\ IF todo = 0 THEN pc' = "header" ELSE ~ OnScratch(extract_sector) /\ pc' = "off"
  /\ UNCHANGED <<argv, optionVars, files, scratch, extract_sector, append_sector, copyVars,
                 archive, out, boots>>

\* Sector 0 is cleared, then sector 1.
Erase ==
  \/ /\ pc = "erase"
     /\ scratch' = [scratch EXCEPT ![0] = ZeroSector]
     /\ archive' = <<>>
     /\ pc' = "erase_next"
     /\ UNCHANGED <<argv, optionVars, files, extract_sector, append_sector, copyVars, out, boots>>
  \/ /\ pc = "erase_next"
     /\ scratch' = [scratch EXCEPT ![1] = ZeroSector]
     /\ pc' = "actions"
     /\ Advance
     /\ UNCHANGED <<optionVars, files, extract_sector, append_sector, copyVars, archive, out, boots>>
-----------------------------------------------------------------------------
(***************************************************************************)
(* fsutil_append().                                                        *)
(***************************************************************************)
\* block_write(), which panics behind the end of the device.
Write(sector, s) == OnScratch(sector) /\ scratch' = [scratch EXCEPT ![sector] = s]

\* Whether the start of this boot's archive has been erased by fsutil_extract(),
\* so that what is appended now cannot be found.
Hidden == append_sector # 0 /\ archive = <<>>

AppendHeader ==
  /\ Invokes("append") /\ argv[2] \in DOMAIN files
  /\ file' = argv[2] /\ todo' = Len(files[argv[2]])
  /\ Write(append_sector, ustar_header("regular", argv[2], Len(files[argv[2]])))
  /\ append_sector' = append_sector + 1
  /\ archive' = IF Hidden THEN archive ELSE UNKNOWN
  /\ pc' = "copy_out"
  /\ UNCHANGED <<argv, optionVars, files, extract_sector, first, out, boots>>

CopyOut ==
  /\ pc = "copy_out" /\ todo > 0
  /\ LET pos == Len(files[file]) - todo
         n == ChunkSize(todo)
         bytes == [i \in 1 .. BLOCK_SECTOR_SIZE |->
                     IF i <= n THEN files[file][pos + i] ELSE Zero]
     IN /\ Write(append_sector, DataSector(bytes))
        /\ todo' = todo - n
  /\ append_sector' = append_sector + 1
  /\ UNCHANGED <<argv, pc, optionVars, files, extract_sector, first, file, archive, out, boots>>

\* Mutant: the position advances past the marker.
EndPassed == append_sector' = append_sector + 2

\* Don't advance our position past the end-of-archive marker.
StayAtEnd == UNCHANGED append_sector

\* The two sectors of zeros that end an archive.
AppendEnd ==
  \/ /\ pc = "copy_out" /\ todo = 0
     /\ Write(append_sector, ZeroSector)
     /\ pc' = "end"
     /\ UNCHANGED <<argv, optionVars, files, extract_sector, append_sector, copyVars,
                    archive, out, boots>>
  \/ /\ pc = "end"
     /\ Write(append_sector + 1, ZeroSector)
     /\ StayAtEnd
     /\ out' = Append(out, [name |-> file, bytes |-> files[file]])
     /\ archive' = IF archive = UNKNOWN THEN out' ELSE archive
     /\ pc' = "actions"
     /\ Advance
     /\ UNCHANGED <<optionVars, files, extract_sector, copyVars, boots>>

\* No room on the scratch device.
AppendFails ==
  /\ \/ Invokes("append") /\ argv[2] \in DOMAIN files /\ ~ OnScratch(append_sector)
     \/ pc = "copy_out" /\ ~ OnScratch(append_sector)
     \/ pc = "end" /\ ~ OnScratch(append_sector + 1)
  /\ PANIC
-----------------------------------------------------------------------------
\* Nothing more is switched on.
Rest == pc = "off" /\ boots = MaxBoots /\ UNCHANGED vars

Next ==
  \/ Boot \/ OneOption \/ BadOptions \/ OptionsEnd
  \/ BadAction \/ Shutdown \/ (\E a \in DOMAIN actions : Look(a)) \/ fsutil_rm \/ NoSuchFile
  \/ ExtractBegins \/ ExtractHeader \/ ExtractFails \/ CopyIn \/ CopiedIn \/ Erase
  \/ AppendHeader \/ CopyOut \/ AppendEnd \/ AppendFails
  \/ Rest

Spec == Init /\ [][Next]_vars
-----------------------------------------------------------------------------
\* The regular files that a reader finds on the scratch device from a sector on,
\* UNKNOWN if there is no archive.
RECURSIVE EntriesFrom(_)
EntriesFrom(sector) ==
  IF ~ OnScratch(sector) THEN UNKNOWN
  ELSE LET s == scratch[sector]
           n == (s.size + BLOCK_SECTOR_SIZE - 1) \div BLOCK_SECTOR_SIZE
           Bytes == [i \in 1 .. s.size |->
                       scratch[sector + 1 + (i - 1) \div BLOCK_SECTOR_SIZE]
                         .bytes[1 + ((i - 1) % BLOCK_SECTOR_SIZE)]]
       IN IF s.type = "eof" THEN <<>>
          ELSE IF s.type = "error" THEN UNKNOWN
          ELSE IF s.type = "directory" THEN EntriesFrom(sector + 1)
          ELSE LET rest == EntriesFrom(sector + 1 + n)
               IN IF rest = UNKNOWN THEN UNKNOWN
                  ELSE <<[name |-> s.name, bytes |-> Bytes]>> \o rest

\* fsutil_append() leaves an archive of exactly the files that were appended,
\* in order, whatever was on the device; a failure of the power before
\* fsutil_extract() is done with an archive keeps it whole; and afterwards
\* there is no archive left, so that another boot extracts nothing.
ArchiveIsExact == archive # UNKNOWN => EntriesFrom(0) = archive

\* Once the first fsutil_extract() of a boot has read the archive the files are
\* those that were appended to it, by whatever boot.
FilesComeOut ==
  pc = "erase" /\ archive # UNKNOWN /\ first = 0 =>
    \A i \in DOMAIN archive :
      archive[i].name \in DOMAIN files /\ files[archive[i].name] = archive[i].bytes
=============================================================================
