----------------------------- MODULE MCLibrary ------------------------------
(***************************************************************************)
(* The library code and what is near it.  A behaviour uses the lists of    *)
(* KernelLists, or the table of HashTable, or boots for the actions of     *)
(* Fsutil, or counts the words of files, or calls functions that keep no   *)
(* state: such a call is a record of its arguments, and the invariants     *)
(* compare what the function does with them to what it promises.  It may   *)
(* also be a behaviour of MCInterrupt, of the CPU or of the console.       *)
(***************************************************************************)
EXTENDS Printf, Ustar, MCInterrupt

CONSTANTS
  Elem, List, MinBuckets, MaxBuckets, BEST_ELEMS_PER_BUCKET,
  MaxArray,     \* longest array to sort
  MaxString,    \* longest string to search or copy
  MemSize,      \* bytes of memory that memmove() works in
  n_max,        \* size of the tokenizer's buffer
  ROW_CNT, COL_CNT, TAB, MaxTyped,  \* the display, and the longest text for it
  TIMER_FREQ, Thousand, FirstLoops, UINT, MaxSpeed,   \* see Timer
  BLOCK_SECTOR_SIZE, UNKNOWN, MaxBoots,   \* see Fsutil
  NOFILE,                                 \* see Words
  MaxEvents                               \* longest sequence of keys

VARIABLES
  used,                                            \* which part is used
  links, seq,                                      \* the lists
  table, buckets, bucket_cnt, elem_cnt, content,   \* the hash table
  call,                                            \* the call under way
  argv, pc, format_filesys, scheduler_flags, shutdown_type, files, scratch,
  extract_sector, append_sector, first, file, todo,
  archive, out, boots,                             \* the boot
  files_to_count, main, thread_no, worker, lock, lst, printed    \* the word counter

listVars == <<links, seq>>
tableVars == <<table, buckets, bucket_cnt, elem_cnt, content>>
bootVars == <<argv, pc, format_filesys, scheduler_flags, shutdown_type, files, scratch,
              extract_sector, append_sector, first, file, todo, archive, out, boots>>
intrVars == <<part, cpuVars, consoleVars>>
wordVars == <<files_to_count, main, thread_no, worker, lock, lst, printed>>

\* Neighbouring elements have equal keys.
ListKey(e) == e \div 2

\* The last element has the key of the first.
HashKey(e) == IF \A f \in Elem : f <= e THEN 1 ELSE e

Lists == INSTANCE KernelLists WITH h <- links, Key <- ListKey
Table == INSTANCE HashTable WITH h <- table, Key <- HashKey
Str == INSTANCE Strings
Tok == INSTANCE Tokenizer
Display == INSTANCE Vga
Delay == INSTANCE Timer
Keyboard == INSTANCE Kbd

\* Command lines with every option and every action, well formed or not.
CommandLines ==
  {<<"extract">>, <<"extract", "extract">>, <<"extract", "append", "a">>,
   <<"append", "a", "append", "b">>, <<"append", "a", "append", "a">>,
   <<"append", "a", "extract">>, <<"append", "b", "extract", "append", "a">>,
   <<"rm", "a", "append", "b", "extract">>, <<"append">>, <<"rename">>,
   <<"cat", "a", "ls", "run", "b", "rukt", "b">>, <<"-f", "extract", "append", "b">>,
   <<"-q", "-r", "-sched=fifo", "append", "b">>, <<"-sched=fifo", "-sched=prio">>,
   <<"-bad">>, <<"-h">>}

Sector(type, owner, size, bytes) ==
  [type |-> type, name |-> owner, size |-> size, bytes |-> bytes]
Header(type, owner, size) == Sector(type, owner, size, <<9, 9>>)
Blank == Sector("eof", "", 0, <<0, 0>>)

\* What is behind the sectors that were written looks like a header.
Device(size, entries, sectors) ==
  [entries |-> entries,
   sectors |-> [i \in 0 .. size - 1 |-> IF i < Len(sectors) THEN sectors[i + 1]
                                        ELSE Header("regular", "c", 1)]]

\* An empty archive; an archive with a directory, a file that ends inside a
\* sector and an empty file; and no archive.
ScratchDevices ==
  {Device(6, <<>>, <<Blank, Blank>>),
   Device(9, <<[name |-> "a", bytes |-> <<1, 2, 1>>], [name |-> "b", bytes |-> <<>>]>>,
          <<Header("directory", "d", 0), Header("regular", "a", 3), Sector("error", "", 0, <<1, 2>>),
            Sector("error", "", 0, <<1, 0>>), Header("regular", "b", 0), Blank, Blank>>),
   Device(7, UNKNOWN, <<Sector("error", "", 0, <<1, 2>>)>>)}

FileSystems ==
  {<<>>, [n \in {"a", "b"} |-> IF n = "a" THEN <<2, 2, 2, 2>> ELSE <<1>>]}

Archive ==
  INSTANCE Fsutil WITH
    Zero <- 0, Magic <- 9, CommandLine <- CommandLines, Scratch <- ScratchDevices,
    Files <- FileSystems

\* Files that share words and a file that is missing; standard input.
WordFiles ==
  {<<>>, <<<<1, 2, 1>>, <<2, 1>>>>, <<<<1, 2>>, <<1, 3>>, <<2, 1, 1>>>>, <<NOFILE, <<2, 2>>, <<>>>>}
Counter ==
  INSTANCE Words WITH
    CommandLine <- WordFiles, Stdin <- <<2, 1, 2>>, NULL <- NOBODY, argv <- files_to_count,
    t <- thread_no

\* The bits of the C types, few enough for their ends to be reached.
SmallBits ==
  [t \in {"CHAR", "SHORT", "INT", "INTMAX", "LONG", "PTRDIFFT", "LONGLONG", "SIZET"} |->
     CASE t = "CHAR" -> 4 [] t = "SHORT" -> 6 [] t \in {"LONGLONG", "INTMAX"} -> 18 [] OTHER -> 12]

StringsUpTo(S, n) == UNION {[1 .. k -> S] : k \in 0 .. n}

\* A memory that holds two strings, then two bytes.
Memory(s, t) ==
  LET bytes == s \o <<0>> \o t \o <<0, 1, 0>>
  IN [a \in 0 .. Len(bytes) - 1 |-> bytes[a + 1]]
-----------------------------------------------------------------------------
Idle == [fn |-> "idle"]

CallSort ==
  \E array \in StringsUpTo(1 .. 3, MaxArray) : call' = [fn |-> "sort", array |-> array]

CallMove ==
  \E dst, src \in 0 .. MemSize - 1, size \in 0 .. MemSize :
    /\ dst + size <= MemSize /\ src + size <= MemSize
    /\ call' = [fn |-> "memmove", dst |-> dst, src |-> src, size |-> size]

CallString ==
  \E s \in StringsUpTo({1, 2}, MaxString), t \in StringsUpTo({1, 2}, 2) :
    call' = [fn |-> "string", s |-> s, t |-> t]

\* Every flag but #, with fields too small, just large enough or larger, on
\* either side; a negative precision counts as none.
CallPrint ==
  \E flags \in SUBSET {"-", "0", "+", " ", "'"}, width \in {-12, -4, 0, 4, 12},
     precision \in {-2, -1, 0, 6}, star \in BOOLEAN :
    /\ width < 0 \/ precision < -1 => star
    /\ \/ \E alternate \in SUBSET {"#"}, type \in {"CHAR", "INT", "LONGLONG"},
            letter \in {"d", "o", "x"}, arg \in {0, 7, -8, 2047, -2048, -131072} :
            call' = [fn |-> "printf",
                     conv |-> [flags |-> flags \union alternate, width |-> width,
                               precision |-> precision, type |-> type, letter |-> letter,
                               star |-> star, arg |-> arg]]
       \/ \E arg \in -20 .. 20 :
            call' = [fn |-> "double",
                     conv |-> [flags |-> flags, width |-> width, precision |-> precision,
                               type |-> "INT", letter |-> "f", star |-> star, arg |-> arg]]

CallOutput ==
  \/ \E ofs, size \in 0 .. 9, per_line \in 2 .. 4 :
       call' = [fn |-> "hex_dump", ofs |-> ofs, size |-> size, per_line |-> per_line]
  \/ \E size \in 0 .. 300 : call' = [fn |-> "size", size |-> size]

CallUstar ==
  \E name \in StringsUpTo({DOT, SLASH, 97}, NameSize),
     type \in {USTAR_REGULAR, USTAR_DIRECTORY}, size \in {0, 7, 8, 511} :
    call' = [fn |-> "ustar", name |-> name, type |-> type, size |-> size]

CallTokenizer ==
  \E one, two \in StringsUpTo({"a", " ", Tok!QUOTE, Tok!DQUOTE, Tok!BACKSLASH}, n_max - 1),
     style \in {"", Tok!QUOTE, Tok!DQUOTE}, gap \in {<<>>, <<" ">>} :
    /\ Len(two) < n_max - 1
    /\ call' = [fn |-> "tokenize", one |-> one, two |-> two, style |-> style, gap |-> gap]

CallDevice ==
  \/ \E x \in 0 .. COL_CNT - 1, y \in 0 .. ROW_CNT - 1,
        text \in StringsUpTo({"x", "\n", "\f", "\r", "\t", "bs", "bell"}, MaxTyped) :
       call' = [fn |-> "vga", x |-> x, y |-> y, text |-> text]
  \/ \E speed \in FirstLoops .. MaxSpeed, num \in -2 .. 20, exp \in 1 .. 3 :
       call' = [fn |-> "timer", speed |-> speed, num |-> num, denom |-> Thousand ^ exp]
  \/ \E events \in StringsUpTo([key : Keyboard!Key, release : BOOLEAN], MaxEvents) :
       /\ Keyboard!Possible(events)
       /\ call' = [fn |-> "kbd", events |-> events]

Call ==
  /\ call = Idle
  /\ \/ CallSort \/ CallMove \/ CallString \/ CallPrint \/ CallOutput \/ CallUstar
     \/ CallTokenizer \/ CallDevice

Return == call # Idle /\ call' = Idle

Init ==
  /\ used \in {"lists", "table", "calls", "boot", "words", "interrupts"}
  /\ Lists!Init /\ Table!Init /\ call = Idle
  /\ Archive!Init
  /\ Counter!Init
  /\ MCInit
  /\ used # "words" => files_to_count = <<>>
  /\ used # "boot" => files = <<>> /\ archive = <<>>
  /\ used # "interrupts" => part = "console"

Next ==
  /\ UNCHANGED used
  /\ \/ /\ used = "lists" /\ Lists!Next
        /\ UNCHANGED <<tableVars, call, bootVars, wordVars, intrVars>>
     \/ /\ used = "table" /\ Table!Next
        /\ UNCHANGED <<listVars, call, bootVars, wordVars, intrVars>>
     \/ /\ used = "calls" /\ (Call \/ Return)
        /\ UNCHANGED <<listVars, tableVars, bootVars, wordVars, intrVars>>
     \/ /\ used = "boot" /\ Archive!Next
        /\ UNCHANGED <<listVars, tableVars, call, wordVars, intrVars>>
     \/ /\ used = "words" /\ Counter!Next
        /\ UNCHANGED <<listVars, tableVars, call, bootVars, intrVars>>
     \/ /\ used = "interrupts" /\ MCNext
        /\ UNCHANGED <<listVars, tableVars, call, bootVars, wordVars>>

Spec ==
  Init /\ [][Next]_<<used, listVars, tableVars, call, bootVars, wordVars, intrVars>>
-----------------------------------------------------------------------------
\* The lists of list.c are the sequences that list.h describes.
ListsAreSequences == used = "lists" => Lists!ListsAreSequences

\* The table of hash.c is the set its return values describe.
TableIsSet == used = "table" => Table!TableIsSet

\* sort() and binary_search() of stdlib.c, the heap's last parent with one
\* child or two.
SortsArrays == call.fn = "sort" => SortsAndFinds(call.array, 0 .. 4)

\* string.c: memmove() between blocks that overlap either way; searching and
\* comparing; strlcpy() and strlcat() at every size of the buffer, too small
\* by any number of bytes; strtok_r().
StringsAgree ==
  /\ call.fn = "memmove" =>
       Str!MovesOverlap([a \in 0 .. MemSize - 1 |-> a], call.dst, call.src, call.size)
  /\ call.fn = "string" =>
       LET mem == Memory(call.s, call.t)
           b == Len(call.s) + 1
       IN /\ Str!SearchesRight(mem, 0, b)
          /\ Str!TokensRight(mem, 0, b)
          /\ \A size \in 0 .. Len(call.t) + 3 : Str!BoundedCopies(mem, b, 0, size)

\* vga.c from any position of the cursor; timer.c at any speed of the machine;
\* kbd.c with the keys in any order.
DevicesAgree ==
  /\ call.fn = "vga" => Display!ShowsTheEnd(call.x, call.y, call.text)
  /\ call.fn = "timer" =>
       Delay!CalibratesWell(call.speed) /\ Delay!SleepsLongEnough(call.num, call.denom, call.speed)
  /\ call.fn = "kbd" => Keyboard!TypesWhatIsMeant(call.events)

\* memmove() returns its destination, as its comment says (string.c:23-24).
MemmoveReturnsDst ==
  call.fn = "memmove" =>
    Str!ReturnsDst([a \in 0 .. MemSize - 1 |-> a], call.dst, call.src, call.size)

\* stdio.c: the conversions of CallPrint, and in a buffer of any size; dumps
\* that start and end inside a line; sizes at the boundary of a factor.
PrintfFormats ==
  /\ call.fn = "printf" =>
       /\ IntegersRight(call.conv)
       /\ call.conv.star => \A buf_size \in 0 .. 6 : BufferRight(buf_size, call.conv)
  /\ call.fn = "double" => DoublesRight(call.conv)
  /\ call.fn = "hex_dump" => DumpRight(call.ofs, call.size, call.per_line)
  /\ call.fn = "size" => SizeRight(call.size, 3)

\* Sorting, searching, copying, formatting, scrolling and calibrating do what
\* the references beside their definitions say; memmove()'s returned pointer is
\* MemmoveReturnsDst's, and Printf's reference names what the standard has
\* otherwise.
AlgorithmsAgree == SortsArrays /\ StringsAgree /\ PrintfFormats /\ DevicesAgree

\* ustar.c: a header reads back as it was made and shows any damage.
UstarRoundTrips ==
  call.fn = "ustar" =>
    \A ofs \in 0 .. HeaderSize - 1, byte \in {NUL, SPACE, 48, 49, 97} :
      HeadersRight(call.name, call.type, call.size, ofs, byte)

\* tokenizer.c: words come back from any line they are written on.
WordsComeBack ==
  call.fn = "tokenize" => Tok!TokenizesBack(call.one, call.two, call.style, call.gap)

\* fsutil.c: archives hold the files that were appended to them, in this boot or
\* an earlier one, and give them back.
ArchivesComeBack == used = "boot" => Archive!ArchiveIsExact /\ Archive!FilesComeOut

\* What was written is read back: archives, their headers and command lines.
RoundTrips == UstarRoundTrips /\ WordsComeBack /\ ArchivesComeBack

\* The threads of pwords count every word of their files.
WordsAreCounted == used = "words" => Counter!WordsAreCounted
=============================================================================
