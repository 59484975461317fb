------------------------------- MODULE Ustar --------------------------------
(***************************************************************************)
(* Headers of ustar archives, lib/ustar.c, as sequences of bytes.  The     *)
(* fields keep their order and meaning; NameSize and SizeSize, 100 and 12  *)
(* in the code, are parameters, the fields that are always the same are    *)
(* left out, and of the prefix only its first byte is there.               *)
(***************************************************************************)
EXTENDS Integers, Sequences

CONSTANTS
  NameSize,   \* sizeof h->name
  SizeSize    \* sizeof h->size

NUL == 0
SPACE == 32
ASCII_0 == 48
DOT == 46
SLASH == 47
USTAR_REGULAR == 48
USTAR_DIRECTORY == 53
USTAR_EOF == -1
MAGIC == <<117, 115, 116, 97, 114, 0>>   \* "ustar" and its null byte
VERSION == <<48, 48>>

CHKSUM_SIZE == 8
MODE_SIZE == 8

\* Where each field starts, and the field itself.
SizeOfs == NameSize + MODE_SIZE
ChksumOfs == SizeOfs + SizeSize
TypeOfs == ChksumOfs + CHKSUM_SIZE
MagicOfs == TypeOfs + 1
VersionOfs == MagicOfs + Len(MAGIC)
PrefixOfs == VersionOfs + Len(VERSION)
HeaderSize == PrefixOfs + 1
Field(h, ofs, size) == SubSeq(h, ofs + 1, ofs + size)

RECURSIVE SumOf(_)
SumOf(s) == IF s = <<>> THEN 0 ELSE Head(s) + SumOf(Tail(s))

calculate_chksum(h) ==
  SumOf(SubSeq(h, 1, ChksumOfs)) + CHKSUM_SIZE * SPACE
  + SumOf(SubSeq(h, ChksumOfs + CHKSUM_SIZE + 1, Len(h)))

StartsWith(s, p) == Len(s) >= Len(p) /\ SubSeq(s, 1, Len(p)) = p

RECURSIVE AfterSlash(_)
AfterSlash(s) == IF Head(s) = SLASH THEN Tail(s) ELSE AfterSlash(Tail(s))

RECURSIVE StripPrefixes(_)
StripPrefixes(s) ==
  IF \/ StartsWith(s, <<SLASH>>)
     \/ StartsWith(s, <<DOT, SLASH>>)
     \/ StartsWith(s, <<DOT, DOT, SLASH>>)
  THEN StripPrefixes(AfterSlash(s)) ELSE s

strip_antisocial_prefixes(s) ==
  LET t == StripPrefixes(s) IN IF t = <<>> \/ t = <<DOT, DOT>> THEN <<DOT>> ELSE t

\* snprintf (field, size, "%0<size - 1>o", n) for an n of no more digits than
\* that, and strlcpy() into a field that memset() has cleared.
OctalField(n, size) ==
  [i \in 1 .. size |-> IF i = size THEN NUL ELSE ASCII_0 + ((n \div 8 ^ (size - 1 - i)) % 8)]
NameField(s) == [i \in 1 .. NameSize |-> IF i <= Len(s) THEN s[i] ELSE NUL]

\* The header, or <<>> if the name is too long.
ustar_make_header(file_name, type, size) ==
  LET name == strip_antisocial_prefixes(file_name)
      Header(chksum) ==
        NameField(name) \o OctalField(IF type = USTAR_REGULAR THEN 420 ELSE 493, MODE_SIZE)
        \o OctalField(size, SizeSize) \o chksum \o <<type>> \o MAGIC \o VERSION \o <<NUL>>
      blank == [i \in 1 .. CHKSUM_SIZE |-> NUL]
  IN IF Len(name) > NameSize - 1 THEN <<>>
     ELSE Header(OctalField(calculate_chksum(Header(blank)), CHKSUM_SIZE))

\* The field's value from byte ofs on, or -1: a field needs a digit and an end.
RECURSIVE parse_octal_field(_, _, _)
parse_octal_field(s, ofs, value) ==
  IF ofs = Len(s) THEN -1
  ELSE LET c == s[ofs + 1]
       IN IF c \in 48 .. 55 THEN parse_octal_field(s, ofs + 1, c - 48 + value * 8)
          ELSE IF c \in {SPACE, NUL} THEN (IF ofs > 0 THEN value ELSE -1)
          ELSE -1

is_all_zeros(h) == \A i \in DOMAIN h : h[i] = NUL

\* The string that starts a field.
RECURSIVE UpToNul(_)
UpToNul(s) == IF s = <<>> \/ Head(s) = NUL THEN <<>> ELSE <<Head(s)>> \o UpToNul(Tail(s))

\* What the header says, or the error message.  INT_MAX is out of a size
\* field's reach here.
ustar_parse_header(h) ==
  LET chksum == parse_octal_field(Field(h, ChksumOfs, CHKSUM_SIZE), 0, 0)
      size == parse_octal_field(Field(h, SizeOfs, SizeSize), 0, 0)
      type == h[TypeOfs + 1]
      Error(msg) == [error |-> msg, name |-> <<>>, type |-> 0, size |-> 0]
  IN IF is_all_zeros(h) THEN [error |-> "", name |-> <<>>, type |-> USTAR_EOF, size |-> 0]
     ELSE IF Field(h, MagicOfs, Len(MAGIC)) # MAGIC THEN Error("not a ustar archive")
     ELSE IF Field(h, VersionOfs, 2) # VERSION THEN Error("invalid ustar version")
     ELSE IF chksum = -1 THEN Error("corrupt chksum field")
     ELSE IF chksum # calculate_chksum(h) THEN Error("checksum mismatch")
     ELSE IF h[NameSize] # NUL \/ h[PrefixOfs + 1] # NUL THEN Error("file name too long")
     ELSE IF type \notin {USTAR_REGULAR, USTAR_DIRECTORY} THEN Error("unimplemented file type")
     ELSE IF type = USTAR_REGULAR /\ size = -1 THEN Error("corrupt file size field")
     ELSE [error |-> "", name |-> strip_antisocial_prefixes(UpToNul(Field(h, 0, NameSize))),
           type |-> type, size |-> IF type = USTAR_REGULAR THEN size ELSE 0]
-----------------------------------------------------------------------------
\* A header that was made says the same when it is parsed: the stripped name,
\* which cannot lead out of the directory, the type and a regular file's size;
\* and no other byte anywhere in it goes unnoticed unless it says the same.
HeadersRight(name, type, size, ofs, byte) ==
  LET h == ustar_make_header(name, type, size)
      said == ustar_parse_header(h)
      stripped == strip_antisocial_prefixes(name)
      damaged == ustar_parse_header([h EXCEPT ![ofs + 1] = byte])
  IN IF h = <<>> THEN Len(stripped) >= NameSize
     ELSE /\ Len(h) = HeaderSize
          /\ said = [error |-> "", name |-> stripped, type |-> type,
                     size |-> IF type = USTAR_REGULAR THEN size ELSE 0]
          /\ said.name # <<>> /\ said.name # <<DOT, DOT>> /\ Head(said.name) # SLASH
          /\ ~ StartsWith(said.name, <<DOT, DOT, SLASH>>)
          /\ damaged.error # "" \/ damaged = said
=============================================================================
