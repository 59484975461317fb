------------------------------- MODULE Printf -------------------------------
(***************************************************************************)
(* Formatted output, lib/stdio.c.  A format and an output are sequences of *)
(* one-character strings, the varargs a sequence.  Bits gives the width of *)
(* each C type, so that its truncation can be seen on small numbers.       *)
(***************************************************************************)
EXTENDS Stdlib

CONSTANT Bits   \* Bits[t]: the bits of an argument of type t

base_d == [base |-> 10, digits |-> digits, x |-> "", group |-> 3]
base_o == [base |-> 8, digits |-> SubSeq(digits, 1, 8), x |-> "", group |-> 3]
base_x == [base |-> 16, digits |-> digits \o <<"a", "b", "c", "d", "e", "f">>, x |-> "x", group |-> 4]
base_X == [base |-> 16, digits |-> digits \o <<"A", "B", "C", "D", "E", "F">>, x |-> "X", group |-> 4]
BUF_SIZE == 64   \* sizeof buf in format_integer()

FlagOf == [c \in {"-", "+", " ", "#", "0", "'"} |->
             CASE c = "-" -> "MINUS" [] c = "+" -> "PLUS" [] c = " " -> "SPACE"
               [] c = "#" -> "POUND" [] c = "0" -> "ZERO" [] c = "'" -> "GROUP"]

AbsoluteValue(v) == IF v < 0 THEN -v ELSE v

RECURSIVE ParseFlags(_, _)
ParseFlags(f, flags) ==
  IF f # <<>> /\ Head(f) \in DOMAIN FlagOf
  THEN ParseFlags(Tail(f), flags \union {FlagOf[Head(f)]})
  ELSE [f |-> f,
        flags |-> flags \ ((IF "MINUS" \in flags THEN {"ZERO"} ELSE {})
                           \union (IF "PLUS" \in flags THEN {"SPACE"} ELSE {}))]

RECURSIVE ParseNumber(_, _)
ParseNumber(f, n) ==
  IF f # <<>> /\ isdigit(Head(f)) THEN ParseNumber(Tail(f), n * 10 + DigitValue(Head(f)))
  ELSE [f |-> f, n |-> n]

\* A number in the format, or for `*' the next argument.
ParseStarOrNumber(f, args) ==
  IF f # <<>> /\ Head(f) = "*" THEN [f |-> Tail(f), n |-> Head(args), args |-> Tail(args)]
  ELSE LET p == ParseNumber(f, 0) IN [f |-> p.f, n |-> p.n, args |-> args]

\* The type's letters are `h', `hh', `j', `l', `ll', `t' and `z'.
ParseType(f) ==
  LET c == IF f = <<>> THEN "" ELSE Head(f)
      twice == Len(f) > 1 /\ f[2] = c
      Is(type, n) == [f |-> SubSeq(f, n + 1, Len(f)), type |-> type]
  IN CASE c = "h" /\ twice -> Is("CHAR", 2)
       [] c = "h" /\ ~ twice -> Is("SHORT", 1)
       [] c = "j" -> Is("INTMAX", 1)
       [] c = "l" /\ twice -> Is("LONGLONG", 2)
       [] c = "l" /\ ~ twice -> Is("LONG", 1)
       [] c = "t" -> Is("PTRDIFFT", 1)
       [] c = "z" -> Is("SIZET", 1)
       [] OTHER -> Is("INT", 0)

\* The parts of a conversion in the order they are read: its flags, its width,
\* its precision, which a negative argument leaves out, and its type.  The
\* result is the conversion c, the format from the conversion's letter on, and
\* the arguments that are left.
ParsedType(flags, w, p, t) ==
  [c |-> [flags |-> (flags \union (IF w.n < 0 THEN {"MINUS"} ELSE {}))
                    \ (IF p.n >= 0 THEN {"ZERO"} ELSE {}),
          width |-> AbsoluteValue(w.n),
          precision |-> IF p.n < 0 THEN -1 ELSE p.n,
          type |-> t.type],
   f |-> t.f, args |-> p.args]
ParsedPrecision(flags, w, p) == ParsedType(flags, w, p, ParseType(p.f))
ParsedWidth(flags, w) ==
  ParsedPrecision(flags, w,
    IF w.f # <<>> /\ Head(w.f) = "." THEN ParseStarOrNumber(Tail(w.f), w.args)
    ELSE [f |-> w.f, n |-> -1, args |-> w.args])
ParsedFlags(fl, args) == ParsedWidth(fl.flags, ParseStarOrNumber(fl.f, args))
parse_conversion(f, args) == ParsedFlags(ParseFlags(f, {}), args)

output_dup(ch, cnt) == [i \in 1 .. (IF cnt > 0 THEN cnt ELSE 0) |-> ch]

\* The digits of value, least significant first, with the group separators.
RECURSIVE AccumulateDigits(_, _, _, _)
AccumulateDigits(value, b, group, digit_cnt) ==
  IF value = 0 THEN <<>>
  ELSE (IF group /\ digit_cnt > 0 /\ digit_cnt % b.group = 0 THEN <<",">> ELSE <<>>)
       \o <<b.digits[(value % b.base) + 1]>>
       \o AccumulateDigits(value \div b.base, b, group, digit_cnt + 1)

PadCount(width, buf, x, sgn) ==
  width - Len(buf) - (IF x = "" THEN 0 ELSE 2) - (IF sgn = "" THEN 0 ELSE 1)

\* The zeros of the precision, and the one that # asks for in octal.
ZeroFill(acc, c) ==
  LET precision == IF c.precision < 0 THEN 1 ELSE c.precision
  IN acc \o output_dup("0", (IF precision < BUF_SIZE - 1 THEN precision ELSE BUF_SIZE - 1) - Len(acc))
OctalZero(buf, b, c) ==
  IF "POUND" \in c.flags /\ b.base = 8 /\ (buf = <<>> \/ buf[Len(buf)] # "0")
  THEN buf \o <<"0">> ELSE buf

\* The digits in buf, last one first, in their field.
OutputField(buf, sgn, x, pad_cnt, c) ==
  (IF {"MINUS", "ZERO"} \cap c.flags = {} THEN output_dup(" ", pad_cnt) ELSE <<>>)
  \o (IF sgn = "" THEN <<>> ELSE <<sgn>>)
  \o (IF x = "" THEN <<>> ELSE <<"0", x>>)
  \o (IF "ZERO" \in c.flags THEN output_dup("0", pad_cnt) ELSE <<>>)
  \o [i \in DOMAIN buf |-> buf[Len(buf) + 1 - i]]
  \o (IF "MINUS" \in c.flags THEN output_dup(" ", pad_cnt) ELSE <<>>)
OutputDigits(buf, sgn, x, c) == OutputField(buf, sgn, x, PadCount(c.width, buf, x, sgn), c)

format_integer(value, is_signed, negative, b, c) ==
  OutputDigits(
    OctalZero(ZeroFill(AccumulateDigits(value, b, "GROUP" \in c.flags, 0), c), b, c),
    CASE ~ is_signed -> ""
      [] is_signed /\ negative -> "-"
      [] is_signed /\ ~ negative /\ "PLUS" \in c.flags -> "+"
      [] is_signed /\ ~ negative /\ "PLUS" \notin c.flags /\ "SPACE" \in c.flags -> " "
      [] OTHER -> "",
    IF "POUND" \in c.flags /\ value # 0 THEN b.x ELSE "",
    c)

format_string(s, c) ==
  LET pad == output_dup(" ", c.width - Len(s))
  IN IF "MINUS" \in c.flags THEN s \o pad ELSE pad \o s

\* C's division: towards zero.
Quotient(a, b) == IF a < 0 THEN -((-a) \div b) ELSE a \div b

\* %f of d eighths (a double that holds its value exactly).
powers(n) == IF n = 0 THEN 0 ELSE 10 ^ n
FormatDouble(d, c) ==
  LET precision == IF c.precision < 0 THEN 6 ELSE IF c.precision > 9 THEN 9 ELSE c.precision
      first == Quotient(d, 8)
      rest == Quotient((d - first * 8) * powers(precision), 8)
  IN format_integer(AbsoluteValue(first), TRUE, d < 0, base_d, [c EXCEPT !.precision = -1])
     \o <<".">>
     \o format_integer(AbsoluteValue(rest), FALSE, FALSE, base_d,
                       [c EXCEPT !.precision = IF precision = 0 THEN 1 ELSE precision])

\* One conversion: letter, conversion and argument.
ConvertInteger(letter, c, arg, value, unsigned) ==
  CASE letter \in {"d", "i"} ->
         format_integer(AbsoluteValue(value), TRUE, value < 0, base_d, c)
    [] letter = "o" -> format_integer(unsigned, FALSE, FALSE, base_o, c)
    [] letter = "u" -> format_integer(unsigned, FALSE, FALSE, base_d, c)
    [] letter = "x" -> format_integer(unsigned, FALSE, FALSE, base_x, c)
    [] letter = "X" -> format_integer(unsigned, FALSE, FALSE, base_X, c)
    [] letter = "p" -> format_integer(arg, FALSE, FALSE, base_x, [c EXCEPT !.flags = {"POUND"}])
Convert(letter, c, arg) ==
  CASE letter = "c" -> format_string(<<arg>>, c)
    [] letter = "s" -> format_string(IF c.precision < 0 \/ Len(arg) <= c.precision THEN arg
                                     ELSE SubSeq(arg, 1, c.precision), c)
    [] letter = "f" -> FormatDouble(arg, c)
    [] OTHER -> ConvertInteger(letter, c, arg, Wrap(arg, Bits[c.type]), arg % 2 ^ Bits[c.type])

Supported == {"d", "i", "o", "u", "x", "X", "c", "s", "p", "f"}

\* A conversion that is not supported prints a note and takes no argument.
Converted(p) ==
  IF Head(p.f) \in Supported
  THEN [out |-> Convert(Head(p.f), p.c, Head(p.args)), f |-> Tail(p.f), args |-> Tail(p.args)]
  ELSE [out |-> <<"<<no %", Head(p.f), ">>">>, f |-> Tail(p.f), args |-> p.args]

\* One step of __vprintf(): a character, or a conversion.
Step(f, args) ==
  IF Head(f) # "%" THEN [out |-> <<Head(f)>>, f |-> Tail(f), args |-> args]
  ELSE IF f[2] = "%" THEN [out |-> <<"%">>, f |-> SubSeq(f, 3, Len(f)), args |-> args]
  ELSE Converted(parse_conversion(Tail(f), args))

RECURSIVE vprintf(_, _, _)
vprintf(f, args, out) ==
  IF f = <<>> THEN out
  ELSE LET s == Step(f, args) IN vprintf(s.f, s.args, out \o s.out)

\* vsnprintf() into a buffer of buf_size bytes: vsnprintf_helper() stores the
\* characters that fit and counts them all.  "NUL" is the null byte.
Stored(buf_size, out) ==
  LET max_length == IF buf_size > 0 THEN buf_size - 1 ELSE 0
      stored == SubSeq(out, 1, IF Len(out) < max_length THEN Len(out) ELSE max_length)
  IN [buffer |-> IF buf_size > 0 THEN stored \o <<"NUL">> ELSE <<>>, ret |-> Len(out)]
vsnprintf(buf_size, f, args) == Stored(buf_size, vprintf(f, args, <<>>))

\* hex_dump() of the bytes buf from offset ofs: its lines, each with the
\* offset it prints, the columns it leaves blank and the bytes it shows.
RECURSIVE hex_dump(_, _, _)
hex_dump(ofs, buf, per_line) ==
  IF buf = <<>> THEN <<>>
  ELSE LET start == ofs % per_line
           n == IF per_line - start > Len(buf) THEN Len(buf) ELSE per_line - start
       IN <<[ofs |-> ofs - start, blank |-> start, bytes |-> SubSeq(buf, 1, n)]>>
          \o hex_dump(ofs + n, SubSeq(buf, n + 1, Len(buf)), per_line)

\* print_human_readable_size(): the number and the factor (bytes 0 to TB 4) it
\* is printed with; 1024 in the code is `k'.
RECURSIVE Scaled(_, _, _)
Scaled(size, fp, k) ==
  IF size >= k /\ fp < 4 THEN Scaled(size \div k, fp + 1, k) ELSE [n |-> size, factor |-> fp]
-----------------------------------------------------------------------------
(***************************************************************************)
(* The reference: what the C standard says of a conversion, stated on the  *)
(* pieces its format is written from, conv = [flags, width, precision,     *)
(* type, letter, star, arg]: flags is a set of flag characters, precision  *)
(* is -1 if there is none, star says that width and precision are given by *)
(* arguments and may be negative.  Where stdio.c departs from the standard *)
(* the reference follows it, and says so: Grouped, DigitsText, FieldText   *)
(* and DoubleText.                                                         *)
(***************************************************************************)
Numeral(n) ==
  IF n < 10 THEN <<digits[n + 1]>> ELSE <<digits[(n \div 10) + 1], digits[(n % 10) + 1]>>

\* The order in which the flags are written.
FlagText(flags) == SelectSeq(<<"-", "0", "+", "'", " ", "#">>, LAMBDA c : c \in flags)

TypeText(type) ==
  CASE type = "CHAR" -> <<"h", "h">> [] type = "SHORT" -> <<"h">> [] type = "LONG" -> <<"l">>
    [] type = "LONGLONG" -> <<"l", "l">> [] type = "INTMAX" -> <<"j">>
    [] type = "PTRDIFFT" -> <<"t">> [] type = "SIZET" -> <<"z">> [] OTHER -> <<>>

FormatText(v) ==
  <<"%">> \o FlagText(v.flags)
  \o (IF v.star THEN <<"*">> ELSE IF v.width = 0 THEN <<>> ELSE Numeral(v.width))
  \o (IF v.precision = -1 THEN <<>>
      ELSE <<".">> \o (IF v.star THEN <<"*">> ELSE Numeral(v.precision)))
  \o TypeText(v.type) \o <<v.letter>>

FormatArgs(v) ==
  (IF v.star THEN <<v.width>> \o (IF v.precision = -1 THEN <<>> ELSE <<v.precision>>) ELSE <<>>)
  \o <<v.arg>>

BaseOf(letter) ==
  CASE letter = "o" -> base_o [] letter = "x" -> base_x [] letter = "X" -> base_X
    [] OTHER -> base_d

Expansion(n, b) ==
  LET k == IF n = 0 THEN 0 ELSE CHOOSE k \in 1 .. 10 : b.base ^ (k - 1) <= n /\ n < b.base ^ k
  IN [i \in 1 .. k |-> b.digits[((n \div b.base ^ (k - i)) % b.base) + 1]]

\* The digits d with a comma before every size of them, from the right; the
\* flag ' is not of the C standard.
Grouped(d, size) ==
  LET n == Len(d) + (IF d = <<>> THEN 0 ELSE (Len(d) - 1) \div size)
      FromRight(j) == IF j % (size + 1) = 0 THEN "," ELSE d[Len(d) + 1 - (j - j \div (size + 1))]
  IN [i \in 1 .. n |-> FromRight(n + 1 - i)]

\* At least precision digits.  The commas count as digits, and zeros that are
\* added are not grouped: %'.6d of 1234 is 01,234.
DigitsText(n, b, precision, flags) ==
  LET d == IF "'" \in flags THEN Grouped(Expansion(n, b), b.group) ELSE Expansion(n, b)
  IN output_dup("0", precision - Len(d)) \o d

SignText(negative, flags) ==
  CASE negative -> <<"-">>
    [] ~ negative /\ "+" \in flags -> <<"+">>
    [] ~ negative /\ "+" \notin flags /\ " " \in flags -> <<" ">>
    [] OTHER -> <<>>

\* The digits in a field of v's width.  A negative width is a - flag, which
\* overrides 0 in the standard; here both are obeyed, and the field has twice
\* its padding: %0*d of -4 and 7 is 0007 and three blanks.
FieldText(prefix, body, v) ==
  LET left == "-" \in v.flags \/ v.width < 0
      zero == "0" \in v.flags /\ v.precision < 0 /\ "-" \notin v.flags
      fill == AbsoluteValue(v.width) - Len(prefix \o body)
  IN CASE ~ left /\ ~ zero -> output_dup(" ", fill) \o prefix \o body
       [] ~ left /\ zero -> prefix \o output_dup("0", fill) \o body
       [] left /\ ~ zero -> prefix \o body \o output_dup(" ", fill)
       [] left /\ zero -> prefix \o output_dup("0", fill) \o body \o output_dup(" ", fill)

IntegerText(v) ==
  LET b == BaseOf(v.letter)
      signed == v.letter = "d"
      n == IF signed THEN Wrap(v.arg, Bits[v.type]) ELSE v.arg % 2 ^ Bits[v.type]
      d == DigitsText(AbsoluteValue(n), b, IF v.precision < 0 THEN 1 ELSE v.precision, v.flags)
      body == IF "#" \in v.flags /\ v.letter = "o" /\ (d = <<>> \/ Head(d) # "0")
              THEN <<"0">> \o d ELSE d
  IN FieldText(CASE signed -> SignText(n < 0, v.flags)
                 [] ~ signed /\ "#" \in v.flags /\ v.letter = "x" /\ n # 0 -> <<"0", "x">>
                 [] OTHER -> <<>>,
               body, v)

\* An integer conversion prints IntegerText, for every mixture of the flags,
\* width and precision, given in the format or by arguments of either sign, and
\* at the ends of its type's range; plain %d is read back by atoi().
PrintsAsItShould(v, out) ==
  /\ out = IntegerText(v)
  /\ v.letter = "d" /\ v.flags = {} /\ v.precision < 0 /\ v.width >= 0 =>
       atoi(out, Bits[v.type]) = Wrap(v.arg, Bits[v.type])
IntegersRight(v) == PrintsAsItShould(v, vprintf(FormatText(v), FormatArgs(v), <<>>))

\* %f of v.arg eighths.  Unlike in the standard the value is cut, not rounded,
\* precision 0 prints one decimal, a zero, and the two parts are integers with
\* a field of their own: a width, 0 or ' shapes the decimals as well.
Places(v) == IF v.precision < 0 THEN 6 ELSE v.precision
Decimals(v) == IF Places(v) = 0 THEN 1 ELSE Places(v)
DoubleText(v) ==
  LET n == AbsoluteValue(v.arg)
      Fraction == IF Places(v) = 0 THEN 0 ELSE ((n % 8) * 10 ^ Places(v)) \div 8
  IN FieldText(SignText(v.arg < 0, v.flags), DigitsText(n \div 8, base_d, 1, v.flags), v)
     \o <<".">>
     \o FieldText(<<>>, DigitsText(Fraction, base_d, Decimals(v), v.flags), v)

\* %f prints DoubleText, which without a width and a ' reads back as the value
\* cut to the precision.
PrintsDouble(v, out) ==
  /\ out = DoubleText(v)
  /\ v.width = 0 /\ "'" \notin v.flags =>
       /\ (Head(out) = "-") <=> v.arg < 0
       /\ out[Len(out) - Decimals(v)] = "."
       /\ ParseNumber(SelectSeq(out, isdigit), 0).n =
            10 ^ (Decimals(v) - Places(v)) * ((AbsoluteValue(v.arg) * 10 ^ Places(v)) \div 8)
DoublesRight(v) == PrintsDouble(v, vprintf(FormatText(v), FormatArgs(v), <<>>))

\* Whatever the size of its buffer, vsnprintf() stores what fits, always
\* terminated, and returns the length of the whole output.
StoresWhatFits(buf_size, r, out) ==
  /\ r.ret = Len(out)
  /\ Len(r.buffer) <= buf_size
  /\ buf_size > 0 =>
       /\ r.buffer[Len(r.buffer)] = "NUL"
       /\ \A i \in 1 .. Len(r.buffer) - 1 : r.buffer[i] = out[i]
       /\ Len(r.buffer) < buf_size => Len(r.buffer) = Len(out) + 1
BufferRight(buf_size, v) ==
  StoresWhatFits(buf_size, vsnprintf(buf_size, <<"<">> \o FormatText(v), FormatArgs(v)),
                 <<"<">> \o IntegerText(v))

RECURSIVE Joined(_)
Joined(lines) == IF lines = <<>> THEN <<>> ELSE Head(lines).bytes \o Joined(Tail(lines))

\* A dump shows every byte once, in order, under the column of its offset.
DumpRight(ofs, size, per_line) ==
  LET lines == hex_dump(ofs, [i \in 1 .. size |-> i], per_line)
  IN /\ Joined(lines) = [i \in 1 .. size |-> i]
     /\ \A k \in DOMAIN lines :
          /\ lines[k].ofs % per_line = 0
          /\ lines[k].blank + Len(lines[k].bytes) <= per_line
          /\ \A i \in DOMAIN lines[k].bytes :
               lines[k].ofs + lines[k].blank + i = ofs + lines[k].bytes[i]

\* A size is printed with the factor that leaves it below the next one, cut.
SizeRight(size, k) ==
  LET r == Scaled(size, 0, k)
  IN /\ r.n < k \/ r.factor = 4
     /\ r.n * k ^ r.factor <= size /\ size < (r.n + 1) * k ^ r.factor
=============================================================================
