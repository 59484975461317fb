----------------------------- MODULE Tokenizer ------------------------------
(***************************************************************************)
(* The tokenizer of the shell, hw-shell/tokenizer.c.  A line and a word    *)
(* are sequences of one-character strings; n_max, 4096 in the code, is a   *)
(* parameter.  The result is the words, or ABORT.                          *)
(***************************************************************************)
EXTENDS Integers, Sequences

CONSTANT n_max   \* size of the buffer that holds the word being built

QUOTE == "'"
DQUOTE == "\""
BACKSLASH == "\\"
ABORT == <<"abort">>

Push(words, token) == IF token = <<>> THEN words ELSE Append(words, token)

Escapes(mode, c) == c = BACKSLASH

\* The loop from position i, in mode "" (normal) or the quote it is inside of;
\* an escaped character is taken in the same iteration.
RECURSIVE TokenizeFrom(_, _, _, _, _)
TokenizeFrom(line, i, mode, token, words) ==
  LET c == line[i]
      More(step, m, t, w) ==
        IF Len(t) + 1 >= n_max THEN ABORT ELSE TokenizeFrom(line, i + step, m, t, w)
  IN IF i > Len(line) THEN Push(words, token)
     ELSE IF Escapes(mode, c)
          THEN IF i < Len(line) THEN More(2, mode, Append(token, line[i + 1]), words)
               ELSE More(1, mode, token, words)
     ELSE IF mode = "" /\ c \in {QUOTE, DQUOTE} THEN More(1, c, token, words)
     ELSE IF mode # "" /\ c = mode THEN More(1, "", token, words)
     ELSE IF mode = "" /\ c = " " THEN More(1, mode, <<>>, Push(words, token))
     ELSE More(1, mode, Append(token, c), words)

tokenize(line) == TokenizeFrom(line, 1, "", <<>>, <<>>)
-----------------------------------------------------------------------------
\* Three ways to write a word on a line: every character escaped, or the word
\* in quotes with only the quote and the backslash escaped.
RECURSIVE Escaped(_, _)
Escaped(word, special) ==
  IF word = <<>> THEN <<>>
  ELSE (IF Head(word) \in special THEN <<BACKSLASH, Head(word)>> ELSE <<Head(word)>>)
       \o Escaped(Tail(word), special)

Written(word, style) ==
  IF style = "" THEN Escaped(word, {QUOTE, DQUOTE, BACKSLASH, " "})
  ELSE <<style>> \o Escaped(word, {style, BACKSLASH}) \o <<style>>

\* Any two words, whatever characters they hold, come back from a line they
\* are written on, in any style and with any spaces around them; a word too
\* long for the buffer aborts, and no shorter one does.
TokenizesBack(one, two, style, gap) ==
  LET line == gap \o Written(one, style) \o <<" ">> \o gap \o Written(two, "") \o gap
  IN tokenize(line) = IF Len(one) + 1 >= n_max \/ Len(two) + 1 >= n_max THEN ABORT
                      ELSE Push(Push(<<>>, one), two)
=============================================================================
