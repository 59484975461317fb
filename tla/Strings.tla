------------------------------ MODULE Strings -------------------------------
(***************************************************************************)
(* lib/string.c on a memory: a function from addresses 0 .. n - 1 to       *)
(* bytes, 0 the null byte.  A pointer is an address, NULL is -1.           *)
(***************************************************************************)
EXTENDS Integers, Sequences, FiniteSets

NULL == -1

\* The copying loops: upwards from i, downwards from i.
RECURSIVE CopyUp(_, _, _, _, _)
CopyUp(mem, dst, src, i, size) ==
  IF i = size THEN mem
  ELSE CopyUp([mem EXCEPT ![dst + i] = mem[src + i]], dst, src, i + 1, size)

RECURSIVE CopyDown(_, _, _, _)
CopyDown(mem, dst, src, i) ==
  IF i = 0 THEN mem
  ELSE CopyDown([mem EXCEPT ![dst + i - 1] = mem[src + i - 1]], dst, src, i - 1)

memcpy(mem, dst, src, size) == CopyUp(mem, dst, src, 0, size)

CopiesUp(dst, src) == dst < src

\* The memory after memmove() and the pointer it returns: the loop upwards
\* leaves dst behind the block, and dst is what is returned.
memmove(mem, dst, src, size) ==
  IF CopiesUp(dst, src)
  THEN [mem |-> CopyUp(mem, dst, src, 0, size), ret |-> dst + size]
  ELSE [mem |-> CopyDown(mem, dst, src, size), ret |-> dst]

memset(mem, dst, value, size) ==
  [a \in DOMAIN mem |-> IF a \in dst .. dst + size - 1 THEN value ELSE mem[a]]

sign(a, b) == IF a < b THEN -1 ELSE IF a > b THEN 1 ELSE 0

RECURSIVE memcmp(_, _, _, _)
memcmp(mem, a, b, size) ==
  IF size = 0 THEN 0
  ELSE IF mem[a] # mem[b] THEN sign(mem[a], mem[b])
  ELSE memcmp(mem, a + 1, b + 1, size - 1)

RECURSIVE strcmp(_, _, _)
strcmp(mem, a, b) ==
  IF mem[a] # 0 /\ mem[a] = mem[b] THEN strcmp(mem, a + 1, b + 1) ELSE sign(mem[a], mem[b])

RECURSIVE memchr(_, _, _, _)
memchr(mem, block, ch, size) ==
  IF size = 0 THEN NULL
  ELSE IF mem[block] = ch THEN block ELSE memchr(mem, block + 1, ch, size - 1)

RECURSIVE strchr(_, _, _)
strchr(mem, s, c) ==
  IF mem[s] = c THEN s ELSE IF mem[s] = 0 THEN NULL ELSE strchr(mem, s + 1, c)

RECURSIVE strcspn(_, _, _)
strcspn(mem, s, stop) ==
  IF mem[s] = 0 \/ strchr(mem, stop, mem[s]) # NULL THEN 0 ELSE 1 + strcspn(mem, s + 1, stop)

RECURSIVE strspn(_, _, _)
strspn(mem, s, skip) ==
  IF mem[s] = 0 \/ strchr(mem, skip, mem[s]) = NULL THEN 0 ELSE 1 + strspn(mem, s + 1, skip)

RECURSIVE strpbrk(_, _, _)
strpbrk(mem, s, stop) ==
  IF mem[s] = 0 THEN NULL
  ELSE IF strchr(mem, stop, mem[s]) # NULL THEN s ELSE strpbrk(mem, s + 1, stop)

RECURSIVE LastFrom(_, _, _, _)
LastFrom(mem, s, c, p) ==
  IF mem[s] = 0 THEN p ELSE LastFrom(mem, s + 1, c, IF mem[s] = c THEN s ELSE p)

strrchr(mem, s, c) == LastFrom(mem, s, c, NULL)

RECURSIVE strlen(_, _)
strlen(mem, s) == IF mem[s] = 0 THEN 0 ELSE 1 + strlen(mem, s + 1)

RECURSIVE strnlen(_, _, _)
strnlen(mem, s, maxlen) ==
  IF mem[s] # 0 /\ maxlen > 0 THEN 1 + strnlen(mem, s + 1, maxlen - 1) ELSE 0

RECURSIVE MatchFrom(_, _, _, _)
MatchFrom(mem, i, last, needle) ==
  IF i > last THEN NULL
  ELSE IF memcmp(mem, i, needle, strlen(mem, needle)) = 0 THEN i
  ELSE MatchFrom(mem, i + 1, last, needle)

strstr(mem, haystack, needle) ==
  IF strlen(mem, haystack) < strlen(mem, needle) THEN NULL
  ELSE MatchFrom(mem, haystack, haystack + strlen(mem, haystack) - strlen(mem, needle), needle)

\* strtok_r() from position s: the memory after it, the token and save_ptr.
strtok_r(mem, s, delimiters) ==
  LET token == s + strspn(mem, s, delimiters)
      end == token + strcspn(mem, token, delimiters)
  IN IF mem[token] = 0 THEN [mem |-> mem, token |-> NULL, save |-> token]
     ELSE IF mem[end] # 0 THEN [mem |-> [mem EXCEPT ![end] = 0], token |-> token, save |-> end + 1]
     ELSE [mem |-> mem, token |-> token, save |-> end]

\* The memory after strlcpy() and what it returns; strlcat() likewise.
strlcpy(mem, dst, src, size) ==
  LET src_len == strlen(mem, src)
      dst_len == IF src_len < size - 1 THEN src_len ELSE size - 1
  IN [mem |-> IF size = 0 THEN mem
              ELSE [memcpy(mem, dst, src, dst_len) EXCEPT ![dst + dst_len] = 0],
      ret |-> src_len]

strlcat(mem, dst, src, size) ==
  LET src_len == strlen(mem, src)
      dst_len == strlen(mem, dst)
      room == size - dst_len - 1
      copy_cnt == IF src_len < room THEN src_len ELSE room
  IN [mem |-> IF size = 0 \/ dst_len >= size THEN mem
              ELSE [memcpy(mem, dst + dst_len, src, copy_cnt)
                      EXCEPT ![dst + dst_len + copy_cnt] = 0],
      ret |-> src_len + dst_len]
-----------------------------------------------------------------------------
\* The reference: the string at address s as a sequence, and its positions.
At(mem, s) ==
  LET n == CHOOSE k \in DOMAIN mem : mem[k] = 0 /\ k >= s /\ \A i \in s .. k - 1 : mem[i] # 0
  IN [i \in 1 .. n - s |-> mem[s + i - 1]]
Bytes(s) == {s[i] : i \in DOMAIN s}
Least(S) == IF S = {} THEN NULL ELSE CHOOSE x \in S : \A y \in S : x <= y
Prefix(s, n) == SubSeq(s, 1, IF n < Len(s) THEN n ELSE Len(s))
Lower(s, t) ==
  \E i \in 0 .. Len(s) :
    /\ i < Len(t)
    /\ Prefix(s, i) = Prefix(t, i)
    /\ i = Len(s) \/ s[i + 1] < t[i + 1]

\* A copy between overlapping blocks moves the bytes that were there, and
\* changes no others.  What is returned is ReturnsDst's.
MovesOverlap(mem, dst, src, size) ==
  memmove(mem, dst, src, size).mem =
    [a \in DOMAIN mem |-> IF a \in dst .. dst + size - 1 THEN mem[src + a - dst] ELSE mem[a]]

\* memmove() "Returns DST", string.c:24.
ReturnsDst(mem, dst, src, size) == memmove(mem, dst, src, size).ret = dst

\* Comparing, searching and measuring the strings at a and b.
SearchesRight(mem, a, b) ==
  LET s == At(mem, a)
      t == At(mem, b)
      Where(P(_)) == {a + i - 1 : i \in {i \in DOMAIN s : P(s[i])}}
  IN /\ strlen(mem, a) = Len(s)
     /\ \A n \in 0 .. Len(s) + 1 : strnlen(mem, a, n) = Len(Prefix(s, n))
     /\ strcmp(mem, a, b) = IF s = t THEN 0 ELSE IF Lower(s, t) THEN -1 ELSE 1
     /\ strpbrk(mem, a, b) = Least(Where(LAMBDA c : c \in Bytes(t)))
     /\ \A c \in 1 .. 2 :
          /\ strchr(mem, a, c) = Least(Where(LAMBDA x : x = c))
          /\ \A n \in 0 .. Len(s) :
               memchr(mem, a, c, n) = Least({p \in Where(LAMBDA x : x = c) : p < a + n})
          /\ \A p \in Where(LAMBDA x : x = c) : strrchr(mem, a, c) >= p
     /\ strstr(mem, a, b) =
          Least({p \in a .. a + Len(s) - Len(t) :
                   SubSeq(s, p - a + 1, p - a + Len(t)) = t})

\* strlcpy() and strlcat() at a buffer of `size' bytes: the result is cut to
\* size - 1 bytes and terminated, nothing beyond the buffer is written, and
\* the return value is the length there would have been.
BoundedCopies(mem, dst, src, size) ==
  LET c == strlcpy(mem, dst, src, size)
      t == strlcat(mem, dst, src, size)
      s == At(mem, src)
      d == At(mem, dst)
      Outside(m) == \A a \in DOMAIN mem \ (dst .. dst + size - 1) : m[a] = mem[a]
  IN /\ Outside(c.mem) /\ Outside(t.mem)
     /\ c.ret = Len(s) /\ t.ret = Len(d \o s)
     /\ size > 0 => At(c.mem, dst) = Prefix(s, size - 1)
     /\ size > Len(d) => At(t.mem, dst) = Prefix(d \o s, size - 1)
     /\ size <= Len(d) => t.mem = mem

RECURSIVE Tokens(_, _, _)
Tokens(mem, s, delimiters) ==
  LET r == strtok_r(mem, s, delimiters)
  IN IF r.token = NULL THEN <<>>
     ELSE <<At(r.mem, r.token)>> \o Tokens(r.mem, r.save, delimiters)

\* Calling strtok_r() until it returns null yields the maximal runs without a
\* delimiter, none empty, in order.
TokensRight(mem, s, delimiters) ==
  LET t == At(mem, s)
      D == Bytes(At(mem, delimiters))
      starts == {i \in DOMAIN t : t[i] \notin D /\ (i = 1 \/ t[i - 1] \in D)}
      Run(i) == LET n == CHOOSE k \in i .. Len(t) :
                           /\ \A x \in i .. k : t[x] \notin D
                           /\ k = Len(t) \/ t[k + 1] \in D
                IN SubSeq(t, i, n)
      found == Tokens(mem, s, delimiters)
  IN /\ Len(found) = Cardinality(starts)
     /\ \A i \in starts : found[Cardinality({k \in starts : k <= i})] = Run(i)
=============================================================================
