---------------------------- MODULE SerialProof -----------------------------
(***************************************************************************)
(* Proofs about Serial, for any number of threads and any buffer size: the *)
(* circular buffer of devices/intq.c is a queue, bytes and keys pass in    *)
(* order, and whoever sleeps is known to the queue it sleeps on.           *)
(***************************************************************************)
EXTENDS Serial, SequenceTheorems, TLAPS

-----------------------------------------------------------------------------
(***************************************************************************)
(* The circular buffer.  Positions are below N, so that what is reduced    *)
(* modulo N is less than N away from a position.                           *)
(***************************************************************************)
N == INTQ_BUFSIZE
Pos == 0 .. N - 1

\* x % N for the values of x that occur.
Wrap(x) == IF x < 0 THEN x + N ELSE IF x < N THEN x ELSE x - N

LEMMA SizeType == N \in Nat /\ N > 1
  BY SerialAssumption DEF N

LEMMA ModWraps ==
  ASSUME NEW x \in Int, 0 - N <= x, x < 2 * N
  PROVE  x % N = Wrap(x) /\ Wrap(x) \in Pos
  <1>1. N \in Nat /\ N > 1
    BY SizeType
  <1>2. CASE x < 0
    BY <1>1, <1>2 DEF Wrap, Pos
  <1>3. CASE 0 <= x /\ x < N
    BY <1>1, <1>3 DEF Wrap, Pos
  <1>4. CASE N <= x
    BY <1>1, <1>4 DEF Wrap, Pos
  <1> QED BY <1>1, <1>2, <1>3, <1>4

\* The slots from t up to h, oldest first.
Ring(b, h, t) == [i \in 1 .. Wrap(h - t) |-> b[Wrap(t + i - 1)]]

LEMMA RingType ==
  ASSUME NEW b \in [Pos -> Nat], NEW h \in Pos, NEW t \in Pos
  PROVE  /\ Wrap(h - t) \in Pos
         /\ \A i \in 1 .. Wrap(h - t) : Wrap(t + i - 1) \in Pos
         /\ Ring(b, h, t) \in Seq(Nat)
         /\ Len(Ring(b, h, t)) = Wrap(h - t)
         /\ \A i \in 1 .. Wrap(h - t) : Ring(b, h, t)[i] = b[Wrap(t + i - 1)]
  <1>1. N \in Nat /\ N > 1
    BY SizeType
  <1>2. Wrap(h - t) \in Pos
    BY <1>1 DEF Wrap, Pos
  <1>3. ASSUME NEW i \in 1 .. Wrap(h - t) PROVE Wrap(t + i - 1) \in Pos
    BY <1>1, <1>3 DEF Wrap, Pos
  <1>4. \A i \in 1 .. Wrap(h - t) : b[Wrap(t + i - 1)] \in Nat
    BY <1>3
  <1>5. Wrap(h - t) \in Nat
    BY <1>1, <1>2 DEF Pos
  <1> QED BY <1>2, <1>3, <1>4, <1>5 DEF Ring

\* The type of a queue, and which threads may wait for it.
LEMMA ContentsIsRing ==
  ASSUME NEW q \in Intq
  PROVE  Contents(q) = Ring(q.buf, q.head, q.tail)
  <1>1. N \in Nat /\ N > 1
    BY SizeType
  <1>2. q.head \in Pos /\ q.tail \in Pos
    BY DEF Intq, Pos, N
  <1>3. (q.head - q.tail) % N = Wrap(q.head - q.tail)
    <2>1. q.head - q.tail \in Int /\ 0 - N <= q.head - q.tail /\ q.head - q.tail < 2 * N
      BY <1>1, <1>2 DEF Pos
    <2> QED BY <2>1, ModWraps
  <1>4. ASSUME NEW i \in 1 .. Wrap(q.head - q.tail)
        PROVE  (q.tail + i - 1) % N = Wrap(q.tail + i - 1)
    <2>1. /\ q.tail + i - 1 \in Int /\ 0 - N <= q.tail + i - 1
          /\ q.tail + i - 1 < 2 * N
      BY <1>1, <1>2, <1>4 DEF Pos, Wrap
    <2> QED BY <2>1, ModWraps
  <1> QED BY <1>3, <1>4 DEF Contents, Ring, N

\* next() stays in the buffer, and goes round at its end.
LEMMA NextPos ==
  ASSUME NEW p \in Pos
  PROVE  next(p) \in Pos /\ next(p) = IF p = N - 1 THEN 0 ELSE p + 1
  <1>1. N \in Nat /\ N > 1
    BY SizeType
  <1>2. p + 1 \in Int /\ 0 - N <= p + 1 /\ p + 1 < 2 * N
    BY <1>1 DEF Pos
  <1>3. next(p) = Wrap(p + 1) /\ Wrap(p + 1) \in Pos
    BY <1>2, ModWraps DEF next, N
  <1> QED BY <1>1, <1>3 DEF Wrap, Pos

\* The byte that intq_putc() writes is the youngest, if there was room.
LEMMA RingInsert ==
  ASSUME NEW b \in [Pos -> Nat], NEW h \in Pos, NEW t \in Pos, NEW x \in Nat,
         next(h) # t
  PROVE  Ring([b EXCEPT ![h] = x], next(h), t) = Append(Ring(b, h, t), x)
  <1> DEFINE c == [b EXCEPT ![h] = x]
             l == Wrap(h - t)
             r == Ring(b, h, t)
             s == Ring(c, next(h), t)
  <1>1. N \in Nat /\ N > 1
    BY SizeType
  <1>2. c \in [Pos -> Nat] /\ c[h] = x /\ \A p \in Pos \ {h} : c[p] = b[p]
    OBVIOUS
  <1>3. next(h) \in Pos /\ next(h) = IF h = N - 1 THEN 0 ELSE h + 1
    BY NextPos
  <1>4. l \in Nat /\ Wrap(next(h) - t) = l + 1
    BY <1>1, <1>3 DEF Wrap, Pos
  <1>5. /\ r \in Seq(Nat) /\ Len(r) = l
        /\ \A i \in 1 .. l : Wrap(t + i - 1) \in Pos
        /\ \A i \in 1 .. l : r[i] = b[Wrap(t + i - 1)]
    BY RingType
  <1> HIDE DEF c
  <1>6. /\ s \in Seq(Nat) /\ Len(s) = l + 1
        /\ \A i \in 1 .. l + 1 : s[i] = c[Wrap(t + i - 1)]
    <2>1. /\ Ring(c, next(h), t) \in Seq(Nat)
          /\ Len(Ring(c, next(h), t)) = Wrap(next(h) - t)
          /\ \A i \in 1 .. Wrap(next(h) - t) :
               Ring(c, next(h), t)[i] = c[Wrap(t + i - 1)]
      <3> HIDE DEF l
      <3> QED BY <1>2, <1>3, RingType, Zenon
    <2> QED BY <1>4, <2>1, Zenon
  <1>7. ASSUME NEW i \in 1 .. l PROVE Wrap(t + i - 1) # h
    BY <1>1, <1>7 DEF Wrap, Pos
  <1>8. Wrap(t + (l + 1) - 1) = h
    BY <1>1 DEF Wrap, Pos
  <1> HIDE DEF l, r, s
  <1>9. /\ Append(r, x) \in Seq(Nat) /\ Len(Append(r, x)) = l + 1
        /\ \A i \in 1 .. l : Append(r, x)[i] = r[i]
        /\ Append(r, x)[l + 1] = x
    BY <1>5, AppendProperties
  <1>10. ASSUME NEW i \in 1 .. l PROVE s[i] = Append(r, x)[i]
    <2>1. i \in 1 .. l + 1
      BY <1>4
    <2>2. s[i] = c[Wrap(t + i - 1)]
      BY <1>6, <2>1
    <2>3. Append(r, x)[i] = b[Wrap(t + i - 1)]
      BY <1>5, <1>9
    <2>4. c[Wrap(t + i - 1)] = b[Wrap(t + i - 1)]
      BY <1>2, <1>5, <1>7
    <2> QED BY <2>2, <2>3, <2>4
  <1>11. s[l + 1] = Append(r, x)[l + 1]
    <2>1. l + 1 \in 1 .. l + 1
      BY <1>4
    <2>2. s[l + 1] = c[Wrap(t + (l + 1) - 1)]
      BY <1>6, <2>1, Zenon
    <2> QED BY <1>2, <1>8, <1>9, <2>2
  <1>12. \A i \in 1 .. Len(s) : s[i] = Append(r, x)[i]
    <2>1. ASSUME NEW i \in 1 .. Len(s) PROVE i \in 1 .. l \/ i = l + 1
      BY <1>4, <1>6
    <2> QED BY <1>10, <1>11, <2>1
  <1>13. s = Append(r, x)
    BY <1>6, <1>9, <1>12, SeqEqual
  <1> QED BY <1>13 DEF s, r, c

\* The byte that intq_getc() reads is the oldest, if there was one.
LEMMA RingRemove ==
  ASSUME NEW b \in [Pos -> Nat], NEW h \in Pos, NEW t \in Pos, h # t
  PROVE  /\ Ring(b, h, t) # <<>>
         /\ Head(Ring(b, h, t)) = b[t]
         /\ Tail(Ring(b, h, t)) = Ring(b, h, next(t))
  <1> DEFINE l == Wrap(h - t)
             r == Ring(b, h, t)
             s == Ring(b, h, next(t))
  <1>1. N \in Nat /\ N > 1
    BY SizeType
  <1>2. next(t) \in Pos /\ next(t) = IF t = N - 1 THEN 0 ELSE t + 1
    BY NextPos
  <1>3. l \in Nat \ {0} /\ Wrap(h - next(t)) = l - 1
    BY <1>1, <1>2 DEF Wrap, Pos
  <1>4. r \in Seq(Nat) /\ Len(r) = l /\ \A i \in 1 .. l : r[i] = b[Wrap(t + i - 1)]
    BY RingType
  <1>5. /\ s \in Seq(Nat) /\ Len(s) = l - 1
        /\ \A i \in 1 .. l - 1 : s[i] = b[Wrap(next(t) + i - 1)]
    BY <1>2, <1>3, RingType
  <1>6. ASSUME NEW i \in 1 .. l - 1 PROVE Wrap(next(t) + i - 1) = Wrap(t + (i + 1) - 1)
    BY <1>1, <1>2, <1>6 DEF Wrap, Pos
  <1>7. Wrap(t + 1 - 1) = t
    BY <1>1 DEF Wrap, Pos
  <1> HIDE DEF l, r, s
  <1>8. r # <<>> /\ Head(r) = b[t]
    BY <1>3, <1>4, <1>7
  <1>9. /\ Tail(r) \in Seq(Nat) /\ Len(Tail(r)) = l - 1
        /\ \A i \in 1 .. l - 1 : Tail(r)[i] = r[i + 1]
    BY <1>3, <1>4, <1>8, HeadTailProperties
  <1>10. ASSUME NEW i \in 1 .. l - 1 PROVE Tail(r)[i] = s[i]
    <2>1. i + 1 \in 1 .. l
      BY <1>3
    <2>2. Tail(r)[i] = b[Wrap(t + (i + 1) - 1)]
      BY <1>4, <1>9, <2>1
    <2> QED BY <1>5, <1>6, <2>2
  <1>11. Tail(r) = s
    BY <1>5, <1>9, <1>10, SeqEqual
  <1> QED BY <1>8, <1>11 DEF r, s

-----------------------------------------------------------------------------
(***************************************************************************)
(* struct intq: what the operations do to the bytes, and to the threads    *)
(* that wait.                                                              *)
(***************************************************************************)
LEMMA InsertQueue ==
  ASSUME NEW q \in Intq, NEW x \in Nat, ~ intq_full(q)
  PROVE  /\ Insert(q, x) \in Intq
         /\ Contents(Insert(q, x)) = Append(Contents(q), x)
         /\ Insert(q, x).lock = q.lock
         /\ Insert(q, x).not_full = q.not_full
         /\ Insert(q, x).not_empty = NULL
         /\ ~ intq_empty(Insert(q, x))
  <1> DEFINE r == Insert(q, x)
  <1>1. q.buf \in [Pos -> Nat] /\ q.head \in Pos /\ q.tail \in Pos /\ next(q.head) # q.tail
    BY DEF Intq, Pos, N, intq_full
  <1>2. next(q.head) \in Pos
    BY <1>1, NextPos
  <1>3. /\ r.buf = [q.buf EXCEPT ![q.head] = x]
        /\ r.head = next(q.head) /\ r.tail = q.tail
        /\ r.lock = q.lock /\ r.not_full = q.not_full /\ r.not_empty = NULL
    BY DEF Insert, Intq, Signalled
  <1>4. r \in Intq
    BY <1>1, <1>2 DEF Insert, Intq, Signalled, Pos, N
  <1>5. Contents(r) = Append(Contents(q), x)
    <2> HIDE DEF r
    <2>1. /\ Contents(r) = Ring(r.buf, r.head, r.tail)
          /\ Contents(q) = Ring(q.buf, q.head, q.tail)
      BY <1>4, ContentsIsRing
    <2>2. Ring([q.buf EXCEPT ![q.head] = x], next(q.head), q.tail)
            = Append(Ring(q.buf, q.head, q.tail), x)
      BY <1>1, RingInsert
    <2> QED BY <1>3, <2>1, <2>2, Zenon
  <1> QED BY <1>1, <1>3, <1>4, <1>5 DEF intq_empty

LEMMA RemoveQueue ==
  ASSUME NEW q \in Intq, ~ intq_empty(q)
  PROVE  /\ Remove(q) \in Intq
         /\ Contents(q) # <<>>
         /\ OldestByte(q) = Head(Contents(q))
         /\ Contents(Remove(q)) = Tail(Contents(q))
         /\ Remove(q).lock = q.lock
         /\ Remove(q).not_full = NULL
         /\ Remove(q).not_empty = q.not_empty
         /\ ~ intq_full(Remove(q))
  <1> DEFINE r == Remove(q)
  <1>1. q.buf \in [Pos -> Nat] /\ q.head \in Pos /\ q.tail \in Pos /\ q.head # q.tail
    BY DEF Intq, Pos, N, intq_empty
  <1>2. next(q.tail) \in Pos /\ next(q.head) # next(q.tail)
    <2>1. /\ next(q.tail) \in Pos /\ next(q.tail) = IF q.tail = N - 1 THEN 0 ELSE q.tail + 1
          /\ next(q.head) = IF q.head = N - 1 THEN 0 ELSE q.head + 1
      BY <1>1, NextPos, Zenon
    <2> QED BY <1>1, <2>1, SizeType DEF Pos
  <1>3. /\ r.buf = q.buf /\ r.head = q.head /\ r.tail = next(q.tail)
        /\ r.lock = q.lock /\ r.not_full = NULL /\ r.not_empty = q.not_empty
    BY DEF Remove, Intq, Signalled
  <1>4. r \in Intq
    BY <1>2 DEF Remove, Intq, Signalled, Pos, N
  <1>5. /\ Contents(q) # <<>>
        /\ OldestByte(q) = Head(Contents(q))
        /\ Contents(r) = Tail(Contents(q))
    BY <1>1, <1>3, <1>4, ContentsIsRing, RingRemove DEF OldestByte
  <1> QED BY <1>2, <1>3, <1>4, <1>5 DEF intq_full

LEMMA EmptyContents ==
  ASSUME NEW q \in Intq, intq_empty(q)
  PROVE  Contents(q) = <<>>
  <1>1. q.head \in Pos /\ q.tail \in Pos /\ q.buf \in [Pos -> Nat] /\ q.head = q.tail
    BY DEF Intq, Pos, N, intq_empty
  <1>2. Wrap(q.head - q.tail) = 0
    BY <1>1, SizeType DEF Wrap, Pos
  <1>3. Contents(q) \in Seq(Nat) /\ Len(Contents(q)) = 0
    BY <1>1, <1>2, ContentsIsRing, RingType
  <1> QED BY <1>3

\* serial_flush() leaves nothing.
LEMMA FlushQueue ==
  ASSUME NEW q \in Intq
  PROVE  LET r == [q EXCEPT !.tail = q.head, !.not_full = Signalled(@)]
         IN  /\ r \in Intq /\ Contents(r) = <<>>
             /\ r.lock = q.lock /\ r.not_full = NULL /\ r.not_empty = q.not_empty
             /\ intq_empty(r)
  <1> DEFINE r == [q EXCEPT !.tail = q.head, !.not_full = Signalled(@)]
  <1>1. r \in Intq
    BY DEF Intq, Signalled
  <1>2. /\ r.head = q.head /\ r.tail = q.head
        /\ r.lock = q.lock /\ r.not_full = NULL /\ r.not_empty = q.not_empty
    BY DEF Intq, Signalled
  <1>3. Contents(r) = <<>>
    BY <1>1, <1>2, EmptyContents DEF intq_empty
  <1> QED BY <1>1, <1>2, <1>3 DEF intq_empty

\* Taking and giving back the lock, and going to sleep, leave the bytes alone.
LEMMA SameBytes ==
  ASSUME NEW q \in Intq, NEW r \in Intq,
         r.buf = q.buf, r.head = q.head, r.tail = q.tail
  PROVE  /\ Contents(r) = Contents(q)
         /\ intq_full(r) <=> intq_full(q)
         /\ intq_empty(r) <=> intq_empty(q)
         /\ OldestByte(r) = OldestByte(q)
  BY DEF Contents, intq_full, intq_empty, OldestByte

LEMMA ContentsType ==
  ASSUME NEW q \in Intq
  PROVE  Contents(q) \in Seq(Nat)
  <1>1. q.buf \in [Pos -> Nat] /\ q.head \in Pos /\ q.tail \in Pos
    BY DEF Intq, Pos, N
  <1> QED BY <1>1, ContentsIsRing, RingType

\* A queue that is full has something in it.
LEMMA FullNotEmpty ==
  ASSUME NEW q \in Intq, intq_full(q)
  PROVE  ~ intq_empty(q)
  <1>1. q.head \in Pos /\ q.tail \in Pos
    BY DEF Intq, Pos, N
  <1> QED BY <1>1, NextPos, SizeType DEF Pos, intq_full, intq_empty

\* The bytes that left the queue, followed by those in it: what a byte that
\* enters adds, and what one that leaves keeps.
LEMMA EnterQueue ==
  ASSUME NEW out \in Seq(Nat), NEW s \in Seq(Nat), NEW x \in Nat
  PROVE  out \o Append(s, x) = Append(out \o s, x)
  <1>1. Append(s, x) = s \o <<x>> /\ <<x>> \in Seq(Nat)
    BY AppendIsConcat
  <1>2. out \o s \in Seq(Nat)
    BY ConcatProperties
  <1>3. Append(out \o s, x) = (out \o s) \o <<x>>
    BY <1>2, AppendIsConcat
  <1> QED BY <1>1, <1>3, ConcatAssociative

LEMMA LeaveQueue ==
  ASSUME NEW out \in Seq(Nat), NEW s \in Seq(Nat), s # <<>>
  PROVE  Append(out, Head(s)) \o Tail(s) = out \o s
  <1>1. Head(s) \in Nat /\ Tail(s) \in Seq(Nat)
    BY HeadTailProperties
  <1>2. Append(out, Head(s)) = out \o <<Head(s)>> /\ <<Head(s)>> \in Seq(Nat)
    BY <1>1, AppendIsConcat
  <1>3. <<Head(s)>> \o Tail(s) = s
    <2>1. /\ <<Head(s)>> \o Tail(s) \in Seq(Nat)
          /\ Len(<<Head(s)>> \o Tail(s)) = Len(s)
          /\ \A i \in 1 .. Len(s) : (<<Head(s)>> \o Tail(s))[i] = s[i]
      OBVIOUS
    <2> QED BY <2>1, SeqEqual
  <1> QED BY <1>1, <1>2, <1>3, ConcatAssociative

-----------------------------------------------------------------------------
(***************************************************************************)
(* Who waits.  The thread w a queue would wake sleeps, with the lock l;    *)
(* once woken it still holds the lock until it runs.                       *)
(***************************************************************************)
Place == {"out", "lock", "wait", "woken"}

Waits(S, w, l, places) ==
  \A t \in S : /\ places[t] = "wait" <=> w = t
               /\ places[t] \in {"wait", "woken"} <=> l = t

\* signal() wakes the sleeper and forgets it, and touches nobody else.
LEMMA WaitsWake ==
  ASSUME NEW S \in SUBSET Thread, NEW w \in S \union {NULL}, NEW l,
         NEW places \in [Thread -> Place], Waits(S, w, l, places)
  PROVE  /\ Wake(places, w) \in [Thread -> Place]
         /\ Waits(S, NULL, l, Wake(places, w))
         /\ \A t \in Thread \ S : Wake(places, w)[t] = places[t]
         /\ \A t \in S : places[t] = "out" => Wake(places, w)[t] = "out"
  <1>1. NULL \notin Thread
    BY SerialAssumption DEF Thread
  <1>2. CASE w = NULL
    BY <1>1, <1>2 DEF Wake, Waits
  <1>3. CASE w # NULL
    <2>1. w \in S /\ w \in Thread
      BY <1>3
    <2>2. /\ Wake(places, w) \in [Thread -> Place] /\ Wake(places, w)[w] = "woken"
          /\ \A t \in Thread \ {w} : Wake(places, w)[t] = places[t]
      BY <1>3, <2>1 DEF Wake, Place
    <2> QED BY <1>1, <2>1, <2>2 DEF Waits
  <1> QED BY <1>2, <1>3

\* The lock as its caller sees it: one that was woken gives it back first.
Given(l, t, places) == IF places[t] = "woken" THEN NULL ELSE l

\* A thread that finds the lock free may sleep, and is then the only one.
LEMMA WaitsSleep ==
  ASSUME NEW S \in SUBSET Thread, NEW w \in S \union {NULL}, NEW l \in S \union {NULL},
         NEW places \in [Thread -> Place], Waits(S, w, l, places), NEW t \in S,
         Given(l, t, places) = NULL
  PROVE  /\ [places EXCEPT ![t] = "wait"] \in [Thread -> Place]
         /\ Waits(S, t, t, [places EXCEPT ![t] = "wait"])
  <1>1. NULL \notin Thread
    BY SerialAssumption DEF Thread
  <1>2. ASSUME NEW u \in S, u # t PROVE places[u] \notin {"wait", "woken"}
    BY <1>1, <1>2 DEF Given, Waits
  <1>3. /\ [places EXCEPT ![t] = "wait"] \in [Thread -> Place]
        /\ [places EXCEPT ![t] = "wait"][t] = "wait"
        /\ \A u \in Thread \ {t} : [places EXCEPT ![t] = "wait"][u] = places[u]
    BY DEF Place
  <1> QED BY <1>2, <1>3 DEF Waits

\* A thread that does not sleep leaves, or queues for the lock.
LEMMA WaitsLeave ==
  ASSUME NEW S \in SUBSET Thread, NEW w \in S \union {NULL}, NEW l \in S \union {NULL},
         NEW places \in [Thread -> Place], Waits(S, w, l, places), NEW t \in S,
         places[t] # "wait", NEW p \in {"out", "lock"}
  PROVE  /\ [places EXCEPT ![t] = p] \in [Thread -> Place]
         /\ Waits(S, w, Given(l, t, places), [places EXCEPT ![t] = p])
  <1>1. NULL \notin Thread
    BY SerialAssumption DEF Thread
  <1>2. /\ [places EXCEPT ![t] = p] \in [Thread -> Place]
        /\ [places EXCEPT ![t] = p][t] = p
        /\ \A u \in Thread \ {t} : [places EXCEPT ![t] = p][u] = places[u]
    BY DEF Place
  <1>3. Given(l, t, places) # t
    BY <1>1 DEF Given, Waits
  <1>4. ASSUME NEW u \in S, u # t PROVE l = u <=> Given(l, t, places) = u
    BY <1>1, <1>4 DEF Given, Waits
  <1> QED BY <1>2, <1>3, <1>4 DEF Waits

(***************************************************************************)
(* The inductive invariant, one part for each direction.                   *)
(***************************************************************************)
TxInv ==
  /\ txq \in Intq /\ txq.lock \in Writer \union {NULL}
  /\ sent \in Seq(Nat) /\ wire \in Seq(Nat)
  /\ wire \o Contents(txq) = sent
  /\ Waits(Writer, txq.not_full, txq.lock, pc)
  /\ txq.not_full # NULL => intq_full(txq)
  /\ mode = "POLL" => intq_empty(txq) /\ \A t \in Writer : pc[t] = "out"

InInv ==
  /\ buffer \in Intq /\ buffer.lock \in Reader \union {NULL}
  /\ keys \in Seq(Nat) /\ got \in Seq(Nat)
  /\ got \o Contents(buffer) = keys
  /\ Waits(Reader, buffer.not_empty, buffer.lock, pc)
  /\ buffer.not_empty # NULL => intq_empty(buffer)

Control ==
  /\ mode \in {"POLL", "QUEUE_INIT", "QUEUE"}
  /\ ier \in SUBSET {"XMIT", "RECV"}
  /\ thr \in {"ready", "busy"}
  /\ pc \in [Thread -> Place]
  /\ panic \in BOOLEAN

IInv == Control /\ TxInv /\ InInv /\ IerCoversWork

LEMMA IInvImplies == IInv => TypeOK /\ BytesInOrder /\ SleepersHaveWakers
  <1> SUFFICES ASSUME IInv PROVE TypeOK /\ BytesInOrder /\ SleepersHaveWakers
    OBVIOUS
  <1> USE DEF IInv
  <1>1. TypeOK
    BY DEF Control, TxInv, InInv, TypeOK, Place
  <1>2. BytesInOrder
    BY DEF TxInv, InInv, BytesInOrder
  <1>3. WaiterIsAsleep
    <2>1. /\ Writer \cap Reader = {} /\ NULL \notin Thread
          /\ txq.not_full \in Writer \union {NULL} /\ buffer.not_empty \in Reader \union {NULL}
          /\ txq.lock \in Writer \union {NULL} /\ buffer.lock \in Reader \union {NULL}
      BY SerialAssumption DEF TxInv, InInv, Thread, Intq
    <2> QED BY <2>1 DEF TxInv, InInv, WaiterIsAsleep, Waits, Thread
  <1> QED BY <1>1, <1>2, <1>3 DEF SleepersHaveWakers

LEMMA InitIInv == Init => IInv
  <1> SUFFICES ASSUME Init PROVE IInv
    OBVIOUS
  <1> USE DEF Init
  <1>1. intq_init \in Intq
    BY SerialAssumption DEF Intq, intq_init
  <1>2. Contents(intq_init) = <<>> /\ intq_empty(intq_init)
    <2>1. Ring(intq_init.buf, 0, 0) = <<>>
      BY SizeType DEF Ring, Wrap
    <2>2. intq_init.head = 0 /\ intq_init.tail = 0
      BY DEF intq_init
    <2> QED BY <1>1, <2>1, <2>2, ContentsIsRing DEF intq_empty
  <1>3. /\ intq_init.lock = NULL /\ intq_init.not_full = NULL /\ intq_init.not_empty = NULL
    BY DEF intq_init
  <1>4. NULL \notin Writer /\ NULL \notin Reader
    BY SerialAssumption
  <1>5. TxInv
    BY <1>1, <1>2, <1>3, <1>4 DEF TxInv, Waits, Thread
  <1>6. InInv
    BY <1>1, <1>2, <1>3, <1>4 DEF InInv, Waits, Thread
  <1>7. Control /\ IerCoversWork
    BY DEF Control, IerCoversWork, Place
  <1> QED BY <1>5, <1>6, <1>7 DEF IInv

-----------------------------------------------------------------------------
(***************************************************************************)
(* The steps.  Each leaves one direction alone, or works on a queue as the *)
(* lemmas above describe.                                                  *)
(***************************************************************************)
LEMMA TxSame ==
  ASSUME TxInv, txq' = txq, sent' = sent, wire' = wire,
         mode' = mode \/ mode' # "POLL",
         \A t \in Writer : pc'[t] = pc[t]
  PROVE  TxInv'
  BY DEF TxInv, Waits

LEMMA InSame ==
  ASSUME InInv, buffer' = buffer, keys' = keys, got' = got,
         \A t \in Reader : pc'[t] = pc[t]
  PROVE  InInv'
  BY DEF InInv, Waits

\* write_ier() looks at both queues, so that it may be called at any time.
LEMMA IerWritten ==
  ASSUME ier' = write_ier(txq', buffer')
  PROVE  IerCoversWork' /\ ier' \in SUBSET {"XMIT", "RECV"}
  BY DEF IerCoversWork, write_ier

\* The register may be left when the transmit queue only drains and the input
\* buffer stays full, or not full.
LEMMA IerKept ==
  ASSUME IerCoversWork, ier' = ier, mode' = mode \/ mode' # "QUEUE",
         intq_empty(txq) => intq_empty(txq'),
         intq_full(buffer') <=> intq_full(buffer)
  PROVE  IerCoversWork'
  BY DEF IerCoversWork

LEMMA Types ==
  /\ Writer \in SUBSET Thread /\ Reader \in SUBSET Thread
  /\ \A t \in Reader : t \in Thread \ Writer
  /\ \A t \in Writer : t \in Thread \ Reader
  /\ NULL \notin Thread
  BY SerialAssumption DEF Thread

LEMMA ModeSteps ==
  ASSUME IInv, SetQueueMode \/ EnableQueue
  PROVE  IInv'
  <1> USE DEF IInv
  <1>1. /\ txq' = txq /\ buffer' = buffer /\ thr' = thr /\ pc' = pc /\ sent' = sent
        /\ wire' = wire /\ keys' = keys /\ got' = got /\ panic' = panic
        /\ mode' \in {"QUEUE_INIT", "QUEUE"}
    BY DEF SetQueueMode, EnableQueue
  <1>2. TxInv' /\ InInv'
    BY <1>1, TxSame, InSame
  <1>3. IerCoversWork' /\ ier' \in SUBSET {"XMIT", "RECV"}
    <2>1. CASE SetQueueMode
      BY <2>1 DEF SetQueueMode, IerCoversWork, Control
    <2>2. CASE EnableQueue
      <3>1. ier' = write_ier(txq', buffer')
        BY <1>1, <2>2 DEF EnableQueue
      <3> QED BY <3>1, IerWritten
    <2> QED BY <2>1, <2>2
  <1>4. Control'
    BY <1>1, <1>3 DEF Control
  <1> QED BY <1>2, <1>3, <1>4

LEMMA PollStep ==
  ASSUME IInv, NEW t \in Writer, serial_putc_poll(t)
  PROVE  IInv'
  <1> USE DEF IInv
  <1>1. /\ txq' = txq /\ buffer' = buffer /\ thr' = "busy" /\ pc' = pc /\ ier' = ier
        /\ mode' = mode /\ keys' = keys /\ got' = got /\ panic' = panic
        /\ mode = "POLL"
        /\ sent' = Append(sent, Len(sent) + 1) /\ wire' = Append(wire, Len(sent) + 1)
    BY DEF serial_putc_poll
  <1>2. InInv'
    BY <1>1, InSame
  <1>3. TxInv'
    <2>1. Contents(txq) = <<>>
      BY <1>1, EmptyContents DEF TxInv
    <2>2. wire = sent
      BY <2>1, ConcatEmptySeq DEF TxInv
    <2>3. sent' \in Seq(Nat) /\ wire' \in Seq(Nat) /\ wire' = sent'
      BY <1>1, <2>2 DEF TxInv
    <2>4. wire' \o Contents(txq') = sent'
      BY <1>1, <2>1, <2>3, ConcatEmptySeq
    <2> QED BY <1>1, <2>3, <2>4 DEF TxInv
  <1>4. IerCoversWork'
    BY <1>1, IerKept
  <1> QED BY <1>1, <1>2, <1>3, <1>4 DEF Control

\* The queue as intq_putc() and intq_getc() find it when they test it.
LEMMA Entered ==
  ASSUME NEW S \in SUBSET Thread, NEW q \in Intq, NEW t \in S,
         NEW places \in [Thread -> Place]
  PROVE  LET r == IF places[t] = "woken" THEN [q EXCEPT !.lock = NULL] ELSE q
         IN  /\ r \in Intq
             /\ r.buf = q.buf /\ r.head = q.head /\ r.tail = q.tail
             /\ r.not_full = q.not_full /\ r.not_empty = q.not_empty
             /\ r.lock = Given(q.lock, t, places)
  BY DEF Intq, Given

\* wait(): the caller holds the lock and is the one to wake.
LEMMA AsleepForRoom ==
  ASSUME NEW q \in Intq, NEW t \in Writer
  PROVE  LET r == [q EXCEPT !.lock = t, !.not_full = t]
         IN  /\ r \in Intq
             /\ r.buf = q.buf /\ r.head = q.head /\ r.tail = q.tail
             /\ r.lock = t /\ r.not_full = t
  BY DEF Intq, Thread

LEMMA AsleepForByte ==
  ASSUME NEW q \in Intq, NEW t \in Reader
  PROVE  LET r == [q EXCEPT !.lock = t, !.not_empty = t]
         IN  /\ r \in Intq
             /\ r.buf = q.buf /\ r.head = q.head /\ r.tail = q.tail
             /\ r.lock = t /\ r.not_empty = t
  BY DEF Intq, Thread

\* A writer goes to sleep in a full queue whose lock it can have.
LEMMA WriterSleeps ==
  ASSUME Control, TxInv, NEW t \in Writer, NEW q \in Intq,
         q.buf = txq.buf, q.head = txq.head, q.tail = txq.tail,
         Given(txq.lock, t, pc) = NULL, intq_full(txq), WaitNotFull(t, q),
         wire' = wire, mode' = mode, mode # "POLL"
  PROVE  /\ TxInv' /\ pc' \in [Thread -> Place]
         /\ \A u \in Reader : pc'[u] = pc[u]
         /\ ier' = ier
         /\ intq_empty(txq') <=> intq_empty(txq)
  <1>1. txq' = [q EXCEPT !.lock = t, !.not_full = t] /\ sent' = sent /\ ier' = ier
        /\ pc' = [pc EXCEPT ![t] = "wait"]
    BY DEF WaitNotFull
  <1>2. /\ txq' \in Intq /\ txq'.lock = t /\ txq'.not_full = t
        /\ txq'.buf = txq.buf /\ txq'.head = txq.head /\ txq'.tail = txq.tail
    BY <1>1, AsleepForRoom
  <1>3. /\ txq \in Intq /\ txq.lock \in Writer \union {NULL}
        /\ txq.not_full \in Writer \union {NULL}
        /\ pc \in [Thread -> Place] /\ Waits(Writer, txq.not_full, txq.lock, pc)
    BY DEF TxInv, Control, Intq
  <1>4. pc' \in [Thread -> Place] /\ Waits(Writer, t, t, pc')
    BY <1>1, <1>3, Types, WaitsSleep, Zenon
  <1>5. /\ Contents(txq') = Contents(txq) /\ (intq_full(txq') <=> intq_full(txq))
        /\ intq_empty(txq') <=> intq_empty(txq)
    BY <1>2, <1>3, SameBytes
  <1>6. TxInv'
    BY <1>1, <1>2, <1>4, <1>5 DEF TxInv
  <1>7. \A u \in Reader : pc'[u] = pc[u]
    BY <1>1, <1>3, Types
  <1> QED BY <1>1, <1>4, <1>5, <1>6, <1>7

LEMMA PutcStep ==
  ASSUME IInv, NEW t \in Writer, serial_putc(t)
  PROVE  IInv'
  <1> DEFINE q == IF pc[t] = "woken" THEN [txq EXCEPT !.lock = NULL] ELSE txq
             x == Len(sent) + 1
  <1> USE DEF IInv
  <1>1. /\ txq \in Intq /\ txq.lock \in Writer \union {NULL}
        /\ txq.not_full \in Writer \union {NULL} /\ sent \in Seq(Nat) /\ wire \in Seq(Nat)
        /\ wire \o Contents(txq) = sent
        /\ pc \in [Thread -> Place] /\ Waits(Writer, txq.not_full, txq.lock, pc)
    BY DEF TxInv, Control, Intq
  <1>2. /\ buffer' = buffer /\ mode' = mode /\ thr' = thr /\ wire' = wire
        /\ keys' = keys /\ got' = got /\ panic' = panic
        /\ pc[t] \in {"out", "woken"} /\ mode # "POLL"
    BY DEF serial_putc, Queued, TxInv
  <1>3. /\ q \in Intq /\ q.buf = txq.buf /\ q.head = txq.head /\ q.tail = txq.tail
        /\ q.not_full = txq.not_full /\ q.lock = Given(txq.lock, t, pc)
    BY <1>1, Entered, Types
  <1>4. \/ PutByte(t, q)
        \/ intq_full(q) /\ q.lock = NULL /\ WaitNotFull(t, q)
        \/ intq_full(q) /\ QueueForLock(t, q) /\ UNCHANGED <<txq, sent, ier>>
    BY DEF serial_putc
  <1> HIDE DEF q
  <1>5. Contents(q) = Contents(txq) /\ (intq_full(q) <=> intq_full(txq))
    BY <1>1, <1>3, SameBytes
  <1>6. t \in Thread /\ t \notin Reader
    BY Types
  <1>7. CASE PutByte(t, q)
    <2>1. /\ ~ intq_full(q) /\ txq' = Insert(q, x) /\ sent' = Append(sent, x)
          /\ pc' = [pc EXCEPT ![t] = "out"] /\ ier' = write_ier(txq', buffer')
      BY <1>2, <1>7 DEF PutByte
    <2>2. x \in Nat
      BY <1>1
    <2> HIDE DEF x
    <2>3. /\ txq' \in Intq /\ Contents(txq') = Append(Contents(q), x)
          /\ txq'.lock = q.lock /\ txq'.not_full = q.not_full
      BY <1>3, <2>1, <2>2, InsertQueue
    <2>4. sent' \in Seq(Nat) /\ wire' \o Contents(txq') = sent'
      <3>1. sent' \in Seq(Nat) /\ Contents(txq) \in Seq(Nat)
        BY <1>1, <2>1, <2>2, AppendProperties, ContentsType
      <3>2. wire \o Append(Contents(txq), x) = Append(wire \o Contents(txq), x)
        BY <1>1, <2>2, <3>1, EnterQueue
      <3> QED BY <1>1, <1>2, <1>5, <2>1, <2>3, <3>1, <3>2
    <2>5. pc' \in [Thread -> Place] /\ Waits(Writer, txq'.not_full, txq'.lock, pc')
      <3>1. pc[t] # "wait"
        BY <1>2
      <3>2. /\ pc' \in [Thread -> Place]
            /\ Waits(Writer, txq.not_full, Given(txq.lock, t, pc), pc')
        BY <1>1, <2>1, <3>1, Types, WaitsLeave, Zenon
      <3> QED BY <1>3, <2>3, <3>2
    <2>6. txq'.not_full = NULL
      BY <1>3, <1>5, <2>1, <2>3 DEF TxInv
    <2>7. txq'.lock \in Writer \union {NULL}
      BY <1>1, <1>3, <2>3 DEF Given
    <2>8. TxInv'
      BY <1>1, <1>2, <2>3, <2>4, <2>5, <2>6, <2>7 DEF TxInv
    <2>9. InInv'
      BY <1>1, <1>2, <1>6, <2>1, InSame, Types
    <2>10. IerCoversWork' /\ ier' \in SUBSET {"XMIT", "RECV"}
      BY <2>1, IerWritten
    <2> QED BY <1>2, <2>5, <2>8, <2>9, <2>10 DEF Control
  <1>8. CASE intq_full(q) /\ q.lock = NULL /\ WaitNotFull(t, q)
    <2>1. /\ TxInv' /\ pc' \in [Thread -> Place] /\ ier' = ier
          /\ \A u \in Reader : pc'[u] = pc[u]
          /\ intq_empty(txq') <=> intq_empty(txq)
      BY <1>2, <1>3, <1>5, <1>8, WriterSleeps
    <2>2. InInv'
      BY <1>2, <2>1, InSame
    <2>3. IerCoversWork'
      BY <1>2, <2>1, IerKept
    <2> QED BY <1>2, <2>1, <2>2, <2>3 DEF Control
  <1>9. CASE intq_full(q) /\ QueueForLock(t, q) /\ UNCHANGED <<txq, sent, ier>>
    <2>1. q.lock # NULL /\ pc' = [pc EXCEPT ![t] = "lock"]
      BY <1>9 DEF QueueForLock
    <2>2. q.lock = txq.lock /\ pc[t] = "out"
      BY <1>2, <1>3, <2>1 DEF Given
    <2>3. pc[t] # "wait"
      BY <1>2
    <2>4. pc' \in [Thread -> Place] /\ Waits(Writer, txq.not_full, q.lock, pc')
      <3>1. /\ pc' \in [Thread -> Place]
            /\ Waits(Writer, txq.not_full, Given(txq.lock, t, pc), pc')
        BY <1>1, <2>1, <2>3, Types, WaitsLeave, Zenon
      <3> QED BY <1>3, <3>1
    <2>5. TxInv'
      BY <1>2, <1>9, <2>2, <2>4 DEF TxInv
    <2>6. InInv'
      BY <1>1, <1>2, <1>6, <2>1, InSame, Types
    <2>7. IerCoversWork'
      BY <1>2, <1>9, IerKept
    <2> QED BY <1>2, <1>9, <2>4, <2>5, <2>6, <2>7 DEF Control
  <1> QED BY <1>4, <1>7, <1>8, <1>9

LEMMA PutLockedStep ==
  ASSUME IInv, NEW t \in Writer, PutLocked(t)
  PROVE  IInv'
  <1> USE DEF IInv
  <1>1. /\ pc[t] = "lock" /\ txq.lock = NULL /\ buffer' = buffer /\ mode' = mode
        /\ thr' = thr /\ wire' = wire /\ keys' = keys /\ got' = got /\ mode # "POLL"
    BY DEF PutLocked, TxInv
  <1>2. CASE intq_full(txq) /\ WaitNotFull(t, txq) /\ UNCHANGED panic
    <2>1. Given(txq.lock, t, pc) = NULL /\ txq \in Intq
      BY <1>1 DEF Given, TxInv
    <2>2. /\ TxInv' /\ pc' \in [Thread -> Place] /\ ier' = ier
          /\ \A u \in Reader : pc'[u] = pc[u]
          /\ intq_empty(txq') <=> intq_empty(txq)
      BY <1>1, <1>2, <2>1, WriterSleeps
    <2>3. InInv'
      BY <1>1, <2>2, InSame
    <2>4. IerCoversWork'
      BY <1>1, <2>2, IerKept
    <2> QED BY <1>1, <1>2, <2>2, <2>3, <2>4 DEF Control
  <1>3. CASE panic' = TRUE /\ UNCHANGED <<txq, pc, sent, ier>>
    <2>1. TxInv' /\ InInv' /\ IerCoversWork'
      BY <1>1, <1>3, TxSame, InSame, IerKept
    <2> QED BY <1>1, <1>3, <2>1 DEF Control
  <1> QED BY <1>2, <1>3 DEF PutLocked

\* A byte leaves the transmit queue, and the writer that waits is woken.
LEMMA ByteLeaves ==
  ASSUME Control, TxInv, ~ intq_empty(txq)
  PROVE  LET q == Remove(txq)
             p == Wake(pc, txq.not_full)
             w == Append(wire, OldestByte(txq))
         IN  /\ q \in Intq /\ q.lock = txq.lock /\ q.not_full = NULL /\ ~ intq_full(q)
             /\ w \in Seq(Nat) /\ w \o Contents(q) = sent
             /\ p \in [Thread -> Place] /\ Waits(Writer, NULL, txq.lock, p)
             /\ \A t \in Reader : p[t] = pc[t]
             /\ mode # "POLL"
  <1>1. /\ txq \in Intq /\ txq.lock \in Writer \union {NULL}
        /\ txq.not_full \in Writer \union {NULL} /\ sent \in Seq(Nat) /\ wire \in Seq(Nat)
        /\ wire \o Contents(txq) = sent
        /\ pc \in [Thread -> Place] /\ Waits(Writer, txq.not_full, txq.lock, pc)
    BY DEF TxInv, Control, Intq
  <1>2. /\ Remove(txq) \in Intq /\ Contents(txq) # <<>>
        /\ OldestByte(txq) = Head(Contents(txq))
        /\ Contents(Remove(txq)) = Tail(Contents(txq))
        /\ Remove(txq).lock = txq.lock /\ Remove(txq).not_full = NULL
        /\ ~ intq_full(Remove(txq))
    BY <1>1, RemoveQueue
  <1>3. Contents(txq) \in Seq(Nat)
    BY <1>1, ContentsType
  <1>4. Append(wire, OldestByte(txq)) \in Seq(Nat)
    <2>1. OldestByte(txq) \in Nat
      BY <1>2, <1>3, HeadTailProperties
    <2> QED BY <1>1, <2>1, AppendProperties
  <1>5. Append(wire, OldestByte(txq)) \o Contents(Remove(txq)) = sent
    BY <1>1, <1>2, <1>3, LeaveQueue
  <1>6. /\ Wake(pc, txq.not_full) \in [Thread -> Place]
        /\ Waits(Writer, NULL, txq.lock, Wake(pc, txq.not_full))
        /\ \A t \in Thread \ Writer : Wake(pc, txq.not_full)[t] = pc[t]
    <2>1. Writer \in SUBSET Thread
      BY Types
    <2> QED BY <1>1, <2>1, WaitsWake
  <1>7. mode # "POLL"
    BY DEF TxInv
  <1> QED BY <1>2, <1>4, <1>5, <1>6, <1>7, Types

LEMMA IntrOffStep ==
  ASSUME IInv, serial_putc_intr_off
  PROVE  IInv'
  <1> DEFINE full == intq_full(txq)
             q    == IF full THEN Remove(txq) ELSE txq
             x    == Len(sent) + 1
             p    == IF full THEN Wake(pc, txq.not_full) ELSE pc
             w    == IF full THEN Append(wire, OldestByte(txq)) ELSE wire
  <1> USE DEF IInv
  <1>1. /\ txq' = Insert(q, x) /\ sent' = Append(sent, x) /\ pc' = p /\ wire' = w
        /\ thr' \in {"ready", "busy"} /\ ier' = write_ier(txq', buffer')
        /\ buffer' = buffer /\ mode' = mode /\ keys' = keys /\ got' = got
        /\ panic' = panic /\ mode # "POLL"
    BY DEF serial_putc_intr_off, PolledByte, Control, Queued
  <1>2. x \in Nat /\ sent \in Seq(Nat)
    BY DEF TxInv
  <1>3. /\ q \in Intq /\ q.lock = txq.lock /\ q.not_full = NULL /\ ~ intq_full(q)
        /\ w \in Seq(Nat) /\ w \o Contents(q) = sent
        /\ p \in [Thread -> Place] /\ Waits(Writer, NULL, txq.lock, p)
        /\ \A t \in Reader : p[t] = pc[t]
    <2>1. CASE full
      <3>1. ~ intq_empty(txq)
        BY <2>1, FullNotEmpty DEF TxInv
      <3> QED BY <2>1, <3>1, ByteLeaves
    <2>2. CASE ~ full
      <3>1. txq.not_full = NULL
        BY <2>2 DEF TxInv
      <3> QED BY <2>2, <3>1 DEF TxInv, Control
    <2> QED BY <2>1, <2>2
  <1> HIDE DEF full, q, x, p, w
  <1>4. /\ txq' \in Intq /\ Contents(txq') = Append(Contents(q), x)
        /\ txq'.lock = txq.lock /\ txq'.not_full = NULL
    BY <1>1, <1>2, <1>3, InsertQueue
  <1>5. sent' \in Seq(Nat) /\ wire' \o Contents(txq') = sent'
    <2>1. sent' \in Seq(Nat) /\ Contents(q) \in Seq(Nat)
      BY <1>1, <1>2, <1>3, AppendProperties, ContentsType
    <2>2. w \o Append(Contents(q), x) = Append(w \o Contents(q), x)
      BY <1>2, <1>3, <2>1, EnterQueue
    <2> QED BY <1>1, <1>3, <1>4, <2>1, <2>2
  <1>6. TxInv'
    BY <1>1, <1>3, <1>4, <1>5 DEF TxInv
  <1>7. InInv'
    BY <1>1, <1>3, InSame
  <1>8. IerCoversWork' /\ ier' \in SUBSET {"XMIT", "RECV"}
    BY <1>1, IerWritten
  <1> QED BY <1>1, <1>3, <1>6, <1>7, <1>8 DEF Control

LEMMA FlushStep ==
  ASSUME IInv, serial_flush
  PROVE  IInv'
  <1> USE DEF IInv
  <1>1. /\ txq' = [txq EXCEPT !.tail = txq.head, !.not_full = Signalled(@)]
        /\ wire' = wire \o Contents(txq) /\ pc' = Wake(pc, txq.not_full)
        /\ thr' = "busy" /\ buffer' = buffer /\ mode' = mode /\ ier' = ier
        /\ sent' = sent /\ keys' = keys /\ got' = got /\ panic' = panic
        /\ mode # "POLL"
    BY DEF serial_flush, TxInv
  <1>2. /\ txq \in Intq /\ txq.lock \in Writer \union {NULL}
        /\ txq.not_full \in Writer \union {NULL} /\ sent \in Seq(Nat)
        /\ wire \o Contents(txq) = sent
        /\ pc \in [Thread -> Place] /\ Waits(Writer, txq.not_full, txq.lock, pc)
    BY DEF TxInv, Control, Intq
  <1>3. /\ txq' \in Intq /\ Contents(txq') = <<>> /\ txq'.lock = txq.lock
        /\ txq'.not_full = NULL /\ intq_empty(txq')
    BY <1>1, <1>2, FlushQueue
  <1>4. /\ pc' \in [Thread -> Place] /\ Waits(Writer, NULL, txq.lock, pc')
        /\ \A t \in Thread \ Writer : pc'[t] = pc[t]
    <2>1. Writer \in SUBSET Thread
      BY Types
    <2>2. /\ Wake(pc, txq.not_full) \in [Thread -> Place]
          /\ Waits(Writer, NULL, txq.lock, Wake(pc, txq.not_full))
          /\ \A t \in Thread \ Writer : Wake(pc, txq.not_full)[t] = pc[t]
      BY <1>2, <2>1, WaitsWake
    <2> QED BY <1>1, <2>2
  <1>5. wire' \in Seq(Nat) /\ wire' \o Contents(txq') = sent'
    <2>1. wire' = sent
      BY <1>1, <1>2
    <2> QED BY <1>1, <1>2, <1>3, <2>1, ConcatEmptySeq
  <1>6. TxInv'
    BY <1>1, <1>2, <1>3, <1>4, <1>5 DEF TxInv
  <1>7. InInv'
    BY <1>1, <1>4, InSame, Types
  <1>8. IerCoversWork'
    BY <1>1, <1>3, IerKept
  <1> QED BY <1>1, <1>4, <1>6, <1>7, <1>8 DEF Control

\* A key enters the input buffer, and the reader that waits is woken.
LEMMA KeyEnters ==
  ASSUME Control, InInv, ~ intq_full(buffer)
  PROVE  LET x == Len(keys) + 1
             q == Insert(buffer, x)
             p == Wake(pc, buffer.not_empty)
         IN  /\ q \in Intq /\ q.lock = buffer.lock /\ q.not_empty = NULL
             /\ Append(keys, x) \in Seq(Nat) /\ got \o Contents(q) = Append(keys, x)
             /\ p \in [Thread -> Place] /\ Waits(Reader, NULL, buffer.lock, p)
             /\ \A t \in Writer : p[t] = pc[t]
  <1> DEFINE x == Len(keys) + 1
  <1>1. /\ buffer \in Intq /\ buffer.not_empty \in Reader \union {NULL}
        /\ keys \in Seq(Nat) /\ got \in Seq(Nat) /\ got \o Contents(buffer) = keys
        /\ pc \in [Thread -> Place] /\ Waits(Reader, buffer.not_empty, buffer.lock, pc)
    BY DEF InInv, Control, Intq
  <1>2. x \in Nat
    BY <1>1
  <1> HIDE DEF x
  <1>3. /\ Insert(buffer, x) \in Intq
        /\ Contents(Insert(buffer, x)) = Append(Contents(buffer), x)
        /\ Insert(buffer, x).lock = buffer.lock /\ Insert(buffer, x).not_empty = NULL
    BY <1>1, <1>2, InsertQueue
  <1>4. Append(keys, x) \in Seq(Nat) /\ Contents(buffer) \in Seq(Nat)
    BY <1>1, <1>2, AppendProperties, ContentsType
  <1>5. got \o Append(Contents(buffer), x) = Append(got \o Contents(buffer), x)
    BY <1>1, <1>2, <1>4, EnterQueue
  <1>6. /\ Wake(pc, buffer.not_empty) \in [Thread -> Place]
        /\ Waits(Reader, NULL, buffer.lock, Wake(pc, buffer.not_empty))
        /\ \A t \in Thread \ Reader : Wake(pc, buffer.not_empty)[t] = pc[t]
    <2>1. Reader \in SUBSET Thread
      BY Types
    <2> QED BY <1>1, <2>1, WaitsWake
  <1> QED BY <1>1, <1>3, <1>4, <1>5, <1>6, Types DEF x

\* serial_notify(): the register follows the queues once there is one.
LEMMA Notified ==
  ASSUME IInv, txq' = txq, mode' = mode, serial_notify(buffer')
  PROVE  IerCoversWork' /\ ier' \in SUBSET {"XMIT", "RECV"}
  <1>1. CASE Queued
    <2>1. ier' = write_ier(txq', buffer')
      BY <1>1 DEF serial_notify
    <2> QED BY <2>1, IerWritten
  <1>2. CASE ~ Queued
    BY <1>2 DEF serial_notify, Queued, IInv, Control, IerCoversWork
  <1> QED BY <1>1, <1>2

LEMMA KeyboardStep ==
  ASSUME IInv, keyboard_interrupt
  PROVE  IInv'
  <1> USE DEF IInv
  <1>1. /\ ~ intq_full(buffer) /\ buffer' = Insert(buffer, Len(keys) + 1)
        /\ keys' = Append(keys, Len(keys) + 1) /\ pc' = Wake(pc, buffer.not_empty)
        /\ serial_notify(buffer') /\ txq' = txq /\ mode' = mode /\ thr' = thr
        /\ sent' = sent /\ wire' = wire /\ got' = got /\ panic' = panic
    BY DEF keyboard_interrupt
  <1>2. /\ buffer' \in Intq /\ buffer'.lock = buffer.lock /\ buffer'.not_empty = NULL
        /\ keys' \in Seq(Nat) /\ got \o Contents(buffer') = keys'
        /\ pc' \in [Thread -> Place] /\ Waits(Reader, NULL, buffer.lock, pc')
        /\ \A t \in Writer : pc'[t] = pc[t]
    BY <1>1, KeyEnters
  <1>3. InInv'
    BY <1>1, <1>2 DEF InInv
  <1>4. TxInv'
    BY <1>1, <1>2, TxSame
  <1>5. IerCoversWork' /\ ier' \in SUBSET {"XMIT", "RECV"}
    BY <1>1, Notified
  <1> QED BY <1>1, <1>2, <1>3, <1>4, <1>5 DEF Control

\* A reader goes to sleep at an empty buffer whose lock it can have.
LEMMA ReaderSleeps ==
  ASSUME Control, InInv, NEW t \in Reader, NEW q \in Intq,
         q.buf = buffer.buf, q.head = buffer.head, q.tail = buffer.tail,
         Given(buffer.lock, t, pc) = NULL, intq_empty(buffer),
         buffer' = [q EXCEPT !.lock = t, !.not_empty = t],
         pc' = [pc EXCEPT ![t] = "wait"], keys' = keys, got' = got
  PROVE  /\ InInv' /\ pc' \in [Thread -> Place]
         /\ \A u \in Writer : pc'[u] = pc[u]
         /\ intq_full(buffer') <=> intq_full(buffer)
  <1>1. /\ buffer' \in Intq /\ buffer'.lock = t /\ buffer'.not_empty = t
        /\ buffer'.buf = buffer.buf /\ buffer'.head = buffer.head
        /\ buffer'.tail = buffer.tail
    BY AsleepForByte
  <1>2. /\ buffer \in Intq /\ buffer.lock \in Reader \union {NULL}
        /\ buffer.not_empty \in Reader \union {NULL}
        /\ pc \in [Thread -> Place] /\ Waits(Reader, buffer.not_empty, buffer.lock, pc)
    BY DEF InInv, Control, Intq
  <1>3. pc' \in [Thread -> Place] /\ Waits(Reader, t, t, pc')
    BY <1>2, Types, WaitsSleep, Zenon
  <1>4. /\ Contents(buffer') = Contents(buffer)
        /\ intq_full(buffer') <=> intq_full(buffer)
        /\ intq_empty(buffer') <=> intq_empty(buffer)
    BY <1>1, <1>2, SameBytes
  <1>5. InInv'
    BY <1>1, <1>3, <1>4 DEF InInv
  <1>6. \A u \in Writer : pc'[u] = pc[u]
    BY <1>2, Types
  <1> QED BY <1>3, <1>4, <1>5, <1>6

LEMMA GetcStep ==
  ASSUME IInv, NEW t \in Reader, input_getc(t)
  PROVE  IInv'
  <1> DEFINE q == IF pc[t] = "woken" THEN [buffer EXCEPT !.lock = NULL] ELSE buffer
  <1> USE DEF IInv
  <1>1. /\ buffer \in Intq /\ buffer.lock \in Reader \union {NULL}
        /\ buffer.not_empty \in Reader \union {NULL} /\ keys \in Seq(Nat) /\ got \in Seq(Nat)
        /\ got \o Contents(buffer) = keys
        /\ pc \in [Thread -> Place] /\ Waits(Reader, buffer.not_empty, buffer.lock, pc)
    BY DEF InInv, Control, Intq
  <1>2. /\ txq' = txq /\ mode' = mode /\ thr' = thr /\ sent' = sent /\ wire' = wire
        /\ keys' = keys /\ panic' = panic /\ pc[t] \in {"out", "woken"}
    BY DEF input_getc
  <1>3. /\ q \in Intq /\ q.buf = buffer.buf /\ q.head = buffer.head /\ q.tail = buffer.tail
        /\ q.not_empty = buffer.not_empty /\ q.lock = Given(buffer.lock, t, pc)
    BY <1>1, Entered, Types
  <1>4. \/ /\ ~ intq_empty(q)
           /\ got' = Append(got, OldestByte(q))
           /\ buffer' = Remove(q)
           /\ pc' = [pc EXCEPT ![t] = "out"]
           /\ serial_notify(buffer')
        \/ /\ intq_empty(q) /\ q.lock = NULL
           /\ buffer' = [q EXCEPT !.lock = t, !.not_empty = t]
           /\ pc' = [pc EXCEPT ![t] = "wait"]
           /\ UNCHANGED <<got, ier>>
        \/ /\ intq_empty(q)
           /\ QueueForLock(t, q)
           /\ UNCHANGED <<buffer, got, ier>>
    BY DEF input_getc
  <1> HIDE DEF q
  <1>5. Contents(q) = Contents(buffer) /\ (intq_empty(q) <=> intq_empty(buffer))
    BY <1>1, <1>3, SameBytes
  <1>6. t \in Thread /\ t \notin Writer /\ pc[t] # "wait"
    BY <1>2, Types
  <1>7. CASE /\ ~ intq_empty(q)
             /\ got' = Append(got, OldestByte(q))
             /\ buffer' = Remove(q)
             /\ pc' = [pc EXCEPT ![t] = "out"]
             /\ serial_notify(buffer')
    <2>1. /\ buffer' \in Intq /\ Contents(q) # <<>>
          /\ OldestByte(q) = Head(Contents(q)) /\ Contents(buffer') = Tail(Contents(q))
          /\ buffer'.lock = q.lock /\ buffer'.not_empty = q.not_empty
      BY <1>3, <1>7, RemoveQueue
    <2>2. Contents(q) \in Seq(Nat)
      BY <1>3, ContentsType
    <2>3. got' \in Seq(Nat)
      <3>1. OldestByte(q) \in Nat
        BY <2>1, <2>2, HeadTailProperties
      <3> QED BY <1>1, <1>7, <3>1, AppendProperties
    <2>4. got' \o Contents(buffer') = keys'
      BY <1>1, <1>2, <1>5, <1>7, <2>1, <2>2, LeaveQueue
    <2>5. pc' \in [Thread -> Place] /\ Waits(Reader, buffer'.not_empty, buffer'.lock, pc')
      <3>1. /\ pc' \in [Thread -> Place]
            /\ Waits(Reader, buffer.not_empty, Given(buffer.lock, t, pc), pc')
        BY <1>1, <1>6, <1>7, Types, WaitsLeave, Zenon
      <3> QED BY <1>3, <2>1, <3>1
    <2>6. buffer'.not_empty = NULL /\ buffer'.lock \in Reader \union {NULL}
      BY <1>1, <1>3, <1>5, <1>7, <2>1 DEF InInv, Given
    <2>7. InInv'
      BY <1>1, <1>2, <2>1, <2>3, <2>4, <2>5, <2>6 DEF InInv
    <2>8. TxInv'
      BY <1>1, <1>2, <1>6, <1>7, TxSame, Types
    <2>9. IerCoversWork' /\ ier' \in SUBSET {"XMIT", "RECV"}
      BY <1>2, <1>7, Notified
    <2> QED BY <1>2, <2>5, <2>7, <2>8, <2>9 DEF Control
  <1>8. CASE /\ intq_empty(q) /\ q.lock = NULL
             /\ buffer' = [q EXCEPT !.lock = t, !.not_empty = t]
             /\ pc' = [pc EXCEPT ![t] = "wait"]
             /\ UNCHANGED <<got, ier>>
    <2>1. /\ InInv' /\ pc' \in [Thread -> Place]
          /\ \A u \in Writer : pc'[u] = pc[u]
          /\ intq_full(buffer') <=> intq_full(buffer)
      BY <1>2, <1>3, <1>5, <1>8, ReaderSleeps
    <2>2. TxInv'
      BY <1>2, <2>1, TxSame
    <2>3. IerCoversWork'
      BY <1>2, <1>8, <2>1, IerKept
    <2> QED BY <1>2, <1>8, <2>1, <2>2, <2>3 DEF Control
  <1>9. CASE intq_empty(q) /\ QueueForLock(t, q) /\ UNCHANGED <<buffer, got, ier>>
    <2>1. q.lock # NULL /\ pc' = [pc EXCEPT ![t] = "lock"]
      BY <1>9 DEF QueueForLock
    <2>2. q.lock = buffer.lock
      BY <1>2, <1>3, <2>1 DEF Given
    <2>3. pc' \in [Thread -> Place] /\ Waits(Reader, buffer.not_empty, buffer.lock, pc')
      <3>1. /\ pc' \in [Thread -> Place]
            /\ Waits(Reader, buffer.not_empty, Given(buffer.lock, t, pc), pc')
        BY <1>1, <1>6, <2>1, Types, WaitsLeave, Zenon
      <3> QED BY <1>3, <2>2, <3>1
    <2>4. InInv'
      BY <1>2, <1>9, <2>3 DEF InInv
    <2>5. TxInv'
      BY <1>1, <1>2, <1>6, <2>1, TxSame, Types
    <2>6. IerCoversWork'
      BY <1>2, <1>9, IerKept
    <2> QED BY <1>2, <1>9, <2>3, <2>4, <2>5, <2>6 DEF Control
  <1> QED BY <1>4, <1>7, <1>8, <1>9

LEMMA GetLockedStep ==
  ASSUME IInv, NEW t \in Reader, GetLocked(t)
  PROVE  IInv'
  <1> USE DEF IInv
  <1>1. /\ pc[t] = "lock" /\ buffer.lock = NULL /\ txq' = txq /\ mode' = mode
        /\ ier' = ier /\ thr' = thr /\ sent' = sent /\ wire' = wire /\ keys' = keys
        /\ got' = got
    BY DEF GetLocked
  <1>2. CASE /\ intq_empty(buffer)
             /\ buffer' = [buffer EXCEPT !.lock = t, !.not_empty = t]
             /\ pc' = [pc EXCEPT ![t] = "wait"]
             /\ UNCHANGED panic
    <2>1. Given(buffer.lock, t, pc) = NULL /\ buffer \in Intq
      BY <1>1 DEF Given, InInv
    <2>2. /\ InInv' /\ pc' \in [Thread -> Place]
          /\ \A u \in Writer : pc'[u] = pc[u]
          /\ intq_full(buffer') <=> intq_full(buffer)
      BY <1>1, <1>2, <2>1, ReaderSleeps
    <2>3. TxInv' /\ IerCoversWork'
      BY <1>1, <2>2, TxSame, IerKept
    <2> QED BY <1>1, <1>2, <2>2, <2>3 DEF Control
  <1>3. CASE panic' = TRUE /\ UNCHANGED <<buffer, pc>>
    <2>1. TxInv' /\ InInv' /\ IerCoversWork'
      BY <1>1, <1>3, TxSame, InSame, IerKept
    <2> QED BY <1>1, <1>3, <2>1 DEF Control
  <1> QED BY <1>2, <1>3 DEF GetLocked

LEMMA InterruptStep ==
  ASSUME IInv, NEW rx \in BOOLEAN, serial_interrupt(rx)
  PROVE  IInv'
  <1> DEFINE receives  == rx /\ ~ intq_full(buffer) /\ Len(keys) < MaxKey
             transmits == ~ intq_empty(txq) /\ thr = "ready"
             reader    == IF receives THEN buffer.not_empty ELSE NULL
             writer    == IF transmits THEN txq.not_full ELSE NULL
             mid       == Wake(pc, reader)
  <1> USE DEF IInv
  <1>1. /\ buffer' = IF receives THEN Insert(buffer, Len(keys) + 1) ELSE buffer
        /\ keys' = IF receives THEN Append(keys, Len(keys) + 1) ELSE keys
        /\ txq' = IF transmits THEN Remove(txq) ELSE txq
        /\ wire' = IF transmits THEN Append(wire, OldestByte(txq)) ELSE wire
        /\ thr' \in {"ready", "busy"}
        /\ pc' = Wake(mid, writer)
        /\ ier' = write_ier(txq', buffer')
        /\ mode' = mode /\ sent' = sent /\ got' = got /\ panic' = panic
    BY DEF serial_interrupt, Control
  <1>2. /\ txq \in Intq /\ txq.lock \in Writer \union {NULL}
        /\ txq.not_full \in Writer \union {NULL}
        /\ pc \in [Thread -> Place] /\ Waits(Writer, txq.not_full, txq.lock, pc)
    BY DEF TxInv, Control, Intq
  <1>3. /\ buffer' \in Intq /\ buffer'.lock = buffer.lock
        /\ keys' \in Seq(Nat) /\ got \o Contents(buffer') = keys'
        /\ mid \in [Thread -> Place] /\ Waits(Reader, buffer'.not_empty, buffer.lock, mid)
        /\ \A t \in Writer : mid[t] = pc[t]
        /\ buffer'.not_empty # NULL => intq_empty(buffer')
    <2>1. CASE receives
      BY <1>1, <2>1, KeyEnters
    <2>2. CASE ~ receives
      BY <1>1, <1>2, <2>2 DEF InInv, Wake
    <2> QED BY <2>1, <2>2
  <1>4. /\ txq' \in Intq /\ txq'.lock = txq.lock
        /\ txq'.not_full = (IF transmits THEN NULL ELSE txq.not_full)
        /\ wire' \in Seq(Nat) /\ wire' \o Contents(txq') = sent
        /\ txq'.not_full # NULL => intq_full(txq')
    <2>1. CASE transmits
      BY <1>1, <2>1, ByteLeaves
    <2>2. CASE ~ transmits
      BY <1>1, <2>2 DEF TxInv
    <2> QED BY <2>1, <2>2
  <1>5. mode = "POLL" => ~ transmits
    BY DEF TxInv
  <1> HIDE DEF receives, reader, mid
  <1>6. Waits(Writer, txq.not_full, txq.lock, mid)
    BY <1>2, <1>3 DEF Waits
  <1>7. /\ pc' \in [Thread -> Place] /\ Waits(Writer, txq'.not_full, txq'.lock, pc')
        /\ \A t \in Thread \ Writer : pc'[t] = mid[t]
    <2>1. Writer \in SUBSET Thread
      BY Types
    <2>2. CASE transmits
      <3>1. pc' = Wake(mid, txq.not_full) /\ txq'.not_full = NULL
        BY <1>1, <1>4, <2>2
      <3>2. /\ Wake(mid, txq.not_full) \in [Thread -> Place]
            /\ Waits(Writer, NULL, txq.lock, Wake(mid, txq.not_full))
            /\ \A t \in Thread \ Writer : Wake(mid, txq.not_full)[t] = mid[t]
        <4> HIDE DEF transmits
        <4>1. mid \in [Thread -> Place]
          BY <1>3
        <4> QED BY <1>2, <1>6, <2>1, <4>1, WaitsWake
      <3> QED BY <1>4, <3>1, <3>2
    <2>3. CASE ~ transmits
      BY <1>1, <1>3, <1>4, <1>6, <2>3 DEF Wake
    <2> QED BY <2>2, <2>3
  <1>8. TxInv'
    <2>1. mode' = "POLL" => intq_empty(txq') /\ \A t \in Writer : pc'[t] = "out"
      <3> SUFFICES ASSUME mode' = "POLL"
                   PROVE  intq_empty(txq') /\ \A t \in Writer : pc'[t] = "out"
        OBVIOUS
      <3>1. txq' = txq /\ pc' = mid
        BY <1>1, <1>5 DEF Wake
      <3> QED BY <1>1, <1>3, <3>1 DEF TxInv
    <2>2. sent \in Seq(Nat) /\ txq.lock \in Writer \union {NULL}
      BY DEF TxInv
    <2> QED BY <1>1, <1>4, <1>7, <2>1, <2>2 DEF TxInv
  <1>9. InInv'
    <2>1. Waits(Reader, buffer'.not_empty, buffer'.lock, pc')
      BY <1>3, <1>7, Types DEF Waits
    <2>2. got \in Seq(Nat) /\ buffer.lock \in Reader \union {NULL}
      BY DEF InInv
    <2> QED BY <1>1, <1>3, <2>1, <2>2 DEF InInv
  <1>10. IerCoversWork' /\ ier' \in SUBSET {"XMIT", "RECV"}
    BY <1>1, IerWritten
  <1> QED BY <1>1, <1>7, <1>8, <1>9, <1>10 DEF Control

LEMMA ReadyStep ==
  ASSUME IInv, uart_ready \/ UNCHANGED vars
  PROVE  IInv'
  <1> USE DEF IInv
  <1>1. /\ txq' = txq /\ buffer' = buffer /\ mode' = mode /\ ier' = ier /\ pc' = pc
        /\ sent' = sent /\ wire' = wire /\ keys' = keys /\ got' = got /\ panic' = panic
        /\ thr' \in {"ready", "busy"}
    BY DEF uart_ready, vars, Control
  <1>2. TxInv' /\ InInv' /\ IerCoversWork'
    BY <1>1, TxSame, InSame, IerKept
  <1> QED BY <1>1, <1>2 DEF Control

\* The invariant is inductive.
LEMMA NextIInv == IInv /\ [Next]_vars => IInv'
  <1> SUFFICES ASSUME IInv, [Next]_vars PROVE IInv'
    OBVIOUS
  <1>1. CASE \E t \in Writer : serial_putc_poll(t) \/ WriterStep(t)
    BY <1>1, PollStep, PutcStep, PutLockedStep, Zenon DEF WriterStep
  <1>2. CASE \E t \in Reader : ReaderStep(t)
    BY <1>2, GetcStep, GetLockedStep, Zenon DEF ReaderStep
  <1>3. CASE \E rx \in BOOLEAN : serial_interrupt(rx)
    BY <1>3, InterruptStep, Zenon
  <1> QED BY <1>1, <1>2, <1>3, ModeSteps, IntrOffStep, FlushStep, KeyboardStep,
             ReadyStep, Zenon DEF Next

THEOREM Invariance == Spec => []IInv
  BY InitIInv, NextIInv, PTL DEF Spec

\* Every variable keeps its type, whatever the threads, the handlers and the
\* UART do.
THEOREM TypeCorrect == Spec => []TypeOK
  BY Invariance, IInvImplies, PTL

\* intq_putc(), intq_getc() and the polling that goes round them keep the order
\* of bytes and keys and lose none, for any buffer size.
THEOREM BytesAreInOrder == Spec => []BytesInOrder
  BY Invariance, IInvImplies, PTL

\* wait(), signal() and write_ier(), for any number of threads: a queue knows
\* its one sleeper, and the interrupt that will wake it is enabled.
THEOREM SleepersAreWoken == Spec => []SleepersHaveWakers
  BY Invariance, IInvImplies, PTL
=============================================================================
