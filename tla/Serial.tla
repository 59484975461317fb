------------------------------- MODULE Serial -------------------------------
(***************************************************************************)
(* Character input and output: the interrupt queues of devices/intq.c, the *)
(* input buffer of devices/input.c that the keyboard and the serial port   *)
(* fill, and the serial port of devices/serial.c with its transmit queue.  *)
(* Kernel threads and interrupt handlers share the queues with interrupts  *)
(* off, so what a thread does up to the point where it sleeps is one step. *)
(***************************************************************************)
EXTENDS Integers, Sequences

CONSTANTS
  Writer,        \* threads that call serial_putc()
  Reader,        \* threads that call input_getc()
  NULL,          \* the null pointer
  INTQ_BUFSIZE,  \* slots of a queue's circular buffer
  MaxTx, MaxKey  \* bounds on the bytes written and the keys received

ASSUME SerialAssumption ==
  /\ Writer \cap Reader = {}
  /\ NULL \notin Writer \union Reader
  /\ INTQ_BUFSIZE \in Nat \ {0, 1}
  /\ MaxTx \in Nat /\ MaxKey \in Nat

VARIABLES
  txq, buffer,  \* the transmit queue and the input buffer, struct intq both
  mode,         \* "POLL" or "QUEUE"; "QUEUE_INIT" until the latter's set-up ends
  ier,          \* the UART's interrupt enable register
  thr,          \* external: its transmit holding register, "ready" or "busy"
  pc,           \* where each thread is
  sent, wire,   \* bytes accepted by serial_putc(); bytes written to the UART
  keys, got,    \* keys accepted by input_putc(); keys returned by input_getc()
  panic         \* an ASSERT has failed

vars == <<txq, buffer, mode, ier, thr, pc, sent, wire, keys, got, panic>>

Thread == Writer \union Reader

(***************************************************************************)
(* struct intq.  Its lock is held by the one thread that may wait.         *)
(***************************************************************************)
intq_init == [lock |-> NULL, not_full |-> NULL, not_empty |-> NULL,
              buf |-> [i \in 0 .. INTQ_BUFSIZE - 1 |-> 0],
              head |-> 0, tail |-> 0]

next(pos) == (pos + 1) % INTQ_BUFSIZE

intq_empty(q) == q.head = q.tail
intq_full(q) == next(q.head) = q.tail

\* Mutant: signal() does not reset the waiting thread.
WaiterKept(w) == w

Signalled(w) == NULL

\* The ends of intq_putc() and intq_getc(), signal() included.
Insert(q, byte) ==
  [q EXCEPT !.buf[q.head] = byte, !.head = next(@),
            !.not_empty = Signalled(@)]
Remove(q) == [q EXCEPT !.tail = next(@), !.not_full = Signalled(@)]
OldestByte(q) == q.buf[q.tail]

\* The bytes in a queue, oldest first.
Contents(q) ==
  [i \in 1 .. (q.head - q.tail) % INTQ_BUFSIZE |->
     q.buf[(q.tail + i - 1) % INTQ_BUFSIZE]]

\* thread_unblock() of the thread, if any, that signal() finds.
Wake(places, w) == IF w = NULL THEN places ELSE [places EXCEPT ![w] = "woken"]

(***************************************************************************)
(* write_ier(): transmit interrupts while there is something to transmit,  *)
(* receive interrupts while there is room.                                 *)
(***************************************************************************)
\* Mutant: transmit interrupts stay off while the queue is full.
IerOffWhenFull(tx, in) ==
  {x \in {"XMIT"} : ~ intq_empty(tx) /\ ~ intq_full(tx)}
    \union {r \in {"RECV"} : ~ intq_full(in)}

write_ier(tx, in) ==
  {x \in {"XMIT"} : ~ intq_empty(tx)} \union {r \in {"RECV"} : ~ intq_full(in)}

Queued == mode # "POLL"

serial_notify(in) == ier' = IF Queued THEN write_ier(txq, in) ELSE ier

Init ==
  /\ txq = intq_init /\ buffer = intq_init
  /\ mode = "POLL"
  /\ ier = {}
  /\ thr = "ready"
  /\ pc = [t \in Thread |-> "out"]
  /\ sent = <<>> /\ wire = <<>> /\ keys = <<>> /\ got = <<>>
  /\ panic = FALSE

\* serial_init_queue(): the mode changes first, the register after it; an
\* interrupt or another thread's output can come between.
SetQueueMode ==
  /\ mode = "POLL"
  /\ mode' = "QUEUE_INIT"
  /\ UNCHANGED <<txq, buffer, ier, thr, pc, sent, wire, keys, got, panic>>

EnableQueue ==
  /\ mode = "QUEUE_INIT"
  /\ mode' = "QUEUE"
  /\ ier' = write_ier(txq, buffer)
  /\ UNCHANGED <<txq, buffer, thr, pc, sent, wire, keys, got, panic>>

(***************************************************************************)
(* Output.  putc_poll() waits for the holding register in a busy loop, so  *)
(* it leaves it full.                                                      *)
(***************************************************************************)
serial_putc_poll(t) ==
  /\ mode = "POLL" /\ pc[t] = "out" /\ Len(sent) < MaxTx
  /\ sent' = Append(sent, Len(sent) + 1)
  /\ wire' = Append(wire, Len(sent) + 1)
  /\ thr' = "busy"
  /\ UNCHANGED <<txq, buffer, mode, ier, pc, keys, got, panic>>

\* intq_putc() has found room in q: the byte is queued and write_ier() follows.
PutByte(t, q) ==
  /\ ~ intq_full(q)
  /\ txq' = Insert(q, Len(sent) + 1)
  /\ sent' = Append(sent, Len(sent) + 1)
  /\ pc' = [pc EXCEPT ![t] = "out"]
  /\ ier' = write_ier(txq', buffer)

\* wait(): the thread sleeps, holding the lock.
WaitNotFull(t, q) ==
  /\ txq' = [q EXCEPT !.lock = t, !.not_full = t]
  /\ pc' = [pc EXCEPT ![t] = "wait"]
  /\ UNCHANGED <<sent, ier>>

\* The loop of intq_putc() when the lock is held by another waiter.
QueueForLock(t, q) ==
  /\ q.lock # NULL
  /\ pc' = [pc EXCEPT ![t] = "lock"]

\* serial_putc() with interrupts on, from its start or after being woken
\* from wait(), which gives the lock back before the loop tests again.
serial_putc(t) ==
  LET q == IF pc[t] = "woken" THEN [txq EXCEPT !.lock = NULL] ELSE txq
  IN  /\ ~ panic
      /\ \/ pc[t] = "out" /\ Queued /\ Len(sent) < MaxTx
         \/ pc[t] = "woken"
      /\ \/ PutByte(t, q)
         \/ intq_full(q) /\ q.lock = NULL /\ WaitNotFull(t, q)
         \/ intq_full(q) /\ QueueForLock(t, q) /\ UNCHANGED <<txq, sent, ier>>
      /\ UNCHANGED <<buffer, mode, thr, wire, keys, got, panic>>

\* The thread gets the lock it queued for, and calls wait() at once.
PutLocked(t) ==
  /\ ~ panic /\ pc[t] = "lock" /\ txq.lock = NULL
  /\ \/ intq_full(txq) /\ WaitNotFull(t, txq) /\ UNCHANGED panic
     \/ /\ ~ intq_full(txq)
        /\ panic' = TRUE
        /\ UNCHANGED <<txq, pc, sent, ier>>
  /\ UNCHANGED <<buffer, mode, thr, wire, keys, got>>

\* Mutant: the new byte goes out at once, before the queued ones.
PollsNewByte(byte) == byte

PolledByte(byte) == OldestByte(txq)

\* serial_putc() by code that has interrupts off (a handler that prints):
\* it must not sleep, so it makes room by polling the oldest byte out.
serial_putc_intr_off ==
  LET full == intq_full(txq)
      q    == IF full THEN Remove(txq) ELSE txq
  IN  /\ ~ panic
      /\ Queued /\ Len(sent) < MaxTx
      /\ wire' = IF full THEN Append(wire, PolledByte(Len(sent) + 1)) ELSE wire
      /\ thr' = IF full THEN "busy" ELSE thr
      /\ pc' = IF full THEN Wake(pc, txq.not_full) ELSE pc
      /\ txq' = Insert(q, Len(sent) + 1)
      /\ sent' = Append(sent, Len(sent) + 1)
      /\ ier' = write_ier(txq', buffer)
      /\ UNCHANGED <<buffer, mode, keys, got, panic>>

\* serial_flush() polls the whole queue out and leaves the register alone.
serial_flush ==
  /\ ~ panic /\ ~ intq_empty(txq)
  /\ wire' = wire \o Contents(txq)
  /\ txq' = [txq EXCEPT !.tail = txq.head, !.not_full = Signalled(@)]
  /\ pc' = Wake(pc, txq.not_full)
  /\ thr' = "busy"
  /\ UNCHANGED <<buffer, mode, ier, sent, keys, got, panic>>

(***************************************************************************)
(* Input.                                                                  *)
(***************************************************************************)
\* keyboard_interrupt() for an ordinary key, which it drops if there is no
\* room: input_putc() queues it, wakes a reader and notifies the serial port.
keyboard_interrupt ==
  /\ ~ panic /\ ~ intq_full(buffer) /\ Len(keys) < MaxKey
  /\ buffer' = Insert(buffer, Len(keys) + 1)
  /\ keys' = Append(keys, Len(keys) + 1)
  /\ pc' = Wake(pc, buffer.not_empty)
  /\ serial_notify(buffer')
  /\ UNCHANGED <<txq, mode, thr, sent, wire, got, panic>>

\* input_getc(), from its start or after being woken from wait().
input_getc(t) ==
  LET q == IF pc[t] = "woken" THEN [buffer EXCEPT !.lock = NULL] ELSE buffer
  IN  /\ ~ panic
      /\ pc[t] \in {"out", "woken"}
      /\ \/ /\ ~ intq_empty(q)
            /\ got' = Append(got, OldestByte(q))
            /\ buffer' = Remove(q)
            /\ pc' = [pc EXCEPT ![t] = "out"]
            /\ serial_notify(buffer')
         \/ /\ intq_empty(q) /\ q.lock = NULL
            /\ buffer' = [q EXCEPT !.lock = t, !.not_empty = t]
            /\ pc' = [pc EXCEPT ![t] = "wait"]
            /\ UNCHANGED <<got, ier>>
         \/ /\ intq_empty(q)
            /\ QueueForLock(t, q)
            /\ UNCHANGED <<buffer, got, ier>>
      /\ UNCHANGED <<txq, mode, thr, sent, wire, keys, panic>>

GetLocked(t) ==
  /\ ~ panic /\ pc[t] = "lock" /\ buffer.lock = NULL
  /\ \/ /\ intq_empty(buffer)
        /\ buffer' = [buffer EXCEPT !.lock = t, !.not_empty = t]
        /\ pc' = [pc EXCEPT ![t] = "wait"]
        /\ UNCHANGED panic
     \/ /\ ~ intq_empty(buffer)
        /\ panic' = TRUE
        /\ UNCHANGED <<buffer, pc>>
  /\ UNCHANGED <<txq, mode, ier, thr, sent, wire, keys, got>>

(***************************************************************************)
(* serial_interrupt(): receive a byte if the UART has one and there is     *)
(* room, transmit one if there is one and the UART takes it, and write the *)
(* register.  The UART interrupts only for what the register enables.      *)
(***************************************************************************)
serial_interrupt(rx) ==
  LET receives  == rx /\ ~ intq_full(buffer) /\ Len(keys) < MaxKey
      transmits == ~ intq_empty(txq) /\ thr = "ready"
      reader    == IF receives THEN buffer.not_empty ELSE NULL
      writer    == IF transmits THEN txq.not_full ELSE NULL
  IN  /\ ~ panic
      /\ (receives /\ "RECV" \in ier) \/ (thr = "ready" /\ "XMIT" \in ier)
      /\ buffer' = IF receives THEN Insert(buffer, Len(keys) + 1) ELSE buffer
      /\ keys' = IF receives THEN Append(keys, Len(keys) + 1) ELSE keys
      /\ txq' = IF transmits THEN Remove(txq) ELSE txq
      /\ wire' = IF transmits THEN Append(wire, OldestByte(txq)) ELSE wire
      /\ thr' = IF transmits THEN "busy" ELSE thr
      /\ pc' = Wake(Wake(pc, reader), writer)
      /\ ier' = write_ier(txq', buffer')
      /\ UNCHANGED <<mode, sent, got, panic>>

\* External: the UART has shifted the byte out.
uart_ready ==
  /\ thr = "busy"
  /\ thr' = "ready"
  /\ UNCHANGED <<txq, buffer, mode, ier, pc, sent, wire, keys, got, panic>>

WriterStep(t) == serial_putc(t) \/ PutLocked(t)
ReaderStep(t) == input_getc(t) \/ GetLocked(t)

Next ==
  \/ SetQueueMode \/ EnableQueue
  \/ \E t \in Writer : serial_putc_poll(t) \/ WriterStep(t)
  \/ \E t \in Reader : ReaderStep(t)
  \/ serial_putc_intr_off \/ serial_flush
  \/ keyboard_interrupt
  \/ \E rx \in BOOLEAN : serial_interrupt(rx)
  \/ uart_ready

Spec == Init /\ [][Next]_vars

\* The UART transmits and interrupts when it is told to, serial_init_queue()
\* is called and completes, and a thread that has been woken runs.
FairSpec ==
  /\ Spec
  /\ WF_vars(SetQueueMode) /\ WF_vars(EnableQueue)
  /\ WF_vars(uart_ready)
  /\ WF_vars(\E rx \in BOOLEAN : serial_interrupt(rx))
  /\ \A t \in Writer : WF_vars(pc[t] # "out" /\ WriterStep(t))
  /\ \A t \in Reader : WF_vars(pc[t] # "out" /\ ReaderStep(t))
-----------------------------------------------------------------------------
Intq == [lock : Thread \union {NULL}, not_full : Writer \union {NULL},
         not_empty : Reader \union {NULL},
         buf : [0 .. INTQ_BUFSIZE - 1 -> Nat],
         head : 0 .. INTQ_BUFSIZE - 1, tail : 0 .. INTQ_BUFSIZE - 1]

\* Every variable has the type of the C object it stands for.
TypeOK ==
  /\ txq \in Intq /\ buffer \in Intq
  /\ mode \in {"POLL", "QUEUE_INIT", "QUEUE"}
  /\ ier \in SUBSET {"XMIT", "RECV"}
  /\ thr \in {"ready", "busy"}
  /\ pc \in [Thread -> {"out", "lock", "wait", "woken"}]
  /\ panic \in BOOLEAN

\* Bytes leave the machine in the order of the serial_putc() calls, none
\* lost, none twice, whether they were polled, queued, pushed out by a caller
\* with interrupts off or flushed, and wherever the queue's indices wrap; and
\* readers get the accepted keys in order.
BytesInOrder ==
  /\ wire \o Contents(txq) = sent
  /\ got \o Contents(buffer) = keys

\* The thread a queue will wake is asleep in wait() and holds its lock, and a
\* thread asleep there is the one the queue will wake: signal() never
\* unblocks a thread that is not blocked, and never misses one that is.  And
\* nobody sleeps on a condition that already holds.
WaiterIsAsleep ==
  /\ \A t \in Thread :
       /\ pc[t] = "wait" <=> t \in {txq.not_full, buffer.not_empty}
       /\ pc[t] \in {"wait", "woken"} <=> t \in {txq.lock, buffer.lock}
  /\ txq.not_full # NULL => intq_full(txq)
  /\ buffer.not_empty # NULL => intq_empty(buffer)

\* The enable register never masks an interrupt that has work to do, and
\* receive interrupts are masked while there is no room (input_putc()'s
\* ASSERT(!intq_full())).
IerCoversWork ==
  mode = "QUEUE" =>
    /\ ~ intq_empty(txq) => "XMIT" \in ier
    /\ "RECV" \in ier <=> ~ intq_full(buffer)

\* Whoever sleeps will be woken: the queue knows its sleeper, and the interrupt
\* that wakes it is enabled.
SleepersHaveWakers == WaiterIsAsleep /\ IerCoversWork

\* Every accepted byte is transmitted, and a writer that found the queue full
\* gets on (unless the kernel panics).
EveryByteIsTransmitted ==
  /\ \A n \in 1 .. MaxTx : Len(sent) >= n ~> Len(wire) >= n \/ panic
  /\ \A t \in Writer : pc[t] # "out" ~> pc[t] = "out" \/ panic

\* While a key is in the buffer nobody sleeps for long: some reader takes it
\* (unless none waits, or the kernel panics).
ReaderGetsKey ==
  (\E t \in Reader : pc[t] # "out") /\ ~ intq_empty(buffer)
    ~> intq_empty(buffer) \/ panic \/ \A t \in Reader : pc[t] = "out"

\* Both queues drain: output reaches the wire, input reaches who waits for it.
QueuesDrain == EveryByteIsTransmitted /\ ReaderGetsKey
=============================================================================
