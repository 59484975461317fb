------------------------------- MODULE RWLock -------------------------------
(***************************************************************************)
(* struct rw_lock and the condition variables it is built on, both of      *)
(* threads/synch.c.  The guard lock is held "the entire time", so each     *)
(* stretch of code between taking and releasing it is one step (that the   *)
(* lock excludes is shown in module Lock).  cond_wait() ends such a        *)
(* stretch: the thread queues a private semaphore, releases the guard,     *)
(* sleeps until the semaphore is upped and takes the guard again, in       *)
(* competition with every other thread that wants it.                      *)
(***************************************************************************)
EXTENDS Lists, Integers, Sequences, FiniteSets

CONSTANTS Thread   \* the threads that use the lock, finitely many

VARIABLES
  AR, WR, AW, WW,  \* active and waiting readers and writers
  read, write,     \* the waiters lists of the two condition variables
  pc               \* where each thread is

vars == <<AR, WR, AW, WW, read, write, pc>>

(***************************************************************************)
(* "out": does not use the lock; "rwait", "wwait": in cond_wait(), its     *)
(* semaphore queued; "rwoken", "wwoken": its semaphore has been upped, it  *)
(* has not got the guard again; "reading", "writing": has acquired.        *)
(***************************************************************************)
Pc == {"out", "rwait", "rwoken", "reading", "wwait", "wwoken", "writing"}

rw_lock_init ==
  /\ AR = 0 /\ WR = 0 /\ AW = 0 /\ WW = 0
  /\ read = <<>> /\ write = <<>>

Init == rw_lock_init /\ pc = [t \in Thread |-> "out"]

\* Mutant: readers ignore waiting writers.
ReaderIgnoresWaiting == AW > 0

ReaderMustWait == AW + WW > 0
WriterMustWait == AR + AW > 0

\* The reader's loop, entered with wr waiting readers besides itself.
ReaderLoop(t, wr) ==
  \/ /\ ReaderMustWait
     /\ WR' = wr + 1
     /\ read' = Append(read, t)
     /\ pc' = [pc EXCEPT ![t] = "rwait"]
     /\ UNCHANGED AR
  \/ /\ ~ ReaderMustWait
     /\ WR' = wr
     /\ AR' = AR + 1
     /\ pc' = [pc EXCEPT ![t] = "reading"]
     /\ UNCHANGED read

WriterLoop(t, ww) ==
  \/ /\ WriterMustWait
     /\ WW' = ww + 1
     /\ write' = Append(write, t)
     /\ pc' = [pc EXCEPT ![t] = "wwait"]
     /\ UNCHANGED AW
  \/ /\ ~ WriterMustWait
     /\ WW' = ww
     /\ AW' = AW + 1
     /\ pc' = [pc EXCEPT ![t] = "writing"]
     /\ UNCHANGED write

AcquireRead(t) ==
  /\ pc[t] = "out"
  /\ ReaderLoop(t, WR)
  /\ UNCHANGED <<AW, WW, write>>

AcquireWrite(t) ==
  /\ pc[t] = "out"
  /\ WriterLoop(t, WW)
  /\ UNCHANGED <<AR, WR, read>>

\* Mutant: the count is not taken back after the wait.
NotTakenBack(n) == n

AfterWait(n) == n - 1

\* A woken thread has the guard again and goes round the loop.
ResumeRead(t) ==
  /\ pc[t] = "rwoken"
  /\ ReaderLoop(t, AfterWait(WR))
  /\ UNCHANGED <<AW, WW, write>>

ResumeWrite(t) ==
  /\ pc[t] = "wwoken"
  /\ WriterLoop(t, AfterWait(WW))
  /\ UNCHANGED <<AR, WR, read>>

\* cond_signal(&write): the first semaphore on the list is upped, if any.
SignalWrite(t) ==
  \/ /\ write = <<>>
     /\ pc' = [pc EXCEPT ![t] = "out"]
     /\ UNCHANGED write
  \/ /\ write # <<>>
     /\ pc' = [pc EXCEPT ![t] = "out", ![Head(write)] = "wwoken"]
     /\ write' = Tail(write)

Broadcast == OnList(read)

\* cond_broadcast(&read): cond_signal() until the list is empty.
BroadcastRead(t) ==
  /\ pc' = [u \in Thread |-> IF u = t THEN "out"
                             ELSE IF u \in Broadcast THEN "rwoken" ELSE pc[u]]
  /\ read' = <<>>

\* Mutant: the test of rw_lock_release() is the wrong way round.
SignalsIfReadersRemain == AR > 1 /\ WW > 0

LastReaderSignals == AR - 1 = 0 /\ WW > 0
WriterSignalsWriter == WW > 0

ReleaseRead(t) ==
  /\ pc[t] = "reading"
  /\ AR' = AR - 1
  /\ \/ /\ LastReaderSignals
        /\ SignalWrite(t)
     \/ /\ ~ LastReaderSignals
        /\ pc' = [pc EXCEPT ![t] = "out"]
        /\ UNCHANGED write
  /\ UNCHANGED <<AW, WR, WW, read>>

ReleaseWrite(t) ==
  /\ pc[t] = "writing"
  /\ AW' = AW - 1
  /\ \/ /\ WriterSignalsWriter
        /\ SignalWrite(t)
        /\ UNCHANGED read
     \/ /\ ~ WriterSignalsWriter /\ WR > 0
        /\ BroadcastRead(t)
        /\ UNCHANGED write
     \/ /\ ~ WriterSignalsWriter /\ WR = 0
        /\ pc' = [pc EXCEPT ![t] = "out"]
        /\ UNCHANGED <<read, write>>
  /\ UNCHANGED <<AR, WR, WW>>

Resume(t) == ResumeRead(t) \/ ResumeWrite(t)
Release(t) == ReleaseRead(t) \/ ReleaseWrite(t)

Next == \E t \in Thread :
  AcquireRead(t) \/ AcquireWrite(t) \/ Resume(t) \/ Release(t)

Spec == Init /\ [][Next]_vars

\* Whoever has the lock releases it some day, and a woken thread gets the
\* guard lock some day; nobody is obliged to ask for the lock.
FairSpec == Spec /\ \A t \in Thread : WF_vars(Resume(t)) /\ WF_vars(Release(t))
-----------------------------------------------------------------------------
At(places) == {t \in Thread : pc[t] \in places}

\* Every variable has the type of the C object it stands for.
TypeOK ==
  /\ AR \in Nat /\ WR \in Nat /\ AW \in Nat /\ WW \in Nat
  /\ read \in Seq(Thread) /\ write \in Seq(Thread)
  /\ pc \in [Thread -> Pc]

\* The four counters, which are all the code looks at, count what their names
\* say, although a waiter's count is taken back only when it runs again.
CountersExact ==
  /\ AR = Cardinality(At({"reading"}))
  /\ AW = Cardinality(At({"writing"}))
  /\ WR = Cardinality(At({"rwait", "rwoken"}))
  /\ WW = Cardinality(At({"wwait", "wwoken"}))

\* The lock implements the abstract one: readers and writers exclude each
\* other, writers one another, and no reader passes a waiting writer.
RW == INSTANCE ReadersWriters WITH
        reading <- At({"reading"}),
        writing <- At({"writing"}),
        waiting <- At({"wwait", "wwoken"})
ImplementsReadersWriters == RW!Spec

\* A waiting writer does not keep waiting while readers come and go: a writer
\* gets in, so no signal is lost to an overtaken waiter or an empty list.
SomeWriterGetsIn == At({"wwait"}) # {} ~> At({"writing"}) # {}

\* Readers that wait get in once the writers stop coming.
ReadersGetInWhenWritersStop ==
  <>[](At({"writing", "wwait", "wwoken"}) = {}) =>
    \A t \in Thread : pc[t] = "rwait" ~> pc[t] = "reading"

\* Nobody is left waiting: writers get in beside readers that come and go, and
\* readers once the writers stop.
WaitersGetIn == SomeWriterGetsIn /\ ReadersGetInWhenWritersStop
=============================================================================
