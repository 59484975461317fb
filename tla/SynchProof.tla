----------------------------- MODULE SynchProof -----------------------------
(***************************************************************************)
(* Proofs about the locks of threads/synch.c, for any finite set of        *)
(* threads.  The lock of Lock excludes, its holder field can be trusted by *)
(* its assertions, nobody is left asleep beside a free lock, and           *)
(* allocate_tid() is atomic.  Of RWLock, the four counters are exact,      *)
(* nobody sleeps without somebody to wake him, and the readers-writers     *)
(* lock implements ReadersWriters.                                         *)
(***************************************************************************)
EXTENDS MCSynch, FiniteSetTheorems, TLAPS
-----------------------------------------------------------------------------
\* list_push_back() adds one element, and keeps a list of distinct elements
\* so when the element was not on it.
LEMMA PushBack ==
  ASSUME NEW S, NEW s \in Seq(S), NEW e \in S
  PROVE  /\ Append(s, e) \in Seq(S)
         /\ Append(s, e) # <<>>
         /\ OnList(Append(s, e)) = OnList(s) \union {e}
         /\ NoDup(s) /\ e \notin OnList(s) => NoDup(Append(s, e))
  <1> DEFINE a == Append(s, e)
  <1>1. /\ a \in Seq(S) /\ Len(a) = Len(s) + 1
        /\ \A i \in 1 .. Len(s) : a[i] = s[i]
        /\ a[Len(s) + 1] = e
    OBVIOUS
  <1>2. OnList(a) = OnList(s) \union {e}
    <2> HIDE DEF a
    <2>1. ASSUME NEW x \in OnList(a) PROVE x \in OnList(s) \union {e}
      BY <1>1, <2>1 DEF OnList
    <2>2. ASSUME NEW x \in OnList(s) PROVE x \in OnList(a)
      <3>1. PICK i \in 1 .. Len(s) : x = s[i]
        BY <2>2 DEF OnList
      <3>2. i \in 1 .. Len(a) /\ a[i] = x
        BY <1>1, <3>1
      <3> QED BY <3>2 DEF OnList
    <2>3. e \in OnList(a)
      BY <1>1 DEF OnList
    <2> QED BY <2>1, <2>2, <2>3
  <1>3. NoDup(s) /\ e \notin OnList(s) => NoDup(a)
    <2> HIDE DEF a
    <2> SUFFICES ASSUME NoDup(s), e \notin OnList(s),
                        NEW i \in 1 .. Len(a), NEW j \in 1 .. Len(a), a[i] = a[j]
                 PROVE  i = j
      BY DEF NoDup
    <2> QED BY <1>1 DEF NoDup, OnList
  <1> QED BY <1>1, <1>2, <1>3

\* list_pop_front() removes the first element, and nothing else.
LEMMA PopFront ==
  ASSUME NEW S, NEW s \in Seq(S), s # <<>>
  PROVE  /\ Tail(s) \in Seq(S)
         /\ Head(s) \in S
         /\ Head(s) \in OnList(s)
         /\ OnList(Tail(s)) \subseteq OnList(s)
         /\ OnList(s) \subseteq OnList(Tail(s)) \union {Head(s)}
         /\ NoDup(s) => /\ NoDup(Tail(s))
                        /\ Head(s) \notin OnList(Tail(s))
  <1> DEFINE b == Tail(s)
  <1>1. /\ b \in Seq(S) /\ Len(b) = Len(s) - 1 /\ Len(s) \in Nat \ {0}
        /\ \A i \in 1 .. Len(b) : b[i] = s[i + 1]
        /\ Head(s) = s[1] /\ s[1] \in S
    OBVIOUS
  <1> HIDE DEF b
  <1>2. Head(s) \in OnList(s)
    BY <1>1 DEF OnList
  <1>3. OnList(b) \subseteq OnList(s)
    <2> SUFFICES ASSUME NEW i \in 1 .. Len(b) PROVE b[i] \in OnList(s)
      BY DEF OnList
    <2>1. i + 1 \in 1 .. Len(s) /\ b[i] = s[i + 1]
      BY <1>1
    <2> QED BY <2>1 DEF OnList
  <1>4. OnList(s) \subseteq OnList(b) \union {Head(s)}
    <2> SUFFICES ASSUME NEW i \in 1 .. Len(s), i # 1 PROVE s[i] \in OnList(b)
      BY <1>1 DEF OnList
    <2>1. i - 1 \in 1 .. Len(b) /\ b[i - 1] = s[i]
      BY <1>1
    <2> QED BY <2>1 DEF OnList
  <1>5. ASSUME NoDup(s) PROVE NoDup(b) /\ Head(s) \notin OnList(b)
    <2>1. NoDup(b)
      <3> SUFFICES ASSUME NEW i \in 1 .. Len(b), NEW j \in 1 .. Len(b), b[i] = b[j]
                   PROVE  i = j
        BY DEF NoDup
      <3>1. i + 1 \in 1 .. Len(s) /\ j + 1 \in 1 .. Len(s) /\ s[i + 1] = s[j + 1]
        BY <1>1
      <3> QED BY <1>5, <3>1 DEF NoDup
    <2>2. ASSUME NEW i \in 1 .. Len(b), b[i] = Head(s) PROVE FALSE
      <3>1. i + 1 \in 1 .. Len(s) /\ 1 \in 1 .. Len(s) /\ s[i + 1] = s[1]
        BY <1>1, <2>2
      <3> QED BY <1>5, <3>1 DEF NoDup
    <2> QED BY <2>1, <2>2 DEF OnList
  <1> QED BY <1>1, <1>2, <1>3, <1>4, <1>5 DEF b

-----------------------------------------------------------------------------
\* In the window of next_tid++ the value read is still the current one.
ReadIsCurrent == \A t \in Thread : pc[t] = "write" => tmp[t] = next_tid

\* The inductive invariant.
IInv ==
  /\ TypeOK
  /\ MutualExclusion
  /\ HolderIsOwner
  /\ NobodyLeftAsleep
  /\ ReadIsCurrent

LEMMA InitIInv == Init => IInv
  <1> SUFFICES ASSUME Init PROVE IInv
    OBVIOUS
  <1> USE LockAssumption DEF Init, lock_init, InitialValue
  <1>1. TypeOK
    BY DEF TypeOK, Pc
  <1>2. Owner = {}
    BY DEF Owner
  <1>3. MutualExclusion /\ HolderIsOwner /\ ReadIsCurrent
    BY <1>2 DEF MutualExclusion, HolderIsOwner, ReadIsCurrent
  <1>4. NobodyLeftAsleep
    BY DEF NobodyLeftAsleep, NoDup, OnList
  <1> QED BY <1>1, <1>3, <1>4 DEF IInv

\* What sema_up() does to the program counters and the list.
LEMMA WakeFacts ==
  ASSUME IInv, NEW t \in Thread, sema_up(t)
  PROVE  /\ pc[t] = "up"
         /\ value' = value + 1
         /\ waiters' \in Seq(Thread)
         /\ UNCHANGED <<holder, next_tid, tmp, tid>>
         /\ \/ waiters = <<>> /\ waiters' = <<>> /\ pc' = [pc EXCEPT ![t] = "idle"]
            \/ \E h \in Thread :
                 /\ waiters # <<>>
                 /\ h = Head(waiters)
                 /\ waiters' = Tail(waiters)
                 /\ pc[h] = "blocked"
                 /\ pc' = [pc EXCEPT ![t] = "idle", ![h] = "woken"]
  <1> USE DEF IInv, TypeOK
  <1>1. CASE waiters = <<>>
    BY <1>1 DEF sema_up, WakesWaiter
  <1>2. CASE waiters # <<>>
    <2>1. Head(waiters) \in Thread /\ Head(waiters) \in OnList(waiters)
          /\ Tail(waiters) \in Seq(Thread)
      BY <1>2, PopFront
    <2>2. pc[Head(waiters)] = "blocked"
      BY <2>1 DEF NobodyLeftAsleep
    <2> QED BY <1>2, <2>1, <2>2 DEF sema_up, WakesWaiter
  <1> QED BY <1>1, <1>2

\* Every step keeps the types.
LEMMA TypeStep == IInv /\ [Next]_vars => TypeOK'
  <1> SUFFICES ASSUME IInv, [Next]_vars PROVE TypeOK'
    OBVIOUS
  <1> USE DEF TypeOK, Pc, IInv
  <1>1. ASSUME NEW t \in Thread, lock_acquire(t) PROVE TypeOK'
    BY <1>1 DEF lock_acquire, Goto
  <1>2. ASSUME NEW t \in Thread, lock_try_acquire(t) PROVE TypeOK'
    BY <1>2 DEF lock_try_acquire, Goto
  <1>3. ASSUME NEW t \in Thread, SemaTake(t) PROVE TypeOK'
    BY <1>3 DEF SemaTake, MayTake
  <1>4. ASSUME NEW t \in Thread, SemaBlock(t) PROVE TypeOK'
    BY <1>4 DEF SemaBlock
  <1>5. ASSUME NEW t \in Thread, SetHolder(t) PROVE TypeOK'
    BY <1>5 DEF SetHolder, Goto
  <1>6. ASSUME NEW t \in Thread, ReadNextTid(t) PROVE TypeOK'
    BY <1>6 DEF ReadNextTid, Goto
  <1>7. ASSUME NEW t \in Thread, WriteNextTid(t) PROVE TypeOK'
    BY <1>7 DEF WriteNextTid, Goto
  <1>8. ASSUME NEW t \in Thread, ClearHolder(t) PROVE TypeOK'
    BY <1>8 DEF ClearHolder, Goto, HolderAfterRelease
  <1>9. ASSUME NEW t \in Thread, sema_up(t) PROVE TypeOK'
    <2>1. CASE waiters = <<>>
      BY <1>9, <2>1 DEF sema_up, WakesWaiter
    <2>2. CASE waiters # <<>>
      <3>1. PICK h \in Thread : h = Head(waiters) /\ Tail(waiters) \in Seq(Thread)
        BY <2>2, PopFront
      <3>2. /\ pc' = [pc EXCEPT ![t] = "idle", ![h] = "woken"]
            /\ value' = value + 1 /\ waiters' = Tail(waiters)
            /\ UNCHANGED <<holder, next_tid, tmp, tid>>
        BY <1>9, <2>2, <3>1 DEF sema_up, WakesWaiter
      <3>3. pc' \in [Thread -> Pc]
        BY <3>2
      <3>4. value' \in Nat
        BY <3>2
      <3>5. waiters' \in Seq(Thread)
        BY <3>1, <3>2
      <3>6. /\ holder' = holder /\ next_tid' = next_tid
            /\ tmp' = tmp /\ tid' = tid
        BY <3>2
      <3> HIDE DEF Pc
      <3> QED BY <3>3, <3>4, <3>5, <3>6, Zenon
    <2> QED BY <2>1, <2>2
  <1>10. CASE UNCHANGED vars
    BY <1>10 DEF vars
  <1> QED BY <1>1, <1>2, <1>3, <1>4, <1>5, <1>6, <1>7, <1>8, <1>9, <1>10
          DEF Next, Inside

\* Every step keeps the lock exclusive, the holder field right and the value
\* read inside the critical section current.
LEMMA ExclusionStep ==
  IInv /\ [Next]_vars => (MutualExclusion /\ HolderIsOwner /\ ReadIsCurrent)'
  <1> SUFFICES ASSUME IInv, [Next]_vars
               PROVE  (MutualExclusion /\ HolderIsOwner /\ ReadIsCurrent)'
    OBVIOUS
  <1> USE LockAssumption
          DEF TypeOK, Pc, IInv, MutualExclusion, HolderIsOwner, ReadIsCurrent, Owner
  <1>1. ASSUME NEW t \in Thread, lock_acquire(t)
        PROVE  (MutualExclusion /\ HolderIsOwner /\ ReadIsCurrent)'
    BY <1>1 DEF lock_acquire, Goto
  <1>2. ASSUME NEW t \in Thread, lock_try_acquire(t)
        PROVE  (MutualExclusion /\ HolderIsOwner /\ ReadIsCurrent)'
    BY <1>2 DEF lock_try_acquire, Goto
  <1>3. ASSUME NEW t \in Thread, SemaTake(t)
        PROVE  (MutualExclusion /\ HolderIsOwner /\ ReadIsCurrent)'
    BY <1>3 DEF SemaTake, MayTake
  <1>4. ASSUME NEW t \in Thread, SemaBlock(t)
        PROVE  (MutualExclusion /\ HolderIsOwner /\ ReadIsCurrent)'
    BY <1>4 DEF SemaBlock
  <1>5. ASSUME NEW t \in Thread, SetHolder(t)
        PROVE  (MutualExclusion /\ HolderIsOwner /\ ReadIsCurrent)'
    BY <1>5 DEF SetHolder, Goto
  <1>6. ASSUME NEW t \in Thread, ReadNextTid(t)
        PROVE  (MutualExclusion /\ HolderIsOwner /\ ReadIsCurrent)'
    BY <1>6 DEF ReadNextTid, Goto
  <1>7. ASSUME NEW t \in Thread, WriteNextTid(t)
        PROVE  (MutualExclusion /\ HolderIsOwner /\ ReadIsCurrent)'
    BY <1>7 DEF WriteNextTid, Goto
  <1>8. ASSUME NEW t \in Thread, ClearHolder(t)
        PROVE  (MutualExclusion /\ HolderIsOwner /\ ReadIsCurrent)'
    BY <1>8 DEF ClearHolder, Goto, HolderAfterRelease
  <1>9. ASSUME NEW t \in Thread, sema_up(t)
        PROVE  (MutualExclusion /\ HolderIsOwner /\ ReadIsCurrent)'
    <2>1. CASE pc' = [pc EXCEPT ![t] = "idle"]
      BY <1>9, <2>1 DEF sema_up
    <2>2. ASSUME NEW h \in Thread, pc[h] = "blocked",
                 pc' = [pc EXCEPT ![t] = "idle", ![h] = "woken"]
          PROVE  (MutualExclusion /\ HolderIsOwner /\ ReadIsCurrent)'
      <3>1. /\ pc[t] = "up" /\ t # h
            /\ value' = value + 1
            /\ UNCHANGED <<holder, next_tid, tmp, tid>>
            /\ pc'[t] = "idle" /\ pc'[h] = "woken"
            /\ \A u \in Thread : u # t /\ u # h => pc'[u] = pc[u]
        BY <1>9, <2>2 DEF sema_up
      <3>2. Owner' = {} /\ value = 0
        <4>1. t \in Owner
          BY <3>1
        <4>2. value = 0
          BY <4>1
        <4>3. ASSUME NEW u \in Thread,
                     pc'[u] \in {"take", "read", "write", "release", "up"}
              PROVE  FALSE
          <5>1. u # t /\ u # h
            BY <3>1, <4>3
          <5>2. u \in Owner
            BY <3>1, <4>3, <5>1
          <5> QED BY <4>1, <5>1, <5>2
        <4> QED BY <4>2, <4>3
      <3>3. MutualExclusion'
        BY <3>1, <3>2
      <3>4. HolderIsOwner'
        BY <2>2, <3>1
      <3>5. ReadIsCurrent'
        BY <2>2, <3>1
      <3> QED BY <3>3, <3>4, <3>5
    <2>3. \/ pc' = [pc EXCEPT ![t] = "idle"]
          \/ \E h \in Thread : /\ pc[h] = "blocked"
                               /\ pc' = [pc EXCEPT ![t] = "idle", ![h] = "woken"]
      <3> HIDE DEF IInv
      <3> QED BY <1>9, WakeFacts
    <2> QED BY <2>1, <2>2, <2>3
  <1>10. CASE UNCHANGED vars
    BY <1>10 DEF vars
  <1> QED BY <1>1, <1>2, <1>3, <1>4, <1>5, <1>6, <1>7, <1>8, <1>9, <1>10
          DEF Next, Inside

\* Every step keeps the list exact and leaves nobody asleep beside a free lock.
LEMMA QueueStep == IInv /\ [Next]_vars => NobodyLeftAsleep'
  <1> SUFFICES ASSUME IInv, [Next]_vars PROVE NobodyLeftAsleep'
    OBVIOUS
  <1>a. TypeOK'
    BY TypeStep
  <1> USE DEF IInv
  <1>1. ASSUME NEW t \in Thread, pc[t] # "blocked", pc'[t] # "blocked",
               \A u \in Thread : u # t => pc'[u] = pc[u],
               pc'[t] \in {"acquire", "take", "read", "write", "release", "up"},
               waiters' = waiters
        PROVE  NobodyLeftAsleep'
    <2>1. {u \in Thread : pc'[u] = "blocked"} = {u \in Thread : pc[u] = "blocked"}
      BY <1>1
    <2>2. waiters # <<>> =>
            Owner' # {} \/ \E u \in Thread : pc'[u] = "woken" \/ pc'[u] = "acquire"
      BY <1>1 DEF Owner
    <2> QED BY <1>1, <2>1, <2>2 DEF NobodyLeftAsleep
  <1>2. ASSUME NEW t \in Thread, SemaBlock(t) PROVE NobodyLeftAsleep'
    <2>1. /\ pc[t] # "blocked"
          /\ pc' = [pc EXCEPT ![t] = "blocked"]
          /\ waiters' = Append(waiters, t)
          /\ value = 0
      BY <1>2 DEF SemaBlock, MayTake, TypeOK
    <2>2. t \notin OnList(waiters)
      BY <2>1 DEF NobodyLeftAsleep
    <2>3. NoDup(waiters') /\ OnList(waiters') = OnList(waiters) \union {t}
      BY <2>1, <2>2, PushBack DEF TypeOK, NobodyLeftAsleep
    <2>4. {u \in Thread : pc'[u] = "blocked"} = {u \in Thread : pc[u] = "blocked"} \union {t}
      BY <2>1 DEF TypeOK
    <2>5. Owner' # {}
      <3>1. PICK o \in Owner : TRUE
        BY <2>1 DEF MutualExclusion
      <3>2. o # t
        BY <1>2, <3>1 DEF SemaBlock, Owner
      <3>3. o \in Owner'
        BY <2>1, <3>1, <3>2 DEF Owner, TypeOK
      <3> QED BY <3>3
    <2> QED BY <2>3, <2>4, <2>5 DEF NobodyLeftAsleep
  <1>3. ASSUME NEW t \in Thread, sema_up(t) PROVE NobodyLeftAsleep'
    <2>1. CASE waiters = <<>>
      <3>1. waiters' = <<>> /\ pc' = [pc EXCEPT ![t] = "idle"] /\ pc[t] = "up"
        BY <1>3, <2>1, WakeFacts
      <3>2. {u \in Thread : pc'[u] = "blocked"} = {u \in Thread : pc[u] = "blocked"}
        BY <3>1 DEF TypeOK
      <3> QED BY <2>1, <3>1, <3>2 DEF NobodyLeftAsleep
    <2>2. CASE waiters # <<>>
      <3>1. PICK h \in Thread :
              /\ h = Head(waiters) /\ waiters' = Tail(waiters)
              /\ pc[h] = "blocked" /\ pc[t] = "up"
              /\ pc' = [pc EXCEPT ![t] = "idle", ![h] = "woken"]
        BY <1>3, <2>2, WakeFacts
      <3>2. /\ NoDup(waiters')
            /\ OnList(waiters') = OnList(waiters) \ {h}
        BY <2>2, <3>1, PopFront DEF NobodyLeftAsleep, TypeOK
      <3>3. {u \in Thread : pc'[u] = "blocked"} = {u \in Thread : pc[u] = "blocked"} \ {h}
        BY <3>1 DEF TypeOK
      <3>4. pc'[h] = "woken"
        BY <3>1 DEF TypeOK
      <3> QED BY <3>2, <3>3, <3>4 DEF NobodyLeftAsleep
    <2> QED BY <2>1, <2>2
  <1>4. CASE UNCHANGED vars
    BY <1>4 DEF vars, NobodyLeftAsleep, Owner
  <1>5. ASSUME NEW t \in Thread,
               lock_acquire(t) \/ lock_try_acquire(t) \/ SemaTake(t) \/ SetHolder(t)
                 \/ ReadNextTid(t) \/ WriteNextTid(t) \/ ClearHolder(t)
        PROVE  NobodyLeftAsleep'
    BY <1>1, <1>5 DEF lock_acquire, lock_try_acquire, SemaTake, SetHolder,
                      ReadNextTid, WriteNextTid, ClearHolder, Goto, TypeOK
  <1> QED BY <1>2, <1>3, <1>4, <1>5 DEF Next, Inside

\* IInv holds in every reachable state.
THEOREM Invariance == Spec => []IInv
  <1>1. Init => IInv
    BY InitIInv
  <1>2. IInv /\ [Next]_vars => IInv'
    BY TypeStep, ExclusionStep, QueueStep DEF IInv
  <1> QED BY <1>1, <1>2, PTL DEF Spec

\* lock_init(): "a lock can be held by at most a single thread", and the
\* assertions on holder in lock_acquire() and lock_release() cannot fail.
THEOREM LockExcludes == Spec => []LockIsExclusive
  BY Invariance, PTL DEF IInv, LockIsExclusive

\* sema_up() leaves no waiter asleep beside a free lock.
THEOREM NoSleeperBesideFreeLock == Spec => []NobodyLeftAsleep
  BY Invariance, PTL DEF IInv

\* allocate_tid() implements the atomic counter: only the store changes what
\* the counter shows, and it stores the successor of the current value.
THEOREM TidsAreAtomic == Spec => AllocatesAtomically
  <1>1. Init => Atomic!Init
    BY DEF Init, Atomic!Init
  <1>2. IInv /\ [Next]_vars => [Atomic!Next]_<<next_tid, tid>>
    <2> SUFFICES ASSUME IInv, [Next]_vars
                 PROVE  Atomic!Next \/ UNCHANGED <<next_tid, tid>>
      OBVIOUS
    <2>1. ASSUME NEW t \in Thread, WriteNextTid(t) PROVE Atomic!Allocate(t)
      BY <2>1 DEF WriteNextTid, Goto, Atomic!Allocate, IInv, ReadIsCurrent
    <2>2. ASSUME NEW t \in Thread,
                 lock_acquire(t) \/ lock_try_acquire(t) \/ SemaTake(t) \/ SemaBlock(t)
                   \/ SetHolder(t) \/ ReadNextTid(t) \/ ClearHolder(t) \/ sema_up(t)
          PROVE  UNCHANGED <<next_tid, tid>>
      BY <2>2 DEF lock_acquire, lock_try_acquire, SemaTake, SemaBlock, SetHolder,
                  ReadNextTid, ClearHolder, sema_up
    <2>3. CASE UNCHANGED vars
      BY <2>3 DEF vars
    <2> QED BY <2>1, <2>2, <2>3 DEF Next, Inside, Atomic!Next
  <1> QED BY <1>1, <1>2, Invariance, PTL DEF Spec, AllocatesAtomically, Atomic!Spec

-----------------------------------------------------------------------------
(***************************************************************************)
(* The readers-writers lock.                                               *)
(***************************************************************************)
\* An empty list has no elements, and only an empty one.
LEMMA EmptyList ==
  ASSUME NEW S, NEW s \in Seq(S)
  PROVE  s = <<>> <=> OnList(s) = {}
  <1>1. s = <<>> => OnList(s) = {}
    BY DEF OnList
  <1>2. s # <<>> => s[1] \in OnList(s)
    BY DEF OnList
  <1> QED BY <1>1, <1>2

-----------------------------------------------------------------------------
\* The counters count, in terms of the sizes of sets here.
Counted ==
  /\ AR = Cardinality(RWL!At({"reading"}))
  /\ AW = Cardinality(RWL!At({"writing"}))
  /\ WR = Cardinality(RWL!At({"rwait", "rwoken"}))
  /\ WW = Cardinality(RWL!At({"wwait", "wwoken"}))

LEMMA SameCounts == RWL!CountersExact <=> Counted
  <1>1. \A S : RWL!Cardinality(S) = Cardinality(S)
    BY DEF RWL!Cardinality, Cardinality
  <1> QED BY <1>1, Zenon DEF RWL!CountersExact, Counted

\* The condition variables' lists hold exactly the threads that sleep.
ListsExact ==
  /\ NoDup(read) /\ OnList(read) = RWL!At({"rwait"})
  /\ NoDup(write) /\ OnList(write) = RWL!At({"wwait"})

\* Nobody is forgotten: while readers sleep a writer is active or waits, and
\* while writers sleep somebody is active or a writer has been signalled.
NobodyForgotten ==
  /\ RWL!At({"rwait"}) # {} => AW + WW > 0
  /\ RWL!At({"wwait"}) # {} => AR + AW > 0 \/ RWL!At({"wwoken"}) # {}

\* The inductive invariant.
RWIInv == RWL!TypeOK /\ Counted /\ ListsExact /\ NobodyForgotten

\* A set of threads is finite, and its size tells whether it is empty.
LEMMA AtFinite ==
  ASSUME NEW P
  PROVE  /\ IsFiniteSet(RWL!At(P))
         /\ Cardinality(RWL!At(P)) \in Nat
         /\ Cardinality(RWL!At(P)) = 0 <=> RWL!At(P) = {}
  <1>1. RWL!At(P) \in SUBSET RWThread
    BY DEF RWL!At
  <1>2. IsFiniteSet(RWL!At(P))
    BY <1>1, SynchAssumption, FS_Subset
  <1> QED BY <1>2, FS_CardinalityType, FS_EmptySet

\* The number of threads that are in a place changes by one thread's step.
Change(P, t) ==
  (IF rw_pc'[t] \in P THEN 1 ELSE 0) - (IF rw_pc[t] \in P THEN 1 ELSE 0)

\* How a step that takes one thread in or out of a set of places, and none of
\* the others, changes the number of threads there.
LEMMA CountChange ==
  ASSUME NEW P, NEW t \in RWThread,
         \A u \in RWThread \ {t} : rw_pc'[u] \in P <=> rw_pc[u] \in P
  PROVE  Cardinality(RWL!At(P)') = Cardinality(RWL!At(P)) + Change(P, t)
  <1> USE DEF Change
  <1>1. CASE rw_pc[t] \in P /\ rw_pc'[t] \notin P
    <2>1. RWL!At(P)' = RWL!At(P) \ {t} /\ t \in RWL!At(P)
      BY <1>1 DEF RWL!At
    <2>2. Cardinality(RWL!At(P)') = Cardinality(RWL!At(P)) - 1 /\ Cardinality(RWL!At(P)) \in Nat
      BY <2>1, AtFinite, FS_RemoveElement
    <2> QED BY <1>1, <2>2
  <1>2. CASE rw_pc[t] \notin P /\ rw_pc'[t] \in P
    <2>1. RWL!At(P)' = RWL!At(P) \cup {t} /\ t \notin RWL!At(P)
      BY <1>2 DEF RWL!At
    <2>2. Cardinality(RWL!At(P)') = Cardinality(RWL!At(P)) + 1 /\ Cardinality(RWL!At(P)) \in Nat
      BY <2>1, AtFinite, FS_AddElement
    <2> QED BY <1>2, <2>2
  <1>3. CASE rw_pc[t] \in P <=> rw_pc'[t] \in P
    <2>1. RWL!At(P)' = RWL!At(P)
      BY <1>3 DEF RWL!At
    <2> QED BY <1>3, <2>1, AtFinite
  <1> QED BY <1>1, <1>2, <1>3

LEMMA RWInitIInv == RWL!Init => RWIInv
  <1> SUFFICES ASSUME RWL!Init PROVE RWIInv
    OBVIOUS
  <1> USE DEF RWL!Init, RWL!rw_lock_init
  <1>1. RWL!TypeOK
    BY DEF RWL!TypeOK, RWL!Pc
  <1>2. ASSUME NEW P, "out" \notin P PROVE RWL!At(P) = {}
    BY <1>2 DEF RWL!At
  <1>3. Counted
    BY <1>2, FS_EmptySet DEF Counted
  <1>4. ListsExact
    BY <1>2 DEF ListsExact, NoDup, OnList
  <1>5. NobodyForgotten
    BY <1>2 DEF NobodyForgotten
  <1> QED BY <1>1, <1>3, <1>4, <1>5 DEF RWIInv

\* What the loops and the signals do, in terms of places: one thread moves, and
\* sleepers on a list may be woken.
Moves(t, p, q) ==
  /\ rw_pc[t] \in p /\ rw_pc'[t] \in q
  /\ rw_pc' \in [RWThread -> RWL!Pc]
  /\ \A u \in RWThread \ {t} :
       \/ rw_pc'[u] = rw_pc[u]
       \/ rw_pc[u] = "rwait" /\ rw_pc'[u] = "rwoken"
       \/ rw_pc[u] = "wwait" /\ rw_pc'[u] = "wwoken"

\* A step whose thread moves keeps the counters exact if each of them is changed
\* by what the thread leaves and enters.
LEMMA CountersStep ==
  ASSUME Counted, NEW t \in RWThread, NEW p, NEW q, Moves(t, p, q),
         AR' = AR + Change({"reading"}, t),
         AW' = AW + Change({"writing"}, t),
         WR' = WR + Change({"rwait", "rwoken"}, t),
         WW' = WW + Change({"wwait", "wwoken"}, t)
  PROVE  Counted'
  <1> USE DEF Moves
  <1>1. Cardinality(RWL!At({"reading"})') = Cardinality(RWL!At({"reading"})) + Change({"reading"}, t)
    <2>1. \A u \in RWThread \ {t} : rw_pc'[u] \in {"reading"} <=> rw_pc[u] \in {"reading"}
      OBVIOUS
    <2> QED BY <2>1, CountChange, Zenon
  <1>2. Cardinality(RWL!At({"writing"})') = Cardinality(RWL!At({"writing"})) + Change({"writing"}, t)
    <2>1. \A u \in RWThread \ {t} : rw_pc'[u] \in {"writing"} <=> rw_pc[u] \in {"writing"}
      OBVIOUS
    <2> QED BY <2>1, CountChange, Zenon
  <1>3. Cardinality(RWL!At({"rwait", "rwoken"})')
          = Cardinality(RWL!At({"rwait", "rwoken"})) + Change({"rwait", "rwoken"}, t)
    <2>1. \A u \in RWThread \ {t} :
            rw_pc'[u] \in {"rwait", "rwoken"} <=> rw_pc[u] \in {"rwait", "rwoken"}
      OBVIOUS
    <2> QED BY <2>1, CountChange, Zenon
  <1>4. Cardinality(RWL!At({"wwait", "wwoken"})')
          = Cardinality(RWL!At({"wwait", "wwoken"})) + Change({"wwait", "wwoken"}, t)
    <2>1. \A u \in RWThread \ {t} :
            rw_pc'[u] \in {"wwait", "wwoken"} <=> rw_pc[u] \in {"wwait", "wwoken"}
      OBVIOUS
    <2> QED BY <2>1, CountChange, Zenon
  <1> QED BY <1>1, <1>2, <1>3, <1>4, Zenon DEF Counted

\* What every step owes: the moving thread's counts, and exact lists.
LEMMA Bookkeeping ==
  ASSUME RWIInv, NEW t \in RWThread, NEW p, NEW q, Moves(t, p, q),
         AR' = AR + Change({"reading"}, t),
         AW' = AW + Change({"writing"}, t),
         WR' = WR + Change({"rwait", "rwoken"}, t),
         WW' = WW + Change({"wwait", "wwoken"}, t),
         read' \in Seq(RWThread), write' \in Seq(RWThread), ListsExact', NobodyForgotten'
  PROVE  RWIInv'
  <1>1. Counted'
    BY CountersStep, Zenon DEF RWIInv
  <1>2. ASSUME NEW P PROVE Cardinality(RWL!At(P)') \in Nat
    <2>1. RWL!At(P)' \in SUBSET RWThread
      BY DEF RWL!At
    <2> QED BY <2>1, SynchAssumption, FS_Subset, FS_CardinalityType
  <1>3. AR' \in Nat /\ AW' \in Nat /\ WR' \in Nat /\ WW' \in Nat
    BY <1>1, <1>2, Zenon DEF Counted
  <1>4. RWL!TypeOK'
    BY <1>3 DEF RWL!TypeOK, Moves
  <1> QED BY <1>1, <1>4 DEF RWIInv

\* cond_signal() of the writers.
LEMMA SignalFacts ==
  ASSUME RWIInv, NEW t \in RWThread, rw_pc[t] \in {"reading", "writing"}, RWL!SignalWrite(t)
  PROVE  /\ write' \in Seq(RWThread) /\ NoDup(write')
         /\ rw_pc' \in [RWThread -> RWL!Pc] /\ rw_pc'[t] = "out"
         /\ OnList(write') = RWL!At({"wwait"})'
         /\ RWL!At({"rwait"})' = RWL!At({"rwait"})
         /\ \A u \in RWThread \ {t} :
              rw_pc'[u] = rw_pc[u] \/ (rw_pc[u] = "wwait" /\ rw_pc'[u] = "wwoken")
         /\ RWL!At({"wwait"}) # {} => RWL!At({"wwoken"})' # {}
         /\ RWL!At({"wwoken"}) # {} => RWL!At({"wwoken"})' # {}
  <1> USE DEF RWIInv, RWL!TypeOK, ListsExact, RWL!SignalWrite, RWL!Pc
  <1>1. CASE write = <<>>
    BY <1>1, EmptyList DEF RWL!At
  <1>2. CASE write # <<>>
    <2> DEFINE h == Head(write)
    <2>1. /\ h \in RWThread /\ h \in OnList(write)
          /\ Tail(write) \in Seq(RWThread) /\ NoDup(Tail(write))
          /\ OnList(Tail(write)) = OnList(write) \ {h}
      BY <1>2, PopFront
    <2> HIDE DEF h
    <2>2. rw_pc' = [rw_pc EXCEPT ![t] = "out", ![h] = "wwoken"] /\ write' = Tail(write)
      BY <1>2 DEF h
    <2>3. rw_pc[h] = "wwait" /\ h # t
      BY <2>1 DEF RWL!At
    <2>4. /\ rw_pc' \in [RWThread -> RWL!Pc] /\ rw_pc'[t] = "out" /\ rw_pc'[h] = "wwoken"
          /\ \A u \in RWThread \ {t, h} : rw_pc'[u] = rw_pc[u]
      BY <2>1, <2>2, <2>3
    <2>5. RWL!At({"wwait"})' = RWL!At({"wwait"}) \ {h}
      BY <2>3, <2>4 DEF RWL!At
    <2>6. RWL!At({"rwait"})' = RWL!At({"rwait"})
      BY <2>3, <2>4 DEF RWL!At
    <2>7. RWL!At({"wwoken"})' # {}
      BY <2>1, <2>4 DEF RWL!At
    <2> QED BY <2>1, <2>2, <2>3, <2>4, <2>5, <2>6, <2>7
  <1> QED BY <1>1, <1>2

\* A reader in its loop, before or after a wait.
LEMMA ReaderLoopFacts ==
  ASSUME RWIInv, NEW t \in RWThread, rw_pc[t] \in {"out", "rwoken"},
         RWL!ReaderLoop(t, WR - (IF rw_pc[t] = "rwoken" THEN 1 ELSE 0))
  PROVE  /\ Moves(t, {"out", "rwoken"}, {"rwait", "reading"})
         /\ AR' = AR + Change({"reading"}, t)
         /\ WR' = WR + Change({"rwait", "rwoken"}, t)
         /\ read' \in Seq(RWThread) /\ NoDup(read')
         /\ OnList(read') = RWL!At({"rwait"})'
         /\ \A u \in RWThread \ {t} : rw_pc'[u] = rw_pc[u]
         /\ rw_pc'[t] = "rwait" => AW + WW > 0
         /\ rw_pc'[t] = "reading" => AW + WW = 0
  <1> USE DEF RWIInv, RWL!TypeOK, ListsExact, RWL!ReaderLoop, RWL!ReaderMustWait, Moves, RWL!Pc, Change
  <1>1. CASE AW + WW > 0
    <2>1. /\ WR' = WR - (IF rw_pc[t] = "rwoken" THEN 1 ELSE 0) + 1
          /\ read' = Append(read, t)
          /\ rw_pc' = [rw_pc EXCEPT ![t] = "rwait"]
          /\ AR' = AR
      BY <1>1
    <2>2. RWL!At({"rwait"})' = RWL!At({"rwait"}) \cup {t} /\ t \notin RWL!At({"rwait"})
      BY <2>1 DEF RWL!At
    <2>3. read' \in Seq(RWThread) /\ NoDup(read') /\ OnList(read') = OnList(read) \cup {t}
      BY <2>1, <2>2, PushBack
    <2> QED BY <1>1, <2>1, <2>2, <2>3
  <1>2. CASE ~ (AW + WW > 0)
    <2>1. /\ WR' = WR - (IF rw_pc[t] = "rwoken" THEN 1 ELSE 0)
          /\ read' = read
          /\ rw_pc' = [rw_pc EXCEPT ![t] = "reading"]
          /\ AR' = AR + 1
      BY <1>2
    <2>2. RWL!At({"rwait"})' = RWL!At({"rwait"})
      BY <2>1 DEF RWL!At
    <2> QED BY <1>2, <2>1, <2>2
  <1> QED BY <1>1, <1>2

\* A writer in its loop.
LEMMA WriterLoopFacts ==
  ASSUME RWIInv, NEW t \in RWThread, rw_pc[t] \in {"out", "wwoken"},
         RWL!WriterLoop(t, WW - (IF rw_pc[t] = "wwoken" THEN 1 ELSE 0))
  PROVE  /\ Moves(t, {"out", "wwoken"}, {"wwait", "writing"})
         /\ AW' = AW + Change({"writing"}, t)
         /\ WW' = WW + Change({"wwait", "wwoken"}, t)
         /\ write' \in Seq(RWThread) /\ NoDup(write')
         /\ OnList(write') = RWL!At({"wwait"})'
         /\ \A u \in RWThread \ {t} : rw_pc'[u] = rw_pc[u]
         /\ rw_pc'[t] = "wwait" => AR + AW > 0
         /\ rw_pc'[t] = "writing" => AR + AW = 0
  <1> USE DEF RWIInv, RWL!TypeOK, ListsExact, RWL!WriterLoop, RWL!WriterMustWait, Moves, RWL!Pc, Change
  <1>1. CASE AR + AW > 0
    <2>1. /\ WW' = WW - (IF rw_pc[t] = "wwoken" THEN 1 ELSE 0) + 1
          /\ write' = Append(write, t)
          /\ rw_pc' = [rw_pc EXCEPT ![t] = "wwait"]
          /\ AW' = AW
      BY <1>1
    <2>2. RWL!At({"wwait"})' = RWL!At({"wwait"}) \cup {t} /\ t \notin RWL!At({"wwait"})
      BY <2>1 DEF RWL!At
    <2>3. write' \in Seq(RWThread) /\ NoDup(write') /\ OnList(write') = OnList(write) \cup {t}
      BY <2>1, <2>2, PushBack
    <2> QED BY <1>1, <2>1, <2>2, <2>3
  <1>2. CASE ~ (AR + AW > 0)
    <2>1. /\ WW' = WW - (IF rw_pc[t] = "wwoken" THEN 1 ELSE 0)
          /\ write' = write
          /\ rw_pc' = [rw_pc EXCEPT ![t] = "writing"]
          /\ AW' = AW + 1
      BY <1>2
    <2>2. RWL!At({"wwait"})' = RWL!At({"wwait"})
      BY <2>1 DEF RWL!At
    <2> QED BY <1>2, <2>1, <2>2
  <1> QED BY <1>1, <1>2

\* The release of the last active thread, or of one of several.
LEMMA BroadcastFacts ==
  ASSUME RWIInv, NEW t \in RWThread, rw_pc[t] = "writing", RWL!BroadcastRead(t)
  PROVE  /\ Moves(t, {"writing"}, {"out"})
         /\ read' = <<>> /\ RWL!At({"rwait"})' = {} /\ RWL!At({"wwait"})' = RWL!At({"wwait"})
         /\ RWL!At({"wwoken"})' = RWL!At({"wwoken"})
         /\ \A u \in RWThread \ {t} :
              rw_pc'[u] = rw_pc[u] \/ (rw_pc[u] = "rwait" /\ rw_pc'[u] = "rwoken")
  <1> USE DEF RWIInv, RWL!TypeOK, ListsExact, RWL!BroadcastRead, RWL!Broadcast, Moves, RWL!Pc
  <1>1. RWL!OnList(read) = {u \in RWThread : rw_pc[u] = "rwait"}
    <2>1. RWL!OnList(read) = OnList(read)
      BY DEF OnList, RWL!OnList
    <2> QED BY <2>1 DEF RWL!At
  <1>2. /\ rw_pc'[t] = "out"
        /\ \A u \in RWThread \ {t} : rw_pc'[u] = IF rw_pc[u] = "rwait" THEN "rwoken" ELSE rw_pc[u]
        /\ rw_pc' \in [RWThread -> RWL!Pc]
    BY <1>1
  <1> QED BY <1>2 DEF RWL!At

\* rw_lock_acquire() of a reader, and its return from cond_wait().
LEMMA AcquireReadStep ==
  ASSUME RWIInv, NEW t \in RWThread, RWL!AcquireRead(t) \/ RWL!ResumeRead(t)
  PROVE  RWIInv'
  <1> USE DEF RWIInv, RWL!TypeOK
  <1> DEFINE w == IF rw_pc[t] = "rwoken" THEN 1 ELSE 0
  <1>1. /\ rw_pc[t] \in {"out", "rwoken"}
        /\ RWL!ReaderLoop(t, WR - w)
        /\ AW' = AW /\ WW' = WW /\ write' = write
    <2>1. CASE RWL!AcquireRead(t)
      <3>1. WR - w = WR
        BY <2>1 DEF RWL!AcquireRead
      <3> QED BY <2>1, <3>1 DEF RWL!AcquireRead
    <2>2. CASE RWL!ResumeRead(t)
      BY <2>2 DEF RWL!ResumeRead, RWL!AfterWait
    <2> QED BY <2>1, <2>2
  <1>2. /\ Moves(t, {"out", "rwoken"}, {"rwait", "reading"})
        /\ AR' = AR + Change({"reading"}, t)
        /\ WR' = WR + Change({"rwait", "rwoken"}, t)
        /\ read' \in Seq(RWThread) /\ NoDup(read')
        /\ OnList(read') = RWL!At({"rwait"})'
        /\ \A u \in RWThread \ {t} : rw_pc'[u] = rw_pc[u]
        /\ rw_pc'[t] = "rwait" => AW + WW > 0
    BY <1>1, ReaderLoopFacts, Zenon
  <1>3. AW' = AW + Change({"writing"}, t) /\ WW' = WW + Change({"wwait", "wwoken"}, t)
    BY <1>1, <1>2 DEF Change, Moves
  <1>4. RWL!At({"wwait"})' = RWL!At({"wwait"}) /\ RWL!At({"wwoken"})' = RWL!At({"wwoken"})
    BY <1>2 DEF RWL!At, Moves
  <1>5. ListsExact'
    BY <1>1, <1>2, <1>4 DEF ListsExact
  <1>6. NobodyForgotten'
    <2>1. RWL!At({"rwait"})' # {} => RWL!At({"rwait"}) # {} \/ AW + WW > 0
      BY <1>2 DEF RWL!At
    <2>2. AR' = AR \/ AR' = AR + 1
      BY <1>2 DEF Moves, Change
    <2>3. RWL!At({"rwait"})' # {} => AW' + WW' > 0
      BY <1>1, <2>1 DEF NobodyForgotten
    <2>4. RWL!At({"wwait"})' # {} => AR' + AW' > 0 \/ RWL!At({"wwoken"})' # {}
      <3>1. AW' = AW /\ AW \in Nat /\ AR \in Nat
        BY <1>1
      <3>2. AR + AW > 0 => AR' + AW' > 0
        BY <2>2, <3>1
      <3> QED BY <1>4, <3>2, Zenon DEF NobodyForgotten
    <2> QED BY <2>3, <2>4, Zenon DEF NobodyForgotten
  <1> QED BY <1>1, <1>2, <1>3, <1>5, <1>6, Bookkeeping, Zenon

\* rw_lock_acquire() of a writer, and its return from cond_wait().
LEMMA AcquireWriteStep ==
  ASSUME RWIInv, NEW t \in RWThread, RWL!AcquireWrite(t) \/ RWL!ResumeWrite(t)
  PROVE  RWIInv'
  <1> USE DEF RWIInv, RWL!TypeOK
  <1> DEFINE w == IF rw_pc[t] = "wwoken" THEN 1 ELSE 0
  <1>1. /\ rw_pc[t] \in {"out", "wwoken"}
        /\ RWL!WriterLoop(t, WW - w)
        /\ AR' = AR /\ WR' = WR /\ read' = read
    <2>1. CASE RWL!AcquireWrite(t)
      <3>1. WW - w = WW
        BY <2>1 DEF RWL!AcquireWrite
      <3> QED BY <2>1, <3>1 DEF RWL!AcquireWrite
    <2>2. CASE RWL!ResumeWrite(t)
      BY <2>2 DEF RWL!ResumeWrite, RWL!AfterWait
    <2> QED BY <2>1, <2>2
  <1>2. /\ Moves(t, {"out", "wwoken"}, {"wwait", "writing"})
        /\ AW' = AW + Change({"writing"}, t)
        /\ WW' = WW + Change({"wwait", "wwoken"}, t)
        /\ write' \in Seq(RWThread) /\ NoDup(write')
        /\ OnList(write') = RWL!At({"wwait"})'
        /\ \A u \in RWThread \ {t} : rw_pc'[u] = rw_pc[u]
        /\ rw_pc'[t] = "wwait" => AR + AW > 0
        /\ rw_pc'[t] = "writing" => AR + AW = 0
    BY <1>1, WriterLoopFacts, Zenon
  <1>3. AR' = AR + Change({"reading"}, t) /\ WR' = WR + Change({"rwait", "rwoken"}, t)
    BY <1>1, <1>2 DEF Change, Moves
  <1>4. RWL!At({"rwait"})' = RWL!At({"rwait"})
    BY <1>2 DEF RWL!At, Moves
  <1>5. ListsExact'
    BY <1>1, <1>2, <1>4 DEF ListsExact
  <1>6. NobodyForgotten'
    <2>1. \/ rw_pc'[t] = "wwait" /\ AW' = AW /\ WW' >= WW /\ WW' \in Nat /\ AR + AW > 0
          \/ rw_pc'[t] = "writing" /\ AW' = AW + 1 /\ WW' \in {WW, WW - 1}
      BY <1>2 DEF Change, Moves
    <2>2. WW' \in Nat
      <3>1. rw_pc[t] = "wwoken" => WW # 0
        <4>1. rw_pc[t] = "wwoken" => RWL!At({"wwait", "wwoken"}) # {}
          BY DEF RWL!At
        <4> QED BY <4>1, AtFinite DEF Counted
      <3> QED BY <1>2, <3>1 DEF Change, Moves
    <2>3. RWL!At({"rwait"})' # {} => AW' + WW' > 0
      BY <1>4, <2>1, <2>2 DEF NobodyForgotten
    <2>4. RWL!At({"wwait"})' # {} => AR' + AW' > 0 \/ RWL!At({"wwoken"})' # {}
      BY <1>1, <2>1
    <2> QED BY <2>3, <2>4, Zenon DEF NobodyForgotten
  <1> QED BY <1>1, <1>2, <1>3, <1>5, <1>6, Bookkeeping, Zenon

\* Waiting writers there are none, asleep or awake, when WW is 0.
LEMMA NoWaitingWriter ==
  ASSUME RWIInv, WW = 0
  PROVE  RWL!At({"wwait"}) = {} /\ RWL!At({"wwoken"}) = {}
  <1>1. RWL!At({"wwait", "wwoken"}) = {}
    BY AtFinite DEF RWIInv, Counted
  <1> QED BY <1>1 DEF RWL!At

\* rw_lock_release() of a reader.
LEMMA ReleaseReadStep ==
  ASSUME RWIInv, NEW t \in RWThread, RWL!ReleaseRead(t)
  PROVE  RWIInv'
  <1> USE DEF RWIInv, RWL!TypeOK, RWL!Pc
  <1>1. /\ rw_pc[t] = "reading" /\ AR' = AR - 1
        /\ AW' = AW /\ WR' = WR /\ WW' = WW /\ read' = read
    BY DEF RWL!ReleaseRead
  <1>2. AR \in Nat \ {0}
    <2>1. RWL!At({"reading"}) # {}
      BY <1>1 DEF RWL!At
    <2> QED BY <2>1, AtFinite DEF Counted
  <1>3. /\ write' \in Seq(RWThread) /\ NoDup(write')
        /\ Moves(t, {"reading"}, {"out"})
        /\ OnList(write') = RWL!At({"wwait"})'
        /\ RWL!At({"rwait"})' = RWL!At({"rwait"})
    <2>1. CASE RWL!SignalWrite(t)
      <3>1. /\ write' \in Seq(RWThread) /\ NoDup(write')
            /\ rw_pc' \in [RWThread -> RWL!Pc] /\ rw_pc'[t] = "out"
            /\ OnList(write') = RWL!At({"wwait"})'
            /\ RWL!At({"rwait"})' = RWL!At({"rwait"})
            /\ \A u \in RWThread \ {t} :
                 rw_pc'[u] = rw_pc[u] \/ (rw_pc[u] = "wwait" /\ rw_pc'[u] = "wwoken")
        BY <1>1, <2>1, SignalFacts
      <3> QED BY <1>1, <3>1 DEF Moves
    <2>2. CASE rw_pc' = [rw_pc EXCEPT ![t] = "out"] /\ write' = write
      <3>1. RWL!At({"wwait"})' = RWL!At({"wwait"}) /\ RWL!At({"rwait"})' = RWL!At({"rwait"})
        BY <1>1, <2>2 DEF RWL!At
      <3> QED BY <1>1, <2>2, <3>1 DEF ListsExact, Moves
    <2> QED BY <2>1, <2>2 DEF RWL!ReleaseRead
  <1>4. /\ AR' = AR + Change({"reading"}, t) /\ AW' = AW + Change({"writing"}, t)
        /\ WR' = WR + Change({"rwait", "rwoken"}, t)
        /\ WW' = WW + Change({"wwait", "wwoken"}, t)
    BY <1>1, <1>3 DEF Change, Moves
  <1>5. ListsExact'
    BY <1>1, <1>3 DEF ListsExact
  <1>6. NobodyForgotten'
    <2>1. RWL!At({"rwait"})' # {} => AW' + WW' > 0
      BY <1>1, <1>3 DEF NobodyForgotten
    <2>2. CASE RWL!LastReaderSignals
      <3>1. /\ RWL!At({"wwait"}) # {} => RWL!At({"wwoken"})' # {}
            /\ RWL!At({"wwoken"}) # {} => RWL!At({"wwoken"})' # {}
        BY <1>1, <2>2, SignalFacts DEF RWL!ReleaseRead
      <3>2. RWL!At({"wwait"})' # {} => RWL!At({"wwait"}) # {}
        BY <1>3 DEF RWL!At, Moves
      <3> QED BY <2>1, <3>1, <3>2, Zenon DEF NobodyForgotten
    <2>3. CASE ~ RWL!LastReaderSignals
      <3>1. AR' > 0 \/ WW = 0
        BY <1>1, <1>2, <2>3 DEF RWL!LastReaderSignals
      <3>2. rw_pc' = [rw_pc EXCEPT ![t] = "out"]
        BY <2>3 DEF RWL!ReleaseRead
      <3>3. RWL!At({"wwait"})' = RWL!At({"wwait"})
        BY <1>1, <3>2 DEF RWL!At
      <3>4. RWL!At({"wwait"})' # {} => AR' + AW' > 0 \/ RWL!At({"wwoken"})' # {}
        BY <1>1, <1>2, <3>1, <3>3, NoWaitingWriter
      <3> QED BY <2>1, <3>4, Zenon DEF NobodyForgotten
    <2> QED BY <2>2, <2>3
  <1> QED BY <1>1, <1>3, <1>4, <1>5, <1>6, Bookkeeping, Zenon

\* rw_lock_release() of a writer.
LEMMA ReleaseWriteStep ==
  ASSUME RWIInv, NEW t \in RWThread, RWL!ReleaseWrite(t)
  PROVE  RWIInv'
  <1> USE DEF RWIInv, RWL!TypeOK, RWL!Pc
  <1>1. rw_pc[t] = "writing" /\ AW' = AW - 1 /\ AR' = AR /\ WR' = WR /\ WW' = WW
    BY DEF RWL!ReleaseWrite
  <1>2. AW \in Nat \ {0}
    <2>1. RWL!At({"writing"}) # {}
      BY <1>1 DEF RWL!At
    <2> QED BY <2>1, AtFinite DEF Counted
  <1>3. ASSUME Moves(t, {"writing"}, {"out"})
        PROVE  /\ AR' = AR + Change({"reading"}, t) /\ AW' = AW + Change({"writing"}, t)
               /\ WR' = WR + Change({"rwait", "rwoken"}, t)
               /\ WW' = WW + Change({"wwait", "wwoken"}, t)
    BY <1>1, <1>3 DEF Change, Moves
  <1>4. CASE RWL!WriterSignalsWriter /\ RWL!SignalWrite(t) /\ UNCHANGED read
    <2>1. /\ write' \in Seq(RWThread) /\ NoDup(write')
          /\ rw_pc' \in [RWThread -> RWL!Pc] /\ rw_pc'[t] = "out"
          /\ OnList(write') = RWL!At({"wwait"})'
          /\ RWL!At({"rwait"})' = RWL!At({"rwait"})
          /\ \A u \in RWThread \ {t} :
               rw_pc'[u] = rw_pc[u] \/ (rw_pc[u] = "wwait" /\ rw_pc'[u] = "wwoken")
          /\ RWL!At({"wwait"}) # {} => RWL!At({"wwoken"})' # {}
      BY <1>1, <1>4, SignalFacts
    <2>2. Moves(t, {"writing"}, {"out"})
      BY <1>1, <2>1 DEF Moves
    <2>3. ListsExact'
      BY <1>4, <2>1 DEF ListsExact
    <2>4. NobodyForgotten'
      <3>1. AW' + WW' > 0
        BY <1>1, <1>2, <1>4 DEF RWL!WriterSignalsWriter
      <3>2. RWL!At({"wwait"})' # {} => RWL!At({"wwait"}) # {}
        BY <2>2 DEF RWL!At, Moves
      <3> QED BY <2>1, <3>1, <3>2, Zenon DEF NobodyForgotten
    <2> QED BY <1>3, <1>4, <2>1, <2>2, <2>3, <2>4, Bookkeeping, Zenon
  <1>5. CASE ~ RWL!WriterSignalsWriter /\ RWL!BroadcastRead(t) /\ UNCHANGED write
    <2>1. /\ Moves(t, {"writing"}, {"out"})
          /\ read' = <<>> /\ RWL!At({"rwait"})' = {} /\ RWL!At({"wwait"})' = RWL!At({"wwait"})
      BY <1>1, <1>5, BroadcastFacts, Zenon
    <2>2. WW = 0
      BY <1>5 DEF RWL!WriterSignalsWriter
    <2>3. read' \in Seq(RWThread) /\ NoDup(read') /\ OnList(read') = {}
      BY <2>1 DEF NoDup, OnList
    <2>4. ListsExact'
      BY <1>5, <2>1, <2>3 DEF ListsExact
    <2>5. NobodyForgotten'
      BY <2>1, <2>2, NoWaitingWriter, Zenon DEF NobodyForgotten
    <2>6. write' \in Seq(RWThread)
      BY <1>5
    <2> QED BY <1>3, <2>1, <2>3, <2>4, <2>5, <2>6, Bookkeeping, Zenon
  <1>6. CASE /\ ~ RWL!WriterSignalsWriter /\ WR = 0
             /\ rw_pc' = [rw_pc EXCEPT ![t] = "out"]
             /\ UNCHANGED <<read, write>>
    <2>1. /\ RWL!At({"rwait"})' = RWL!At({"rwait"}) /\ RWL!At({"wwait"})' = RWL!At({"wwait"})
          /\ Moves(t, {"writing"}, {"out"})
      BY <1>1, <1>6 DEF RWL!At, Moves
    <2>2. WW = 0 /\ RWL!At({"wwait"}) = {}
      BY <1>6, NoWaitingWriter DEF RWL!WriterSignalsWriter
    <2>3. RWL!At({"rwait"}) = {}
      <3>1. RWL!At({"rwait", "rwoken"}) = {}
        BY <1>6, AtFinite DEF Counted
      <3> QED BY <3>1 DEF RWL!At
    <2>4. ListsExact'
      BY <1>6, <2>1 DEF ListsExact
    <2>5. NobodyForgotten'
      BY <2>1, <2>2, <2>3, Zenon DEF NobodyForgotten
    <2>6. read' \in Seq(RWThread) /\ write' \in Seq(RWThread)
      BY <1>6
    <2> QED BY <1>3, <2>1, <2>4, <2>5, <2>6, Bookkeeping, Zenon
  <1> QED BY <1>4, <1>5, <1>6 DEF RWL!ReleaseWrite

\* The invariant is inductive.
LEMMA NextIInv == RWIInv /\ [RWL!Next]_(RWL!vars) => RWIInv'
  <1> SUFFICES ASSUME RWIInv, [RWL!Next]_(RWL!vars) PROVE RWIInv'
    OBVIOUS
  <1>1. CASE RWL!Next
    <2>1. PICK t \in RWThread :
            RWL!AcquireRead(t) \/ RWL!AcquireWrite(t) \/ RWL!Resume(t) \/ RWL!Release(t)
      BY <1>1 DEF RWL!Next
    <2> QED BY <2>1, AcquireReadStep, AcquireWriteStep, ReleaseReadStep, ReleaseWriteStep, Zenon
            DEF RWL!Resume, RWL!Release
  <1>2. CASE UNCHANGED RWL!vars
    <2>1. \A P : RWL!At(P)' = RWL!At(P)
      BY <1>2 DEF RWL!At, RWL!vars
    <2> QED BY <1>2, <2>1 DEF RWL!vars, RWIInv, RWL!TypeOK, Counted, ListsExact, NobodyForgotten
  <1> QED BY <1>1, <1>2

\* RWIInv holds in every reachable state.
THEOREM RWInvariance == RWL!Spec => []RWIInv
  BY RWInitIInv, NextIInv, PTL DEF RWL!Spec

\* For any number of threads, the counters rw_lock_acquire() and
\* rw_lock_release() decide by count exactly the threads their names say.
THEOREM CountersAreExact == RWL!Spec => [](RWL!TypeOK /\ CountersExact)
  <1>1. RWIInv => RWL!TypeOK /\ CountersExact
    BY SameCounts DEF RWIInv, CountersExact
  <1> QED BY <1>1, RWInvariance, PTL

\* cond_signal() and cond_broadcast() are never one short: a reader sleeps only
\* while a writer is active or waits, and writers sleep only while somebody is
\* active or one of them has been signalled.
THEOREM NobodyIsForgotten == RWL!Spec => []NobodyForgotten
  <1>1. RWIInv => NobodyForgotten
    BY DEF RWIInv
  <1> QED BY <1>1, RWInvariance, PTL
-----------------------------------------------------------------------------
(***************************************************************************)
(* The refinement of ReadersWriters.  A reader's step starts a read,       *)
(* ends one or stutters; a writer's refuses, starts or ends a write; what  *)
(* the signals do to other threads is invisible.                           *)
(***************************************************************************)
Reading == RWL!At({"reading"})
Writing == RWL!At({"writing"})
Waiting == RWL!At({"wwait", "wwoken"})

\* The counters tell whether the sets of the abstract lock are empty.
LEMMA CountersTell ==
  ASSUME RWIInv
  PROVE  /\ AR = 0 <=> Reading = {}
         /\ AW = 0 <=> Writing = {}
         /\ WW = 0 <=> Waiting = {}
  BY AtFinite, Zenon DEF RWIInv, Counted, Reading, Writing, Waiting

\* How the three sets change when one thread moves.
LEMMA SetsMove ==
  ASSUME NEW t \in RWThread, NEW p, NEW q, Moves(t, p, q)
  PROVE  /\ Reading' = IF rw_pc'[t] = "reading" THEN Reading \cup {t} ELSE Reading \ {t}
         /\ Writing' = IF rw_pc'[t] = "writing" THEN Writing \cup {t} ELSE Writing \ {t}
         /\ Waiting' = IF rw_pc'[t] \in {"wwait", "wwoken"} THEN Waiting \cup {t}
                                                          ELSE Waiting \ {t}
  <1> USE DEF Moves, RWL!At
  <1>1. Reading' = IF rw_pc'[t] = "reading" THEN Reading \cup {t} ELSE Reading \ {t}
    BY DEF Reading
  <1>2. Writing' = IF rw_pc'[t] = "writing" THEN Writing \cup {t} ELSE Writing \ {t}
    BY DEF Writing
  <1>3. Waiting' = IF rw_pc'[t] \in {"wwait", "wwoken"} THEN Waiting \cup {t}
                                                      ELSE Waiting \ {t}
    BY DEF Waiting
  <1> QED BY <1>1, <1>2, <1>3

\* A reader gets in only when nobody writes or waits to write.
LEMMA ReaderMoves ==
  ASSUME RWIInv, NEW t \in RWThread, RWL!AcquireRead(t) \/ RWL!ResumeRead(t)
  PROVE  /\ Moves(t, {"out", "rwoken"}, {"rwait", "reading"})
         /\ rw_pc'[t] = "reading" => AW = 0 /\ WW = 0
  <1> USE DEF RWIInv, RWL!TypeOK
  <1>1. rw_pc[t] \in {"out", "rwoken"} /\ \E wr : RWL!ReaderLoop(t, wr)
    BY DEF RWL!AcquireRead, RWL!ResumeRead
  <1>2. rw_pc'[t] = "reading" => AW = 0 /\ WW = 0
    BY <1>1 DEF RWL!ReaderLoop, RWL!ReaderMustWait
  <1>3. rw_pc' = [rw_pc EXCEPT ![t] = "rwait"] \/ rw_pc' = [rw_pc EXCEPT ![t] = "reading"]
    BY <1>1 DEF RWL!ReaderLoop
  <1> QED BY <1>1, <1>2, <1>3 DEF Moves, RWL!Pc

\* A writer gets in only when nobody is active, and is refused otherwise.
LEMMA WriterMoves ==
  ASSUME RWIInv, NEW t \in RWThread, RWL!AcquireWrite(t) \/ RWL!ResumeWrite(t)
  PROVE  /\ Moves(t, {"out", "wwoken"}, {"wwait", "writing"})
         /\ rw_pc'[t] = "writing" => AR = 0 /\ AW = 0
         /\ rw_pc'[t] = "wwait" => AR # 0 \/ AW # 0
  <1> USE DEF RWIInv, RWL!TypeOK
  <1>1. rw_pc[t] \in {"out", "wwoken"} /\ \E ww : RWL!WriterLoop(t, ww)
    BY DEF RWL!AcquireWrite, RWL!ResumeWrite
  <1>2. /\ rw_pc'[t] = "writing" => AR = 0 /\ AW = 0
        /\ rw_pc'[t] = "wwait" => AR # 0 \/ AW # 0
    BY <1>1 DEF RWL!WriterLoop, RWL!WriterMustWait
  <1>3. rw_pc' = [rw_pc EXCEPT ![t] = "wwait"] \/ rw_pc' = [rw_pc EXCEPT ![t] = "writing"]
    BY <1>1 DEF RWL!WriterLoop
  <1> QED BY <1>1, <1>2, <1>3 DEF Moves, RWL!Pc

LEMMA ReleaseMoves ==
  ASSUME RWIInv, NEW t \in RWThread, RWL!Release(t)
  PROVE  Moves(t, {"reading", "writing"}, {"out"})
  <1> USE DEF RWIInv, RWL!TypeOK
  <1>1. rw_pc[t] \in {"reading", "writing"}
    BY DEF RWL!Release, RWL!ReleaseRead, RWL!ReleaseWrite
  <1>2. CASE RWL!SignalWrite(t)
    <2>1. /\ rw_pc' \in [RWThread -> RWL!Pc] /\ rw_pc'[t] = "out"
          /\ \A u \in RWThread \ {t} :
               rw_pc'[u] = rw_pc[u] \/ (rw_pc[u] = "wwait" /\ rw_pc'[u] = "wwoken")
      BY <1>1, <1>2, SignalFacts
    <2> QED BY <1>1, <2>1 DEF Moves
  <1>3. CASE rw_pc[t] = "writing" /\ RWL!BroadcastRead(t)
    <2>1. Moves(t, {"writing"}, {"out"})
      BY <1>3, BroadcastFacts
    <2> QED BY <2>1 DEF Moves
  <1>4. CASE rw_pc' = [rw_pc EXCEPT ![t] = "out"]
    BY <1>1, <1>4 DEF Moves, RWL!Pc
  <1> QED BY <1>2, <1>3, <1>4 DEF RWL!Release, RWL!ReleaseRead, RWL!ReleaseWrite

LEMMA InitRW == RWL!Init => RWL!RW!Init
  BY DEF RWL!Init, RWL!RW!Init, RWL!At

\* Every step is a step of the abstract lock or leaves it alone.
LEMMA NextRW == RWIInv /\ [RWL!Next]_(RWL!vars) => [RWL!RW!Next]_(RWL!RW!vars)
  <1> SUFFICES ASSUME RWIInv, [RWL!Next]_(RWL!vars)
               PROVE  RWL!RW!Next \/ UNCHANGED <<Reading, Writing, Waiting>>
    BY DEF RWL!RW!vars, Reading, Writing, Waiting
  <1>1. CASE UNCHANGED RWL!vars
    BY <1>1 DEF RWL!vars, Reading, Writing, Waiting, RWL!At
  <1>2. ASSUME NEW t \in RWThread, RWL!AcquireRead(t) \/ RWL!ResumeRead(t)
        PROVE  RWL!RW!StartRead(t) \/ UNCHANGED <<Reading, Writing, Waiting>>
    <2>1. /\ Moves(t, {"out", "rwoken"}, {"rwait", "reading"})
          /\ rw_pc'[t] = "reading" => AW = 0 /\ WW = 0
      BY <1>2, ReaderMoves
    <2>2. t \notin Reading /\ t \notin Writing /\ t \notin Waiting
      BY <2>1 DEF Moves, Reading, Writing, Waiting, RWL!At
    <2>3. /\ Reading' = IF rw_pc'[t] = "reading" THEN Reading \cup {t} ELSE Reading
          /\ Writing' = Writing /\ Waiting' = Waiting
      <3>1. /\ Reading' = IF rw_pc'[t] = "reading" THEN Reading \cup {t} ELSE Reading \ {t}
            /\ Writing' = Writing \ {t} /\ Waiting' = Waiting \ {t}
        BY <2>1, SetsMove DEF Moves
      <3> QED BY <2>2, <3>1
    <2>4. rw_pc'[t] = "reading" => Writing = {} /\ Waiting = {}
      BY <2>1, CountersTell
    <2> QED BY <2>3, <2>4 DEF RWL!RW!StartRead, Reading, Writing, Waiting
  <1>3. ASSUME NEW t \in RWThread, RWL!AcquireWrite(t) \/ RWL!ResumeWrite(t)
        PROVE  RWL!RW!StartWrite(t) \/ RWL!RW!RefuseWriter(t)
    <2>1. /\ Moves(t, {"out", "wwoken"}, {"wwait", "writing"})
          /\ rw_pc'[t] = "writing" => AR = 0 /\ AW = 0
          /\ rw_pc'[t] = "wwait" => AR # 0 \/ AW # 0
      BY <1>3, WriterMoves
    <2>2. t \notin Reading /\ t \notin Writing
      BY <2>1 DEF Moves, Reading, Writing, RWL!At
    <2>3. CASE rw_pc'[t] = "writing"
      <3>1. Reading = {} /\ Writing = {}
        BY <2>1, <2>3, CountersTell
      <3>2. Reading' = Reading /\ Writing' = {t} /\ Waiting' = Waiting \ {t}
        BY <2>1, <2>2, <2>3, <3>1, SetsMove
      <3> QED BY <3>1, <3>2 DEF RWL!RW!StartWrite, Reading, Writing, Waiting
    <2>4. CASE rw_pc'[t] = "wwait"
      <3>1. Reading # {} \/ Writing # {}
        BY <2>1, <2>4, CountersTell
      <3>2. Reading' = Reading /\ Writing' = Writing /\ Waiting' = Waiting \cup {t}
        BY <2>1, <2>2, <2>4, SetsMove
      <3> QED BY <3>1, <3>2 DEF RWL!RW!RefuseWriter, Reading, Writing, Waiting
    <2> QED BY <2>1, <2>3, <2>4 DEF Moves
  <1>4. ASSUME NEW t \in RWThread, RWL!Release(t)
        PROVE  RWL!RW!EndRead(t) \/ RWL!RW!EndWrite(t)
    <2>1. Moves(t, {"reading", "writing"}, {"out"})
      BY <1>4, ReleaseMoves
    <2>2. /\ Reading' = Reading \ {t} /\ Writing' = Writing \ {t}
          /\ Waiting' = Waiting \ {t}
      BY <2>1, SetsMove DEF Moves
    <2>3. \/ t \in Reading /\ t \notin Writing /\ t \notin Waiting
          \/ t \notin Reading /\ t \in Writing /\ t \notin Waiting
      BY <2>1 DEF Moves, Reading, Writing, Waiting, RWL!At
    <2>4. \/ /\ t \in Reading /\ Reading' = Reading \ {t}
             /\ Writing' = Writing /\ Waiting' = Waiting
          \/ /\ t \in Writing /\ Writing' = Writing \ {t}
             /\ Reading' = Reading /\ Waiting' = Waiting
      BY <2>2, <2>3
    <2> QED BY <2>4 DEF RWL!RW!EndRead, RWL!RW!EndWrite, Reading, Writing, Waiting
  <1> QED BY <1>1, <1>2, <1>3, <1>4, Zenon DEF RWL!Next, RWL!Resume, RWL!RW!Next

\* For any number of threads rw_lock_acquire() and rw_lock_release() implement
\* the abstract lock: writers are alone, and no reader passes a waiting writer.
THEOREM Refinement == RWL!Spec => ImplementsReadersWriters
  BY InitRW, NextRW, RWInvariance, PTL DEF RWL!Spec, ImplementsReadersWriters, RWL!ImplementsReadersWriters, RWL!RW!Spec
=============================================================================
