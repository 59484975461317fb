---------------------------- MODULE ThreadsProof ----------------------------
(***************************************************************************)
(* Proofs about Threads, for any number of thread pages and semaphores,    *)
(* in the second part about Interrupt, and in the third about Console.     *)
(***************************************************************************)
EXTENDS Threads, MCInterrupt, FiniteSetTheorems, TLAPS

-----------------------------------------------------------------------------
\* list_push_back() adds one element, and keeps a list of distinct elements
\* so when the element was not on it.
LEMMA PushBack ==
  ASSUME NEW S, NEW s \in Seq(S), NEW e \in S
  PROVE  /\ Append(s, e) \in Seq(S)
         /\ Append(s, e) # <<>>
         /\ OnList(Append(s, e)) = OnList(s) \union {e}
         /\ NoDup(s) /\ e \notin OnList(s) => NoDup(Append(s, e))
  <1> DEFINE a == Append(s, e)
  <1>1. /\ a \in Seq(S) /\ Len(a) = Len(s) + 1
        /\ \A i \in 1 .. Len(s) : a[i] = s[i]
        /\ a[Len(s) + 1] = e
    OBVIOUS
  <1>2. OnList(a) = OnList(s) \union {e}
    <2> HIDE DEF a
    <2>1. ASSUME NEW x \in OnList(a) PROVE x \in OnList(s) \union {e}
      BY <1>1, <2>1 DEF OnList
    <2>2. ASSUME NEW x \in OnList(s) PROVE x \in OnList(a)
      <3>1. PICK i \in 1 .. Len(s) : x = s[i]
        BY <2>2 DEF OnList
      <3>2. i \in 1 .. Len(a) /\ a[i] = x
        BY <1>1, <3>1
      <3> QED BY <3>2 DEF OnList
    <2>3. e \in OnList(a)
      BY <1>1 DEF OnList
    <2> QED BY <2>1, <2>2, <2>3
  <1>3. NoDup(s) /\ e \notin OnList(s) => NoDup(a)
    <2> HIDE DEF a
    <2> SUFFICES ASSUME NoDup(s), e \notin OnList(s),
                        NEW i \in 1 .. Len(a), NEW j \in 1 .. Len(a), a[i] = a[j]
                 PROVE  i = j
      BY DEF NoDup
    <2> QED BY <1>1 DEF NoDup, OnList
  <1> QED BY <1>1, <1>2, <1>3

\* list_pop_front() removes the first element, and nothing else.
LEMMA PopFront ==
  ASSUME NEW S, NEW s \in Seq(S), s # <<>>
  PROVE  /\ Tail(s) \in Seq(S)
         /\ Head(s) \in S
         /\ Head(s) \in OnList(s)
         /\ OnList(Tail(s)) \subseteq OnList(s)
         /\ OnList(s) \subseteq OnList(Tail(s)) \union {Head(s)}
         /\ NoDup(s) => /\ NoDup(Tail(s))
                        /\ Head(s) \notin OnList(Tail(s))
  <1> DEFINE b == Tail(s)
  <1>1. /\ b \in Seq(S) /\ Len(b) = Len(s) - 1 /\ Len(s) \in Nat \ {0}
        /\ \A i \in 1 .. Len(b) : b[i] = s[i + 1]
        /\ Head(s) = s[1] /\ s[1] \in S
    OBVIOUS
  <1> HIDE DEF b
  <1>2. Head(s) \in OnList(s)
    BY <1>1 DEF OnList
  <1>3. OnList(b) \subseteq OnList(s)
    <2> SUFFICES ASSUME NEW i \in 1 .. Len(b) PROVE b[i] \in OnList(s)
      BY DEF OnList
    <2>1. i + 1 \in 1 .. Len(s) /\ b[i] = s[i + 1]
      BY <1>1
    <2> QED BY <2>1 DEF OnList
  <1>4. OnList(s) \subseteq OnList(b) \union {Head(s)}
    <2> SUFFICES ASSUME NEW i \in 1 .. Len(s), i # 1 PROVE s[i] \in OnList(b)
      BY <1>1 DEF OnList
    <2>1. i - 1 \in 1 .. Len(b) /\ b[i - 1] = s[i]
      BY <1>1
    <2> QED BY <2>1 DEF OnList
  <1>5. ASSUME NoDup(s) PROVE NoDup(b) /\ Head(s) \notin OnList(b)
    <2>1. NoDup(b)
      <3> SUFFICES ASSUME NEW i \in 1 .. Len(b), NEW j \in 1 .. Len(b), b[i] = b[j]
                   PROVE  i = j
        BY DEF NoDup
      <3>1. i + 1 \in 1 .. Len(s) /\ j + 1 \in 1 .. Len(s) /\ s[i + 1] = s[j + 1]
        BY <1>1
      <3> QED BY <1>5, <3>1 DEF NoDup
    <2>2. ASSUME NEW i \in 1 .. Len(b), b[i] = Head(s) PROVE FALSE
      <3>1. i + 1 \in 1 .. Len(s) /\ 1 \in 1 .. Len(s) /\ s[i + 1] = s[1]
        BY <1>1, <2>2
      <3> QED BY <1>5, <3>1 DEF NoDup
    <2> QED BY <2>1, <2>2 DEF OnList
  <1> QED BY <1>1, <1>2, <1>3, <1>4, <1>5 DEF b

-----------------------------------------------------------------------------
\* Between switches prev is forgotten and the slice is not used up; during
\* one nobody is marked running, and the thread switched to is ready, or is
\* the idle thread, and is not the one switched from.
SwitchState ==
  /\ cpu = "thread" => prev = NULL /\ thread_ticks < TIME_SLICE
  /\ cpu = "switch" =>
       /\ \A t \in Thread : status[t] # "THREAD_RUNNING"
       /\ status[cur] \in {"THREAD_READY", "THREAD_BLOCKED"}
       /\ status[cur] = "THREAD_BLOCKED" => cur = idle_thread
       /\ cur # prev

\* Only the boot thread boots, alone and with interrupts off.
BootState ==
  /\ \A t \in Thread : pc[t] \in {"boot", "start"} => t = initial_thread
  /\ pc[initial_thread] = "boot" =>
       /\ cur = initial_thread /\ cpu = "thread" /\ intr_level = "INTR_OFF"
       /\ idle_thread = NULL
       /\ \A t \in Thread : pc[t] # "idle"

\* There is one idle thread: before it has run, while it is at its first
\* statement, and from then on as idle_thread.
IdleState ==
  /\ \A t \in Thread : pc[t] \in {"idle_up", "block", "hlt"} <=> t = idle_thread
  /\ \A t \in Thread : pc[t] = "idle" =>
       /\ idle_thread = NULL
       /\ status[t] \in {"THREAD_READY", "THREAD_RUNNING"}
       /\ \A u \in Thread : pc[u] = "idle" => u = t
  /\ idle_thread = NULL /\ pc[initial_thread] # "boot" =>
       \E t \in Thread : pc[t] = "idle"

\* A page without a thread, or with a dead one, is at no place of the code.
DeadState ==
  \A t \in Thread : status[t] \in {"free", "THREAD_DYING"} => pc[t] = "run"

\* A thread being created is blocked, and has one creator.
CreateState ==
  /\ \A t \in Thread : pc[t] = "create" =>
       /\ child[t] \in Thread
       /\ status[child[t]] = "THREAD_BLOCKED"
       /\ pc[child[t]] = "run"
  /\ \A t, u \in Thread :
       pc[t] = "create" /\ pc[u] = "create" /\ child[t] = child[u] => t = u

\* The inductive invariant.
IInv ==
  /\ TypeOK
  /\ SwitchState
  /\ BootState
  /\ IdleState
  /\ DeadState
  /\ CreateState
  /\ RunQueueIsReadyThreads
  /\ WaitersAreBlocked
  /\ BlockedIsFindable
  /\ OneRunning
  /\ ExitedThreadIsReclaimed

LEMMA InitIInv == Init => IInv
  <1> SUFFICES ASSUME Init PROVE IInv
    OBVIOUS
  <1> USE ThreadsAssumption DEF Init, thread_init
  <1>1. TypeOK
    BY DEF TypeOK, Status, Pc
  <1>2. SwitchState /\ BootState /\ IdleState /\ DeadState /\ CreateState
    BY DEF SwitchState, BootState, IdleState, DeadState, CreateState
  <1>3. RunQueueIsReadyThreads /\ WaitersAreBlocked /\ BlockedIsFindable
    BY DEF RunQueueIsReadyThreads, WaitersAreBlocked, BlockedIsFindable, NoDup, OnList
  <1>4. OneRunning /\ ExitedThreadIsReclaimed
    BY DEF OneRunning, ExitedThreadIsReclaimed, Live
  <1> QED BY <1>1, <1>2, <1>3, <1>4 DEF IInv

\* The idle thread's state is kept by every step that does not concern it.
LEMMA IdleKept ==
  ASSUME IdleState, idle_thread' = idle_thread,
         \A t \in Thread :
           /\ pc'[t] \in {"idle_up", "block", "hlt"} <=>
                pc[t] \in {"idle_up", "block", "hlt"}
           /\ pc'[t] = "idle" <=> pc[t] = "idle"
           /\ pc[t] = "idle" => status'[t] \in {"THREAD_READY", "THREAD_RUNNING"},
         pc[initial_thread] = "boot" => pc'[initial_thread] = "boot"
  PROVE  IdleState'
  <1>1. \A t \in Thread : pc'[t] \in {"idle_up", "block", "hlt"} <=> t = idle_thread'
    BY DEF IdleState
  <1>2. ASSUME NEW t \in Thread, pc'[t] = "idle"
        PROVE  /\ idle_thread' = NULL
               /\ status'[t] \in {"THREAD_READY", "THREAD_RUNNING"}
               /\ \A u \in Thread : pc'[u] = "idle" => u = t
    BY <1>2 DEF IdleState
  <1>3. idle_thread' = NULL /\ pc'[initial_thread] # "boot" =>
          \E t \in Thread : pc'[t] = "idle"
    BY DEF IdleState
  <1> QED BY <1>1, <1>2, <1>3 DEF IdleState

-----------------------------------------------------------------------------
\* What sema_up() does to the lists: nothing, or it moves one blocked thread
\* from the semaphore's list to the run queue.
Wakes(h) ==
  /\ status[h] = "THREAD_BLOCKED" /\ pc[h] = "sema_down"
  /\ status' = [status EXCEPT ![h] = "THREAD_READY"]
  /\ NoDup(fifo_ready_list')
  /\ OnList(fifo_ready_list') = OnList(fifo_ready_list) \union {h}
  /\ \A s \in Sema : /\ NoDup(waiters'[s])
                     /\ OnList(waiters'[s]) = OnList(waiters[s]) \ {h}

LEMMA SemaUpFacts ==
  ASSUME IInv, NEW s \in Sema, sema_up(s)
  PROVE  /\ value' \in [Sema -> 0 .. MaxValue]
         /\ waiters' \in [Sema -> Seq(Thread)]
         /\ fifo_ready_list' \in Seq(Thread)
         /\ \/ UNCHANGED <<waiters, status, fifo_ready_list>>
            \/ \E h \in Thread : Wakes(h)
  <1>0. TypeOK /\ WaitersAreBlocked /\ RunQueueIsReadyThreads
    BY DEF IInv
  <1>1. value' \in [Sema -> 0 .. MaxValue]
    BY <1>0, ThreadsAssumption DEF sema_up, TypeOK
  <1>2. CASE waiters[s] = <<>>
    BY <1>0, <1>1, <1>2 DEF sema_up, WakesWaiter, TypeOK
  <1>3. CASE waiters[s] # <<>>
    <2> DEFINE q == waiters[s]
               h == Head(q)
    <2>1. /\ q \in Seq(Thread) /\ q # <<>>
          /\ waiters' = [waiters EXCEPT ![s] = Tail(q)]
          /\ status' = [status EXCEPT ![h] = "THREAD_READY"]
          /\ fifo_ready_list' = Append(fifo_ready_list, h)
          /\ fifo_ready_list \in Seq(Thread)
      BY <1>0, <1>3 DEF sema_up, WakesWaiter, PopWaiter, thread_unblock,
                        thread_enqueue, TypeOK
    <2> HIDE DEF h
    <2>2. /\ h \in Thread /\ h \in OnList(q) /\ Tail(q) \in Seq(Thread)
          /\ NoDup(q) /\ NoDup(Tail(q)) /\ OnList(Tail(q)) = OnList(q) \ {h}
      BY <1>0, <2>1, PopFront DEF WaitersAreBlocked, h
    <2>3. /\ status[h] = "THREAD_BLOCKED" /\ pc[h] = "sema_down"
          /\ wait_sema[h] = s
      BY <1>0, <2>2 DEF WaitersAreBlocked
    <2>4. h \notin OnList(fifo_ready_list) /\ NoDup(fifo_ready_list)
      BY <1>0, <2>2, <2>3 DEF RunQueueIsReadyThreads
    <2>5. /\ fifo_ready_list' \in Seq(Thread)
          /\ OnList(fifo_ready_list') = OnList(fifo_ready_list) \union {h}
          /\ NoDup(fifo_ready_list')
      BY <2>1, <2>2, <2>4, PushBack
    <2>6. waiters' \in [Sema -> Seq(Thread)]
      BY <1>0, <2>1, <2>2 DEF TypeOK
    <2>7. ASSUME NEW u \in Sema
          PROVE  NoDup(waiters'[u]) /\ OnList(waiters'[u]) = OnList(waiters[u]) \ {h}
      <3>1. CASE u = s
        BY <1>0, <2>1, <2>2, <3>1 DEF TypeOK
      <3>2. CASE u # s
        <4>1. waiters'[u] = waiters[u]
          BY <1>0, <2>1, <3>2 DEF TypeOK
        <4>2. h \notin OnList(waiters[u]) /\ NoDup(waiters[u])
          BY <1>0, <2>3, <3>2 DEF WaitersAreBlocked
        <4> QED BY <4>1, <4>2
      <3> QED BY <3>1, <3>2
    <2>8. Wakes(h)
      BY <2>1, <2>3, <2>5, <2>7 DEF Wakes
    <2> QED BY <1>1, <2>2, <2>5, <2>6, <2>8
  <1> QED BY <1>2, <1>3

\* Steps that at most wake one thread and move the idle thread within its
\* loop keep the invariant.
LEMMA WakeStep ==
  ASSUME IInv, cpu = "thread",
         value' \in [Sema -> 0 .. MaxValue],
         waiters' \in [Sema -> Seq(Thread)],
         fifo_ready_list' \in Seq(Thread),
         \/ UNCHANGED <<waiters, status, fifo_ready_list>>
         \/ \E h \in Thread : Wakes(h),
         pc' \in [Thread -> Pc],
         \A t \in Thread : \/ pc'[t] = pc[t]
                           \/ /\ pc[t] \in {"idle_up", "block", "hlt"}
                              /\ pc'[t] \in {"idle_up", "block", "hlt"},
         thread_ticks' \in 0 .. TIME_SLICE - 1,
         UNCHANGED <<child, wait_sema, all_list, idle_thread, cur, prev, cpu,
                     intr_level>>
  PROVE  IInv'
  <1>type. TypeOK
    BY DEF IInv
  <1>pc. \A t \in Thread :
           /\ pc'[t] \in {"idle_up", "block", "hlt"} <=>
                pc[t] \in {"idle_up", "block", "hlt"}
           /\ \A p \in {"boot", "start", "run", "sema_down", "create", "idle"} :
                pc'[t] = p <=> pc[t] = p
    OBVIOUS
  <1>1. CASE UNCHANGED <<waiters, status, fifo_ready_list>>
    <2> USE <1>1, ThreadsAssumption
    <2>1. TypeOK' /\ SwitchState'
      BY <1>type DEF IInv, SwitchState, TypeOK
    <2>2. BootState'
      BY <1>type, <1>pc DEF IInv, BootState, TypeOK
    <2>3. IdleState'
      BY <1>pc, IdleKept DEF IInv, IdleState
    <2>4. DeadState'
      BY <1>type, <1>pc DEF IInv, DeadState, TypeOK
    <2>5. CreateState'
      <3>1. CreateState
        BY DEF IInv
      <3> QED BY <1>type, <1>pc, <3>1 DEF CreateState, TypeOK
    <2>6. RunQueueIsReadyThreads' /\ OneRunning'
      BY <1>type DEF IInv, RunQueueIsReadyThreads, OneRunning, Live, TypeOK
    <2>7. ExitedThreadIsReclaimed'
      BY <1>type, <1>pc DEF IInv, ExitedThreadIsReclaimed, Live, TypeOK
    <2>8. WaitersAreBlocked'
      <3>1. WaitersAreBlocked
        BY DEF IInv
      <3>2. \A s \in Sema : \A t \in OnList(waiters[s]) : t \in Thread
        BY <1>type DEF OnList, TypeOK
      <3> QED BY <1>type, <1>pc, <3>1, <3>2 DEF WaitersAreBlocked
    <2>9. BlockedIsFindable'
      <3>1. BlockedIsFindable
        BY DEF IInv
      <3>2. \A c \in Thread : child'[c] = child[c] /\ (pc'[c] = "create" <=> pc[c] = "create")
        BY <1>pc
      <3> QED BY <3>1, <3>2 DEF BlockedIsFindable
    <2> QED BY <2>1, <2>2, <2>3, <2>4, <2>5, <2>6, <2>7, <2>8, <2>9 DEF IInv
  <1>2. ASSUME NEW h \in Thread, Wakes(h) PROVE IInv'
    <2> USE ThreadsAssumption
    <2>st. /\ status[h] = "THREAD_BLOCKED" /\ status'[h] = "THREAD_READY"
           /\ pc[h] = "sema_down" /\ pc'[h] = "sema_down"
           /\ \A t \in Thread : t # h => status'[t] = status[t]
           /\ status' \in [Thread -> Status]
      BY <1>2, <1>type, <1>pc DEF Wakes, TypeOK, Status
    <2>1. TypeOK'
      BY <1>type, <2>st DEF TypeOK
    <2>2. SwitchState'
      BY <1>type DEF IInv, SwitchState, TypeOK
    <2>3. BootState'
      BY <1>type, <1>pc DEF IInv, BootState, TypeOK
    <2>4. IdleState'
      BY <1>pc, <2>st, IdleKept DEF IInv, IdleState
    <2>5. DeadState'
      BY <1>type, <1>pc, <2>st DEF IInv, DeadState, TypeOK
    <2>6. CreateState'
      <3>1. CreateState
        BY DEF IInv
      <3>2. \A t \in Thread : pc[t] = "create" => child[t] # h
        BY <2>st, <3>1 DEF CreateState
      <3> QED BY <1>type, <1>pc, <2>st, <3>1, <3>2 DEF CreateState, TypeOK
    <2>7. h # idle_thread
      BY <2>st DEF IInv, IdleState
    <2>8. RunQueueIsReadyThreads'
      BY <1>2, <2>st, <2>7 DEF IInv, RunQueueIsReadyThreads, Wakes
    <2>9. OneRunning'
      BY <2>st DEF IInv, OneRunning, Live
    <2>10. ExitedThreadIsReclaimed'
      <3>1. Live' = Live
        BY <2>st DEF Live
      <3>2. {t \in Live : status'[t] # "THREAD_DYING"} =
            {t \in Live : status[t] # "THREAD_DYING"}
        BY <2>st DEF Live
      <3>3. ExitedThreadIsReclaimed
        BY DEF IInv
      <3> QED BY <1>pc, <2>st, <3>1, <3>2, <3>3 DEF ExitedThreadIsReclaimed, Live
    <2>11. WaitersAreBlocked'
      <3>1. WaitersAreBlocked
        BY DEF IInv
      <3>2. \A s \in Sema : \A t \in OnList(waiters[s]) : t \in Thread
        BY <1>type DEF OnList, TypeOK
      <3> QED BY <1>2, <1>pc, <2>st, <3>1, <3>2 DEF WaitersAreBlocked, Wakes
    <2>12. BlockedIsFindable'
      <3>1. BlockedIsFindable
        BY DEF IInv
      <3> QED BY <1>2, <1>pc, <2>st, <3>1 DEF BlockedIsFindable, Wakes
    <2> QED BY <2>1, <2>2, <2>3, <2>4, <2>5, <2>6, <2>8, <2>9, <2>10, <2>11, <2>12
            DEF IInv
  <1> QED BY <1>1, <1>2

-----------------------------------------------------------------------------
\* The steps that WakeStep covers.
LEMMA SemaUpStep ==
  ASSUME IInv, NEW t \in Thread, NEW s \in Sema, SemaUp(t, s) PROVE IInv'
  <1>1. /\ cpu = "thread" /\ pc' = pc
        /\ UNCHANGED <<child, wait_sema, all_list, idle_thread, thread_ticks, cur,
                       prev, cpu, intr_level>>
    BY DEF SemaUp, Running, progVars
  <1>2. pc' \in [Thread -> Pc] /\ thread_ticks' \in 0 .. TIME_SLICE - 1
    BY <1>1, ThreadsAssumption DEF IInv, TypeOK, SwitchState
  <1>3. sema_up(s)
    BY DEF SemaUp
  <1> QED BY <1>1, <1>2, <1>3, SemaUpFacts, WakeStep

LEMMA SemaTryDownStep ==
  ASSUME IInv, NEW t \in Thread, NEW s \in Sema, sema_try_down(t, s) PROVE IInv'
  <1>1. /\ cpu = "thread" /\ pc' = pc
        /\ UNCHANGED <<child, wait_sema, all_list, idle_thread, thread_ticks, cur,
                       prev, cpu, intr_level, waiters, status, fifo_ready_list>>
    BY DEF sema_try_down, Running, progVars, schedVars
  <1>2. /\ pc' \in [Thread -> Pc] /\ thread_ticks' \in 0 .. TIME_SLICE - 1
        /\ waiters' \in [Sema -> Seq(Thread)] /\ fifo_ready_list' \in Seq(Thread)
    BY <1>1, ThreadsAssumption DEF IInv, TypeOK, SwitchState
  <1>3. value' \in [Sema -> 0 .. MaxValue]
    BY ThreadsAssumption DEF sema_try_down, IInv, TypeOK
  <1> QED BY <1>1, <1>2, <1>3, WakeStep

LEMMA IdleUpStep ==
  ASSUME IInv, NEW t \in Thread, IdleUp(t) PROVE IInv'
  <1>1. /\ cpu = "thread" /\ pc[t] = "idle_up" /\ pc' = [pc EXCEPT ![t] = "block"]
        /\ UNCHANGED <<child, wait_sema, all_list, idle_thread, thread_ticks, cur,
                       prev, cpu, intr_level>>
    BY DEF IdleUp, Running
  <1>2. pc' \in [Thread -> Pc] /\ thread_ticks' \in 0 .. TIME_SLICE - 1
    BY <1>1, ThreadsAssumption DEF IInv, TypeOK, SwitchState, Pc
  <1>3. sema_up(idle_started) /\ idle_started \in Sema
    BY ThreadsAssumption DEF IdleUp
  <1>4. \A u \in Thread : \/ pc'[u] = pc[u]
                          \/ /\ pc[u] \in {"idle_up", "block", "hlt"}
                             /\ pc'[u] \in {"idle_up", "block", "hlt"}
    BY <1>1 DEF IInv, TypeOK
  <1> QED BY <1>1, <1>2, <1>3, <1>4, SemaUpFacts, WakeStep

\* What an interrupt does to the place of the thread it interrupts.
LEMMA WakeHltFacts ==
  ASSUME IInv, WakeHlt
  PROVE  /\ pc' \in [Thread -> Pc]
         /\ \A u \in Thread : \/ pc'[u] = pc[u]
                              \/ pc[u] = "hlt" /\ pc'[u] = "block"
  BY DEF IInv, TypeOK, WakeHlt, Pc, OneRunning, Live

LEMMA DeviceStep ==
  ASSUME IInv, NEW s \in Sema, device_interrupt(s) PROVE IInv'
  <1>1. /\ cpu = "thread"
        /\ UNCHANGED <<child, wait_sema, all_list, idle_thread, thread_ticks, cur,
                       prev, cpu, intr_level>>
    BY DEF device_interrupt, Interruptible
  <1>2. thread_ticks' \in 0 .. TIME_SLICE - 1
    BY <1>1, ThreadsAssumption DEF IInv, TypeOK, SwitchState
  <1>3. sema_up(s) /\ WakeHlt
    BY DEF device_interrupt
  <1> QED BY <1>1, <1>2, <1>3, WakeHltFacts, SemaUpFacts, WakeStep

\* A tick within the slice.
LEMMA TickStep ==
  ASSUME IInv, thread_tick, ~ SliceOver(thread_ticks') PROVE IInv'
  <1>1. /\ cpu = "thread" /\ thread_ticks' = thread_ticks + 1 /\ WakeHlt
        /\ UNCHANGED <<child, wait_sema, all_list, idle_thread, cur, prev, cpu,
                       intr_level, waiters, value, status, fifo_ready_list>>
    BY DEF thread_tick, Interruptible, semaVars, schedVars
  <1>2. /\ thread_ticks' \in 0 .. TIME_SLICE - 1
        /\ waiters' \in [Sema -> Seq(Thread)] /\ fifo_ready_list' \in Seq(Thread)
        /\ value' \in [Sema -> 0 .. MaxValue]
    BY <1>1, ThreadsAssumption DEF IInv, TypeOK, SliceOver
  <1> QED BY <1>1, <1>2, WakeHltFacts, WakeStep

-----------------------------------------------------------------------------
\* Outside a switch the current thread is the one that is marked running.
LEMMA CurRuns ==
  ASSUME IInv, cpu = "thread"
  PROVE  /\ cur \in Thread /\ status[cur] = "THREAD_RUNNING"
         /\ \A t \in Thread : status[t] = "THREAD_RUNNING" => t = cur
         /\ \A s \in Sema : cur \notin OnList(waiters[s])
         /\ \A s \in Sema : \A t \in OnList(waiters[s]) : t \in Thread
  <1>1. /\ cur \in Thread /\ status[cur] = "THREAD_RUNNING"
        /\ \A t \in Thread : status[t] = "THREAD_RUNNING" => t = cur
    BY DEF IInv, OneRunning, Live
  <1>2. \A s \in Sema : cur \notin OnList(waiters[s])
    BY <1>1 DEF IInv, WaitersAreBlocked
  <1>3. \A s \in Sema : \A t \in OnList(waiters[s]) : t \in Thread
    BY DEF IInv, TypeOK, OnList
  <1> QED BY <1>1, <1>2, <1>3

\* sema_down() finds a unit.
LEMMA SemaTakeStep ==
  ASSUME IInv, NEW t \in Thread, NEW s \in Sema, sema_down(t, s), SemaTake(t, s)
  PROVE  IInv'
  <1> USE ThreadsAssumption
  <1>type. TypeOK
    BY DEF IInv
  <1>0. /\ cpu = "thread" /\ cur = t /\ pc[t] \in {"run", "start", "sema_down"}
        /\ UNCHANGED <<child, all_list, idle_thread, thread_ticks, waiters, status,
                       fifo_ready_list, cur, prev, cpu>>
        /\ intr_level' = "INTR_ON"
        /\ value' \in [Sema -> 0 .. MaxValue]
        /\ wait_sema' = [wait_sema EXCEPT ![t] = NULL]
    BY <1>type DEF sema_down, SemaTake, Running, schedVars, TypeOK
  <1>pc. /\ pc' \in [Thread -> Pc] /\ pc'[t] = "run"
         /\ \A u \in Thread : u # t => pc'[u] = pc[u] /\ wait_sema'[u] = wait_sema[u]
    BY <1>type, <1>0 DEF SemaTake, TypeOK, Pc
  <1>cur. /\ status[t] = "THREAD_RUNNING"
          /\ \A u \in Sema : t \notin OnList(waiters[u])
          /\ \A u \in Sema : \A v \in OnList(waiters[u]) : v \in Thread
    BY <1>0, CurRuns
  <1>1. TypeOK'
    BY <1>type, <1>0, <1>pc DEF TypeOK
  <1>2. SwitchState' /\ OneRunning' /\ RunQueueIsReadyThreads'
    BY <1>0 DEF IInv, SwitchState, OneRunning, RunQueueIsReadyThreads, Live
  <1>3. BootState'
    BY <1>0, <1>pc DEF IInv, BootState
  <1>4. IdleState'
    BY <1>0, <1>pc, IdleKept DEF IInv, IdleState
  <1>5. DeadState'
    BY <1>0, <1>pc DEF IInv, DeadState
  <1>6. CreateState'
    BY <1>0, <1>pc DEF IInv, CreateState
  <1>7. WaitersAreBlocked'
    BY <1>0, <1>pc, <1>cur DEF IInv, WaitersAreBlocked
  <1>8. BlockedIsFindable'
    <2>1. \A c \in Thread : child'[c] = child[c] /\ (pc'[c] = "create" <=> pc[c] = "create")
      BY <1>0, <1>pc
    <2> QED BY <1>0, <2>1 DEF IInv, BlockedIsFindable
  <1>9. ExitedThreadIsReclaimed'
    <2>1. \A c \in Thread : pc'[c] = "create" => pc[c] = "create"
      BY <1>0, <1>pc
    <2> QED BY <1>0, <2>1 DEF IInv, ExitedThreadIsReclaimed, Live
  <1> QED BY <1>1, <1>2, <1>3, <1>4, <1>5, <1>6, <1>7, <1>8, <1>9 DEF IInv

\* The idle thread runs its first statement.
LEMMA IdleInitStep ==
  ASSUME IInv, NEW t \in Thread, IdleInit(t) PROVE IInv'
  <1> USE ThreadsAssumption
  <1>type. TypeOK
    BY DEF IInv
  <1>0. /\ cpu = "thread" /\ cur = t /\ pc[t] = "idle" /\ idle_thread' = t
        /\ intr_level = "INTR_ON" /\ pc' = [pc EXCEPT ![t] = "idle_up"]
        /\ UNCHANGED <<child, wait_sema, all_list, thread_ticks, waiters, value, status,
                       fifo_ready_list, cur, prev, cpu, intr_level>>
    BY DEF IdleInit, Running, schedVars, semaVars
  <1>pc. /\ pc' \in [Thread -> Pc] /\ pc'[t] = "idle_up"
         /\ \A u \in Thread : u # t => pc'[u] = pc[u]
    BY <1>type, <1>0 DEF TypeOK, Pc
  <1>cur. /\ status[t] = "THREAD_RUNNING"
          /\ \A u \in Sema : t \notin OnList(waiters[u])
          /\ \A u \in Sema : \A v \in OnList(waiters[u]) : v \in Thread
    BY <1>0, CurRuns
  <1>idle. idle_thread = NULL /\ \A u \in Thread : pc[u] = "idle" => u = t
    BY <1>0 DEF IInv, IdleState
  <1>1. TypeOK'
    BY <1>type, <1>0, <1>pc DEF TypeOK
  <1>2. SwitchState' /\ OneRunning'
    BY <1>0 DEF IInv, SwitchState, OneRunning, Live
  <1>3. BootState'
    BY <1>0, <1>pc DEF IInv, BootState
  <1>4. IdleState'
    BY <1>0, <1>pc, <1>idle DEF IInv, IdleState
  <1>5. DeadState'
    BY <1>0, <1>pc, <1>cur DEF IInv, DeadState
  <1>6. CreateState'
    <2>1. CreateState
      BY DEF IInv
    <2> QED BY <1>0, <1>pc, <2>1 DEF CreateState
  <1>7. WaitersAreBlocked'
    BY <1>0, <1>pc, <1>cur DEF IInv, WaitersAreBlocked
  <1>8. BlockedIsFindable'
    <2>1. \A c \in Thread : child'[c] = child[c] /\ (pc'[c] = "create" <=> pc[c] = "create")
      BY <1>0, <1>pc
    <2> QED BY <1>0, <1>idle, <2>1 DEF IInv, BlockedIsFindable
  <1>9. ExitedThreadIsReclaimed'
    <2>1. \A c \in Thread : pc'[c] = "create" => pc[c] = "create"
      BY <1>0, <1>pc
    <2>2. t \in all_list
      BY <1>cur DEF IInv, ExitedThreadIsReclaimed, Live
    <2> QED BY <1>0, <2>1, <2>2 DEF IInv, ExitedThreadIsReclaimed, Live
  <1>10. RunQueueIsReadyThreads'
    BY <1>0, <1>cur, <1>idle DEF IInv, RunQueueIsReadyThreads
  <1> QED BY <1>1, <1>2, <1>3, <1>4, <1>5, <1>6, <1>7, <1>8, <1>9, <1>10 DEF IInv

\* A page becomes a blocked thread known to its creator.
LEMMA CreateStep ==
  ASSUME IInv, NEW t \in Thread, NEW new \in Thread, thread_create(t, new) PROVE IInv'
  <1> USE ThreadsAssumption
  <1>type. TypeOK
    BY DEF IInv
  <1>0. /\ cpu = "thread" /\ cur = t /\ pc[t] = "run" /\ status[new] = "free"
        /\ intr_level = "INTR_ON"
        /\ all_list' = all_list \union {new}
        /\ UNCHANGED <<wait_sema, thread_ticks, waiters, value, fifo_ready_list,
                       idle_thread, cur, prev, cpu, intr_level>>
    BY DEF thread_create, Running, semaVars
  <1>cur. /\ status[t] = "THREAD_RUNNING" /\ t # new
          /\ \A u \in Sema : \A v \in OnList(waiters[u]) : v \in Thread
    BY <1>0, CurRuns
  <1>dead. pc[new] = "run"
    BY <1>0 DEF IInv, DeadState
  <1>pc. /\ pc' \in [Thread -> Pc] /\ pc'[t] = "create"
         /\ \A u \in Thread : u # t => pc'[u] = pc[u]
    BY <1>type, <1>0, <1>cur, <1>dead DEF thread_create, TypeOK, Pc
  <1>st. /\ status' \in [Thread -> Status] /\ status'[new] = "THREAD_BLOCKED"
         /\ \A u \in Thread : u # new => status'[u] = status[u]
    BY <1>type DEF thread_create, TypeOK, Status
  <1>ch. /\ child' \in [Thread -> Thread \union {NULL}] /\ child'[t] = new
         /\ \A u \in Thread : u # t => child'[u] = child[u]
    BY <1>type DEF thread_create, TypeOK
  <1>1. TypeOK'
    BY <1>type, <1>0, <1>pc, <1>st, <1>ch DEF TypeOK
  <1>2. SwitchState' /\ OneRunning' /\ RunQueueIsReadyThreads'
    BY <1>0, <1>cur, <1>st DEF IInv, SwitchState, OneRunning, RunQueueIsReadyThreads, Live
  <1>3. BootState'
    BY <1>0, <1>pc DEF IInv, BootState
  <1>4. IdleState'
    BY <1>0, <1>pc, <1>st, <1>dead, IdleKept DEF IInv, IdleState
  <1>5. DeadState'
    BY <1>0, <1>cur, <1>pc, <1>st DEF IInv, DeadState
  <1>6. CreateState'
    <2>1. CreateState
      BY DEF IInv
    <2>2. \A u \in Thread : pc[u] = "create" => child[u] # new /\ child[u] # t
      BY <1>0, <1>cur, <2>1 DEF CreateState
    <2> QED BY <1>0, <1>cur, <1>dead, <1>pc, <1>st, <1>ch, <2>1, <2>2 DEF CreateState
  <1>7. WaitersAreBlocked'
    BY <1>0, <1>cur, <1>pc, <1>st DEF IInv, WaitersAreBlocked
  <1>8. BlockedIsFindable'
    <2>1. \A c \in Thread : pc[c] = "create" => pc'[c] = "create" /\ child'[c] = child[c]
      BY <1>0, <1>pc, <1>ch
    <2> QED BY <1>0, <1>pc, <1>st, <1>ch, <2>1 DEF IInv, BlockedIsFindable
  <1>9. ExitedThreadIsReclaimed'
    <2>1. ExitedThreadIsReclaimed
      BY DEF IInv
    <2>2. Live' = Live \union {new}
      BY <1>st DEF Live, Status
    <2>3. all_list' = {u \in Live' : status'[u] # "THREAD_DYING"}
      BY <1>0, <1>st, <2>1, <2>2 DEF ExitedThreadIsReclaimed, Live
    <2>4. \A u \in Live' : pc'[u] = "create" => child'[u] \in all_list'
      <3> SUFFICES ASSUME NEW u \in Live', pc'[u] = "create", u # t
                   PROVE  child'[u] \in all_list'
        BY <1>0, <1>ch
      <3>1. u \in Thread /\ pc[u] = "create" /\ child'[u] = child[u]
        BY <1>pc, <1>ch DEF Live
      <3>2. u \in Live
        BY <1>dead, <2>2, <3>1
      <3> QED BY <1>0, <2>1, <3>1, <3>2 DEF ExitedThreadIsReclaimed
    <2> QED BY <1>0, <1>st, <2>1, <2>3, <2>4 DEF ExitedThreadIsReclaimed
  <1> QED BY <1>1, <1>2, <1>3, <1>4, <1>5, <1>6, <1>7, <1>8, <1>9 DEF IInv

\* A new thread is put on the run queue.
LEMMA CreateUnblockStep ==
  ASSUME IInv, NEW t \in Thread, CreateUnblock(t) PROVE IInv'
  <1> USE ThreadsAssumption
  <1> DEFINE c == child[t]
  <1>type. TypeOK
    BY DEF IInv
  <1>0. /\ cpu = "thread" /\ cur = t /\ pc[t] = "create" /\ intr_level = "INTR_ON"
        /\ UNCHANGED <<wait_sema, all_list, thread_ticks, waiters, value,
                       idle_thread, cur, prev, cpu, intr_level>>
    BY DEF CreateUnblock, Running, semaVars
  <1>c. /\ c \in Thread /\ status[c] = "THREAD_BLOCKED" /\ pc[c] = "run"
        /\ \A u \in Thread : pc[u] = "create" /\ u # t => child[u] # c
    BY <1>0 DEF IInv, CreateState
  <1> HIDE DEF c
  <1>cur. /\ status[t] = "THREAD_RUNNING" /\ t # c
          /\ \A u \in Sema : \A v \in OnList(waiters[u]) : v \in Thread
    BY <1>0, <1>c, CurRuns
  <1>pc. /\ pc' \in [Thread -> Pc] /\ pc'[t] = "run"
         /\ \A u \in Thread : u # t => pc'[u] = pc[u]
    BY <1>type DEF CreateUnblock, TypeOK, Pc
  <1>st. /\ status' \in [Thread -> Status] /\ status'[c] = "THREAD_READY"
         /\ \A u \in Thread : u # c => status'[u] = status[u]
    BY <1>type, <1>c DEF CreateUnblock, thread_unblock, TypeOK, Status, c
  <1>ch. /\ child' \in [Thread -> Thread \union {NULL}]
         /\ \A u \in Thread : u # t => child'[u] = child[u]
    BY <1>type DEF CreateUnblock, TypeOK
  <1>notidle. c # idle_thread
    BY <1>c DEF IInv, IdleState
  <1>q. /\ fifo_ready_list' \in Seq(Thread) /\ NoDup(fifo_ready_list')
        /\ OnList(fifo_ready_list') = OnList(fifo_ready_list) \union {c}
    <2>1. fifo_ready_list' = Append(fifo_ready_list, c)
      BY DEF CreateUnblock, thread_unblock, thread_enqueue, c
    <2>2. NoDup(fifo_ready_list) /\ c \notin OnList(fifo_ready_list)
      BY <1>c DEF IInv, RunQueueIsReadyThreads
    <2> QED BY <1>type, <1>c, <2>1, <2>2, PushBack DEF TypeOK
  <1>1. TypeOK'
    BY <1>type, <1>0, <1>pc, <1>st, <1>ch, <1>q DEF TypeOK
  <1>2. SwitchState' /\ OneRunning'
    BY <1>0, <1>cur, <1>c, <1>st DEF IInv, SwitchState, OneRunning, Live
  <1>3. BootState'
    BY <1>0, <1>pc DEF IInv, BootState
  <1>4. IdleState'
    BY <1>0, <1>c, <1>pc, <1>st, IdleKept DEF IInv, IdleState
  <1>5. DeadState'
    BY <1>0, <1>pc, <1>st DEF IInv, DeadState
  <1>6. CreateState'
    <2>1. CreateState
      BY DEF IInv
    <2>2. \A u \in Thread : pc[u] = "create" => child[u] # t
      BY <1>0, <2>1 DEF CreateState
    <2> QED BY <1>0, <1>c, <1>pc, <1>st, <1>ch, <2>1, <2>2 DEF CreateState
  <1>7. WaitersAreBlocked'
    BY <1>0, <1>c, <1>cur, <1>pc, <1>st DEF IInv, WaitersAreBlocked
  <1>8. BlockedIsFindable'
    <2>1. \A u \in Thread : pc[u] = "create" /\ u # t => pc'[u] = "create" /\ child'[u] = child[u]
      BY <1>0, <1>pc, <1>ch
    <2> QED BY <1>0, <1>pc, <1>st, <1>ch, <2>1 DEF IInv, BlockedIsFindable, c
  <1>9. ExitedThreadIsReclaimed'
    <2>1. ExitedThreadIsReclaimed
      BY DEF IInv
    <2>2. /\ Live' = Live
          /\ {u \in Live : status'[u] # "THREAD_DYING"} = {u \in Live : status[u] # "THREAD_DYING"}
      BY <1>c, <1>st DEF Live
    <2>4. \A u \in Live' : pc'[u] = "create" => child'[u] \in all_list'
      BY <1>0, <1>pc, <1>ch, <2>1, <2>2 DEF ExitedThreadIsReclaimed, Live
    <2> QED BY <1>0, <1>c, <1>st, <2>1, <2>2, <2>4 DEF ExitedThreadIsReclaimed
  <1>10. RunQueueIsReadyThreads'
    BY <1>0, <1>cur, <1>c, <1>st, <1>q, <1>notidle DEF IInv, RunQueueIsReadyThreads
  <1> QED BY <1>1, <1>2, <1>3, <1>4, <1>5, <1>6, <1>7, <1>8, <1>9, <1>10 DEF IInv

\* The boot thread creates the idle thread and enables interrupts.
LEMMA StartStep ==
  ASSUME IInv, NEW i \in Thread, thread_start(i) PROVE IInv'
  <1> USE ThreadsAssumption
  <1> DEFINE b == initial_thread
  <1>type. TypeOK
    BY DEF IInv
  <1>0. /\ pc[b] = "boot" /\ status[i] = "free" /\ intr_level' = "INTR_ON"
        /\ all_list' = all_list \union {i}
        /\ UNCHANGED <<child, wait_sema, thread_ticks, waiters, value,
                       idle_thread, cur, prev, cpu>>
    BY DEF thread_start, semaVars
  <1>boot. /\ cur = b /\ cpu = "thread" /\ idle_thread = NULL
           /\ \A u \in Thread : pc[u] # "idle"
    BY <1>0 DEF IInv, BootState
  <1>cur. /\ status[b] = "THREAD_RUNNING" /\ b # i
          /\ \A u \in Sema : \A v \in OnList(waiters[u]) : v \in Thread
    BY <1>0, <1>boot, CurRuns
  <1>dead. pc[i] = "run"
    BY <1>0 DEF IInv, DeadState
  <1>pc. /\ pc' \in [Thread -> Pc] /\ pc'[b] = "start" /\ pc'[i] = "idle"
         /\ \A u \in Thread : u # b /\ u # i => pc'[u] = pc[u]
    BY <1>type, <1>cur DEF thread_start, TypeOK, Pc
  <1>st. /\ status' \in [Thread -> Status] /\ status'[i] = "THREAD_READY"
         /\ \A u \in Thread : u # i => status'[u] = status[u]
    BY <1>type DEF thread_start, TypeOK, Status
  <1>q. /\ fifo_ready_list' \in Seq(Thread) /\ NoDup(fifo_ready_list')
        /\ OnList(fifo_ready_list') = OnList(fifo_ready_list) \union {i}
    <2>1. fifo_ready_list' = Append(fifo_ready_list, i)
      BY DEF thread_start, thread_enqueue
    <2>2. NoDup(fifo_ready_list) /\ i \notin OnList(fifo_ready_list)
      BY <1>0 DEF IInv, RunQueueIsReadyThreads
    <2> QED BY <1>type, <2>1, <2>2, PushBack DEF TypeOK
  <1>1. TypeOK'
    BY <1>type, <1>0, <1>pc, <1>st, <1>q DEF TypeOK
  <1>2. SwitchState' /\ OneRunning'
    BY <1>0, <1>boot, <1>cur, <1>st DEF IInv, SwitchState, OneRunning, Live
  <1>3. BootState'
    BY <1>0, <1>pc DEF IInv, BootState
  <1>4. IdleState'
    BY <1>0, <1>boot, <1>dead, <1>pc, <1>st DEF IInv, IdleState
  <1>5. DeadState'
    BY <1>0, <1>cur, <1>pc, <1>st DEF IInv, DeadState
  <1>6. CreateState'
    <2>1. CreateState
      BY DEF IInv
    <2>2. \A u \in Thread : pc[u] = "create" => child[u] # i /\ child[u] # b
      BY <1>0, <1>cur, <2>1 DEF CreateState
    <2> QED BY <1>0, <1>dead, <1>pc, <1>st, <2>1, <2>2 DEF CreateState
  <1>7. WaitersAreBlocked'
    BY <1>0, <1>cur, <1>pc, <1>st DEF IInv, WaitersAreBlocked
  <1>8. BlockedIsFindable'
    <2>1. \A u \in Thread : pc[u] = "create" => pc'[u] = "create"
      BY <1>0, <1>dead, <1>pc
    <2> QED BY <1>0, <1>st, <2>1 DEF IInv, BlockedIsFindable
  <1>9. ExitedThreadIsReclaimed'
    <2>1. ExitedThreadIsReclaimed
      BY DEF IInv
    <2>2. Live' = Live \union {i}
      BY <1>st DEF Live, Status
    <2>3. all_list' = {u \in Live' : status'[u] # "THREAD_DYING"}
      BY <1>0, <1>st, <2>1, <2>2 DEF ExitedThreadIsReclaimed, Live
    <2>4. \A u \in Live' : pc'[u] = "create" => child'[u] \in all_list'
      BY <1>0, <1>pc, <2>1, <2>2 DEF ExitedThreadIsReclaimed, Live
    <2> QED BY <1>0, <1>st, <2>1, <2>3, <2>4 DEF ExitedThreadIsReclaimed
  <1>10. RunQueueIsReadyThreads'
    BY <1>0, <1>boot, <1>st, <1>q DEF IInv, RunQueueIsReadyThreads
  <1> QED BY <1>1, <1>2, <1>3, <1>4, <1>5, <1>6, <1>7, <1>8, <1>9, <1>10 DEF IInv

-----------------------------------------------------------------------------
\* The second half of a switch: the new thread is marked running, and the
\* page of a dead one goes.
LEMMA SwitchTailStep ==
  ASSUME IInv, thread_switch_tail PROVE IInv'
  <1> USE ThreadsAssumption
  <1>type. TypeOK
    BY DEF IInv
  <1>0. /\ cpu = "switch" /\ cpu' = "thread" /\ prev' = NULL /\ thread_ticks' = 0
        /\ intr_level' \in {"INTR_ON", "INTR_OFF"}
        /\ status' = SwitchedStatus
        /\ UNCHANGED <<pc, child, wait_sema, waiters, value, fifo_ready_list,
                       all_list, idle_thread, cur>>
    BY DEF thread_switch_tail, progVars, semaVars
  <1>cur. /\ cur \in Thread /\ cur # prev
          /\ status[cur] \in {"THREAD_READY", "THREAD_BLOCKED"}
          /\ status[cur] = "THREAD_BLOCKED" => cur = idle_thread
          /\ \A t \in Thread : status[t] # "THREAD_RUNNING"
    BY <1>0 DEF IInv, SwitchState, OneRunning, Live
  <1>wait. \A s \in Sema : cur \notin OnList(waiters[s])
    BY <1>cur DEF IInv, WaitersAreBlocked, IdleState
  <1>seq. \A s \in Sema : \A t \in OnList(waiters[s]) : t \in Thread
    BY <1>type DEF TypeOK, OnList
  <1>boot. pc[initial_thread] # "boot"
    BY <1>0 DEF IInv, BootState
  <1>d. /\ cur \notin Destroyed
        /\ \A t \in Thread : t \in Destroyed => status[t] = "THREAD_DYING" /\ t # initial_thread
        /\ \A t \in Thread : status[t] = "THREAD_DYING" /\ t # initial_thread => t \in Destroyed
    BY <1>0, <1>cur, <1>type DEF Destroyed, IInv, ExitedThreadIsReclaimed, TypeOK
  <1>st. /\ status' \in [Thread -> Status] /\ status'[cur] = "THREAD_RUNNING"
         /\ \A t \in Thread : t # cur /\ t \in Destroyed => status'[t] = "free"
         /\ \A t \in Thread : t # cur /\ t \notin Destroyed => status'[t] = status[t]
    BY <1>0, <1>cur, <1>type DEF SwitchedStatus, TypeOK, Status
  <1>1. TypeOK'
    BY <1>type, <1>0, <1>st DEF TypeOK
  <1>2. SwitchState'
    BY <1>0 DEF SwitchState
  <1>3. OneRunning'
    BY <1>0, <1>cur, <1>d, <1>st DEF OneRunning, Live
  <1>4. BootState'
    BY <1>0, <1>boot DEF IInv, BootState
  <1>5. IdleState'
    BY <1>0, <1>cur, <1>d, <1>st, IdleKept DEF IInv, IdleState
  <1>6. DeadState'
    BY <1>0, <1>cur, <1>d, <1>st DEF IInv, DeadState
  <1>7. CreateState'
    <2>1. CreateState
      BY DEF IInv
    <2>2. \A t \in Thread : pc[t] = "create" => child[t] # cur
      BY <1>cur, <2>1 DEF CreateState, IInv, IdleState
    <2> QED BY <1>0, <1>d, <1>st, <2>1, <2>2 DEF CreateState
  <1>8. WaitersAreBlocked'
    <2>1. WaitersAreBlocked
      BY DEF IInv
    <2>2. \A s \in Sema : \A t \in OnList(waiters[s]) : status'[t] = "THREAD_BLOCKED"
      BY <1>wait, <1>seq, <1>d, <1>st, <2>1 DEF WaitersAreBlocked
    <2> QED BY <1>0, <2>1, <2>2 DEF WaitersAreBlocked
  <1>9. BlockedIsFindable'
    <2>1. \A t \in Thread : status'[t] = "THREAD_BLOCKED" => status[t] = "THREAD_BLOCKED"
      BY <1>d, <1>st
    <2> QED BY <1>0, <2>1 DEF IInv, BlockedIsFindable
  <1>10. ExitedThreadIsReclaimed'
    <2>1. ExitedThreadIsReclaimed
      BY DEF IInv
    <2>2. Live' = Live \ Destroyed
      BY <1>cur, <1>d, <1>st DEF Live
    <2>3. all_list' = {t \in Live' : status'[t] # "THREAD_DYING"}
      BY <1>0, <1>cur, <1>d, <1>st, <2>1, <2>2 DEF ExitedThreadIsReclaimed, Live
    <2>4. \A t \in Thread : status'[t] = "THREAD_DYING" => t = initial_thread
      BY <1>d, <1>st
    <2> QED BY <1>0, <2>1, <2>2, <2>3, <2>4 DEF ExitedThreadIsReclaimed
  <1>11. RunQueueIsReadyThreads'
    BY <1>0, <1>cur, <1>d, <1>st DEF IInv, RunQueueIsReadyThreads
  <1> QED BY <1>1, <1>2, <1>3, <1>4, <1>5, <1>6, <1>7, <1>8, <1>9, <1>10, <1>11 DEF IInv

\* The first half: whatever the running thread's status becomes, schedule()
\* finds a thread to switch to, and the queue keeps the other ready ones.
LEMMA ScheduleFacts ==
  ASSUME IInv, cpu = "thread", pc[initial_thread] # "boot",
         NEW st \in {"THREAD_READY", "THREAD_BLOCKED", "THREAD_DYING"},
         NEW ready \in Seq(Thread), NoDup(ready),
         OnList(ready) = IF st = "THREAD_READY" /\ cur # idle_thread
                         THEN OnList(fifo_ready_list) \union {cur}
                         ELSE OnList(fifo_ready_list),
         st = "THREAD_DYING" => cur # idle_thread,
         pc[cur] = "idle" => st = "THREAD_READY",
         schedule(st, ready)
  PROVE  /\ status' \in [Thread -> Status] /\ status'[cur] = st
         /\ \A t \in Thread : t # cur => status'[t] = status[t]
         /\ cur' \in Thread
         /\ status'[cur'] \in {"THREAD_READY", "THREAD_BLOCKED"}
         /\ status'[cur'] = "THREAD_BLOCKED" => cur' = idle_thread
         /\ prev' \in Thread \union {NULL} /\ cur' # prev'
         /\ st = "THREAD_DYING" => prev' = cur
         /\ fifo_ready_list' \in Seq(Thread) /\ NoDup(fifo_ready_list')
         /\ \A t \in Thread : t \in OnList(fifo_ready_list') <=>
              status'[t] = "THREAD_READY" /\ t # idle_thread /\ t # cur'
  <1> USE ThreadsAssumption
  <1>type. TypeOK
    BY DEF IInv
  <1>0. /\ status' = [status EXCEPT ![cur] = st]
        /\ fifo_ready_list' = AfterPop(ready)
        /\ cur' = thread_schedule_fifo(ready)
        /\ prev' = IF cur # cur' THEN cur ELSE NULL
    BY DEF schedule
  <1>cur. /\ cur \in Thread /\ status[cur] = "THREAD_RUNNING"
          /\ \A t \in Thread : status[t] = "THREAD_RUNNING" => t = cur
    BY CurRuns
  <1>st. /\ status' \in [Thread -> Status] /\ status'[cur] = st
         /\ \A t \in Thread : t # cur => status'[t] = status[t]
    BY <1>type, <1>0, <1>cur DEF TypeOK, Status
  <1>q. \A t \in Thread : t \in OnList(fifo_ready_list) <=>
          status[t] = "THREAD_READY" /\ t # idle_thread
    BY DEF IInv, RunQueueIsReadyThreads
  <1>ready. \A t \in Thread : t \in OnList(ready) <=>
              status'[t] = "THREAD_READY" /\ t # idle_thread
    BY <1>q, <1>st, <1>cur
  <1>1. CASE ready # <<>>
    <2>1. cur' = Head(ready) /\ fifo_ready_list' = Tail(ready)
      BY <1>0, <1>1 DEF thread_schedule_fifo, AfterPop
    <2>2. /\ cur' \in Thread /\ cur' \in OnList(ready)
          /\ fifo_ready_list' \in Seq(Thread) /\ NoDup(fifo_ready_list')
          /\ OnList(fifo_ready_list') = OnList(ready) \ {cur'}
      BY <1>1, <2>1, PopFront
    <2> QED BY <1>0, <1>cur, <1>st, <1>ready, <2>2
  <1>2. CASE ready = <<>>
    <2>1. cur' = idle_thread /\ fifo_ready_list' = <<>>
      BY <1>0, <1>2 DEF thread_schedule_fifo, AfterPop
    <2>2. \A t \in Thread : t \notin OnList(ready)
      BY <1>2 DEF OnList
    <2>3. idle_thread # NULL
      <3> SUFFICES ASSUME idle_thread = NULL PROVE FALSE
        OBVIOUS
      <3>1. PICK t \in Thread : pc[t] = "idle"
        BY DEF IInv, IdleState
      <3>2. status[t] \in {"THREAD_READY", "THREAD_RUNNING"}
        BY <3>1 DEF IInv, IdleState
      <3>3. t # idle_thread
        OBVIOUS
      <3>4. status'[t] = "THREAD_READY"
        BY <1>cur, <1>st, <3>1, <3>2
      <3> QED BY <1>ready, <2>2, <3>3, <3>4
    <2>4. idle_thread \in Thread /\ status[idle_thread] \notin {"free", "THREAD_DYING"}
      BY <1>type, <2>3 DEF IInv, ExitedThreadIsReclaimed, TypeOK, Live
    <2>5. status'[idle_thread] \in {"THREAD_READY", "THREAD_BLOCKED"}
      BY <1>type, <1>cur, <1>st, <2>4 DEF TypeOK, Status
    <2>6. NoDup(<<>>) /\ OnList(<<>>) = {} /\ <<>> \in Seq(Thread)
      BY DEF NoDup, OnList
    <2> QED BY <1>0, <1>cur, <1>st, <1>ready, <2>1, <2>2, <2>4, <2>5, <2>6
  <1> QED BY <1>1, <1>2

\* Steps that call schedule() keep the invariant.  The running thread may go
\* to sleep on a list, die, or stay ready.
LEMMA ScheduleStep ==
  ASSUME IInv, cpu = "thread", pc[initial_thread] # "boot",
         NEW st \in {"THREAD_READY", "THREAD_BLOCKED", "THREAD_DYING"},
         NEW ready \in Seq(Thread), NoDup(ready),
         OnList(ready) = IF st = "THREAD_READY" /\ cur # idle_thread
                         THEN OnList(fifo_ready_list) \union {cur}
                         ELSE OnList(fifo_ready_list),
         st = "THREAD_DYING" => cur # idle_thread /\ pc'[cur] = "run",
         pc[cur] = "idle" => st = "THREAD_READY",
         schedule(st, ready),
         pc' \in [Thread -> Pc],
         \A t \in Thread : t # cur => pc'[t] = pc[t],
         \A p \in {"idle", "create"} : pc'[cur] = p <=> pc[cur] = p,
         pc'[cur] \in {"boot", "start"} => pc[cur] \in {"boot", "start"},
         pc'[initial_thread] # "boot",
         pc'[cur] \in {"idle_up", "block", "hlt"} <=> pc[cur] \in {"idle_up", "block", "hlt"},
         wait_sema' \in [Thread -> Sema \union {NULL}],
         \A t \in Thread : t # cur => wait_sema'[t] = wait_sema[t],
         waiters' \in [Sema -> Seq(Thread)],
         \A s \in Sema :
           /\ NoDup(waiters'[s])
           /\ OnList(waiters[s]) \subseteq OnList(waiters'[s])
           /\ OnList(waiters'[s]) \subseteq OnList(waiters[s]) \union {cur}
           /\ cur \in OnList(waiters'[s]) =>
                /\ st = "THREAD_BLOCKED"
                /\ pc'[cur] = "sema_down" /\ wait_sema'[cur] = s,
         st = "THREAD_BLOCKED" =>
           cur = idle_thread \/ \E s \in Sema : cur \in OnList(waiters'[s]),
         all_list' = IF st = "THREAD_DYING" THEN all_list \ {cur} ELSE all_list,
         thread_ticks' \in 0 .. TIME_SLICE,
         value' \in [Sema -> 0 .. MaxValue],
         UNCHANGED <<child, idle_thread>>
  PROVE  IInv'
  <1> USE ThreadsAssumption
  <1>type. TypeOK
    BY DEF IInv
  <1>0. cpu' = "switch" /\ intr_level' = "INTR_OFF"
    BY DEF schedule
  <1>cur. /\ cur \in Thread /\ status[cur] = "THREAD_RUNNING"
          /\ \A t \in Thread : status[t] = "THREAD_RUNNING" => t = cur
          /\ \A s \in Sema : cur \notin OnList(waiters[s])
          /\ \A s \in Sema : \A t \in OnList(waiters[s]) : t \in Thread
    BY CurRuns
  <1>st. /\ status' \in [Thread -> Status] /\ status'[cur] = st
         /\ \A t \in Thread : t # cur => status'[t] = status[t]
    BY ScheduleFacts
  <1>new. /\ cur' \in Thread
          /\ status'[cur'] \in {"THREAD_READY", "THREAD_BLOCKED"}
          /\ status'[cur'] = "THREAD_BLOCKED" => cur' = idle_thread
          /\ prev' \in Thread \union {NULL} /\ cur' # prev'
          /\ st = "THREAD_DYING" => prev' = cur
    BY ScheduleFacts
  <1>q. /\ fifo_ready_list' \in Seq(Thread) /\ NoDup(fifo_ready_list')
        /\ \A t \in Thread : t \in OnList(fifo_ready_list') <=>
             status'[t] = "THREAD_READY" /\ t # idle_thread /\ t # cur'
    BY ScheduleFacts
  <1>pc. /\ \A t \in Thread : pc'[t] = "create" <=> pc[t] = "create"
         /\ \A t \in Thread : pc'[t] = "idle" <=> pc[t] = "idle"
         /\ \A t \in Thread : pc'[t] \in {"idle_up", "block", "hlt"} <=>
                              pc[t] \in {"idle_up", "block", "hlt"}
    OBVIOUS
  <1>1. TypeOK'
    BY <1>type, <1>0, <1>st, <1>new, <1>q DEF TypeOK
  <1>2. SwitchState'
    <2>1. \A t \in Thread : status'[t] # "THREAD_RUNNING"
      BY <1>cur, <1>st
    <2> QED BY <1>0, <1>new, <2>1 DEF SwitchState
  <1>3. OneRunning'
    BY <1>0, <1>new DEF OneRunning, Live
  <1>4. BootState'
    BY <1>cur DEF IInv, BootState
  <1>5. IdleState'
    <2>1. IdleState
      BY DEF IInv
    <2>2. \A t \in Thread : pc[t] = "idle" =>
            status'[t] \in {"THREAD_READY", "THREAD_RUNNING"}
      BY <1>st, <2>1 DEF IdleState
    <2> QED BY <1>pc, <2>1, <2>2, IdleKept
  <1>6. DeadState'
    BY <1>cur, <1>st DEF IInv, DeadState
  <1>7. CreateState'
    <2>1. CreateState
      BY DEF IInv
    <2>2. \A t \in Thread : pc[t] = "create" => child[t] # cur
      BY <1>cur, <2>1 DEF CreateState
    <2>3. \A t \in Thread : pc[t] = "create" =>
            /\ child[t] \in Thread /\ status'[child[t]] = "THREAD_BLOCKED"
            /\ pc'[child[t]] = "run"
      <3> SUFFICES ASSUME NEW t \in Thread, pc[t] = "create"
                   PROVE  /\ child[t] \in Thread /\ status'[child[t]] = "THREAD_BLOCKED"
                          /\ pc'[child[t]] = "run"
        OBVIOUS
      <3>1. /\ child[t] \in Thread /\ status[child[t]] = "THREAD_BLOCKED"
            /\ pc[child[t]] = "run"
        BY <2>1 DEF CreateState
      <3>2. status'[child[t]] = status[child[t]] /\ pc'[child[t]] = pc[child[t]]
        BY <1>st, <2>2, <3>1
      <3> QED BY <3>1, <3>2
    <2> QED BY <1>pc, <2>1, <2>3 DEF CreateState
  <1>8. WaitersAreBlocked'
    <2>1. WaitersAreBlocked
      BY DEF IInv
    <2> SUFFICES ASSUME NEW s \in Sema, NEW t \in OnList(waiters'[s])
                 PROVE  status'[t] = "THREAD_BLOCKED" /\ pc'[t] = "sema_down" /\ wait_sema'[t] = s
      BY DEF WaitersAreBlocked
    <2>2. CASE t = cur
      BY <1>st, <2>2
    <2>3. CASE t # cur
      <3>1. t \in OnList(waiters[s]) /\ t \in Thread
        BY <1>cur, <2>3
      <3>2. status[t] = "THREAD_BLOCKED" /\ pc[t] = "sema_down" /\ wait_sema[t] = s
        BY <2>1, <3>1 DEF WaitersAreBlocked
      <3>3. status'[t] = status[t] /\ pc'[t] = pc[t] /\ wait_sema'[t] = wait_sema[t]
        BY <1>st, <2>3, <3>1
      <3> QED BY <3>2, <3>3
    <2> QED BY <2>2, <2>3
  <1>9. BlockedIsFindable'
    <2>1. BlockedIsFindable
      BY DEF IInv
    <2> SUFFICES ASSUME NEW t \in Thread, status'[t] = "THREAD_BLOCKED"
                 PROVE  \/ \E s \in Sema : t \in OnList(waiters'[s])
                        \/ t = idle_thread
                        \/ \E c \in Thread : child[c] = t /\ pc'[c] = "create"
      BY DEF BlockedIsFindable
    <2>2. CASE t = cur
      BY <1>st, <2>2
    <2>3. CASE t # cur
      BY <1>pc, <1>st, <2>1, <2>3 DEF BlockedIsFindable
    <2> QED BY <2>2, <2>3
  <1>10. ExitedThreadIsReclaimed'
    <2>1. ExitedThreadIsReclaimed
      BY DEF IInv
    <2>2. Live' = Live
      BY <1>cur, <1>st DEF Live
    <2>3. all_list' = {t \in Live' : status'[t] # "THREAD_DYING"}
      BY <1>cur, <1>st, <2>1, <2>2 DEF ExitedThreadIsReclaimed, Live
    <2>4. \A t \in Thread : status'[t] = "THREAD_DYING" =>
            t = initial_thread \/ t = prev'
      BY <1>st, <1>new, <2>1 DEF ExitedThreadIsReclaimed
    <2>5. \A t \in Live' : pc'[t] = "create" => child'[t] \in all_list'
      <3>1. \A t \in Thread : pc[t] = "create" => child[t] # cur
        BY <1>cur DEF IInv, CreateState
      <3> QED BY <1>pc, <2>1, <2>2, <3>1 DEF ExitedThreadIsReclaimed, Live
    <2>6. idle_thread' \in all_list' \union {NULL}
      BY <2>1 DEF ExitedThreadIsReclaimed
    <2> QED BY <1>0, <2>3, <2>4, <2>5, <2>6 DEF ExitedThreadIsReclaimed
  <1>11. RunQueueIsReadyThreads'
    BY <1>0, <1>q DEF RunQueueIsReadyThreads
  <1> QED BY <1>1, <1>2, <1>3, <1>4, <1>5, <1>6, <1>7, <1>8, <1>9, <1>10, <1>11 DEF IInv

-----------------------------------------------------------------------------
\* The steps that ScheduleStep covers.  YieldQueue() is what it needs of them.
LEMMA YieldQueueFacts ==
  ASSUME IInv, cpu = "thread"
  PROVE  /\ YieldQueue(cur) \in Seq(Thread) /\ NoDup(YieldQueue(cur))
         /\ OnList(YieldQueue(cur)) = IF cur # idle_thread
                                      THEN OnList(fifo_ready_list) \union {cur}
                                      ELSE OnList(fifo_ready_list)
  <1>1. cur \in Thread /\ status[cur] = "THREAD_RUNNING"
    BY CurRuns
  <1>2. cur \notin OnList(fifo_ready_list) /\ NoDup(fifo_ready_list)
    BY <1>1 DEF IInv, RunQueueIsReadyThreads
  <1>3. fifo_ready_list \in Seq(Thread)
    BY DEF IInv, TypeOK
  <1> QED BY <1>1, <1>2, <1>3, PushBack DEF YieldQueue, thread_enqueue

\* Nothing but sema_down() changes the semaphores' lists when it schedules.
LEMMA SameWaiters ==
  ASSUME IInv, cpu = "thread", waiters' = waiters
  PROVE  /\ waiters' \in [Sema -> Seq(Thread)]
         /\ \A s \in Sema :
              /\ NoDup(waiters'[s])
              /\ OnList(waiters[s]) \subseteq OnList(waiters'[s])
              /\ OnList(waiters'[s]) \subseteq OnList(waiters[s]) \union {cur}
              /\ cur \notin OnList(waiters'[s])
  BY CurRuns DEF IInv, WaitersAreBlocked, TypeOK

\* A thread that runs with interrupts on is past the boot.
LEMMA PastBoot ==
  ASSUME IInv, intr_level = "INTR_ON"
  PROVE  pc[initial_thread] # "boot"
  BY DEF IInv, BootState

LEMMA YieldStep ==
  ASSUME IInv, NEW t \in Thread, thread_yield(t) PROVE IInv'
  <1>1. /\ cpu = "thread" /\ cur = t /\ intr_level = "INTR_ON" /\ pc[cur] = "run"
        /\ schedule("THREAD_READY", YieldQueue(cur))
        /\ UNCHANGED <<pc, child, wait_sema, value, waiters, all_list, idle_thread,
                       thread_ticks>>
    BY DEF thread_yield, Running, progVars, semaVars
  <1>2. /\ pc' \in [Thread -> Pc] /\ wait_sema' \in [Thread -> Sema \union {NULL}]
        /\ thread_ticks' \in 0 .. TIME_SLICE /\ value' \in [Sema -> 0 .. MaxValue]
    BY <1>1 DEF IInv, TypeOK
  <1> QED BY <1>1, <1>2, PastBoot, SameWaiters, YieldQueueFacts, ScheduleStep

LEMMA ExitStep ==
  ASSUME IInv, NEW t \in Thread, thread_exit(t) PROVE IInv'
  <1>1. /\ cpu = "thread" /\ cur = t /\ intr_level = "INTR_ON" /\ pc[cur] = "run"
        /\ schedule("THREAD_DYING", fifo_ready_list)
        /\ all_list' = all_list \ {cur}
        /\ UNCHANGED <<pc, child, wait_sema, value, waiters, idle_thread, thread_ticks>>
    BY DEF thread_exit, Running, progVars, semaVars
  <1>2. /\ pc' \in [Thread -> Pc] /\ wait_sema' \in [Thread -> Sema \union {NULL}]
        /\ thread_ticks' \in 0 .. TIME_SLICE /\ value' \in [Sema -> 0 .. MaxValue]
        /\ fifo_ready_list \in Seq(Thread) /\ NoDup(fifo_ready_list)
    BY <1>1 DEF IInv, TypeOK, RunQueueIsReadyThreads
  <1>3. cur # idle_thread
    BY <1>1 DEF IInv, IdleState
  <1> QED BY <1>1, <1>2, <1>3, PastBoot, SameWaiters, ScheduleStep

LEMMA IdleBlockStep ==
  ASSUME IInv, NEW t \in Thread, IdleBlock(t) PROVE IInv'
  <1>1. /\ cpu = "thread" /\ cur = t /\ intr_level = "INTR_ON" /\ pc[cur] = "block"
        /\ schedule("THREAD_BLOCKED", fifo_ready_list)
        /\ pc' = [pc EXCEPT ![cur] = "hlt"]
        /\ UNCHANGED <<child, wait_sema, value, waiters, all_list, idle_thread,
                       thread_ticks>>
    BY DEF IdleBlock, Running, semaVars
  <1>2. /\ pc' \in [Thread -> Pc] /\ wait_sema' \in [Thread -> Sema \union {NULL}]
        /\ thread_ticks' \in 0 .. TIME_SLICE /\ value' \in [Sema -> 0 .. MaxValue]
        /\ fifo_ready_list \in Seq(Thread) /\ NoDup(fifo_ready_list)
    BY <1>1 DEF IInv, TypeOK, RunQueueIsReadyThreads, Pc
  <1>3. cur = idle_thread
    BY <1>1 DEF IInv, IdleState
  <1>4. pc'[cur] = "hlt" /\ \A u \in Thread : u # cur => pc'[u] = pc[u]
    BY <1>1 DEF IInv, TypeOK
  <1>5. pc[initial_thread] # "boot"
    BY <1>1, PastBoot
  <1>6. pc'[initial_thread] # "boot"
    BY <1>4, <1>5, ThreadsAssumption
  <1> QED BY <1>1, <1>2, <1>3, <1>4, <1>5, <1>6, SameWaiters, ScheduleStep

LEMMA SliceOverStep ==
  ASSUME IInv, thread_tick, SliceOver(thread_ticks') PROVE IInv'
  <1>1. /\ cpu = "thread" /\ intr_level = "INTR_ON" /\ WakeHlt
        /\ schedule("THREAD_READY", YieldQueue(cur))
        /\ thread_ticks' = thread_ticks + 1
        /\ UNCHANGED <<child, wait_sema, value, waiters, all_list, idle_thread>>
    BY DEF thread_tick, Interruptible, semaVars
  <1>2. /\ wait_sema' \in [Thread -> Sema \union {NULL}]
        /\ thread_ticks' \in 0 .. TIME_SLICE /\ value' \in [Sema -> 0 .. MaxValue]
    BY <1>1, ThreadsAssumption DEF IInv, TypeOK, SwitchState
  <1>3. /\ pc' \in [Thread -> Pc]
        /\ \A t \in Thread : t # cur => pc'[t] = pc[t]
        /\ pc'[cur] = pc[cur] \/ (pc[cur] = "hlt" /\ pc'[cur] = "block")
    BY <1>1, CurRuns DEF WakeHlt, IInv, TypeOK, Pc
  <1>4. pc[initial_thread] # "boot"
    BY <1>1, PastBoot
  <1>5. pc'[initial_thread] # "boot"
    BY <1>3, <1>4, ThreadsAssumption
  <1> QED BY <1>1, <1>2, <1>3, <1>4, <1>5, SameWaiters, YieldQueueFacts, ScheduleStep

LEMMA SemaBlockStep ==
  ASSUME IInv, NEW t \in Thread, NEW s \in Sema, sema_down(t, s), SemaBlock(t, s)
  PROVE  IInv'
  <1> USE ThreadsAssumption
  <1>type. TypeOK
    BY DEF IInv
  <1>1. /\ cpu = "thread" /\ cur = t /\ pc[cur] \in {"run", "start", "sema_down"}
        /\ schedule("THREAD_BLOCKED", fifo_ready_list)
        /\ pc' = [pc EXCEPT ![cur] = "sema_down"]
        /\ wait_sema' = [wait_sema EXCEPT ![cur] = s]
        /\ waiters' = [waiters EXCEPT ![s] = Append(waiters[s], cur)]
        /\ UNCHANGED <<child, value, all_list, idle_thread, thread_ticks>>
    BY DEF sema_down, SemaBlock, Running, PushWaiter
  <1>cur. /\ cur \in Thread /\ status[cur] = "THREAD_RUNNING"
          /\ \A u \in Sema : cur \notin OnList(waiters[u])
    BY <1>1, CurRuns
  <1>2. /\ thread_ticks' \in 0 .. TIME_SLICE /\ value' \in [Sema -> 0 .. MaxValue]
        /\ fifo_ready_list \in Seq(Thread) /\ NoDup(fifo_ready_list)
    BY <1>1 DEF IInv, TypeOK, RunQueueIsReadyThreads
  <1>3. /\ pc' \in [Thread -> Pc] /\ wait_sema' \in [Thread -> Sema \union {NULL}]
        /\ pc'[cur] = "sema_down" /\ wait_sema'[cur] = s
        /\ \A u \in Thread : u # cur => pc'[u] = pc[u] /\ wait_sema'[u] = wait_sema[u]
    BY <1>type, <1>1, <1>cur DEF TypeOK, Pc
  <1>4. pc[initial_thread] # "boot"
    BY <1>1 DEF IInv, BootState
  <1>5. pc'[initial_thread] # "boot"
    BY <1>3, <1>4
  <1>6. /\ waiters[s] \in Seq(Thread) /\ NoDup(waiters[s])
        /\ Append(waiters[s], cur) \in Seq(Thread) /\ NoDup(Append(waiters[s], cur))
        /\ OnList(Append(waiters[s], cur)) = OnList(waiters[s]) \union {cur}
    BY <1>type, <1>cur, PushBack DEF TypeOK, IInv, WaitersAreBlocked
  <1>7. waiters'[s] = Append(waiters[s], cur) /\ waiters' \in [Sema -> Seq(Thread)]
    BY <1>type, <1>1, <1>6 DEF TypeOK
  <1>8. \A u \in Sema :
          /\ NoDup(waiters'[u])
          /\ OnList(waiters[u]) \subseteq OnList(waiters'[u])
          /\ OnList(waiters'[u]) \subseteq OnList(waiters[u]) \union {cur}
          /\ cur \in OnList(waiters'[u]) => u = s
    <2> SUFFICES ASSUME NEW u \in Sema, u # s
                 PROVE  waiters'[u] = waiters[u] /\ NoDup(waiters[u])
      BY <1>6, <1>7, <1>cur
    <2> QED BY <1>type, <1>1 DEF TypeOK, IInv, WaitersAreBlocked
  <1>9. cur \in OnList(waiters'[s])
    BY <1>6, <1>7
  <1> QED BY <1>1, <1>2, <1>3, <1>4, <1>5, <1>7, <1>8, <1>9, ScheduleStep

-----------------------------------------------------------------------------
LEMMA StutterStep ==
  ASSUME IInv, UNCHANGED vars PROVE IInv'
  <1>1. UNCHANGED <<status, pc, child, wait_sema, fifo_ready_list, all_list, idle_thread,
                    thread_ticks, cur, prev, cpu, intr_level, value, waiters>>
    BY DEF vars, schedVars, semaVars, progVars
  <1>2. TypeOK' /\ SwitchState' /\ BootState' /\ IdleState' /\ DeadState' /\ CreateState'
    BY <1>1 DEF IInv, TypeOK, SwitchState, BootState, IdleState, DeadState, CreateState
  <1>3. RunQueueIsReadyThreads' /\ WaitersAreBlocked' /\ BlockedIsFindable'
    BY <1>1 DEF IInv, RunQueueIsReadyThreads, WaitersAreBlocked, BlockedIsFindable
  <1>4. OneRunning' /\ ExitedThreadIsReclaimed'
    BY <1>1 DEF IInv, OneRunning, ExitedThreadIsReclaimed, Live
  <1> QED BY <1>2, <1>3, <1>4 DEF IInv

LEMMA NextStep ==
  ASSUME IInv, [Next]_vars PROVE IInv'
  <1>1. ASSUME NEW t \in Thread, ThreadStep(t) PROVE IInv'
    <2>1. CASE thread_yield(t)
      BY <2>1, YieldStep
    <2>2. CASE thread_exit(t)
      BY <2>2, ExitStep
    <2>3. CASE CreateUnblock(t)
      BY <2>3, CreateUnblockStep
    <2>4. CASE IdleInit(t) \/ IdleUp(t) \/ IdleBlock(t)
      BY <2>4, IdleInitStep, IdleUpStep, IdleBlockStep
    <2>5. ASSUME NEW new \in Thread, thread_create(t, new) PROVE IInv'
      BY <2>5, CreateStep
    <2>6. ASSUME NEW s \in Sema, sema_down(t, s) PROVE IInv'
      <3>1. SemaBlock(t, s) \/ SemaTake(t, s)
        BY <2>6 DEF sema_down
      <3> QED BY <2>6, <3>1, SemaBlockStep, SemaTakeStep
    <2>7. ASSUME NEW s \in Sema, SemaUp(t, s) \/ sema_try_down(t, s) PROVE IInv'
      BY <2>7, SemaUpStep, SemaTryDownStep
    <2> QED BY <1>1, <2>1, <2>2, <2>3, <2>4, <2>5, <2>6, <2>7 DEF ThreadStep
  <1>2. ASSUME NEW t \in Thread, thread_start(t) PROVE IInv'
    BY <1>2, StartStep
  <1>3. CASE thread_switch_tail
    BY <1>3, SwitchTailStep
  <1>4. CASE thread_tick
    BY <1>4, TickStep, SliceOverStep
  <1>5. ASSUME NEW s \in Sema, device_interrupt(s) PROVE IInv'
    BY <1>5, DeviceStep
  <1>6. CASE UNCHANGED vars
    BY <1>6, StutterStep
  <1> QED BY <1>1, <1>2, <1>3, <1>4, <1>5, <1>6 DEF Next

\* The inductive invariant holds throughout every run of the scheduler.
THEOREM Invariance == Spec => []IInv
  <1>1. Init => IInv
    BY InitIInv
  <1>2. IInv /\ [Next]_vars => IInv'
    BY NextStep
  <1> QED BY <1>1, <1>2, PTL DEF Spec

\* Every variable keeps its type: among others, thread_ticks never passes
\* TIME_SLICE and cur is always a page or NULL.
THEOREM TypeCorrect == Spec => []TypeOK
  <1>1. IInv => TypeOK
    BY DEF IInv
  <1> QED BY <1>1, Invariance, PTL

\* `elem' is never on two lists: fifo_ready_list is exactly the set of ready
\* threads, a thread on a semaphore's list is blocked in that semaphore's
\* sema_down(), and no thread is blocked where nothing can wake it, whatever
\* the number of threads and wherever they are preempted.
THEOREM ListsAreCorrect == Spec => []ListsAreExact
  <1>1. IInv => ListsAreExact
    BY DEF IInv, ListsAreExact, SleepersAreFindable
  <1> QED BY <1>1, Invariance, PTL

\* schedule() always has a thread to switch to, and between switches the
\* current thread is the only running one.
THEOREM OneRunningAlways == Spec => []OneRunning
  <1>1. IInv => OneRunning
    BY DEF IInv
  <1> QED BY <1>1, Invariance, PTL

\* Dead threads leave every list, and their pages are freed by the next
\* thread_switch_tail().
THEOREM ExitIsClean == Spec => []ExitedThreadIsReclaimed
  <1>1. IInv => ExitedThreadIsReclaimed
    BY DEF IInv
  <1> QED BY <1>1, Invariance, PTL

\* What a step may free.
FreeStep ==
  \A t \in Thread : status[t] # "free" /\ status'[t] = "free" =>
    /\ t # cur
    /\ t \notin OnList(fifo_ready_list)
    /\ \A s \in Sema : t \notin OnList(waiters[s])

\* Only a dead thread that is neither running nor listed loses its page.
THEOREM FreeIsAlwaysSafe == Spec => FreeIsSafe
  <1>1. ASSUME IInv, [Next]_vars PROVE [FreeStep]_vars
    <2> SUFFICES ASSUME NEW t \in Thread, status[t] # "free", status'[t] = "free"
                 PROVE  /\ status[t] = "THREAD_DYING" /\ t # cur
      BY <1>1 DEF FreeStep, IInv, RunQueueIsReadyThreads, WaitersAreBlocked
    <2>type. TypeOK
      BY <1>1 DEF IInv
    <2>1. CASE thread_switch_tail
      <3>1. status' = SwitchedStatus /\ cpu = "switch"
        BY <2>1 DEF thread_switch_tail
      <3>2. t # cur /\ t \in Destroyed
        BY <3>1 DEF SwitchedStatus
      <3> QED BY <3>2 DEF Destroyed
    <2>2. ASSUME NEW st, NEW ready, schedule(st, ready), st # "free" PROVE FALSE
      BY <2>type, <2>2 DEF schedule, TypeOK
    <2>3. ASSUME NEW s \in Sema, sema_up(s) PROVE FALSE
      BY <2>type, <2>3 DEF sema_up, thread_unblock, TypeOK
    <2>4. ASSUME NEW u \in Thread, ThreadStep(u) PROVE FALSE
      <3>1. CASE thread_yield(u) \/ thread_exit(u) \/ IdleBlock(u)
        BY <2>2, <3>1 DEF thread_yield, thread_exit, IdleBlock
      <3>2. CASE CreateUnblock(u)
        BY <2>type, <3>2 DEF CreateUnblock, thread_unblock, TypeOK
      <3>3. CASE IdleInit(u)
        BY <3>3 DEF IdleInit, schedVars
      <3>4. CASE IdleUp(u)
        BY <2>3, <3>4, ThreadsAssumption DEF IdleUp
      <3>5. ASSUME NEW new \in Thread, thread_create(u, new) PROVE FALSE
        BY <2>type, <3>5 DEF thread_create, TypeOK
      <3>6. ASSUME NEW s \in Sema, sema_down(u, s) PROVE FALSE
        BY <2>2, <3>6 DEF sema_down, SemaBlock, SemaTake, schedVars
      <3>7. ASSUME NEW s \in Sema, SemaUp(u, s) \/ sema_try_down(u, s) PROVE FALSE
        BY <2>3, <3>7 DEF SemaUp, sema_try_down, schedVars
      <3> QED BY <2>4, <3>1, <3>2, <3>3, <3>4, <3>5, <3>6, <3>7 DEF ThreadStep
    <2>5. ASSUME NEW u \in Thread, thread_start(u) PROVE FALSE
      BY <2>type, <2>5 DEF thread_start, TypeOK
    <2>6. CASE thread_tick
      BY <2>2, <2>6 DEF thread_tick, schedVars
    <2>7. ASSUME NEW s \in Sema, device_interrupt(s) PROVE FALSE
      BY <2>3, <2>7 DEF device_interrupt
    <2>8. CASE UNCHANGED vars
      BY <2>8 DEF vars, schedVars
    <2> QED BY <1>1, <2>1, <2>4, <2>5, <2>6, <2>7, <2>8 DEF Next
  <1> QED BY <1>1, Invariance, PTL DEF Spec, FreeIsSafe, FreeStep

-----------------------------------------------------------------------------
(***************************************************************************)
(* sema_up() wakes as many threads as it adds units.                       *)
(***************************************************************************)
\* NoLostWakeup for one semaphore.
Counted(s) == waiters[s] # <<>> => value[s] <= Cardinality(Woken(s))

LEMMA WokenIsFinite ==
  ASSUME NEW s \in Sema
  PROVE  /\ IsFiniteSet(Woken(s)) /\ Cardinality(Woken(s)) \in Nat
         /\ IsFiniteSet(Woken(s)') /\ Cardinality(Woken(s)') \in Nat
  <1>1. Woken(s) \in SUBSET Thread /\ Woken(s)' \in SUBSET Thread
    BY DEF Woken
  <1>2. IsFiniteSet(Woken(s)) /\ IsFiniteSet(Woken(s)')
    BY <1>1, FS_Subset, ThreadsAssumption
  <1> QED BY <1>2, FS_CardinalityType

\* A woken thread that has not run yet.
Waits(t, s) == pc'[t] = "sema_down" /\ wait_sema'[t] = s /\ status'[t] # "THREAD_BLOCKED"

\* Steps that add no unit, queue nobody on s, and put no woken thread to sleep.
LEMMA CountKept ==
  ASSUME TypeOK, NEW s \in Sema, Counted(s), value'[s] \in Nat, value'[s] <= value[s],
         waiters'[s] = waiters[s],
         \A t \in Woken(s) : Waits(t, s)
  PROVE  Counted(s)'
  <1>1. Woken(s) \subseteq Woken(s)'
    BY DEF Woken, Waits
  <1>2. Cardinality(Woken(s)) <= Cardinality(Woken(s)')
    BY <1>1, WokenIsFinite, FS_Subset
  <1>3. value[s] \in Nat
    BY ThreadsAssumption DEF TypeOK
  <1> QED BY <1>2, <1>3, WokenIsFinite DEF Counted

\* sema_up(): one more unit, and one more woken thread if there is a waiter.
LEMMA CountUp ==
  ASSUME IInv, NEW s \in Sema, NEW r \in Sema, Counted(s), sema_up(r),
         wait_sema' = wait_sema,
         \A t \in Thread : pc[t] = "sema_down" => pc'[t] = "sema_down"
  PROVE  Counted(s)'
  <1>type. TypeOK /\ WaitersAreBlocked
    BY DEF IInv
  <1>1. CASE waiters[r] = <<>>
    <2>1. value' = [value EXCEPT ![r] = @ + 1] /\ UNCHANGED <<waiters, status>>
      BY <1>1 DEF sema_up, WakesWaiter
    <2>2. CASE s = r
      BY <1>1, <2>1, <2>2 DEF Counted
    <2>3. CASE s # r
      <3>1. value'[s] = value[s] /\ value[s] \in Nat
        BY <1>type, <2>1, <2>3, ThreadsAssumption DEF TypeOK
      <3>2. \A t \in Woken(s) : Waits(t, s)
        BY <2>1 DEF Woken, Waits
      <3> QED BY <1>type, <2>1, <3>1, <3>2, CountKept
    <2> QED BY <2>2, <2>3
  <1>2. CASE waiters[r] # <<>>
    <2> DEFINE h == Head(waiters[r])
    <2>1. /\ value' = [value EXCEPT ![r] = @ + 1]
          /\ waiters' = [waiters EXCEPT ![r] = Tail(@)]
          /\ status' = [status EXCEPT ![h] = "THREAD_READY"]
      BY <1>2 DEF sema_up, WakesWaiter, PopWaiter, thread_unblock
    <2>2. h \in Thread /\ h \in OnList(waiters[r])
      <3>1. waiters[r] \in Seq(Thread) /\ NoDup(waiters[r])
        BY <1>type DEF TypeOK, WaitersAreBlocked
      <3> QED BY <1>2, <3>1, PopFront
    <2> HIDE DEF h
    <2>3. status[h] = "THREAD_BLOCKED" /\ pc[h] = "sema_down" /\ wait_sema[h] = r
      BY <1>type, <2>2 DEF WaitersAreBlocked
    <2>4. \A u \in Sema : \A t \in Woken(u) : Waits(t, u)
      BY <1>type, <2>1, <2>2 DEF Woken, Waits, TypeOK
    <2>5. CASE s # r
      <3>1. value'[s] = value[s] /\ value[s] \in Nat /\ waiters'[s] = waiters[s]
        BY <1>type, <2>1, <2>5, ThreadsAssumption DEF TypeOK
      <3> QED BY <1>type, <2>4, <3>1, CountKept
    <2>6. CASE s = r
      <3>1. value'[s] = value[s] + 1 /\ value[s] \in Nat
        BY <1>type, <2>1, <2>6, ThreadsAssumption DEF TypeOK
      <3>2. h \notin Woken(s)
        BY <2>3 DEF Woken
      <3>3. h \in Woken(s)'
        BY <1>type, <2>1, <2>2, <2>3, <2>6 DEF Woken, TypeOK
      <3>4. Woken(s) \union {h} \subseteq Woken(s)'
        BY <2>4, <3>3 DEF Woken, Waits
      <3>5. /\ IsFiniteSet(Woken(s) \union {h})
            /\ Cardinality(Woken(s) \union {h}) = Cardinality(Woken(s)) + 1
        BY <3>2, WokenIsFinite, FS_AddElement
      <3>6. Cardinality(Woken(s) \union {h}) <= Cardinality(Woken(s)')
        BY <3>4, WokenIsFinite, FS_Subset
      <3>7. value[s] <= Cardinality(Woken(s))
        BY <1>2, <2>6 DEF Counted
      <3> QED BY <3>1, <3>5, <3>6, <3>7, WokenIsFinite DEF Counted
    <2> QED BY <2>5, <2>6
  <1> QED BY <1>1, <1>2

\* sema_down() takes a unit: the thread's own, or that of one it overtakes.
LEMMA CountTake ==
  ASSUME IInv, NEW s \in Sema, NEW r \in Sema, NEW t \in Thread, Counted(s),
         cpu = "thread", cur = t, SemaTake(t, r),
         pc[t] = "sema_down" => wait_sema[t] = r
  PROVE  Counted(s)'
  <1>type. TypeOK /\ OneRunning
    BY DEF IInv
  <1>1. /\ value[r] > 0 /\ value' = [value EXCEPT ![r] = @ - 1]
        /\ pc' = [pc EXCEPT ![t] = "run"] /\ wait_sema' = [wait_sema EXCEPT ![t] = NULL]
        /\ waiters' = waiters /\ status' = status
    BY DEF SemaTake, schedVars
  <1>2. value[s] \in Nat /\ waiters'[s] = waiters[s]
    BY <1>type, <1>1, ThreadsAssumption DEF TypeOK
  <1>3. \A u \in Woken(s) : u # t => Waits(u, s)
    BY <1>type, <1>1 DEF Woken, Waits, TypeOK
  <1>4. CASE s # r
    <2>1. value'[s] = value[s]
      BY <1>type, <1>1, <1>4 DEF TypeOK
    <2>2. t \notin Woken(s)
      BY <1>4 DEF Woken
    <2> QED BY <1>type, <1>2, <1>3, <2>1, <2>2, CountKept
  <1>5. CASE s = r
    <2>1. value'[s] = value[s] - 1 /\ value[s] > 0
      BY <1>type, <1>1, <1>5 DEF TypeOK
    <2>2. Woken(s) \ {t} \subseteq Woken(s)'
      BY <1>3 DEF Woken, Waits
    <2>3. /\ IsFiniteSet(Woken(s) \ {t})
          /\ Cardinality(Woken(s) \ {t}) \in {Cardinality(Woken(s)), Cardinality(Woken(s)) - 1}
      BY WokenIsFinite, FS_RemoveElement
    <2>4. Cardinality(Woken(s) \ {t}) <= Cardinality(Woken(s)')
      BY <2>2, WokenIsFinite, FS_Subset
    <2> QED BY <1>2, <2>1, <2>3, <2>4, WokenIsFinite DEF Counted
  <1> QED BY <1>4, <1>5

\* sema_down() goes to sleep only when no unit is left.
LEMMA CountBlock ==
  ASSUME IInv, NEW s \in Sema, NEW r \in Sema, NEW t \in Thread, Counted(s),
         cur = t, SemaBlock(t, r),
         pc[t] = "sema_down" => wait_sema[t] = r
  PROVE  Counted(s)'
  <1>type. TypeOK
    BY DEF IInv
  <1>1. /\ value[r] = 0 /\ value' = value /\ waiters' = [waiters EXCEPT ![r] = Append(@, t)]
        /\ pc' = [pc EXCEPT ![t] = "sema_down"] /\ wait_sema' = [wait_sema EXCEPT ![t] = r]
        /\ status' = [status EXCEPT ![t] = "THREAD_BLOCKED"]
    BY DEF SemaBlock, PushWaiter, schedule
  <1>2. CASE s = r
    BY <1>1, <1>2, WokenIsFinite DEF Counted
  <1>3. CASE s # r
    <2>1. waiters'[s] = waiters[s] /\ value[s] \in Nat
      BY <1>type, <1>1, <1>3, ThreadsAssumption DEF TypeOK
    <2>2. t \notin Woken(s)
      BY <1>3 DEF Woken
    <2>3. \A u \in Woken(s) : Waits(u, s)
      BY <1>type, <1>1, <2>2 DEF Woken, Waits, TypeOK
    <2> QED BY <1>type, <1>1, <2>1, <2>3, CountKept
  <1> QED BY <1>2, <1>3

LEMMA CountStep ==
  ASSUME IInv, [Next]_vars, NEW s \in Sema, Counted(s)
  PROVE  Counted(s)'
  <1>type. TypeOK /\ DeadState /\ value[s] \in Nat
    BY ThreadsAssumption DEF IInv, TypeOK
  <1>kept. ASSUME value' = value, waiters' = waiters, wait_sema' = wait_sema,
                  \A t \in Thread : pc[t] = "sema_down" =>
                    pc'[t] = "sema_down" /\ (status'[t] = "THREAD_BLOCKED" => status[t] = "THREAD_BLOCKED")
           PROVE  Counted(s)'
    <2>1. \A t \in Woken(s) : Waits(t, s)
      BY <1>kept DEF Woken, Waits
    <2> QED BY <1>type, <1>kept, <2>1, CountKept
  <1>sched. ASSUME NEW st \in {"THREAD_READY", "THREAD_DYING"}, NEW ready, schedule(st, ready)
            PROVE  \A t \in Thread : status'[t] = "THREAD_BLOCKED" => status[t] = "THREAD_BLOCKED"
    BY <1>type, <1>sched DEF schedule, TypeOK
  <1>1. ASSUME NEW t \in Thread, ThreadStep(t)
        PROVE  Counted(s)'
    <2>1. CASE thread_yield(t)
      BY <1>kept, <1>sched, <2>1 DEF thread_yield, progVars, semaVars
    <2>2. CASE thread_exit(t)
      BY <1>kept, <1>sched, <2>2 DEF thread_exit, progVars, semaVars
    <2>3. CASE CreateUnblock(t)
      BY <1>type, <1>kept, <2>3 DEF CreateUnblock, Running, thread_unblock, semaVars, TypeOK
    <2>4. CASE IdleInit(t)
      BY <1>type, <1>kept, <2>4 DEF IdleInit, Running, schedVars, semaVars, TypeOK
    <2>5. CASE IdleUp(t)
      <3>1. \A u \in Thread : pc[u] = "sema_down" => pc'[u] = "sema_down"
        BY <1>type, <2>5 DEF IdleUp, Running, TypeOK
      <3> QED BY <2>5, <3>1, CountUp, ThreadsAssumption DEF IdleUp
    <2>6. CASE IdleBlock(t)
      BY <1>type, <1>kept, <2>6 DEF IdleBlock, Running, schedule, semaVars, TypeOK
    <2>7. ASSUME NEW new \in Thread, thread_create(t, new)
          PROVE  Counted(s)'
      <3>1. pc[new] = "run" /\ pc[t] = "run"
        BY <1>type, <2>7 DEF thread_create, Running, DeadState
      <3> QED BY <1>type, <1>kept, <2>7, <3>1 DEF thread_create, semaVars, TypeOK
    <2>8. ASSUME NEW r \in Sema, sema_down(t, r)
          PROVE  Counted(s)'
      <3>1. cpu = "thread" /\ cur = t /\ (pc[t] = "sema_down" => wait_sema[t] = r)
        BY <2>8 DEF sema_down, Running
      <3> QED BY <2>8, <3>1, CountTake, CountBlock DEF sema_down
    <2>9. ASSUME NEW r \in Sema, SemaUp(t, r)
          PROVE  Counted(s)'
      BY <2>9, CountUp DEF SemaUp, progVars
    <2>10. ASSUME NEW r \in Sema, sema_try_down(t, r)
           PROVE  Counted(s)'
      <3>1. /\ value' = [value EXCEPT ![r] = @ - 1] /\ value[r] > 0
            /\ UNCHANGED <<waiters, status, pc, wait_sema>>
        BY <2>10 DEF sema_try_down, schedVars, progVars
      <3>2. value'[s] \in Nat /\ value'[s] <= value[s]
        BY <1>type, <3>1, ThreadsAssumption DEF TypeOK
      <3>3. \A u \in Woken(s) : Waits(u, s)
        BY <3>1 DEF Woken, Waits
      <3> QED BY <1>type, <3>1, <3>2, <3>3, CountKept
    <2> QED BY <1>1, <2>1, <2>2, <2>3, <2>4, <2>5, <2>6, <2>7, <2>8, <2>9, <2>10 DEF ThreadStep
  <1>2. ASSUME NEW t \in Thread, thread_start(t)
        PROVE  Counted(s)'
    <2>1. pc[t] = "run" /\ pc[initial_thread] = "boot"
      BY <1>type, <1>2 DEF thread_start, DeadState
    <2> QED BY <1>type, <1>kept, <1>2, <2>1 DEF thread_start, semaVars, TypeOK
  <1>3. CASE thread_switch_tail
    <2>1. \A t \in Thread : status'[t] = "THREAD_BLOCKED" => status[t] = "THREAD_BLOCKED"
      BY <1>3 DEF thread_switch_tail, SwitchedStatus
    <2> QED BY <1>kept, <1>3, <2>1 DEF thread_switch_tail, progVars, semaVars
  <1>hlt. WakeHlt => \A t \in Thread : pc[t] = "sema_down" => pc'[t] = "sema_down"
    BY <1>type DEF WakeHlt, TypeOK
  <1>4. CASE thread_tick
    <2>1. \A t \in Thread : status'[t] = "THREAD_BLOCKED" => status[t] = "THREAD_BLOCKED"
      BY <1>sched, <1>4 DEF thread_tick, schedVars
    <2> QED BY <1>kept, <1>hlt, <1>4, <2>1 DEF thread_tick, semaVars
  <1>5. ASSUME NEW r \in Sema, device_interrupt(r)
        PROVE  Counted(s)'
    BY <1>hlt, <1>5, CountUp DEF device_interrupt
  <1>6. CASE UNCHANGED vars
    BY <1>kept, <1>6 DEF vars, schedVars, semaVars, progVars
  <1> QED BY <1>1, <1>2, <1>3, <1>4, <1>5, <1>6 DEF Next

\* sema_up() loses no wakeup: while threads sleep on a semaphore, each unit of
\* its value has a woken thread that will look at it, although between the
\* wakeup and its sema_down() others can take the unit or it can queue again.
THEOREM WakeupsAreNotLost == Spec => []NoLostWakeup
  <1>1. Init => NoLostWakeup
    BY DEF Init, thread_init, NoLostWakeup
  <1>2. IInv /\ NoLostWakeup /\ [Next]_vars => NoLostWakeup'
    <2> SUFFICES ASSUME IInv, NoLostWakeup, [Next]_vars, NEW s \in Sema
                 PROVE  Counted(s)'
      BY DEF NoLostWakeup, Counted
    <2>1. Counted(s)
      BY DEF NoLostWakeup, Counted
    <2> QED BY <2>1, CountStep
  <1> QED BY <1>1, <1>2, Invariance, PTL DEF Spec
-----------------------------------------------------------------------------
(***************************************************************************)
(* Interrupts, of any number of processes, on any lines, with sections     *)
(* nested to any depth.                                                    *)
(*                                                                         *)
(* The invariant: on each stack, every item restores the flag of the one   *)
(* below it, and above an item that has interrupts off there are only      *)
(* sections.  So a device's frame that is not acknowledged is alone on its *)
(* stack with sections above, only the running thread has one, and the     *)
(* controllers have in service what this frame came from, or nothing.      *)
(***************************************************************************)
INTR == {"INTR_ON", "INTR_OFF"}
VecNo == {Cpu!PageFault, Cpu!Protection, Cpu!SystemCall} \union 32 .. 47
FramePc == {"enter", "handler", "leave", "iret", "enable", "kill"}
UserItem == [kind : {"user"}]
SectionItem == [kind : {"section"}, old : INTR]
FrameItem == [kind : {"frame"}, vec_no : VecNo, eflags : INTR, pc : FramePc,
              fault_addr : Process \union {NOBODY}]
Item == UserItem \union SectionItem \union FrameItem

\* The flag while an item is the innermost one.
Level(x) ==
  IF \/ x.kind = "section"
     \/ x.kind = "frame" /\ Cpu!external(x.vec_no)
     \/ x.kind = "frame" /\ x.vec_no = Cpu!PageFault /\ x.pc # "kill"
  THEN "INTR_OFF" ELSE "INTR_ON"

\* The flag that the end of an item restores.
Saved(x) == IF x.kind = "section" THEN x.old ELSE x.eflags

\* A frame of a device's interrupt, or of a page fault, where something can be
\* entered on top of it.
MayBeCovered(x) ==
  x.kind = "frame" =>
    /\ Cpu!external(x.vec_no) => x.pc \in {"handler", "iret"}
    /\ x.vec_no = Cpu!PageFault => x.pc = "kill"

\* User code is at the bottom and nowhere else.
Outermost(s) == \A i \in 1 .. Len(s) : s[i].kind = "user" <=> i = 1

\* Every item restores the flag of what it came upon.
Restores(s) == \A i \in 2 .. Len(s) : Saved(s[i]) = Level(s[i - 1])

\* Above an item with interrupts off there are only sections.
Masked(s) ==
  \A i, j \in 1 .. Len(s) : i < j /\ Level(s[i]) = "INTR_OFF" => s[j].kind = "section"

Covers(s) == \A i \in 1 .. Len(s) - 1 : MayBeCovered(s[i])

Nested(s) ==
  /\ s \in Seq(Item) /\ Len(s) > 0
  /\ Outermost(s) /\ Restores(s) /\ Masked(s) /\ Covers(s)

\* A device's frame that has not been acknowledged, and one whose handler runs.
InService(x) == x.kind = "frame" /\ Cpu!external(x.vec_no) /\ x.pc \in {"enter", "handler", "leave"}
Handling(x) == x.kind = "frame" /\ Cpu!external(x.vec_no) /\ x.pc \in {"handler", "leave"}

IntrTypeOK ==
  /\ intr_cur \in Process
  /\ flag \in INTR
  /\ DOMAIN stack = Process
  /\ in_external_intr \in BOOLEAN /\ yield_on_return \in BOOLEAN
  /\ isr0 \subseteq 0 .. 15 /\ isr1 \subseteq 0 .. 15
  /\ cr2 \in Process \union {NOBODY}

\* Whoever does not run is in a section, and the CPU's flag is that of the
\* innermost item of the one that does.
Stacks ==
  /\ \A t \in Process : Nested(stack[t])
  /\ \A t \in Process \ {intr_cur} : stack[t][Len(stack[t])].kind = "section"
  /\ flag = Level(stack[intr_cur][Len(stack[intr_cur])])

\* Only the running thread can have a frame that waits for its acknowledgement;
\* the lines in service are those of that frame.
Acknowledgement ==
  /\ in_external_intr <=> \E i \in 1 .. Len(stack[intr_cur]) : Handling(stack[intr_cur][i])
  /\ \A t \in Process \ {intr_cur} : \A i \in 1 .. Len(stack[t]) : ~ InService(stack[t][i])
  /\ \A i \in 1 .. Len(stack[intr_cur]) :
       InService(stack[intr_cur][i]) =>
         /\ isr0 \subseteq {Cpu!Master(stack[intr_cur][i].vec_no - 32)}
         /\ isr1 \subseteq {stack[intr_cur][i].vec_no - 32}
         /\ stack[intr_cur][i].vec_no < 40 => isr1 = {}
  /\ (\A i \in 1 .. Len(stack[intr_cur]) : ~ InService(stack[intr_cur][i])) =>
       isr0 = {} /\ isr1 = {}

\* CR2 has the address of a fault of this thread that has not been read.
Addresses ==
  /\ Cpu!FaultsKeepTheirAddress
  /\ \A i \in 1 .. Len(stack[intr_cur]) :
       /\ stack[intr_cur][i].kind = "frame" /\ stack[intr_cur][i].vec_no = Cpu!PageFault
       /\ stack[intr_cur][i].pc \in {"enter", "handler"}
       => cr2 = intr_cur

IntrIInv == IntrTypeOK /\ Stacks /\ Acknowledgement /\ Addresses

-----------------------------------------------------------------------------
\* What an item's kind says of its fields.
LEMMA ItemFacts ==
  ASSUME NEW x \in Item
  PROVE  /\ x.kind \in {"user", "section", "frame"}
         /\ x.kind = "section" => x \in SectionItem
         /\ x.kind = "frame" => x \in FrameItem
         /\ Level(x) \in INTR
         /\ x.kind # "user" => Saved(x) \in INTR
  <1>1. CASE x \in UserItem
    BY <1>1 DEF UserItem, Level, Saved, INTR
  <1>2. CASE x \in SectionItem
    BY <1>2 DEF SectionItem, Level, Saved, INTR
  <1>3. CASE x \in FrameItem
    BY <1>3 DEF FrameItem, Level, Saved, INTR
  <1> QED BY <1>1, <1>2, <1>3 DEF Item

\* GoTo() changes nothing of a frame but where its handling is.
LEMMA FrameAt ==
  ASSUME NEW x \in FrameItem, NEW p \in FramePc
  PROVE  LET y == [x EXCEPT !.pc = p]
         IN /\ y \in FrameItem
            /\ y.kind = "frame" /\ y.vec_no = x.vec_no /\ y.eflags = x.eflags
            /\ y.fault_addr = x.fault_addr /\ y.pc = p
  BY DEF FrameItem

\* A new innermost item: a section goes on anything, an interrupt only on what
\* has interrupts on.
LEMMA PushNested ==
  ASSUME NEW s, Nested(s), NEW x \in Item, x.kind # "user",
         Saved(x) = Level(s[Len(s)]),
         x.kind = "section" \/ Level(s[Len(s)]) = "INTR_ON",
         MayBeCovered(s[Len(s)])
  PROVE  Nested(Append(s, x))
  <1> DEFINE n == Len(s)
             u == Append(s, x)
  <1>1. /\ u \in Seq(Item) /\ Len(u) = n + 1 /\ n \in Nat \ {0}
        /\ u[n + 1] = x /\ \A i \in 1 .. n : u[i] = s[i] /\ s[i] \in Item
    BY DEF Nested
  <1>2. Outermost(u)
    BY <1>1 DEF Nested, Outermost
  <1>3. Restores(u)
    BY <1>1 DEF Nested, Restores
  <1>4. Masked(u)
    <2> SUFFICES ASSUME NEW i \in 1 .. n + 1, NEW j \in 1 .. n + 1,
                        i < j, Level(u[i]) = "INTR_OFF"
                 PROVE  u[j].kind = "section"
      BY <1>1 DEF Masked
    <2>1. CASE j <= n
      BY <1>1, <2>1 DEF Nested, Masked
    <2>2. CASE j = n + 1 /\ x.kind # "section"
      <3>1. i # n
        BY <1>1, <2>2
      <3>2. i \in 1 .. n /\ n \in 1 .. n /\ i < n /\ Level(s[i]) = "INTR_OFF"
        BY <1>1, <2>2, <3>1
      <3>3. s[n].kind = "section"
        BY <3>2 DEF Nested, Masked
      <3> QED BY <2>2, <3>3 DEF Level
    <2> QED BY <1>1, <2>1, <2>2
  <1>5. Covers(u)
    BY <1>1 DEF Nested, Covers
  <1> QED BY <1>1, <1>2, <1>3, <1>4, <1>5 DEF Nested

\* The end of the innermost item.
LEMMA PopNested ==
  ASSUME NEW s, Nested(s), s[Len(s)].kind # "user"
  PROVE  /\ Nested(Cpu!Front(s)) /\ Len(Cpu!Front(s)) = Len(s) - 1 /\ Len(s) > 1
         /\ \A i \in 1 .. Len(s) - 1 : Cpu!Front(s)[i] = s[i]
         /\ Saved(s[Len(s)]) = Level(s[Len(s) - 1])
  <1> DEFINE n == Len(s)
             u == Cpu!Front(s)
  <1>1. n \in Nat /\ n > 1
    BY DEF Nested, Outermost
  <1>2. /\ u \in Seq(Item) /\ Len(u) = n - 1
        /\ \A i \in 1 .. n - 1 : u[i] = s[i] /\ s[i] \in Item
    BY <1>1 DEF Nested, Cpu!Front
  <1>3. Outermost(u)
    BY <1>1, <1>2 DEF Nested, Outermost
  <1>4. Restores(u)
    BY <1>1, <1>2 DEF Nested, Restores
  <1>5. Masked(u)
    BY <1>1, <1>2 DEF Nested, Masked
  <1>6. Covers(u)
    BY <1>1, <1>2 DEF Nested, Covers
  <1>7. Saved(s[n]) = Level(s[n - 1])
    BY <1>1 DEF Nested, Restores
  <1> QED BY <1>1, <1>2, <1>3, <1>4, <1>5, <1>6, <1>7 DEF Nested

\* The innermost frame moves on in its handler.
LEMMA TopNested ==
  ASSUME NEW s, Nested(s), s[Len(s)].kind = "frame",
         NEW x \in FrameItem, Saved(x) = Saved(s[Len(s)])
  PROVE  /\ Nested(Append(Cpu!Front(s), x)) /\ Len(Append(Cpu!Front(s), x)) = Len(s) /\ Len(s) > 1
         /\ \A i \in 1 .. Len(s) - 1 : Append(Cpu!Front(s), x)[i] = s[i]
         /\ Append(Cpu!Front(s), x)[Len(s)] = x
  <1> DEFINE n == Len(s)
             u == Append(Cpu!Front(s), x)
  <1>1. n \in Nat /\ n > 1
    BY DEF Nested, Outermost
  <1>2. /\ u \in Seq(Item) /\ Len(u) = n /\ u[n] = x /\ x.kind = "frame"
        /\ \A i \in 1 .. n - 1 : u[i] = s[i] /\ s[i] \in Item
    BY <1>1 DEF Nested, Cpu!Front, Item, FrameItem
  <1>3. Outermost(u)
    BY <1>1, <1>2 DEF Nested, Outermost
  <1>4. Restores(u)
    BY <1>1, <1>2 DEF Nested, Restores
  <1>5. Masked(u)
    <2> SUFFICES ASSUME NEW i \in 1 .. n, NEW j \in 1 .. n, i < j, Level(u[i]) = "INTR_OFF"
                 PROVE  u[j].kind = "section"
      BY <1>2 DEF Masked
    <2>1. Level(s[i]) = "INTR_OFF"
      BY <1>1, <1>2
    <2>2. s[j].kind = "section"
      BY <2>1 DEF Nested, Masked
    <2> QED BY <1>1, <1>2, <2>2
  <1>6. Covers(u)
    BY <1>1, <1>2 DEF Nested, Covers
  <1> QED BY <1>1, <1>2, <1>3, <1>4, <1>5, <1>6 DEF Nested

-----------------------------------------------------------------------------
(***************************************************************************)
(* What the invariant says of the thread that runs.                        *)
(***************************************************************************)
Depth == Len(stack[intr_cur])

\* The innermost item.
LEMMA TopFacts ==
  ASSUME IntrIInv
  PROVE  /\ Depth \in Nat \ {0} /\ Cpu!Top = stack[intr_cur][Depth] /\ Cpu!Top \in Item
         /\ \A i \in 1 .. Depth : stack[intr_cur][i] \in Item
         /\ flag = Level(Cpu!Top) /\ Nested(stack[intr_cur])
  BY DEF IntrIInv, IntrTypeOK, Stacks, Nested, Cpu!Top, Cpu!Last, Depth

\* Below the innermost frame nothing has interrupts off, so no device's
\* interrupt is handled there.
LEMMA FrameIsAlone ==
  ASSUME IntrIInv, Cpu!Top.kind # "section"
  PROVE  \A i \in 1 .. Depth - 1 :
           /\ Level(stack[intr_cur][i]) = "INTR_ON"
           /\ ~ InService(stack[intr_cur][i]) /\ ~ Handling(stack[intr_cur][i])
  <1> TAKE i \in 1 .. Depth - 1
  <1>1. Level(stack[intr_cur][i]) = "INTR_ON"
    <2>1. i \in 1 .. Depth /\ Depth \in 1 .. Depth /\ i < Depth /\ Masked(stack[intr_cur])
      BY TopFacts DEF Nested
    <2>2. Level(stack[intr_cur][i]) # "INTR_OFF"
      BY <2>1, TopFacts DEF Masked, Depth
    <2>3. Level(stack[intr_cur][i]) \in INTR
      BY <2>1, TopFacts, ItemFacts, Zenon
    <2> QED BY <2>2, <2>3 DEF INTR
  <1> QED BY <1>1 DEF Level, InService, Handling

\* With interrupts on, the controllers and intr_handler() are done with
\* whatever they were given.
LEMMA OnIsClear ==
  ASSUME IntrIInv, flag = "INTR_ON"
  PROVE  /\ \A i \in 1 .. Depth : ~ InService(stack[intr_cur][i]) /\ ~ Handling(stack[intr_cur][i])
         /\ in_external_intr = FALSE /\ isr0 = {} /\ isr1 = {}
         /\ Cpu!Top.kind # "section"
  <1>1. Cpu!Top.kind # "section" /\ ~ InService(Cpu!Top) /\ ~ Handling(Cpu!Top)
    BY TopFacts DEF Level, InService, Handling
  <1>2. \A i \in 1 .. Depth : ~ InService(stack[intr_cur][i]) /\ ~ Handling(stack[intr_cur][i])
    <2> TAKE i \in 1 .. Depth
    <2>1. i \in 1 .. Depth - 1 \/ i = Depth
      BY TopFacts
    <2> QED BY <1>1, <2>1, FrameIsAlone, TopFacts
  <1> QED BY <1>1, <1>2 DEF IntrIInv, Acknowledgement, IntrTypeOK, Depth

\* A thread in a section with interrupts off, outside of a device's handler, has
\* nothing that waits for its acknowledgement.
LEMMA SwitchIsClear ==
  ASSUME IntrIInv, ~ in_external_intr, Cpu!Top.kind = "section"
  PROVE  /\ \A i \in 1 .. Depth : ~ InService(stack[intr_cur][i])
         /\ isr0 = {} /\ isr1 = {}
  <1>1. \A i \in 1 .. Depth : ~ InService(stack[intr_cur][i])
    <2> SUFFICES ASSUME NEW i \in 1 .. Depth, InService(stack[intr_cur][i]) PROVE FALSE
      OBVIOUS
    <2>1. ~ Handling(stack[intr_cur][i])
      BY DEF IntrIInv, Acknowledgement, Depth
    <2>2. stack[intr_cur][i].pc = "enter" /\ i # Depth
      BY <2>1, TopFacts DEF InService, Handling
    <2>3. i \in 1 .. Depth - 1
      BY <2>2, TopFacts
    <2>4. MayBeCovered(stack[intr_cur][i])
      BY <2>3, TopFacts DEF Nested, Covers, Depth
    <2> QED BY <2>2, <2>4 DEF MayBeCovered, InService
  <1> QED BY <1>1 DEF IntrIInv, Acknowledgement, Depth
-----------------------------------------------------------------------------
(***************************************************************************)
(* The three ways a step changes the stack of the thread that runs.        *)
(***************************************************************************)
SameOthers == DOMAIN stack' = Process /\ \A t \in Process \ {intr_cur} : stack'[t] = stack[t]
SameUpTo(n) == \A i \in 1 .. n : stack'[intr_cur][i] = stack[intr_cur][i]

\* Only the stack of the thread that runs changes: Stacks, Acknowledgement and
\* Addresses of the others stay.
LEMMA StacksOfOthers ==
  ASSUME IntrIInv, intr_cur' = intr_cur, SameOthers,
         NEW s, stack'[intr_cur] = s, Nested(s), flag' = Level(s[Len(s)])
  PROVE  Stacks'
  <1>1. \A t \in Process : Nested(stack'[t])
    BY DEF IntrIInv, Stacks, SameOthers
  <1>2. \A t \in Process \ {intr_cur} : stack'[t][Len(stack'[t])].kind = "section"
    BY DEF IntrIInv, Stacks, SameOthers
  <1> QED BY <1>1, <1>2 DEF Stacks

LEMMA PushStacks ==
  ASSUME IntrIInv, NEW x \in Item, x.kind # "user", Saved(x) = flag,
         x.kind = "section" \/ flag = "INTR_ON", MayBeCovered(Cpu!Top),
         stack' = Cpu!Push(x), intr_cur' = intr_cur, flag' = Level(x)
  PROVE  /\ Stacks' /\ SameOthers /\ SameUpTo(Depth)
         /\ Len(stack'[intr_cur]) = Depth + 1 /\ stack'[intr_cur][Depth + 1] = x
  <1>1. /\ SameOthers /\ SameUpTo(Depth) /\ stack'[intr_cur] = Append(stack[intr_cur], x)
        /\ Len(stack'[intr_cur]) = Depth + 1 /\ stack'[intr_cur][Depth + 1] = x
    BY TopFacts DEF IntrIInv, IntrTypeOK, Cpu!Push, SameOthers, SameUpTo, Depth, Nested
  <1>2. Nested(Append(stack[intr_cur], x))
    <2>1. Level(stack[intr_cur][Len(stack[intr_cur])]) = flag /\ MayBeCovered(stack[intr_cur][Len(stack[intr_cur])])
      BY TopFacts DEF Depth
    <2> QED BY <2>1, TopFacts, PushNested
  <1> QED BY <1>1, <1>2, StacksOfOthers

LEMMA PopStacks ==
  ASSUME IntrIInv, Cpu!Top.kind # "user", stack' = Cpu!Pop, intr_cur' = intr_cur, flag' = Saved(Cpu!Top)
  PROVE  /\ Stacks' /\ SameOthers /\ SameUpTo(Depth - 1)
         /\ Len(stack'[intr_cur]) = Depth - 1
  <1>1. SameOthers /\ stack'[intr_cur] = Cpu!Front(stack[intr_cur])
    BY DEF IntrIInv, IntrTypeOK, Cpu!Pop, SameOthers
  <1>2. /\ Nested(Cpu!Front(stack[intr_cur])) /\ Len(Cpu!Front(stack[intr_cur])) = Depth - 1 /\ Depth > 1
        /\ \A i \in 1 .. Depth - 1 : Cpu!Front(stack[intr_cur])[i] = stack[intr_cur][i]
        /\ Saved(Cpu!Top) = Level(stack[intr_cur][Depth - 1])
    BY TopFacts, PopNested DEF Depth
  <1>3. flag' = Level(Cpu!Front(stack[intr_cur])[Len(Cpu!Front(stack[intr_cur]))])
    BY <1>2, TopFacts
  <1>4. Stacks'
    BY <1>1, <1>2, <1>3, StacksOfOthers
  <1> QED BY <1>1, <1>2, <1>4 DEF SameUpTo

LEMMA TopStacks ==
  ASSUME IntrIInv, Cpu!Top.kind = "frame", NEW x \in FrameItem, Saved(x) = Saved(Cpu!Top),
         stack' = [stack EXCEPT ![intr_cur] = Append(Cpu!Front(@), x)], intr_cur' = intr_cur, flag' = Level(x)
  PROVE  /\ Stacks' /\ SameOthers /\ SameUpTo(Depth - 1)
         /\ Len(stack'[intr_cur]) = Depth /\ stack'[intr_cur][Depth] = x
  <1>1. SameOthers /\ stack'[intr_cur] = Append(Cpu!Front(stack[intr_cur]), x)
    BY DEF IntrIInv, IntrTypeOK, SameOthers
  <1> DEFINE u == Append(Cpu!Front(stack[intr_cur]), x)
  <1>2. /\ Nested(u) /\ Len(u) = Depth
        /\ \A i \in 1 .. Depth - 1 : u[i] = stack[intr_cur][i]
        /\ u[Depth] = x
    BY TopFacts, TopNested DEF Depth
  <1>3. Stacks'
    BY <1>1, <1>2, StacksOfOthers
  <1> QED BY <1>1, <1>2, <1>3 DEF SameUpTo

-----------------------------------------------------------------------------
(***************************************************************************)
(* Items that do not wait for an acknowledgement come and go freely, and   *)
(* frames keep their addresses.                                            *)
(***************************************************************************)
LEMMA QuietStep ==
  ASSUME IntrIInv, intr_cur' = intr_cur, SameOthers, NEW m \in Nat, SameUpTo(m),
         m <= Depth, Len(stack'[intr_cur]) \in Nat, m <= Len(stack'[intr_cur]),
         \A i \in m + 1 .. Depth : ~ InService(stack[intr_cur][i]),
         \A i \in m + 1 .. Len(stack'[intr_cur]) : ~ InService(stack'[intr_cur][i]),
         in_external_intr' = in_external_intr, isr0' = isr0, isr1' = isr1
  PROVE  Acknowledgement'
  <1>0. Depth \in Nat
    BY TopFacts
  <1>1. \A x : Handling(x) => InService(x)
    BY DEF Handling, InService
  <1>2. \A i \in 1 .. Depth : InService(stack[intr_cur][i]) => i \in 1 .. m
    BY <1>0
  <1>3. \A i \in 1 .. Len(stack'[intr_cur]) : InService(stack'[intr_cur][i]) => i \in 1 .. m
    OBVIOUS
  <1>4. \A i \in 1 .. m : i \in 1 .. Depth /\ i \in 1 .. Len(stack'[intr_cur])
                          /\ stack'[intr_cur][i] = stack[intr_cur][i]
    BY <1>0 DEF SameUpTo
  <1>5. (\E i \in 1 .. Len(stack'[intr_cur]) : Handling(stack'[intr_cur][i]))
        <=> \E i \in 1 .. Depth : Handling(stack[intr_cur][i])
    BY <1>1, <1>2, <1>3, <1>4
  <1>6. \A t \in Process \ {intr_cur} : \A i \in 1 .. Len(stack'[t]) : ~ InService(stack'[t][i])
    BY DEF SameOthers, IntrIInv, Acknowledgement
  <1>7. \A i \in 1 .. Len(stack'[intr_cur]) :
          InService(stack'[intr_cur][i]) =>
            /\ isr0 \subseteq {Cpu!Master(stack'[intr_cur][i].vec_no - 32)}
            /\ isr1 \subseteq {stack'[intr_cur][i].vec_no - 32}
            /\ stack'[intr_cur][i].vec_no < 40 => isr1 = {}
    BY <1>3, <1>4 DEF IntrIInv, Acknowledgement, Depth
  <1>8. (\A i \in 1 .. Len(stack'[intr_cur]) : ~ InService(stack'[intr_cur][i])) => isr0 = {} /\ isr1 = {}
    BY <1>2, <1>4 DEF IntrIInv, Acknowledgement, Depth
  <1>9. in_external_intr' <=> \E i \in 1 .. Len(stack'[intr_cur]) : Handling(stack'[intr_cur][i])
    BY <1>5 DEF IntrIInv, Acknowledgement, Depth
  <1> QED BY <1>6, <1>7, <1>8, <1>9 DEF Acknowledgement

\* A frame of a page fault whose address has not been read yet.
Unread(x) == x.kind = "frame" /\ x.vec_no = Cpu!PageFault /\ x.pc \in {"enter", "handler"}

LEMMA AddressStep ==
  ASSUME IntrIInv, intr_cur' = intr_cur, SameOthers, NEW m \in Nat, SameUpTo(m), m <= Depth,
         stack'[intr_cur] \in Seq(Item),
         \A i \in m + 1 .. Len(stack'[intr_cur]) :
           /\ stack'[intr_cur][i].kind = "frame" => stack'[intr_cur][i].fault_addr \in {NOBODY, intr_cur}
           /\ Unread(stack'[intr_cur][i]) => cr2' = intr_cur,
         cr2' = cr2 \/ cr2' = intr_cur
  PROVE  Addresses'
  <1>1. \A i \in 1 .. m : i \in 1 .. Depth /\ stack'[intr_cur][i] = stack[intr_cur][i]
    BY TopFacts DEF SameUpTo
  <1>2. \A t \in Process : \A i \in DOMAIN stack'[t] :
          stack'[t][i].kind = "frame" => stack'[t][i].fault_addr \in {NOBODY, t}
    <2> TAKE t \in Process
    <2>1. CASE t # intr_cur
      BY <2>1 DEF SameOthers, IntrIInv, Addresses, Cpu!FaultsKeepTheirAddress
    <2>2. CASE t = intr_cur
      <3> TAKE i \in DOMAIN stack'[t]
      <3>1. i \in 1 .. m \/ i \in m + 1 .. Len(stack'[intr_cur])
        BY <2>2
      <3>2. CASE i \in 1 .. m
        <4>1. i \in DOMAIN stack[intr_cur]
          BY <1>1, <3>2, TopFacts DEF Nested, Depth
        <4> QED BY <1>1, <2>2, <3>2, <4>1 DEF IntrIInv, IntrTypeOK, Addresses, Cpu!FaultsKeepTheirAddress
      <3> QED BY <2>2, <3>1, <3>2
    <2> QED BY <2>1, <2>2
  <1>3. \A i \in 1 .. Len(stack'[intr_cur]) : Unread(stack'[intr_cur][i]) => cr2' = intr_cur
    <2> TAKE i \in 1 .. Len(stack'[intr_cur])
    <2>1. CASE i \in 1 .. m
      BY <1>1, <2>1 DEF IntrIInv, Addresses, Unread, Depth
    <2> QED BY <2>1
  <1> QED BY <1>2, <1>3 DEF Addresses, Cpu!FaultsKeepTheirAddress, Unread
-----------------------------------------------------------------------------
(***************************************************************************)
(* Interrupts arrive.                                                      *)
(***************************************************************************)
\* The frame that an interrupt or an exception pushes.
LEMMA FrameFacts ==
  ASSUME IntrIInv, NEW v \in VecNo
  PROVE  /\ Cpu!Frame(v) \in Item /\ Cpu!Frame(v) \in FrameItem
         /\ Cpu!Frame(v).kind = "frame" /\ Cpu!Frame(v).vec_no = v
         /\ Cpu!Frame(v).pc = "enter" /\ Cpu!Frame(v).fault_addr = NOBODY
         /\ Saved(Cpu!Frame(v)) = flag
         /\ flag = "INTR_ON" => Cpu!LevelAtEntry(v) = Level(Cpu!Frame(v))
  <1>1. flag \in INTR
    BY DEF IntrIInv, IntrTypeOK
  <1>2. /\ Cpu!Frame(v) \in FrameItem
        /\ Cpu!Frame(v).kind = "frame" /\ Cpu!Frame(v).vec_no = v
        /\ Cpu!Frame(v).pc = "enter" /\ Cpu!Frame(v).fault_addr = NOBODY /\ Cpu!Frame(v).eflags = flag
    BY <1>1 DEF Cpu!Frame, FrameItem, FramePc
  <1>3. flag = "INTR_ON" => Cpu!LevelAtEntry(v) = Level(Cpu!Frame(v))
    BY <1>2 DEF Cpu!LevelAtEntry, Cpu!RegisteredOn, Level, Cpu!external, VecNo, Cpu!PageFault, Cpu!Protection, Cpu!SystemCall
  <1> QED BY <1>2, <1>3 DEF Item, Saved

\* A frame is pushed only with interrupts on, and then anything may be below.
LEMMA PushFrame ==
  ASSUME IntrIInv, flag = "INTR_ON", NEW v \in VecNo,
         stack' = Cpu!Push(Cpu!Frame(v)), intr_cur' = intr_cur, flag' = Cpu!LevelAtEntry(v)
  PROVE  /\ Stacks' /\ SameOthers /\ SameUpTo(Depth)
         /\ Len(stack'[intr_cur]) = Depth + 1 /\ stack'[intr_cur][Depth + 1] = Cpu!Frame(v)
         /\ stack'[intr_cur] \in Seq(Item) /\ flag' \in INTR
  <1>1. MayBeCovered(Cpu!Top)
    BY TopFacts DEF MayBeCovered, Level
  <1>2. /\ Stacks' /\ SameOthers /\ SameUpTo(Depth)
        /\ Len(stack'[intr_cur]) = Depth + 1 /\ stack'[intr_cur][Depth + 1] = Cpu!Frame(v)
    <2>1. /\ Cpu!Frame(v) \in Item /\ Cpu!Frame(v).kind # "user" /\ Saved(Cpu!Frame(v)) = flag
          /\ flag' = Level(Cpu!Frame(v))
      BY FrameFacts
    <2> QED BY <1>1, <2>1, PushStacks
  <1>3. stack'[intr_cur] \in Seq(Item)
    BY <1>2 DEF Stacks, Nested, IntrIInv, IntrTypeOK
  <1>4. flag' \in INTR
    BY FrameFacts, ItemFacts
  <1> QED BY <1>2, <1>3, <1>4

\* A device's interrupt, spurious or not, finds both controllers clear.
LEMMA IntrDeviceStep ==
  ASSUME IntrIInv, flag = "INTR_ON", NEW line \in 0 .. 15,
         flag' = Cpu!LevelAtEntry(Cpu!Vector(line)), stack' = Cpu!Push(Cpu!Frame(Cpu!Vector(line))),
         intr_cur' = intr_cur, UNCHANGED Cpu!extVars, cr2' = cr2,
         isr0' \subseteq {Cpu!Master(line)}, isr1' \subseteq {line}, line < 8 => isr1' = {}
  PROVE  IntrIInv'
  <1> DEFINE v == Cpu!Vector(line)
             d == Depth + 1
  <1>1. v \in VecNo /\ Cpu!external(v) /\ v # Cpu!PageFault /\ v - 32 = line
    BY DEF Cpu!Vector, VecNo, Cpu!external, Cpu!PageFault
  <1>2. /\ Stacks' /\ SameOthers /\ SameUpTo(Depth)
        /\ Len(stack'[intr_cur]) = d /\ stack'[intr_cur][d] = Cpu!Frame(v)
        /\ stack'[intr_cur] \in Seq(Item) /\ flag' \in INTR
    BY <1>1, PushFrame
  <1>3. /\ Cpu!Frame(v).kind = "frame" /\ Cpu!Frame(v).vec_no = v
        /\ Cpu!Frame(v).pc = "enter" /\ Cpu!Frame(v).fault_addr = NOBODY
    BY <1>1, FrameFacts
  <1>4. Depth \in Nat /\ \A i \in 1 .. d : i \in 1 .. Depth \/ i = d
    BY TopFacts
  <1>5. IntrTypeOK'
    BY <1>2 DEF IntrIInv, IntrTypeOK, Cpu!extVars, SameOthers, Cpu!Master
  <1>6. Addresses'
    <2>1. ~ Unread(stack'[intr_cur][d])
      BY <1>1, <1>2, <1>3 DEF Unread
    <2>2. \A i \in Depth + 1 .. Len(stack'[intr_cur]) : i = d
      BY <1>2, <1>4
    <2> QED BY <1>2, <1>3, <1>4, <2>1, <2>2, AddressStep
  <1>7. Acknowledgement'
    <2>1. \A i \in 1 .. Depth : ~ InService(stack'[intr_cur][i]) /\ ~ Handling(stack'[intr_cur][i])
      BY <1>2, OnIsClear DEF SameUpTo
    <2>2. InService(stack'[intr_cur][d]) /\ ~ Handling(stack'[intr_cur][d])
      BY <1>1, <1>2, <1>3 DEF InService, Handling
    <2>3. in_external_intr' = FALSE
      BY OnIsClear DEF Cpu!extVars
    <2>4. d \in 1 .. Len(stack'[intr_cur])
      BY <1>2, <1>4
    <2>5. ~ \E i \in 1 .. Len(stack'[intr_cur]) : Handling(stack'[intr_cur][i])
      BY <1>2, <1>4, <2>1, <2>2
    <2>6. \A t \in Process \ {intr_cur} : \A i \in 1 .. Len(stack'[t]) : ~ InService(stack'[t][i])
      BY <1>2 DEF SameOthers, IntrIInv, Acknowledgement
    <2>7. \A i \in 1 .. Len(stack'[intr_cur]) : InService(stack'[intr_cur][i]) => stack'[intr_cur][i].vec_no = v
      BY <1>2, <1>3, <1>4, <2>1
    <2>8. v < 40 => isr1' = {}
      BY DEF Cpu!Vector
    <2> QED BY <1>1, <2>2, <2>3, <2>4, <2>5, <2>6, <2>7, <2>8 DEF Acknowledgement
  <1> QED BY <1>2, <1>5, <1>6, <1>7 DEF IntrIInv

LEMMA DeliverStep ==
  ASSUME IntrIInv, \/ \E line \in Line : Cpu!Deliver(line)
               \/ Cpu!SpuriousMaster \/ Cpu!SpuriousSlave
  PROVE  IntrIInv'
  <1>1. ASSUME NEW line \in Line, Cpu!Deliver(line) PROVE IntrIInv'
    <2>1. line \in 0 .. 15 /\ flag = "INTR_ON"
      BY <1>1, InterruptAssumption DEF Cpu!Deliver, Cpu!Accept
    <2>2. /\ isr0' \subseteq {Cpu!Master(line)} /\ isr1' \subseteq {line}
          /\ line < 8 => isr1' = {}
      BY <1>1, <2>1, OnIsClear DEF Cpu!Deliver, Cpu!Accept
    <2> QED BY <1>1, <2>1, <2>2, IntrDeviceStep DEF Cpu!Deliver, Cpu!Accept
  <1>2. CASE Cpu!SpuriousMaster
    <2>1. 7 \in 0 .. 15 /\ flag = "INTR_ON"
      BY <1>2 DEF Cpu!SpuriousMaster
    <2>2. isr0' = {} /\ isr1' = {}
      BY <1>2, <2>1, OnIsClear DEF Cpu!SpuriousMaster, Cpu!picVars
    <2> QED BY <1>2, <2>1, <2>2, IntrDeviceStep DEF Cpu!SpuriousMaster
  <1>3. CASE Cpu!SpuriousSlave
    <2>1. 15 \in 0 .. 15 /\ flag = "INTR_ON" /\ ~ (15 < 8)
      BY <1>3 DEF Cpu!SpuriousSlave, Cpu!Accept
    <2>2. isr0' \subseteq {Cpu!Master(15)} /\ isr1' = {}
      BY <1>3, <2>1, OnIsClear DEF Cpu!SpuriousSlave, Cpu!Accept
    <2> QED BY <1>3, <2>1, <2>2, IntrDeviceStep DEF Cpu!SpuriousSlave, Cpu!Accept
  <1> QED BY <1>1, <1>2, <1>3

\* A system call, an exception or a page fault of user code.
LEMMA TrapStep ==
  ASSUME IntrIInv, Cpu!Fault \/ \E v \in Cpu!RegisteredOn : Cpu!Trap(v)
  PROVE  IntrIInv'
  <1>1. PICK v \in {Cpu!PageFault, Cpu!Protection, Cpu!SystemCall} :
          /\ Cpu!Top.kind = "user" /\ flag' = Cpu!LevelAtEntry(v) /\ stack' = Cpu!Push(Cpu!Frame(v))
          /\ intr_cur' = intr_cur /\ UNCHANGED <<Cpu!extVars, Cpu!picVars>>
          /\ cr2' = cr2 \/ cr2' = intr_cur
          /\ v = Cpu!PageFault => cr2' = intr_cur
    <2>1. CASE Cpu!Fault
      BY <2>1 DEF Cpu!Fault
    <2>2. CASE \E v \in Cpu!RegisteredOn : Cpu!Trap(v)
      BY <2>2 DEF Cpu!Trap, Cpu!RegisteredOn, Cpu!PageFault, Cpu!Protection, Cpu!SystemCall
    <2> QED BY <2>1, <2>2
  <1>2. v \in VecNo /\ flag = "INTR_ON" /\ ~ Cpu!external(v)
    BY <1>1, TopFacts DEF VecNo, Level, Cpu!external, Cpu!PageFault, Cpu!Protection, Cpu!SystemCall
  <1>3. /\ Stacks' /\ SameOthers /\ SameUpTo(Depth)
        /\ Len(stack'[intr_cur]) = Depth + 1 /\ stack'[intr_cur][Depth + 1] = Cpu!Frame(v)
        /\ stack'[intr_cur] \in Seq(Item) /\ flag' \in INTR
    BY <1>1, <1>2, PushFrame
  <1>4. /\ Cpu!Frame(v).kind = "frame" /\ Cpu!Frame(v).vec_no = v
        /\ Cpu!Frame(v).pc = "enter" /\ Cpu!Frame(v).fault_addr = NOBODY
    BY <1>2, FrameFacts
  <1>5. Depth \in Nat /\ \A i \in Depth + 1 .. Len(stack'[intr_cur]) : i = Depth + 1
    BY <1>3, TopFacts
  <1>6. IntrTypeOK'
    BY <1>1, <1>3 DEF IntrIInv, IntrTypeOK, Cpu!extVars, Cpu!picVars, SameOthers
  <1>7. Acknowledgement'
    <2>1. ~ InService(stack'[intr_cur][Depth + 1])
      BY <1>2, <1>3, <1>4 DEF InService
    <2> QED BY <1>1, <1>3, <1>5, <2>1, QuietStep DEF Cpu!extVars, Cpu!picVars
  <1>8. Addresses'
    <2>1. Unread(stack'[intr_cur][Depth + 1]) => cr2' = intr_cur
      BY <1>1, <1>3, <1>4 DEF Unread
    <2> QED BY <1>1, <1>3, <1>4, <1>5, <2>1, AddressStep
  <1> QED BY <1>3, <1>6, <1>7, <1>8 DEF IntrIInv

-----------------------------------------------------------------------------
(***************************************************************************)
(* intr_handler() and the handlers it calls: the innermost frame moves on. *)
(***************************************************************************)
LEMMA FrameMoves ==
  ASSUME IntrIInv, Cpu!Top.kind = "frame", NEW x \in FrameItem,
         x.vec_no = Cpu!Top.vec_no, x.eflags = Cpu!Top.eflags,
         x.fault_addr \in {NOBODY, intr_cur}, Unread(x) => Unread(Cpu!Top),
         stack' = [stack EXCEPT ![intr_cur] = Append(Cpu!Front(@), x)],
         intr_cur' = intr_cur, flag' = Level(x), cr2' = cr2
  PROVE  /\ Stacks' /\ Addresses' /\ flag' \in INTR /\ SameOthers /\ SameUpTo(Depth - 1)
         /\ Len(stack'[intr_cur]) = Depth /\ stack'[intr_cur][Depth] = x
  <1>1. Cpu!Top \in FrameItem /\ x \in Item /\ x.kind = "frame"
    BY TopFacts, ItemFacts DEF Item, FrameItem
  <1>2. Saved(x) = Saved(Cpu!Top)
    BY <1>1 DEF Saved
  <1>3. /\ Stacks' /\ SameOthers /\ SameUpTo(Depth - 1)
        /\ Len(stack'[intr_cur]) = Depth /\ stack'[intr_cur][Depth] = x
    BY <1>2, TopStacks
  <1>4. Addresses'
    <2>1. stack'[intr_cur] \in Seq(Item)
      BY <1>3 DEF Stacks, Nested, IntrIInv, IntrTypeOK
    <2>2. Depth - 1 \in Nat /\ \A i \in Depth - 1 + 1 .. Len(stack'[intr_cur]) : i = Depth
      BY <1>3, TopFacts
    <2>3. Unread(Cpu!Top) => cr2 = intr_cur
      BY TopFacts DEF IntrIInv, Addresses, Unread, Depth
    <2> QED BY <1>3, <2>1, <2>2, <2>3, TopFacts, AddressStep
  <1>5. flag' \in INTR
    BY <1>1, ItemFacts
  <1> QED BY <1>3, <1>4, <1>5

\* GoTo() is such a move.
LEMMA GoToFacts ==
  ASSUME IntrIInv, Cpu!Top.kind = "frame", NEW p \in FramePc
  PROVE  \E x \in FrameItem :
           /\ x.kind = "frame" /\ x.vec_no = Cpu!Top.vec_no /\ x.eflags = Cpu!Top.eflags
           /\ x.fault_addr \in {NOBODY, intr_cur} /\ x.pc = p
           /\ Cpu!GoTo(p) = [stack EXCEPT ![intr_cur] = Append(Cpu!Front(@), x)]
  <1>1. Cpu!Top \in FrameItem
    BY TopFacts, ItemFacts
  <1>2. Cpu!Top.fault_addr \in {NOBODY, intr_cur}
    <2>1. Depth \in DOMAIN stack[intr_cur] /\ Cpu!Top = stack[intr_cur][Depth]
      BY TopFacts DEF Depth, Nested
    <2> QED BY <2>1 DEF IntrIInv, Addresses, Cpu!FaultsKeepTheirAddress, IntrTypeOK
  <1>3. Cpu!GoTo(p) = [stack EXCEPT ![intr_cur] = Append(Cpu!Front(@), [Cpu!Top EXCEPT !.pc = p])]
    BY DEF Cpu!GoTo, Cpu!Top
  <1>4. PICK x : x = [Cpu!Top EXCEPT !.pc = p]
    OBVIOUS
  <1>5. /\ x \in FrameItem /\ x.kind = "frame" /\ x.vec_no = Cpu!Top.vec_no
        /\ x.eflags = Cpu!Top.eflags /\ x.fault_addr = Cpu!Top.fault_addr /\ x.pc = p
    BY <1>1, <1>4, FrameAt
  <1> QED BY <1>2, <1>3, <1>4, <1>5

\* A move that keeps the flag, of a frame that no controller waits for.
LEMMA QuietMove ==
  ASSUME IntrIInv, Cpu!Top.kind = "frame", NEW x \in FrameItem,
         x.vec_no = Cpu!Top.vec_no, x.eflags = Cpu!Top.eflags,
         x.fault_addr \in {NOBODY, intr_cur}, Unread(x) => Unread(Cpu!Top),
         stack' = [stack EXCEPT ![intr_cur] = Append(Cpu!Front(@), x)],
         intr_cur' = intr_cur, flag' = Level(x), UNCHANGED <<Cpu!extVars, isr0, isr1, cr2>>,
         ~ Cpu!external(Cpu!Top.vec_no)
  PROVE  IntrIInv'
  <1>1. /\ Stacks' /\ Addresses' /\ flag' \in INTR /\ SameOthers /\ SameUpTo(Depth - 1)
        /\ Len(stack'[intr_cur]) = Depth /\ stack'[intr_cur][Depth] = x
    BY FrameMoves
  <1>2. IntrTypeOK'
    BY <1>1 DEF IntrIInv, IntrTypeOK, Cpu!extVars, SameOthers
  <1>3. Acknowledgement'
    <2>1. /\ Depth - 1 \in Nat
          /\ \A i \in Depth - 1 + 1 .. Len(stack'[intr_cur]) : i = Depth
          /\ \A i \in Depth - 1 + 1 .. Depth : i = Depth
      BY <1>1, TopFacts
    <2>2. ~ InService(stack'[intr_cur][Depth]) /\ ~ InService(stack[intr_cur][Depth])
      BY <1>1, TopFacts DEF InService
    <2> QED BY <1>1, <2>1, <2>2, TopFacts, QuietStep DEF Cpu!extVars
  <1> QED BY <1>1, <1>2, <1>3 DEF IntrIInv

\* A device's frame goes on to its handler or to the end of it.
LEMMA DeviceMove ==
  ASSUME IntrIInv, Cpu!Top.kind = "frame", InService(Cpu!Top), NEW x \in FrameItem,
         x.kind = "frame", x.vec_no = Cpu!Top.vec_no, x.eflags = Cpu!Top.eflags,
         x.fault_addr \in {NOBODY, intr_cur}, x.pc \in {"handler", "leave"},
         stack' = [stack EXCEPT ![intr_cur] = Append(Cpu!Front(@), x)],
         intr_cur' = intr_cur, flag' = flag, UNCHANGED <<isr0, isr1, cr2>>,
         in_external_intr' = TRUE, yield_on_return' \in BOOLEAN
  PROVE  IntrIInv'
  <1>1. Cpu!external(Cpu!Top.vec_no) /\ Level(x) = flag /\ ~ Unread(x) /\ Handling(x) /\ InService(x)
    BY TopFacts DEF InService, Handling, Level, Unread, Cpu!external, Cpu!PageFault
  <1>2. /\ Stacks' /\ Addresses' /\ flag' \in INTR /\ SameOthers /\ SameUpTo(Depth - 1)
        /\ Len(stack'[intr_cur]) = Depth /\ stack'[intr_cur][Depth] = x
    BY <1>1, FrameMoves
  <1>3. IntrTypeOK'
    BY <1>2 DEF IntrIInv, IntrTypeOK, SameOthers
  <1>4. Acknowledgement'
    <2>1. Depth \in 1 .. Depth /\ \A i \in 1 .. Depth : i \in 1 .. Depth - 1 \/ i = Depth
      BY TopFacts
    <2>2. \A i \in 1 .. Depth - 1 : ~ InService(stack'[intr_cur][i])
      BY <1>2, FrameIsAlone DEF SameUpTo
    <2>3. /\ isr0 \subseteq {Cpu!Master(Cpu!Top.vec_no - 32)}
          /\ isr1 \subseteq {Cpu!Top.vec_no - 32}
          /\ Cpu!Top.vec_no < 40 => isr1 = {}
      BY <2>1, TopFacts DEF IntrIInv, Acknowledgement, Depth
    <2>4. \E i \in 1 .. Len(stack'[intr_cur]) : Handling(stack'[intr_cur][i])
      BY <1>1, <1>2, <2>1
    <2>5. \A t \in Process \ {intr_cur} : \A i \in 1 .. Len(stack'[t]) : ~ InService(stack'[t][i])
      BY <1>2 DEF SameOthers, IntrIInv, Acknowledgement
    <2>6. \A i \in 1 .. Len(stack'[intr_cur]) :
            InService(stack'[intr_cur][i]) => stack'[intr_cur][i].vec_no = Cpu!Top.vec_no
      BY <1>2, <2>1, <2>2
    <2>7. ~ \A i \in 1 .. Len(stack'[intr_cur]) : ~ InService(stack'[intr_cur][i])
      BY <1>1, <1>2, <2>1
    <2> QED BY <2>3, <2>4, <2>5, <2>6, <2>7 DEF Acknowledgement
  <1> QED BY <1>2, <1>3, <1>4 DEF IntrIInv

LEMMA EnterHandlerStep ==
  ASSUME IntrIInv, Cpu!EnterHandler
  PROVE  IntrIInv'
  <1>1. Cpu!Top.kind = "frame" /\ Cpu!Top.pc = "enter" /\ "handler" \in FramePc
    BY DEF Cpu!EnterHandler, FramePc
  <1>2. PICK x \in FrameItem :
          /\ x.kind = "frame" /\ x.vec_no = Cpu!Top.vec_no /\ x.eflags = Cpu!Top.eflags
          /\ x.fault_addr \in {NOBODY, intr_cur} /\ x.pc = "handler"
          /\ stack' = [stack EXCEPT ![intr_cur] = Append(Cpu!Front(@), x)]
    BY <1>1, GoToFacts DEF Cpu!EnterHandler
  <1>3. CASE Cpu!external(Cpu!Top.vec_no)
    <2>1. InService(Cpu!Top)
      BY <1>1, <1>3 DEF InService
    <2> QED BY <1>1, <1>2, <1>3, <2>1, DeviceMove DEF Cpu!EnterHandler, Cpu!picVars
  <1>4. CASE ~ Cpu!external(Cpu!Top.vec_no)
    <2>1. flag' = Level(x) /\ (Unread(x) => Unread(Cpu!Top))
      BY <1>1, <1>2, TopFacts DEF Cpu!EnterHandler, Level, Unread
    <2> QED BY <1>1, <1>2, <1>4, <2>1, QuietMove DEF Cpu!EnterHandler, Cpu!picVars
  <1> QED BY <1>3, <1>4

LEMMA DeviceHandlerStep ==
  ASSUME IntrIInv, Cpu!DeviceHandler
  PROVE  IntrIInv'
  <1>1. /\ Cpu!Top.kind = "frame" /\ Cpu!Top.pc = "handler" /\ Cpu!external(Cpu!Top.vec_no)
        /\ "leave" \in FramePc
    BY DEF Cpu!DeviceHandler, FramePc
  <1>2. PICK x \in FrameItem :
          /\ x.kind = "frame" /\ x.vec_no = Cpu!Top.vec_no /\ x.eflags = Cpu!Top.eflags
          /\ x.fault_addr \in {NOBODY, intr_cur} /\ x.pc = "leave"
          /\ stack' = [stack EXCEPT ![intr_cur] = Append(Cpu!Front(@), x)]
    BY <1>1, GoToFacts DEF Cpu!DeviceHandler
  <1>3. InService(Cpu!Top) /\ Handling(Cpu!Top)
    BY <1>1 DEF InService, Handling
  <1>4. in_external_intr' = TRUE /\ yield_on_return' \in BOOLEAN
    <2>1. \E i \in 1 .. Depth : Handling(stack[intr_cur][i])
      BY <1>3, TopFacts
    <2> QED BY <2>1 DEF Cpu!DeviceHandler, IntrIInv, IntrTypeOK, Acknowledgement, Depth
  <1> QED BY <1>1, <1>2, <1>3, <1>4, DeviceMove DEF Cpu!DeviceHandler, Cpu!picVars

\* The end-of-interrupt command for the only line in service.
LEMMA AcknowledgeOnly ==
  ASSUME NEW isr, NEW m \in Int, isr \subseteq {m}
  PROVE  Cpu!Acknowledged(isr) = {}
  <1> SUFFICES ASSUME NEW s \in isr, NEW r \in isr, r < s PROVE FALSE
    BY DEF Cpu!Acknowledged
  <1> QED BY s = m, r = m

\* The end of a device's interrupt: both controllers are clear again, although
\* the frame stays and thread_yield() may follow.
LEMMA LeaveHandlerStep ==
  ASSUME IntrIInv, Cpu!LeaveHandler
  PROVE  IntrIInv'
  <1>1. Cpu!Top.kind = "frame" /\ Cpu!Top.pc = "leave" /\ "iret" \in FramePc
    BY DEF Cpu!LeaveHandler, FramePc
  <1>2. PICK x \in FrameItem :
          /\ x.kind = "frame" /\ x.vec_no = Cpu!Top.vec_no /\ x.eflags = Cpu!Top.eflags
          /\ x.fault_addr \in {NOBODY, intr_cur} /\ x.pc = "iret"
          /\ Cpu!GoTo("iret") = [stack EXCEPT ![intr_cur] = Append(Cpu!Front(@), x)]
    BY <1>1, GoToFacts
  <1>3. /\ flag' = Level(x) /\ flag = Level(x) /\ intr_cur' = intr_cur /\ cr2' = cr2
        /\ ~ Unread(x) /\ ~ InService(x) /\ x \in Item
        /\ yield_on_return' = yield_on_return
    BY <1>1, <1>2, TopFacts DEF Cpu!LeaveHandler, Level, Unread, InService, Item
  <1>4. CASE ~ Cpu!external(Cpu!Top.vec_no)
    BY <1>1, <1>2, <1>3, <1>4, QuietMove DEF Cpu!LeaveHandler, Cpu!extVars
  <1>5. CASE Cpu!external(Cpu!Top.vec_no)
    <2>1. in_external_intr' = FALSE /\ isr0' = {} /\ isr1' = {}
      <3>1. Depth \in 1 .. Depth /\ InService(stack[intr_cur][Depth]) /\ Cpu!Top = stack[intr_cur][Depth]
        BY <1>1, <1>5, TopFacts DEF InService
      <3>2. /\ isr0 \subseteq {Cpu!Master(Cpu!Top.vec_no - 32)}
            /\ isr1 \subseteq {Cpu!Top.vec_no - 32}
            /\ Cpu!Top.vec_no < 40 => isr1 = {}
        BY <3>1 DEF IntrIInv, Acknowledgement, Depth
      <3>3. Cpu!Top.vec_no \in Int
        BY <1>5, <1>1, TopFacts, ItemFacts DEF FrameItem, VecNo, Cpu!PageFault, Cpu!Protection, Cpu!SystemCall
      <3>4. Cpu!Acknowledged(isr0) = {} /\ Cpu!Acknowledged(isr1) = {}
        <4>1. Cpu!Top.vec_no - 32 \in Int /\ Cpu!Master(Cpu!Top.vec_no - 32) \in Int
          BY <3>3 DEF Cpu!Master
        <4> QED BY <3>2, <4>1, AcknowledgeOnly
      <3>5. /\ in_external_intr' = FALSE /\ isr0' = Cpu!Acknowledged(isr0)
            /\ Cpu!Top.vec_no >= 40 => isr1' = Cpu!Acknowledged(isr1)
            /\ ~ (Cpu!Top.vec_no >= 40) => isr1' = isr1
        BY <1>5, Zenon DEF Cpu!LeaveHandler, Cpu!pic_end_of_interrupt
      <3>6. Cpu!Top.vec_no >= 40 \/ Cpu!Top.vec_no < 40
        BY <3>3
      <3> QED BY <3>2, <3>4, <3>5, <3>6, Zenon
    <2>2. flag = "INTR_OFF" /\ MayBeCovered(x)
      BY <1>2, <1>3, <1>5 DEF Level, MayBeCovered, Cpu!external, Cpu!PageFault
    <2> DEFINE u == Append(Cpu!Front(stack[intr_cur]), x)
               w == Append(u, Cpu!Section(flag))
    <2>3. /\ Nested(u) /\ Len(u) = Depth /\ u[Depth] = x
          /\ \A i \in 1 .. Depth - 1 : u[i] = stack[intr_cur][i]
      <3>1. Cpu!Top \in FrameItem /\ Saved(x) = Saved(Cpu!Top)
        BY <1>1, <1>2, TopFacts, ItemFacts DEF Saved
      <3> QED BY <1>1, <3>1, TopFacts, TopNested DEF Depth
    <2>4. /\ Cpu!Section(flag) \in Item /\ Cpu!Section(flag).kind = "section"
          /\ Saved(Cpu!Section(flag)) = flag /\ Level(Cpu!Section(flag)) = "INTR_OFF"
      BY <2>2 DEF Cpu!Section, Item, SectionItem, Saved, Level, INTR
    <2>5. /\ Nested(w) /\ Len(w) = Depth + 1 /\ w[Depth + 1] = Cpu!Section(flag)
          /\ \A i \in 1 .. Depth : w[i] = u[i]
      <3>1. Level(u[Len(u)]) = flag /\ MayBeCovered(u[Len(u)])
        BY <1>3, <2>2, <2>3
      <3>2. Nested(w)
        BY <2>3, <2>4, <3>1, PushNested
      <3> QED BY <2>3, <3>2, TopFacts DEF Nested
    <2>6. SameOthers /\ stack'[intr_cur] \in {u, w}
      BY <1>2, <1>5 DEF Cpu!LeaveHandler, SameOthers, IntrIInv, IntrTypeOK
    <2> PICK s : s = stack'[intr_cur]
      OBVIOUS
    <2>7. /\ Nested(s) /\ Level(s[Len(s)]) = flag /\ Len(s) >= Depth /\ Len(s) \in Nat
          /\ \A i \in 1 .. Depth - 1 : s[i] = stack[intr_cur][i]
          /\ \A i \in Depth .. Len(s) : s[i] = x \/ s[i] = Cpu!Section(flag)
      <3>1. CASE s = u
        BY <1>3, <2>3, <3>1, TopFacts
      <3>2. CASE s = w
        BY <2>2, <2>3, <2>4, <2>5, <3>2, TopFacts
      <3> QED BY <2>6, <3>1, <3>2
    <2>8. Stacks'
      BY <1>3, <2>6, <2>7, StacksOfOthers
    <2>9. IntrTypeOK'
      BY <1>3, <2>1, <2>2, <2>6 DEF IntrIInv, IntrTypeOK, SameOthers
    <2>10. Addresses'
      <3>1. SameUpTo(Depth - 1) /\ Depth - 1 \in Nat /\ Depth - 1 <= Depth /\ s \in Seq(Item)
        BY <2>7, TopFacts DEF SameUpTo, Nested
      <3>2. \A i \in Depth - 1 + 1 .. Len(s) :
              /\ s[i].kind = "frame" => s[i].fault_addr \in {NOBODY, intr_cur}
              /\ ~ Unread(s[i])
        <4> TAKE i \in Depth - 1 + 1 .. Len(s)
        <4>1. i \in Depth .. Len(s)
          BY TopFacts
        <4>2. s[i] = x \/ s[i] = Cpu!Section(flag)
          BY <2>7, <4>1
        <4>3. ~ Unread(Cpu!Section(flag)) /\ Cpu!Section(flag).kind # "frame"
          BY <2>4 DEF Unread
        <4> QED BY <1>2, <1>3, <4>2, <4>3, Zenon
      <3> QED BY <1>3, <2>6, <3>1, <3>2, AddressStep
    <2>11. Acknowledgement'
      <3>1. \A i \in 1 .. Len(s) : i \in 1 .. Depth - 1 \/ i \in Depth .. Len(s)
        BY TopFacts
      <3>2. ~ InService(Cpu!Section(flag))
        BY <2>4 DEF InService
      <3>3. \A i \in 1 .. Len(s) : ~ InService(s[i])
        BY <1>1, <1>3, <2>7, <3>1, <3>2, FrameIsAlone
      <3>4. \A i \in 1 .. Len(s) : ~ Handling(s[i])
        BY <3>3 DEF Handling, InService
      <3>5. \A t \in Process \ {intr_cur} : \A i \in 1 .. Len(stack'[t]) : ~ InService(stack'[t][i])
        BY <2>6 DEF SameOthers, IntrIInv, Acknowledgement
      <3> QED BY <1>3, <2>1, <3>3, <3>4, <3>5 DEF Acknowledgement
    <2> QED BY <2>8, <2>9, <2>10, <2>11 DEF IntrIInv
  <1> QED BY <1>4, <1>5

\* A handler, a section or an interrupt ends and its thread goes on below it.
LEMMA PopStep ==
  ASSUME IntrIInv, Cpu!Top.kind # "user", ~ InService(Cpu!Top), stack' = Cpu!Pop, flag' = Saved(Cpu!Top),
         intr_cur' = intr_cur, UNCHANGED <<Cpu!extVars, isr0, isr1, cr2>>
  PROVE  IntrIInv'
  <1>1. /\ Stacks' /\ SameOthers /\ SameUpTo(Depth - 1)
        /\ Len(stack'[intr_cur]) = Depth - 1 /\ Depth - 1 \in Nat
    BY PopStacks, TopFacts
  <1>2. IntrTypeOK'
    BY <1>1, TopFacts, ItemFacts DEF IntrIInv, IntrTypeOK, SameOthers, Cpu!extVars
  <1>3. \A i \in Depth - 1 + 1 .. Depth : i = Depth
    BY TopFacts
  <1>4. \A i \in Depth - 1 + 1 .. Len(stack'[intr_cur]) : FALSE
    BY <1>1, TopFacts
  <1>5. Acknowledgement'
    BY <1>1, <1>3, <1>4, TopFacts, QuietStep DEF Cpu!extVars
  <1>6. Addresses'
    <2>1. stack'[intr_cur] \in Seq(Item)
      BY <1>1 DEF Stacks, Nested, IntrIInv, IntrTypeOK
    <2> QED BY <1>1, <1>4, <2>1, TopFacts, AddressStep
  <1> QED BY <1>1, <1>2, <1>5, <1>6 DEF IntrIInv

LEMMA ReturnStep ==
  ASSUME IntrIInv, Cpu!intr_exit \/ Cpu!EndSection
  PROVE  IntrIInv'
  <1>1. CASE Cpu!intr_exit
    BY <1>1, PopStep DEF Cpu!intr_exit, InService, Saved, Cpu!picVars
  <1>2. CASE Cpu!EndSection
    BY <1>2, PopStep DEF Cpu!EndSection, InService, Saved, Cpu!intr_set_level, Cpu!picVars
  <1> QED BY <1>1, <1>2

LEMMA SystemCallDoneStep ==
  ASSUME IntrIInv, Cpu!SystemCallDone
  PROVE  IntrIInv'
  <1>1. /\ Cpu!Top.kind = "frame" /\ Cpu!Top.vec_no = Cpu!SystemCall /\ "leave" \in FramePc
        /\ ~ Cpu!external(Cpu!Top.vec_no) /\ Cpu!Top.vec_no # Cpu!PageFault
    BY DEF Cpu!SystemCallDone, Cpu!AtPc, FramePc, Cpu!SystemCall, Cpu!external, Cpu!PageFault
  <1>2. PICK x \in FrameItem :
          /\ x.kind = "frame" /\ x.vec_no = Cpu!Top.vec_no /\ x.eflags = Cpu!Top.eflags
          /\ x.fault_addr \in {NOBODY, intr_cur} /\ x.pc = "leave"
          /\ stack' = [stack EXCEPT ![intr_cur] = Append(Cpu!Front(@), x)]
    BY <1>1, GoToFacts DEF Cpu!SystemCallDone
  <1>3. flag' = Level(x) /\ ~ Unread(x)
    BY <1>1, <1>2, TopFacts DEF Cpu!SystemCallDone, Level, Unread
  <1> QED BY <1>1, <1>2, <1>3, QuietMove DEF Cpu!SystemCallDone, Cpu!picVars

\* page_fault() reads CR2 before anything else can fault.
LEMMA PageFaultStep ==
  ASSUME IntrIInv, Cpu!page_fault
  PROVE  IntrIInv'
  <1>1. /\ Cpu!Top.kind = "frame" /\ Cpu!Top.vec_no = Cpu!PageFault /\ Cpu!Top.pc = "handler"
        /\ ~ Cpu!external(Cpu!Top.vec_no) /\ Cpu!Top \in FrameItem
    BY TopFacts, ItemFacts DEF Cpu!page_fault, Cpu!AtPc, Cpu!external, Cpu!PageFault
  <1>2. cr2 = intr_cur /\ intr_cur \in Process
    <2>1. Unread(Cpu!Top)
      BY <1>1 DEF Unread
    <2> QED BY <2>1, TopFacts DEF IntrIInv, IntrTypeOK, Addresses, Unread, Depth
  <1>3. PICK x : x = [Cpu!Top EXCEPT !.fault_addr = cr2, !.pc = "enable"]
    OBVIOUS
  <1>4. /\ x \in FrameItem /\ x.kind = "frame" /\ x.vec_no = Cpu!Top.vec_no
        /\ x.eflags = Cpu!Top.eflags /\ x.fault_addr = intr_cur /\ x.pc = "enable"
    BY <1>1, <1>2, <1>3 DEF FrameItem, FramePc
  <1>5. stack' = [stack EXCEPT ![intr_cur] = Append(Cpu!Front(@), x)]
    BY <1>3 DEF Cpu!page_fault, Cpu!Top
  <1>6. flag' = Level(x) /\ ~ Unread(x)
    BY <1>1, <1>4, TopFacts DEF Cpu!page_fault, Level, Unread
  <1> QED BY <1>1, <1>4, <1>5, <1>6, QuietMove DEF Cpu!page_fault, Cpu!picVars

LEMMA FaultEnableStep ==
  ASSUME IntrIInv, Cpu!FaultEnable
  PROVE  IntrIInv'
  <1>1. /\ Cpu!Top.kind = "frame" /\ Cpu!Top.vec_no = Cpu!PageFault /\ "kill" \in FramePc
        /\ ~ Cpu!external(Cpu!Top.vec_no)
    BY DEF Cpu!FaultEnable, Cpu!AtPc, FramePc, Cpu!external, Cpu!PageFault
  <1>2. PICK x \in FrameItem :
          /\ x.kind = "frame" /\ x.vec_no = Cpu!Top.vec_no /\ x.eflags = Cpu!Top.eflags
          /\ x.fault_addr \in {NOBODY, intr_cur} /\ x.pc = "kill"
          /\ stack' = [stack EXCEPT ![intr_cur] = Append(Cpu!Front(@), x)]
    BY <1>1, GoToFacts DEF Cpu!FaultEnable
  <1>3. flag' = Level(x) /\ ~ Unread(x)
    BY <1>1, <1>2 DEF Cpu!FaultEnable, Level, Unread
  <1> QED BY <1>1, <1>2, <1>3, QuietMove DEF Cpu!FaultEnable, Cpu!picVars

\* intr_disable() in kernel code.
LEMMA DisableStep ==
  ASSUME IntrIInv, Cpu!intr_disable
  PROVE  IntrIInv'
  <1> DEFINE x == Cpu!Section(flag)
  <1>1. /\ x \in Item /\ x.kind = "section" /\ Saved(x) = flag /\ Level(x) = "INTR_OFF"
    BY DEF Cpu!Section, Item, SectionItem, Saved, Level, IntrIInv, IntrTypeOK
  <1>2. MayBeCovered(Cpu!Top)
    BY DEF Cpu!intr_disable, Cpu!InKernel, Cpu!AtPc, MayBeCovered, Cpu!external, Cpu!PageFault
  <1>3. /\ Stacks' /\ SameOthers /\ SameUpTo(Depth)
        /\ Len(stack'[intr_cur]) = Depth + 1 /\ stack'[intr_cur][Depth + 1] = x
    BY <1>1, <1>2, PushStacks DEF Cpu!intr_disable
  <1>4. IntrTypeOK'
    BY <1>3 DEF IntrIInv, IntrTypeOK, SameOthers, Cpu!intr_disable, Cpu!extVars, Cpu!picVars, INTR
  <1>5. Depth \in Nat /\ \A i \in Depth + 1 .. Len(stack'[intr_cur]) : i = Depth + 1
    BY <1>3, TopFacts
  <1>6. ~ InService(x) /\ ~ Unread(x)
    BY <1>1 DEF InService, Unread
  <1>7. Acknowledgement'
    BY <1>3, <1>5, <1>6, QuietStep DEF Cpu!intr_disable, Cpu!extVars, Cpu!picVars
  <1>8. Addresses'
    <2>1. stack'[intr_cur] \in Seq(Item)
      BY <1>3, <1>4 DEF Stacks, Nested, IntrTypeOK, Cpu!intr_disable
    <2> QED BY <1>1, <1>3, <1>5, <1>6, <2>1, AddressStep DEF Cpu!intr_disable
  <1> QED BY <1>3, <1>4, <1>7, <1>8 DEF IntrIInv
-----------------------------------------------------------------------------
(***************************************************************************)
(* Another thread gets the CPU.                                            *)
(***************************************************************************)
\* A thread that was switched from has read the address of its fault.
LEMMA OthersHaveRead ==
  ASSUME IntrIInv, NEW t \in Process \ {intr_cur}, NEW i \in 1 .. Len(stack[t])
  PROVE  ~ Unread(stack[t][i])
  <1>1. Nested(stack[t]) /\ stack[t][Len(stack[t])].kind = "section"
    BY DEF IntrIInv, Stacks
  <1>2. CASE i = Len(stack[t])
    BY <1>1, <1>2 DEF Unread
  <1>3. CASE i # Len(stack[t])
    <2>1. MayBeCovered(stack[t][i])
      BY <1>1, <1>3 DEF Nested, Covers
    <2> QED BY <2>1 DEF MayBeCovered, Unread
  <1> QED BY <1>2, <1>3

\* A thread that will run for the first time.
LEMMA CreatedFacts ==
  /\ Nested(Cpu!Created) /\ Cpu!Created[Len(Cpu!Created)].kind = "section"
  /\ \A i \in 1 .. Len(Cpu!Created) : Cpu!Created[i].kind # "frame"
  <1>1. /\ Len(Cpu!Created) = 2 /\ Cpu!Created \in Seq(Item)
        /\ Cpu!Created[1] = Cpu!UserCode /\ Cpu!Created[2] = Cpu!Section("INTR_ON")
    BY DEF Cpu!Created, Item, UserItem, SectionItem, Cpu!UserCode, Cpu!Section, INTR
  <1>2. /\ Cpu!UserCode.kind = "user" /\ Cpu!Section("INTR_ON").kind = "section"
        /\ Level(Cpu!UserCode) = "INTR_ON" /\ Saved(Cpu!Section("INTR_ON")) = "INTR_ON"
    BY DEF Cpu!UserCode, Cpu!Section, Level, Saved
  <1>3. Outermost(Cpu!Created) /\ Restores(Cpu!Created)
    BY <1>1, <1>2 DEF Outermost, Restores
  <1>4. Masked(Cpu!Created)
    BY <1>1, <1>2 DEF Masked
  <1>5. Covers(Cpu!Created)
    BY <1>1, <1>2 DEF Covers, MayBeCovered
  <1> QED BY <1>1, <1>2, <1>3, <1>4, <1>5 DEF Nested

\* schedule() from a section, or from thread_exit(): the thread that is left
\* has nothing to acknowledge, and the one that runs is in a section too.
LEMMA SwitchStep ==
  ASSUME IntrIInv, NEW t \in Process \ {intr_cur}, intr_cur' = t, flag' = "INTR_OFF",
         ~ in_external_intr, \A i \in 1 .. Depth : ~ InService(stack[intr_cur][i]),
         \/ stack' = stack /\ Cpu!Top.kind = "section"
         \/ stack' = [stack EXCEPT ![intr_cur] = Cpu!Created],
         UNCHANGED <<Cpu!extVars, isr0, isr1, cr2>>
  PROVE  IntrIInv'
  <1>1. /\ DOMAIN stack' = Process /\ SameOthers
        /\ stack'[intr_cur] = stack[intr_cur] \/ stack'[intr_cur] = Cpu!Created
    BY DEF IntrIInv, IntrTypeOK, SameOthers
  <1>2. IntrTypeOK'
    BY <1>1 DEF IntrIInv, IntrTypeOK, INTR, Cpu!extVars
  <1>3. \A u \in Process : /\ Nested(stack'[u])
                          /\ stack'[u][Len(stack'[u])].kind = "section"
    <2> TAKE u \in Process
    <2>1. CASE u # intr_cur
      BY <1>1, <2>1 DEF SameOthers, IntrIInv, Stacks
    <2>2. CASE u = intr_cur
      <3>1. Nested(stack[intr_cur])
        BY DEF IntrIInv, IntrTypeOK, Stacks
      <3>2. CASE stack' = stack /\ Cpu!Top.kind = "section"
        BY <2>2, <3>1, <3>2, TopFacts DEF Depth
      <3>3. CASE stack' = [stack EXCEPT ![intr_cur] = Cpu!Created]
        BY <2>2, <3>3, CreatedFacts DEF IntrIInv, IntrTypeOK
      <3> QED BY <3>2, <3>3
    <2> QED BY <2>1, <2>2
  <1>4. Stacks'
    <2>1. flag' = Level(stack'[t][Len(stack'[t])])
      BY <1>3 DEF Level
    <2> QED BY <1>3, <2>1 DEF Stacks
  <1>5. Acknowledgement'
    <2>1. isr0 = {} /\ isr1 = {}
      BY DEF IntrIInv, Acknowledgement, Depth
    <2>2. \A u \in Process : \A i \in 1 .. Len(stack'[u]) : ~ InService(stack'[u][i])
      <3> TAKE u \in Process
      <3>1. CASE u # intr_cur
        BY <1>1, <3>1 DEF SameOthers, IntrIInv, Acknowledgement
      <3>2. CASE u = intr_cur
        BY <1>1, <3>2, CreatedFacts DEF InService, Depth
      <3> QED BY <3>1, <3>2
    <2>3. \A i \in 1 .. Len(stack'[t]) : ~ Handling(stack'[t][i])
      BY <2>2 DEF InService, Handling
    <2> QED BY <2>1, <2>2, <2>3 DEF Acknowledgement, Cpu!extVars
  <1>6. Addresses'
    <2>1. \A u \in Process : \A i \in DOMAIN stack'[u] :
            stack'[u][i].kind = "frame" => stack'[u][i].fault_addr \in {NOBODY, u}
      <3> TAKE u \in Process
      <3>1. CASE stack'[u] = stack[u]
        BY <3>1 DEF IntrIInv, Addresses, Cpu!FaultsKeepTheirAddress
      <3>2. CASE stack'[u] = Cpu!Created
        BY <3>2, CreatedFacts DEF Nested
      <3> QED BY <1>1, <3>1, <3>2 DEF SameOthers
    <2>2. \A i \in 1 .. Len(stack'[t]) : ~ Unread(stack'[t][i])
      BY <1>1, OthersHaveRead DEF SameOthers
    <2> QED BY <2>1, <2>2 DEF Addresses, Cpu!FaultsKeepTheirAddress, Unread
  <1> QED BY <1>2, <1>4, <1>5, <1>6 DEF IntrIInv

LEMMA KillStep ==
  ASSUME IntrIInv, Cpu!kill
  PROVE  IntrIInv'
  <1>1. PICK t \in Process \ {intr_cur} : intr_cur' = t
    BY DEF Cpu!kill
  <1>2. flag = "INTR_ON"
    BY TopFacts DEF Cpu!kill, Cpu!AtPc, Level, Cpu!external, Cpu!PageFault, Cpu!Protection
  <1> QED BY <1>1, <1>2, OnIsClear, SwitchStep DEF Cpu!kill, Cpu!picVars

LEMMA IntrScheduleStep ==
  ASSUME IntrIInv, NEW t \in Process, Cpu!schedule(t)
  PROVE  IntrIInv'
  <1>1. ~ in_external_intr /\ Cpu!Top.kind = "section" /\ t \in Process \ {intr_cur}
    BY DEF Cpu!schedule, Cpu!MaySwitch
  <1>2. flag' = "INTR_OFF"
    BY <1>1, TopFacts DEF Cpu!schedule, Level
  <1> QED BY <1>1, <1>2, SwitchIsClear, SwitchStep DEF Cpu!schedule, Cpu!picVars
-----------------------------------------------------------------------------
LEMMA IntrInitIInv == Cpu!Init => IntrIInv
  <1> SUFFICES ASSUME Cpu!Init PROVE IntrIInv
    OBVIOUS
  <1>1. /\ Len(<<Cpu!UserCode>>) = 1 /\ <<Cpu!UserCode>>[1] = Cpu!UserCode /\ <<Cpu!UserCode>> \in Seq(Item)
        /\ Cpu!UserCode.kind = "user" /\ Level(Cpu!UserCode) = "INTR_ON"
    BY DEF Cpu!UserCode, Item, UserItem, Level
  <1>2. Nested(<<Cpu!UserCode>>)
    BY <1>1 DEF Nested, Outermost, Restores, Masked, Covers
  <1>3. /\ intr_cur \in Process /\ DOMAIN stack = Process /\ stack[intr_cur] = <<Cpu!UserCode>>
        /\ \A t \in Process \ {intr_cur} : stack[t] = Cpu!Created
    BY DEF Cpu!Init
  <1>4. IntrTypeOK
    BY <1>3 DEF Cpu!Init, IntrTypeOK, INTR
  <1>5. Stacks
    <2>1. \A t \in Process : Nested(stack[t])
      BY <1>2, <1>3, CreatedFacts
    <2> QED BY <1>1, <1>3, <2>1, CreatedFacts DEF Stacks, Cpu!Init
  <1>6. \A t \in Process : \A i \in 1 .. Len(stack[t]) : stack[t][i].kind # "frame"
    BY <1>1, <1>3, CreatedFacts
  <1>7. Acknowledgement
    BY <1>3, <1>6 DEF Acknowledgement, InService, Handling, Cpu!Init
  <1>8. Addresses
    BY <1>3, <1>5, <1>6 DEF Addresses, Cpu!FaultsKeepTheirAddress, Stacks, Nested
  <1> QED BY <1>4, <1>5, <1>7, <1>8 DEF IntrIInv

LEMMA IntrNextIInv == IntrIInv /\ [Cpu!Next]_(Cpu!vars) => IntrIInv'
  <1> SUFFICES ASSUME IntrIInv, [Cpu!Next]_(Cpu!vars) PROVE IntrIInv'
    OBVIOUS
  <1>1. CASE UNCHANGED <<intr_cur, flag, stack, Cpu!extVars, isr0, isr1, cr2>>
    BY <1>1 DEF IntrIInv, IntrTypeOK, Stacks, Acknowledgement, Addresses,
                Cpu!FaultsKeepTheirAddress, Cpu!extVars
  <1>2. CASE UNCHANGED Cpu!vars
    BY <1>1, <1>2 DEF Cpu!vars, Cpu!extVars
  <1>3. ASSUME NEW l \in Line, Cpu!Raise(l) PROVE IntrIInv'
    BY <1>1, <1>3 DEF Cpu!Raise
  <1> QED
    BY <1>2, <1>3, DeliverStep, TrapStep, EnterHandlerStep, DeviceHandlerStep,
       LeaveHandlerStep, ReturnStep, SystemCallDoneStep, PageFaultStep, FaultEnableStep,
       KillStep, DisableStep, IntrScheduleStep, Zenon DEF Cpu!Next

\* IntrIInv holds in every reachable state.
THEOREM IntrInvariance == MCSpec => []IntrIInv
  <1>1. MCInit => IntrIInv
    BY IntrInitIInv DEF MCInit
  <1>2. IntrIInv /\ [MCNext]_<<part, cpuVars, consoleVars>> => IntrIInv'
    <2>1. [MCNext]_<<part, cpuVars, consoleVars>> => [Cpu!Next]_(Cpu!vars)
      BY DEF MCNext, cpuVars, Cpu!vars
    <2> QED BY <2>1, IntrNextIInv
  <1> QED BY <1>1, <1>2, PTL DEF MCSpec

\* Each part of InterruptsAreSafe follows from the invariant.
LEMMA SafeFromIInv == IntrIInv => InterruptsAreSafe
  <1> SUFFICES ASSUME IntrIInv PROVE InterruptsAreSafe
    OBVIOUS
  <1>1. Cpu!AssertionsHold
    <2>1. ASSUME Cpu!Top.kind = "frame", Cpu!external(Cpu!Top.vec_no), Cpu!Top.pc = "enter"
          PROVE  flag = "INTR_OFF" /\ ~ in_external_intr
      <3>1. flag = "INTR_OFF" /\ ~ Handling(Cpu!Top)
        BY <2>1, TopFacts DEF Level, Handling
      <3>2. \A i \in 1 .. Depth : i \in 1 .. Depth - 1 \/ i = Depth
        BY TopFacts
      <3>3. \A i \in 1 .. Depth : ~ Handling(stack[intr_cur][i])
        BY <2>1, <3>1, <3>2, FrameIsAlone, TopFacts
      <3> QED BY <3>1, <3>3 DEF IntrIInv, Acknowledgement, Depth
    <2>2. ASSUME Cpu!Top.kind = "frame", Cpu!external(Cpu!Top.vec_no), Cpu!Top.pc = "leave"
          PROVE  flag = "INTR_OFF" /\ in_external_intr
      <3>1. flag = "INTR_OFF" /\ Handling(Cpu!Top) /\ Depth \in 1 .. Depth
        BY <2>2, TopFacts DEF Level, Handling
      <3> QED BY <3>1, TopFacts DEF IntrIInv, Acknowledgement, Depth
    <2>3. ASSUME Cpu!Top.kind = "section", Cpu!Top.old = "INTR_ON" PROVE ~ in_external_intr
      <3> SUFFICES ASSUME NEW i \in 1 .. Depth, Handling(stack[intr_cur][i]) PROVE FALSE
        BY DEF IntrIInv, Acknowledgement, Depth
      <3>1. i # Depth /\ Level(stack[intr_cur][i]) = "INTR_OFF"
        BY <2>3, TopFacts DEF Handling, Level
      <3>2. Depth - 1 \in 1 .. Depth /\ Depth \in 2 .. Depth
        BY <3>1, TopFacts
      <3>3. Level(stack[intr_cur][Depth - 1]) = "INTR_ON"
        BY <2>3, <3>2, TopFacts DEF Nested, Restores, Saved, Depth
      <3>4. i < Depth - 1
        BY <3>1, <3>3, TopFacts
      <3>5. stack[intr_cur][Depth - 1].kind = "section"
        BY <3>1, <3>2, <3>4, TopFacts DEF Nested, Masked, Depth
      <3> QED BY <3>3, <3>5 DEF Level
    <2>4. ASSUME Cpu!AtPc(Cpu!PageFault, "enable") PROVE ~ in_external_intr
      <3>1. Cpu!Top.kind = "frame" /\ ~ Handling(Cpu!Top)
        BY <2>4 DEF Cpu!AtPc, Handling, Cpu!external, Cpu!PageFault
      <3>2. \A i \in 1 .. Depth : i \in 1 .. Depth - 1 \/ i = Depth
        BY TopFacts
      <3>3. \A i \in 1 .. Depth : ~ Handling(stack[intr_cur][i])
        BY <3>1, <3>2, FrameIsAlone, TopFacts
      <3> QED BY <3>3 DEF IntrIInv, Acknowledgement, Depth
    <2> QED BY <2>1, <2>2, <2>3, <2>4 DEF Cpu!AssertionsHold
  <1>2. Cpu!NoLineIsBlocked
    BY OnIsClear DEF Cpu!NoLineIsBlocked
  <1>3. Cpu!SectionsAreAtomic
    <2>1. ASSUME NEW t \in Process, NEW i \in 1 .. Len(stack[t]) - 1,
                 stack[t][i].kind = "section"
          PROVE  stack[t][i + 1].kind = "section"
      <3>1. Masked(stack[t]) /\ Len(stack[t]) \in Nat
        BY DEF IntrIInv, Stacks, Nested
      <3> QED BY <2>1, <3>1 DEF Masked, Level
    <2>2. Cpu!Top.kind = "section" => flag = "INTR_OFF"
      BY TopFacts DEF Level
    <2>3. Cpu!Top.kind = "user" => flag = "INTR_ON"
      BY TopFacts DEF Level
    <2> QED BY <2>1, <2>2, <2>3 DEF Cpu!SectionsAreAtomic
  <1>4. Cpu!FaultsKeepTheirAddress
    BY DEF IntrIInv, Addresses
  <1> QED BY <1>1, <1>2, <1>3, <1>4 DEF InterruptsAreSafe, Cpu!InterruptsAreSafe

\* For any number of threads, any lines and sections nested to any depth:
\* the assertions of intr_handler() and intr_enable() hold, every line is
\* acknowledged before interrupts are on again, sections are atomic and
\* page_fault() reads its own address.
THEOREM InterruptSafety == MCSpec => []InterruptsAreSafe
  BY IntrInvariance, SafeFromIInv, PTL
-----------------------------------------------------------------------------
\* A call of the console, and a character that it has given to a device.
CallPlace == {"acquire", "serial", "vga", "beep"}
PrintCall ==
  {x \in [id : Nat, todo : Seq(STRING), at : CallPlace] : x.at = "vga" => x.todo # <<>>}
Printed == [by : Terminal!Context, call : Nat, char : STRING]

ConsoleTypeOK ==
  /\ use_console_lock \in BOOLEAN
  /\ holder \in Process \union {NOBODY}
  /\ console_lock_depth \in Nat
  /\ calls \in [Terminal!Context -> Seq(PrintCall)]
  /\ started \in Nat
  /\ level \in 0 .. 3
  /\ panicked \in Terminal!Context \union {NOBODY}
  /\ panicked = NOBODY <=> level = 0
  /\ panicked # NOBODY => ~ use_console_lock /\ calls[panicked] # <<>>

\* Before console_init() one thread prints, without the lock.
EarlyOK ==
  ~ use_console_lock /\ panicked = NOBODY =>
    /\ holder = NOBODY /\ console_lock_depth = 0
    /\ \A c \in Terminal!Context : c # Main => calls[c] = <<>>

\* Of the calls cs that are under way, st having begun: each has an id of its own.
Ids(cs, st) ==
  /\ \A c \in Terminal!Context : \A n \in 1 .. Len(cs[c]) : cs[c][n].id <= st
  /\ \A c, d \in Terminal!Context : \A n \in 1 .. Len(cs[c]), m \in 1 .. Len(cs[d]) :
       cs[c][n].id = cs[d][m].id => c = d /\ n = m

\* A character belongs to a call that has begun, and to its context.
CharsOf(s, cs, st) ==
  \A i \in 1 .. Len(s) :
    /\ s[i].call <= st
    /\ \A c \in Terminal!Context : \A n \in 1 .. Len(cs[c]) : cs[c][n].id = s[i].call =>
         s[i].by = c /\ cs[c][n].at # "acquire"

\* Another thread printed after the call's last character so far.
Cut(s, i) == \E k \in i + 1 .. Len(s) : s[k].by \notin {s[i].by, HANDLER}

\* Whoever may print again: nobody but p, if p has panicked.
MayPrint(c, p) == p = NOBODY \/ c = p

\* A call that is cut off will not print again.
CutOff(s, cs, p) ==
  \A i \in 1 .. Len(s) : Cut(s, i) =>
    \A c \in Terminal!Context : MayPrint(c, p) =>
      \A n \in 1 .. Len(cs[c]) : cs[c][n].id # s[i].call

\* What a device has been given.
OutputOK(s, cs, st, p) ==
  s \in Seq(Printed) /\ CharsOf(s, cs, st) /\ CutOff(s, cs, p) /\ Terminal!InOnePiece(s)

\* The calls of t that have taken the lock, and the lock's depth.
Taken(cs, t) == {i \in 1 .. Len(cs[t]) : cs[t][i].at # "acquire"}
DepthOK(locks, h, depth, cs) ==
  locks => \A t \in Process :
    IF h = t THEN Taken(cs, t) # {} /\ depth = Cardinality(Taken(cs, t)) - 1
    ELSE Taken(cs, t) = {} /\ (h = NOBODY => depth = 0)

\* What the first panic has printed so far: m characters, and on the serial line
\* one more while the display is to get it.
PanicTail(s, m, p, st) ==
  /\ Len(s) >= m
  /\ \A i \in 1 .. m : s[Len(s) - m + i] = [by |-> p, call |-> st, char |-> PanicText[1][i]]
PanicOf(x, w, v, p, st) ==
  LET n == Len(PanicText[1])
  IN /\ x.id = st /\ x.at \in {"acquire", "serial", "vga"}
     /\ \E m \in 0 .. n :
          /\ Len(x.todo) = n - m
          /\ \A i \in 1 .. n - m : x.todo[i] = PanicText[1][m + i]
          /\ PanicTail(v, m, p, st)
          /\ PanicTail(w, IF x.at = "vga" THEN m + 1 ELSE m, p, st)
          /\ x.at = "vga" => m < n
PanicOK ==
  level = 1 => PanicOf(calls[panicked][Len(calls[panicked])], wire, shown, panicked, started)

ConsoleIInv ==
  /\ ConsoleTypeOK /\ EarlyOK /\ Ids(calls, started)
  /\ OutputOK(wire, calls, started, panicked) /\ OutputOK(shown, calls, started, panicked)
  /\ DepthOK(use_console_lock, holder, console_lock_depth, calls)
  /\ PanicOK

-----------------------------------------------------------------------------
\* The last element of a sequence, taken off or replaced.
LEMMA LastAndFront ==
  ASSUME NEW S, NEW s \in Seq(S), s # <<>>
  PROVE  /\ Len(s) \in Nat \ {0}
         /\ Terminal!Last(s) = s[Len(s)] /\ Terminal!Last(s) \in S
         /\ Terminal!Front(s) \in Seq(S) /\ Len(Terminal!Front(s)) = Len(s) - 1
         /\ \A i \in 1 .. Len(s) - 1 : Terminal!Front(s)[i] = s[i]
  <1>1. Len(s) \in Nat \ {0} /\ s[Len(s)] \in S
    OBVIOUS
  <1>2. Terminal!Last(s) = s[Len(s)]
    BY DEF Terminal!Last
  <1>3. Terminal!Front(s) = SubSeq(s, 1, Len(s) - 1)
    BY DEF Terminal!Front
  <1>4. /\ SubSeq(s, 1, Len(s) - 1) \in Seq(S) /\ Len(SubSeq(s, 1, Len(s) - 1)) = Len(s) - 1
        /\ \A i \in 1 .. Len(s) - 1 : SubSeq(s, 1, Len(s) - 1)[i] = s[i]
    <2>1. Len(s) - 1 \in Nat /\ Len(s) - 1 <= Len(s)
      BY <1>1
    <2>2. \A m \in Nat : m <= Len(s) =>
            /\ SubSeq(s, 1, m) \in Seq(S) /\ Len(SubSeq(s, 1, m)) = m
            /\ \A i \in 1 .. m : SubSeq(s, 1, m)[i] = s[i]
      OBVIOUS
    <2> QED BY <2>1, <2>2
  <1> QED BY <1>1, <1>2, <1>3, <1>4

\* The call that a context is in moves on.
LEMMA Updated ==
  ASSUME calls \in [Terminal!Context -> Seq(PrintCall)], NEW c \in Terminal!Context,
         calls[c] # <<>>, NEW x \in PrintCall, calls' = Terminal!Update(c, x)
  PROVE  /\ calls' \in [Terminal!Context -> Seq(PrintCall)]
         /\ \A d \in Terminal!Context : Len(calls'[d]) = Len(calls[d])
         /\ \A d \in Terminal!Context : d # c => calls'[d] = calls[d]
         /\ calls'[c][Len(calls[c])] = x /\ Len(calls[c]) \in 1 .. Len(calls[c])
         /\ \A n \in 1 .. Len(calls[c]) : n # Len(calls[c]) => calls'[c][n] = calls[c][n]
  <1> DEFINE u == Append(Terminal!Front(calls[c]), x)
             N1 == Len(calls[c])
  <1>1. calls[c] \in Seq(PrintCall)
    OBVIOUS
  <1>2. /\ N1 \in Nat \ {0} /\ Terminal!Front(calls[c]) \in Seq(PrintCall)
        /\ Len(Terminal!Front(calls[c])) = N1 - 1
        /\ \A i \in 1 .. N1 - 1 : Terminal!Front(calls[c])[i] = calls[c][i]
    BY <1>1, LastAndFront
  <1>3. /\ u \in Seq(PrintCall) /\ Len(u) = N1 /\ u[N1] = x
        /\ \A i \in 1 .. N1 - 1 : u[i] = calls[c][i]
    BY <1>2
  <1>4. calls' = [calls EXCEPT ![c] = u]
    BY DEF Terminal!Update
  <1> HIDE DEF u
  <1>5. /\ calls' \in [Terminal!Context -> Seq(PrintCall)]
        /\ calls'[c] = u /\ \A d \in Terminal!Context : d # c => calls'[d] = calls[d]
    BY <1>3, <1>4
  <1>6. \A d \in Terminal!Context : Len(calls'[d]) = Len(calls[d])
    BY <1>3, <1>5
  <1>7. \A n \in 1 .. N1 : n # N1 => calls'[c][n] = calls[c][n]
    <2> TAKE n \in 1 .. N1
    <2>1. n # N1 => n \in 1 .. N1 - 1
      BY <1>2
    <2> QED BY <1>3, <1>5, <2>1
  <1>8. calls'[c][N1] = x /\ N1 \in 1 .. N1
    BY <1>2, <1>3, <1>5
  <1> QED BY <1>5, <1>6, <1>7, <1>8

\* A context enters a call.
LEMMA CallEntered ==
  ASSUME calls \in [Terminal!Context -> Seq(PrintCall)], started \in Nat,
         NEW c \in Terminal!Context, NEW text \in Seq(STRING), calls' = Terminal!Enter(c, text)
  PROVE  /\ calls' \in [Terminal!Context -> Seq(PrintCall)]
         /\ \A d \in Terminal!Context : d # c => calls'[d] = calls[d]
         /\ Len(calls'[c]) = Len(calls[c]) + 1 /\ Len(calls[c]) \in Nat
         /\ calls'[c][Len(calls[c]) + 1] = [id |-> started + 1, todo |-> text, at |-> "acquire"]
         /\ \A n \in 1 .. Len(calls[c]) : calls'[c][n] = calls[c][n]
  <1> DEFINE x == [id |-> started + 1, todo |-> text, at |-> "acquire"]
             u == Append(calls[c], x)
  <1>1. calls[c] \in Seq(PrintCall) /\ x \in PrintCall
    BY DEF PrintCall, CallPlace
  <1> HIDE DEF x
  <1>2. /\ u \in Seq(PrintCall) /\ Len(u) = Len(calls[c]) + 1 /\ u[Len(calls[c]) + 1] = x
        /\ \A n \in 1 .. Len(calls[c]) : u[n] = calls[c][n]
        /\ Len(calls[c]) \in Nat
    BY <1>1
  <1>3. calls' = [calls EXCEPT ![c] = u]
    BY DEF Terminal!Enter, x
  <1> HIDE DEF u
  <1>4. /\ calls' \in [Terminal!Context -> Seq(PrintCall)]
        /\ calls'[c] = u /\ \A d \in Terminal!Context : d # c => calls'[d] = calls[d]
    BY <1>2, <1>3
  <1> QED BY <1>2, <1>4 DEF x

\* A context returns from a call.
LEMMA CallLeft ==
  ASSUME calls \in [Terminal!Context -> Seq(PrintCall)], NEW c \in Terminal!Context,
         calls[c] # <<>>, calls' = [calls EXCEPT ![c] = Terminal!Front(@)]
  PROVE  /\ calls' \in [Terminal!Context -> Seq(PrintCall)]
         /\ \A d \in Terminal!Context : d # c => calls'[d] = calls[d]
         /\ Len(calls'[c]) = Len(calls[c]) - 1 /\ Len(calls[c]) \in Nat \ {0}
         /\ \A n \in 1 .. Len(calls[c]) - 1 : calls'[c][n] = calls[c][n]
  <1> DEFINE u == Terminal!Front(calls[c])
  <1>1. calls[c] \in Seq(PrintCall)
    OBVIOUS
  <1>2. /\ Len(calls[c]) \in Nat \ {0} /\ u \in Seq(PrintCall) /\ Len(u) = Len(calls[c]) - 1
        /\ \A i \in 1 .. Len(calls[c]) - 1 : u[i] = calls[c][i]
    BY <1>1, LastAndFront
  <1>3. calls' = [calls EXCEPT ![c] = u]
    OBVIOUS
  <1> HIDE DEF u
  <1>4. /\ calls' \in [Terminal!Context -> Seq(PrintCall)]
        /\ calls'[c] = u /\ \A d \in Terminal!Context : d # c => calls'[d] = calls[d]
    BY <1>2, <1>3
  <1> QED BY <1>2, <1>4

\* Calls cs2 that come from cs: each has moved on, or is the next to begin.
Follows(cs, cs2, st) ==
  \A d \in Terminal!Context : \A n \in 1 .. Len(cs2[d]) :
    \/ /\ n \in 1 .. Len(cs[d]) /\ cs2[d][n].id = cs[d][n].id
       /\ cs2[d][n].at = "acquire" => cs[d][n].at = "acquire"
    \/ cs2[d][n].id = st + 1

\* Nothing is printed.
LEMMA CharsFollow ==
  ASSUME NEW s \in Seq(Printed), NEW cs, NEW cs2, NEW st \in Nat, NEW st2 \in Nat, st <= st2,
         Follows(cs, cs2, st), CharsOf(s, cs, st)
  PROVE  CharsOf(s, cs2, st2)
  <1> SUFFICES ASSUME NEW i \in 1 .. Len(s)
               PROVE  /\ s[i].call <= st2
                      /\ \A c \in Terminal!Context : \A n \in 1 .. Len(cs2[c]) :
                           cs2[c][n].id = s[i].call => s[i].by = c /\ cs2[c][n].at # "acquire"
    BY DEF CharsOf
  <1>1. s[i].call \in Nat /\ s[i].call <= st
    <2>1. s[i] \in Printed
      OBVIOUS
    <2> QED BY <2>1 DEF CharsOf, Printed
  <1>2. ASSUME NEW c \in Terminal!Context, NEW n \in 1 .. Len(cs2[c]), cs2[c][n].id = s[i].call
        PROVE  s[i].by = c /\ cs2[c][n].at # "acquire"
    <2>1. /\ n \in 1 .. Len(cs[c]) /\ cs2[c][n].id = cs[c][n].id
          /\ cs2[c][n].at = "acquire" => cs[c][n].at = "acquire"
      BY <1>1, <1>2 DEF Follows
    <2>2. cs[c][n].id = s[i].call => s[i].by = c /\ cs[c][n].at # "acquire"
      BY <2>1 DEF CharsOf
    <2> QED BY <1>2, <2>1, <2>2
  <1> QED BY <1>1, <1>2

\* A call that is cut off stays so while nothing is printed.
LEMMA CutFollow ==
  ASSUME NEW s \in Seq(Printed), NEW cs, NEW cs2, NEW st \in Nat, NEW p, NEW p2,
         Follows(cs, cs2, st), CharsOf(s, cs, st), CutOff(s, cs, p),
         \A c \in Terminal!Context : MayPrint(c, p2) => MayPrint(c, p)
  PROVE  CutOff(s, cs2, p2)
  <1> SUFFICES ASSUME NEW i \in 1 .. Len(s), Cut(s, i), NEW c \in Terminal!Context, MayPrint(c, p2),
                      NEW n \in 1 .. Len(cs2[c]), cs2[c][n].id = s[i].call
               PROVE  FALSE
    BY DEF CutOff
  <1>1. s[i].call \in Nat /\ s[i].call <= st
    <2>1. s[i] \in Printed
      OBVIOUS
    <2> QED BY <2>1 DEF CharsOf, Printed
  <1>2. n \in 1 .. Len(cs[c]) /\ cs2[c][n].id = cs[c][n].id
    BY <1>1 DEF Follows
  <1>3. MayPrint(c, p)
    OBVIOUS
  <1> QED BY <1>2, <1>3 DEF CutOff

\* A character of the call n of c is printed, and nobody else is in the middle of one.
LEMMA CharPrinted ==
  ASSUME NEW s, NEW cs, NEW cs2, NEW st \in Nat, NEW p,
         NEW c \in Terminal!Context, NEW n \in 1 .. Len(cs[c]), NEW y \in Printed,
         y.by = c, y.call = cs[c][n].id, MayPrint(c, p), n \in 1 .. Len(cs2[c]),
         cs2[c][n].at # "acquire",
         \A d \in Terminal!Context : \A m \in 1 .. Len(cs2[d]) :
           m \in 1 .. Len(cs[d]) /\ cs2[d][m].id = cs[d][m].id,
         c # HANDLER =>
           \A d \in Terminal!Context : MayPrint(d, p) /\ d # c =>
             \A m \in 1 .. Len(cs[d]) : cs[d][m].at = "acquire",
         Follows(cs, cs2, st), Ids(cs, st),
         OutputOK(s, cs, st, p)
  PROVE  OutputOK(Append(s, y), cs2, st, p)
  <1> DEFINE L == Len(s)
             s2 == Append(s, y)
  <1>0. s \in Seq(Printed) /\ CharsOf(s, cs, st) /\ CutOff(s, cs, p) /\ Terminal!InOnePiece(s)
    BY DEF OutputOK
  <1>1. /\ L \in Nat /\ s2 \in Seq(Printed) /\ Len(s2) = L + 1 /\ s2[L + 1] = y
        /\ \A i \in 1 .. L : s2[i] = s[i]
    BY <1>0
  <1> HIDE DEF s2
  <1>2. CharsOf(s2, cs2, st)
    <2>1. CharsOf(s, cs2, st)
      BY <1>0, CharsFollow
    <2>2. y.call <= st /\ \A d \in Terminal!Context : \A m \in 1 .. Len(cs2[d]) :
            cs2[d][m].id = y.call => y.by = d /\ cs2[d][m].at # "acquire"
      BY DEF Ids
    <2>3. ASSUME NEW i \in 1 .. L + 1 PROVE i \in 1 .. L \/ i = L + 1
      BY <1>1
    <2> QED BY <1>1, <2>1, <2>2, <2>3 DEF CharsOf
  <1>3. ASSUME NEW i \in 1 .. L, Cut(s2, i)
        PROVE  Cut(s, i) \/ (c # HANDLER /\ c # s[i].by)
    <2>1. PICK k \in i + 1 .. L + 1 : s2[k].by \notin {s2[i].by, HANDLER}
      BY <1>1, <1>3 DEF Cut
    <2>2. CASE k = L + 1
      BY <1>1, <2>1, <2>2
    <2>3. CASE k # L + 1
      <3>1. k \in i + 1 .. L /\ k \in 1 .. L
        <4>1. L \in Nat
          BY <1>1
        <4> QED BY ONLY <4>1, <2>3, i \in 1 .. L, k \in i + 1 .. L + 1
      <3> QED BY <1>1, <2>1, <3>1 DEF Cut
    <2> QED BY <2>2, <2>3
  <1>4. CutOff(s2, cs2, p)
    <2> SUFFICES ASSUME NEW i \in 1 .. L + 1, Cut(s2, i), NEW d \in Terminal!Context, MayPrint(d, p),
                        NEW m \in 1 .. Len(cs2[d]), cs2[d][m].id = s2[i].call
                 PROVE  FALSE
      BY <1>1 DEF CutOff
    <2>1. i \in 1 .. L
      <3>1. i # L + 1
        BY <1>1 DEF Cut
      <3> QED BY <1>1, <3>1
    <2>2. m \in 1 .. Len(cs[d]) /\ cs[d][m].id = s[i].call
      BY <1>1, <2>1
    <2>3. ~ Cut(s, i)
      BY <1>0, <2>1, <2>2 DEF CutOff
    <2>4. c # HANDLER /\ c # s[i].by
      BY <1>3, <2>1, <2>3
    <2>5. s[i].by = d /\ cs[d][m].at # "acquire"
      BY <1>0, <2>1, <2>2 DEF CharsOf
    <2> QED BY <2>2, <2>4, <2>5
  <1>5. Terminal!InOnePiece(s2)
    <2> SUFFICES ASSUME NEW i \in 1 .. L + 1, NEW k \in i + 1 .. L + 1,
                        s2[k].by \notin {s2[i].by, HANDLER}, NEW j \in k + 1 .. L + 1
                 PROVE  s2[j].call # s2[i].call
      <3>1. DOMAIN s2 = 1 .. L + 1
        BY <1>1
      <3> QED BY <1>1, <3>1 DEF Terminal!InOnePiece
    <2>1. i \in 1 .. L /\ k \in i + 1 .. L /\ k \in 1 .. L
      BY <1>1
    <2>2. CASE j = L + 1
      <3>1. Cut(s, i)
        BY <1>1, <2>1 DEF Cut
      <3>2. cs[c][n].id # s[i].call
        BY <1>0, <2>1, <3>1 DEF CutOff
      <3> QED BY <1>1, <2>1, <2>2, <3>2
    <2>3. CASE j # L + 1
      <3>1. j \in k + 1 .. L /\ j \in 1 .. L
        BY <1>1, <2>1, <2>3
      <3>2. i \in DOMAIN s
        BY <1>0, <2>1
      <3>3. s[k].by \notin {s[i].by, HANDLER}
        BY <1>1, <2>1
      <3>4. s[j].call # s[i].call
        BY <1>0, <2>1, <3>1, <3>2, <3>3 DEF Terminal!InOnePiece
      <3> QED BY <1>1, <2>1, <3>1, <3>4
    <2> QED BY <2>2, <2>3
  <1> QED BY <1>1, <1>2, <1>4, <1>5 DEF s2, OutputOK

\* Nothing is printed: the devices are as they were, whatever the calls did.
LEMMA OutputKept ==
  ASSUME NEW s, NEW cs, NEW cs2, NEW st \in Nat, NEW st2 \in Nat, st <= st2, NEW p, NEW p2,
         OutputOK(s, cs, st, p), Follows(cs, cs2, st),
         \A c \in Terminal!Context : MayPrint(c, p2) => MayPrint(c, p)
  PROVE  OutputOK(s, cs2, st2, p2)
  <1>1. s \in Seq(Printed) /\ CharsOf(s, cs, st) /\ CutOff(s, cs, p) /\ Terminal!InOnePiece(s)
    BY DEF OutputOK
  <1>2. CharsOf(s, cs2, st2)
    BY <1>1, CharsFollow
  <1>3. CutOff(s, cs2, p2)
    BY <1>1, CutFollow
  <1> QED BY <1>1, <1>2, <1>3 DEF OutputOK

\* The call of c that is under way has moved on, with the lock or without.
LEMMA MovedOn ==
  ASSUME ConsoleTypeOK, Ids(calls, started), NEW c \in Terminal!Context, calls[c] # <<>>,
         NEW x \in PrintCall, x.id = calls[c][Len(calls[c])].id, x.at # "acquire",
         calls' = Terminal!Update(c, x)
  PROVE  /\ \A d \in Terminal!Context : \A m \in 1 .. Len(calls'[d]) :
              m \in 1 .. Len(calls[d]) /\ calls'[d][m].id = calls[d][m].id
         /\ Follows(calls, calls', started) /\ Ids(calls', started)
         /\ \A d \in Terminal!Context : calls'[d] = <<>> <=> calls[d] = <<>>
  <1>1. /\ calls \in [Terminal!Context -> Seq(PrintCall)]
        /\ calls' \in [Terminal!Context -> Seq(PrintCall)]
        /\ \A d \in Terminal!Context : Len(calls'[d]) = Len(calls[d])
        /\ \A d \in Terminal!Context : d # c => calls'[d] = calls[d]
        /\ calls'[c][Len(calls[c])] = x /\ Len(calls[c]) \in 1 .. Len(calls[c])
        /\ \A n \in 1 .. Len(calls[c]) : n # Len(calls[c]) => calls'[c][n] = calls[c][n]
    BY Updated DEF ConsoleTypeOK
  <1>2. ASSUME NEW d \in Terminal!Context, NEW m \in 1 .. Len(calls'[d])
        PROVE  /\ m \in 1 .. Len(calls[d]) /\ calls'[d][m].id = calls[d][m].id
               /\ calls'[d][m].at = "acquire" => calls[d][m].at = "acquire"
    <2>1. CASE d # c
      BY <1>1, <1>2, <2>1
    <2>2. CASE d = c /\ m # Len(calls[c])
      BY <1>1, <1>2, <2>2
    <2>3. CASE d = c /\ m = Len(calls[c])
      BY <1>1, <1>2, <2>3
    <2> QED BY <2>1, <2>2, <2>3
  <1>3. Follows(calls, calls', started)
    BY <1>2 DEF Follows
  <1>4. Ids(calls', started)
    BY <1>2 DEF Ids
  <1>5. \A d \in Terminal!Context : calls'[d] = <<>> <=> calls[d] = <<>>
    <2> TAKE d \in Terminal!Context
    <2>1. calls'[d] \in Seq(PrintCall) /\ calls[d] \in Seq(PrintCall) /\ Len(calls'[d]) = Len(calls[d])
      BY <1>1
    <2> QED BY <2>1
  <1> QED BY <1>2, <1>3, <1>4, <1>5

\* A call has begun.
LEMMA Begun ==
  ASSUME ConsoleTypeOK, Ids(calls, started), NEW c \in Terminal!Context, NEW text \in Seq(STRING),
         calls' = Terminal!Enter(c, text)
  PROVE  /\ Follows(calls, calls', started) /\ Ids(calls', started + 1)
         /\ calls'[c] # <<>>
         /\ \A t \in Process : Taken(calls', t) = Taken(calls, t)
  <1>1. /\ calls \in [Terminal!Context -> Seq(PrintCall)] /\ started \in Nat
        /\ calls' \in [Terminal!Context -> Seq(PrintCall)]
        /\ \A d \in Terminal!Context : d # c => calls'[d] = calls[d]
        /\ Len(calls'[c]) = Len(calls[c]) + 1 /\ Len(calls[c]) \in Nat
        /\ calls'[c][Len(calls[c]) + 1] = [id |-> started + 1, todo |-> text, at |-> "acquire"]
        /\ \A n \in 1 .. Len(calls[c]) : calls'[c][n] = calls[c][n]
    BY CallEntered DEF ConsoleTypeOK
  <1> DEFINE New(d, m) == d = c /\ m = Len(calls[c]) + 1
  <1>2. ASSUME NEW d \in Terminal!Context, NEW m \in 1 .. Len(calls'[d])
        PROVE  \/ ~ New(d, m) /\ m \in 1 .. Len(calls[d]) /\ calls'[d][m] = calls[d][m]
               \/ New(d, m) /\ calls'[d][m].id = started + 1 /\ calls'[d][m].at = "acquire"
    <2>1. CASE d # c
      BY <1>1, <1>2, <2>1
    <2>2. CASE d = c /\ m = Len(calls[c]) + 1
      BY <1>1, <1>2, <2>2
    <2>3. CASE d = c /\ m # Len(calls[c]) + 1
      <3>1. m \in 1 .. Len(calls[c])
        BY <1>1, <1>2, <2>3
      <3> QED BY <1>1, <2>3, <3>1
    <2> QED BY <2>1, <2>2, <2>3
  <1>3. \A d \in Terminal!Context : \A m \in 1 .. Len(calls[d]) :
          calls[d][m].id \in Nat /\ calls[d][m].id <= started
    <2> TAKE d \in Terminal!Context
    <2> TAKE m \in 1 .. Len(calls[d])
    <2>1. calls[d][m] \in PrintCall
      BY <1>1
    <2> QED BY <2>1 DEF PrintCall, Ids
  <1> HIDE DEF New
  <1>4. Follows(calls, calls', started)
    BY <1>2 DEF Follows
  <1>5. Ids(calls', started + 1)
    <2>1. ASSUME NEW d \in Terminal!Context, NEW m \in 1 .. Len(calls'[d])
          PROVE  calls'[d][m].id <= started + 1
      BY <1>1, <1>2, <1>3
    <2>2. ASSUME NEW d \in Terminal!Context, NEW m \in 1 .. Len(calls'[d]),
                 NEW e \in Terminal!Context, NEW n \in 1 .. Len(calls'[e]),
                 calls'[d][m].id = calls'[e][n].id
          PROVE  d = e /\ m = n
      <3>1. CASE New(d, m) /\ New(e, n)
        BY <3>1 DEF New
      <3>2. CASE ~ New(d, m) /\ ~ New(e, n)
        <4>1. m \in 1 .. Len(calls[d]) /\ n \in 1 .. Len(calls[e]) /\ calls[d][m].id = calls[e][n].id
          BY <1>2, <2>2, <3>2
        <4> QED BY <4>1 DEF Ids
      <3>3. CASE New(d, m) /\ ~ New(e, n)
        <4>1. calls'[d][m].id = started + 1 /\ calls'[e][n].id \in Nat /\ calls'[e][n].id <= started
          BY <1>2, <1>3, <3>3
        <4> QED BY <1>1, <2>2, <4>1
      <3>4. CASE ~ New(d, m) /\ New(e, n)
        <4>1. calls'[e][n].id = started + 1 /\ calls'[d][m].id \in Nat /\ calls'[d][m].id <= started
          BY <1>2, <1>3, <3>4
        <4> QED BY <1>1, <2>2, <4>1
      <3> QED BY <3>1, <3>2, <3>3, <3>4
    <2> QED BY <2>1, <2>2 DEF Ids
  <1>6. calls'[c] # <<>>
    BY <1>1
  <1>7. ASSUME NEW t \in Process
        PROVE  Taken(calls', t) = Taken(calls, t)
    <2>1. t \in Terminal!Context
      BY DEF Terminal!Context
    <2>2. CASE t # c
      BY <1>1, <2>1, <2>2 DEF Taken
    <2>3. CASE t = c
      <3>1. \A i : i \in 1 .. Len(calls'[c]) <=> i \in 1 .. Len(calls[c]) \/ i = Len(calls[c]) + 1
        BY <1>1
      <3>2. calls'[c][Len(calls[c]) + 1].at = "acquire"
        BY <1>1
      <3> QED BY <1>1, <2>3, <3>1, <3>2 DEF Taken
    <2> QED BY <2>2, <2>3
  <1> QED BY <1>4, <1>5, <1>6, <1>7

\* The innermost call of a context that is in one.
LEMMA CurrentCall ==
  ASSUME ConsoleTypeOK, NEW c \in Terminal!Context, calls[c] # <<>>
  PROVE  /\ Terminal!Current(c) = calls[c][Len(calls[c])] /\ Terminal!Current(c) \in PrintCall
         /\ Terminal!Current(c).id \in Nat /\ Terminal!Current(c).todo \in Seq(STRING)
         /\ Len(calls[c]) \in Nat \ {0} /\ Len(calls[c]) \in 1 .. Len(calls[c])
  <1>1. calls[c] \in Seq(PrintCall)
    BY DEF ConsoleTypeOK
  <1>2. /\ Len(calls[c]) \in Nat \ {0}
        /\ Terminal!Last(calls[c]) = calls[c][Len(calls[c])] /\ Terminal!Last(calls[c]) \in PrintCall
    BY <1>1, LastAndFront
  <1>3. Len(calls[c]) \in 1 .. Len(calls[c])
    BY <1>2
  <1>4. \A x \in PrintCall : x.id \in Nat /\ x.todo \in Seq(STRING)
    BY DEF PrintCall
  <1> QED BY <1>2, <1>3, <1>4 DEF Terminal!Current

\* A thread that prints is alone: others wait for the lock, or cannot run.
LEMMA Alone ==
  ASSUME ConsoleIInv, NEW c \in Terminal!Context, c # HANDLER, Terminal!MayRun(c), calls[c] # <<>>,
         Terminal!Current(c).at # "acquire", NEW d \in Terminal!Context, d # c, MayPrint(d, panicked),
         NEW m \in 1 .. Len(calls[d])
  PROVE  calls[d][m].at = "acquire"
  <1> USE DEF ConsoleIInv
  <1>1. Len(calls[c]) \in 1 .. Len(calls[c]) /\ calls[c][Len(calls[c])].at # "acquire"
    BY CurrentCall
  <1>2. calls[d] \in Seq(PrintCall) /\ calls[d] # <<>>
    BY DEF ConsoleTypeOK
  <1>3. c \in Process
    BY DEF Terminal!Context
  <1>4. panicked = NOBODY /\ level = 0
    BY DEF Terminal!MayRun, MayPrint, ConsoleTypeOK
  <1>5. use_console_lock
    BY <1>2, <1>4 DEF EarlyOK, Terminal!MayRun, Terminal!EarlyBoot
  <1>6. d \in Process
    <2>1. calls[HANDLER] = <<>>
      BY <1>4, <1>5 DEF Terminal!MayRun, Terminal!EarlyBoot
    <2> QED BY <1>2, <2>1 DEF Terminal!Context
  <1>7. Len(calls[c]) \in Taken(calls, c)
    BY <1>1 DEF Taken
  <1>8. holder = c
    BY <1>3, <1>5, <1>7 DEF DepthOK
  <1>9. Taken(calls, d) = {}
    BY <1>5, <1>6, <1>8 DEF DepthOK
  <1> QED BY <1>9 DEF Taken

\* The calls that have taken the lock after one moved on.
LEMMA TakenMoved ==
  ASSUME ConsoleTypeOK, NEW c \in Terminal!Context, calls[c] # <<>>, NEW x \in PrintCall,
         x.at # "acquire", calls' = Terminal!Update(c, x)
  PROVE  /\ \A t \in Process : t # c => Taken(calls', t) = Taken(calls, t)
         /\ Taken(calls', c) = Taken(calls, c) \union {Len(calls[c])}
  <1>1. /\ \A d \in Terminal!Context : Len(calls'[d]) = Len(calls[d])
        /\ \A d \in Terminal!Context : d # c => calls'[d] = calls[d]
        /\ calls'[c][Len(calls[c])] = x /\ Len(calls[c]) \in 1 .. Len(calls[c])
        /\ \A n \in 1 .. Len(calls[c]) : n # Len(calls[c]) => calls'[c][n] = calls[c][n]
    BY Updated DEF ConsoleTypeOK
  <1>2. \A t \in Process : t \in Terminal!Context
    BY DEF Terminal!Context
  <1>3. \A t \in Process : t # c => Taken(calls', t) = Taken(calls, t)
    BY <1>1, <1>2 DEF Taken
  <1>4. \A i : i \in Taken(calls', c) <=> i \in Taken(calls, c) \/ i = Len(calls[c])
    BY <1>1 DEF Taken
  <1> QED BY <1>3, <1>4

\* A context is in finitely many calls.
LEMMA TakenFinite ==
  ASSUME ConsoleTypeOK, NEW t \in Terminal!Context
  PROVE  IsFiniteSet(Taken(calls, t)) /\ Cardinality(Taken(calls, t)) \in Nat
  <1>1. Len(calls[t]) \in Nat
    BY DEF ConsoleTypeOK
  <1>2. IsFiniteSet(1 .. Len(calls[t]))
    BY <1>1, FS_Interval
  <1>3. IsFiniteSet(Taken(calls, t))
    BY <1>2, FS_Subset DEF Taken
  <1> QED BY <1>3, FS_CardinalityType

\* What any step of a call under way keeps.
LEMMA MoveFrame ==
  ASSUME ConsoleIInv, NEW c \in Terminal!Context, calls[c] # <<>>, NEW x \in PrintCall,
         x.id = Terminal!Current(c).id, x.at # "acquire", calls' = Terminal!Update(c, x),
         UNCHANGED <<use_console_lock, started, level, panicked>>,
         holder' \in Process \union {NOBODY}, console_lock_depth' \in Nat,
         ~ use_console_lock => UNCHANGED <<holder, console_lock_depth>>
  PROVE  /\ ConsoleTypeOK' /\ EarlyOK' /\ Ids(calls', started') /\ Follows(calls, calls', started)
         /\ \A d \in Terminal!Context : \A m \in 1 .. Len(calls'[d]) :
              m \in 1 .. Len(calls[d]) /\ calls'[d][m].id = calls[d][m].id
  <1> USE DEF ConsoleIInv
  <1>1. x.id = calls[c][Len(calls[c])].id
    BY CurrentCall
  <1>2. /\ \A d \in Terminal!Context : \A m \in 1 .. Len(calls'[d]) :
              m \in 1 .. Len(calls[d]) /\ calls'[d][m].id = calls[d][m].id
        /\ Follows(calls, calls', started) /\ Ids(calls', started)
        /\ \A d \in Terminal!Context : calls'[d] = <<>> <=> calls[d] = <<>>
    BY <1>1, MovedOn
  <1>3. calls' \in [Terminal!Context -> Seq(PrintCall)]
    BY Updated DEF ConsoleTypeOK
  <1>4. ConsoleTypeOK'
    BY <1>2, <1>3 DEF ConsoleTypeOK
  <1>5. EarlyOK'
    BY <1>2 DEF EarlyOK
  <1> QED BY <1>2, <1>4, <1>5

\* acquire_console(): the depth goes up, or the lock is taken for the first time.
LEMMA AcquireStep ==
  ASSUME ConsoleIInv, NEW c \in Terminal!Context, Terminal!acquire_console(c)
  PROVE  ConsoleIInv'
  <1> USE DEF ConsoleIInv
  <1> DEFINE x == [Terminal!Current(c) EXCEPT !.at = "serial"]
             L == Len(calls[c])
  <1>1. /\ Terminal!MayRun(c) /\ calls[c] # <<>> /\ Terminal!Current(c).at = "acquire"
        /\ calls' = Terminal!Update(c, x)
        /\ IF Terminal!Locks(c) THEN Terminal!Take(c) ELSE UNCHANGED <<holder, console_lock_depth>>
        /\ UNCHANGED <<use_console_lock, started, level, panicked, wire, shown>>
    BY DEF Terminal!acquire_console, Terminal!Busy, Terminal!panicVars
  <1>2. /\ Terminal!Current(c) = calls[c][L] /\ Terminal!Current(c) \in PrintCall
        /\ L \in Nat \ {0} /\ L \in 1 .. L
    BY <1>1, CurrentCall
  <1>3. /\ x \in PrintCall /\ x.id = Terminal!Current(c).id /\ x.at = "serial"
        /\ x.todo = Terminal!Current(c).todo
    BY <1>2 DEF PrintCall, CallPlace
  <1> HIDE DEF x
  <1>4. c # HANDLER => c \in Process
    BY DEF Terminal!Context
  <1>5. HANDLER \notin Process /\ NOBODY \notin Process
    BY ConsoleAssumption
  <1>6. /\ holder' \in Process \union {NOBODY} /\ console_lock_depth' \in Nat
        /\ ~ use_console_lock => UNCHANGED <<holder, console_lock_depth>>
    BY <1>1, <1>4 DEF ConsoleTypeOK, Terminal!Locks, Terminal!Take
  <1>7. /\ ConsoleTypeOK' /\ EarlyOK' /\ Ids(calls', started') /\ Follows(calls, calls', started)
    BY <1>1, <1>3, <1>6, MoveFrame
  <1>8. OutputOK(wire, calls, started, panicked)' /\ OutputOK(shown, calls, started, panicked)'
    <2>1. started \in Nat /\ started <= started
      BY DEF ConsoleTypeOK
    <2> QED BY <1>1, <1>7, <2>1, OutputKept
  <1>9. DepthOK(use_console_lock, holder, console_lock_depth, calls)'
    <2> SUFFICES ASSUME use_console_lock, NEW t \in Process
                 PROVE  IF holder' = t
                        THEN Taken(calls', t) # {} /\ console_lock_depth' = Cardinality(Taken(calls', t)) - 1
                        ELSE Taken(calls', t) = {} /\ (holder' = NOBODY => console_lock_depth' = 0)
      BY <1>1 DEF DepthOK
    <2>1. /\ \A u \in Process : u # c => Taken(calls', u) = Taken(calls, u)
          /\ Taken(calls', c) = Taken(calls, c) \union {L}
      BY <1>1, <1>3, TakenMoved
    <2>2. IF holder = t THEN Taken(calls, t) # {} /\ console_lock_depth = Cardinality(Taken(calls, t)) - 1
          ELSE Taken(calls, t) = {} /\ (holder = NOBODY => console_lock_depth = 0)
      BY DEF DepthOK
    <2>3. CASE c = HANDLER
      BY <1>1, <1>5, <2>1, <2>2, <2>3 DEF Terminal!Locks
    <2>4. CASE c # HANDLER
      <3>1. Terminal!Take(c) /\ c \in Process
        BY <1>1, <1>4, <2>4 DEF Terminal!Locks
      <3>2. CASE t # c
        <4>1. holder' = c /\ holder \in {c, NOBODY}
          BY <3>1 DEF Terminal!Take
        <4> QED BY <1>5, <2>1, <2>2, <3>1, <3>2, <4>1
      <3>3. CASE t = c
        <4>1. L \notin Taken(calls, c)
          BY <1>1, <1>2 DEF Taken
        <4>2. IsFiniteSet(Taken(calls, c)) /\ Cardinality(Taken(calls, c)) \in Nat
          BY TakenFinite
        <4>3. Cardinality(Taken(calls', c)) = Cardinality(Taken(calls, c)) + 1
          BY <2>1, <4>1, <4>2, FS_AddElement
        <4>4. holder' = c /\ Taken(calls', c) # {}
          BY <2>1, <3>1 DEF Terminal!Take
        <4> SUFFICES console_lock_depth' = Cardinality(Taken(calls', c)) - 1
          BY <3>3, <4>4
        <4>5. CASE holder = c
          <5>1. console_lock_depth' = console_lock_depth + 1 /\ console_lock_depth = Cardinality(Taken(calls, c)) - 1
            BY <2>2, <3>1, <3>3, <4>5 DEF Terminal!Take
          <5> QED BY <4>2, <4>3, <5>1
        <4>6. CASE holder # c
          <5>1. holder = NOBODY /\ console_lock_depth' = console_lock_depth
            BY <3>1, <4>6 DEF Terminal!Take
          <5>2. Taken(calls, c) = {} /\ console_lock_depth = 0
            BY <2>2, <3>3, <4>6, <5>1
          <5>3. Cardinality(Taken(calls', c)) = 1
            BY <4>3, <5>2, FS_EmptySet
          <5> QED BY <5>1, <5>2, <5>3
        <4> QED BY <4>5, <4>6
      <3> QED BY <3>2, <3>3
    <2> QED BY <2>3, <2>4
  <1>10. PanicOK'
    <2> SUFFICES ASSUME level = 1
                 PROVE  PanicOf(calls'[panicked][Len(calls'[panicked])], wire, shown, panicked, started)
      BY <1>1 DEF PanicOK
    <2>1. c = panicked
      BY <1>1 DEF Terminal!MayRun, ConsoleTypeOK
    <2>2. calls'[c][Len(calls'[c])] = x
      BY <1>1, <1>3, Updated DEF ConsoleTypeOK
    <2>3. PanicOf(Terminal!Current(c), wire, shown, panicked, started)
      BY <1>2, <2>1 DEF PanicOK
    <2> QED BY <1>1, <1>3, <2>1, <2>2, <2>3 DEF PanicOf
  <1> QED BY <1>7, <1>8, <1>9, <1>10

\* A call that has the lock keeps it as it moves on.
LEMMA DepthKept ==
  ASSUME ConsoleIInv, NEW c \in Terminal!Context, calls[c] # <<>>, Terminal!Current(c).at # "acquire",
         NEW x \in PrintCall, x.at # "acquire", calls' = Terminal!Update(c, x),
         UNCHANGED <<use_console_lock, holder, console_lock_depth>>
  PROVE  DepthOK(use_console_lock, holder, console_lock_depth, calls)'
  <1> USE DEF ConsoleIInv
  <1>1. Len(calls[c]) \in Taken(calls, c)
    BY CurrentCall DEF Taken
  <1>2. /\ \A t \in Process : t # c => Taken(calls', t) = Taken(calls, t)
        /\ Taken(calls', c) = Taken(calls, c) \union {Len(calls[c])}
    BY TakenMoved
  <1>3. \A t \in Process : Taken(calls', t) = Taken(calls, t)
    BY <1>1, <1>2
  <1> QED BY <1>3 DEF DepthOK

\* The character that the call of c is at.
LEMMA NextChar ==
  ASSUME ConsoleTypeOK, NEW c \in Terminal!Context, calls[c] # <<>>, Terminal!Current(c).todo # <<>>
  PROVE  /\ Terminal!Char(c) \in Printed /\ Terminal!Char(c).by = c
         /\ Terminal!Char(c).call = calls[c][Len(calls[c])].id
         /\ Terminal!Char(c).char = Terminal!Current(c).todo[1]
  <1>1. /\ Terminal!Current(c) = calls[c][Len(calls[c])] /\ Terminal!Current(c).id \in Nat
        /\ Terminal!Current(c).todo \in Seq(STRING)
    BY CurrentCall
  <1>2. Head(Terminal!Current(c).todo) \in STRING
        /\ Head(Terminal!Current(c).todo) = Terminal!Current(c).todo[1]
    BY <1>1
  <1> QED BY <1>1, <1>2 DEF Terminal!Char, Printed

\* One more character of the panic message.
LEMMA TailAppended ==
  ASSUME NEW s \in Seq(Printed), NEW p, NEW st, NEW m \in Nat, PanicTail(s, m, p, st),
         NEW y, y = [by |-> p, call |-> st, char |-> PanicText[1][m + 1]]
  PROVE  PanicTail(Append(s, y), m + 1, p, st)
  <1> DEFINE s2 == Append(s, y)
  <1>1. /\ Len(s) \in Nat /\ Len(s2) = Len(s) + 1 /\ s2[Len(s) + 1] = y
        /\ \A i \in 1 .. Len(s) : s2[i] = s[i]
    OBVIOUS
  <1> HIDE DEF s2
  <1>2. Len(s) >= m /\ Len(s2) >= m + 1
    BY <1>1 DEF PanicTail
  <1>3. ASSUME NEW i \in 1 .. m + 1
        PROVE  s2[Len(s2) - (m + 1) + i] = [by |-> p, call |-> st, char |-> PanicText[1][i]]
    <2>1. Len(s2) - (m + 1) + i = Len(s) - m + i
      BY <1>1
    <2>2. CASE i = m + 1
      <3>1. Len(s) - m + i = Len(s) + 1
        BY <1>1, <2>2
      <3> QED BY <1>1, <2>1, <2>2, <3>1
    <2>3. CASE i # m + 1
      <3>1. i \in 1 .. m /\ Len(s) - m + i \in 1 .. Len(s)
        BY <1>1, <1>2, <2>3
      <3> QED BY <1>1, <2>1, <3>1 DEF PanicTail
    <2> QED BY <2>2, <2>3
  <1> QED BY <1>2, <1>3 DEF PanicTail, s2

\* serial_putc(): nobody else is in the middle of a message on the line.
LEMMA SerialStep ==
  ASSUME ConsoleIInv, NEW c \in Terminal!Context, Terminal!SerialPutc(c)
  PROVE  ConsoleIInv'
  <1> USE DEF ConsoleIInv
  <1> DEFINE x == [Terminal!Current(c) EXCEPT !.at = "vga"]
             y == Terminal!Char(c)
             L == Len(calls[c])
  <1>1. /\ Terminal!MayRun(c) /\ calls[c] # <<>>
        /\ Terminal!Current(c).at = "serial" /\ Terminal!Current(c).todo # <<>>
        /\ calls' = Terminal!Update(c, x) /\ wire' = Append(wire, y)
        /\ UNCHANGED <<use_console_lock, holder, console_lock_depth, started, level, panicked, shown>>
    BY DEF Terminal!SerialPutc, Terminal!Busy, Terminal!panicVars, Terminal!lockVars
  <1>2. /\ Terminal!Current(c) = calls[c][L] /\ Terminal!Current(c) \in PrintCall
        /\ L \in Nat \ {0} /\ L \in 1 .. L
    BY <1>1, CurrentCall
  <1>3. /\ x \in PrintCall /\ x.id = Terminal!Current(c).id /\ x.at = "vga"
        /\ x.todo = Terminal!Current(c).todo
    BY <1>1, <1>2 DEF PrintCall, CallPlace
  <1>4. y \in Printed /\ y.by = c /\ y.call = calls[c][L].id /\ y.char = Terminal!Current(c).todo[1]
    BY <1>1, NextChar
  <1> HIDE DEF x, y
  <1>5. /\ ConsoleTypeOK' /\ EarlyOK' /\ Ids(calls', started') /\ Follows(calls, calls', started)
        /\ \A d \in Terminal!Context : \A m \in 1 .. Len(calls'[d]) :
             m \in 1 .. Len(calls[d]) /\ calls'[d][m].id = calls[d][m].id
    BY <1>1, <1>3, MoveFrame DEF ConsoleTypeOK
  <1>6. calls'[c][Len(calls'[c])] = x /\ Len(calls'[c]) = L
    BY <1>1, <1>3, Updated DEF ConsoleTypeOK
  <1>7. started \in Nat /\ started <= started
    BY DEF ConsoleTypeOK
  <1>8. OutputOK(shown, calls, started, panicked)'
    BY <1>1, <1>5, <1>7, OutputKept
  <1>9. OutputOK(wire, calls, started, panicked)'
    <2>1. MayPrint(c, panicked)
      BY <1>1 DEF MayPrint, Terminal!MayRun
    <2>2. c # HANDLER =>
            \A d \in Terminal!Context : MayPrint(d, panicked) /\ d # c =>
              \A m \in 1 .. Len(calls[d]) : calls[d][m].at = "acquire"
      BY <1>1, Alone
    <2>3. L \in 1 .. Len(calls[c]) /\ L \in 1 .. Len(calls'[c]) /\ calls'[c][L].at # "acquire"
      BY <1>2, <1>3, <1>6
    <2>4. OutputOK(Append(wire, y), calls', started, panicked)
      BY <1>4, <1>5, <1>7, <2>1, <2>2, <2>3, CharPrinted
    <2> QED BY <1>1, <2>4
  <1>10. DepthOK(use_console_lock, holder, console_lock_depth, calls)'
    BY <1>1, <1>3, DepthKept
  <1>11. PanicOK'
    <2> SUFFICES ASSUME level = 1
                 PROVE  PanicOf(x, Append(wire, y), shown, panicked, started)
      <3>1. level = 1 => c = panicked
        BY <1>1 DEF Terminal!MayRun, ConsoleTypeOK
      <3> QED BY <1>1, <1>6, <3>1 DEF PanicOK
    <2>1. c = panicked
      BY <1>1 DEF Terminal!MayRun, ConsoleTypeOK
    <2>2. PanicOf(Terminal!Current(c), wire, shown, panicked, started)
      BY <1>2, <2>1 DEF PanicOK
    <2> DEFINE n == Len(PanicText[1])
    <2>3. n \in Nat
      BY ConsoleAssumption
    <2>4. PICK m \in 0 .. n :
             /\ Len(Terminal!Current(c).todo) = n - m
             /\ \A i \in 1 .. n - m : Terminal!Current(c).todo[i] = PanicText[1][m + i]
             /\ PanicTail(shown, m, panicked, started) /\ PanicTail(wire, m, panicked, started)
      BY <1>1, <2>2 DEF PanicOf
    <2>5. Terminal!Current(c).todo \in Seq(STRING) /\ Len(Terminal!Current(c).todo) # 0
      BY <1>1, CurrentCall
    <2>6. m < n /\ y.char = PanicText[1][m + 1] /\ m \in Nat
      BY <1>4, <2>3, <2>4, <2>5
    <2>7. y.call = started /\ Terminal!Current(c).id = started
      BY <1>2, <1>4, <2>2 DEF PanicOf
    <2>8. y = [by |-> panicked, call |-> started, char |-> PanicText[1][m + 1]]
      BY <1>4, <2>1, <2>6, <2>7 DEF Printed
    <2>9. PanicTail(Append(wire, y), m + 1, panicked, started)
      BY <2>4, <2>6, <2>8, TailAppended DEF OutputOK
    <2> QED BY <1>3, <2>4, <2>6, <2>7, <2>9 DEF PanicOf
  <1> QED BY <1>5, <1>8, <1>9, <1>10, <1>11

\* What is left after the first character.
LEMMA TailOf ==
  ASSUME NEW S, NEW s \in Seq(S), s # <<>>
  PROVE  /\ Tail(s) \in Seq(S) /\ Len(Tail(s)) = Len(s) - 1 /\ Len(s) \in Nat \ {0}
         /\ \A i \in 1 .. Len(s) - 1 : Tail(s)[i] = s[i + 1]
  OBVIOUS

\* vga_putc(): the display follows the serial line, one character behind.
LEMMA VgaStep ==
  ASSUME ConsoleIInv, NEW c \in Terminal!Context, Terminal!VgaPutc(c)
  PROVE  ConsoleIInv'
  <1> USE DEF ConsoleIInv
  <1> DEFINE place == IF Terminal!Beeps(c) THEN "beep" ELSE "serial"
             x == [Terminal!Current(c) EXCEPT !.todo = Tail(@), !.at = place]
             y == Terminal!Char(c)
             L == Len(calls[c])
             T == Terminal!Current(c).todo
  <1>1. /\ Terminal!MayRun(c) /\ calls[c] # <<>> /\ Terminal!Current(c).at = "vga"
        /\ calls' = Terminal!Update(c, x) /\ shown' = Append(shown, y)
        /\ UNCHANGED <<use_console_lock, holder, console_lock_depth, started, level, panicked, wire>>
    BY DEF Terminal!VgaPutc, Terminal!Busy, Terminal!panicVars, Terminal!lockVars
  <1>2. /\ Terminal!Current(c) = calls[c][L] /\ Terminal!Current(c) \in PrintCall
        /\ L \in Nat \ {0} /\ L \in 1 .. L /\ T \in Seq(STRING)
    BY <1>1, CurrentCall
  <1>3. T # <<>>
    BY <1>1, <1>2 DEF PrintCall
  <1>4. /\ Tail(T) \in Seq(STRING) /\ Len(Tail(T)) = Len(T) - 1 /\ Len(T) \in Nat \ {0}
        /\ \A i \in 1 .. Len(T) - 1 : Tail(T)[i] = T[i + 1]
    BY <1>2, <1>3, TailOf
  <1>5. place \in {"beep", "serial"} /\ (panicked # NOBODY => place = "serial")
    BY DEF Terminal!Beeps
  <1> HIDE DEF place
  <1>6. /\ x \in PrintCall /\ x.id = Terminal!Current(c).id /\ x.at = place /\ x.at # "acquire"
        /\ x.todo = Tail(T)
    BY <1>2, <1>4, <1>5 DEF PrintCall, CallPlace
  <1>7. y \in Printed /\ y.by = c /\ y.call = calls[c][L].id /\ y.char = T[1]
    BY <1>1, <1>3, NextChar
  <1> HIDE DEF x, y
  <1>8. /\ ConsoleTypeOK' /\ EarlyOK' /\ Ids(calls', started') /\ Follows(calls, calls', started)
        /\ \A d \in Terminal!Context : \A m \in 1 .. Len(calls'[d]) :
             m \in 1 .. Len(calls[d]) /\ calls'[d][m].id = calls[d][m].id
    BY <1>1, <1>6, MoveFrame DEF ConsoleTypeOK
  <1>9. calls'[c][Len(calls'[c])] = x /\ Len(calls'[c]) = L
    BY <1>1, <1>6, Updated DEF ConsoleTypeOK
  <1>10. started \in Nat /\ started <= started
    BY DEF ConsoleTypeOK
  <1>11. OutputOK(wire, calls, started, panicked)'
    BY <1>1, <1>8, <1>10, OutputKept
  <1>12. OutputOK(shown, calls, started, panicked)'
    <2>1. MayPrint(c, panicked)
      BY <1>1 DEF MayPrint, Terminal!MayRun
    <2>2. c # HANDLER =>
            \A d \in Terminal!Context : MayPrint(d, panicked) /\ d # c =>
              \A m \in 1 .. Len(calls[d]) : calls[d][m].at = "acquire"
      BY <1>1, Alone
    <2>3. L \in 1 .. Len(calls[c]) /\ L \in 1 .. Len(calls'[c]) /\ calls'[c][L].at # "acquire"
      BY <1>2, <1>6, <1>9
    <2>4. OutputOK(Append(shown, y), calls', started, panicked)
      BY <1>7, <1>8, <1>10, <2>1, <2>2, <2>3, CharPrinted
    <2> QED BY <1>1, <2>4
  <1>13. DepthOK(use_console_lock, holder, console_lock_depth, calls)'
    BY <1>1, <1>6, DepthKept
  <1>14. PanicOK'
    <2> SUFFICES ASSUME level = 1
                 PROVE  PanicOf(x, wire, Append(shown, y), panicked, started)
      <3>1. level = 1 => c = panicked
        BY <1>1 DEF Terminal!MayRun, ConsoleTypeOK
      <3> QED BY <1>1, <1>9, <3>1 DEF PanicOK
    <2>1. c = panicked /\ x.at = "serial"
      BY <1>1, <1>5, <1>6 DEF Terminal!MayRun, ConsoleTypeOK
    <2>2. PanicOf(Terminal!Current(c), wire, shown, panicked, started)
      BY <1>2, <2>1 DEF PanicOK
    <2> DEFINE n == Len(PanicText[1])
    <2>3. n \in Nat
      BY ConsoleAssumption
    <2>4. PICK m \in 0 .. n :
             /\ Len(T) = n - m
             /\ \A i \in 1 .. n - m : T[i] = PanicText[1][m + i]
             /\ PanicTail(shown, m, panicked, started) /\ PanicTail(wire, m + 1, panicked, started)
             /\ m < n
      BY <1>1, <2>2 DEF PanicOf
    <2>5. m \in Nat /\ m + 1 \in 0 .. n /\ y.char = PanicText[1][m + 1]
      BY <1>7, <2>3, <2>4
    <2>6. y.call = started /\ Terminal!Current(c).id = started
      BY <1>2, <1>7, <2>2 DEF PanicOf
    <2>7. y = [by |-> panicked, call |-> started, char |-> PanicText[1][m + 1]]
      BY <1>7, <2>1, <2>5, <2>6 DEF Printed
    <2>8. PanicTail(Append(shown, y), m + 1, panicked, started)
      BY <2>4, <2>5, <2>7, TailAppended DEF OutputOK
    <2>9. Len(x.todo) = n - (m + 1) /\ \A i \in 1 .. n - (m + 1) : x.todo[i] = PanicText[1][(m + 1) + i]
      <3>1. Len(x.todo) = n - (m + 1)
        BY <1>4, <1>6, <2>3, <2>4
      <3>2. ASSUME NEW i \in 1 .. n - (m + 1) PROVE x.todo[i] = PanicText[1][(m + 1) + i]
        <4>1. i \in 1 .. Len(T) - 1 /\ i + 1 \in 1 .. n - m /\ m + (i + 1) = (m + 1) + i
          <5>1. m \in 0 .. n /\ Len(T) = n - m
            BY <2>4
          <5> HIDE DEF T, n
          <5> QED BY ONLY <2>3, <5>1, i \in 1 .. n - (m + 1)
        <4> QED BY <1>4, <1>6, <2>4, <4>1
      <3> QED BY <3>1, <3>2
    <2>10. x.id = started /\ PanicTail(wire, IF x.at = "vga" THEN (m + 1) + 1 ELSE m + 1, panicked, started)
      BY <1>6, <2>1, <2>4, <2>6
    <2> QED BY <2>1, <2>5, <2>8, <2>9, <2>10 DEF PanicOf
  <1> QED BY <1>8, <1>11, <1>12, <1>13, <1>14

\* speaker_beep() returns; the first panic does not beep.
LEMMA BeepStep ==
  ASSUME ConsoleIInv, NEW c \in Terminal!Context, Terminal!EndBeep(c)
  PROVE  ConsoleIInv'
  <1> USE DEF ConsoleIInv
  <1> DEFINE x == [Terminal!Current(c) EXCEPT !.at = "serial"]
  <1>1. /\ Terminal!MayRun(c) /\ calls[c] # <<>> /\ Terminal!Current(c).at = "beep"
        /\ calls' = Terminal!Update(c, x)
        /\ UNCHANGED <<use_console_lock, holder, console_lock_depth, started, level, panicked, wire, shown>>
    BY DEF Terminal!EndBeep, Terminal!Busy, Terminal!panicVars, Terminal!lockVars
  <1>2. Terminal!Current(c) = calls[c][Len(calls[c])] /\ Terminal!Current(c) \in PrintCall
    BY <1>1, CurrentCall
  <1>3. x \in PrintCall /\ x.id = Terminal!Current(c).id /\ x.at = "serial"
    BY <1>2 DEF PrintCall, CallPlace
  <1> HIDE DEF x
  <1>4. /\ ConsoleTypeOK' /\ EarlyOK' /\ Ids(calls', started') /\ Follows(calls, calls', started)
    BY <1>1, <1>3, MoveFrame DEF ConsoleTypeOK
  <1>5. OutputOK(wire, calls, started, panicked)' /\ OutputOK(shown, calls, started, panicked)'
    <2>1. started \in Nat /\ started <= started
      BY DEF ConsoleTypeOK
    <2> QED BY <1>1, <1>4, <2>1, OutputKept
  <1>6. DepthOK(use_console_lock, holder, console_lock_depth, calls)'
    BY <1>1, <1>3, DepthKept
  <1>7. level # 1
    <2> SUFFICES ASSUME level = 1 PROVE FALSE
      OBVIOUS
    <2>1. c = panicked
      BY <1>1 DEF Terminal!MayRun, ConsoleTypeOK
    <2> QED BY <1>1, <1>2, <2>1 DEF PanicOK, PanicOf
  <1> QED BY <1>1, <1>4, <1>5, <1>6, <1>7 DEF PanicOK

\* A call begins: it has an id of its own and has not taken the lock.
LEMMA PrintStep ==
  ASSUME ConsoleIInv, NEW c \in Terminal!Context, Terminal!StartPrinting(c)
  PROVE  ConsoleIInv'
  <1> USE DEF ConsoleIInv
  <1>1. PICK text \in Text : calls' = Terminal!Enter(c, text)
    BY DEF Terminal!StartPrinting
  <1>2. /\ Terminal!MayRun(c) /\ panicked = NOBODY /\ started' = started + 1
        /\ UNCHANGED <<use_console_lock, holder, console_lock_depth, level, panicked, wire, shown>>
    BY DEF Terminal!StartPrinting, Terminal!panicVars, Terminal!lockVars
  <1>3. text \in Seq(STRING)
    BY ConsoleAssumption
  <1>4. /\ Follows(calls, calls', started) /\ Ids(calls', started + 1)
        /\ \A t \in Process : Taken(calls', t) = Taken(calls, t)
    BY <1>1, <1>3, Begun
  <1>5. /\ calls' \in [Terminal!Context -> Seq(PrintCall)]
        /\ \A d \in Terminal!Context : d # c => calls'[d] = calls[d]
    BY <1>1, <1>3, CallEntered DEF ConsoleTypeOK
  <1>6. ConsoleTypeOK'
    BY <1>2, <1>5 DEF ConsoleTypeOK
  <1>7. EarlyOK'
    <2>1. ~ use_console_lock => c = Main
      BY <1>2 DEF Terminal!MayRun, Terminal!EarlyBoot, ConsoleTypeOK
    <2> QED BY <1>2, <1>5, <2>1 DEF EarlyOK
  <1>8. OutputOK(wire, calls, started, panicked)' /\ OutputOK(shown, calls, started, panicked)'
    <2>1. started \in Nat /\ started + 1 \in Nat /\ started <= started + 1
      BY DEF ConsoleTypeOK
    <2> QED BY <1>2, <1>4, <2>1, OutputKept
  <1>9. DepthOK(use_console_lock, holder, console_lock_depth, calls)'
    BY <1>2, <1>4 DEF DepthOK
  <1>10. PanicOK'
    BY <1>2 DEF PanicOK, ConsoleTypeOK
  <1> QED BY <1>2, <1>4, <1>6, <1>7, <1>8, <1>9, <1>10

\* release_console(): the outermost call is the one that gives the lock back.
LEMMA ReleaseStep ==
  ASSUME ConsoleIInv, NEW c \in Terminal!Context, Terminal!release_console(c)
  PROVE  ConsoleIInv'
  <1> USE DEF ConsoleIInv
  <1> DEFINE L == Len(calls[c])
  <1>1. /\ Terminal!MayRun(c) /\ calls[c] # <<>> /\ Terminal!Current(c).at = "serial" /\ panicked = NOBODY
        /\ calls' = [calls EXCEPT ![c] = Terminal!Front(@)]
        /\ IF Terminal!Locks(c) THEN Terminal!GiveBack ELSE UNCHANGED <<holder, console_lock_depth>>
        /\ UNCHANGED <<use_console_lock, started, level, panicked, wire, shown>>
    BY DEF Terminal!release_console, Terminal!Busy, Terminal!panicVars
  <1>2. Terminal!Current(c) = calls[c][L]
    BY <1>1, CurrentCall
  <1>3. /\ calls' \in [Terminal!Context -> Seq(PrintCall)]
        /\ \A d \in Terminal!Context : d # c => calls'[d] = calls[d]
        /\ Len(calls'[c]) = L - 1 /\ L \in Nat \ {0}
        /\ \A n \in 1 .. L - 1 : calls'[c][n] = calls[c][n]
    BY <1>1, CallLeft DEF ConsoleTypeOK
  <1>4. ASSUME NEW d \in Terminal!Context, NEW m \in 1 .. Len(calls'[d])
        PROVE  m \in 1 .. Len(calls[d]) /\ calls'[d][m] = calls[d][m]
    <2>1. CASE d # c
      BY <1>3, <1>4, <2>1
    <2>2. CASE d = c
      <3>1. m \in 1 .. L - 1 /\ m \in 1 .. L
        BY <1>3, <1>4, <2>2
      <3> QED BY <1>3, <2>2, <3>1
    <2> QED BY <2>1, <2>2
  <1>5. Follows(calls, calls', started) /\ Ids(calls', started')
    <2>1. Follows(calls, calls', started)
      BY <1>4 DEF Follows
    <2>2. \A d \in Terminal!Context : \A n \in 1 .. Len(calls'[d]) :
            n \in 1 .. Len(calls[d]) /\ calls'[d][n].id = calls[d][n].id
      BY <1>4
    <2>3. Ids(calls', started)
      BY <2>2 DEF Ids
    <2> QED BY <1>1, <2>1, <2>3
  <1>6. HANDLER \notin Process /\ NOBODY \notin Process /\ (c # HANDLER => c \in Process)
    BY ConsoleAssumption DEF Terminal!Context
  <1>7. ConsoleTypeOK'
    <2>1. holder' \in Process \union {NOBODY} /\ console_lock_depth' \in Nat
      BY <1>1 DEF ConsoleTypeOK, Terminal!GiveBack
    <2> QED BY <1>1, <1>3, <2>1 DEF ConsoleTypeOK
  <1>8. EarlyOK'
    <2>1. ~ use_console_lock => UNCHANGED <<holder, console_lock_depth>> /\ c = Main
      BY <1>1 DEF Terminal!Locks, Terminal!MayRun, Terminal!EarlyBoot, ConsoleTypeOK
    <2> QED BY <1>1, <1>3, <2>1 DEF EarlyOK
  <1>9. OutputOK(wire, calls, started, panicked)' /\ OutputOK(shown, calls, started, panicked)'
    <2>1. started \in Nat /\ started <= started
      BY DEF ConsoleTypeOK
    <2> QED BY <1>1, <1>5, <2>1, OutputKept
  <1>10. DepthOK(use_console_lock, holder, console_lock_depth, calls)'
    <2> SUFFICES ASSUME use_console_lock, NEW t \in Process
                 PROVE  IF holder' = t
                        THEN Taken(calls', t) # {} /\ console_lock_depth' = Cardinality(Taken(calls', t)) - 1
                        ELSE Taken(calls', t) = {} /\ (holder' = NOBODY => console_lock_depth' = 0)
      BY <1>1 DEF DepthOK
    <2>0. t \in Terminal!Context
      BY DEF Terminal!Context
    <2>1. \A u \in Process : u # c => Taken(calls', u) = Taken(calls, u)
      BY <1>3 DEF Taken, Terminal!Context
    <2>2. \A u \in Process :
            IF holder = u THEN Taken(calls, u) # {} /\ console_lock_depth = Cardinality(Taken(calls, u)) - 1
            ELSE Taken(calls, u) = {} /\ (holder = NOBODY => console_lock_depth = 0)
      BY DEF DepthOK
    <2>3. CASE c = HANDLER
      BY <1>1, <1>6, <2>1, <2>2, <2>3 DEF Terminal!Locks
    <2>4. CASE c # HANDLER
      <3>1. Terminal!GiveBack /\ c \in Process
        BY <1>1, <1>6, <2>4 DEF Terminal!Locks
      <3>2. L \in Taken(calls, c)
        BY <1>1, <1>2, <1>3 DEF Taken
      <3>3. holder = c /\ console_lock_depth = Cardinality(Taken(calls, c)) - 1
        BY <2>2, <3>1, <3>2
      <3>4. Taken(calls', c) = Taken(calls, c) \ {L}
        <4>1. \A i : i \in 1 .. Len(calls'[c]) <=> i \in 1 .. L /\ i # L
          BY <1>3
        <4>2. \A i \in 1 .. Len(calls'[c]) : calls'[c][i] = calls[c][i]
          BY <1>4
        <4> QED BY <4>1, <4>2 DEF Taken
      <3>5. IsFiniteSet(Taken(calls, c)) /\ Cardinality(Taken(calls, c)) \in Nat
        BY TakenFinite
      <3>6. /\ IsFiniteSet(Taken(calls', c))
            /\ Cardinality(Taken(calls', c)) = Cardinality(Taken(calls, c)) - 1
        <4>1. /\ IsFiniteSet(Taken(calls, c) \ {L})
              /\ Cardinality(Taken(calls, c) \ {L}) = Cardinality(Taken(calls, c)) - 1
          BY <3>2, <3>5, FS_RemoveElement
        <4> QED BY <3>4, <4>1
      <3>7. Taken(calls', c) = {} <=> console_lock_depth = 0
        <4>1. Taken(calls', c) = {} <=> Cardinality(Taken(calls', c)) = 0
          BY <3>6, FS_EmptySet
        <4> QED BY <3>3, <3>6, <4>1
      <3>8. CASE console_lock_depth > 0
        <4>1. holder' = c /\ console_lock_depth' = console_lock_depth - 1
          BY <3>1, <3>3, <3>8 DEF Terminal!GiveBack
        <4>2. console_lock_depth' = Cardinality(Taken(calls', c)) - 1 /\ Taken(calls', c) # {}
          BY <3>3, <3>5, <3>6, <3>7, <3>8, <4>1
        <4>3. CASE t = c
          BY <4>1, <4>2, <4>3
        <4>4. CASE t # c
          BY <1>6, <2>1, <2>2, <3>1, <3>3, <4>1, <4>4
        <4> QED BY <4>3, <4>4
      <3>9. CASE ~ (console_lock_depth > 0)
        <4>1. console_lock_depth = 0
          BY <3>9 DEF ConsoleTypeOK
        <4>2. holder' = NOBODY /\ console_lock_depth' = 0 /\ Taken(calls', c) = {}
          BY <3>1, <3>7, <3>9, <4>1 DEF Terminal!GiveBack
        <4>3. Taken(calls', t) = {}
          BY <2>1, <2>2, <3>3, <4>2
        <4> QED BY <1>6, <4>2, <4>3
      <3> QED BY <3>8, <3>9
    <2> QED BY <2>3, <2>4
  <1>11. PanicOK'
    BY <1>1 DEF PanicOK, ConsoleTypeOK
  <1> QED BY <1>5, <1>7, <1>8, <1>9, <1>10, <1>11

\* debug_panic(): from now on nobody else prints, and nobody locks.
LEMMA PanicStep ==
  ASSUME ConsoleIInv, NEW c \in Terminal!Context, Terminal!debug_panic(c)
  PROVE  ConsoleIInv'
  <1> USE DEF ConsoleIInv
  <1> DEFINE text == IF level' > 2 THEN <<>> ELSE PanicText[level']
  <1>1. /\ Terminal!MayRun(c) /\ level < 3 /\ ~ use_console_lock' /\ level' = level + 1
        /\ panicked' = c /\ calls' = Terminal!Enter(c, text) /\ started' = started + 1
        /\ UNCHANGED <<holder, console_lock_depth, wire, shown>>
    BY DEF Terminal!debug_panic, Terminal!console_panic
  <1>2. level' \in 1 .. 3 /\ level' \in 0 .. 3
    BY <1>1 DEF ConsoleTypeOK
  <1>3. text \in Seq(STRING) /\ (level' = 1 => text = PanicText[1])
    <2>1. PanicText[1] \in Seq(STRING) /\ PanicText[2] \in Seq(STRING)
      BY ConsoleAssumption
    <2>2. CASE level' = 1
      BY <2>1, <2>2
    <2>3. CASE level' = 2
      BY <2>1, <2>3
    <2>4. CASE level' = 3
      BY <2>4
    <2> QED BY <1>2, <2>2, <2>3, <2>4
  <1> HIDE DEF text
  <1>4. /\ Follows(calls, calls', started) /\ Ids(calls', started + 1) /\ calls'[c] # <<>>
    BY <1>1, <1>3, Begun
  <1>5. /\ calls' \in [Terminal!Context -> Seq(PrintCall)]
        /\ calls'[c][Len(calls'[c])] = [id |-> started + 1, todo |-> text, at |-> "acquire"]
    BY <1>1, <1>3, CallEntered DEF ConsoleTypeOK
  <1>6. c # NOBODY
    BY ConsoleAssumption DEF Terminal!Context
  <1>7. ConsoleTypeOK'
    <2>1. level' # 0 /\ started' \in Nat
      BY <1>1, <1>2 DEF ConsoleTypeOK
    <2>2. use_console_lock' \in BOOLEAN
      BY DEF Terminal!debug_panic, Terminal!console_panic
    <2> QED BY <1>1, <1>2, <1>4, <1>5, <1>6, <2>1, <2>2 DEF ConsoleTypeOK
  <1>8. EarlyOK'
    BY <1>1, <1>6 DEF EarlyOK
  <1>9. OutputOK(wire, calls, started, panicked)' /\ OutputOK(shown, calls, started, panicked)'
    <2>1. started \in Nat /\ started + 1 \in Nat /\ started <= started + 1
      BY DEF ConsoleTypeOK
    <2>2. \A d \in Terminal!Context : MayPrint(d, c) => MayPrint(d, panicked)
      BY <1>1, <1>6 DEF MayPrint, Terminal!MayRun
    <2> QED BY <1>1, <1>4, <2>1, <2>2, OutputKept
  <1>10. DepthOK(use_console_lock, holder, console_lock_depth, calls)'
    BY <1>1 DEF DepthOK
  <1>11. PanicOK'
    <2> SUFFICES ASSUME level' = 1
                 PROVE  PanicOf([id |-> started + 1, todo |-> text, at |-> "acquire"], wire, shown, c, started + 1)
      BY <1>1, <1>5 DEF PanicOK
    <2> DEFINE n == Len(PanicText[1])
               x == [id |-> started + 1, todo |-> text, at |-> "acquire"]
    <2>1. n \in Nat /\ 0 \in 0 .. n /\ n - 0 = n
      BY ConsoleAssumption
    <2>2. x.id = started + 1 /\ x.todo = PanicText[1] /\ x.at = "acquire"
      BY <1>3
    <2> HIDE DEF x
    <2>3. PanicTail(wire, 0, c, started + 1) /\ PanicTail(shown, 0, c, started + 1)
      BY DEF PanicTail, OutputOK
    <2>4. \A i \in 1 .. n - 0 : x.todo[i] = PanicText[1][0 + i]
      BY <2>1, <2>2
    <2>5. PanicOf(x, wire, shown, c, started + 1)
      <3>1. /\ Len(x.todo) = n - 0
            /\ \A i \in 1 .. n - 0 : x.todo[i] = PanicText[1][0 + i]
            /\ PanicTail(shown, 0, c, started + 1)
            /\ PanicTail(wire, IF x.at = "vga" THEN 0 + 1 ELSE 0, c, started + 1)
            /\ x.at = "vga" => 0 < n
        BY <2>1, <2>2, <2>3, <2>4
      <3> QED BY <2>1, <2>2, <3>1 DEF PanicOf
    <2> QED BY <2>5 DEF x
  <1> QED BY <1>1, <1>4, <1>7, <1>8, <1>9, <1>10, <1>11

\* A thread that is in no call has not taken the lock.
LEMMA NothingTaken ==
  ASSUME NEW cs, NEW t, cs[t] = <<>>
  PROVE  Taken(cs, t) = {}
  <1>1. Len(cs[t]) = 0
    OBVIOUS
  <1>2. \A i : i \notin 1 .. Len(cs[t])
    BY <1>1
  <1> QED BY <1>2 DEF Taken

\* console_init(): no call is under way, so nobody has taken the lock.
LEMMA InitStep ==
  ASSUME ConsoleIInv, Terminal!console_init
  PROVE  ConsoleIInv'
  <1> USE DEF ConsoleIInv
  <1>1. /\ ~ use_console_lock /\ level = 0 /\ calls[Main] = <<>> /\ use_console_lock'
        /\ use_console_lock' \in BOOLEAN
        /\ UNCHANGED <<holder, console_lock_depth, calls, started, level, panicked, wire, shown>>
    BY DEF Terminal!console_init, Terminal!EarlyBoot, Terminal!panicVars
  <1>2. panicked = NOBODY
    BY <1>1 DEF ConsoleTypeOK
  <1>3. ConsoleTypeOK'
    BY <1>1, <1>2 DEF ConsoleTypeOK
  <1>4. EarlyOK'
    BY <1>1 DEF EarlyOK
  <1>5. Ids(calls, started)' /\ PanicOK'
        /\ OutputOK(wire, calls, started, panicked)' /\ OutputOK(shown, calls, started, panicked)'
    <2>1. PanicOK'
      BY <1>1 DEF PanicOK
    <2> QED BY <1>1, <2>1
  <1>6. DepthOK(use_console_lock, holder, console_lock_depth, calls)'
    <2>1. holder = NOBODY /\ console_lock_depth = 0
      BY <1>1, <1>2 DEF EarlyOK
    <2>2. NOBODY \notin Process
      BY ConsoleAssumption
    <2>3. \A t \in Process : calls[t] = <<>>
      BY <1>1, <1>2 DEF EarlyOK, Terminal!Context
    <2>4. \A t \in Process : Taken(calls, t) = {}
      BY <2>3, NothingTaken
    <2> QED BY <1>1, <2>1, <2>2, <2>4 DEF DepthOK
  <1> QED BY <1>3, <1>4, <1>5, <1>6

\* The machine has just started.
LEMMA ConsoleStarts == Terminal!Init => ConsoleIInv
  <1> SUFFICES ASSUME Terminal!Init PROVE ConsoleIInv
    OBVIOUS
  <1>1. /\ use_console_lock = FALSE /\ holder = NOBODY /\ console_lock_depth = 0
        /\ calls = [c \in Terminal!Context |-> <<>>] /\ started = 0
        /\ level = 0 /\ panicked = NOBODY /\ wire = <<>> /\ shown = <<>>
    BY DEF Terminal!Init
  <1>2. \A c \in Terminal!Context : calls[c] = <<>> /\ Len(calls[c]) = 0
    BY <1>1
  <1>3. ConsoleTypeOK
    <2>1. <<>> \in Seq(PrintCall)
      OBVIOUS
    <2>2. calls \in [Terminal!Context -> Seq(PrintCall)]
      BY <1>1, <2>1
    <2>3. 0 \in Nat /\ 0 \in 0 .. 3
      OBVIOUS
    <2> QED BY <1>1, <2>2, <2>3 DEF ConsoleTypeOK
  <1>4. EarlyOK /\ Ids(calls, started) /\ PanicOK
    BY <1>1, <1>2 DEF EarlyOK, Ids, PanicOK
  <1>5. OutputOK(<<>>, calls, started, panicked)
    <2>1. <<>> \in Seq(Printed) /\ Len(<<>>) = 0 /\ DOMAIN <<>> = {}
      OBVIOUS
    <2> QED BY <2>1 DEF OutputOK, CharsOf, CutOff, Terminal!InOnePiece
  <1>6. DepthOK(use_console_lock, holder, console_lock_depth, calls)
    BY <1>1 DEF DepthOK
  <1> QED BY <1>1, <1>3, <1>4, <1>5, <1>6 DEF ConsoleIInv

\* The machine starts again.
LEMMA RebootStep ==
  ASSUME Terminal!Reboot
  PROVE  ConsoleIInv'
  <1>1. Terminal!Init'
    BY DEF Terminal!Reboot, Terminal!Init
  <1>2. (Terminal!Init => ConsoleIInv)'
    BY ConsoleStarts, PTL
  <1> QED BY <1>1, <1>2

\* Every step of the console keeps the invariant.
LEMMA ConsoleSteps ==
  ConsoleIInv /\ [Terminal!Next]_consoleVars => ConsoleIInv'
  <1> SUFFICES ASSUME ConsoleIInv, [Terminal!Next]_consoleVars
               PROVE  ConsoleIInv'
    OBVIOUS
  <1>1. CASE Terminal!console_init
    BY <1>1, InitStep
  <1>2. CASE Terminal!Reboot
    BY <1>2, RebootStep
  <1>3. ASSUME NEW c \in Terminal!Context, Terminal!StartPrinting(c)
        PROVE  ConsoleIInv'
    BY <1>3, PrintStep
  <1>4. ASSUME NEW c \in Terminal!Context, Terminal!acquire_console(c)
        PROVE  ConsoleIInv'
    BY <1>4, AcquireStep
  <1>5. ASSUME NEW c \in Terminal!Context, Terminal!SerialPutc(c)
        PROVE  ConsoleIInv'
    BY <1>5, SerialStep
  <1>6. ASSUME NEW c \in Terminal!Context, Terminal!VgaPutc(c)
        PROVE  ConsoleIInv'
    BY <1>6, VgaStep
  <1>7. ASSUME NEW c \in Terminal!Context, Terminal!EndBeep(c)
        PROVE  ConsoleIInv'
    BY <1>7, BeepStep
  <1>8. ASSUME NEW c \in Terminal!Context, Terminal!release_console(c)
        PROVE  ConsoleIInv'
    BY <1>8, ReleaseStep
  <1>9. ASSUME NEW c \in Terminal!Context, Terminal!debug_panic(c)
        PROVE  ConsoleIInv'
    BY <1>9, PanicStep
  <1>10. CASE UNCHANGED consoleVars
    <2>1. UNCHANGED <<use_console_lock, holder, console_lock_depth, calls, started, level,
                      panicked, wire, shown>>
      BY <1>10 DEF consoleVars
    <2> QED BY <2>1 DEF ConsoleIInv, ConsoleTypeOK, EarlyOK, PanicOK
  <1> QED BY <1>1, <1>2, <1>3, <1>4, <1>5, <1>6, <1>7, <1>8, <1>9, <1>10 DEF Terminal!Next

\* What the invariant says of the lock and of the devices.
LEMMA ConsoleExact == ConsoleIInv => ConsoleIsWhole
  <1> SUFFICES ASSUME ConsoleIInv PROVE ConsoleIsWhole
    OBVIOUS
  <1> USE DEF ConsoleIInv
  <1>1. Terminal!InOnePiece(wire) /\ Terminal!InOnePiece(shown)
    BY DEF OutputOK
  <1>2. Terminal!DepthIsExact
    <2> SUFFICES ASSUME use_console_lock, NEW t \in Process
                 PROVE  LET inside == {i \in DOMAIN calls[t] : calls[t][i].at # "acquire"}
                        IN IF holder = t THEN inside # {} /\ console_lock_depth = Terminal!Cardinality(inside) - 1
                           ELSE inside = {} /\ (holder = NOBODY => console_lock_depth = 0)
      BY DEF Terminal!DepthIsExact
    <2>1. DOMAIN calls[t] = 1 .. Len(calls[t])
      BY DEF ConsoleTypeOK, Terminal!Context
    <2>2. Terminal!Cardinality(Taken(calls, t)) = Cardinality(Taken(calls, t))
      BY DEF Terminal!Cardinality, Cardinality
    <2>3. {i \in DOMAIN calls[t] : calls[t][i].at # "acquire"} = Taken(calls, t)
      BY <2>1 DEF Taken
    <2> QED BY <2>2, <2>3 DEF DepthOK
  <1>3. Terminal!PanicGetsOut
    <2> SUFFICES ASSUME Terminal!Halted, level = 1, NEW s \in {wire, shown}
                 PROVE  PanicTail(s, Len(PanicText[1]), panicked, started)
      BY DEF Terminal!PanicGetsOut, PanicTail
    <2>1. /\ panicked # NOBODY /\ panicked \in Terminal!Context /\ calls[panicked] # <<>>
          /\ Terminal!Current(panicked).at = "serial" /\ Terminal!Current(panicked).todo = <<>>
      BY DEF Terminal!Halted, ConsoleTypeOK
    <2>2. Terminal!Current(panicked) = calls[panicked][Len(calls[panicked])]
      BY <2>1, CurrentCall
    <2>3. PanicOf(Terminal!Current(panicked), wire, shown, panicked, started)
      BY <2>2 DEF PanicOK
    <2> DEFINE n == Len(PanicText[1])
    <2>4. n \in Nat
      BY ConsoleAssumption
    <2>5. PICK m \in 0 .. n : /\ 0 = n - m
                              /\ PanicTail(shown, m, panicked, started)
                              /\ PanicTail(wire, m, panicked, started)
      BY <2>1, <2>3 DEF PanicOf
    <2>6. m = n
      BY <2>4, <2>5
    <2> QED BY <2>5, <2>6
  <1> QED BY <1>1, <1>2, <1>3 DEF ConsoleIsWhole, Terminal!ConsoleIsWhole

\* For any number of threads, messages and nested calls, with panics at any
\* moment: what acquire_console() and release_console() guard stays in one piece
\* on both devices, the lock's depth is exact, and the message of the first
\* panic gets out, last and whole.
THEOREM ConsoleStaysWhole == MCSpec => []ConsoleIsWhole
  <1>1. MCInit => ConsoleIInv
    BY ConsoleStarts DEF MCInit
  <1>2. ConsoleIInv /\ [MCNext]_<<part, cpuVars, consoleVars>> => ConsoleIInv'
    <2>1. [MCNext]_<<part, cpuVars, consoleVars>> => [Terminal!Next]_consoleVars
      BY DEF MCNext
    <2> QED BY <2>1, ConsoleSteps
  <1> QED BY <1>1, <1>2, ConsoleExact, PTL DEF MCSpec
=============================================================================
