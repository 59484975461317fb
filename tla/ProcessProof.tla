---------------------------- MODULE ProcessProof ----------------------------
(***************************************************************************)
(* Proofs about Process, for any number of threads, pages and heap blocks: *)
(* a switch reads live memory at every moment, user code runs in its own   *)
(* address space, and process_wait() returns when everything is reclaimed. *)
(***************************************************************************)
EXTENDS Process, FiniteSetTheorems, TLAPS

(***************************************************************************)
(* The program counters at which a child has what.                         *)
(***************************************************************************)
GonePc == {"none", "thread_exit"}
NamePc == {"malloc", "init_pcb", "set_pcb", "create", "activate", "open",
           "segments", "unset_pcb", "free_pcb", "free_name", "free_name_failed"}
ActivePc == {"open", "segments", "free_name", "user", "get_pd", "clear_pd"}
DirPc == ActivePc \union {"activate"}
NoDirPc == {"create", "deactivate", "destroy", "exit_unset_pcb"}
PcbPc == DirPc \union NoDirPc \union {"unset_pcb"}
BlockPc == {"init_pcb", "set_pcb", "free_pcb", "exit_free_pcb"}
LocalDirPc == {"clear_pd", "deactivate", "destroy"}
ChildPc == GonePc \union NamePc \union PcbPc \union BlockPc \union {"up"}
MainPc == {"run_task", "palloc", "thread_create", "wait", "asleep"}

Busy(t) == pc[t] \notin GonePc

\* Only one child has not been reported to main, and while there is one main
\* waits; the unit of temporary is there when there is none.
Protocol ==
  /\ pc[main] \in MainPc /\ pc[idle] = "idle"
  /\ \A t \in Child : pc[t] \in ChildPc
  /\ \A t, u \in Child : Busy(t) /\ Busy(u) => t = u
  /\ \A t \in Child : Busy(t) => pc[main] \in {"wait", "asleep"} /\ temporary = 0
  /\ temporary \in {0, 1}
  /\ temporary = 1 => pc[main] = "wait"

\* What main and idle have.
KernelThreads ==
  /\ pcb[main] \in Block /\ pagedir[pcb[main]] = NULL
  /\ pcb[idle] = NULL /\ local[idle] = NULL /\ local[main] = NULL
  /\ IF pc[main] = "thread_create" THEN file_name[main] \in Page
     ELSE file_name[main] = NULL

\* What a child's pointers point to, wherever it is.
Pointers(t) ==
  /\ IF pc[t] \in NamePc THEN file_name[t] \in Page ELSE file_name[t] = NULL
  /\ IF pc[t] \in PcbPc THEN pcb[t] \in Block \ {pcb[main]} ELSE pcb[t] = NULL
  /\ pc[t] \in BlockPc => local[t] \in Block \ {pcb[main]}
  /\ pc[t] \in LocalDirPc => local[t] \in Page
  /\ pc[t] \notin BlockPc \union LocalDirPc => local[t] = NULL
  /\ pc[t] = "set_pcb" => pagedir[local[t]] = NULL
  /\ pc[t] \in DirPc => pagedir[pcb[t]] \in Page
  /\ pc[t] = "unset_pcb" => pagedir[pcb[t]] \in Page \union {NULL}
  /\ pc[t] \in NoDirPc => pagedir[pcb[t]] = NULL
  /\ pc[t] = "clear_pd" => local[t] = pagedir[pcb[t]]

\* The child's page directory, if it has one, and the pages of its space.
Dir(t) == IF pc[t] \in DirPc \union {"unset_pcb"} THEN {pagedir[pcb[t]]} \ {NULL}
          ELSE IF pc[t] \in {"deactivate", "destroy"} THEN {local[t]} ELSE {}

Space(t) == IF pc[t] = "destroy" THEN {local[t]} \union left[t]
            ELSE Dir(t) \union UNION {refs[d] : d \in Dir(t)}

Name(t) == {file_name[t]} \ {NULL}

\* The block of its PCB.
PcbBlock(t) == IF pc[t] \in PcbPc THEN {pcb[t]}
               ELSE IF pc[t] \in BlockPc THEN {local[t]} ELSE {}

\* Memory holds what main has, what failed loads abandoned, and what the one
\* child has; the child's pages are distinct and populate its space.
Owns(t) ==
  /\ heap = {pcb[main]} \union PcbBlock(t)
  /\ inUse = abandoned \union Name(t) \union Space(t)
  /\ Name(t) \cap Space(t) = {}
  /\ (Name(t) \union Space(t)) \cap abandoned = {}
  /\ \A d \in Dir(t) : d \notin refs[d]
  /\ pc[t] = "destroy" => local[t] \notin left[t]
  /\ pc[t] \in {"free_name", "user", "get_pd", "clear_pd"} => refs[pagedir[pcb[t]]] # {}

Memory ==
  /\ \A t \in Child : Pointers(t)
  /\ \A t \in Child : Busy(t) => Owns(t)
  /\ (\A t \in Child : ~ Busy(t)) =>
       /\ heap = {pcb[main]}
       /\ inUse = abandoned \union Name(main)
       /\ Name(main) \cap abandoned = {}

\* The CPU uses the kernel's directory, the running child's, or one that its
\* failed load has just abandoned.
Directory(t) ==
  /\ cr3 # init_page_dir =>
       \/ pc[t] \in DirPc \union {"unset_pcb"} /\ cr3 = pagedir[pcb[t]]
       \/ pc[t] = "deactivate" /\ cr3 = local[t]
       \/ /\ pc[t] \in {"free_pcb", "free_name_failed", "up", "thread_exit"}
          /\ cr3 \in abandoned /\ refs[cr3] \subseteq abandoned
  /\ pc[t] \in ActivePc => cr3 = pagedir[pcb[t]]

Cpu ==
  /\ esp0 = cur
  /\ cr3 # init_page_dir => cur \in Child /\ \A u \in Child : u # cur => ~ Busy(u)
  /\ Directory(cur)

\* The inductive invariant.
IInv == TypeOK /\ Protocol /\ KernelThreads /\ Memory /\ Cpu

-----------------------------------------------------------------------------
USE DEF Thread

\* What each place means for what the child has.
Holding(t) ==
  /\ pc[t] \in DirPc \union {"unset_pcb"} /\ pagedir[pcb[t]] # NULL =>
       /\ Dir(t) = {pagedir[pcb[t]]}
       /\ Space(t) = {pagedir[pcb[t]]} \union refs[pagedir[pcb[t]]]
  /\ pc[t] = "unset_pcb" /\ pagedir[pcb[t]] = NULL => Dir(t) = {} /\ Space(t) = {}
  /\ pc[t] = "deactivate" =>
       Dir(t) = {local[t]} /\ Space(t) = {local[t]} \union refs[local[t]]
  /\ pc[t] = "destroy" =>
       Dir(t) = {local[t]} /\ Space(t) = {local[t]} \union left[t]
  /\ pc[t] \notin DirPc \union {"unset_pcb", "deactivate", "destroy"} =>
       Dir(t) = {} /\ Space(t) = {}
  /\ pc[t] \in PcbPc => PcbBlock(t) = {pcb[t]}
  /\ pc[t] \in BlockPc => PcbBlock(t) = {local[t]}
  /\ pc[t] \notin PcbPc \union BlockPc => PcbBlock(t) = {}
  /\ file_name[t] = NULL => Name(t) = {}
  /\ file_name[t] # NULL => Name(t) = {file_name[t]}

LEMMA Holdings == \A t \in Child : Holding(t)
  <1> TAKE t \in Child
  <1>1. /\ pc[t] \in DirPc \union {"unset_pcb"} /\ pagedir[pcb[t]] # NULL =>
             Dir(t) = {pagedir[pcb[t]]}
        /\ pc[t] = "unset_pcb" /\ pagedir[pcb[t]] = NULL => Dir(t) = {}
        /\ pc[t] \in {"deactivate", "destroy"} => Dir(t) = {local[t]}
        /\ pc[t] \notin DirPc \union {"unset_pcb", "deactivate", "destroy"} => Dir(t) = {}
    BY DEF Dir, DirPc, ActivePc
  <1>2. \A d : Dir(t) = {d} => UNION {refs[e] : e \in Dir(t)} = refs[d]
    OBVIOUS
  <1>3. Dir(t) = {} => UNION {refs[e] : e \in Dir(t)} = {}
    OBVIOUS
  <1>4. pc[t] # "destroy" => Space(t) = Dir(t) \union UNION {refs[d] : d \in Dir(t)}
    BY DEF Space
  <1>5. pc[t] = "destroy" => Space(t) = {local[t]} \union left[t]
    BY DEF Space
  <1>6. /\ pc[t] \in PcbPc => PcbBlock(t) = {pcb[t]}
        /\ pc[t] \in BlockPc => PcbBlock(t) = {local[t]}
        /\ pc[t] \notin PcbPc \union BlockPc => PcbBlock(t) = {}
    BY DEF PcbBlock, PcbPc, BlockPc, DirPc, NoDirPc, ActivePc
  <1>7. /\ file_name[t] = NULL => Name(t) = {}
        /\ file_name[t] # NULL => Name(t) = {file_name[t]}
    BY DEF Name
  <1>8. /\ pc[t] \in DirPc \union {"unset_pcb"} => pc[t] # "destroy"
        /\ pc[t] \notin DirPc \union {"unset_pcb", "deactivate", "destroy"} => pc[t] # "destroy"
        /\ pc[t] = "deactivate" => pc[t] # "destroy"
    BY DEF DirPc, ActivePc
  <1> QED BY <1>1, <1>2, <1>3, <1>4, <1>5, <1>6, <1>7, <1>8, Zenon DEF Holding

LEMMA HoldingsNext == (\A t \in Child : Holding(t))'
  BY Holdings, PTL

\* While t is the child that runs, nobody else has anything.
Alone(t) ==
  /\ pc[main] \in {"wait", "asleep"} /\ temporary = 0 /\ file_name[main] = NULL
  /\ \A u \in Child : u # t => /\ pc[u] \in GonePc /\ file_name[u] = NULL
                               /\ pcb[u] = NULL /\ local[u] = NULL
  /\ Pointers(t) /\ Owns(t) /\ Holding(t)
  /\ cur = t => Directory(t) /\ esp0 = t

LEMMA BusyIsAlone ==
  ASSUME IInv, NEW t \in Child, Busy(t)
  PROVE  Alone(t)
  <1>1. pc[main] \in {"wait", "asleep"} /\ temporary = 0
    BY DEF IInv, Protocol
  <1>2. file_name[main] = NULL
    BY <1>1 DEF IInv, KernelThreads
  <1>3. ASSUME NEW u \in Child, u # t
        PROVE  pc[u] \in GonePc /\ file_name[u] = NULL /\ pcb[u] = NULL /\ local[u] = NULL
    <2>1. pc[u] \in GonePc
      BY <1>3 DEF IInv, Protocol, Busy
    <2>2. Pointers(u)
      BY DEF IInv, Memory
    <2> QED BY <2>1, <2>2 DEF Pointers, GonePc, NamePc, PcbPc, BlockPc, LocalDirPc,
                              DirPc, ActivePc, NoDirPc
  <1>4. Pointers(t) /\ Owns(t)
    BY DEF IInv, Memory
  <1>5. Holding(t)
    BY Holdings
  <1>6. cur = t => Directory(t) /\ esp0 = t
    BY DEF IInv, Cpu
  <1> QED BY <1>1, <1>2, <1>3, <1>4, <1>5, <1>6 DEF Alone

\* A step of t leaves alone what is not t's.
Apart(t) ==
  /\ cur = t /\ cur' = t /\ esp0' = t /\ temporary' = temporary
  /\ \A u \in Thread : u # t => /\ pc'[u] = pc[u] /\ file_name'[u] = file_name[u]
                                /\ pcb'[u] = pcb[u] /\ local'[u] = local[u]
  /\ pagedir'[pcb[main]] = pagedir[pcb[main]]

\* After such a step it is enough to look at t.
LEMMA ChildStep ==
  ASSUME IInv, NEW t \in Child, Alone(t), Apart(t),
         pc'[t] \in ChildPc \ GonePc,
         TypeOK', Pointers(t)', Owns(t)', Directory(t)'
  PROVE  IInv'
  <1>1. main # t /\ idle # t /\ main \in Thread /\ idle \in Thread
    BY ProcessAssumption
  <1>2. pc'[main] = pc[main] /\ pc'[idle] = pc[idle] /\ temporary' = temporary
    BY <1>1 DEF Apart
  <1>3. \A u \in Child : u # t => pc'[u] = pc[u]
    BY DEF Apart
  <1>4. Busy(t)' /\ \A u \in Child : u # t => pc'[u] \in GonePc
    BY <1>3 DEF Busy, Alone
  <1>5. Protocol'
    <2>1. pc[main] \in MainPc /\ pc[idle] = "idle" /\ \A u \in Child : pc[u] \in ChildPc
      BY DEF IInv, Protocol
    <2>2. pc'[main] \in MainPc /\ pc'[idle] = "idle"
      BY <1>2, <2>1
    <2>3. \A u \in Child : pc'[u] \in ChildPc
      BY <1>3, <2>1
    <2>4. \A u, v \in Child : Busy(u)' /\ Busy(v)' => u = v
      BY <1>4 DEF Busy
    <2>5. pc'[main] \in {"wait", "asleep"} /\ temporary' = 0
      BY <1>2 DEF Alone
    <2> QED BY <2>2, <2>3, <2>4, <2>5 DEF Protocol
  <1>6. KernelThreads'
    <2>1. /\ pcb'[main] = pcb[main] /\ pcb'[idle] = pcb[idle] /\ local'[idle] = local[idle]
          /\ local'[main] = local[main] /\ file_name'[main] = file_name[main]
          /\ pagedir'[pcb[main]] = pagedir[pcb[main]]
      BY <1>1 DEF Apart
    <2>2. pc'[main] # "thread_create"
      BY <1>2 DEF Alone
    <2>3. file_name[main] = NULL
      BY DEF Alone
    <2> QED BY <2>1, <2>2, <2>3 DEF IInv, KernelThreads
  <1>7. Memory'
    <2>1. ASSUME NEW u \in Child, u # t
          PROVE  Pointers(u)'
      <3>1. /\ pc'[u] \in GonePc /\ file_name'[u] = NULL /\ pcb'[u] = NULL /\ local'[u] = NULL
        BY <2>1 DEF Alone, Apart
      <3> QED BY <3>1 DEF Pointers, GonePc, NamePc, PcbPc, BlockPc, LocalDirPc,
                          DirPc, ActivePc, NoDirPc
    <2>2. \A u \in Child : Pointers(u)'
      BY <2>1
    <2>3. \A u \in Child : Busy(u)' => Owns(u)'
      BY <1>4 DEF Busy
    <2>4. ~ (\A u \in Child : ~ Busy(u)')
      BY <1>4
    <2> QED BY <2>2, <2>3, <2>4 DEF Memory
  <1>8. Cpu'
    <2>1. \A u \in Child : u # t => ~ Busy(u)'
      BY <1>4 DEF Busy
    <2> QED BY <2>1 DEF Cpu, Apart
  <1> QED BY <1>5, <1>6, <1>7, <1>8 DEF IInv

LEMMA InitIInv == Init => IInv
  <1> SUFFICES ASSUME Init PROVE IInv
    OBVIOUS
  <1> USE ProcessAssumption DEF Init, userprog_init
  <1>1. TypeOK
    <2>1. pc \in [Thread -> Pc]
      BY DEF Pc
    <2>2. /\ pcb \in [Thread -> Block \union {NULL}] /\ heap \subseteq Block
          /\ pagedir \in [Block -> Page \union {NULL, JUNK}]
      OBVIOUS
    <2>3. /\ inUse \subseteq Page /\ refs \in [Page -> SUBSET Page]
          /\ file_name \in [Thread -> Page \union {NULL}]
          /\ local \in [Thread -> Block \union Page \union {NULL}]
          /\ left \in [Thread -> SUBSET Page]
      OBVIOUS
    <2>4. /\ cur \in Thread /\ esp0 \in Thread /\ cr3 \in Page \union {init_page_dir}
          /\ temporary \in 0 .. 1 /\ abandoned \subseteq inUse
      OBVIOUS
    <2>5. started \in BOOLEAN
      BY Zenon
    <2> QED BY <2>1, <2>2, <2>3, <2>4, <2>5, Zenon DEF TypeOK
  <1>2. Protocol
    BY DEF Protocol, MainPc, ChildPc, GonePc, Busy
  <1>3. KernelThreads
    BY DEF KernelThreads
  <1>4. Memory
    <2>1. \A t \in Child : pc[t] = "none" /\ ~ Busy(t)
      BY DEF Busy, GonePc
    <2>2. \A t \in Child : Pointers(t)
      BY <2>1 DEF Pointers, GonePc, NamePc, PcbPc, BlockPc, LocalDirPc,
                  DirPc, ActivePc, NoDirPc
    <2>3. heap = {pcb[main]} /\ inUse = {} /\ abandoned = {} /\ Name(main) = {}
      BY DEF Name
    <2> QED BY <2>1, <2>2, <2>3 DEF Memory
  <1>5. Cpu
    BY DEF Cpu, Directory, ActivePc
  <1> QED BY <1>1, <1>2, <1>3, <1>4, <1>5 DEF IInv

-----------------------------------------------------------------------------
(***************************************************************************)
(* The steps of a child.                                                   *)
(***************************************************************************)
USE DEF GonePc, NamePc, ActivePc, DirPc, NoDirPc, PcbPc, BlockPc, LocalDirPc, ChildPc

\* The part of TypeOK about memory.
MemType ==
  /\ pcb \in [Thread -> Block \union {NULL}]
  /\ heap \subseteq Block
  /\ pagedir \in [Block -> Page \union {NULL, JUNK}]
  /\ inUse \subseteq Page
  /\ refs \in [Page -> SUBSET Page]
  /\ file_name \in [Thread -> Page \union {NULL}]
  /\ local \in [Thread -> Block \union Page \union {NULL}]
  /\ left \in [Thread -> SUBSET Page]
  /\ abandoned \subseteq inUse

LEMMA MemTypes == IInv => MemType
  BY DEF IInv, TypeOK, MemType

LEMMA AtAlone ==
  ASSUME IInv, NEW t \in Child, cur = t, pc[t] \notin GonePc
  PROVE  Alone(t) /\ MemType /\ Directory(t)
  BY BusyIsAlone, MemTypes DEF Busy, Alone

LEMMA StepFacts ==
  ASSUME IInv, NEW t \in Child, NEW p, NEW q, Step(t, p, q),
         p \notin GonePc, q \in Pc, MemType'
  PROVE  /\ pc[t] = p /\ pc'[t] = q /\ cur = t /\ cur' = t /\ esp0' = t
         /\ cr3' = cr3 /\ temporary' = temporary /\ Alone(t) /\ Directory(t)
         /\ \A u \in Thread : u # t => pc'[u] = pc[u]
         /\ TypeOK'
  <1>1. cur = t /\ pc[t] = p /\ pc' = [pc EXCEPT ![t] = q] /\ t \in Thread
    BY DEF Step, At, Goto
  <1>2. cur' = cur /\ cr3' = cr3 /\ esp0' = esp0 /\ temporary' = temporary /\ started' = started
    BY DEF Step, SameCpu
  <1>3. TypeOK
    BY DEF IInv
  <1>4. pc \in [Thread -> Pc]
    BY <1>3 DEF TypeOK
  <1>5. pc' \in [Thread -> Pc] /\ pc'[t] = q /\ \A u \in Thread : u # t => pc'[u] = pc[u]
    BY <1>1, <1>4
  <1>6. Alone(t) /\ Directory(t)
    BY <1>1, AtAlone
  <1>7. esp0' = t
    BY <1>1, <1>2, <1>6 DEF Alone
  <1>8. /\ cur' \in Thread /\ esp0' \in Thread /\ cr3' \in Page \union {init_page_dir}
        /\ temporary' \in 0 .. 1 /\ started' \in BOOLEAN
    BY <1>2, <1>3, Zenon DEF TypeOK
  <1>9. TypeOK'
    BY <1>5, <1>8, Zenon DEF TypeOK, MemType
  <1> QED BY <1>1, <1>2, <1>5, <1>6, <1>7, <1>9

LEMMA InitPcbStep ==
  ASSUME IInv, NEW t \in Child, InitPcb(t)
  PROVE  IInv'
  <1>1. Step(t, "init_pcb", "set_pcb") /\ cur = t /\ pc[t] = "init_pcb"
    BY DEF InitPcb, Step, At
  <1>2. Alone(t) /\ MemType
    BY <1>1, AtAlone
  <1>3. local[t] \in Block \ {pcb[main]}
    BY <1>1, <1>2 DEF Alone, Pointers
  <1>4. /\ pagedir' = [pagedir EXCEPT ![local[t]] = NULL]
        /\ UNCHANGED <<pcb, heap, inUse, refs, file_name, local, left, abandoned>>
    BY DEF InitPcb, FirstPagedir
  <1>5. MemType'
    BY <1>2, <1>3, <1>4 DEF MemType
  <1>6. pagedir'[local[t]] = NULL /\ pagedir'[pcb[main]] = pagedir[pcb[main]]
    BY <1>2, <1>3, <1>4 DEF MemType
  <1>7. /\ pc'[t] = "set_pcb" /\ cur' = t /\ esp0' = t /\ cr3' = cr3 /\ temporary' = temporary
        /\ Directory(t) /\ TypeOK' /\ \A u \in Thread : u # t => pc'[u] = pc[u]
    BY <1>1, <1>5, StepFacts DEF Pc
  <1>8. Apart(t)
    BY <1>1, <1>4, <1>6, <1>7 DEF Apart
  <1>9. Pointers(t)'
    BY <1>1, <1>2, <1>3, <1>4, <1>6, <1>7 DEF Alone, Pointers
  <1>10. Holding(t)'
    BY HoldingsNext
  <1>11. Owns(t)'
    BY <1>1, <1>2, <1>3, <1>4, <1>7, <1>10 DEF Alone, Owns, Holding
  <1>12. Directory(t)'
    BY <1>1, <1>4, <1>7 DEF Directory
  <1> QED BY <1>2, <1>7, <1>8, <1>9, <1>11, <1>12, ChildStep

\* The steps that change no memory.
LEMMA QuietStep ==
  ASSUME IInv, NEW t \in Child, NEW p, NEW q, Step(t, p, q), UNCHANGED memVars,
         \/ p = "malloc" /\ q = "free_name_failed"
         \/ p \in {"create", "open", "segments"} /\ q = "unset_pcb"
         \/ p = "open" /\ q = "segments"
         \/ p = "user" /\ q = "get_pd"
  PROVE  IInv'
  <1>1. cur = t /\ pc[t] = p /\ p \notin GonePc
    BY DEF Step, At
  <1>2. Alone(t) /\ MemType
    BY <1>1, AtAlone
  <1>3. UNCHANGED <<pcb, heap, pagedir, inUse, refs, file_name, local, left, abandoned>>
    BY DEF memVars
  <1>4. MemType'
    BY <1>2, <1>3 DEF MemType
  <1>5. /\ pc'[t] = q /\ cur' = t /\ esp0' = t /\ cr3' = cr3 /\ temporary' = temporary
        /\ Directory(t) /\ TypeOK' /\ \A u \in Thread : u # t => pc'[u] = pc[u]
    BY <1>1, <1>4, StepFacts DEF Pc
  <1>6. Apart(t)
    BY <1>1, <1>3, <1>5 DEF Apart
  <1>7. Pointers(t)'
    BY <1>1, <1>2, <1>3, <1>5 DEF Alone, Pointers
  <1>8. Holding(t)'
    BY HoldingsNext
  <1>9. Owns(t)'
    BY <1>1, <1>2, <1>3, <1>5, <1>7, <1>8, ProcessAssumption DEF Alone, Owns, Holding, Pointers
  <1>10. Directory(t)'
    BY <1>1, <1>2, <1>3, <1>5 DEF Directory, Alone, Pointers
  <1> QED BY <1>2, <1>5, <1>6, <1>7, <1>9, <1>10, ChildStep

LEMMA MallocPcbStep ==
  ASSUME IInv, NEW t \in Child, MallocPcb(t)
  PROVE  IInv'
  <1>1. CASE Step(t, "malloc", "free_name_failed") /\ UNCHANGED memVars
    BY <1>1, QuietStep
  <1>2. ASSUME NEW b \in Block \ heap, Step(t, "malloc", "init_pcb"),
               heap' = heap \union {b}, local' = [local EXCEPT ![t] = b],
               UNCHANGED <<pcb, pagedir, inUse, refs, file_name, left, abandoned>>
        PROVE  IInv'
    <2>1. cur = t /\ pc[t] = "malloc"
      BY <1>2 DEF Step, At
    <2>2. Alone(t) /\ MemType
      BY <2>1, AtAlone
    <2>3. b # pcb[main]
      BY <2>2 DEF Alone, Owns
    <2>4. MemType'
      BY <1>2, <2>2 DEF MemType
    <2>5. local'[t] = b /\ \A u \in Thread : u # t => local'[u] = local[u]
      BY <1>2, <2>2 DEF MemType
    <2>6. /\ pc'[t] = "init_pcb" /\ cur' = t /\ esp0' = t /\ cr3' = cr3
          /\ temporary' = temporary
          /\ Directory(t) /\ TypeOK' /\ \A u \in Thread : u # t => pc'[u] = pc[u]
      BY <1>2, <2>4, StepFacts DEF Pc
    <2>7. Apart(t)
      BY <1>2, <2>1, <2>5, <2>6 DEF Apart
    <2>8. Pointers(t)'
      BY <1>2, <2>1, <2>2, <2>3, <2>5, <2>6 DEF Alone, Pointers
    <2>9. Holding(t)'
      BY HoldingsNext
    <2>10. Owns(t)'
      BY <1>2, <2>1, <2>2, <2>5, <2>6, <2>8, <2>9 DEF Alone, Owns, Holding
    <2>11. Directory(t)'
      BY <1>2, <2>1, <2>6 DEF Directory
    <2> QED BY <2>2, <2>6, <2>7, <2>8, <2>10, <2>11, ChildStep
  <1> QED BY <1>1, <1>2 DEF MallocPcb

LEMMA SetPcbStep ==
  ASSUME IInv, NEW t \in Child, SetPcb(t)
  PROVE  IInv'
  <1>1. Step(t, "set_pcb", "create") /\ cur = t /\ pc[t] = "set_pcb"
    BY DEF SetPcb, Step, At
  <1>2. Alone(t) /\ MemType
    BY <1>1, AtAlone
  <1>3. local[t] \in Block \ {pcb[main]} /\ pagedir[local[t]] = NULL /\ main # t
    BY <1>1, <1>2, ProcessAssumption DEF Alone, Pointers
  <1>4. /\ pcb' = [pcb EXCEPT ![t] = local[t]] /\ local' = [local EXCEPT ![t] = NULL]
        /\ UNCHANGED <<heap, pagedir, inUse, refs, file_name, left, abandoned>>
    BY DEF SetPcb
  <1>5. MemType'
    BY <1>2, <1>3, <1>4 DEF MemType
  <1>6. /\ pcb'[t] = local[t] /\ local'[t] = NULL
        /\ \A u \in Thread : u # t => pcb'[u] = pcb[u] /\ local'[u] = local[u]
    BY <1>2, <1>3, <1>4 DEF MemType
  <1>7. /\ pc'[t] = "create" /\ cur' = t /\ esp0' = t /\ cr3' = cr3 /\ temporary' = temporary
        /\ Directory(t) /\ TypeOK' /\ \A u \in Thread : u # t => pc'[u] = pc[u]
    BY <1>1, <1>5, StepFacts DEF Pc
  <1>8. Apart(t)
    BY <1>1, <1>4, <1>6, <1>7 DEF Apart
  <1>9. Pointers(t)'
    <2>1. pcb'[main] = pcb[main]
      BY <1>3, <1>6
    <2> QED BY <1>1, <1>2, <1>3, <1>4, <1>6, <1>7, <2>1 DEF Alone, Pointers
  <1>10. Holding(t)'
    BY HoldingsNext
  <1>11. Owns(t)'
    <2>1. pcb'[main] = pcb[main]
      BY <1>3, <1>6
    <2> QED BY <1>1, <1>2, <1>3, <1>4, <1>6, <1>7, <1>10, <2>1 DEF Alone, Owns, Holding
  <1>12. Directory(t)'
    BY <1>1, <1>4, <1>7 DEF Directory
  <1> QED BY <1>2, <1>7, <1>8, <1>9, <1>11, <1>12, ChildStep

LEMMA pagedir_createStep ==
  ASSUME IInv, NEW t \in Child, pagedir_create(t)
  PROVE  IInv'
  <1>1. CASE LoadFails(t, "create")
    BY <1>1, QuietStep DEF LoadFails
  <1>2. ASSUME NEW p \in Page, FirstFree({p}), Step(t, "create", "activate"),
               inUse' = inUse \union {p}, refs' = [refs EXCEPT ![p] = {}],
               pagedir' = [pagedir EXCEPT ![pcb[t]] = p],
               UNCHANGED <<pcb, heap, file_name, local, left, abandoned>>
        PROVE  IInv'
    <2>1. cur = t /\ pc[t] = "create" /\ p \notin inUse
      BY <1>2 DEF Step, At, FirstFree
    <2>2. Alone(t) /\ MemType /\ Directory(t)
      BY <2>1, AtAlone
    <2>3. pcb[t] \in Block \ {pcb[main]} /\ p # NULL
      BY <2>1, <2>2, ProcessAssumption DEF Alone, Pointers
    <2>4. MemType'
      BY <1>2, <2>2, <2>3 DEF MemType
    <2>5. /\ pagedir'[pcb[t]] = p /\ pagedir'[pcb[main]] = pagedir[pcb[main]]
          /\ refs'[p] = {}
      BY <1>2, <2>2, <2>3 DEF MemType
    <2>6. /\ pc'[t] = "activate" /\ cur' = t /\ esp0' = t /\ cr3' = cr3
          /\ temporary' = temporary
          /\ TypeOK' /\ \A u \in Thread : u # t => pc'[u] = pc[u]
      BY <1>2, <2>4, StepFacts DEF Pc
    <2>7. Apart(t)
      BY <1>2, <2>1, <2>5, <2>6 DEF Apart
    <2>8. Pointers(t)'
      BY <1>2, <2>1, <2>2, <2>3, <2>5, <2>6 DEF Alone, Pointers
    <2>9. Holding(t)'
      BY HoldingsNext
    <2>10. Owns(t)'
      <3>1. Space(t)' = {p} /\ Dir(t)' = {p} /\ PcbBlock(t)' = {pcb[t]}
        BY <1>2, <2>3, <2>5, <2>6, <2>9 DEF Holding
      <3>2. Space(t) = {} /\ PcbBlock(t) = {pcb[t]} /\ Name(t)' = Name(t)
        BY <1>2, <2>1, <2>2 DEF Alone, Holding, Name
      <3>3. /\ heap = {pcb[main]} \union {pcb[t]} /\ inUse = abandoned \union Name(t)
            /\ Name(t) \cap abandoned = {}
        BY <2>2, <3>2 DEF Alone, Owns
      <3> QED BY <1>2, <2>1, <2>5, <2>6, <3>1, <3>2, <3>3 DEF Owns
    <2>11. Directory(t)'
      BY <1>2, <2>1, <2>2, <2>6 DEF Directory
    <2> QED BY <2>2, <2>6, <2>7, <2>8, <2>10, <2>11, ChildStep
  <1> QED BY <1>1, <1>2 DEF pagedir_create

LEMMA ActivateStep ==
  ASSUME IInv, NEW t \in Child, Activate(t)
  PROVE  IInv'
  <1>1. /\ cur = t /\ pc[t] = "activate" /\ pc' = [pc EXCEPT ![t] = "open"]
        /\ cur' = t /\ esp0' = t /\ cr3' = process_activate(t)
        /\ temporary' = temporary /\ started' = started
    BY DEF Activate, At, Goto
  <1>2. Alone(t) /\ MemType
    BY <1>1, AtAlone
  <1>3. UNCHANGED <<pcb, heap, pagedir, inUse, refs, file_name, local, left, abandoned>>
    BY DEF Activate, memVars
  <1>4. pc \in [Thread -> Pc]
    BY DEF IInv, TypeOK
  <1>5. /\ pc' \in [Thread -> Pc] /\ pc'[t] = "open"
        /\ \A u \in Thread : u # t => pc'[u] = pc[u]
    BY <1>1, <1>4 DEF Pc
  <1>6. pcb[t] \in Block /\ pagedir[pcb[t]] \in Page /\ pagedir[pcb[t]] # NULL
    BY <1>1, <1>2, ProcessAssumption DEF Alone, Pointers
  <1>7. cr3' = pagedir[pcb[t]]
    BY <1>1, <1>6, ProcessAssumption DEF process_activate
  <1>8. TypeOK'
    <2>1. temporary' \in 0 .. 1 /\ started' \in BOOLEAN
      BY <1>1, Zenon DEF IInv, TypeOK
    <2>2. MemType'
      BY <1>2, <1>3 DEF MemType
    <2>3. cur' \in Thread /\ esp0' \in Thread /\ cr3' \in Page \union {init_page_dir}
      BY <1>1, <1>6, <1>7
    <2> QED BY <1>5, <2>1, <2>2, <2>3, Zenon DEF TypeOK, MemType
  <1>9. Apart(t)
    BY <1>1, <1>3, <1>5 DEF Apart
  <1>10. Pointers(t)'
    BY <1>1, <1>2, <1>3, <1>5 DEF Alone, Pointers
  <1>11. Holding(t)'
    BY HoldingsNext
  <1>12. Owns(t)'
    BY <1>1, <1>2, <1>3, <1>5, <1>6, <1>11 DEF Alone, Owns, Holding, Name
  <1>13. Directory(t)'
    BY <1>3, <1>5, <1>7 DEF Directory
  <1> QED BY <1>2, <1>5, <1>8, <1>9, <1>10, <1>12, <1>13, ChildStep

LEMMA InstallPageStep ==
  ASSUME IInv, NEW t \in Child, NEW q \in {"segments", "free_name"},
         Step(t, "segments", q), InstallPage(t)
  PROVE  IInv'
  <1> DEFINE pd == pagedir[pcb[t]]
  <1>1. cur = t /\ pc[t] = "segments"
    BY DEF Step, At
  <1>2. Alone(t) /\ MemType /\ Directory(t)
    BY <1>1, AtAlone
  <1>3. pcb[t] \in Block \ {pcb[main]} /\ pd \in Page /\ pd # NULL
    BY <1>1, <1>2, ProcessAssumption DEF Alone, Pointers
  <1>4. PICK new \in SUBSET Page :
          /\ FirstFree(new)
          /\ Cardinality(new) \in lookup_page(pd)
          /\ inUse' = inUse \union new
          /\ refs' = [refs EXCEPT ![pd] = @ \union new]
          /\ UNCHANGED <<pcb, heap, pagedir, file_name, local, left, abandoned>>
    BY DEF InstallPage
  <1>5. new \cap inUse = {}
    BY <1>4 DEF FirstFree
  <1>6. new # {}
    <2>1. Cardinality(new) # 0
      BY <1>4 DEF lookup_page
    <2> QED BY <2>1, FS_EmptySet
  <1>7. refs'[pd] = refs[pd] \union new
    BY <1>2, <1>3, <1>4 DEF MemType
  <1>8. MemType'
    BY <1>2, <1>3, <1>4 DEF MemType
  <1>9. /\ pc'[t] = q /\ cur' = t /\ esp0' = t /\ cr3' = cr3 /\ temporary' = temporary
        /\ TypeOK' /\ \A u \in Thread : u # t => pc'[u] = pc[u]
    BY <1>1, <1>8, StepFacts DEF Pc
  <1>10. Apart(t)
    BY <1>1, <1>4, <1>9 DEF Apart
  <1>11. Pointers(t)'
    BY <1>1, <1>2, <1>4, <1>9 DEF Alone, Pointers
  <1>12. Holding(t)'
    BY HoldingsNext
  <1>13. Owns(t)'
    <2>1. Space(t)' = {pd} \union refs[pd] \union new /\ Dir(t)' = {pd} /\ PcbBlock(t)' = {pcb[t]}
      BY <1>3, <1>4, <1>7, <1>9, <1>12 DEF Holding
    <2>2. /\ Space(t) = {pd} \union refs[pd] /\ Dir(t) = {pd}
          /\ PcbBlock(t) = {pcb[t]} /\ Name(t)' = Name(t)
      BY <1>1, <1>2, <1>3, <1>4 DEF Alone, Holding, Name
    <2>3. /\ heap = {pcb[main]} \union {pcb[t]} /\ inUse = abandoned \union Name(t) \union Space(t)
          /\ Name(t) \cap Space(t) = {} /\ (Name(t) \union Space(t)) \cap abandoned = {}
          /\ pd \notin refs[pd]
      BY <1>2, <2>2 DEF Alone, Owns
    <2>4. pd \notin new /\ new \cap abandoned = {} /\ new \cap Name(t) = {}
      BY <1>5, <2>2, <2>3
    <2>5. pd \notin refs'[pd] /\ refs'[pd] # {} /\ pagedir'[pcb'[t]] = pd
      BY <1>4, <1>6, <1>7, <2>3, <2>4
    <2>6. /\ inUse' = abandoned' \union Name(t)' \union Space(t)'
          /\ Name(t)' \cap Space(t)' = {}
          /\ (Name(t)' \union Space(t)') \cap abandoned' = {}
      BY <1>4, <2>1, <2>2, <2>3, <2>4
    <2>7. heap' = {pcb'[main]} \union PcbBlock(t)'
      BY <1>4, <2>1, <2>3
    <2>8. \A d \in Dir(t)' : d \notin refs'[d]
      BY <2>1, <2>5
    <2> QED BY <1>9, <2>5, <2>6, <2>7, <2>8 DEF Owns
  <1>14. Directory(t)'
    BY <1>1, <1>2, <1>4, <1>9 DEF Directory
  <1> QED BY <1>2, <1>9, <1>10, <1>11, <1>13, <1>14, ChildStep

LEMMA ForgetPcbStep ==
  ASSUME IInv, NEW t \in Child, ForgetPcb(t)
  PROVE  IInv'
  <1> DEFINE pd == pagedir[pcb[t]]
  <1>1. Step(t, "unset_pcb", "free_pcb") /\ cur = t /\ pc[t] = "unset_pcb"
    BY DEF ForgetPcb, Step, At
  <1>2. Alone(t) /\ MemType /\ Directory(t)
    BY <1>1, AtAlone
  <1>3. /\ pcb[t] \in Block \ {pcb[main]} /\ pd \in Page \union {NULL}
        /\ NULL \notin Page /\ main # t /\ local[t] = NULL
    BY <1>1, <1>2, ProcessAssumption DEF Alone, Pointers
  <1>4. /\ local' = [local EXCEPT ![t] = pcb[t]] /\ pcb' = [pcb EXCEPT ![t] = NULL]
        /\ abandoned' = IF pd = NULL THEN abandoned ELSE abandoned \union {pd} \union refs[pd]
        /\ UNCHANGED <<heap, pagedir, inUse, refs, file_name, left>>
    BY DEF ForgetPcb, UnsetPcb
  <1>5. /\ pcb'[t] = NULL /\ local'[t] = pcb[t] /\ pcb'[main] = pcb[main]
        /\ \A u \in Thread : u # t => pcb'[u] = pcb[u] /\ local'[u] = local[u]
    BY <1>2, <1>3, <1>4 DEF MemType
  <1>6. /\ Space(t) = IF pd = NULL THEN {} ELSE {pd} \union refs[pd]
        /\ PcbBlock(t) = {pcb[t]}
    BY <1>1, <1>2 DEF Alone, Holding
  <1>7. /\ heap = {pcb[main]} \union {pcb[t]} /\ inUse = abandoned \union Name(t) \union Space(t)
        /\ Name(t) \cap Space(t) = {} /\ (Name(t) \union Space(t)) \cap abandoned = {}
    BY <1>2, <1>6 DEF Alone, Owns
  <1>8. abandoned' = abandoned \union Space(t)
    BY <1>4, <1>6
  <1>9. MemType'
    <2>1. abandoned' \subseteq inUse'
      BY <1>4, <1>7, <1>8
    <2> QED BY <1>2, <1>3, <1>4, <2>1 DEF MemType
  <1>10. /\ pc'[t] = "free_pcb" /\ cur' = t /\ esp0' = t /\ cr3' = cr3 /\ temporary' = temporary
         /\ TypeOK' /\ \A u \in Thread : u # t => pc'[u] = pc[u]
    BY <1>1, <1>9, StepFacts DEF Pc
  <1>11. Apart(t)
    BY <1>1, <1>4, <1>5, <1>10 DEF Apart
  <1>12. Pointers(t)'
    BY <1>1, <1>2, <1>3, <1>4, <1>5, <1>10 DEF Alone, Pointers
  <1>13. Holding(t)'
    BY HoldingsNext
  <1>14. Owns(t)'
    <2>1. /\ Space(t)' = {} /\ Dir(t)' = {} /\ PcbBlock(t)' = {pcb[t]} /\ Name(t)' = Name(t)
      BY <1>4, <1>5, <1>10, <1>13 DEF Holding, Name
    <2> QED BY <1>4, <1>5, <1>7, <1>8, <1>10, <2>1 DEF Owns
  <1>15. Directory(t)'
    <2>1. ASSUME cr3 # init_page_dir
          PROVE  cr3 \in abandoned' /\ refs'[cr3] \subseteq abandoned'
      <3>1. cr3 = pd /\ cr3 \in Page
        BY <1>1, <1>2, <2>1 DEF Directory, IInv, TypeOK
      <3> QED BY <1>3, <1>4, <3>1
    <2> QED BY <1>10, <2>1 DEF Directory
  <1> QED BY <1>2, <1>10, <1>11, <1>12, <1>14, <1>15, ChildStep

LEMMA FreePcbStep ==
  ASSUME IInv, NEW t \in Child, NEW p, NEW q, FreePcb(t, p, q),
         \/ p = "free_pcb" /\ q = "free_name_failed"
         \/ p = "exit_free_pcb" /\ q = "up"
  PROVE  IInv'
  <1>1. Step(t, p, q) /\ cur = t /\ pc[t] = p /\ p \notin GonePc /\ q \in Pc
    BY DEF FreePcb, Step, At, Pc
  <1>2. Alone(t) /\ MemType /\ Directory(t)
    BY <1>1, AtAlone
  <1>3. local[t] \in Block \ {pcb[main]}
    BY <1>1, <1>2 DEF Alone, Pointers
  <1>4. /\ heap' = heap \ {local[t]} /\ pagedir' = [pagedir EXCEPT ![local[t]] = JUNK]
        /\ local' = [local EXCEPT ![t] = NULL]
        /\ UNCHANGED <<pcb, inUse, refs, file_name, left, abandoned>>
    BY DEF FreePcb
  <1>5. MemType'
    BY <1>2, <1>3, <1>4 DEF MemType
  <1>6. /\ local'[t] = NULL /\ \A u \in Thread : u # t => local'[u] = local[u]
        /\ pagedir'[pcb[main]] = pagedir[pcb[main]]
    BY <1>2, <1>3, <1>4 DEF MemType
  <1>7. /\ pc'[t] = q /\ cur' = t /\ esp0' = t /\ cr3' = cr3 /\ temporary' = temporary
        /\ TypeOK' /\ \A u \in Thread : u # t => pc'[u] = pc[u]
    BY <1>1, <1>5, StepFacts
  <1>8. Apart(t)
    BY <1>1, <1>4, <1>6, <1>7 DEF Apart
  <1>9. Pointers(t)'
    BY <1>1, <1>2, <1>4, <1>6, <1>7 DEF Alone, Pointers
  <1>10. Holding(t)'
    BY HoldingsNext
  <1>11. Owns(t)'
    <2>1. /\ Space(t)' = {} /\ Dir(t)' = {} /\ PcbBlock(t)' = {} /\ Name(t)' = Name(t)
      BY <1>4, <1>7, <1>10 DEF Holding, Name
    <2>2. Space(t) = {} /\ PcbBlock(t) = {local[t]}
      BY <1>1, <1>2 DEF Alone, Holding
    <2>3. /\ heap = {pcb[main]} \union {local[t]} /\ inUse = abandoned \union Name(t)
          /\ Name(t) \cap abandoned = {}
      BY <1>2, <2>2 DEF Alone, Owns
    <2> QED BY <1>3, <1>4, <1>7, <2>1, <2>3 DEF Owns
  <1>12. Directory(t)'
    BY <1>1, <1>2, <1>4, <1>7 DEF Directory
  <1> QED BY <1>2, <1>7, <1>8, <1>9, <1>11, <1>12, ChildStep

LEMMA FreeNameStep ==
  ASSUME IInv, NEW t \in Child, FreeName(t)
  PROVE  IInv'
  <1>1. PICK p, q : /\ Step(t, p, q)
                    /\ \/ p = "free_name" /\ q = "user"
                       \/ p = "free_name_failed" /\ q = "up"
    BY DEF FreeName
  <1>2. cur = t /\ pc[t] = p /\ p \notin GonePc /\ q \in Pc
    BY <1>1 DEF Step, At, Pc
  <1>3. Alone(t) /\ MemType /\ Directory(t)
    BY <1>2, AtAlone
  <1>4. file_name[t] \in Page /\ file_name[t] # NULL
    BY <1>1, <1>2, <1>3, ProcessAssumption DEF Alone, Pointers
  <1>5. /\ inUse' = inUse \ {file_name[t]} /\ file_name' = [file_name EXCEPT ![t] = NULL]
        /\ UNCHANGED <<pcb, heap, pagedir, refs, local, left, abandoned>>
    BY DEF FreeName
  <1>6. Name(t) = {file_name[t]}
    BY <1>3, <1>4 DEF Alone, Holding
  <1>7. MemType'
    <2>1. abandoned' \subseteq inUse'
      BY <1>3, <1>5, <1>6 DEF MemType, Alone, Owns
    <2> QED BY <1>3, <1>5, <2>1 DEF MemType
  <1>8. file_name'[t] = NULL /\ \A u \in Thread : u # t => file_name'[u] = file_name[u]
    BY <1>3, <1>5 DEF MemType
  <1>9. /\ pc'[t] = q /\ cur' = t /\ esp0' = t /\ cr3' = cr3 /\ temporary' = temporary
        /\ TypeOK' /\ \A u \in Thread : u # t => pc'[u] = pc[u]
    BY <1>1, <1>2, <1>7, StepFacts
  <1>10. Apart(t)
    BY <1>2, <1>5, <1>8, <1>9 DEF Apart
  <1>11. Pointers(t)'
    BY <1>1, <1>2, <1>3, <1>5, <1>8, <1>9 DEF Alone, Pointers
  <1>12. Holding(t)'
    BY HoldingsNext
  <1>13. Owns(t)'
    <2>1. Space(t)' = Space(t) /\ Dir(t)' = Dir(t) /\ PcbBlock(t)' = PcbBlock(t)
      BY <1>1, <1>2, <1>5, <1>9 DEF Space, Dir, PcbBlock
    <2>2. Name(t)' = {}
      BY <1>8 DEF Name
    <2>3. /\ heap = {pcb[main]} \union PcbBlock(t)
          /\ inUse = abandoned \union {file_name[t]} \union Space(t)
          /\ file_name[t] \notin Space(t) /\ file_name[t] \notin abandoned
          /\ Space(t) \cap abandoned = {}
          /\ \A d \in Dir(t) : d \notin refs[d]
      BY <1>3, <1>6 DEF Alone, Owns
    <2>4. inUse' = abandoned' \union Name(t)' \union Space(t)'
      BY <1>5, <2>1, <2>2, <2>3
    <2>5. pc'[t] = "user" => refs'[pagedir'[pcb'[t]]] # {}
      BY <1>1, <1>2, <1>3, <1>5, <1>9 DEF Alone, Owns
    <2> QED BY <1>1, <1>5, <1>9, <2>1, <2>2, <2>3, <2>4, <2>5 DEF Owns
  <1>14. Directory(t)'
    BY <1>1, <1>2, <1>3, <1>5, <1>9 DEF Directory
  <1> QED BY <1>1, <1>3, <1>9, <1>10, <1>11, <1>13, <1>14, ChildStep

\* process_exit() finds a directory: only a load that failed has none.
LEMMA GetPagedirStep ==
  ASSUME IInv, NEW t \in Child, GetPagedir(t)
  PROVE  IInv'
  <1> DEFINE pd == pagedir[pcb[t]]
  <1>1. cur = t /\ pc[t] = "get_pd"
    BY DEF GetPagedir, Step, At
  <1>2. Alone(t) /\ MemType /\ Directory(t)
    BY <1>1, AtAlone
  <1>3. pcb[t] \in Block \ {pcb[main]} /\ pd \in Page /\ pd # NULL
    BY <1>1, <1>2, ProcessAssumption DEF Alone, Pointers
  <1>4. /\ Step(t, "get_pd", "clear_pd") /\ local' = [local EXCEPT ![t] = pd]
        /\ UNCHANGED <<pcb, heap, pagedir, inUse, refs, file_name, left, abandoned>>
    BY <1>3 DEF GetPagedir
  <1>5. MemType'
    BY <1>2, <1>3, <1>4 DEF MemType
  <1>6. local'[t] = pd /\ \A u \in Thread : u # t => local'[u] = local[u]
    BY <1>2, <1>4 DEF MemType
  <1>7. /\ pc'[t] = "clear_pd" /\ cur' = t /\ esp0' = t /\ cr3' = cr3 /\ temporary' = temporary
        /\ TypeOK' /\ \A u \in Thread : u # t => pc'[u] = pc[u]
    BY <1>4, <1>5, StepFacts DEF Pc
  <1>8. Apart(t)
    BY <1>1, <1>4, <1>6, <1>7 DEF Apart
  <1>9. Pointers(t)'
    BY <1>1, <1>2, <1>3, <1>4, <1>6, <1>7 DEF Alone, Pointers
  <1>10. Owns(t)'
    <2>1. /\ Space(t)' = Space(t) /\ Dir(t)' = Dir(t) /\ PcbBlock(t)' = PcbBlock(t)
          /\ Name(t)' = Name(t)
      BY <1>1, <1>4, <1>7 DEF Space, Dir, PcbBlock, Name
    <2> QED BY <1>1, <1>2, <1>4, <1>7, <2>1 DEF Alone, Owns
  <1>11. Directory(t)'
    BY <1>1, <1>2, <1>4, <1>7 DEF Directory
  <1> QED BY <1>2, <1>7, <1>8, <1>9, <1>10, <1>11, ChildStep

LEMMA ClearPagedirStep ==
  ASSUME IInv, NEW t \in Child, ClearPagedir(t)
  PROVE  IInv'
  <1>1. Step(t, "clear_pd", "deactivate") /\ cur = t /\ pc[t] = "clear_pd"
    BY DEF ClearPagedir, Step, At
  <1>2. Alone(t) /\ MemType /\ Directory(t)
    BY <1>1, AtAlone
  <1>3. /\ pcb[t] \in Block \ {pcb[main]} /\ local[t] \in Page /\ local[t] # NULL
        /\ pagedir[pcb[t]] = local[t]
    BY <1>1, <1>2, ProcessAssumption DEF Alone, Pointers
  <1>4. /\ pagedir' = [pagedir EXCEPT ![pcb[t]] = NULL]
        /\ UNCHANGED <<pcb, heap, inUse, refs, file_name, local, left, abandoned>>
    BY DEF ClearPagedir, ClearedPagedir
  <1>5. MemType'
    BY <1>2, <1>3, <1>4 DEF MemType
  <1>6. pagedir'[pcb[t]] = NULL /\ pagedir'[pcb[main]] = pagedir[pcb[main]]
    BY <1>2, <1>3, <1>4 DEF MemType
  <1>7. /\ pc'[t] = "deactivate" /\ cur' = t /\ esp0' = t /\ cr3' = cr3 /\ temporary' = temporary
        /\ TypeOK' /\ \A u \in Thread : u # t => pc'[u] = pc[u]
    BY <1>1, <1>5, StepFacts DEF Pc
  <1>8. Apart(t)
    BY <1>1, <1>4, <1>6, <1>7 DEF Apart
  <1>9. Pointers(t)'
    BY <1>1, <1>2, <1>3, <1>4, <1>6, <1>7 DEF Alone, Pointers
  <1>10. Holding(t)'
    BY HoldingsNext
  <1>11. Owns(t)'
    <2>1. /\ Space(t)' = {local[t]} \union refs[local[t]] /\ Dir(t)' = {local[t]}
          /\ PcbBlock(t)' = {pcb[t]} /\ Name(t)' = Name(t)
      BY <1>4, <1>7, <1>10 DEF Holding, Name
    <2>2. /\ Space(t) = {local[t]} \union refs[local[t]] /\ Dir(t) = {local[t]}
          /\ PcbBlock(t) = {pcb[t]}
      BY <1>1, <1>2, <1>3 DEF Alone, Holding
    <2> QED BY <1>2, <1>4, <1>7, <2>1, <2>2 DEF Alone, Owns
  <1>12. Directory(t)'
    BY <1>1, <1>2, <1>3, <1>4, <1>7 DEF Directory
  <1> QED BY <1>2, <1>7, <1>8, <1>9, <1>11, <1>12, ChildStep

LEMMA DeactivateStep ==
  ASSUME IInv, NEW t \in Child, Deactivate(t)
  PROVE  IInv'
  <1>1. /\ cur = t /\ pc[t] = "deactivate" /\ pc' = [pc EXCEPT ![t] = "destroy"]
        /\ cur' = t /\ esp0' = esp0 /\ cr3' = init_page_dir
        /\ temporary' = temporary /\ started' = started
    BY DEF Deactivate, At, Goto
  <1>2. Alone(t) /\ MemType
    BY <1>1, AtAlone
  <1>3. /\ left' = [left EXCEPT ![t] = refs[local[t]]]
        /\ UNCHANGED <<pcb, heap, pagedir, inUse, refs, file_name, local, abandoned>>
    BY DEF Deactivate
  <1>4. pc \in [Thread -> Pc]
    BY DEF IInv, TypeOK
  <1>5. /\ pc' \in [Thread -> Pc] /\ pc'[t] = "destroy"
        /\ \A u \in Thread : u # t => pc'[u] = pc[u]
    BY <1>1, <1>4 DEF Pc
  <1>6. local[t] \in Page
    BY <1>1, <1>2 DEF Alone, Pointers
  <1>7. left'[t] = refs[local[t]] /\ refs[local[t]] \subseteq Page
    BY <1>2, <1>3, <1>6 DEF MemType
  <1>8. TypeOK'
    <2>1. temporary' \in 0 .. 1 /\ started' \in BOOLEAN
      BY <1>1, Zenon DEF IInv, TypeOK
    <2>2. MemType'
      BY <1>2, <1>3, <1>7 DEF MemType
    <2>3. cur' \in Thread /\ esp0' \in Thread /\ cr3' \in Page \union {init_page_dir}
      BY <1>1 DEF IInv, TypeOK
    <2> QED BY <1>5, <2>1, <2>2, <2>3, Zenon DEF TypeOK, MemType
  <1>9. Apart(t)
    BY <1>1, <1>2, <1>3, <1>5 DEF Apart, Alone
  <1>10. Pointers(t)'
    BY <1>1, <1>2, <1>3, <1>5 DEF Alone, Pointers
  <1>11. Holding(t)'
    BY HoldingsNext
  <1>12. Owns(t)'
    <2>1. /\ Space(t)' = {local[t]} \union refs[local[t]] /\ Dir(t)' = {local[t]}
          /\ PcbBlock(t)' = {pcb[t]} /\ Name(t)' = Name(t)
      BY <1>3, <1>5, <1>7, <1>11 DEF Holding, Name
    <2>2. /\ Space(t) = {local[t]} \union refs[local[t]] /\ Dir(t) = {local[t]}
          /\ PcbBlock(t) = {pcb[t]}
      BY <1>1, <1>2 DEF Alone, Holding
    <2> QED BY <1>2, <1>3, <1>5, <1>7, <2>1, <2>2 DEF Alone, Owns
  <1>13. Directory(t)'
    BY <1>1, <1>5 DEF Directory
  <1> QED BY <1>2, <1>5, <1>8, <1>9, <1>10, <1>12, <1>13, ChildStep

LEMMA pagedir_destroyStep ==
  ASSUME IInv, NEW t \in Child, pagedir_destroy(t)
  PROVE  IInv'
  <1>1. cur = t /\ pc[t] = "destroy"
    BY DEF pagedir_destroy, Step, At
  <1>2. Alone(t) /\ MemType /\ Directory(t)
    BY <1>1, AtAlone
  <1>3. /\ pcb[t] \in Block \ {pcb[main]} /\ local[t] \in Page
        /\ file_name[t] = NULL /\ pagedir[pcb[t]] = NULL
    BY <1>1, <1>2 DEF Alone, Pointers
  <1>4. Space(t) = {local[t]} \union left[t] /\ PcbBlock(t) = {pcb[t]} /\ Name(t) = {}
    BY <1>1, <1>2, <1>3 DEF Alone, Holding
  <1>5. /\ heap = {pcb[main]} \union {pcb[t]} /\ inUse = abandoned \union {local[t]} \union left[t]
        /\ ({local[t]} \union left[t]) \cap abandoned = {} /\ local[t] \notin left[t]
        /\ local[t] \notin refs[local[t]]
    <2>1. Dir(t) = {local[t]}
      BY <1>1, <1>2 DEF Alone, Holding
    <2> QED BY <1>1, <1>2, <1>4, <2>1 DEF Alone, Owns
  <1>6. Holding(t)'
    BY HoldingsNext
  <1>7. ASSUME NEW p \in left[t], Step(t, "destroy", "destroy"),
               inUse' = inUse \ {p}, left' = [left EXCEPT ![t] = @ \ {p}],
               UNCHANGED <<pcb, heap, pagedir, refs, file_name, local, abandoned>>
        PROVE  IInv'
    <2>1. abandoned' \subseteq inUse' /\ left'[t] = left[t] \ {p}
      BY <1>2, <1>5, <1>7 DEF MemType
    <2>2. MemType'
      BY <1>2, <1>7, <2>1 DEF MemType
    <2>3. /\ pc'[t] = "destroy" /\ cur' = t /\ esp0' = t /\ cr3' = cr3 /\ temporary' = temporary
          /\ TypeOK' /\ \A u \in Thread : u # t => pc'[u] = pc[u]
      BY <1>7, <2>2, StepFacts DEF Pc
    <2>4. Apart(t)
      BY <1>1, <1>7, <2>3 DEF Apart
    <2>5. Pointers(t)'
      BY <1>1, <1>2, <1>7, <2>3 DEF Alone, Pointers
    <2>6. Owns(t)'
      <3>1. /\ Space(t)' = {local[t]} \union (left[t] \ {p}) /\ Dir(t)' = {local[t]}
            /\ PcbBlock(t)' = {pcb[t]} /\ Name(t)' = {}
        BY <1>3, <1>6, <1>7, <2>1, <2>3 DEF Holding
      <3>2. p # local[t] /\ p \notin abandoned
        BY <1>5, <1>7
      <3>3. inUse' = abandoned \union ({local[t]} \union (left[t] \ {p}))
        BY <1>5, <1>7, <3>2
      <3> QED BY <1>5, <1>7, <2>1, <2>3, <3>1, <3>3 DEF Owns
    <2>7. Directory(t)'
      BY <1>1, <1>2, <1>7, <2>3 DEF Directory
    <2> QED BY <1>2, <2>3, <2>4, <2>5, <2>6, <2>7, ChildStep
  <1>8. ASSUME left[t] = {}, Step(t, "destroy", "exit_unset_pcb"),
               inUse' = inUse \ {local[t]}, local' = [local EXCEPT ![t] = NULL],
               UNCHANGED <<pcb, heap, pagedir, refs, file_name, left, abandoned>>
        PROVE  IInv'
    <2>1. abandoned' \subseteq inUse' /\ inUse' = abandoned
      BY <1>5, <1>8
    <2>2. MemType'
      BY <1>2, <1>8, <2>1 DEF MemType
    <2>3. local'[t] = NULL /\ \A u \in Thread : u # t => local'[u] = local[u]
      BY <1>2, <1>8 DEF MemType
    <2>4. /\ pc'[t] = "exit_unset_pcb" /\ cur' = t /\ esp0' = t /\ cr3' = cr3
          /\ temporary' = temporary
          /\ TypeOK' /\ \A u \in Thread : u # t => pc'[u] = pc[u]
      BY <1>8, <2>2, StepFacts DEF Pc
    <2>5. Apart(t)
      BY <1>1, <1>8, <2>3, <2>4 DEF Apart
    <2>6. Pointers(t)'
      BY <1>1, <1>2, <1>3, <1>8, <2>3, <2>4 DEF Alone, Pointers
    <2>7. Owns(t)'
      <3>1. Space(t)' = {} /\ Dir(t)' = {} /\ PcbBlock(t)' = {pcb[t]} /\ Name(t)' = {}
        BY <1>3, <1>6, <1>8, <2>4 DEF Holding
      <3> QED BY <1>5, <1>8, <2>1, <2>4, <3>1 DEF Owns
    <2>8. Directory(t)'
      BY <1>1, <1>2, <1>8, <2>4 DEF Directory
    <2> QED BY <1>2, <2>4, <2>5, <2>6, <2>7, <2>8, ChildStep
  <1> QED BY <1>7, <1>8 DEF pagedir_destroy

LEMMA ExitUnsetPcbStep ==
  ASSUME IInv, NEW t \in Child, ExitUnsetPcb(t)
  PROVE  IInv'
  <1>1. Step(t, "exit_unset_pcb", "exit_free_pcb") /\ cur = t /\ pc[t] = "exit_unset_pcb"
    BY DEF ExitUnsetPcb, Step, At
  <1>2. Alone(t) /\ MemType /\ Directory(t)
    BY <1>1, AtAlone
  <1>3. pcb[t] \in Block \ {pcb[main]} /\ main # t
    BY <1>1, <1>2, ProcessAssumption DEF Alone, Pointers
  <1>4. /\ local' = [local EXCEPT ![t] = pcb[t]] /\ pcb' = [pcb EXCEPT ![t] = NULL]
        /\ UNCHANGED <<heap, pagedir, inUse, refs, file_name, left, abandoned>>
    BY DEF ExitUnsetPcb, UnsetPcb
  <1>5. MemType'
    BY <1>2, <1>3, <1>4 DEF MemType
  <1>6. /\ pcb'[t] = NULL /\ local'[t] = pcb[t] /\ pcb'[main] = pcb[main]
        /\ \A u \in Thread : u # t => pcb'[u] = pcb[u] /\ local'[u] = local[u]
    BY <1>2, <1>3, <1>4 DEF MemType
  <1>7. /\ pc'[t] = "exit_free_pcb" /\ cur' = t /\ esp0' = t /\ cr3' = cr3
        /\ temporary' = temporary
        /\ TypeOK' /\ \A u \in Thread : u # t => pc'[u] = pc[u]
    BY <1>1, <1>5, StepFacts DEF Pc
  <1>8. Apart(t)
    BY <1>1, <1>4, <1>6, <1>7 DEF Apart
  <1>9. Pointers(t)'
    BY <1>1, <1>2, <1>3, <1>4, <1>6, <1>7 DEF Alone, Pointers
  <1>10. Holding(t)'
    BY HoldingsNext
  <1>11. Owns(t)'
    BY <1>1, <1>2, <1>3, <1>4, <1>6, <1>7, <1>10 DEF Alone, Owns, Holding, Name
  <1>12. Directory(t)'
    BY <1>1, <1>2, <1>4, <1>7 DEF Directory
  <1> QED BY <1>2, <1>7, <1>8, <1>9, <1>11, <1>12, ChildStep

-----------------------------------------------------------------------------
(***************************************************************************)
(* Switches, and the steps of main.                                        *)
(***************************************************************************)
SameMemory == UNCHANGED <<pcb, heap, pagedir, inUse, refs, file_name, local, left, abandoned>>

LEMMA SameMemVars == UNCHANGED memVars => SameMemory
  BY DEF memVars, SameMemory

LEMMA TypeParts ==
  ASSUME MemType', pc' \in [Thread -> Pc], cur' \in Thread, esp0' \in Thread,
         cr3' \in Page \union {init_page_dir}, temporary' \in 0 .. 1, started' \in BOOLEAN
  PROVE  TypeOK'
  BY Zenon DEF TypeOK, MemType

\* Memory that does not change still belongs to whom it belonged to.
LEMMA MemoryKept ==
  ASSUME IInv, SameMemory,
         \A t \in Child : pc'[t] = pc[t] \/ (pc[t] \in GonePc /\ pc'[t] \in GonePc)
  PROVE  Memory' /\ MemType'
  <1>1. MemType'
    BY MemTypes DEF MemType, SameMemory
  <1>2. ASSUME NEW t \in Child
        PROVE  Pointers(t)'
    <2>1. Pointers(t)
      BY DEF IInv, Memory
    <2>2. CASE pc'[t] = pc[t]
      BY <2>1, <2>2 DEF Pointers, SameMemory
    <2>3. CASE pc[t] \in GonePc /\ pc'[t] \in GonePc
      BY <2>1, <2>3 DEF Pointers, SameMemory
    <2> QED BY <1>2, <2>2, <2>3
  <1>3. ASSUME NEW t \in Child, Busy(t)'
        PROVE  Owns(t)'
    <2>1. pc'[t] = pc[t] /\ Busy(t)
      BY <1>3 DEF Busy
    <2>2. Owns(t)
      BY <2>1 DEF IInv, Memory
    <2>3. Space(t)' = Space(t) /\ Dir(t)' = Dir(t) /\ PcbBlock(t)' = PcbBlock(t) /\ Name(t)' = Name(t)
      BY <2>1 DEF Space, Dir, PcbBlock, Name, SameMemory
    <2> QED BY <2>1, <2>2, <2>3 DEF Owns, SameMemory
  <1>4. ASSUME \A t \in Child : ~ Busy(t)'
        PROVE  heap' = {pcb'[main]} /\ inUse' = abandoned' \union Name(main)'
               /\ Name(main)' \cap abandoned' = {}
    <2>1. \A t \in Child : ~ Busy(t)
      BY <1>4 DEF Busy
    <2>2. Name(main)' = Name(main)
      BY DEF Name, SameMemory
    <2> QED BY <2>1, <2>2 DEF IInv, Memory, SameMemory
  <1> QED BY <1>1, <1>2, <1>3, <1>4 DEF Memory

\* Whomever a switch runs next, process_activate() loads its directory.
LEMMA SwitchStep ==
  ASSUME IInv, NEW u \in Thread, SwitchTo(u), SameMemory, pc'[u] = pc[u],
         \A v \in Child : pc'[v] = pc[v] \/ pc'[v] \in GonePc
  PROVE  /\ Cpu'
         /\ cur' \in Thread /\ esp0' \in Thread /\ cr3' \in Page \union {init_page_dir}
  <1>1. cur' = u /\ esp0' = u /\ cr3' = process_activate(u)
    BY DEF SwitchTo
  <1>2. MemType
    BY MemTypes
  <1>3. CASE u \in Child
    <2>1. Pointers(u) /\ pc[u] \in ChildPc
      BY <1>3 DEF IInv, Memory, Protocol
    <2>2. ASSUME pc[u] \in PcbPc
          PROVE  /\ pcb[u] \in Block /\ pcb[u] # NULL
                 /\ pagedir[pcb[u]] \in Page \union {NULL}
      BY <2>1, <2>2, ProcessAssumption DEF Pointers
    <2>3. pc[u] \notin PcbPc => process_activate(u) = init_page_dir
      BY <2>1 DEF Pointers, process_activate
    <2>4. pc[u] \in NoDirPc => process_activate(u) = init_page_dir
      BY <2>1 DEF Pointers, process_activate
    <2>5. pc[u] \in DirPc => process_activate(u) = pagedir[pcb[u]] /\ pagedir[pcb[u]] \in Page
      BY <2>1, <2>2, ProcessAssumption DEF Pointers, process_activate
    <2>6. pc[u] = "unset_pcb" => \/ process_activate(u) = init_page_dir
                                 \/ process_activate(u) = pagedir[pcb[u]] /\ pagedir[pcb[u]] \in Page
      BY <2>1, <2>2, ProcessAssumption DEF Pointers, process_activate
    <2>7. pc[u] \in PcbPc => pc[u] \in DirPc \/ pc[u] \in NoDirPc \/ pc[u] = "unset_pcb"
      OBVIOUS
    <2>8. cr3' \in Page \union {init_page_dir}
      BY <1>1, <2>3, <2>4, <2>5, <2>6, <2>7, Zenon
    <2>9. cr3' # init_page_dir => pc[u] \in DirPc \union {"unset_pcb"} /\ cr3' = pagedir[pcb[u]]
      BY <1>1, <2>3, <2>4, <2>5, <2>6, <2>7
    <2>10. Directory(u)'
      BY <1>1, <2>5, <2>9 DEF Directory, SameMemory
    <2>11. ASSUME cr3' # init_page_dir, NEW v \in Child, v # u
           PROVE  ~ Busy(v)'
      <3>1. Busy(u)
        BY <2>9, <2>11 DEF Busy
      <3>2. ~ Busy(v)
        BY <1>3, <2>11, <3>1 DEF IInv, Protocol
      <3> QED BY <3>2 DEF Busy
    <2> QED BY <1>1, <1>3, <2>8, <2>10, <2>11 DEF Cpu
  <1>4. CASE u \in {main, idle}
    <2>1. process_activate(u) = init_page_dir
      BY <1>4 DEF process_activate, IInv, KernelThreads
    <2>2. pc[u] \notin ActivePc
      BY <1>4 DEF IInv, Protocol, MainPc
    <2> QED BY <1>1, <2>1, <2>2 DEF Cpu, Directory
  <1> QED BY <1>3, <1>4

LEMMA PreemptStep ==
  ASSUME IInv, NEW u \in Thread, Preempt(u)
  PROVE  IInv'
  <1>1. SwitchTo(u) /\ pc' = pc /\ temporary' = temporary /\ started' = started /\ SameMemory
    BY SameMemVars DEF Preempt
  <1>2. Memory' /\ MemType'
    BY <1>1, MemoryKept
  <1>3. Cpu' /\ cur' \in Thread /\ esp0' \in Thread /\ cr3' \in Page \union {init_page_dir}
    BY <1>1, SwitchStep
  <1>4. Protocol'
    BY <1>1 DEF IInv, Protocol, Busy
  <1>5. KernelThreads'
    BY <1>1 DEF IInv, KernelThreads, SameMemory
  <1>6. pc' \in [Thread -> Pc] /\ temporary' \in 0 .. 1 /\ started' \in BOOLEAN
    BY <1>1, Zenon DEF IInv, TypeOK
  <1>7. TypeOK'
    BY <1>2, <1>3, <1>6, TypeParts
  <1> QED BY <1>2, <1>3, <1>4, <1>5, <1>7 DEF IInv

LEMMA thread_exitStep ==
  ASSUME IInv, NEW t \in Child, thread_exit(t)
  PROVE  IInv'
  <1>1. /\ cur = t /\ pc[t] = "thread_exit" /\ pc' = [pc EXCEPT ![t] = "none"]
        /\ temporary' = temporary /\ started' = started /\ SameMemory
    BY SameMemVars DEF thread_exit, At, Goto
  <1>2. PICK u \in Thread : SwitchTo(u)
    BY DEF thread_exit
  <1>3. u # t
    BY <1>1, <1>2 DEF SwitchTo
  <1>4. pc \in [Thread -> Pc] /\ main # t /\ idle # t
    BY ProcessAssumption DEF IInv, TypeOK
  <1>5. /\ pc' \in [Thread -> Pc] /\ pc'[t] = "none"
        /\ \A v \in Thread : v # t => pc'[v] = pc[v]
    BY <1>1, <1>4 DEF Pc
  <1>6. \A v \in Child : pc'[v] = pc[v] \/ (pc[v] \in GonePc /\ pc'[v] \in GonePc)
    BY <1>1, <1>5
  <1>7. Memory' /\ MemType'
    BY <1>1, <1>6, MemoryKept
  <1>8. Cpu' /\ cur' \in Thread /\ esp0' \in Thread /\ cr3' \in Page \union {init_page_dir}
    <2>1. pc'[u] = pc[u]
      BY <1>3, <1>5
    <2>2. \A v \in Child : pc'[v] = pc[v] \/ pc'[v] \in GonePc
      BY <1>6
    <2> QED BY <1>1, <1>2, <2>1, <2>2, SwitchStep
  <1>9. Protocol'
    <2>1. pc'[main] = pc[main] /\ pc'[idle] = pc[idle]
      BY <1>4, <1>5
    <2>2. \A v \in Child : pc'[v] \in ChildPc /\ (Busy(v)' => Busy(v))
      BY <1>5, <1>6 DEF IInv, Protocol, Busy
    <2> QED BY <1>1, <2>1, <2>2 DEF IInv, Protocol
  <1>10. KernelThreads'
    BY <1>1, <1>4, <1>5 DEF IInv, KernelThreads, SameMemory
  <1>11. temporary' \in 0 .. 1 /\ started' \in BOOLEAN
    BY <1>1, Zenon DEF IInv, TypeOK
  <1>12. TypeOK'
    BY <1>5, <1>7, <1>8, <1>11, TypeParts
  <1> QED BY <1>7, <1>8, <1>9, <1>10, <1>12 DEF IInv

\* sema_up() by the last step of a child that has nothing left.
LEMMA SemaUpStep ==
  ASSUME IInv, NEW t \in Child, SemaUp(t)
  PROVE  IInv'
  <1>1. /\ cur = t /\ pc[t] = "up" /\ temporary' = temporary + 1 /\ started' = started
        /\ pc' = [pc EXCEPT ![t] = "thread_exit",
                            ![main] = IF @ = "asleep" THEN "wait" ELSE @]
        /\ cur' = cur /\ cr3' = cr3 /\ esp0' = esp0 /\ SameMemory
    BY SameMemVars DEF SemaUp, At, SameCpu
  <1>2. Alone(t) /\ MemType /\ Directory(t)
    BY <1>1, AtAlone
  <1>3. pc \in [Thread -> Pc] /\ main # t /\ idle # t /\ main # idle /\ main \notin Child
    BY ProcessAssumption DEF IInv, TypeOK
  <1>4. pc[main] \in {"wait", "asleep"} /\ temporary = 0 /\ file_name[main] = NULL
    BY <1>2 DEF Alone
  <1>5. /\ pc' \in [Thread -> Pc] /\ pc'[t] = "thread_exit" /\ pc'[main] = "wait"
        /\ pc'[idle] = pc[idle] /\ \A v \in Child : v # t => pc'[v] = pc[v]
    BY <1>1, <1>3, <1>4 DEF Pc
  <1>6. \A v \in Child : pc'[v] \in GonePc
    BY <1>2, <1>5 DEF Alone
  <1>7. \A v \in Child : ~ Busy(v)'
    BY <1>6 DEF Busy
  <1>8. Protocol'
    BY <1>1, <1>4, <1>5, <1>6, <1>7 DEF IInv, Protocol, MainPc
  <1>9. KernelThreads'
    BY <1>1, <1>4, <1>5 DEF IInv, KernelThreads, SameMemory
  <1>10. MemType'
    BY <1>1, <1>2 DEF MemType, SameMemory
  <1>11. Memory'
    <2>1. ASSUME NEW v \in Child
          PROVE  Pointers(v)'
      <3>1. file_name[v] = NULL /\ pcb[v] = NULL /\ local[v] = NULL
        BY <1>1, <1>2 DEF Alone, Pointers
      <3>2. pc'[v] \in GonePc
        BY <1>6
      <3> QED BY <1>1, <3>1, <3>2 DEF Pointers, SameMemory
    <2>2. Name(main)' = {} /\ Name(t) = {} /\ Space(t) = {} /\ PcbBlock(t) = {}
      BY <1>1, <1>2, <1>4 DEF Name, SameMemory, Alone, Holding, Pointers
    <2>3. heap = {pcb[main]} /\ inUse = abandoned
      BY <1>2, <2>2 DEF Alone, Owns
    <2> QED BY <1>1, <1>7, <2>1, <2>2, <2>3 DEF Memory, SameMemory
  <1>12. Cpu'
    <2>1. Directory(t)'
      BY <1>1, <1>2, <1>5 DEF Directory, SameMemory
    <2> QED BY <1>1, <1>2, <1>7, <2>1 DEF Cpu, Alone
  <1>13. TypeOK'
    <2>1. /\ cur' \in Thread /\ esp0' \in Thread /\ cr3' \in Page \union {init_page_dir}
          /\ started' \in BOOLEAN
      BY <1>1, Zenon DEF IInv, TypeOK
    <2>2. temporary' \in 0 .. 1
      BY <1>1, <1>4
    <2> QED BY <1>5, <1>10, <2>1, <2>2, TypeParts
  <1> QED BY <1>8, <1>9, <1>11, <1>12, <1>13 DEF IInv

\* While main does not wait, no child has anything.
LEMMA NobodyBusy ==
  ASSUME IInv, pc[main] \notin {"wait", "asleep"} \/ temporary = 1
  PROVE  /\ \A t \in Child : /\ ~ Busy(t) /\ pc[t] \in GonePc /\ file_name[t] = NULL
                             /\ pcb[t] = NULL /\ local[t] = NULL
         /\ temporary = 1 => pc[main] = "wait"
         /\ heap = {pcb[main]} /\ inUse = abandoned \union Name(main)
         /\ Name(main) \cap abandoned = {}
  <1>1. \A t \in Child : ~ Busy(t) /\ pc[t] \in GonePc
    BY DEF IInv, Protocol, Busy
  <1>2. \A t \in Child : file_name[t] = NULL /\ pcb[t] = NULL /\ local[t] = NULL
    BY <1>1 DEF IInv, Memory, Pointers
  <1>3. /\ heap = {pcb[main]} /\ inUse = abandoned \union Name(main)
        /\ Name(main) \cap abandoned = {}
    BY <1>1 DEF IInv, Memory
  <1>4. temporary = 1 => pc[main] = "wait"
    BY DEF IInv, Protocol
  <1> QED BY <1>1, <1>2, <1>3, <1>4

\* A step of main that stays on the CPU.
LEMMA MainOnCpu ==
  ASSUME IInv, NEW p \in MainPc, cur = main, SameCpu, pc'[main] = p
  PROVE  /\ Cpu' /\ cur' \in Thread /\ esp0' \in Thread
         /\ cr3' \in Page \union {init_page_dir}
  <1>1. cur' = main /\ esp0' = main /\ cr3' = cr3 /\ main \notin Child
    BY ProcessAssumption DEF SameCpu, IInv, Cpu
  <1>2. cr3 = init_page_dir
    BY <1>1 DEF IInv, Cpu
  <1> QED BY <1>1, <1>2 DEF Cpu, Directory, MainPc

LEMMA sema_initStep ==
  ASSUME IInv, sema_init
  PROVE  IInv'
  <1>1. /\ cur = main /\ pc[main] = "run_task" /\ pc' = [pc EXCEPT ![main] = "palloc"]
        /\ temporary' = 0 /\ started' = FALSE /\ SameCpu /\ SameMemory
    BY SameMemVars DEF sema_init, At, Goto
  <1>2. pc \in [Thread -> Pc] /\ main \notin Child /\ main # idle
    BY ProcessAssumption DEF IInv, TypeOK
  <1>3. /\ pc' \in [Thread -> Pc] /\ pc'[main] = "palloc" /\ pc'[idle] = pc[idle]
        /\ \A v \in Child : pc'[v] = pc[v]
    BY <1>1, <1>2 DEF Pc
  <1>4. \A v \in Child : ~ Busy(v)'
    BY <1>1, <1>3, NobodyBusy DEF Busy
  <1>5. Memory' /\ MemType'
    BY <1>1, <1>3, MemoryKept
  <1>6. Protocol'
    BY <1>1, <1>3, <1>4 DEF IInv, Protocol, MainPc
  <1>7. KernelThreads'
    BY <1>1, <1>3 DEF IInv, KernelThreads, SameMemory
  <1>8. Cpu' /\ cur' \in Thread /\ esp0' \in Thread /\ cr3' \in Page \union {init_page_dir}
    BY <1>1, <1>3, MainOnCpu DEF MainPc
  <1>9. TypeOK'
    <2>1. temporary' \in 0 .. 1
      BY <1>1
    <2>2. started' \in BOOLEAN
      BY <1>1, Zenon
    <2> QED BY <1>3, <1>5, <1>8, <2>1, <2>2, TypeParts
  <1> QED BY <1>5, <1>6, <1>7, <1>8, <1>9 DEF IInv

\* What process_execute() changes while no child runs: its copy of the name.
LEMMA MainStepAlone ==
  ASSUME IInv, NEW p \in {"thread_create", "wait"}, cur = main, SameCpu,
         pc[main] \in {"palloc", "thread_create"}, pc' = [pc EXCEPT ![main] = p],
         temporary' = temporary, started' = started, MemType',
         UNCHANGED <<pcb, heap, pagedir, refs, local, left, abandoned>>,
         \A v \in Child : file_name'[v] = file_name[v],
         IF p = "thread_create" THEN file_name'[main] \in Page ELSE file_name'[main] = NULL,
         inUse' = abandoned \union Name(main)', Name(main)' \cap abandoned = {}
  PROVE  IInv'
  <1>1. pc \in [Thread -> Pc] /\ main \notin Child /\ main # idle
    BY ProcessAssumption DEF IInv, TypeOK
  <1>2. /\ pc' \in [Thread -> Pc] /\ pc'[main] = p /\ pc'[idle] = pc[idle]
        /\ \A v \in Child : pc'[v] = pc[v]
    BY <1>1 DEF Pc
  <1>3. \A v \in Child : ~ Busy(v)' /\ pc'[v] \in GonePc
    BY <1>2, NobodyBusy DEF Busy
  <1>4. temporary = 0
    BY DEF IInv, Protocol
  <1>5. Protocol'
    BY <1>2, <1>3, <1>4 DEF IInv, Protocol, MainPc
  <1>6. KernelThreads'
    BY <1>2 DEF IInv, KernelThreads
  <1>7. Memory'
    <2>1. \A v \in Child : Pointers(v)'
      BY <1>3, NobodyBusy DEF Pointers
    <2>2. heap = {pcb[main]}
      BY NobodyBusy
    <2> QED BY <1>3, <2>1, <2>2 DEF Memory
  <1>8. Cpu' /\ cur' \in Thread /\ esp0' \in Thread /\ cr3' \in Page \union {init_page_dir}
    BY <1>2, MainOnCpu DEF MainPc
  <1>9. TypeOK'
    <2>1. temporary' \in 0 .. 1 /\ started' \in BOOLEAN
      BY Zenon DEF IInv, TypeOK
    <2> QED BY <1>2, <1>8, <2>1, TypeParts
  <1> QED BY <1>5, <1>6, <1>7, <1>8, <1>9 DEF IInv

LEMMA CopyNameStep ==
  ASSUME IInv, CopyName
  PROVE  IInv'
  <1>1. cur = main /\ pc[main] = "palloc" /\ main \notin Child
    BY ProcessAssumption DEF CopyName, Step, At
  <1>2. file_name[main] = NULL /\ inUse = abandoned /\ Name(main) = {} /\ MemType
    BY <1>1, NobodyBusy, MemTypes DEF IInv, KernelThreads, Name
  <1>3. ASSUME NEW p \in Page, FirstFree({p}), Step(main, "palloc", "thread_create"),
               inUse' = inUse \union {p}, file_name' = [file_name EXCEPT ![main] = p],
               UNCHANGED <<pcb, heap, pagedir, refs, local, left, abandoned>>
        PROVE  IInv'
    <2>1. /\ pc' = [pc EXCEPT ![main] = "thread_create"] /\ SameCpu
          /\ temporary' = temporary /\ started' = started
      BY <1>3 DEF Step, Goto
    <2>2. MemType'
      BY <1>2, <1>3 DEF MemType
    <2>3. file_name'[main] = p /\ p # NULL /\ \A v \in Child : file_name'[v] = file_name[v]
      BY <1>1, <1>2, <1>3, ProcessAssumption DEF MemType
    <2>4. Name(main)' = {p} /\ p \notin abandoned
      BY <1>2, <1>3, <2>3 DEF Name, FirstFree
    <2>5. inUse' = abandoned \union Name(main)' /\ Name(main)' \cap abandoned = {}
      BY <1>2, <1>3, <2>4
    <2> QED BY <1>1, <1>3, <2>1, <2>2, <2>3, <2>5, MainStepAlone
  <1>4. ASSUME Step(main, "palloc", "wait"), UNCHANGED memVars
        PROVE  IInv'
    <2>1. /\ pc' = [pc EXCEPT ![main] = "wait"] /\ SameCpu
          /\ temporary' = temporary /\ started' = started /\ SameMemory
      BY <1>4, SameMemVars DEF Step, Goto
    <2>2. MemType'
      BY <1>2, <2>1 DEF MemType, SameMemory
    <2>3. inUse' = abandoned \union Name(main)' /\ Name(main)' \cap abandoned = {}
      BY <1>2, <2>1 DEF Name, SameMemory
    <2>4. /\ UNCHANGED <<pcb, heap, pagedir, refs, local, left, abandoned>>
          /\ file_name'[main] = NULL /\ \A v \in Child : file_name'[v] = file_name[v]
      BY <1>2, <2>1 DEF SameMemory
    <2> QED BY <1>1, <2>1, <2>2, <2>3, <2>4, MainStepAlone
  <1> QED BY <1>3, <1>4 DEF CopyName

LEMMA CreateThreadStep ==
  ASSUME IInv, CreateThread
  PROVE  IInv'
  <1>1. /\ cur = main /\ pc[main] = "thread_create" /\ main \notin Child /\ SameCpu
        /\ main # idle /\ idle \notin Child
        /\ temporary' = temporary
        /\ UNCHANGED <<pcb, heap, pagedir, refs, local, left, abandoned>>
    BY ProcessAssumption DEF CreateThread, At
  <1>2. file_name[main] \in Page /\ file_name[main] # NULL /\ MemType
    BY <1>1, MemTypes, ProcessAssumption DEF IInv, KernelThreads
  <1>3. Name(main) = {file_name[main]}
    BY <1>2 DEF Name
  <1>4. /\ heap = {pcb[main]} /\ inUse = abandoned \union {file_name[main]}
        /\ file_name[main] \notin abandoned
    BY <1>1, <1>3, NobodyBusy
  <1>5. ASSUME Goto(main, "wait"), inUse' = inUse \ {file_name[main]},
               file_name' = [file_name EXCEPT ![main] = NULL], UNCHANGED started
        PROVE  IInv'
    <2>1. file_name'[main] = NULL /\ \A v \in Child : file_name'[v] = file_name[v]
      BY <1>1, <1>2, <1>5 DEF MemType
    <2>2. inUse' = abandoned /\ Name(main)' = {}
      BY <1>4, <1>5, <2>1 DEF Name
    <2>3. MemType'
      BY <1>1, <1>2, <1>5, <2>2 DEF MemType
    <2>4. inUse' = abandoned \union Name(main)' /\ Name(main)' \cap abandoned = {}
      BY <2>2
    <2>5. pc' = [pc EXCEPT ![main] = "wait"] /\ started' = started
      BY <1>5 DEF Goto
    <2> QED BY <1>1, <2>1, <2>3, <2>4, <2>5, MainStepAlone
  <1>6. ASSUME NEW t \in Child, pc[t] = "none",
               pc' = [pc EXCEPT ![main] = "wait", ![t] = "malloc"],
               file_name' = [file_name EXCEPT ![t] = file_name[main], ![main] = NULL],
               started' = TRUE, UNCHANGED inUse
        PROVE  IInv'
    <2>1. pc \in [Thread -> Pc] /\ temporary = 0
      BY <1>1 DEF IInv, TypeOK, Protocol
    <2>2. /\ pc' \in [Thread -> Pc] /\ pc'[main] = "wait" /\ pc'[t] = "malloc"
          /\ pc'[idle] = pc[idle] /\ \A v \in Child : v # t => pc'[v] = pc[v]
      BY <1>1, <1>6, <2>1 DEF Pc
    <2>3. /\ file_name'[main] = NULL /\ file_name'[t] = file_name[main]
          /\ \A v \in Child : v # t => file_name'[v] = file_name[v]
      BY <1>1, <1>2, <1>6 DEF MemType
    <2>4. MemType'
      BY <1>1, <1>2, <1>6 DEF MemType
    <2>5. /\ \A v \in Child : v # t => pc'[v] \in GonePc
          /\ \A v \in Child : /\ ~ Busy(v) /\ pc[v] \in GonePc /\ file_name[v] = NULL
                              /\ pcb[v] = NULL /\ local[v] = NULL
      BY <1>1, <2>2, NobodyBusy
    <2>6. Protocol'
      <3>1. \A v \in Child : Busy(v)' => v = t
        BY <2>5 DEF Busy
      <3> QED BY <1>1, <2>1, <2>2, <2>5, <3>1 DEF IInv, Protocol, MainPc
    <2>7. KernelThreads'
      BY <1>1, <2>2, <2>3 DEF IInv, KernelThreads
    <2>8. ASSUME NEW v \in Child
          PROVE  Pointers(v)'
      BY <1>1, <1>2, <2>2, <2>3, <2>5 DEF Pointers
    <2>9. Holding(t)'
      BY HoldingsNext
    <2>10. Owns(t)'
      <3>1. /\ Space(t)' = {} /\ Dir(t)' = {} /\ PcbBlock(t)' = {}
            /\ Name(t)' = {file_name[main]}
        BY <1>2, <2>2, <2>3, <2>9 DEF Holding
      <3> QED BY <1>1, <1>4, <1>6, <2>2, <3>1 DEF Owns
    <2>11. Memory'
      <3>1. \A v \in Child : Busy(v)' => Owns(v)'
        BY <2>5, <2>10 DEF Busy
      <3>2. Busy(t)'
        BY <2>2 DEF Busy
      <3> QED BY <2>8, <3>1, <3>2 DEF Memory
    <2>12. Cpu' /\ cur' \in Thread /\ esp0' \in Thread /\ cr3' \in Page \union {init_page_dir}
      BY <1>1, <2>2, MainOnCpu DEF MainPc
    <2>13. TypeOK'
      <3>1. temporary' \in 0 .. 1
        BY <1>1, <2>1
      <3>2. started' \in BOOLEAN
        BY <1>6, Zenon
      <3> QED BY <2>2, <2>4, <2>12, <3>1, <3>2, TypeParts
    <2> QED BY <2>6, <2>7, <2>11, <2>12, <2>13 DEF IInv
  <1> QED BY <1>5, <1>6 DEF CreateThread

LEMMA process_waitStep ==
  ASSUME IInv, process_wait
  PROVE  IInv'
  <1>1. /\ cur = main /\ pc[main] = "wait" /\ main \notin Child /\ main # idle
        /\ started' = started /\ SameMemory
    BY ProcessAssumption, SameMemVars DEF process_wait, At, memVars
  <1>2. pc \in [Thread -> Pc] /\ temporary \in {0, 1}
    BY DEF IInv, TypeOK, Protocol
  <1>3. file_name[main] = NULL
    BY <1>1 DEF IInv, KernelThreads
  <1>4. ASSUME NEW p \in {"run_task", "asleep"}, pc' = [pc EXCEPT ![main] = p]
        PROVE  /\ pc' \in [Thread -> Pc] /\ pc'[main] = p /\ pc'[idle] = pc[idle]
               /\ \A v \in Thread : v # main => pc'[v] = pc[v]
               /\ \A v \in Child : pc'[v] = pc[v]
               /\ Memory' /\ MemType' /\ KernelThreads' /\ started' \in BOOLEAN
    <2>1. /\ pc' \in [Thread -> Pc] /\ pc'[main] = p /\ pc'[idle] = pc[idle]
          /\ \A v \in Thread : v # main => pc'[v] = pc[v]
      BY <1>1, <1>2, <1>4 DEF Pc
    <2>2. \A v \in Child : pc'[v] = pc[v]
      BY <1>1, <2>1
    <2>3. Memory' /\ MemType'
      BY <1>1, <2>2, MemoryKept
    <2>4. KernelThreads'
      BY <1>1, <1>3, <2>1 DEF IInv, KernelThreads, SameMemory
    <2>5. started' \in BOOLEAN
      BY <1>1, Zenon DEF IInv, TypeOK
    <2> QED BY <2>1, <2>2, <2>3, <2>4, <2>5
  <1>5. ASSUME temporary > 0, temporary' = temporary - 1, Goto(main, "run_task"), SameCpu
        PROVE  IInv'
    <2>1. temporary = 1 /\ temporary' = 0 /\ pc' = [pc EXCEPT ![main] = "run_task"]
      BY <1>2, <1>5 DEF Goto
    <2>2. /\ pc' \in [Thread -> Pc] /\ pc'[main] = "run_task" /\ pc'[idle] = pc[idle]
          /\ \A v \in Child : pc'[v] = pc[v]
          /\ Memory' /\ MemType' /\ KernelThreads' /\ started' \in BOOLEAN
      BY <1>4, <2>1
    <2>3. \A v \in Child : ~ Busy(v)'
      BY <2>1, <2>2, NobodyBusy DEF Busy
    <2>4. Protocol'
      BY <2>1, <2>2, <2>3 DEF IInv, Protocol, MainPc
    <2>5. Cpu' /\ cur' \in Thread /\ esp0' \in Thread /\ cr3' \in Page \union {init_page_dir}
      BY <1>1, <1>5, <2>2, MainOnCpu DEF MainPc
    <2>6. temporary' \in 0 .. 1
      BY <2>1
    <2>7. TypeOK'
      BY <2>2, <2>5, <2>6, TypeParts
    <2> QED BY <2>2, <2>4, <2>5, <2>7 DEF IInv
  <1>6. ASSUME temporary = 0, Goto(main, "asleep"), NEW u \in Thread, SwitchTo(u),
               temporary' = temporary
        PROVE  IInv'
    <2>1. pc' = [pc EXCEPT ![main] = "asleep"] /\ u # main
      BY <1>1, <1>6 DEF Goto, SwitchTo
    <2>2. /\ pc' \in [Thread -> Pc] /\ pc'[main] = "asleep" /\ pc'[idle] = pc[idle]
          /\ \A v \in Thread : v # main => pc'[v] = pc[v]
          /\ \A v \in Child : pc'[v] = pc[v]
          /\ Memory' /\ MemType' /\ KernelThreads' /\ started' \in BOOLEAN
      BY <1>4, <2>1
    <2>3. Protocol'
      BY <1>6, <2>2 DEF IInv, Protocol, MainPc, Busy
    <2>4. Cpu' /\ cur' \in Thread /\ esp0' \in Thread /\ cr3' \in Page \union {init_page_dir}
      <3>1. pc'[u] = pc[u]
        BY <2>1, <2>2
      <3> QED BY <1>1, <1>6, <2>2, <3>1, SwitchStep
    <2>5. temporary' \in 0 .. 1
      BY <1>6
    <2>6. TypeOK'
      BY <2>2, <2>4, <2>5, TypeParts
    <2> QED BY <2>2, <2>3, <2>4, <2>6 DEF IInv
  <1> QED BY <1>5, <1>6 DEF process_wait

-----------------------------------------------------------------------------
(***************************************************************************)
(* The theorems.                                                           *)
(***************************************************************************)
LEMMA NextIInv == IInv /\ [Next]_vars => IInv'
  <1> SUFFICES ASSUME IInv, [Next]_vars PROVE IInv'
    OBVIOUS
  <1>1. CASE UNCHANGED vars
    <2>1. /\ SameMemory
          /\ UNCHANGED <<pc, cur, cr3, esp0, temporary, started>>
      BY <1>1, SameMemVars DEF vars
    <2>2. Memory' /\ MemType'
      BY <2>1, MemoryKept
    <2>3. TypeOK'
      BY <2>1, <2>2, Zenon DEF IInv, TypeOK, MemType
    <2>4. Protocol'
      BY <2>1 DEF IInv, Protocol, Busy
    <2>5. KernelThreads'
      BY <2>1 DEF IInv, KernelThreads, SameMemory
    <2>6. Cpu'
      <3>1. Directory(cur)'
        BY <2>1 DEF IInv, Cpu, Directory, SameMemory
      <3>2. cr3' # init_page_dir => cur' \in Child /\ \A u \in Child : u # cur' => ~ Busy(u)'
        BY <2>1 DEF IInv, Cpu, Busy
      <3> QED BY <2>1, <3>1, <3>2 DEF IInv, Cpu
    <2> QED BY <2>2, <2>3, <2>4, <2>5, <2>6 DEF IInv
  <1>2. CASE MainStep
    BY <1>2, sema_initStep, CopyNameStep, CreateThreadStep, process_waitStep DEF MainStep
  <1>3. ASSUME NEW t \in Child, start_process(t)
        PROVE  IInv'
    <2>1. CASE OpenFile(t)
      BY <2>1, QuietStep DEF OpenFile, LoadFails
    <2>2. CASE load_segment(t)
      BY <2>2, QuietStep, InstallPageStep DEF load_segment, LoadFails
    <2>3. CASE setup_stack(t)
      BY <2>3, InstallPageStep DEF setup_stack
    <2>4. CASE FreePcb(t, "free_pcb", "free_name_failed")
      BY <2>4, FreePcbStep
    <2> QED BY <1>3, <2>1, <2>2, <2>3, <2>4, MallocPcbStep, InitPcbStep, SetPcbStep,
               pagedir_createStep, ActivateStep, ForgetPcbStep, FreeNameStep DEF start_process
  <1>4. ASSUME NEW t \in Child, LeaveUser(t)
        PROVE  IInv'
    BY <1>4, QuietStep DEF LeaveUser
  <1>5. ASSUME NEW t \in Child, process_exit(t)
        PROVE  IInv'
    <2>1. CASE FreePcb(t, "exit_free_pcb", "up")
      BY <2>1, FreePcbStep
    <2> QED BY <1>5, <2>1, GetPagedirStep, ClearPagedirStep, DeactivateStep,
               pagedir_destroyStep, ExitUnsetPcbStep, SemaUpStep, thread_exitStep DEF process_exit
  <1>6. ASSUME NEW u \in Thread, Preempt(u)
        PROVE  IInv'
    BY <1>6, PreemptStep
  <1> QED BY <1>1, <1>2, <1>3, <1>4, <1>5, <1>6 DEF Next

\* The life of processes keeps the inductive invariant: one child at most is
\* between thread_create() and sema_up(), and memory is what it, main and
\* failed loads account for.
THEOREM Invariance == Spec => []IInv
  <1> QED BY InitIInv, NextIInv, PTL DEF Spec

\* What the invariant says of a child's PCB and directory.
LEMMA LiveDirectory ==
  ASSUME IInv, NEW t \in Child, pcb[t] # NULL
  PROVE  /\ Busy(t) /\ pc[t] \in PcbPc /\ pcb[t] \in heap
         /\ pagedir[pcb[t]] # NULL =>
              /\ pagedir[pcb[t]] \in Page /\ pagedir[pcb[t]] \in inUse
              /\ refs[pagedir[pcb[t]]] \subseteq inUse
  <1>1. Pointers(t)
    BY DEF IInv, Memory
  <1>2. pc[t] \in PcbPc /\ Busy(t)
    BY <1>1 DEF Pointers, Busy
  <1>3. Owns(t) /\ Holding(t)
    BY <1>2, Holdings DEF IInv, Memory
  <1>4. pcb[t] \in heap
    BY <1>2, <1>3 DEF Owns, Holding
  <1>5. ASSUME pagedir[pcb[t]] # NULL
        PROVE  /\ pagedir[pcb[t]] \in Page
               /\ pagedir[pcb[t]] \in inUse /\ refs[pagedir[pcb[t]]] \subseteq inUse
    <2>1. pc[t] \in DirPc \union {"unset_pcb"} /\ pagedir[pcb[t]] \in Page
      BY <1>1, <1>2, <1>5 DEF Pointers
    <2>2. Space(t) = {pagedir[pcb[t]]} \union refs[pagedir[pcb[t]]]
      BY <1>3, <1>5, <2>1 DEF Holding
    <2> QED BY <1>3, <2>1, <2>2 DEF Owns
  <1> QED BY <1>2, <1>4, <1>5

\* Whichever thread a timer interrupt switches to, process_activate() reads a
\* PCB that is allocated and a directory that is NULL or live with all its
\* pages (the order of process_exit() and of start_process()'s failure path).
THEOREM SwitchesAreSafe == Spec => [](TypeOK /\ SwitchReadsLiveMemory)
  <1>1. IInv => TypeOK /\ SwitchReadsLiveMemory
    <2> SUFFICES ASSUME IInv PROVE TypeOK /\ SwitchReadsLiveMemory
      OBVIOUS
    <2>1. TypeOK
      BY DEF IInv
    <2>2. pcb[main] \in heap
      BY DEF IInv, Memory, Owns
    <2>3. ASSUME NEW t \in Thread, pcb[t] # NULL
          PROVE  /\ pcb[t] \in heap
                 /\ LET pd == pagedir[pcb[t]]
                    IN  pd # NULL => pd \in inUse /\ refs[pd] \subseteq inUse
      <3>1. CASE t \in Child
        BY <2>3, <3>1, LiveDirectory
      <3>2. CASE t = main
        BY <2>2, <3>2 DEF IInv, KernelThreads
      <3>3. CASE t = idle
        BY <2>3, <3>3 DEF IInv, KernelThreads
      <3> QED BY <3>1, <3>2, <3>3
    <2> QED BY <2>1, <2>3 DEF SwitchReadsLiveMemory
  <1> QED BY <1>1, Invariance, PTL

\* The active page directory is live and belongs to nobody but the running
\* thread; in user mode it is the process's own and populated, and the TSS
\* names the process's own stack (process_activate(), pagedir_activate()).
THEOREM SpacesAreOwn == Spec => []AddressSpaceIsOwn
  <1>1. IInv => AddressSpaceIsOwn
    <2> SUFFICES ASSUME IInv PROVE AddressSpaceIsOwn
      OBVIOUS
    <2>1. ASSUME cr3 # init_page_dir
          PROVE  /\ cr3 \in inUse /\ refs[cr3] \subseteq inUse
                 /\ \A t \in Thread \ {cur} : pcb[t] # NULL => pagedir[pcb[t]] # cr3
                 /\ \A t \in Thread \ {cur} : local[t] # cr3
      <3>1. /\ cur \in Child /\ \A u \in Child : u # cur => ~ Busy(u)
            /\ Directory(cur) /\ cr3 \in Page /\ cr3 # NULL
        BY <2>1, ProcessAssumption DEF IInv, Cpu, TypeOK
      <3>2. \A u \in Child : u # cur => pcb[u] = NULL /\ local[u] = NULL
        BY <3>1 DEF IInv, Memory, Pointers, Busy
      <3>3. /\ pagedir[pcb[main]] = NULL /\ local[main] = NULL
            /\ pcb[idle] = NULL /\ local[idle] = NULL
        BY DEF IInv, KernelThreads
      <3>4. cr3 \in inUse /\ refs[cr3] \subseteq inUse
        <4>1. CASE pc[cur] \in DirPc \union {"unset_pcb"} /\ cr3 = pagedir[pcb[cur]]
          <5>1. Pointers(cur)
            BY <3>1 DEF IInv, Memory
          <5>2. pcb[cur] # NULL
            BY <4>1, <5>1, ProcessAssumption DEF Pointers
          <5> QED BY <3>1, <4>1, <5>2, LiveDirectory
        <4>2. CASE pc[cur] = "deactivate" /\ cr3 = local[cur]
          <5>1. Owns(cur) /\ Holding(cur)
            BY <3>1, <4>2, Holdings DEF IInv, Memory, Busy
          <5> QED BY <4>2, <5>1 DEF Owns, Holding
        <4>3. CASE cr3 \in abandoned /\ refs[cr3] \subseteq abandoned
          BY <4>3 DEF IInv, TypeOK
        <4> QED BY <2>1, <3>1, <4>1, <4>2, <4>3 DEF Directory
      <3> QED BY <3>1, <3>2, <3>3, <3>4
    <2>2. ActiveDirectoryIsOwn
      BY <2>1 DEF ActiveDirectoryIsOwn
    <2>3. UserRunsInItsSpace
      <3> SUFFICES ASSUME pc[cur] = "user"
                   PROVE  pcb[cur] # NULL /\ cr3 = pagedir[pcb[cur]] /\ refs[cr3] # {} /\ esp0 = cur
        BY DEF UserRunsInItsSpace
      <3>1. cur \in Child
        BY DEF IInv, Protocol, MainPc, TypeOK
      <3>2. Pointers(cur) /\ Owns(cur)
        BY <3>1 DEF IInv, Memory, Busy
      <3>3. cr3 = pagedir[pcb[cur]] /\ esp0 = cur
        BY DEF IInv, Cpu, Directory
      <3> QED BY <3>2, <3>3, ProcessAssumption DEF Pointers, Owns
    <2> QED BY <2>2, <2>3 DEF AddressSpaceIsOwn
  <1> QED BY <1>1, Invariance, PTL

\* When process_wait() has returned and run_task() goes on, the process has
\* given everything back and no unit is left in the semaphore.
THEOREM WaitIsExact == Spec => []WaitReturnsAfterReclaim
  <1>1. IInv => WaitReturnsAfterReclaim
    <2> SUFFICES ASSUME IInv, pc[main] = "run_task"
                 PROVE  /\ temporary = 0
                        /\ \A t \in Child : pc[t] \in {"none", "thread_exit"}
                        /\ heap = {pcb[main]} /\ inUse = abandoned
      BY DEF WaitReturnsAfterReclaim
    <2>1. temporary = 0
      BY DEF IInv, Protocol
    <2>2. Name(main) = {}
      BY DEF IInv, KernelThreads, Name
    <2> QED BY <2>1, <2>2, NobodyBusy
  <1> QED BY <1>1, Invariance, PTL
=============================================================================
