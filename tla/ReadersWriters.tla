--------------------------- MODULE ReadersWriters ---------------------------
(***************************************************************************)
(* What a writer-centric readers-writers lock promises: writers are alone, *)
(* and once a writer waits no further reader gets in before a writer has.  *)
(***************************************************************************)
CONSTANTS Thread

VARIABLES
  reading,   \* threads that hold the lock as readers
  writing,   \* threads that hold it as writers
  waiting    \* writers that were refused and have not got in yet

vars == <<reading, writing, waiting>>

Init == reading = {} /\ writing = {} /\ waiting = {}

StartRead(t) ==
  /\ writing = {} /\ waiting = {}
  /\ reading' = reading \union {t}
  /\ UNCHANGED <<writing, waiting>>

EndRead(t) ==
  /\ t \in reading
  /\ reading' = reading \ {t}
  /\ UNCHANGED <<writing, waiting>>

RefuseWriter(t) ==
  /\ reading # {} \/ writing # {}
  /\ waiting' = waiting \union {t}
  /\ UNCHANGED <<reading, writing>>

StartWrite(t) ==
  /\ reading = {} /\ writing = {}
  /\ writing' = {t}
  /\ waiting' = waiting \ {t}
  /\ UNCHANGED reading

EndWrite(t) ==
  /\ t \in writing
  /\ writing' = writing \ {t}
  /\ UNCHANGED <<reading, waiting>>

Next == \E t \in Thread :
  StartRead(t) \/ EndRead(t) \/ RefuseWriter(t) \/ StartWrite(t) \/ EndWrite(t)

Spec == Init /\ [][Next]_vars
=============================================================================
