------------------------------ MODULE MCSynch -------------------------------
(***************************************************************************)
(* The locks of threads/synch.c: a behaviour is one of the lock and its    *)
(* client allocate_tid(), or one of the readers-writers lock.              *)
(***************************************************************************)
EXTENDS Lock, FiniteSets

CONSTANTS RWThread

ASSUME SynchAssumption == IsFiniteSet(RWThread)

VARIABLES
  part,   \* "lock" or "rwlock"
  AR, WR, AW, WW, read, write, rw_pc

rwVars == <<AR, WR, AW, WW, read, write, rw_pc>>
allVars == <<part, vars, rwVars>>

RWL == INSTANCE RWLock WITH Thread <- RWThread, pc <- rw_pc

MCInit == part \in {"lock", "rwlock"} /\ Init /\ RWL!Init

OfLock(A) == part = "lock" /\ A /\ UNCHANGED <<part, rwVars>>
OfRWLock(A) == part = "rwlock" /\ A /\ UNCHANGED <<part, vars>>

MCNext == OfLock(Next) \/ OfRWLock(RWL!Next)

\* The fairness of both.
MCFairSpec ==
  /\ MCInit
  /\ [][MCNext]_allVars
  /\ \A t \in Thread : WF_allVars(OfLock(Inside(t)))
  /\ \A t \in RWThread :
       WF_allVars(OfRWLock(RWL!Resume(t))) /\ WF_allVars(OfRWLock(RWL!Release(t)))

\* The counters count what their names say.
CountersExact == RWL!CountersExact

\* The readers-writers lock implements the abstract one.
ImplementsReadersWriters == RWL!ImplementsReadersWriters

\* Nobody is left waiting for the readers-writers lock.
WaitersGetIn == RWL!WaitersGetIn
=============================================================================
