----------------------------- MODULE FileStore -----------------------------
(***************************************************************************)
(* What the file system promises its callers: named files of fixed length  *)
(* whose bytes change only by writing through a handle.  A file that is    *)
(* removed stays readable and writable through the handles that have it    *)
(* open.  A crash closes the handles and keeps the named files.            *)
(***************************************************************************)
EXTENDS Integers, Sequences, Functions

CONSTANTS
  Name, Handle, Id,  \* names, handles, and what tells files apart
  Byte, Zero,        \* byte values, and the one new files are filled with
  Length,            \* the lengths of files
  Offset             \* the positions a handle can be set to

VARIABLES
  dir,      \* the file of each name in use
  content,  \* the bytes of each file that has a name or is open
  handle    \* the file, position and write denial of each open handle

vars == <<dir, content, handle>>

IdsOf(d, hs) == Range(d) \union {hs[h].id : h \in DOMAIN hs}
Live == IdsOf(dir, handle)

\* The files that have neither a name nor a handle left are gone.
Keep == content' = Restrict(content, IdsOf(dir, handle)')

Init == dir = <<>> /\ content = <<>> /\ handle = <<>>

\* A new file is filled with zeros.
Create(n) ==
  /\ UNCHANGED handle
  /\ n \notin DOMAIN dir
  /\ \E id \in Id \ Live, len \in Length :
       /\ dir' = [m \in DOMAIN dir \union {n} |-> IF m = n THEN id ELSE dir[m]]
       /\ content' = [i \in Live \union {id} |->
                        IF i = id THEN [k \in 1 .. len |-> Zero] ELSE content[i]]

Remove(n) ==
  /\ UNCHANGED handle
  /\ n \in DOMAIN dir
  /\ dir' = Restrict(dir, DOMAIN dir \ {n})
  /\ Keep

\* h becomes a handle of the file id, at position 0.
NewHandle(h, id) ==
  handle' = [g \in DOMAIN handle \union {h} |->
               IF g = h THEN [id |-> id, pos |-> 0, deny |-> FALSE] ELSE handle[g]]

Open(h) ==
  /\ UNCHANGED <<dir, content>>
  /\ h \notin DOMAIN handle
  /\ \E id \in Live : NewHandle(h, id)

Close(h) ==
  /\ UNCHANGED dir
  /\ h \in DOMAIN handle
  /\ handle' = Restrict(handle, DOMAIN handle \ {h})
  /\ Keep

\* Seeking, reading, denying and allowing writes concern the handle only.  A
\* position may be behind the end of the file, where Write() finds no byte.
Adjust(h) ==
  /\ UNCHANGED <<dir, content>>
  /\ h \in DOMAIN handle
  /\ \E p \in Offset \union (0 .. Len(content[handle[h].id])) \union {handle[h].pos}, d \in BOOLEAN :
       handle' = [handle EXCEPT ![h].pos = p, ![h].deny = d]

\* The next k bytes at the handle's position become v, no others do, and only
\* if no handle of the file denies it.
WriteSome(h, k, v) ==
  LET id == handle[h].id
      pos == handle[h].pos
  IN  /\ \A g \in DOMAIN handle : handle[g].id = id => ~ handle[g].deny
      /\ pos + k <= Len(content[id])
      /\ handle' = [handle EXCEPT ![h].pos = pos + k]
      /\ content' = [content EXCEPT ![id] =
           [b \in DOMAIN @ |-> IF b \in pos + 1 .. pos + k THEN v ELSE @[b]]]

Write(h) ==
  /\ UNCHANGED dir
  /\ h \in DOMAIN handle
  /\ \E k \in 1 .. Len(content[handle[h].id]), v \in Byte : WriteSome(h, k, v)

\* A crash closes every handle.
Crash ==
  /\ UNCHANGED dir
  /\ handle' = <<>>
  /\ Keep

Next ==
  \/ \E n \in Name : Create(n) \/ Remove(n)
  \/ \E h \in Handle : Open(h) \/ Close(h) \/ Adjust(h) \/ Write(h)
  \/ Crash

Spec == Init /\ [][Next]_vars
=============================================================================
