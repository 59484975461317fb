----------------------------- MODULE ShellProof -----------------------------
(***************************************************************************)
(* Proofs about Shell, for any lines and any number of processes and       *)
(* pipes: when the prompt is back, the shell has the terminal and nobody   *)
(* of the foreground job is running.                                       *)
(***************************************************************************)
EXTENDS Shell, FiniteSetTheorems, TLAPS

\* What fork() has returned to the shell so far.
Forked == 1 .. next - 1
Pid == {None} \union Forked

\* Where the shell is.
Places == {"prompt", "fork", "started", "wait", "fgcont", "fgtty", "bgcont", "dead"}

\* Where a process is.
At == {"none", "forked", "default", "grouped", "running"}

\* The fields of a task, a job and a process.
TaskOK(t) == t \in [prog : {t.prog}, in : {t.in}, out : {t.out}, pid : Pid]
JobOK(r) == r \in [pgid : {r.pgid}, pids : Seq(Pid)]
ProcOK(r) ==
  r \in [at : At, prog : {r.prog}, group : {r.group}, pgid : {r.pgid},
         stop : {"no", "new", "told"}, in : {r.in}, out : {r.out}, ends : {r.ends}]

Types ==
  /\ pc \in Places
  /\ next \in 1 .. MaxProc + 1
  /\ i \in Nat \ {0}
  /\ Len(tasks) \in Nat
  /\ tasks = [k \in 1 .. Len(tasks) |-> tasks[k]]
  /\ \A k \in 1 .. Len(tasks) : TaskOK(tasks[k])
  /\ JobOK(fg) /\ JobOK(bg)
  /\ proc = [p \in Proc |-> proc[p]]
  /\ \A p \in Proc : ProcOK(proc[p])
  /\ job \subseteq Forked

\* The process is gone or stopped: no step of its own makes it run.
Still(p) == proc[p].at = "none" \/ proc[p].stop # "no"

\* The shell waits for all processes of the job, one after the other; those
\* it has waited for do not run.
Waiting ==
  /\ pc \in {"wait", "fgtty"} => job = Elements(fg.pids) \ {None}
  /\ pc = "wait" =>
       \A k \in 1 .. Len(fg.pids) : k < i => fg.pids[k] = None \/ Still(fg.pids[k])

\* From the prompt to the next wait the terminal is the shell's, and the last
\* job is not continued.
Quiet ==
  pc \in {"prompt", "fork", "started", "fgcont", "bgcont"} =>
    tty = SHELL /\ \A p \in job : Still(p)

\* The inductive invariant.
IInv ==
  /\ Types
  /\ pc = "fork" => i <= Len(tasks)
  /\ Waiting
  /\ Quiet
-----------------------------------------------------------------------------
\* The shell starts with no process and the terminal.
LEMMA InitIInv == Init => IInv
  <1> SUFFICES ASSUME Init PROVE IInv
    OBVIOUS
  <1>1. JobOK(NoJob)
    BY DEF JobOK, NoJob
  <1>2. ProcOK(NoProc)
    BY DEF ProcOK, NoProc, At
  <1>3. Types
    BY <1>1, <1>2, ShellAssumption DEF Init, Types, Places
  <1>4. Waiting /\ Quiet
    BY DEF Init, Waiting, Quiet
  <1> QED BY <1>3, <1>4 DEF IInv, Init

\* A line that is valid has at least one program.
LEMMA SomeProgram ==
  ASSUME NEW line \in Line, Parsed[line].valid
  PROVE  Len(Parsed[line].programs) \in Nat \ {0}
  <1> DEFINE bars == {k \in DOMAIN line : line[k] = "|"}
             starts == {1} \union {k + 1 : k \in bars}
  <1>1. line \in Seq(STRING)
    BY ShellAssumption
  <1>2. IsFiniteSet(starts)
    <2>1. DOMAIN line = 1 .. Len(line) /\ Len(line) \in Nat
      BY <1>1
    <2>2. starts \subseteq 1 .. Len(line) + 1
      BY <2>1
    <2>3. IsFiniteSet(1 .. Len(line) + 1)
      BY <2>1, FS_Interval
    <2> QED BY <2>2, <2>3, FS_Subset
  <1> DEFINE cur == StopsAt(line, Invalid(line))
             done == {k \in Starts(line) : k < cur}
             made == TasksUpTo(line, done)
  <1>3. PICK m : m \in Nat /\ made = [n \in 1 .. m |-> TaskAt(line, Nth(done, n))]
    <2>1. Cardinality(done) \in Nat
      BY <1>2, FS_Subset, FS_CardinalityType DEF Starts
    <2> QED BY <2>1 DEF TasksUpTo
  <1> HIDE DEF bars, starts, done, made, cur
  <1>4. PICK invalid, last, args : Parse(line) = Checked(made, invalid, last, args)
    BY DEF Parse, ParsedTo, made, done, cur
  <1>5. DOMAIN Append(made, args) = 1 .. m + 1
    <2> DEFINE e == [n \in 1 .. m |-> TaskAt(line, Nth(done, n))]
               S == {e[n] : n \in 1 .. m} \union {args}
    <2>1. e \in Seq(S) /\ Len(e) = m
      BY <1>3
    <2>2. Append(e, args) \in Seq(S) /\ Len(Append(e, args)) = m + 1
      BY <1>3, <2>1
    <2> QED BY <1>3, <2>2
  <1>6. Parsed[line].programs = [k \in 1 .. m + 1 |-> Head(Append(made, args)[k])]
    <2> DEFINE all == Append(made, args)
    <2>1. Parsed[line] = Checked(made, invalid, last, args)
      BY <1>4 DEF Parsed
    <2>2. Checked(made, invalid, last, args).valid
      BY <2>1
    <2>3. ~ (last = NULL \/ args = <<>>)
      BY <2>2, Zenon DEF Checked
    <2>4. Parsed[line].programs = [k \in DOMAIN all |-> Head(all[k])]
      BY <2>1, <2>3 DEF Checked
    <2> QED BY <1>5, <2>4
  <1> QED BY <1>3, <1>6
-----------------------------------------------------------------------------
\* Steps of the processes: the shell's state is as it was, and nobody that is
\* gone or stopped runs again.
LEMMA ProcessesStep ==
  ASSUME IInv, UNCHANGED shellVars,
         proc' = [p \in Proc |-> proc'[p]],
         \A p \in Proc : ProcOK(proc'[p]),
         \A p \in Proc : Still(p) => Still(p)'
  PROVE  IInv'
  <1>1. Types'
    BY DEF IInv, Types, Places, shellVars, TaskOK, JobOK, Pid, Forked
  <1>2. Forked \subseteq Proc
    BY ShellAssumption DEF IInv, Types, Forked, Proc
  <1>3. Waiting'
    <2>0. pc' = pc /\ fg' = fg /\ job' = job
      BY DEF shellVars
    <2> SUFFICES ASSUME pc = "wait" PROVE Waiting'
      BY <2>0 DEF IInv, Waiting, Elements
    <2>1. \A k \in 1 .. Len(fg.pids) : fg.pids[k] \in Pid
      BY DEF IInv, Types, JobOK
    <2>2. \A k \in 1 .. Len(fg.pids) : k < i => fg.pids[k] = None \/ Still(fg.pids[k])
      BY DEF IInv, Waiting
    <2>3. \A k \in 1 .. Len(fg.pids) : k < i => fg.pids[k] = None \/ (\A p \in Proc : p = fg.pids[k] => Still(p)')
      BY <2>1, <2>2, <1>2 DEF Pid
    <2>4. \A k \in 1 .. Len(fg.pids) : k < i => fg.pids[k] = None \/ (proc'[fg.pids[k]].at = "none" \/ proc'[fg.pids[k]].stop # "no")
      BY <2>1, <2>3, <1>2 DEF Still, Pid
    <2>5. fg' = fg /\ i' = i /\ job' = job
      BY DEF shellVars
    <2> QED BY <2>4, <2>5 DEF IInv, Waiting, Still, Elements
  <1>4. Quiet'
    BY <1>2 DEF IInv, Types, Quiet, shellVars
  <1> QED BY <1>1, <1>3, <1>4 DEF IInv, shellVars

\* One process goes on: it was running, and what it becomes has the fields of a
\* process.
LEMMA BecomesStep ==
  ASSUME IInv, NEW p \in Proc, NEW r, Becomes(p, r), ProcOK(r), ~ Still(p)
  PROVE  IInv'
  <1>1. proc' = [proc EXCEPT ![p] = r] /\ UNCHANGED shellVars
    BY DEF Becomes
  <1>2. proc = [q \in Proc |-> proc[q]]
    BY DEF IInv, Types
  <1>3. \A q \in Proc : proc'[q] = IF q = p THEN r ELSE proc[q]
    BY <1>1, <1>2
  <1>4. proc' = [q \in Proc |-> proc'[q]]
    BY <1>1, <1>2
  <1>5. \A q \in Proc : ProcOK(proc'[q])
    BY <1>3 DEF IInv, Types
  <1>6. \A q \in Proc : Still(q) => Still(q)'
    BY <1>3 DEF Still
  <1> QED BY <1>1, <1>4, <1>5, <1>6, ProcessesStep

\* A step of a child.
LEMMA ChildStepKeeps ==
  ASSUME IInv, NEW p \in Proc, ChildStep(p)
  PROVE  IInv'
  <1>1. ProcOK(proc[p]) /\ ProcOK(NoProc)
    BY DEF IInv, Types, ProcOK, NoProc, At
  <1>2. \A at \in At \ {"none"} : Ready(p, at) => ~ Still(p)
    BY DEF Ready, Still, At
  <1>3. CASE DefaultSignals(p)
    <2>1. ProcOK([proc[p] EXCEPT !.at = "default"])
      BY <1>1 DEF ProcOK, At
    <2> QED BY <1>2, <1>3, <2>1, BecomesStep DEF DefaultSignals, At
  <1>4. CASE SetGroup(p)
    <2>1. PICK g : Ready(p, "default") /\ Becomes(p, [proc[p] EXCEPT !.at = "grouped", !.group = g])
      BY <1>4 DEF SetGroup
    <2>2. ProcOK([proc[p] EXCEPT !.at = "grouped", !.group = g])
      BY <1>1 DEF ProcOK, At
    <2> QED BY <1>2, <2>1, <2>2, BecomesStep DEF At
  <1>5. CASE Exec(p)
    <2>1. ProcOK([proc[p] EXCEPT !.at = "running", !.ends = {}])
      BY <1>1 DEF ProcOK, At
    <2> QED BY <1>1, <1>2, <1>5, <2>1, BecomesStep DEF Exec, Ends, At
  <1>6. CASE Finish(p)
    BY <1>1, <1>2, <1>6, BecomesStep DEF Finish, Ends, At
  <1>7. CASE StopReading(p)
    <2>1. ProcOK([proc[p] EXCEPT !.stop = "new"])
      BY <1>1 DEF ProcOK
    <2> QED BY <1>2, <1>7, <2>1, BecomesStep DEF StopReading, At
  <1> QED BY <1>3, <1>4, <1>5, <1>6, <1>7 DEF ChildStep

\* Ctrl-C and Ctrl-Z.
LEMMA SignalsKeep ==
  ASSUME IInv, CtrlC \/ CtrlZ
  PROVE  IInv'
  <1>1. \A p \in Proc : ProcOK(proc[p])
    BY DEF IInv, Types
  <1>2. \A p \in Proc : ProcOK([proc[p] EXCEPT !.stop = "new"]) /\ [proc[p] EXCEPT !.stop = "new"].stop = "new"
    BY <1>1 DEF ProcOK
  <1>3. CASE CtrlC
    <2>1. \A p \in Proc : proc'[p] = IF Reached(p) THEN NoProc ELSE proc[p]
      BY <1>3 DEF CtrlC
    <2>2. ProcOK(NoProc) /\ NoProc.at = "none"
      BY DEF ProcOK, NoProc, At
    <2>3. \A p \in Proc : Still(p) => Still(p)'
      BY <2>1, <2>2 DEF Still
    <2>4. \A p \in Proc : ProcOK(proc'[p])
      BY <1>1, <2>1, <2>2
    <2>5. proc' = [p \in Proc |-> proc'[p]]
      BY <1>3, <2>1 DEF CtrlC
    <2> QED BY <1>3, <2>3, <2>4, <2>5, ProcessesStep DEF CtrlC
  <1>4. CASE CtrlZ
    <2>1. \A p \in Proc : proc'[p] = IF Reached(p) THEN [proc[p] EXCEPT !.stop = "new"] ELSE proc[p]
      BY <1>4 DEF CtrlZ
    <2>3. \A p \in Proc : Still(p) => Still(p)'
      BY <1>2, <2>1 DEF Still
    <2>4. \A p \in Proc : ProcOK(proc'[p])
      BY <1>1, <1>2, <2>1
    <2>5. proc' = [p \in Proc |-> proc'[p]]
      BY <1>4, <2>1 DEF CtrlZ
    <2> QED BY <1>4, <2>3, <2>4, <2>5, ProcessesStep DEF CtrlZ
  <1> QED BY <1>3, <1>4

-----------------------------------------------------------------------------
(***************************************************************************)
(* The steps of the shell.                                                 *)
(***************************************************************************)
\* A line that starts nothing, or ends the shell.
LEMMA IdleLine ==
  ASSUME IInv, NEW line \in Line, Die(line) \/ Nothing(line) \/ EndOfInput
  PROVE  IInv'
  <1>1. /\ pc = "prompt" /\ pc' \in {"prompt", "dead"}
        /\ bg' = NoJob \/ bg' = bg
        /\ UNCHANGED <<tasks, i, fg, tty, job, proc, next>>
    BY DEF Die, Nothing, EndOfInput, CheckedBg
  <1>2. JobOK(NoJob)
    BY DEF JobOK, NoJob
  <1>3. JobOK(bg')
    BY <1>1, <1>2 DEF IInv, Types
  <1>4. Types'
    BY <1>1, <1>3 DEF IInv, Types, Places, TaskOK, JobOK, Pid, Forked
  <1> QED BY <1>1, <1>4 DEF IInv, Waiting, Quiet, Still

\* A valid line: the tasks are there, none of them forked.
LEMMA StartKeeps ==
  ASSUME IInv, NEW line \in Line, Start(line)
  PROVE  IInv'
  <1> DEFINE n == Len(Parsed[line].programs)
  <1>1. n \in Nat \ {0}
    BY SomeProgram DEF Start
  <1>2. PICK e, f, g : tasks' = [k \in 1 .. n |-> [prog |-> e[k], in |-> f[k], out |-> g[k], pid |-> None]]
    <2>1. PICK pipes : tasks' = [k \in 1 .. n |->
                         [prog |-> Parsed[line].programs[k],
                          in |-> IF k = 1 THEN TTY ELSE pipes[k - 1],
                          out |-> IF k = n THEN TTY ELSE pipes[k],
                          pid |-> None]]
      BY DEF Start
    <2> DEFINE f == [k \in 1 .. n |-> IF k = 1 THEN TTY ELSE pipes[k - 1]]
               g == [k \in 1 .. n |-> IF k = n THEN TTY ELSE pipes[k]]
    <2>2. tasks' = [k \in 1 .. n |-> [prog |-> Parsed[line].programs[k], in |-> f[k], out |-> g[k], pid |-> None]]
      BY <2>1
    <2> HIDE DEF n, f, g
    <2> QED BY <2>2
  <1> HIDE DEF n
  <1>3. /\ pc = "prompt" /\ pc' = "fork" /\ i' = 1
        /\ bg' = NoJob \/ bg' = bg
        /\ UNCHANGED <<fg, tty, job, proc, next>>
    BY DEF Start, CheckedBg
  <1>4. JobOK(NoJob)
    BY DEF JobOK, NoJob
  <1>5. JobOK(bg')
    BY <1>3, <1>4 DEF IInv, Types
  <1>6. Len(tasks') = n /\ tasks' = [k \in 1 .. n |-> tasks'[k]]
    BY <1>1, <1>2
  <1>7. \A k \in 1 .. n : TaskOK(tasks'[k])
    BY <1>1, <1>2 DEF TaskOK, Pid
  <1>8. Types'
    <2>1. \A k \in 1 .. Len(tasks') : TaskOK(tasks[k])'
      BY <1>3, <1>6, <1>7 DEF TaskOK, Pid, Forked
    <2>2. JobOK(bg)' /\ JobOK(fg)'
      BY <1>3, <1>5 DEF IInv, Types, JobOK, Pid, Forked
    <2>3. Len(tasks') \in Nat /\ tasks' = [k \in 1 .. Len(tasks') |-> tasks'[k]]
      BY <1>1, <1>6
    <2>4. /\ pc' \in Places /\ next' \in 1 .. MaxProc + 1
          /\ i' \in Nat \ {0} /\ proc' = [p \in Proc |-> proc'[p]]
          /\ (\A p \in Proc : ProcOK(proc'[p])) /\ job' \subseteq Forked'
      BY <1>3 DEF IInv, Types, Places, Forked
    <2> QED BY <2>1, <2>2, <2>3, <2>4 DEF Types
  <1> QED BY <1>1, <1>3, <1>6, <1>8 DEF IInv, Waiting, Quiet, Still

\* The set of pids only grows with a fork.
LEMMA ForkedGrows ==
  ASSUME Types, next' = next \/ next' = next + 1
  PROVE  /\ Forked \subseteq Forked' /\ Pid \subseteq Pid'
         /\ \A r : JobOK(r) => JobOK(r)'
  <1>1. Forked \subseteq Forked' /\ Pid \subseteq Pid'
    BY DEF Types, Forked, Pid
  <1>2. Seq(Pid) \subseteq Seq(Pid')
    BY <1>1
  <1> QED BY <1>1, <1>2 DEF JobOK

\* The tasks after a fork, whether it succeeded or not.
LEMMA TasksForked ==
  ASSUME IInv, pc = "fork", NEW pid, pid \in Pid', Pid \subseteq Pid',
         tasks' = [tasks EXCEPT ![i].pid = pid]
  PROVE  /\ Len(tasks') = Len(tasks)
         /\ tasks' = [k \in 1 .. Len(tasks') |-> tasks'[k]]
         /\ \A k \in 1 .. Len(tasks') : TaskOK(tasks[k])'
  <1>1. /\ Len(tasks) \in Nat /\ tasks = [k \in 1 .. Len(tasks) |-> tasks[k]]
        /\ i \in 1 .. Len(tasks)
        /\ \A k \in 1 .. Len(tasks) : TaskOK(tasks[k])
    BY DEF IInv, Types
  <1>2. PICK t : t = [tasks[i] EXCEPT !.pid = pid]
    OBVIOUS
  <1>3. tasks' = [tasks EXCEPT ![i] = t]
    BY <1>2
  <1>4. /\ DOMAIN tasks' = 1 .. Len(tasks)
        /\ \A k \in 1 .. Len(tasks) : tasks'[k] = IF k = i THEN t ELSE tasks[k]
        /\ tasks' = [k \in 1 .. Len(tasks) |-> tasks'[k]]
    BY <1>1, <1>3
  <1>5. t \in [prog : {t.prog}, in : {t.in}, out : {t.out}, pid : Pid']
    BY <1>1, <1>2 DEF TaskOK
  <1>6. \A k \in 1 .. Len(tasks) : tasks[k] \in
          [prog : {tasks[k].prog}, in : {tasks[k].in}, out : {tasks[k].out}, pid : Pid']
    BY <1>1 DEF TaskOK
  <1>7. Len(tasks') = Len(tasks)
    BY <1>1, <1>4
  <1>8. \A k \in 1 .. Len(tasks) : TaskOK(tasks[k])'
    BY <1>4, <1>5, <1>6 DEF TaskOK
  <1> QED BY <1>4, <1>7, <1>8

\* A process is created, or none if fork() fails.
LEMMA ForkKeeps ==
  ASSUME IInv, Fork
  PROVE  IInv'
  <1> USE ShellAssumption
  <1>1. PICK pid : /\ \/ pid = None /\ UNCHANGED <<next, proc>>
                      \/ /\ next \in Proc /\ pid = next /\ next' = next + 1
                         /\ \E e : proc' = [proc EXCEPT ![next] =
                              [at |-> "forked", prog |-> tasks[i].prog, group |-> SHELL, stop |-> "no",
                               pgid |-> tasks[1].pid, in |-> e[1], out |-> e[2], ends |-> e[3]]]
                   /\ tasks' = [tasks EXCEPT ![i].pid = pid]
                   /\ i' = i + 1
                   /\ pc' = IF i < Len(tasks) THEN "fork" ELSE "started"
    <2> DEFINE e == <<Redirect(tasks[i].in, "r"), Redirect(tasks[i].out, "w"), ends>>
    <2>1. e[1] = Redirect(tasks[i].in, "r") /\ e[2] = Redirect(tasks[i].out, "w") /\ e[3] = ends
      OBVIOUS
    <2> HIDE DEF e
    <2> QED BY <2>1 DEF Fork
  <1>2. pc = "fork" /\ UNCHANGED <<fg, bg, tty, job>>
    BY DEF Fork
  <1>3. next' = next \/ next' = next + 1
    BY <1>1
  <1>4. /\ Forked \subseteq Forked' /\ Pid \subseteq Pid'
        /\ \A r : JobOK(r) => JobOK(r)'
    BY <1>3, ForkedGrows DEF IInv
  <1>5. pid \in Pid'
    BY <1>1 DEF Pid, Forked, IInv, Types
  <1>6. /\ Len(tasks') = Len(tasks)
        /\ tasks' = [k \in 1 .. Len(tasks') |-> tasks'[k]]
        /\ \A k \in 1 .. Len(tasks') : TaskOK(tasks[k])'
    BY <1>1, <1>2, <1>4, <1>5, TasksForked
  <1>7. /\ proc' = [p \in Proc |-> proc'[p]]
        /\ \A p \in Proc : ProcOK(proc'[p])
        /\ \A p \in Forked : proc'[p] = proc[p]
    <2>1. proc = [p \in Proc |-> proc[p]] /\ \A p \in Proc : ProcOK(proc[p])
      BY DEF IInv, Types
    <2>2. CASE proc' = proc
      BY <2>1, <2>2
    <2>3. ASSUME NEW r, ProcOK(r), proc' = [proc EXCEPT ![next] = r], next \in Proc PROVE
           /\ proc' = [p \in Proc |-> proc'[p]]
           /\ \A p \in Proc : ProcOK(proc'[p])
           /\ \A p \in Forked : proc'[p] = proc[p]
      <3>1. \A p \in Proc : proc'[p] = IF p = next THEN r ELSE proc[p]
        BY <2>1, <2>3
      <3>2. Forked \subseteq Proc /\ next \notin Forked
        BY DEF Forked, Proc, IInv, Types
      <3>3. proc' = [p \in Proc |-> proc'[p]]
        BY <2>1, <2>3
      <3> QED BY <2>1, <2>3, <3>1, <3>2, <3>3
    <2>4. CASE proc' # proc
      <3>1. PICK e : /\ next \in Proc
                     /\ proc' = [proc EXCEPT ![next] =
                              [at |-> "forked", prog |-> tasks[i].prog, group |-> SHELL, stop |-> "no",
                               pgid |-> tasks[1].pid, in |-> e[1], out |-> e[2], ends |-> e[3]]]
        BY <1>1, <2>4
      <3>2. PICK r : r = [at |-> "forked", prog |-> tasks[i].prog, group |-> SHELL, stop |-> "no",
                          pgid |-> tasks[1].pid, in |-> e[1], out |-> e[2], ends |-> e[3]]
        OBVIOUS
      <3>3. ProcOK(r)
        BY <3>2 DEF ProcOK, At
      <3> QED BY <2>3, <3>1, <3>2, <3>3
    <2> QED BY <2>2, <2>4
  <1>8. next' \in 1 .. MaxProc + 1
    BY <1>1 DEF Proc, IInv, Types
  <1>9. JobOK(fg)' /\ JobOK(bg)'
    <2>1. \A r : r = fg \/ r = bg => JobOK(r)'
      BY <1>4 DEF IInv, Types
    <2> QED BY <1>2, <2>1 DEF JobOK
  <1>10. Types'
    <2>1. pc' \in Places /\ i' \in Nat \ {0} /\ Len(tasks') \in Nat
      BY <1>1, <1>6 DEF IInv, Types, Places
    <2>2. job' \subseteq Forked'
      BY <1>2, <1>4 DEF IInv, Types
    <2> QED BY <2>1, <2>2, <1>6, <1>7, <1>8, <1>9 DEF Types
  <1>11. job \subseteq Forked /\ tty = SHELL /\ \A p \in job : Still(p)
    BY <1>2 DEF IInv, Types, Quiet
  <1>12. Quiet'
    BY <1>2, <1>7, <1>11 DEF Quiet, Still
  <1>13. (pc = "fork" => i <= Len(tasks))' /\ pc' \notin {"wait", "fgtty"}
    BY <1>1, <1>2, <1>6 DEF IInv, Types
  <1> QED BY <1>10, <1>12, <1>13 DEF IInv, Waiting

\* The pids of the tasks are what fork() returned.
LEMMA PidsOfTasks ==
  ASSUME Types
  PROVE  /\ Pids \in Seq(Pid)
         /\ \A g : JobOK([pgid |-> g, pids |-> Pids])
         /\ Elements(Pids) \ {None} \subseteq Forked
  <1>1. Pids \in Seq(Pid)
    <2>1. Pids = [k \in 1 .. Len(tasks) |-> tasks[k].pid] /\ Len(tasks) \in Nat
      BY DEF Types, Pids
    <2>2. \A k \in 1 .. Len(tasks) : tasks[k].pid \in Pid
      BY DEF Types, TaskOK
    <2> QED BY <2>1, <2>2
  <1>2. Elements(Pids) \subseteq Pid
    BY <1>1 DEF Elements
  <1> QED BY <1>1, <1>2 DEF JobOK, Pid

\* A background job is recorded; the last foreground job is as it was.
LEMMA ToBackgroundKeeps ==
  ASSUME IInv, ToBackground
  PROVE  IInv'
  <1>1. PICK b : b = [pgid |-> tasks[1].pid, pids |-> Pids]
    OBVIOUS
  <1>2. JobOK(b)
    BY <1>1, PidsOfTasks DEF IInv
  <1>3. /\ pc = "started" /\ bg' = b /\ pc' = "prompt" /\ tasks' = <<>> /\ i' = 1
        /\ UNCHANGED <<fg, tty, job, proc, next>>
    BY <1>1 DEF ToBackground
  <1>4. Types'
    BY <1>2, <1>3 DEF IInv, Types, Places, TaskOK, JobOK, Pid, Forked
  <1> QED BY <1>3, <1>4 DEF IInv, Waiting, Quiet, Still

\* The shell begins to wait for all processes of the line.
LEMMA ToForegroundKeeps ==
  ASSUME IInv, ToForeground
  PROVE  IInv'
  <1>1. PICK f : f = [pgid |-> tasks[1].pid, pids |-> Pids]
    OBVIOUS
  <1>2. JobOK(f) /\ f.pids = Pids /\ Elements(Pids) \ {None} \subseteq Forked
    BY <1>1, PidsOfTasks DEF IInv
  <1>3. /\ pc = "started" /\ fg' = f /\ pc' = "wait" /\ tasks' = <<>> /\ i' = 1
        /\ job' = Elements(Pids) \ {None}
        /\ UNCHANGED <<bg, proc, next>>
    BY <1>1 DEF ToForeground, WaitedFor
  <1>4. Types'
    BY <1>2, <1>3 DEF IInv, Types, Places, TaskOK, JobOK, Pid, Forked
  <1>5. Waiting'
    BY <1>2, <1>3 DEF Waiting, Elements
  <1> QED BY <1>3, <1>4, <1>5 DEF IInv, Quiet

\* One call of waitpid(): the process it is for is gone, or stopped.
LEMMA WaitKeeps ==
  ASSUME IInv, Wait
  PROVE  IInv'
  <1> USE ShellAssumption
  <1>1. /\ pc = "wait" /\ i <= Len(fg.pids) /\ i' = i + 1
        /\ UNCHANGED <<pc, tasks, fg, bg, tty, job, next>>
    BY DEF Wait
  <1>2. /\ \A k \in 1 .. Len(fg.pids) : fg.pids[k] \in Pid
        /\ i \in 1 .. Len(fg.pids)
        /\ proc = [p \in Proc |-> proc[p]]
        /\ \A p \in Proc : ProcOK(proc[p])
        /\ Forked \subseteq Proc
    BY <1>1 DEF IInv, Types, JobOK, Forked, Proc
  <1>3. /\ proc' = [p \in Proc |-> proc'[p]]
        /\ \A p \in Proc : ProcOK(proc'[p])
        /\ \A p \in Proc : Still(p) => proc'[p].at = "none" \/ proc'[p].stop # "no"
        /\ fg.pids[i] = None \/ proc'[fg.pids[i]].at = "none" \/ proc'[fg.pids[i]].stop # "no"
    <2>1. CASE Gone(fg.pids[i]) /\ proc' = proc
      <3>1. fg.pids[i] = None \/ proc[fg.pids[i]].at = "none"
        BY <1>2, <2>1 DEF Gone, Live, Pid
      <3> QED BY <1>2, <2>1, <3>1 DEF Still
    <2>2. CASE ~ (Gone(fg.pids[i]) /\ proc' = proc)
      <3>1. PICK p \in Live : /\ fg.pids[i] \in {p, None}
                              /\ proc' = [proc EXCEPT ![p].stop = "told"]
        BY <2>2 DEF Wait
      <3>2. p \in Proc
        BY <3>1 DEF Live
      <3>3. PICK r : r = [proc[p] EXCEPT !.stop = "told"]
        OBVIOUS
      <3>4. ProcOK(r) /\ r.stop = "told"
        BY <1>2, <3>2, <3>3 DEF ProcOK
      <3>5. proc' = [proc EXCEPT ![p] = r]
        BY <3>1, <3>3
      <3>6. /\ proc' = [q \in Proc |-> proc'[q]]
            /\ \A q \in Proc : proc'[q] = IF q = p THEN r ELSE proc[q]
        BY <1>2, <3>5
      <3> QED BY <1>2, <3>1, <3>2, <3>4, <3>6 DEF Still
    <2> QED BY <2>1, <2>2
  <1>4. Types'
    BY <1>1, <1>2, <1>3 DEF IInv, Types, Places, TaskOK, JobOK, Pid, Forked
  <1>5. \A k \in 1 .. Len(fg.pids) : k < i + 1 =>
           fg.pids[k] = None \/ proc'[fg.pids[k]].at = "none" \/ proc'[fg.pids[k]].stop # "no"
    <2> SUFFICES ASSUME NEW k \in 1 .. Len(fg.pids), k < i + 1, fg.pids[k] # None
                 PROVE  proc'[fg.pids[k]].at = "none" \/ proc'[fg.pids[k]].stop # "no"
      OBVIOUS
    <2>1. CASE k = i
      BY <1>3, <2>1
    <2>2. CASE k # i
      <3>1. Still(fg.pids[k])
        BY <1>1, <1>2, <2>2 DEF IInv, Waiting
      <3>2. fg.pids[k] \in Proc
        BY <1>2 DEF Pid
      <3> QED BY <1>3, <3>1, <3>2
    <2> QED BY <2>1, <2>2
  <1>6. Waiting'
    <2>1. job' = Elements(fg'.pids) \ {None}
      BY <1>1 DEF IInv, Waiting
    <2> QED BY <1>1, <1>5, <2>1 DEF Waiting, Still, Elements
  <1> QED BY <1>1, <1>4, <1>6 DEF IInv, Quiet

\* All have been waited for: the prompt comes back.
LEMMA WaitDoneKeeps ==
  ASSUME IInv, WaitDone
  PROVE  IInv'
  <1>1. /\ pc = "wait" /\ i > Len(fg.pids) /\ (bg' = fg \/ bg' = bg)
        /\ (fg' = fg \/ fg' = NoJob) /\ tty' = SHELL /\ pc' = "prompt" /\ i' = 1
        /\ job' = job \cap Live /\ UNCHANGED <<tasks, proc, next>>
    BY DEF WaitDone, Terminal, GroupExists, SHELL, None
  <1>2. JobOK(NoJob)
    BY DEF JobOK, NoJob
  <1>3. JobOK(bg')
    BY <1>1 DEF IInv, Types
  <1>4. Types'
    BY <1>1, <1>2, <1>3 DEF IInv, Types, Places, TaskOK, JobOK, Pid, Forked
  <1>5. \A p \in job : Still(p)
    <2> SUFFICES ASSUME NEW p \in job PROVE Still(p)
      OBVIOUS
    <2>1. PICK k \in DOMAIN fg.pids : p = fg.pids[k] /\ p # None
      BY <1>1 DEF IInv, Waiting, Elements
    <2>2. k \in 1 .. Len(fg.pids) /\ Len(fg.pids) \in Nat
      BY <2>1 DEF IInv, Types, JobOK
    <2>3. k < i
      BY <1>1, <2>2 DEF IInv, Types
    <2> QED BY <1>1, <2>1, <2>2, <2>3 DEF IInv, Waiting
  <1>6. Quiet'
    BY <1>1, <1>5 DEF Quiet, Still
  <1> QED BY <1>1, <1>4, <1>6 DEF IInv, Waiting

\* Processes that go on after SIGCONT have the fields of a process.
LEMMA ContinuedOK ==
  ASSUME Types, NEW g, proc' = Continued(g)
  PROVE  proc' = [p \in Proc |-> proc'[p]] /\ \A p \in Proc : ProcOK(proc'[p])
  <1>1. \A p \in Proc : ProcOK([proc[p] EXCEPT !.stop = "no"]) /\ ProcOK(proc[p])
    BY DEF Types, ProcOK
  <1>2. \A p \in Proc : proc'[p] = [proc[p] EXCEPT !.stop = "no"] \/ proc'[p] = proc[p]
    BY DEF Continued
  <1> QED BY <1>1, <1>2 DEF Continued

\* fg and bg choose the job, and nothing goes on yet.
LEMMA FgBgKeep ==
  ASSUME IInv, NEW line, cmd_fg(line) \/ cmd_bg(line)
  PROVE  IInv'
  <1>1. /\ pc = "prompt" /\ pc' \in {"prompt", "fgcont", "bgcont"}
        /\ fg' = fg \/ fg' = NoJob \/ fg' = bg
        /\ bg' = NoJob \/ bg' = bg
        /\ UNCHANGED <<tasks, i, tty, job, proc, next>>
    BY DEF cmd_fg, cmd_bg, CheckedBg
  <1>2. JobOK(NoJob)
    BY DEF JobOK, NoJob
  <1>3. JobOK(fg') /\ JobOK(bg')
    BY <1>1, <1>2 DEF IInv, Types
  <1>4. Types'
    BY <1>1, <1>3 DEF IInv, Types, Places, TaskOK, JobOK, Pid, Forked
  <1> QED BY <1>1, <1>4 DEF IInv, Waiting, Quiet, Still

\* The group is continued and is the foreground job, or has ended.
LEMMA FgContinueKeeps ==
  ASSUME IInv, FgContinue
  PROVE  IInv'
  <1>1. pc = "fgcont" /\ UNCHANGED <<tasks, i, fg, bg, tty, next>>
    BY DEF FgContinue
  <1>2. CASE isProcessAlive(fg.pgid)
    <2>1. proc' = Continued(fg.pgid) /\ job' = Elements(fg.pids) \ {None} /\ pc' = "fgtty"
      BY <1>2 DEF FgContinue
    <2>2. proc' = [p \in Proc |-> proc'[p]] /\ \A p \in Proc : ProcOK(proc'[p])
      BY <2>1, ContinuedOK DEF IInv
    <2>3. Elements(fg.pids) \ {None} \subseteq Forked
      BY DEF IInv, Types, JobOK, Elements, Pid
    <2>4. Types'
      BY <1>1, <2>1, <2>2, <2>3 DEF IInv, Types, Places, TaskOK, JobOK, Pid, Forked
    <2>5. Waiting'
      BY <1>1, <2>1 DEF Waiting, Elements
    <2> QED BY <2>1, <2>4, <2>5 DEF IInv, Quiet
  <1>3. CASE ~ isProcessAlive(fg.pgid)
    <2>1. pc' = "prompt" /\ UNCHANGED <<proc, job>>
      BY <1>3 DEF FgContinue
    <2>2. Types'
      BY <1>1, <2>1 DEF IInv, Types, Places, TaskOK, JobOK, Pid, Forked
    <2> QED BY <1>1, <2>1, <2>2 DEF IInv, Waiting, Quiet, Still
  <1> QED BY <1>2, <1>3

\* The job gets the terminal, if it is still there, and is waited for.
LEMMA FgTerminalKeeps ==
  ASSUME IInv, FgTerminal
  PROVE  IInv'
  <1>1. pc = "fgtty" /\ pc' = "wait" /\ i' = 1 /\ UNCHANGED <<tasks, fg, bg, job, proc, next>>
    BY DEF FgTerminal
  <1>2. Types'
    BY <1>1 DEF IInv, Types, Places, TaskOK, JobOK, Pid, Forked
  <1>3. Waiting'
    <2>1. job' = Elements(fg'.pids) \ {None}
      BY <1>1 DEF IInv, Waiting
    <2> QED BY <1>1, <2>1 DEF Waiting, Elements
  <1> QED BY <1>1, <1>2, <1>3 DEF IInv, Quiet

\* The job goes on in the background, where it is nobody's to wait for.
LEMMA BgContinueKeeps ==
  ASSUME IInv, BgContinue
  PROVE  IInv'
  <1>1. pc = "bgcont" /\ pc' = "prompt" /\ UNCHANGED <<tasks, i, fg, bg, tty, next>>
    BY DEF BgContinue
  <1>2. CASE isProcessAlive(bg.pgid)
    <2>1. proc' = Continued(bg.pgid) /\ job' = {}
      BY <1>2 DEF BgContinue
    <2>2. proc' = [p \in Proc |-> proc'[p]] /\ \A p \in Proc : ProcOK(proc'[p])
      BY <2>1, ContinuedOK DEF IInv
    <2>3. Types'
      BY <1>1, <2>1, <2>2 DEF IInv, Types, Places, TaskOK, JobOK, Pid, Forked
    <2> QED BY <1>1, <2>1, <2>3 DEF IInv, Waiting, Quiet
  <1>3. CASE ~ isProcessAlive(bg.pgid)
    <2>1. UNCHANGED <<proc, job>>
      BY <1>3 DEF BgContinue
    <2>2. Types'
      BY <1>1, <2>1 DEF IInv, Types, Places, TaskOK, JobOK, Pid, Forked
    <2> QED BY <1>1, <2>1, <2>2 DEF IInv, Waiting, Quiet, Still
  <1> QED BY <1>2, <1>3
-----------------------------------------------------------------------------
\* The inductive invariant of the shell, with the children running beside it.
THEOREM Invariance == Spec => []IInv
  <1>1. IInv /\ [Next]_vars => IInv'
    <2> SUFFICES ASSUME IInv, [Next]_vars PROVE IInv'
      OBVIOUS
    <2>1. CASE ReadLine
      <3>1. PICK line \in Line : Die(line) \/ Nothing(line) \/ Start(line) \/ cmd_fg(line) \/ cmd_bg(line)
        BY <2>1 DEF ReadLine
      <3> QED BY <3>1, IdleLine, StartKeeps, FgBgKeep
    <2>2. CASE EndOfInput
      <3>1. UNCHANGED <<tasks, i, fg, bg, tty, job, proc, next>> /\ pc' = "dead"
        BY <2>2 DEF EndOfInput
      <3>2. Types'
        BY <3>1 DEF IInv, Types, Places, TaskOK, JobOK, Pid, Forked
      <3> QED BY <3>1, <3>2 DEF IInv, Waiting, Quiet
    <2>3. CASE ShellStep
      BY <2>3, ForkKeeps, ToBackgroundKeeps, ToForegroundKeeps, WaitKeeps, WaitDoneKeeps,
         FgContinueKeeps, FgTerminalKeeps, BgContinueKeeps DEF ShellStep
    <2>4. CASE \E p \in Proc : ChildStep(p)
      BY <2>4, ChildStepKeeps
    <2>5. CASE CtrlC \/ CtrlZ
      BY <2>5, SignalsKeep
    <2>6. CASE UNCHANGED vars
      <3>1. UNCHANGED shellVars /\ proc' = proc
        BY <2>6 DEF vars
      <3>2. /\ proc = [p \in Proc |-> proc[p]]
            /\ \A p \in Proc : ProcOK(proc[p])
        BY DEF IInv, Types
      <3> QED BY <3>1, <3>2, ProcessesStep DEF Still
    <2> QED BY <2>1, <2>2, <2>3, <2>4, <2>5, <2>6 DEF Next
  <1> QED BY <1>1, InitIInv, PTL DEF Spec

\* When the prompt is back, the shell has its terminal again and nobody of the
\* foreground job is running, however the steps of the shell, the children and
\* the user's signals are interleaved.
THEOREM PromptIsAlwaysClean == Spec => []PromptIsClean
  <1>1. IInv => PromptIsClean
    BY DEF IInv, Quiet, Still, PromptIsClean
  <1> QED BY <1>1, Invariance, PTL
=============================================================================
