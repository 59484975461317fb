------------------------------- MODULE Shell --------------------------------
(***************************************************************************)
(* The shell, hw-shell/shell.c, with the processes it starts, its terminal *)
(* and its pipes.  A line is the sequence of its tokens.  Processes and    *)
(* the kernel are external: fork(), setpgid(), tcsetpgrp(), waitpid() and  *)
(* the signals of the terminal are modelled as the shell uses them, with   *)
(* the children running beside the shell from the moment they are forked.  *)
(***************************************************************************)
EXTENDS Integers, Sequences, FiniteSets

CONSTANTS
  MaxProc,   \* bound: processes that can be created
  Line,      \* the lines the user types
  MaxPipe    \* bound: pipes that can be open at a time

\* A line is a sequence of words.
ASSUME ShellAssumption == MaxProc \in Nat /\ Line \subseteq Seq(STRING)

SHELL == 0   \* shell_pgid
TTY == 0     \* the terminal as a standard input or output; pipes are 1 .. MaxPipe
Proc == 1 .. MaxProc
Pipe == 1 .. MaxPipe
None == -1   \* no pid, no process group

VARIABLES
  pc,        \* where the shell is
  tasks,     \* all_com_tasks: program, pipes for input and output, pid
  background,\* is_command_background
  i,         \* the task that is forked or waited for
  status,    \* what waitpid() stored last
  fg, bg,    \* fgPgid and bgPgid, with fgPids and bgPids
  ends,      \* the pipe ends that the shell has open
  tty,       \* the terminal's foreground process group
  next,      \* the next process id
  proc,      \* the processes: where each is, its program, group and files
  job        \* history: the processes of the last foreground job

shellVars == <<pc, tasks, background, i, status, fg, bg, ends, tty, next, job>>
vars == <<shellVars, proc>>

\* A process is "none", or where it is in create_process_and_exec().  stop is
\* "no", "new" (stopped) or "told" (and waitpid() has said so); ends are the
\* pipe ends it has inherited.
NoProc == [at |-> "none", prog |-> "", group |-> SHELL, pgid |-> None, stop |-> "no",
           in |-> TTY, out |-> TTY, ends |-> {}]
NoJob == [pgid |-> None, pids |-> <<>>]

Live == {p \in Proc : proc[p].at # "none"}
GroupExists(g) == g = SHELL \/ \E p \in Live : proc[p].group = g

Elements(s) == {s[k] : k \in DOMAIN s}
\* init_shell() has waited for the terminal and ignores the signals.
Init ==
  /\ pc = "prompt"
  /\ tasks = <<>>
  /\ background = FALSE
  /\ i = 1
  /\ status = "exited"
  /\ fg = NoJob
  /\ bg = NoJob
  /\ ends = {}
  /\ tty = SHELL
  /\ next = 1
  /\ proc = [p \in Proc |-> NoProc]
  /\ job = {}
-----------------------------------------------------------------------------
(***************************************************************************)
(* Parsing.  A task is its arguments, or NULL.  "f" is a file, "missing" a *)
(* name that no file has, "nosuch" a program that is not found.            *)
(***************************************************************************)
NULL == <<>>
Symbols == {"|", ">", "<"}

cmd_table == {"?", "exit", "cmdprint", "pwd", "cd", "pfgpgid", "fg", "bg", "fgpgid", "bgpgid"}
lookup(tokens) == tokens # <<>> /\ Head(tokens) \in cmd_table

\* The first index from start on, or 0.
find_symbol_from_tokens(tokens, start, symbol) ==
  LET found == {k \in start .. Len(tokens) : tokens[k] = symbol}
  IN IF found = {} THEN 0 ELSE CHOOSE k \in found : \A n \in found : k <= n

\* The n-th of a set of positions.
Nth(S, n) == CHOOSE k \in S : Cardinality({m \in S : m <= k}) = n

\* The arguments are what is neither `>' nor `<' nor the name of a file, which
\* follows these.  The descriptors of the files are left out: main() overwrites
\* the one and the properties are not about files.
Redirected(tokens, k) == k \in DOMAIN tokens /\ tokens[k] \in {">", "<"}
BadRedirection(tokens, k) ==
  /\ Redirected(tokens, k)
  /\ \/ k = Len(tokens)
     \/ tokens[k + 1] \in Symbols
     \/ tokens[k] = "<" /\ tokens[k + 1] = "missing"
Args(tokens) ==
  LET args == {k \in DOMAIN tokens : ~ Redirected(tokens, k) /\ ~ Redirected(tokens, k - 1)}
  IN IF \E k \in DOMAIN tokens : BadRedirection(tokens, k) THEN NULL
     ELSE [n \in 1 .. Cardinality(args) |-> tokens[Nth(args, n)]]

tokens_to_task(tokens, start, end) == Args(SubSeq(tokens, start, end - 1))

\* main()'s loop over the pipe symbols.  A command begins with the line or
\* behind a symbol; the loop ends at the first one that is invalid, or at the
\* last one.  The result is the tasks it has made, and where it stands.
Starts(tokens) == {1} \union {k + 1 : k \in {k \in DOMAIN tokens : tokens[k] = "|"}}
TaskAt(tokens, cur) == tokens_to_task(tokens, cur, find_symbol_from_tokens(tokens, cur, "|"))
Invalid(tokens) ==
  {cur \in Starts(tokens) :
     TaskAt(tokens, cur) = NULL /\ find_symbol_from_tokens(tokens, cur, "|") # 0}

StopsAt(tokens, invalid) ==
  IF invalid = {} THEN CHOOSE k \in Starts(tokens) : \A m \in Starts(tokens) : m <= k
  ELSE CHOOSE k \in invalid : \A m \in invalid : k <= m

TasksUpTo(tokens, done) == [n \in 1 .. Cardinality(done) |-> TaskAt(tokens, Nth(done, n))]

\* The last command of a line, its `&' apart.
WithoutAmp(last) ==
  IF last # NULL /\ last[Len(last)] = "&" THEN SubSeq(last, 1, Len(last) - 1) ELSE last

\* What main() makes of a line: the programs, whether all are valid, whether
\* it goes to the background, and whether the shell does not survive it: the
\* test for `&' follows the pointer of a last command that is invalid, and
\* the path of a command that is nothing but `&' is looked for.
Checked(tasks_made, invalid, last, args) ==
  LET all == Append(tasks_made, args)
      crash == last = NULL \/ args = <<>>
  IN [crash |-> crash,
      background |-> last # args,
      programs |-> IF crash THEN <<>> ELSE [k \in DOMAIN all |-> Head(all[k])],
      valid |-> ~ crash /\ invalid = {} /\ \A k \in DOMAIN all : Head(all[k]) # "nosuch"]

ParsedTo(tokens, invalid, cur) ==
  LET last == tokens_to_task(tokens, cur, Len(tokens) + 1)
  IN Checked(TasksUpTo(tokens, {k \in Starts(tokens) : k < cur}), invalid, last, WithoutAmp(last))

Parse(tokens) == ParsedTo(tokens, Invalid(tokens), StopsAt(tokens, Invalid(tokens)))
Parsed == [line \in Line |-> Parse(line)]
-----------------------------------------------------------------------------
(***************************************************************************)
(* The shell.                                                              *)
(***************************************************************************)
\* isProcessAlive(), asked before every line.
isProcessAlive(g) == \E p \in Live : proc[p].group = g
CheckedBg == IF bg.pgid # None /\ ~ isProcessAlive(bg.pgid) THEN NoJob ELSE bg

\* A line the shell does not come back from: exit, or a crash.
Die(line) ==
  /\ pc = "prompt"
  /\ \/ lookup(line) /\ Head(line) = "exit"
     \/ ~ lookup(line) /\ Parsed[line].crash
  /\ pc' = "dead"
  /\ UNCHANGED <<tasks, background, i, status, fg, bg, ends, tty, job, proc, next>>

\* A line that starts nothing: the other built-in commands, and programs that
\* are rejected.  Pipes of a rejected line stay open; nobody uses them.
Nothing(line) ==
  /\ pc = "prompt"
  /\ \/ lookup(line) /\ Head(line) \notin {"exit", "fg", "bg"}
     \/ ~ lookup(line) /\ ~ Parsed[line].crash /\ ~ Parsed[line].valid
  /\ bg' = CheckedBg
  /\ UNCHANGED <<pc, tasks, background, i, status, fg, ends, tty, job, proc, next>>

\* The descriptors of the pipes.  When pipe() fails the loop goes on with what the
\* array holds: no open descriptor, or the pair that another turn has stored.
UsedPipes == {e[1] : e \in ends} \union UNION {{proc[p].in, proc[p].out} \union
                                               {e[1] : e \in proc[p].ends} : p \in Live}
Lowest(S) == {q \in S : \A r \in S : q <= r}
PipeCalls(n) ==
  {pipes \in [1 .. n - 1 -> {TTY} \union (Pipe \ UsedPipes)] :
     \A k \in 1 .. n - 1 :
       LET before == {pipes[m] : m \in 1 .. k - 1}
       IN pipes[k] \in {TTY} \union before \union Lowest(Pipe \ (UsedPipes \union before))}

\* The tasks of a valid line, each but the last with a pipe to the next.
Start(line) ==
  LET parsed == Parsed[line]
      n == Len(parsed.programs)
  IN /\ pc = "prompt"
     /\ ~ lookup(line)
     /\ parsed.valid
     /\ \E pipes \in PipeCalls(n) :
          /\ tasks' = [k \in 1 .. n |->
                         [prog |-> parsed.programs[k],
                          in |-> IF k = 1 THEN TTY ELSE pipes[k - 1],
                          out |-> IF k = n THEN TTY ELSE pipes[k],
                          pid |-> None]]
          /\ ends' = (Elements(pipes) \ {TTY}) \X {"r", "w"}
     /\ background' = parsed.background
     /\ bg' = CheckedBg
     /\ i' = 1
     /\ pc' = "fork"
     /\ UNCHANGED <<status, fg, tty, job, proc, next>>

\* Mutant: the shell keeps its copy of the pipe's ends.
KeepsEnds(task) == {}

ClosedAfterFork(task) == {<<task.in, "r">>, <<task.out, "w">>}

\* dup2() of a descriptor that is not open, or no longer, leaves the terminal.
Redirect(pipe, end) == IF <<pipe, end>> \in ends THEN pipe ELSE TTY

\* The next task's process, or none if fork() fails; then the shell closes
\* the ends that it has handed on.
Fork ==
  LET task == tasks[i]
      After(pid) == /\ tasks' = [tasks EXCEPT ![i].pid = pid]
                    /\ ends' = ends \ ClosedAfterFork(task)
                    /\ i' = i + 1
                    /\ pc' = IF i < Len(tasks) THEN "fork" ELSE "started"
  IN /\ pc = "fork"
     /\ \/ /\ After(None)
           /\ UNCHANGED <<next, proc>>
        \/ /\ next \in Proc
           /\ After(next)
           /\ next' = next + 1
           /\ proc' = [proc EXCEPT ![next] =
                [at |-> "forked", prog |-> task.prog, group |-> SHELL, stop |-> "no",
                 pgid |-> tasks[1].pid, ends |-> ends,
                 in |-> Redirect(task.in, "r"), out |-> Redirect(task.out, "w")]]
     /\ UNCHANGED <<background, status, fg, bg, tty, job>>

Pids == [k \in DOMAIN tasks |-> tasks[k].pid]

\* tcsetpgrp() to a group that does not exist fails.
Terminal(g) == IF g # None /\ GroupExists(g) THEN g ELSE tty

\* A background job is recorded, in place of the one there was.
ToBackground ==
  /\ pc = "started" /\ background
  /\ bg' = [pgid |-> tasks[1].pid, pids |-> Pids]
  /\ pc' = "prompt"
  /\ tasks' = <<>>
  /\ i' = 1
  /\ background' = FALSE
  /\ UNCHANGED <<status, fg, ends, tty, job, proc, next>>

\* Mutant: only the last process of the job is waited for.
OnlyLast(pids) == <<pids[Len(pids)]>>

WaitedFor(pids) == pids

ToForeground ==
  /\ pc = "started" /\ ~ background
  /\ fg' = [pgid |-> tasks[1].pid, pids |-> WaitedFor(Pids)]
  /\ tty' = Terminal(tasks[1].pid)
  /\ tasks' = <<>>
  /\ status' = "exited"
  /\ i' = 1
  /\ job' = Elements(Pids) \ {None}
  /\ pc' = "wait"
  /\ UNCHANGED <<background, bg, ends, proc, next>>

\* waitpid() of a process that is gone fails: SA_NOCLDWAIT has reaped it.
Gone(pid) == IF pid = None THEN Live = {} ELSE pid \notin Live

\* waitpid(pid, &status, WUNTRACED); pid is -1, any child, if fork() failed.
Wait ==
  LET pid == fg.pids[i]
  IN /\ pc = "wait" /\ i <= Len(fg.pids)
     /\ i' = i + 1
     /\ \/ /\ Gone(pid)
           /\ UNCHANGED <<status, proc>>
        \/ \E p \in Live :
             /\ pid \in {p, None}
             /\ proc[p].stop = "new"
             /\ status' = "stopped"
             /\ proc' = [proc EXCEPT ![p].stop = "told"]
     /\ UNCHANGED <<pc, tasks, background, fg, bg, ends, tty, job, next>>

\* The job is over, or stopped and now in the background.  A status that says
\* neither leaves fgPgid as it is.
WaitDone ==
  /\ pc = "wait" /\ i > Len(fg.pids)
  /\ bg' = IF status = "stopped" THEN fg ELSE bg
  /\ fg' = IF status = "neither" THEN fg ELSE NoJob
  /\ tty' = Terminal(SHELL)
  /\ pc' = "prompt"
  /\ i' = 1
  /\ status' = "exited"
  /\ job' = job \cap Live
  /\ UNCHANGED <<tasks, background, ends, proc, next>>

Continued(g) ==
  [p \in Proc |-> IF p \in Live /\ proc[p].group = g THEN [proc[p] EXCEPT !.stop = "no"]
                  ELSE proc[p]]

\* cmd_fg() for a group: it becomes the foreground job, if there is one (a job
\* whose first fork() failed has the group -1).
cmd_fg(line) ==
  LET b == CheckedBg
  IN /\ pc = "prompt"
     /\ line = <<"fg">>
     /\ IF b.pgid > 0
        THEN fg' = b /\ bg' = NoJob /\ pc' = "fgcont"
        ELSE bg' = b /\ UNCHANGED <<pc, fg>>
     /\ UNCHANGED <<tasks, background, i, status, ends, tty, job, proc, next>>

\* killpg(), which fails when the group has ended since.
FgContinue ==
  /\ pc = "fgcont"
  /\ IF isProcessAlive(fg.pgid)
     THEN /\ proc' = Continued(fg.pgid)
          /\ job' = Elements(fg.pids) \ {None}
          /\ pc' = "fgtty"
     ELSE pc' = "prompt" /\ UNCHANGED <<proc, job>>
  /\ UNCHANGED <<tasks, background, i, status, fg, bg, ends, tty, next>>

\* The terminal; then the status to be waited for is whatever the stack holds.
FgTerminal ==
  /\ pc = "fgtty"
  /\ tty' = Terminal(fg.pgid)
  /\ status' \in {"exited", "stopped", "neither"}
  /\ i' = 1
  /\ pc' = "wait"
  /\ UNCHANGED <<tasks, background, fg, bg, ends, job, proc, next>>

cmd_bg(line) ==
  /\ pc = "prompt"
  /\ line = <<"bg">>
  /\ bg' = CheckedBg
  /\ pc' = IF bg'.pgid > 0 THEN "bgcont" ELSE "prompt"
  /\ UNCHANGED <<tasks, background, i, status, fg, ends, tty, job, proc, next>>

BgContinue ==
  /\ pc = "bgcont"
  /\ IF isProcessAlive(bg.pgid)
     THEN proc' = Continued(bg.pgid) /\ job' = {}
     ELSE UNCHANGED <<proc, job>>
  /\ pc' = "prompt"
  /\ UNCHANGED <<tasks, background, i, status, fg, bg, ends, tty, next>>

EndOfInput ==
  /\ pc = "prompt"
  /\ pc' = "dead"
  /\ UNCHANGED <<tasks, background, i, status, fg, bg, ends, tty, job, proc, next>>

ReadLine == \E line \in Line :
  Die(line) \/ Nothing(line) \/ Start(line) \/ cmd_fg(line) \/ cmd_bg(line)
ShellStep == \/ Fork \/ ToBackground \/ ToForeground \/ Wait \/ WaitDone
             \/ FgContinue \/ FgTerminal \/ BgContinue
-----------------------------------------------------------------------------
(***************************************************************************)
(* The child in create_process_and_exec(), then the program: "cat" reads   *)
(* its input to the end, "run" does not read.                              *)
(***************************************************************************)
Ready(p, at) == proc[p].at = at /\ proc[p].stop = "no"
Becomes(p, r) == proc' = [proc EXCEPT ![p] = r] /\ UNCHANGED shellVars
Ends(p) == Becomes(p, NoProc)

DefaultSignals(p) == Ready(p, "forked") /\ Becomes(p, [proc[p] EXCEPT !.at = "default"])

\* setpgid() into a group that does not exist fails: not yet, or no longer.
SetGroup(p) ==
  LET g == proc[p].pgid
  IN /\ Ready(p, "default")
     /\ Becomes(p, [proc[p] EXCEPT !.at = "grouped",
                                   !.group = IF g <= 0 THEN p
                                             ELSE IF GroupExists(g) THEN g ELSE SHELL])

\* dup2() and execv(), which closes the inherited ends (FD_CLOEXEC) and fails for
\* "noexec": the child exits.
Exec(p) ==
  /\ Ready(p, "grouped")
  /\ IF proc[p].prog = "noexec" THEN Ends(p)
     ELSE Becomes(p, [proc[p] EXCEPT !.at = "running", !.ends = {}])

Writers(pipe) ==
  {p \in Live : proc[p].out = pipe \/ <<pipe, "w">> \in proc[p].ends}
  \union (IF <<pipe, "w">> \in ends THEN {SHELL} ELSE {})

\* "cat" at the end of its input, typed by the user or because nobody can
\* write to the pipe any more; "run" when it is done.
Finish(p) ==
  /\ Ready(p, "running")
  /\ \/ proc[p].prog = "run"
     \/ proc[p].prog = "cat" /\ proc[p].in = TTY /\ proc[p].group = tty
     \/ proc[p].prog = "cat" /\ proc[p].in # TTY /\ Writers(proc[p].in) = {}
  /\ Ends(p)

\* SIGTTIN: only the terminal's foreground group may read from it.
StopReading(p) ==
  /\ Ready(p, "running")
  /\ proc[p].prog = "cat" /\ proc[p].in = TTY /\ proc[p].group # tty
  /\ Becomes(p, [proc[p] EXCEPT !.stop = "new"])

\* Ctrl-C and Ctrl-Z reach the processes of the foreground group that do not
\* ignore them (a stopped one does not take a signal).
Reached(p) == /\ proc[p].group = tty
              /\ proc[p].at \in {"default", "grouped", "running"}
              /\ proc[p].stop = "no"
CtrlC ==
  /\ \E p \in Proc : Reached(p)
  /\ proc' = [p \in Proc |-> IF Reached(p) THEN NoProc ELSE proc[p]]
  /\ UNCHANGED shellVars
CtrlZ ==
  /\ \E p \in Proc : Reached(p)
  /\ proc' = [p \in Proc |-> IF Reached(p) THEN [proc[p] EXCEPT !.stop = "new"] ELSE proc[p]]
  /\ UNCHANGED shellVars

ChildStep(p) == DefaultSignals(p) \/ SetGroup(p) \/ Exec(p) \/ Finish(p) \/ StopReading(p)

\* What becomes of the children after the shell is not followed.
Next == \/ ReadLine \/ EndOfInput \/ ShellStep
        \/ pc # "dead" /\ \E p \in Proc : ChildStep(p)
        \/ pc # "dead" /\ (CtrlC \/ CtrlZ)

Spec == Init /\ [][Next]_vars

\* Processes run, programs end, and the user ends the input they ask for;
\* nobody has to type a line, Ctrl-C or Ctrl-Z.
FairSpec ==
  Spec /\ WF_vars(ShellStep) /\ \A p \in Proc : WF_vars(pc # "dead" /\ ChildStep(p))
-----------------------------------------------------------------------------
\* When the prompt is back the shell has the terminal again and nobody of the
\* foreground job is still running,
\* whatever happened to the job's group while its processes were created,
\* stopped, killed or ended before the shell came to wait for them.
PromptIsClean ==
  pc = "prompt" =>
    /\ tty = SHELL
    /\ \A p \in job : proc[p].at = "none" \/ proc[p].stop # "no"

\* While nobody is stopped, the prompt comes back: every reader sees the end of
\* its pipe, because the shell closes each end as soon as it has handed it on.
JobsFinish ==
  [](\A p \in Proc : proc[p].stop = "no") => (pc = "wait" ~> pc = "prompt")
=============================================================================
