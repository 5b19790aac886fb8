----------------------------- MODULE Pipelines ------------------------------
(***************************************************************************)
(* The shell of cw05/zad1: reads lines, runs each as a pipeline of         *)
(* programs and waits for them (main.c, interpret_file, exec_command,      *)
(* run_command).                                                           *)
(*                                                                         *)
(* A pipe is its content and the processes that hold an end of it; process *)
(* 0 is the shell.  The programs are external: echo and flood write 1 and  *)
(* 2 lines, cat copies its input to the end, true and false do neither and *)
(* exit with 0 and 1, and missing cannot be executed.  vfork holds the     *)
(* shell until the child has executed its program, so both are one step.   *)
(* Splitting a line into words (interpret_line) is left out: a line is its *)
(* sequence of programs, empty, or one that interpret_line refuses.        *)
(***************************************************************************)
EXTENDS Naturals, Sequences

CONSTANTS
  Lines,     \* the lines a script may have: sequences of programs
  MaxLines,  \* bound on the lines of a script
  PipeSize,  \* lines a pipe holds
  Failures   \* whether pipe and vfork may fail

VARIABLES
  source,    \* what fp is: "file", "stdin" (read line by line), or
             \* "buffered": a redirected stdin that stdio has read ahead
  sh,        \* where the shell is
  line,      \* number of lines read
  args,      \* the rest of the line: the programs not started yet
  stdin,     \* what the shell's descriptor 0 is: a pipe, or 0 as it was
  fd,        \* the pipe that exec_command has just created, or 0
  pipes,     \* pipes[p]: data, and the processes with its read or write end
  procs,     \* procs[q]: the processes the shell has started
  failed     \* whether vfork has failed in this line (history)

vars == <<source, sh, line, args, stdin, fd, pipes, procs, failed>>
shell == <<source, sh, line, args, stdin, fd, failed>>

Init == /\ source = "none" /\ sh = "start" /\ line = 0 /\ args = <<>>
        /\ stdin = 0 /\ fd = 0 /\ pipes = <<>> /\ procs = <<>>
        /\ failed = FALSE

(* The descriptors of process x are closed at its end.                     *)
CloseAll(x) == [p \in DOMAIN pipes |->
                 [pipes[p] EXCEPT !.readers = @ \ {x}, !.writers = @ \ {x}]]

ExitShell == sh' = "exited" /\ pipes' = CloseAll(0)
-----------------------------------------------------------------------------
(***************************************************************************)
(* main and interpret_file.                                                *)
(***************************************************************************)
OpenSource ==
  /\ sh = "start"
  /\ source' \in {"file", "stdin", "buffered"}
  /\ sh' = "read"
  /\ UNCHANGED <<line, args, stdin, fd, pipes, procs, failed>>

(* fgets and interpret_line: a line is run, an empty one skipped, and one  *)
(* that cannot be split ends the shell.  The lines that stdio has read     *)
(* ahead still come when descriptor 0 is a pipe already.                   *)
ReadLine(l) ==
  /\ sh = "read"
  /\ source = "stdin" => stdin = 0
  /\ line < MaxLines
  /\ line' = line + 1
  /\ IF l = <<"bad">> THEN ExitShell /\ UNCHANGED args
     ELSE /\ sh' = IF l = <<>> THEN "read" ELSE "exec"
          /\ args' = l
          /\ UNCHANGED pipes
  /\ failed' = FALSE
  /\ UNCHANGED <<source, stdin, fd, procs>>

(* After a pipeline descriptor 0 is the pipe before its last program, and  *)
(* what that program left in it is read as the next line, once no line     *)
(* read ahead is left.                                                     *)
ReadLeftover ==
  /\ sh = "read"
  /\ source # "file" /\ stdin # 0
  /\ pipes[stdin].data > 0
  /\ pipes' = [pipes EXCEPT ![stdin].data = @ - 1]
  /\ args' = <<"missing">>
  /\ sh' = "exec"
  /\ line' = line + 1
  /\ failed' = FALSE
  /\ source' = "stdin"
  /\ UNCHANGED <<stdin, fd, procs>>

EndOfInput ==
  /\ sh = "read"
  /\ source # "file" /\ stdin # 0 =>
       pipes[stdin].data = 0 /\ pipes[stdin].writers = {}
  /\ ExitShell
  /\ UNCHANGED <<source, line, args, stdin, fd, procs, failed>>
-----------------------------------------------------------------------------
(***************************************************************************)
(* exec_command.                                                           *)
(***************************************************************************)
CreatePipe ==
  /\ sh = "exec"
  /\ Len(args) > 1
  /\ \/ /\ pipes' = Append(pipes, [data |-> 0, readers |-> {0}, writers |-> {0}])
        /\ fd' = Len(pipes) + 1
        /\ sh' = "vfork"
     \/ /\ Failures
        /\ ExitShell
        /\ UNCHANGED fd
  /\ UNCHANGED <<source, line, args, stdin, procs, failed>>

(* The child has the shell's descriptors; it closes its read end of the    *)
(* new pipe.  If it cannot execute the program it exits with 127.          *)
Process(prog) ==
  [prog |-> prog, in |-> stdin, out |-> fd, line |-> line,
   st |-> IF prog = "missing" THEN "dead" ELSE "running",
   status |-> IF prog = "missing" THEN 127 ELSE 0,
   left |-> CASE prog = "echo" -> 1 [] prog = "flood" -> 2 [] OTHER -> 0]

(* Mutant: the child keeps the read end of the pipe it writes to.          *)
InheritsAll(p) == TRUE

Inherits(p) == p # fd

Vfork ==
  LET new == Len(procs) + 1
      prog == args[1]
  IN /\ sh = "vfork" \/ (sh = "exec" /\ Len(args) = 1)
     /\ procs' = Append(procs, Process(prog))
     /\ pipes' = IF prog = "missing" THEN pipes
                 ELSE [p \in DOMAIN pipes |->
                   [pipes[p] EXCEPT
                     !.readers = IF 0 \in @ /\ Inherits(p) THEN @ \cup {new} ELSE @,
                     !.writers = IF 0 \in @ THEN @ \cup {new} ELSE @]]
     /\ sh' = IF fd = 0 THEN "wait" ELSE "redirect"
     /\ UNCHANGED <<source, line, args, stdin, fd, failed>>

(* exec_command returns -1, which run_command ignores.                     *)
VforkFails ==
  /\ sh = "vfork" \/ (sh = "exec" /\ Len(args) = 1)
  /\ Failures
  /\ sh' = "wait"
  /\ fd' = 0
  /\ failed' = TRUE
  /\ UNCHANGED <<source, line, args, stdin, pipes, procs>>

(* Mutant: the shell keeps its write end.                                  *)
KeepWriteEnd == pipes

(* close(fd[1]); fd[0] stays open next to its copy in descriptor 0.        *)
CloseWriteEnd == [pipes EXCEPT ![fd].writers = @ \ {0}]

(* dup2(fd[0], 0), and exec_command goes on with the rest of the line.     *)
Redirect ==
  /\ sh = "redirect"
  /\ pipes' = CloseWriteEnd
  /\ stdin' = fd
  /\ fd' = 0
  /\ args' = Tail(args)
  /\ sh' = "exec"
  /\ UNCHANGED <<source, line, procs, failed>>
-----------------------------------------------------------------------------
(***************************************************************************)
(* run_command: waitpid until there is no child left, or one has failed;   *)
(* a failure ends interpret_file and with it the shell.                    *)
(***************************************************************************)
Children == {q \in DOMAIN procs : procs[q].st # "reaped"}

NoChildren == Children = {}

Waitpid(q) ==
  /\ sh = "wait"
  /\ procs[q].st \in {"dead", "broken"}
  /\ procs' = [procs EXCEPT ![q].st = "reaped"]
  /\ IF procs[q].status # 0 THEN ExitShell
     ELSE UNCHANGED <<sh, pipes>>
  /\ UNCHANGED <<source, line, args, stdin, fd, failed>>

AllWaitedFor ==
  /\ sh = "wait"
  /\ NoChildren
  /\ sh' = "read"
  /\ UNCHANGED <<source, line, args, stdin, fd, pipes, procs, failed>>
-----------------------------------------------------------------------------
(***************************************************************************)
(* The programs.  Standard input as it was for the shell is at its end.    *)
(***************************************************************************)
Die(q, status, how) ==
  /\ procs' = [procs EXCEPT ![q].st = how, ![q].status = status]
  /\ pipes' = CloseAll(q)
  /\ UNCHANGED shell

Write(q) ==
  LET p == procs[q].out
  IN /\ procs[q].st = "running"
     /\ procs[q].left > 0
     /\ p # 0 => pipes[p].readers # {} /\ pipes[p].data < PipeSize
     /\ procs' = [procs EXCEPT ![q].left = @ - 1]
     /\ pipes' = IF p = 0 THEN pipes ELSE [pipes EXCEPT ![p].data = @ + 1]
     /\ UNCHANGED shell

(* SIGPIPE: WEXITSTATUS of what it kills is 0.                             *)
BreakPipe(q) ==
  /\ procs[q].st = "running"
  /\ procs[q].left > 0
  /\ procs[q].out # 0 /\ pipes[procs[q].out].readers = {}
  /\ Die(q, 0, "broken")

Read(q) ==
  LET p == procs[q].in
  IN /\ procs[q].st = "running"
     /\ procs[q].prog = "cat" /\ procs[q].left = 0
     /\ p # 0 /\ pipes[p].data > 0
     /\ procs' = [procs EXCEPT ![q].left = 1]
     /\ pipes' = [pipes EXCEPT ![p].data = @ - 1]
     /\ UNCHANGED shell

EndProgram(q) ==
  LET p == procs[q].in
  IN /\ procs[q].st = "running"
     /\ procs[q].left = 0
     /\ procs[q].prog = "cat" /\ p # 0 =>
          pipes[p].data = 0 /\ pipes[p].writers = {}
     /\ Die(q, IF procs[q].prog = "false" THEN 1 ELSE 0, "dead")

Step(q) == Write(q) \/ BreakPipe(q) \/ Read(q) \/ EndProgram(q)

Shell == \/ OpenSource \/ ReadLeftover \/ EndOfInput \/ CreatePipe \/ Vfork
         \/ VforkFails \/ Redirect \/ AllWaitedFor
         \/ \E l \in Lines : ReadLine(l)
         \/ \E q \in DOMAIN procs : Waitpid(q)

Next == Shell \/ \E q \in DOMAIN procs : Step(q)

MaxProcs == 4 * MaxLines  \* programs, if no line has more than four

(* The kernel runs the shell and every program that can go on.             *)
Fairness == /\ WF_vars(Shell)
            /\ \A q \in 1 .. MaxProcs : WF_vars(q \in DOMAIN procs /\ Step(q))

Spec == Init /\ [][Next]_vars /\ Fairness
-----------------------------------------------------------------------------
(***************************************************************************)
(* Properties.                                                             *)
(***************************************************************************)

(* Only the program before it can keep a program waiting for the end of    *)
(* its input: whoever else inherited the write end of that pipe, the shell *)
(* included, has closed it by the time the program runs.                   *)
OnlyWriterHoldsPipe ==
  \A q \in DOMAIN procs : procs[q].st = "running" /\ procs[q].in # 0 =>
    \A w \in pipes[procs[q].in].writers :
      w # 0 /\ procs[w].out = procs[q].in

(* While the shell lives no program is ended by SIGPIPE: the shell never   *)
(* closes fd[0], so there is always a reader.  A program whose reader has  *)
(* left is stopped by the full pipe instead (see LinesEnd).                *)
NoBrokenPipe == sh # "exited" => \A q \in DOMAIN procs : procs[q].st # "broken"

(* The next line starts when every program of the lines before was waited  *)
(* for: its children are its own.                                          *)
NoStragglers ==
  sh # "exited" => \A q \in Children : procs[q].line = line

(* Whoever holds the ends of the pipes, the programs of a line get exactly *)
(* the ends of their input and output that the line gives them             *)
(* (command_runner.c:10-75).                                               *)
PipesHeld == OnlyWriterHoldsPipe /\ NoBrokenPipe /\ NoStragglers

(* No program of the line writes more than fits into the pipe to one that  *)
(* exits with 0 and does not read it all.                                  *)
Drained ==
  \A q \in DOMAIN procs :
    procs[q].line = line /\ procs[q].out # 0 /\ procs[q].prog \in {"flood", "cat"} =>
      q + 1 \in DOMAIN procs /\ procs[q + 1].prog \in {"cat", "false", "missing"}

(* A line that was started completely and that leaves no full pipe behind  *)
(* ends: every program sees the end of its input, and the shell goes on.   *)
LinesEnd == (sh = "wait" /\ Drained /\ ~failed) ~> (sh # "wait")

(* When the shell has ended, also in the middle of a line because another  *)
(* program failed, every program it had started comes to an end.           *)
ProgramsEndAfterShell ==
  (sh = "exited") ~> (\A q \in DOMAIN procs : procs[q].st # "running")

(* Lines end while the shell waits for them, and programs when it does not *)
(* any more (command_runner.c:57-75, interpreter.c:99-111).                *)
PipelinesEnd == LinesEnd /\ ProgramsEndAfterShell
-----------------------------------------------------------------------------
(***************************************************************************)
(* The inductive invariant behind PipesHeld.                               *)
(***************************************************************************)
Progs == {"missing"} \cup UNION {{l[k] : k \in DOMAIN l} : l \in Lines}
PipeType == [data : Nat, readers : SUBSET Nat, writers : SUBSET Nat]
ProcType == [prog : Progs, in : Nat, out : Nat, line : Nat, status : Nat,
             st : {"running", "dead", "broken", "reaped"}, left : Nat]

(* Type correctness; what the shell and its processes call pipes are.      *)
TypeOK ==
  /\ source \in {"none", "file", "stdin", "buffered"}
  /\ sh \in {"start", "read", "exec", "vfork", "redirect", "wait", "exited"}
  /\ line \in Nat
  /\ args \in Seq(Progs)
  /\ pipes \in Seq(PipeType)
  /\ procs \in Seq(ProcType)
  /\ {stdin, fd} \subseteq {0} \cup DOMAIN pipes
  /\ \A q \in DOMAIN procs :
       {procs[q].in, procs[q].out} \subseteq {0} \cup DOMAIN pipes
  /\ failed \in BOOLEAN

(* The shell has a pipe in hand while it starts the program before it, and *)
(* no child when it reads.                                                 *)
ShellAt ==
  /\ sh \in {"vfork", "redirect"} => fd # 0 /\ Len(args) > 1
  /\ sh \in {"start", "read", "exec", "wait"} => fd = 0
  /\ sh \in {"start", "read"} => Children = {}

(* The shell keeps every read end.                                         *)
ShellReads == sh # "exited" => \A p \in DOMAIN pipes : 0 \in pipes[p].readers

IsInput(p) == p = stdin \/ \E q \in DOMAIN procs : procs[q].in = p

(* Those who hold a pipe's write end are processes; of a pipe that is the  *)
(* input of somebody they are those whose output it is, and of the pipe in *)
(* hand those and the shell.                                               *)
WritersFit ==
  \A p \in DOMAIN pipes : \A w \in pipes[p].writers :
    /\ w \in {0} \cup DOMAIN procs
    /\ IsInput(p) => w # 0
    /\ IsInput(p) \/ p = fd => w = 0 \/ procs[w].out = p

IInv == TypeOK /\ ShellAt /\ ShellReads /\ WritersFit
        /\ NoBrokenPipe /\ NoStragglers
=============================================================================
