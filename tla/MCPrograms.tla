----------------------------- MODULE MCPrograms -----------------------------
(***************************************************************************)
(* The small programs for TLC.  Programs.cfg gives the constants of        *)
(* Programs small values; the sets of inputs are defined here.             *)
(***************************************************************************)
EXTENDS Programs

(* Pipelines: every line of one or two programs, and of three those where  *)
(* the middle one reads, does not read, or fails.                          *)
ShellPrograms == {"echo", "flood", "cat", "true", "false", "missing"}
ShellLines ==
  {<<>>, <<"bad">>} \cup {<<a>> : a \in ShellPrograms}
    \cup ShellPrograms \X ShellPrograms
    \cup {"echo", "flood"} \X {"cat", "true", "false"} \X {"cat", "true"}

(* The filter: an image in which two threads report, one of each size and  *)
(* number of threads that is an edge, and more threads than pixels.        *)
Images ==
  [threads : 0 .. 2, width : {1, 5}, height : {0, 4}, size : {1, 3}]
    \cup {[threads |-> 3, width |-> 2, height |-> 1, size |-> 4]}

(* Records: all files of up to three records and three bytes, and of four  *)
(* records and two.                                                        *)
Sorted == UNION {[1 .. n -> 1 .. 3] : n \in 0 .. 3} \cup [1 .. 4 -> 1 .. 2]
Copied == {<<>>, <<1>>, <<2, 1>>, <<1, 2, 1>>}

(* The sums of blocks: of NULL, of an empty block and of another.          *)
BlockSums == {-1, 0, 2}

(* Batch files of lines of up to four characters.                          *)
LineTexts == UNION {[1 .. n -> {"a", "q", "s"}] : n \in 0 .. 4}
=============================================================================
