------------------------------- MODULE Batch --------------------------------
(***************************************************************************)
(* The batch interpreter of cw03 (zad3; zad2 is the same without limits):  *)
(* reads lines into one buffer, splits them in place into words, and runs  *)
(* each line as one command (interpreter.c, command_runner.c).             *)
(*                                                                         *)
(* A character is "a" (any but the others), "q" (the quotation mark), "s"  *)
(* (space), "n" (newline) or "0" (the end of the string).  One turn of     *)
(* interpret_line's outer loop is a step; lines fit into the buffer.  The  *)
(* shell of cw05/zad1 has the same interpret_line.                         *)
(***************************************************************************)
EXTENDS Naturals, Sequences, SequencesExt, FiniteSetsExt

CONSTANTS
  BUFFER_SIZE,
  Texts,       \* the lines, without their newline
  MaxLines     \* bound on the lines of a file

VARIABLES
  st,        \* "start", "read", "split", "run", or how it ended
  buf, pos,  \* the buffer, and the position interpret_line has reached
  args,      \* where the words begin
  text, nl,  \* the line as it was, and whether a newline ended it (history)
  line,
  results    \* how the commands ended (history)

vars == <<st, buf, pos, args, text, nl, line, results>>

Init == /\ st = "start" /\ buf = <<>> /\ pos = 0 /\ args = <<>>
        /\ text = <<>> /\ nl = TRUE /\ line = 1 /\ results = <<>>

Eol == {"n", "0"}  \* is_eol

(* buf is not initialized: it holds something, here one word or nothing,   *)
(* that ends within the buffer.                                            *)
Enter ==
  /\ st = "start"
  /\ st' = "read"
  /\ \E c \in {"a", "0"} :
       buf' = [k \in 0 .. BUFFER_SIZE - 1 |-> IF k < BUFFER_SIZE - 2 THEN c ELSE "0"]
  /\ UNCHANGED <<pos, args, text, nl, line, results>>

(* fgets: the line, its newline if it has one, and 0; the rest of the      *)
(* buffer stays as it was.  Only the last line may lack the newline.       *)
Fgets(t, newline) ==
  LET put == t \o (IF newline THEN <<"n", "0">> ELSE <<"0">>)
  IN /\ st = "read" /\ nl
     /\ newline \/ t # <<>>
     /\ line <= MaxLines
     /\ buf' = [k \in DOMAIN buf |-> IF k < Len(put) THEN put[k + 1] ELSE buf[k]]
     /\ text' = t /\ nl' = newline
     /\ pos' = 0 /\ args' = <<>>
     /\ st' = "split"
     /\ UNCHANGED <<line, results>>

EndOfFile == /\ st = "read"
             /\ st' = "ended"
             /\ UNCHANGED <<buf, pos, args, text, nl, line, results>>
-----------------------------------------------------------------------------
(***************************************************************************)
(* interpret_line.                                                         *)
(***************************************************************************)
First(from, chars) == Min({k \in DOMAIN buf : k >= from /\ buf[k] \in chars})
NotSpace == {"a", "q", "n", "0"}

(* Mutant: the closing quotation mark stays.                               *)
TerminateNothing(k) == buf

Terminate(k) == [buf EXCEPT ![k] = "0"]

LineDone ==
  /\ st = "split"
  /\ buf[pos] \in Eol
  /\ st' = "run"
  /\ UNCHANGED <<buf, pos, args, text, nl, line, results>>

QuotedWord ==
  LET close == First(pos + 1, Eol \cup {"q"})
  IN /\ st = "split"
     /\ buf[pos] = "q"
     /\ IF buf[close] \in Eol \/ buf[close + 1] \notin Eol \cup {"s"}
        THEN st' = "refused" /\ UNCHANGED <<buf, args, pos>>
        ELSE /\ args' = Append(args, pos + 1)
             /\ buf' = Terminate(close)
             /\ IF buf[close + 1] \in Eol THEN st' = "run" /\ UNCHANGED pos
                ELSE pos' = First(close + 2, NotSpace) /\ UNCHANGED st
     /\ UNCHANGED <<text, nl, line, results>>

(* The blanks after a word are skipped from the character behind its end   *)
(* on, even if its end is the end of the string.                           *)
BareWord ==
  LET last == First(pos + 1, Eol \cup {"s"})
  IN /\ st = "split"
     /\ buf[pos] = "a"
     /\ args' = Append(args, pos)
     /\ buf' = [buf EXCEPT ![last] = "0"]
     /\ pos' = First(last + 1, NotSpace)
     /\ UNCHANGED <<st, text, nl, line, results>>

Blanks ==
  /\ st = "split"
  /\ buf[pos] = "s"
  /\ pos' = First(pos + 1, NotSpace)
  /\ UNCHANGED <<st, buf, args, text, nl, line, results>>
-----------------------------------------------------------------------------
(***************************************************************************)
(* run_command and what interpret_file does with its result.               *)
(***************************************************************************)
NoCommand ==
  /\ st = "run" /\ args = <<>>
  /\ st' = "read" /\ line' = line + 1
  /\ UNCHANGED <<buf, pos, args, text, nl, results>>

(* vfork or waitpid fails; or the child exits with 0, with 1, with 127 if  *)
(* its limits cannot be set or it cannot be executed, or it is killed by a *)
(* signal, for instance at its time limit.                                 *)
Results == {"error", "0", "1", "127", "signal"}

(* WEXITSTATUS is 0 for a process that a signal has killed.                *)
Succeeded(result) == result \in {"0", "signal"}

RunCommand(result) ==
  /\ st = "run" /\ args # <<>>
  /\ results' = Append(results, result)
  /\ st' = IF Succeeded(result) THEN "read"
           ELSE IF result = "error" THEN "ended" ELSE "failed"
  /\ line' = IF Succeeded(result) THEN line + 1 ELSE line
  /\ UNCHANGED <<buf, pos, args, text, nl>>

Next == \/ Enter \/ EndOfFile \/ LineDone \/ QuotedWord \/ BareWord \/ Blanks
        \/ NoCommand
        \/ \E t \in Texts, newline \in BOOLEAN : Fgets(t, newline)
        \/ \E result \in Results : RunCommand(result)

Spec == Init /\ [][Next]_vars
-----------------------------------------------------------------------------
(***************************************************************************)
(* Properties.                                                             *)
(***************************************************************************)

(* The words of a line, by what the characters mean; "error" for a mark    *)
(* that is not closed or not followed by a space.                          *)
Words(t) ==
  LET stop(from, chars) == Min({k \in from .. Len(t) : t[k] \in chars} \cup {Len(t) + 1})
      words[k \in 1 .. Len(t) + 1] ==
        IF k > Len(t) THEN <<>>
        ELSE IF t[k] = "s" THEN words[k + 1]
        ELSE LET end == IF t[k] = "q" THEN stop(k + 1, {"q"}) ELSE stop(k, {"s"})
             IN IF t[k] = "a" THEN <<SubSeq(t, k, end - 1)>> \o words[end]
                ELSE IF end > Len(t) \/ (end < Len(t) /\ t[end + 1] # "s")
                THEN <<"error">>
                ELSE <<SubSeq(t, k + 1, end - 1)>> \o words[end + 1]
  IN words[1]

(* argv: each word reaches from where it begins to the next end of string. *)
Argv == [k \in DOMAIN args |->
          [m \in 1 .. Min({e \in DOMAIN buf : e >= args[k] /\ buf[e] \in Eol}) - args[k]
             |-> buf[args[k] + m - 1]]]

(* A line that ends in a newline is run with exactly its words, and is     *)
(* refused exactly if it is malformed, whatever earlier lines have left in *)
(* the buffer.  A last line without newline may get more words than it has *)
(* (what is left behind it in the buffer), but its own come first.         *)
WordsOfTheLine ==
  /\ st = "run" => IF nl THEN Argv = Words(text) ELSE IsPrefix(Words(text), Argv)
  /\ st = "refused" /\ nl => "error" \in Range(Words(text))

(* A script goes on only while its commands succeed: after a command that  *)
(* could not be run or has failed no other is run.                         *)
FailureStops ==
  /\ st \in {"read", "split", "run"} => \A r \in Range(results) : r \in {"0", "signal"}
  /\ \A k \in 1 .. Len(results) - 1 : results[k] \notin {"error", "1", "127"}

(* A script is run as it is written: each command with the words of its    *)
(* line, in order, up to the first that fails (interpreter.c:16-131).      *)
RunAsWritten == WordsOfTheLine /\ FailureStops
=============================================================================
