-------------------------------- MODULE Fifo --------------------------------
(***************************************************************************)
(* The FIFO of cw05/zad2: a master prints the lines that slaves write      *)
(* (master.c, slave.c).                                                    *)
(*                                                                         *)
(* The FIFO is external: opening for reading waits for a writer, opening   *)
(* for writing waits for a reader; a line is shorter than PIPE_BUF, so a   *)
(* write is one step; a read finds the end when there are no data and no   *)
(* writers; a write without a reader is SIGPIPE.  Its content includes     *)
(* what the master's stream has buffered.  What date prints, the sleep     *)
(* after it and a failing popen are left out.                              *)
(***************************************************************************)
EXTENDS Naturals, Sequences, FiniteSets

CONSTANTS
  Slaves,
  MaxCount,  \* bound on line_count
  PipeSize   \* lines the FIFO holds

VARIABLES
  exists,      \* whether the FIFO exists
  master,      \* where the master is
  met,         \* whether a slave has opened the FIFO since the master came
  fifo,        \* its content: slave and number of each line
  slave,       \* slave[s]: where slave s is
  line_count,  \* line_count[s], its argument
  written,     \* written[s]: lines s has written; the first is its pid
  printed,     \* printed[s]: lines of s the master has printed
  late         \* slaves that opened after the master found the end (history)

vars == <<exists, master, met, fifo, slave, line_count, written, printed, late>>

Init ==
  /\ exists \in BOOLEAN
  /\ master = "start" /\ met = FALSE /\ fifo = <<>>
  /\ slave = [s \in Slaves |-> "start"]
  /\ line_count = [s \in Slaves |-> 0]
  /\ written = [s \in Slaves |-> 0]
  /\ printed = [s \in Slaves |-> 0]
  /\ late = {}

Reading == master \in {"opening", "reading", "closing"}
Writers == {s \in Slaves : slave[s] = "writing"}
-----------------------------------------------------------------------------
(***************************************************************************)
(* The master.                                                             *)
(***************************************************************************)

(* mkfifo fails on the FIFO that an earlier master left: none removes it.  *)
MakeFifo ==
  /\ master = "start"
  /\ master' = IF exists THEN "failed" ELSE "opening"
  /\ exists' = TRUE
  /\ UNCHANGED <<met, fifo, slave, line_count, written, printed, late>>

OpenToRead ==
  /\ master = "opening"
  /\ met
  /\ master' = "reading"
  /\ UNCHANGED <<exists, met, fifo, slave, line_count, written, printed, late>>

PrintLine ==
  /\ master = "reading"
  /\ fifo # <<>>
  /\ printed' = [printed EXCEPT ![fifo[1].from] = @ + 1]
  /\ fifo' = Tail(fifo)
  /\ UNCHANGED <<exists, master, met, slave, line_count, written, late>>

(* Mutant: the read does not wait for writers (O_NONBLOCK).                *)
EndWhenEmpty == fifo = <<>>

(* Mutant: the master has opened the FIFO for writing too (O_RDWR).        *)
EndNever == FALSE

AtEnd == fifo = <<>> /\ Writers = {}

(* fgets returns NULL; the FIFO is closed when the master exits.           *)
FindEnd ==
  /\ master = "reading"
  /\ AtEnd
  /\ master' = "closing"
  /\ UNCHANGED <<exists, met, fifo, slave, line_count, written, printed, late>>

ExitMaster ==
  /\ master = "closing"
  /\ master' = "ended"
  /\ UNCHANGED <<exists, met, fifo, slave, line_count, written, printed, late>>

(* SIGINT: exit, by the handler or before it by default.                   *)
InterruptMaster ==
  /\ Reading
  /\ master' = "interrupted"
  /\ UNCHANGED <<exists, met, fifo, slave, line_count, written, printed, late>>
-----------------------------------------------------------------------------
(***************************************************************************)
(* A slave.                                                                *)
(***************************************************************************)
Start(s) ==
  /\ slave[s] = "start"
  /\ line_count' \in {[line_count EXCEPT ![s] = n] : n \in 0 .. MaxCount}
  /\ slave' = [slave EXCEPT ![s] = IF exists THEN "opening" ELSE "failed"]
  /\ UNCHANGED <<exists, master, met, fifo, written, printed, late>>

OpenToWrite(s) ==
  /\ slave[s] = "opening"
  /\ Reading
  /\ slave' = [slave EXCEPT ![s] = "writing"]
  /\ met' = TRUE
  /\ late' = IF master = "closing" THEN late \cup {s} ELSE late
  /\ UNCHANGED <<exists, master, fifo, line_count, written, printed>>

(* The pid, then line_count lines.                                         *)
WriteLine(s) ==
  /\ slave[s] = "writing"
  /\ written[s] <= line_count[s]
  /\ \/ /\ Reading
        /\ Len(fifo) < PipeSize
        /\ fifo' = Append(fifo, [from |-> s, number |-> written[s] + 1])
        /\ written' = [written EXCEPT ![s] = @ + 1]
        /\ UNCHANGED slave
     \/ /\ ~Reading
        /\ slave' = [slave EXCEPT ![s] = "broken"]
        /\ UNCHANGED <<fifo, written>>
  /\ UNCHANGED <<exists, master, met, line_count, printed, late>>

ExitSlave(s) ==
  /\ slave[s] = "writing"
  /\ written[s] > line_count[s]
  /\ slave' = [slave EXCEPT ![s] = "ended"]
  /\ UNCHANGED <<exists, master, met, fifo, line_count, written, printed, late>>

InterruptSlave(s) ==
  /\ slave[s] \in {"opening", "writing"}
  /\ slave' = [slave EXCEPT ![s] = "interrupted"]
  /\ UNCHANGED <<exists, master, met, fifo, line_count, written, printed, late>>

MasterStep == MakeFifo \/ OpenToRead \/ PrintLine \/ FindEnd \/ ExitMaster
SlaveStep(s) == OpenToWrite(s) \/ WriteLine(s) \/ ExitSlave(s)

Next == \/ MasterStep \/ InterruptMaster
        \/ \E s \in Slaves : Start(s) \/ SlaveStep(s) \/ InterruptSlave(s)

(* Running processes go on; nobody has to start a slave or to press ^C.    *)
Fairness == WF_vars(MasterStep) /\ \A s \in Slaves : WF_vars(SlaveStep(s))

Spec == Init /\ [][Next]_vars /\ Fairness
-----------------------------------------------------------------------------
(***************************************************************************)
(* Properties.                                                             *)
(***************************************************************************)

(* No line is lost, repeated or overtaken: what of a slave is in the FIFO  *)
(* is exactly what it has written and the master not printed, in order.    *)
LinesInOrder ==
  /\ \A k \in DOMAIN fifo :
       fifo[k].number \in printed[fifo[k].from] + 1 .. written[fifo[k].from]
  /\ \A j, k \in DOMAIN fifo :
       j < k /\ fifo[j].from = fifo[k].from => fifo[j].number < fifo[k].number
  /\ \A s \in Slaves :
       /\ printed[s] <= written[s]
       /\ \A n \in printed[s] + 1 .. written[s] :
            \E k \in DOMAIN fifo : fifo[k] = [from |-> s, number |-> n]

(* A master that reaches the end of the FIFO has printed everything, and   *)
(* no slave dies of SIGPIPE, unless the slave opened the FIFO between the  *)
(* end that the master found and its exit.                                 *)
OnlyLateLinesLost ==
  \A s \in Slaves \ late :
    /\ slave[s] = "broken" => master = "interrupted"
    /\ master \in {"closing", "ended"} => printed[s] = written[s]

(* The FIFO keeps the lines and their order, and the master throws none    *)
(* away but those of a slave that comes at its end (master.c:48-55,        *)
(* slave.c:43-64).                                                         *)
LinesKept == LinesInOrder /\ OnlyLateLinesLost

(* Once a slave has met the master, both come to an end: the master when   *)
(* the last slave has closed the FIFO, a slave when its lines are read or  *)
(* the master is gone.                                                     *)
MasterAndSlavesEnd ==
  /\ met ~> (master \in {"ended", "interrupted"})
  /\ \A s \in Slaves : (slave[s] = "writing") ~> (slave[s] # "writing")
-----------------------------------------------------------------------------
(***************************************************************************)
(* The inductive invariant behind LinesKept.                               *)
(***************************************************************************)
Line == [from : Slaves, number : Nat]

(* Type correctness; of PipeSize and MaxCount only that they are numbers.  *)
TypeOK ==
  /\ {exists, met} \subseteq BOOLEAN
  /\ master \in {"start", "failed", "opening", "reading", "closing", "ended",
                 "interrupted"}
  /\ fifo \in Seq(Line)
  /\ slave \in [Slaves -> {"start", "failed", "opening", "writing", "broken",
                           "ended", "interrupted"}]
  /\ {line_count, written, printed} \subseteq [Slaves -> Nat]
  /\ late \subseteq Slaves

(* A slave writes to a master that was there when it opened the FIFO; one  *)
(* that still writes when the master has found the end came after that.    *)
WritersKnown ==
  \A s \in Writers : /\ master \notin {"start", "failed"}
                     /\ master \in {"closing", "ended"} => s \in late

IInv == TypeOK /\ LinesKept /\ WritersKnown
=============================================================================
