------------------------------ MODULE Programs ------------------------------
(***************************************************************************)
(* The small programs as a sum: each behaviour is one of one program, and  *)
(* the variables of the others stay as they were initially.  So a property *)
(* of a program is checked in exactly the behaviours of that program, and  *)
(* the distinct states are those of the programs added up.                 *)
(***************************************************************************)
EXTENDS Permissions, Integers, Sequences

CONSTANTS
  MaxSignals,                            \* CountedSignals
  Lines, MaxLines, PipeSize, Failures,   \* Pipelines
  Slaves, MaxCount, FifoSize,            \* Fifo
  Arguments, Patience,                   \* ImageFilter
  Files, SomeFiles, Bytes, MaxRecords,   \* Records
  MaxBlocks, Sums, MaxOps,               \* Challoc
  BUFFER_SIZE, Texts, MaxTexts           \* Batch

VARIABLES
  program,  \* the program that runs
  mode, signal_count, cpc, ci, sent, received, usr1_received, kills, intr,
  toParent, cchild, handlers, received_count, replying, toChild,
  source, sh, line, args, stdin, fd, pipes, procs, failed,
  exists, master, met, fifo, slave, line_count, written, printed, late,
  fargs, main, fi, th, pixel, processed, seen, pixels_processed, pp_sem,
  out_image,
  op, rmode, record_count, original, old, rpc, file, file2, cursor, ri,
  sorted_end, next_pos, inserted,
  alloc, st, blk_count, table, sums, heap, dropped, found, ops,
  bst, buf, pos, bargs, text, nl, bline, results

CS == INSTANCE CountedSignals WITH pc <- cpc, i <- ci, child <- cchild
PL == INSTANCE Pipelines
FF == INSTANCE Fifo WITH PipeSize <- FifoSize
IM == INSTANCE ImageFilter WITH args <- fargs, i <- fi
RF == INSTANCE Records
        WITH MaxCount <- MaxRecords, mode <- rmode, pc <- rpc, i <- ri
CH == INSTANCE Challoc
BI == INSTANCE Batch
        WITH MaxLines <- MaxTexts, st <- bst, args <- bargs, line <- bline

signalVars == <<mode, signal_count, cpc, ci, sent, received, usr1_received,
                kills, intr, toParent, cchild, handlers, received_count,
                replying, toChild>>
shellVars == <<source, sh, line, args, stdin, fd, pipes, procs, failed>>
fifoVars == <<exists, master, met, fifo, slave, line_count, written, printed,
              late>>
filterVars == <<fargs, main, fi, th, pixel, processed, seen, pixels_processed,
                pp_sem, out_image>>
recordVars == <<op, rmode, record_count, original, old, rpc, file, file2, cursor,
                ri, sorted_end, next_pos, inserted>>
blockVars == <<alloc, st, blk_count, table, sums, heap, dropped, found, ops>>
batchVars == <<bst, buf, pos, bargs, text, nl, bline, results>>
programVars == <<program, vars, signalVars, shellVars, fifoVars, filterVars,
                 recordVars, blockVars, batchVars>>

ProgInit ==
  /\ program \in {"permissions", "signals", "shell", "fifo", "filter",
                  "records", "challoc", "batch"}
  /\ Init /\ CS!Init /\ PL!Init /\ FF!Init /\ IM!Init /\ RF!Init /\ CH!Init
  /\ BI!Init
  /\ program # "fifo" => ~exists

ProgNext ==
  /\ UNCHANGED program
  /\ \/ /\ program = "permissions" /\ Next
        /\ UNCHANGED <<signalVars, shellVars, fifoVars, filterVars, recordVars, blockVars, batchVars>>
     \/ /\ program = "signals" /\ CS!Next
        /\ UNCHANGED <<vars, shellVars, fifoVars, filterVars, recordVars, blockVars, batchVars>>
     \/ /\ program = "shell" /\ PL!Next
        /\ UNCHANGED <<vars, signalVars, fifoVars, filterVars, recordVars, blockVars, batchVars>>
     \/ /\ program = "fifo" /\ FF!Next
        /\ UNCHANGED <<vars, signalVars, shellVars, filterVars, recordVars, blockVars, batchVars>>
     \/ /\ program = "filter" /\ IM!Next
        /\ UNCHANGED <<vars, signalVars, shellVars, fifoVars, recordVars, blockVars, batchVars>>
     \/ /\ program = "records" /\ RF!Next
        /\ UNCHANGED <<vars, signalVars, shellVars, fifoVars, filterVars, blockVars, batchVars>>
     \/ /\ program = "challoc" /\ CH!Next
        /\ UNCHANGED <<vars, signalVars, shellVars, fifoVars, filterVars, recordVars, batchVars>>
     \/ /\ program = "batch" /\ BI!Next
        /\ UNCHANGED <<vars, signalVars, shellVars, fifoVars, filterVars, recordVars, blockVars>>

(* The fairness of each program, in its behaviours.                        *)
ProgFairness ==
  /\ WF_vars(program = "permissions" /\ ParentStep)
  /\ \A c \in Child :
       /\ WF_vars(program = "permissions" /\ ChildStep(c))
       /\ WF_vars(program = "permissions" /\ Wait(c))
       /\ WF_vars(program = "permissions" /\ HandleRealTime(c))
  /\ WF_signalVars(program = "signals" /\ CS!ParentStep)
  /\ WF_signalVars(program = "signals" /\ CS!ChildStep)
  /\ WF_shellVars(program = "shell" /\ PL!Shell)
  /\ \A q \in 1 .. PL!MaxProcs :
       WF_shellVars(program = "shell" /\ q \in DOMAIN procs /\ PL!Step(q))
  /\ WF_fifoVars(program = "fifo" /\ FF!MasterStep)
  /\ \A s \in Slaves : WF_fifoVars(program = "fifo" /\ FF!SlaveStep(s))

ProgSpec == ProgInit /\ [][ProgNext]_programVars /\ ProgFairness
-----------------------------------------------------------------------------
(***************************************************************************)
(* The properties of the instances, by their names.                        *)
(***************************************************************************)

(* cw04/zad3: the counters agree as far as the mode promises.              *)
CountsAgree == CS!CountsAgree

(* cw04/zad3: neither process waits for a signal in vain.                  *)
SignallingEnds == CS!SignallingEnds

(* cw05/zad1: the ends of the pipes are held by those who use them.        *)
PipesHeld == PL!PipesHeld

(* cw05/zad1: lines end, and programs after the shell.                     *)
PipelinesEnd == PL!PipelinesEnd

(* cw05/zad2: only lines of a slave that comes at the end are lost.        *)
LinesKept == FF!LinesKept

(* cw05/zad2: master and slaves that have met end.                         *)
MasterAndSlavesEnd == FF!MasterAndSlavesEnd

(* cw08: the image is complete and the progress true.                      *)
ImageComplete == IM!ImageComplete

(* cw02/zad1: no record is lost or misplaced.                              *)
RecordsKept == RF!RecordsKept

(* cw01: table, heap and answer fit together.                              *)
TableConsistent == CH!TableConsistent

(* cw03: a script is run as it is written.                                 *)
RunAsWritten == BI!RunAsWritten
=============================================================================
