------------------------------ MODULE ProdCons ------------------------------
(***************************************************************************)
(* The parts the two programs of cw09 share: the ring buffer (buffer.c),   *)
(* the choice of the lines to print (cl.c) and the main thread, which      *)
(* starts, cancels and joins the others (runner.c).  The threads           *)
(* themselves are in MonitorPC (main-monitor.c) and SemPC (main-sem.c).    *)
(*                                                                         *)
(* A line is <<p, i>>: the i-th line of the file as producer p read it.    *)
(* Of its text only its length matters, which File gives; length 0 is an   *)
(* empty line, which the producers skip.                                   *)
(***************************************************************************)
EXTENDS Integers, Sequences, FiniteSets

CONSTANTS
  Producers, Consumers,  \* the threads
  File,          \* File[i]: length of line i of cl.filename
  BufferSize,    \* cl.buffer_size
  Cmp,           \* cl.cmp, one of "GT", "LT" and "EQ"
  LineLength,    \* cl.line_length
  TimeLimit,     \* whether cl.time_limit is not 0
  Verbose,       \* whether cl.verbose is not 0
  Sleep,         \* whether cl.sleep is not 0
  OpenOutcomes   \* what fopen may answer: TRUE stands for success

ASSUME ThreadAssumption == Producers \cap Consumers = {}
ASSUME CountAssumption == IsFiniteSet(Producers) /\ IsFiniteSet(Consumers)
ASSUME FileAssumption == File \in Seq(Nat)
ASSUME SizeAssumption == BufferSize \in Nat \ {0}
ASSUME ConfigAssumption == /\ Cmp \in {"GT", "LT", "EQ"}
                           /\ LineLength \in Int
                           /\ {TimeLimit, Verbose, Sleep} \subseteq BOOLEAN
                           /\ OpenOutcomes \subseteq BOOLEAN

VARIABLES
  buffer, buffer_start, buffer_length,  \* the ring
  pc,         \* pc[t]: where thread t is
  pos,        \* pos[p]: index of the line producer p read last
  line,       \* line[c]: the line consumer c popped last
  cancelled,  \* threads pthread_cancel has been called for
  mpc,        \* where the main thread is
  printed,    \* the lines printed so far
  sent,       \* history: index of the last line each producer pushed
  log,        \* history: the lines pushed, in order
  taken       \* history: the lines popped, in order

ringVars == <<buffer, buffer_start, buffer_length>>
history == <<sent, log, taken>>

Threads == Producers \cup Consumers
Lines == Producers \X DOMAIN File
NoLine == <<>>  \* the NULL of an unused buffer cell
MainLabels == {"sleep", "cancelP", "cancelC", "joinP", "joinC", "done"}

SharedTypeOK ==
  /\ buffer \in [0 .. BufferSize - 1 -> Lines \cup {NoLine}]
  /\ buffer_start \in 0 .. BufferSize - 1
  /\ buffer_length \in 0 .. BufferSize
  /\ pos \in [Producers -> 0 .. Len(File)]
  /\ line \in [Consumers -> Lines \cup {NoLine}]
  /\ cancelled \subseteq Threads
  /\ mpc \in MainLabels
  /\ printed \subseteq Lines
  /\ sent \in [Producers -> 0 .. Len(File)]
  /\ log \in Seq(Lines)
  /\ taken \in Seq(Lines)

\* buffer_init, and run just after it created the threads.
SharedInit ==
  /\ buffer = [i \in 0 .. BufferSize - 1 |-> NoLine]
  /\ buffer_start = 0
  /\ buffer_length = 0
  /\ pc = [t \in Threads |-> "start"]
  /\ pos = [p \in Producers |-> 0]
  /\ line = [c \in Consumers |-> NoLine]
  /\ cancelled = {}
  /\ mpc = IF TimeLimit THEN "sleep" ELSE "joinP"
  /\ printed = {}
  /\ sent = [p \in Producers |-> 0]
  /\ log = <<>>
  /\ taken = <<>>
-----------------------------------------------------------------------------
\* buffer.c

\* Mutant: the ring's index wraps around one cell too early.
buffer_at_short(i) == IF BufferSize = 1 THEN 0 ELSE i % (BufferSize - 1)

buffer_at(i) == i % BufferSize

buffer_empty == buffer_length = 0

buffer_full == buffer_length = BufferSize

\* buffer_push of a buffer that is not full; p has read line pos[p].
buffer_push(p) ==
  /\ ~buffer_full
  /\ buffer' = [buffer EXCEPT ![buffer_at(buffer_start + buffer_length)]
                                 = <<p, pos[p]>>]
  /\ buffer_length' = buffer_length + 1
  /\ sent' = [sent EXCEPT ![p] = pos[p]]
  /\ log' = Append(log, <<p, pos[p]>>)
  /\ UNCHANGED <<buffer_start, taken>>

\* Mutant: buffer_pop leaves buffer_start where it is.
buffer_pop_stuck(c) ==
  /\ ~buffer_empty
  /\ line' = [line EXCEPT ![c] = buffer[buffer_at(buffer_start)]]
  /\ buffer_length' = buffer_length - 1
  /\ taken' = Append(taken, buffer[buffer_at(buffer_start)])
  /\ UNCHANGED <<buffer, buffer_start, sent, log>>

\* buffer_pop of a buffer that is not empty, by consumer c.
buffer_pop(c) ==
  /\ ~buffer_empty
  /\ line' = [line EXCEPT ![c] = buffer[buffer_at(buffer_start)]]
  /\ buffer_start' = (buffer_start + 1) % BufferSize
  /\ buffer_length' = buffer_length - 1
  /\ taken' = Append(taken, buffer[buffer_at(buffer_start)])
  /\ UNCHANGED <<buffer, sent, log>>
-----------------------------------------------------------------------------
\* cl.c

cl_shouldprint(l) ==
  LET length == File[l[2]] IN
  CASE Cmp = "EQ" -> length = LineLength
    [] Cmp = "LT" -> length < LineLength
    [] Cmp = "GT" -> length > LineLength
-----------------------------------------------------------------------------
\* The producers' loop over getline: i is the next line that strtok does not
\* reduce to nothing.
NextLine(p, i) == /\ i \in DOMAIN File
                  /\ pos[p] < i
                  /\ File[i] > 0
                  /\ \A k \in DOMAIN File : pos[p] < k /\ k < i => File[k] = 0

NoMoreLines(p) == \A i \in DOMAIN File : pos[p] < i => File[i] = 0
-----------------------------------------------------------------------------
\* run, after it created the threads.

Ended(S) == \A t \in S : pc[t] = "ended"

\* sleep(cl->time_limit) returns.
TimeIsUp == /\ mpc = "sleep"
            /\ mpc' = "cancelP"
            /\ UNCHANGED cancelled

\* cancel_threads: one pthread_cancel, or the end of the loop.
CancelThreads(label, S, to) ==
  /\ mpc = label
  /\ \/ /\ S \subseteq cancelled
        /\ mpc' = to
        /\ UNCHANGED cancelled
     \/ \E t \in S \ cancelled : /\ cancelled' = cancelled \cup {t}
                                 /\ UNCHANGED mpc

\* waitfor_threads returns when every thread of S has ended.
WaitForThreads(label, S, to) == /\ mpc = label
                                /\ Ended(S)
                                /\ mpc' = to
                                /\ UNCHANGED cancelled

MainStep ==
  /\ \/ TimeIsUp
     \/ CancelThreads("cancelP", Producers, "cancelC")
     \/ CancelThreads("cancelC", Consumers, IF TimeLimit THEN "joinP"
                                                         ELSE "joinC")
     \/ WaitForThreads("joinP", Producers, IF TimeLimit THEN "joinC"
                                                        ELSE "cancelC")
     \/ WaitForThreads("joinC", Consumers, "done")
  /\ UNCHANGED <<ringVars, pc, pos, line, printed, history>>
-----------------------------------------------------------------------------
\* Properties both programs are checked against.

\* The buffer is a FIFO channel: through the wrap-around of the ring and any
\* interleaving of the threads, the lines come out in the order in which they
\* went in, none lost, doubled or overwritten, and each producer's lines go in
\* in the order of the file.
Channel == INSTANCE LineChannel

ChannelImplemented == Channel!ChannelSpec

\* Cell buffer_start + i of the ring, taken modulo its size, holds the i-th of
\* the lines that were pushed and not yet popped.
RingFIFO ==
  /\ Len(log) = Len(taken) + buffer_length
  /\ \A i \in 0 .. buffer_length - 1 :
       buffer[buffer_at(buffer_start + i)] = log[Len(taken) + 1 + i]

\* Producer p has read the line that it has to push next.
LineRead(p) == Channel!Follows(pos[p], sent[p])

\* Cancellation never strikes a consumer that holds a line: when the program is
\* done, with or without a time limit, every line taken from the buffer that
\* cl_shouldprint selects has been printed.
TakenLinesPrinted ==
  mpc = "done" =>
    printed = {l \in Lines : /\ \E i \in DOMAIN taken : taken[i] = l
                             /\ cl_shouldprint(l)}

\* The program ends: whatever thread is blocked on whatever condition or
\* semaphore, run gets past its joins.
Termination == <>(mpc = "done")
=============================================================================
