------------------------------- MODULE SemPC --------------------------------
(***************************************************************************)
(* main-sem.c of cw09: producers and consumers around three semaphores.    *)
(* buffer_mx guards the buffer; producer_line and consumer_line count one  *)
(* token per line popped and pushed, which only threads that found the     *)
(* buffer full or empty consume.                                           *)
(*                                                                         *)
(* sem_wait is a cancellation point.  Where both the token and the request *)
(* are there, either may win, as POSIX leaves open for a suspended thread. *)
(* Producers can be cancelled in every sem_wait, in fopen and getline and, *)
(* with cl.verbose, in the log lines, one of which is written with         *)
(* buffer_mx taken; consumers only where they wait for a line (and before  *)
(* they disable cancellation, if they sleep or log there).                 *)
(***************************************************************************)
EXTENDS ProdCons

VARIABLES buffer_mx, producer_line, consumer_line  \* the semaphores' values

semVars == <<buffer_mx, producer_line, consumer_line>>
vars == <<ringVars, pc, pos, line, cancelled, mpc, printed, history, semVars>>

ProducerLabels == {"start", "read", "lock", "check", "space", "pushed",
                   "ended"}
ConsumerLabels == {"start", "lock", "check", "line", "popped", "print",
                   "ended"}

TypeOK == /\ SharedTypeOK
          /\ pc \in [Threads -> ProducerLabels \cup ConsumerLabels]
          /\ \A p \in Producers : pc[p] \in ProducerLabels
          /\ \A c \in Consumers : pc[c] \in ConsumerLabels
          /\ buffer_mx \in 0 .. 1
          /\ producer_line \in Nat
          /\ consumer_line \in Nat

Init == /\ SharedInit
        /\ buffer_mx = 1
        /\ producer_line = 0
        /\ consumer_line = 0

At(t, from, to) == pc[t] = from /\ pc' = [pc EXCEPT ![t] = to]

\* sem_wait_f(&buffer_mx)
Lock(t) ==
  /\ At(t, "lock", "check")
  /\ buffer_mx > 0
  /\ buffer_mx' = buffer_mx - 1
  /\ UNCHANGED <<ringVars, pos, line, cancelled, mpc, printed, history,
                 producer_line, consumer_line>>

\* sem_post_f(&buffer_mx)
Unlock == buffer_mx' = buffer_mx + 1
-----------------------------------------------------------------------------
\* producer

\* fopen
OpenFile(p) ==
  /\ \E ok \in OpenOutcomes : At(p, "start", IF ok THEN "read" ELSE "ended")
  /\ UNCHANGED <<ringVars, pos, line, cancelled, mpc, printed, history,
                 semVars>>

\* getline up to a line that is not empty
ReadLine(p) ==
  /\ At(p, "read", "lock")
  /\ \E i \in DOMAIN File : NextLine(p, i) /\ pos' = [pos EXCEPT ![p] = i]
  /\ UNCHANGED <<ringVars, line, cancelled, mpc, printed, history, semVars>>

\* getline returns -1
EndOfFile(p) ==
  /\ At(p, "read", "ended")
  /\ NoMoreLines(p)
  /\ UNCHANGED <<ringVars, pos, line, cancelled, mpc, printed, history,
                 semVars>>

\* Cancellation acts in fopen, getline or sem_wait.
CancelledOutside(p) ==
  /\ p \in cancelled
  /\ \E label \in {"start", "read", "lock", "space"} : At(p, label, "ended")
  /\ UNCHANGED <<ringVars, pos, line, cancelled, mpc, printed, history,
                 semVars>>

\* buffer_full: sem_post_f(&buffer_mx)
WaitForSpace(p) ==
  /\ At(p, "check", "space")
  /\ buffer_full
  /\ Unlock
  /\ UNCHANGED <<ringVars, pos, line, cancelled, mpc, printed, history,
                 producer_line, consumer_line>>

\* sem_wait_f(&producer_line)
GetSpace(p) ==
  /\ At(p, "space", "lock")
  /\ producer_line > 0
  /\ producer_line' = producer_line - 1
  /\ UNCHANGED <<ringVars, pos, line, cancelled, mpc, printed, history,
                 buffer_mx, consumer_line>>

\* buffer_push(line); sem_post_f(&consumer_line)
Push(p) ==
  /\ At(p, "check", "pushed")
  /\ buffer_push(p)
  /\ consumer_line' = consumer_line + 1
  /\ UNCHANGED <<pos, line, cancelled, mpc, printed, buffer_mx, producer_line>>

\* With cl.verbose, cancellation may act in log_producer(id, "Pushed").
CancelledInLog(p) ==
  /\ Verbose
  /\ p \in cancelled
  /\ At(p, "pushed", "ended")
  /\ UNCHANGED <<ringVars, pos, line, cancelled, mpc, printed, history,
                 semVars>>

UnlockPushed(p) ==
  /\ At(p, "pushed", "read")
  /\ Unlock
  /\ UNCHANGED <<ringVars, pos, line, cancelled, mpc, printed, history,
                 producer_line, consumer_line>>
-----------------------------------------------------------------------------
\* consumer

\* Up to pthread_setcancelstate(PTHREAD_CANCEL_DISABLE)
StartConsumer(c) ==
  /\ At(c, "start", "lock")
  /\ UNCHANGED <<ringVars, pos, line, cancelled, mpc, printed, history,
                 semVars>>

\* Cancellation acts in usleep or in log_consumer before it is disabled.
CancelledAtStart(c) ==
  /\ Verbose \/ Sleep
  /\ c \in cancelled
  /\ At(c, "start", "ended")
  /\ UNCHANGED <<ringVars, pos, line, cancelled, mpc, printed, history,
                 semVars>>

\* buffer_empty: sem_post_f(&buffer_mx), then cancellation is enabled
WaitForLine(c) ==
  /\ At(c, "check", "line")
  /\ buffer_empty
  /\ Unlock
  /\ UNCHANGED <<ringVars, pos, line, cancelled, mpc, printed, history,
                 producer_line, consumer_line>>

\* sem_wait_f(&consumer_line), then cancellation is disabled
GetLine(c) ==
  /\ At(c, "line", "lock")
  /\ consumer_line > 0
  /\ consumer_line' = consumer_line - 1
  /\ UNCHANGED <<ringVars, pos, line, cancelled, mpc, printed, history,
                 buffer_mx, producer_line>>

\* Mutant: consumers leave cancellation enabled after the wait, so that it also
\* acts at printf.
CancelledAnywhere(c) ==
  /\ c \in cancelled
  /\ At(c, "line", "ended") \/ At(c, "print", "ended")
  /\ UNCHANGED <<ringVars, pos, line, cancelled, mpc, printed, history,
                 semVars>>

\* Cancellation acts in sem_wait(&consumer_line).
CancelledInWait(c) ==
  /\ c \in cancelled
  /\ At(c, "line", "ended")
  /\ UNCHANGED <<ringVars, pos, line, cancelled, mpc, printed, history,
                 semVars>>

\* Mutant: the consumer does not tell the producers.
PopSilently(c) ==
  /\ At(c, "check", "popped")
  /\ buffer_pop(c)
  /\ UNCHANGED <<pos, cancelled, mpc, printed, semVars>>

\* buffer_pop(&line); sem_post_f(&producer_line)
Pop(c) ==
  /\ At(c, "check", "popped")
  /\ buffer_pop(c)
  /\ producer_line' = producer_line + 1
  /\ UNCHANGED <<pos, cancelled, mpc, printed, buffer_mx, consumer_line>>

UnlockPopped(c) ==
  /\ At(c, "popped", "print")
  /\ Unlock
  /\ UNCHANGED <<ringVars, pos, line, cancelled, mpc, printed, history,
                 producer_line, consumer_line>>

PrintLine(c) ==
  /\ At(c, "print", "lock")
  /\ printed' = IF cl_shouldprint(line[c]) THEN printed \cup {line[c]}
                                           ELSE printed
  /\ UNCHANGED <<ringVars, pos, line, cancelled, mpc, history, semVars>>
-----------------------------------------------------------------------------
ProducerStep(p) == \/ OpenFile(p) \/ ReadLine(p) \/ EndOfFile(p)
                   \/ CancelledOutside(p) \/ Lock(p) \/ WaitForSpace(p)
                   \/ GetSpace(p) \/ Push(p) \/ CancelledInLog(p)
                   \/ UnlockPushed(p)

ConsumerStep(c) == \/ StartConsumer(c) \/ CancelledAtStart(c) \/ Lock(c)
                   \/ WaitForLine(c) \/ GetLine(c) \/ CancelledInWait(c)
                   \/ Pop(c) \/ UnlockPopped(c) \/ PrintLine(c)

RunStep == MainStep /\ UNCHANGED semVars

Next == \/ RunStep
        \/ \E p \in Producers : ProducerStep(p)
        \/ \E c \in Consumers : ConsumerStep(c)

Spec == Init /\ [][Next]_vars

\* The scheduler runs every thread that is not blocked; no assumption is made
\* on who gets a contended semaphore.
FairSpec == /\ Spec
            /\ WF_vars(RunStep)
            /\ \A p \in Producers : WF_vars(ProducerStep(p))
            /\ \A c \in Consumers : WF_vars(ConsumerStep(c))
-----------------------------------------------------------------------------
\* Properties.

\* Between taking and posting buffer_mx.
Holding(t) == pc[t] \in {"check", "pushed", "popped"}

\* No two threads use the buffer at the same time; this is what makes
\* buffer_push and buffer_pop atomic.
BufferExclusive ==
  \A t, u \in Threads : Holding(t) /\ Holding(u) => t = u

\* The threads of S that are about to use the buffer.
Awake(S) == {t \in S : pc[t] \in {"lock", "check"}}

\* Every line in the buffer has a token or a consumer that is about to look for
\* it, so that no consumer can wait for a token while its line lies there.
LinesHaveTokens ==
  buffer_length <= consumer_line + Cardinality(Awake(Consumers))

\* Unless producers are being cancelled, every cell that is freed while a
\* producer waits for space has a token or a producer about to fill it.
SpaceHasTokens ==
  /\ cancelled \cap Producers = {}
  /\ \E p \in Producers : pc[p] = "space"
  => BufferSize - buffer_length <=
       producer_line + Cardinality(Awake(Producers))

\* The tokens of both semaphores account for what lies in the buffer, although
\* a thread looks at the buffer under buffer_mx and waits for its token after it
\* has released it (main-sem.c:56-70, 93-111).
TokensAccounted == LinesHaveTokens /\ SpaceHasTokens
-----------------------------------------------------------------------------
\* The inductive invariant behind TypeOK, BufferExclusive and
\* ChannelImplemented.

MutexTaken == \A t \in Threads : Holding(t) => buffer_mx = 0

\* pos is at most one line ahead of sent, and exactly one line while the
\* producer tries to push.
ReadAhead ==
  \A p \in Producers :
    /\ pc[p] \in {"start", "read", "pushed"} => pos[p] = sent[p]
    /\ pc[p] \in {"lock", "check", "space"} => LineRead(p)

\* A consumer that is past buffer_pop holds a line.
LineHeld ==
  \A c \in Consumers : pc[c] \in {"popped", "print"} => line[c] \in Lines

\* Whatever the threads do, the ring's cells are the tail of the log, buffer_mx
\* is taken by whoever uses the buffer, and each producer is where its file
\* says.
ChannelInv == /\ TypeOK
              /\ MutexTaken
              /\ BufferExclusive
              /\ ReadAhead
              /\ LineHeld
              /\ RingFIFO
=============================================================================
