----------------------------- MODULE MonitorPC ------------------------------
(***************************************************************************)
(* main-monitor.c of cw09: producers and consumers around a mutex and two  *)
(* condition variables, with deferred thread cancellation.                 *)
(*                                                                         *)
(* Cancellation acts only at cancellation points.  For a producer these    *)
(* are fopen, getline, pthread_testcancel and, with the mutex released,    *)
(* pthread_cond_wait, whose cleanup handler unlocks the mutex it           *)
(* reacquired; with cl.verbose also the log lines, which are written with  *)
(* the mutex held and no handler pushed.  A consumer can be cancelled      *)
(* before it disables cancellation (if it sleeps or logs there) and in     *)
(* pthread_cond_wait.                                                      *)
(*                                                                         *)
(* The condition variables are POSIX ones: a signal wakes one waiter, a    *)
(* waiter may wake spuriously (at most MaxSpurious times in a behaviour),  *)
(* and a waiter that is cancelled after it was signalled passes the signal *)
(* on; in POSIX, and in glibc, such a late cancellation is possible.        *)
(***************************************************************************)
EXTENDS ProdCons

CONSTANTS NoThread,     \* the owner of a free mutex
          MaxSpurious   \* bound on the spurious wakeups

ASSUME MonitorAssumption == /\ NoThread \notin Producers \cup Consumers
                            /\ MaxSpurious \in Nat

VARIABLES buffer_mx,  \* the owner of the mutex
          spurious,   \* spurious wakeups so far
          dismissed   \* history: consumers cancelled on their way to the buffer

vars == <<ringVars, pc, pos, line, cancelled, mpc, printed, history,
          buffer_mx, spurious, dismissed>>

ProducerLabels == {"start", "read", "lock", "push", "pushed", "wait",
                   "relock", "unwind", "ended"}
ConsumerLabels == {"start", "lock", "pop", "popped", "print", "wait",
                   "relock", "unwind", "ended"}

TypeOK == /\ SharedTypeOK
          /\ pc \in [Threads -> ProducerLabels \cup ConsumerLabels]
          /\ \A p \in Producers : pc[p] \in ProducerLabels
          /\ \A c \in Consumers : pc[c] \in ConsumerLabels
          /\ buffer_mx \in Threads \cup {NoThread}
          /\ spurious \in 0 .. MaxSpurious
          /\ dismissed \subseteq Consumers

Init == /\ SharedInit
        /\ buffer_mx = NoThread
        /\ spurious = 0
        /\ dismissed = {}

At(t, from, to) == pc[t] = from /\ pc' = [pc EXCEPT ![t] = to]
-----------------------------------------------------------------------------
\* The mutex and the condition variables.

\* pthread_mutex_lock
Lock(t) == buffer_mx = NoThread /\ buffer_mx' = t

Unlock == buffer_mx' = NoThread

Waiters(S) == {t \in S : pc[t] = "wait"}

\* Thread t goes to label "to" after pthread_cond_signal on the condition the
\* threads of S wait for.
Signal(t, to, S) ==
  \/ Waiters(S) = {} /\ pc' = [pc EXCEPT ![t] = to]
  \/ \E w \in Waiters(S) : pc' = [pc EXCEPT ![t] = to, ![w] = "relock"]

\* A woken waiter reacquires the mutex and re-evaluates its loop condition.
Relock(t) ==
  /\ At(t, "relock", IF t \in Producers THEN "push" ELSE "pop")
  /\ Lock(t)
  /\ UNCHANGED <<ringVars, pos, line, cancelled, mpc, printed, history,
                 spurious, dismissed>>

SpuriousWakeup(t) ==
  /\ At(t, "wait", "relock")
  /\ spurious < MaxSpurious
  /\ spurious' = spurious + 1
  /\ UNCHANGED <<ringVars, pos, line, cancelled, mpc, printed, history,
                 buffer_mx, dismissed>>

Colleagues(t) == IF t \in Producers THEN Producers ELSE Consumers

\* A thread cancelled in the wait: it was not woken yet, or it was, and passes
\* the signal on.
CancelledUnwoken(t) == At(t, "wait", "unwind") /\ UNCHANGED dismissed

CancelledWoken(t) == /\ pc[t] = "relock"
                     /\ Signal(t, "unwind", Colleagues(t))
                     /\ dismissed' = dismissed \cup ({t} \cap Consumers)

\* Mutant: consumers leave cancellation enabled after pthread_cond_wait, so
\* that it also acts at printf.
CancelledInWaitOrPrint(t) ==
  /\ t \in cancelled
  /\ \/ CancelledUnwoken(t)
     \/ At(t, "print", "ended") /\ UNCHANGED dismissed
     \/ CancelledWoken(t)
  /\ UNCHANGED <<ringVars, pos, line, cancelled, mpc, printed, history,
                 buffer_mx, spurious>>

\* Cancellation acts in pthread_cond_wait.
CancelledInWait(t) ==
  /\ t \in cancelled
  /\ CancelledUnwoken(t) \/ CancelledWoken(t)
  /\ UNCHANGED <<ringVars, pos, line, cancelled, mpc, printed, history,
                 buffer_mx, spurious>>

\* The cancelled waiter reacquires the mutex, unlock_mx releases it, and the
\* thread ends.
Unwind(t) ==
  /\ At(t, "unwind", "ended")
  /\ buffer_mx = NoThread
  /\ UNCHANGED <<ringVars, pos, line, cancelled, mpc, printed, history,
                 buffer_mx, spurious, dismissed>>
-----------------------------------------------------------------------------
\* producer

\* fopen
OpenFile(p) ==
  /\ \E ok \in OpenOutcomes : At(p, "start", IF ok THEN "read" ELSE "ended")
  /\ UNCHANGED <<ringVars, pos, line, cancelled, mpc, printed, history,
                 buffer_mx, spurious, dismissed>>

\* getline up to a line that is not empty, then pthread_testcancel
ReadLine(p) ==
  /\ At(p, "read", "lock")
  /\ p \notin cancelled
  /\ \E i \in DOMAIN File : NextLine(p, i) /\ pos' = [pos EXCEPT ![p] = i]
  /\ UNCHANGED <<ringVars, line, cancelled, mpc, printed, history, buffer_mx,
                 spurious, dismissed>>

\* getline returns -1
EndOfFile(p) ==
  /\ At(p, "read", "ended")
  /\ NoMoreLines(p)
  /\ UNCHANGED <<ringVars, pos, line, cancelled, mpc, printed, history,
                 buffer_mx, spurious, dismissed>>

\* Cancellation acts in fopen, getline, sleep or pthread_testcancel.
CancelledOutside(p) ==
  /\ p \in cancelled
  /\ At(p, "start", "ended") \/ At(p, "read", "ended")
  /\ UNCHANGED <<ringVars, pos, line, cancelled, mpc, printed, history,
                 buffer_mx, spurious, dismissed>>

LockToPush(p) ==
  /\ At(p, "lock", "push")
  /\ Lock(p)
  /\ UNCHANGED <<ringVars, pos, line, cancelled, mpc, printed, history,
                 spurious, dismissed>>

\* buffer_push fails: pthread_cond_wait(&producer_line, &buffer_mx)
WaitForSpace(p) ==
  /\ At(p, "push", "wait")
  /\ buffer_full
  /\ Unlock
  /\ UNCHANGED <<ringVars, pos, line, cancelled, mpc, printed, history,
                 spurious, dismissed>>

Push(p) ==
  /\ At(p, "push", "pushed")
  /\ buffer_push(p)
  /\ UNCHANGED <<pos, line, cancelled, mpc, printed, buffer_mx, spurious,
                 dismissed>>

\* With cl.verbose, log_producer writes "Buffer is full, waiting..." or
\* "Pushed": cancellation may act there, and the mutex stays locked.
CancelledInLog(p) ==
  /\ Verbose
  /\ p \in cancelled
  /\ \/ buffer_full /\ At(p, "push", "ended")
     \/ At(p, "pushed", "ended")
  /\ UNCHANGED <<ringVars, pos, line, cancelled, mpc, printed, history,
                 buffer_mx, spurious, dismissed>>

\* Mutant: the producer signals only when the buffer was empty before.
SignalFirstLine(p) ==
  /\ pc[p] = "pushed"
  /\ IF buffer_length = 1 THEN Signal(p, "read", Consumers)
                          ELSE At(p, "pushed", "read")
  /\ Unlock
  /\ UNCHANGED <<ringVars, pos, line, cancelled, mpc, printed, history,
                 spurious, dismissed>>

\* Mutant: the producer does not signal.
SignalNobody(p) ==
  /\ At(p, "pushed", "read")
  /\ Unlock
  /\ UNCHANGED <<ringVars, pos, line, cancelled, mpc, printed, history,
                 spurious, dismissed>>

\* pthread_cond_signal(&consumer_line); pthread_mutex_unlock(&buffer_mx)
SignalLine(p) ==
  /\ pc[p] = "pushed"
  /\ Signal(p, "read", Consumers)
  /\ Unlock
  /\ UNCHANGED <<ringVars, pos, line, cancelled, mpc, printed, history,
                 spurious, dismissed>>
-----------------------------------------------------------------------------
\* consumer

\* Up to pthread_setcancelstate(PTHREAD_CANCEL_DISABLE)
StartConsumer(c) ==
  /\ At(c, "start", "lock")
  /\ UNCHANGED <<ringVars, pos, line, cancelled, mpc, printed, history,
                 buffer_mx, spurious, dismissed>>

\* Cancellation acts in usleep or in log_consumer before it is disabled.
CancelledAtStart(c) ==
  /\ Verbose \/ Sleep
  /\ c \in cancelled
  /\ At(c, "start", "ended")
  /\ dismissed' = dismissed \cup {c}
  /\ UNCHANGED <<ringVars, pos, line, cancelled, mpc, printed, history,
                 buffer_mx, spurious>>

LockToPop(c) ==
  /\ At(c, "lock", "pop")
  /\ Lock(c)
  /\ UNCHANGED <<ringVars, pos, line, cancelled, mpc, printed, history,
                 spurious, dismissed>>

\* buffer_pop fails: pthread_cond_wait(&consumer_line, &buffer_mx)
WaitForLine(c) ==
  /\ At(c, "pop", "wait")
  /\ buffer_empty
  /\ Unlock
  /\ UNCHANGED <<ringVars, pos, line, cancelled, mpc, printed, history,
                 spurious, dismissed>>

Pop(c) ==
  /\ At(c, "pop", "popped")
  /\ buffer_pop(c)
  /\ UNCHANGED <<pos, cancelled, mpc, printed, buffer_mx, spurious,
                 dismissed>>

\* pthread_cond_signal(&producer_line); pthread_mutex_unlock(&buffer_mx)
SignalSpace(c) ==
  /\ pc[c] = "popped"
  /\ Signal(c, "print", Producers)
  /\ Unlock
  /\ UNCHANGED <<ringVars, pos, line, cancelled, mpc, printed, history,
                 spurious, dismissed>>

PrintLine(c) ==
  /\ At(c, "print", "lock")
  /\ printed' = IF cl_shouldprint(line[c]) THEN printed \cup {line[c]}
                                           ELSE printed
  /\ UNCHANGED <<ringVars, pos, line, cancelled, mpc, history, buffer_mx,
                 spurious, dismissed>>
-----------------------------------------------------------------------------
ProducerStep(p) == \/ OpenFile(p) \/ ReadLine(p) \/ EndOfFile(p)
                   \/ CancelledOutside(p) \/ LockToPush(p) \/ WaitForSpace(p)
                   \/ Push(p) \/ CancelledInLog(p) \/ SignalLine(p)

ConsumerStep(c) == \/ StartConsumer(c) \/ CancelledAtStart(c) \/ LockToPop(c)
                   \/ WaitForLine(c) \/ Pop(c) \/ SignalSpace(c)
                   \/ PrintLine(c)

WaiterStep(t) == Relock(t) \/ CancelledInWait(t) \/ Unwind(t)

ThreadStep(t) == \/ t \in Producers /\ ProducerStep(t)
                 \/ t \in Consumers /\ ConsumerStep(t)
                 \/ WaiterStep(t)

RunStep == MainStep /\ UNCHANGED <<buffer_mx, spurious, dismissed>>

Next == \/ RunStep
        \/ \E p \in Producers : ProducerStep(p)
        \/ \E c \in Consumers : ConsumerStep(c)
        \/ \E t \in Threads : WaiterStep(t) \/ SpuriousWakeup(t)

Spec == Init /\ [][Next]_vars

\* The scheduler runs every thread that is not blocked; no assumption is made
\* on who gets the mutex or which waiter a signal wakes.
FairSpec == Spec /\ WF_vars(RunStep) /\ \A t \in Threads : WF_vars(ThreadStep(t))
-----------------------------------------------------------------------------
\* Properties.

\* Between lock and unlock a thread owns the mutex.
Holding(t) == pc[t] \in {"push", "pushed", "pop", "popped"}

\* No two threads use the buffer at the same time, not even after a signal, a
\* spurious wakeup or a cancellation; this is what makes buffer_push and
\* buffer_pop atomic.
BufferExclusive ==
  \A t, u \in Threads : Holding(t) /\ Holding(u) => t = u

\* A producer that was cancelled in a log line keeps the mutex for ever.
Orphaned == buffer_mx # NoThread /\ pc[buffer_mx] = "ended"

\* The threads of S that are on their way to use the buffer.
Awake(S) == {t \in S : pc[t] \in {"relock", "push", "pop"}}

\* No wakeup for a producer is lost: while one waits for space, every free cell
\* has a producer on its way to fill it or a consumer about to signal, whoever
\* overtakes whom, wakes spuriously or is cancelled in between.
SpaceIsSignalled ==
  Waiters(Producers) # {} /\ ~Orphaned =>
    BufferSize - buffer_length <=
      Cardinality(Awake(Producers))
        + Cardinality({c \in Consumers : pc[c] = "popped"})

\* No wakeup for a consumer is lost: while one waits for a line, every line in
\* the buffer has a consumer on its way to take it or a producer about to
\* signal.
LinesAreSignalled ==
  Waiters(Consumers) # {} /\ ~Orphaned =>
    buffer_length <=
      Cardinality(Awake(Consumers))
        + Cardinality({p \in Producers : pc[p] = "pushed"})

\* No wakeup is lost on either side of the monitor, between a thread's look at
\* the buffer and its wait (main-monitor.c:52-70, 101-121).
NoWakeupLost == SpaceIsSignalled /\ LinesAreSignalled

\* The lines the ring holds.
LinesLeft ==
  {buffer[buffer_at(buffer_start + i)] : i \in 0 .. buffer_length - 1}

\* runner.c without a time limit joins the producers and cancels the consumers
\* at once (runner.c:65), whatever is still in the buffer.  When the program is
\* done, every line of the file that cl_shouldprint selects has been printed for
\* every producer, except for the lines left in the buffer, and lines are left
\* only if a consumer that was about to look at the buffer was cancelled: one
\* that had not locked the mutex for the first time, or one that was woken and
\* had not come back from pthread_cond_wait.
LinesLeftOnlyByDismissal ==
  mpc = "done" /\ ~TimeLimit =>
    /\ printed = {l \in Lines \ LinesLeft : File[l[2]] > 0 /\ cl_shouldprint(l)}
    /\ LinesLeft # {} => dismissed # {}
-----------------------------------------------------------------------------
\* The inductive invariant behind TypeOK, BufferExclusive and
\* ChannelImplemented.

OwnerHolds == \A t \in Threads : Holding(t) => buffer_mx = t

\* pos is at most one line ahead of sent, and exactly one line while the
\* producer tries to push.
ReadAhead ==
  \A p \in Producers :
    /\ pc[p] \in {"start", "read", "pushed"} => pos[p] = sent[p]
    /\ pc[p] \in {"lock", "push", "wait", "relock"} => LineRead(p)

\* A consumer that is past buffer_pop holds a line.
LineHeld ==
  \A c \in Consumers : pc[c] \in {"popped", "print"} => line[c] \in Lines

\* Whatever the threads do, the ring's cells are the tail of the log, the mutex
\* is with whoever uses the buffer, and each producer is where its file says.
ChannelInv == TypeOK /\ OwnerHolds /\ ReadAhead /\ LineHeld /\ RingFIFO
=============================================================================
