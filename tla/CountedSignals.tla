--------------------------- MODULE CountedSignals ---------------------------
(***************************************************************************)
(* The counted signals of cw04/zad3: a parent sends signal_count signals   *)
(* to its child, which counts each one and answers it, then SIGUSR2, on    *)
(* which the child exits (main.c, child.c).  Mode 1 sends SIGUSR1 in a     *)
(* burst, mode 2 waits for each answer, mode 3 sends real-time signals.    *)
(*                                                                         *)
(* A standard signal is pending or not, real-time signals are queued; a    *)
(* pending signal is handled at any later step of its receiver that does   *)
(* not block it.  SIGINT is the user's, at most one and to the parent.     *)
(***************************************************************************)
EXTENDS Naturals

CONSTANT MaxSignals  \* bound on signal_count

VARIABLES
  mode, signal_count,   \* the arguments
  pc, i,                \* where the parent is, and its loop index
  sent, received,       \* the parent's counters
  usr1_received,
  kills,                \* signals the parent has sent (history)
  intr,                 \* SIGINT: "no", "pending" or "taken"
  toParent,             \* pending at the parent: USR1 and the queue of RT
  child,                \* what the child process is doing
  handlers,             \* number of handlers the child has installed
  received_count,       \* the child's counter
  replying,             \* the signal whose handler the child is in, or "none"
  toChild               \* pending at the child

parentVars == <<mode, signal_count, pc, i, sent, received, usr1_received,
                kills, intr, toParent>>
childVars == <<child, handlers, received_count, replying>>
vars == <<mode, signal_count, pc, i, sent, received, usr1_received, kills, intr,
          toParent, child, handlers, received_count, replying, toChild>>

NothingPending == [USR1 |-> 0, RT |-> 0, USR2 |-> 0]

(* Delivery by the kernel: a real-time signal is queued, of a standard     *)
(* signal one is pending at a time.                                        *)
Raise(pending, sig) ==
  [pending EXCEPT ![sig] = IF sig = "RT" THEN @ + 1 ELSE 1]
Take(pending, sig) == [pending EXCEPT ![sig] = @ - 1]

Init ==
  /\ mode = 0 /\ signal_count = 0
  /\ pc = "args" /\ i = 0
  /\ sent = 0 /\ received = 0 /\ usr1_received = FALSE /\ kills = 0
  /\ intr = "no"
  /\ toParent = NothingPending /\ toChild = NothingPending
  /\ child = "none" /\ handlers = 0 /\ received_count = 0 /\ replying = "none"
-----------------------------------------------------------------------------
(***************************************************************************)
(* The parent.                                                             *)
(***************************************************************************)
ReadArguments ==
  /\ pc = "args"
  /\ mode' \in 1 .. 3
  /\ signal_count' \in 0 .. MaxSignals
  /\ pc' = "fork"
  /\ UNCHANGED <<i, sent, received, usr1_received, kills, intr, toParent,
                 childVars, toChild>>

(* The result of fork is not checked: without a child the signals go to    *)
(* pid -1, that is, to other processes.                                    *)
Fork ==
  /\ pc = "fork"
  /\ child' \in {"none", "alive"}
  /\ pc' = "install"
  /\ UNCHANGED <<mode, signal_count, i, sent, received, usr1_received, kills,
                 intr, toParent, handlers, received_count, replying, toChild>>

Install ==
  /\ pc = "install"
  /\ pc' = "loop"
  /\ UNCHANGED <<mode, signal_count, i, sent, received, usr1_received, kills,
                 intr, toParent, childVars, toChild>>

Deliver(sig) ==
  /\ kills' = kills + 1
  /\ toChild' = IF child = "alive" THEN Raise(toChild, sig) ELSE toChild

(* One turn of the loop: kill, which mode 2 does with its signals blocked. *)
Send ==
  /\ pc = "loop"
  /\ i < signal_count
  /\ Deliver(IF mode = 3 THEN "RT" ELSE "USR1")
  /\ pc' = "count"
  /\ UNCHANGED <<mode, signal_count, i, sent, received, usr1_received, intr,
                 toParent, childVars>>

(* ++sent; mode 2 goes on to wait for the answer.                          *)
Count ==
  /\ pc = "count"
  /\ sent' = sent + 1
  /\ IF mode = 2 THEN pc' = "await" /\ UNCHANGED i
     ELSE pc' = "loop" /\ i' = i + 1
  /\ UNCHANGED <<mode, signal_count, received, usr1_received, kills, intr,
                 toParent, childVars, toChild>>

(* Mutant: usr1_received is not reset.                                     *)
AnswerStaysSet ==
  /\ pc' = "loop" /\ i' = i + 1
  /\ UNCHANGED usr1_received

Answered ==
  /\ pc' = "loop" /\ i' = i + 1
  /\ usr1_received' = FALSE

(* while (!usr1_received) sigsuspend: between the test and the call the    *)
(* signals are still blocked.                                              *)
TestAnswer ==
  /\ pc = "await"
  /\ IF usr1_received THEN Answered
     ELSE pc' = "tested" /\ UNCHANGED <<i, usr1_received>>
  /\ UNCHANGED <<mode, signal_count, sent, received, kills, intr, toParent,
                 childVars, toChild>>

Suspend ==
  /\ pc = "tested"
  /\ pc' = "suspended"
  /\ UNCHANGED <<mode, signal_count, i, sent, received, usr1_received, kills,
                 intr, toParent, childVars, toChild>>

(* After the loop: SIGUSR2, the count, and print_count exits.              *)
SendLast ==
  /\ pc = "loop"
  /\ i = signal_count
  /\ Deliver("USR2")
  /\ pc' = "lastcount"
  /\ UNCHANGED <<mode, signal_count, i, sent, received, usr1_received, intr,
                 toParent, childVars>>

PrintCount ==
  /\ pc = "lastcount"
  /\ sent' = sent + 1
  /\ pc' = "exited"
  /\ UNCHANGED <<mode, signal_count, i, received, usr1_received, kills, intr,
                 toParent, childVars, toChild>>
-----------------------------------------------------------------------------
(***************************************************************************)
(* The signals of the parent.                                              *)
(***************************************************************************)
Running == pc \notin {"args", "fork", "install", "exited", "killed"}

(* Mutant: mode 2 does not block the signals it waits for.                 *)
NothingBlocked == FALSE

Blocked == mode = 2 /\ pc \in {"count", "await", "tested"}

HandleAnswer(sig) ==
  /\ Running
  /\ ~Blocked
  /\ toParent[sig] > 0
  /\ toParent' = Take(toParent, sig)
  /\ received' = received + 1
  /\ usr1_received' = TRUE
  /\ pc' = IF pc = "suspended" THEN "await" ELSE pc
  /\ UNCHANGED <<mode, signal_count, i, sent, kills, intr, childVars, toChild>>

Interrupt ==
  /\ pc \notin {"exited", "killed"}
  /\ intr = "no"
  /\ intr' = "pending"
  /\ UNCHANGED <<mode, signal_count, pc, i, sent, received, usr1_received,
                 kills, toParent, childVars, toChild>>

(* SIGINT: SIGUSR2 to the child and print_count; before the handler is     *)
(* installed it kills the parent.                                          *)
HandleInterrupt ==
  /\ intr = "pending"
  /\ intr' = "taken"
  /\ \/ /\ Running /\ ~Blocked
        /\ received' = received + 1
        /\ Deliver("USR2")
        /\ sent' = sent + 1
        /\ pc' = "exited"
     \/ /\ pc \in {"args", "fork", "install"}
        /\ pc' = "killed"
        /\ UNCHANGED <<received, sent, kills, toChild>>
  /\ UNCHANGED <<mode, signal_count, i, usr1_received, toParent, childVars>>
-----------------------------------------------------------------------------
(***************************************************************************)
(* The child: setup_signals, then pause for ever.                          *)
(***************************************************************************)
Order == [USR1 |-> 1, RT |-> 2, USR2 |-> 3]

InstallHandler ==
  /\ child = "alive" /\ replying = "none"
  /\ handlers < 4
  /\ handlers' = handlers + 1
  /\ UNCHANGED <<parentVars, child, received_count, replying, toChild>>

(* A signal whose handler is not installed yet kills the child.            *)
DieOfSignal(sig) ==
  /\ child = "alive"
  /\ toChild[sig] > 0
  /\ handlers < Order[sig]
  /\ child' = "killed"
  /\ toChild' = Take(toChild, sig)
  /\ UNCHANGED <<parentVars, handlers, received_count, replying>>

(* signal_handler, up to the answer.                                       *)
HandleSignal(sig) ==
  /\ child = "alive" /\ replying = "none"
  /\ toChild[sig] > 0
  /\ handlers >= Order[sig]
  /\ toChild' = Take(toChild, sig)
  /\ received_count' = received_count + 1
  /\ replying' = sig
  /\ UNCHANGED <<parentVars, child, handlers>>

AnswerTo(sig) == sig

(* The answer goes to the parent, or to nobody here once the parent ended. *)
Reply ==
  /\ child = "alive" /\ replying # "none"
  /\ toParent' = IF pc \in {"exited", "killed"} THEN toParent
                 ELSE Raise(toParent, AnswerTo(replying))
  /\ replying' = "none"
  /\ UNCHANGED <<mode, signal_count, pc, i, sent, received, usr1_received,
                 kills, intr, child, handlers, received_count, toChild>>

ExitChild ==
  /\ child' = "exited"
  /\ replying' = "none"

(* SIGUSR2 also interrupts the handler of the other signals: that signal   *)
(* is counted and not answered.                                            *)
HandleLast ==
  /\ child = "alive"
  /\ toChild.USR2 > 0
  /\ handlers >= Order.USR2
  /\ toChild' = Take(toChild, "USR2")
  /\ received_count' = received_count + 1
  /\ ExitChild
  /\ UNCHANGED <<parentVars, handlers>>

ParentStep == \/ ReadArguments \/ Fork \/ Install \/ Send \/ Count
              \/ TestAnswer \/ Suspend \/ SendLast \/ PrintCount
              \/ HandleInterrupt \/ \E sig \in {"USR1", "RT"} : HandleAnswer(sig)
ChildStep == \/ InstallHandler \/ Reply \/ HandleLast
             \/ \E sig \in {"USR1", "RT"} : HandleSignal(sig)
             \/ \E sig \in DOMAIN Order : DieOfSignal(sig)

Next == ParentStep \/ ChildStep \/ Interrupt

(* Both processes run and their pending signals are delivered.             *)
Fairness == WF_vars(ParentStep) /\ WF_vars(ChildStep)

Spec == Init /\ [][Next]_vars /\ Fairness
-----------------------------------------------------------------------------
(***************************************************************************)
(* Properties.                                                             *)
(***************************************************************************)

(* In mode 2 every signal is counted and answered: without a SIGINT, a     *)
(* child that ends by SIGUSR2 has counted all of them, and the parent has  *)
(* counted every answer.                                                   *)
ModeTwoIsExact ==
  mode = 2 /\ intr = "no" /\ child = "exited" =>
    received_count = signal_count + 1 /\ received = signal_count

(* In mode 3 the queue loses nothing: until the child is ended, each       *)
(* signal sent is counted or queued at the child, and each one counted is  *)
(* being answered, queued at the parent or counted there.                  *)
RealTimeSignalsQueued ==
  mode = 3 /\ child = "alive" /\ Running =>
    /\ kills = received_count + toChild.RT + toChild.USR2
    /\ received_count = received + toParent.RT + (IF replying = "RT" THEN 1 ELSE 0)

(* Signals merge and are lost but none appears: no counter runs ahead of   *)
(* the one before it.  (A SIGINT adds one to received, and may come        *)
(* between a kill and its ++sent, which the printed total then misses.)    *)
CountersOrdered ==
  LET extra == IF intr = "taken" /\ pc = "exited" THEN 1 ELSE 0
  IN /\ received <= received_count + extra
     /\ received_count <= kills
     /\ sent <= kills /\ kills <= sent + 1
     /\ intr # "taken" /\ pc = "exited" => sent = kills

(* The counters of parent and child agree as far as the mode promises:     *)
(* exactly in mode 2, up to what is queued in mode 3, and in mode 1 the    *)
(* later one is never ahead (main.c:65-102, child.c:8-23).                 *)
CountsAgree == ModeTwoIsExact /\ RealTimeSignalsQueued /\ CountersOrdered

(* In mode 2 the parent does not miss an answer: it ends, unless its child *)
(* was killed by a signal that came before its handlers or never existed.  *)
ModeTwoEnds ==
  (mode = 2 /\ pc = "loop") ~> (pc = "exited" \/ child \in {"none", "killed"})

(* When the parent has ended by itself or by SIGINT, its child ends.       *)
ChildEndsToo == (pc = "exited") ~> (child # "alive")

(* Neither process waits for a signal that has already come or is lost     *)
(* (main.c:81-94, child.c:18-22).                                          *)
SignallingEnds == ModeTwoEnds /\ ChildEndsToo
-----------------------------------------------------------------------------
(***************************************************************************)
(* The inductive invariant behind CountsAgree.                             *)
(***************************************************************************)
Bit(b) == IF b THEN 1 ELSE 0

(* Type correctness; the child only answers what it has a handler for.     *)
TypeOK ==
  /\ mode \in 0 .. 3
  /\ {signal_count, i, sent, received, kills, received_count} \subseteq Nat
  /\ pc \in {"args", "fork", "install", "loop", "count", "await", "tested",
             "suspended", "lastcount", "exited", "killed"}
  /\ usr1_received \in BOOLEAN
  /\ intr \in {"no", "pending", "taken"}
  /\ toParent \in [USR1 : {0, 1}, RT : Nat, USR2 : {0}]
  /\ toChild \in [USR1 : {0, 1}, RT : Nat, USR2 : {0, 1}]
  /\ child \in {"none", "alive", "exited", "killed"}
  /\ handlers \in 0 .. 4
  /\ replying \in {"none", "USR1", "RT"}

(* Before the loop nothing is sent, and SIGUSR2 only after it.             *)
NothingBefore ==
  /\ pc \in {"args", "fork", "install"} =>
       /\ i = 0 /\ kills = 0 /\ sent = 0 /\ received = 0
       /\ received_count = 0 /\ ~usr1_received
       /\ toParent = NothingPending /\ toChild = NothingPending
       /\ replying = "none" /\ child \in {"none", "alive"}
       /\ pc # "install" => child = "none"
  /\ pc = "args" => mode = 0
  /\ toChild.USR2 > 0 \/ child = "exited" => pc \in {"lastcount", "exited"}
  /\ child = "exited" => toChild.USR2 = 0 /\ replying = "none"

(* No signal appears from nowhere: of those sent at most as many are       *)
(* counted or pending at the child, of those counted at most as many are   *)
(* being answered, pending at the parent or counted there.                 *)
NoneAppears ==
  LET extra == Bit(intr = "taken" /\ pc = "exited")
  IN /\ received_count + toChild.USR1 + toChild.RT + toChild.USR2 <= kills
     /\ received + toParent.USR1 + toParent.RT + Bit(replying # "none")
          <= received_count + extra
     /\ pc \notin {"exited", "killed"} =>
          kills = sent + Bit(pc \in {"count", "lastcount"})
     /\ pc = "killed" => kills = sent
     /\ sent <= kills /\ kills <= sent + 1
     /\ intr # "taken" /\ pc = "exited" => sent = kills

Ours == child \in {"alive", "exited"}

(* Mode 2 without a SIGINT: one signal is under way at a time, from its    *)
(* kill to the test that finds its answer.                                 *)
OneUnderWay ==
  mode = 2 /\ intr = "no" /\ Ours =>
    /\ toChild.RT = 0 /\ toParent.RT = 0 /\ replying # "RT"
    /\ usr1_received => pc = "await"
    /\ received = i + Bit(usr1_received)
    /\ IF pc \in {"count", "await", "tested", "suspended"}
       THEN /\ toChild.USR1 + Bit(replying = "USR1") + toParent.USR1
                 + Bit(usr1_received) = 1
            /\ received_count = i + 1 - toChild.USR1
       ELSE /\ toChild.USR1 = 0 /\ toParent.USR1 = 0 /\ replying = "none"
            /\ received_count + toChild.USR2
                 = i + Bit(pc \in {"lastcount", "exited"})
    /\ pc \in {"lastcount", "exited"} =>
         i = signal_count /\ (child = "alive" => toChild.USR2 = 1)

(* Mode 3: only real-time signals, and none is lost before the end.        *)
NoneLost ==
  mode = 3 /\ child = "alive" /\ pc \notin {"exited", "killed"} =>
    /\ toChild.USR1 = 0 /\ toParent.USR1 = 0 /\ replying # "USR1"
    /\ kills = received_count + toChild.RT + toChild.USR2
    /\ received_count = received + toParent.RT + Bit(replying = "RT")

IInv == TypeOK /\ NothingBefore /\ NoneAppears /\ OneUnderWay /\ NoneLost
=============================================================================
