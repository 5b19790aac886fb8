---------------------------- MODULE Permissions -----------------------------
(***************************************************************************)
(* The permission protocol of cw04/zad2: N children ask the parent with    *)
(* SIGUSR1, and once request_threshold requests have been counted the      *)
(* parent answers each request with a SIGUSR1 of its own (main.c,          *)
(* children.c).                                                            *)
(*                                                                         *)
(* SIGUSR1 is not queued: while one is pending at the parent another is    *)
(* dropped, and si_pid is the first sender's.  A handler runs at any step  *)
(* of the parent; the handlers only exclude themselves, and what arrives   *)
(* while one runs is as if it came right after.  SIGINT comes to the       *)
(* parent alone (kill -INT).  A failed fork is retried and leaves no       *)
(* trace.                                                                  *)
(***************************************************************************)
EXTENDS Naturals, FiniteSets

CONSTANT N  \* children_count

ASSUME CountAssumption == N \in Nat \ {0}

VARIABLES
  pc,                 \* where the parent is
  i,                  \* its loop index; children[k] is set for k < i
  request_threshold,
  request_count,
  children_states,
  child,              \* child[c]: what process c is doing
  usr1,               \* the sender of the parent's pending SIGUSR1, or 0
  rt,                 \* children whose real-time signal is pending
  perm,               \* children with a pending SIGUSR1
  merged,             \* children whose SIGUSR1 was dropped (history)
  early               \* requests handled before the pid was stored (history)

vars == <<pc, i, request_threshold, request_count, children_states, child,
          usr1, rt, perm, merged, early>>
history == <<merged, early>>

Child == 1 .. N
Stored == {c \in Child : c < i}
Parent == {"args", "fork", "store", "wait", "reaped", "exited", "killed",
           "rejected"}
Running == pc \in {"fork", "store", "wait", "reaped"}
Alive == {c \in Child : child[c] \in {"forked", "sleeping", "waiting"}}
Sent == {c \in Child : child[c] \in {"waiting", "zombie", "reaped", "gone"}}
Lost == merged \cup early

Init ==
  /\ pc = "args"
  /\ i = 1
  /\ request_threshold = 0
  /\ request_count = 0
  /\ children_states = [c \in Child |-> "RUNNING"]
  /\ child = [c \in Child |-> "none"]
  /\ usr1 = 0
  /\ rt = {} /\ perm = {} /\ merged = {} /\ early = {}
-----------------------------------------------------------------------------
(***************************************************************************)
(* The parent.                                                             *)
(***************************************************************************)

(* The threshold is read; one that is too high ends the program.           *)
ReadArguments ==
  /\ pc = "args"
  /\ \E t \in 0 .. N + 1 :
       /\ request_threshold' = t
       /\ pc' = IF t > N THEN "rejected" ELSE "fork"
  /\ UNCHANGED <<i, request_count, children_states, child, usr1, rt, perm,
                 history>>

Fork ==
  /\ pc = "fork"
  /\ child' = [child EXCEPT ![i] = "forked"]
  /\ pc' = "store"
  /\ UNCHANGED <<i, request_threshold, request_count, children_states, usr1,
                 rt, perm, history>>

(* children[i] = pf, and the next turn of the loop.                        *)
StorePid ==
  /\ pc = "store"
  /\ i' = i + 1
  /\ pc' = IF i = N THEN "wait" ELSE "fork"
  /\ UNCHANGED <<request_threshold, request_count, children_states, child,
                 usr1, rt, perm, history>>

(* wait returns a terminated child; run stores that and exits when all     *)
(* have terminated.  A handler may run between the two.                    *)
Wait(c) ==
  /\ pc = "wait"
  /\ child[c] = "zombie"
  /\ child' = [child EXCEPT ![c] = "reaped"]
  /\ pc' = "reaped"
  /\ UNCHANGED <<i, request_threshold, request_count, children_states, usr1,
                 rt, perm, history>>

all_children_terminated ==
  \A c \in Child : children_states'[c] = "TERMINATED"

MarkTerminated ==
  /\ pc = "reaped"
  /\ \E c \in Child :
       /\ child[c] = "reaped"
       /\ child' = [child EXCEPT ![c] = "gone"]
       /\ children_states' = [children_states EXCEPT ![c] = "TERMINATED"]
  /\ pc' = IF all_children_terminated THEN "exited" ELSE "wait"
  /\ UNCHANGED <<i, request_threshold, request_count, usr1, rt, perm, history>>
-----------------------------------------------------------------------------
(***************************************************************************)
(* The signal handlers of the parent.                                      *)
(***************************************************************************)

ThresholdReached == request_count + 1 >= request_threshold

(* Mutant: the loop does not look at the state.                            *)
GrantAll(states) == {c \in Child : states[c] # "TERMINATED"}

Grantable(states) == {c \in Child : states[c] = "REQUESTED"}

(* Mutant: the count starts again after permissions were given.            *)
CountFromZero(given) == request_count' = IF given = {} THEN request_count + 1
                                         ELSE 0

CountRequest(given) == request_count' = request_count + 1

(* A handler makes wait fail with EINTR, and run waits again.              *)
Interrupted == pc' = pc

(* usr1_handler: counts the request, marks its sender if its pid is        *)
(* stored, and from the threshold on gives every waiting permission.  What *)
(* is in an unset children[k] is taken to be the pid of no child.          *)
HandleRequest ==
  LET marked == [c \in Child |-> IF c = usr1 /\ c \in Stored THEN "REQUESTED"
                                 ELSE children_states[c]]
      given  == IF ThresholdReached THEN Grantable(marked) ELSE {}
  IN /\ Running
     /\ usr1 # 0
     /\ CountRequest(given)
     /\ children_states' = [c \in Child |-> IF c \in given THEN "RUNNING"
                                            ELSE marked[c]]
     /\ perm' = perm \cup (given \cap Alive)
     /\ early' = early \cup ({usr1} \ Stored)
     /\ usr1' = 0
     /\ Interrupted
     /\ UNCHANGED <<i, request_threshold, child, rt, merged>>

(* rt_handler only prints.                                                 *)
HandleRealTime(c) ==
  /\ Running
  /\ c \in rt
  /\ rt' = rt \ {c}
  /\ Interrupted
  /\ UNCHANGED <<i, request_threshold, request_count, children_states, child,
                 usr1, perm, history>>

NotTerminated == {c \in Child : children_states[c] # "TERMINATED"}

(* int_handler kills the children that have not terminated and exits.  For *)
(* an unset children[k] it kills what the stack holds there: a process     *)
(* that is none of these or, with 0, the whole group.  A pid that wait has *)
(* returned and run not yet marked is signalled too; it is nobody's here.  *)
HandleInterrupt ==
  /\ Running \/ pc = "args"
  /\ \E group \in BOOLEAN :
       LET hit == Alive \cap (IF group THEN Child ELSE NotTerminated \cap Stored)
       IN /\ group => \E c \in NotTerminated : c \notin Stored
          /\ pc = "args" => ~group
          /\ child' = [c \in Child |-> IF c \in hit THEN "dead" ELSE child[c]]
          /\ perm' = perm \ hit
  /\ children_states' = [c \in Child |-> "TERMINATED"]
  /\ pc' = "killed"
  /\ UNCHANGED <<i, request_threshold, request_count, usr1, rt, history>>
-----------------------------------------------------------------------------
(***************************************************************************)
(* A child.  An orphan signals init, which is not allowed to it.           *)
(***************************************************************************)

(* children_main up to sleep: SIGUSR1 and SIGINT get their handlers.       *)
InstallHandlers(c) ==
  /\ child[c] = "forked"
  /\ child' = [child EXCEPT ![c] = "sleeping"]
  /\ UNCHANGED <<pc, i, request_threshold, request_count, children_states,
                 usr1, rt, perm, history>>

Request(c) ==
  /\ child[c] = "sleeping"
  /\ child' = [child EXCEPT ![c] = "waiting"]
  /\ usr1' = IF Running /\ usr1 = 0 THEN c ELSE usr1
  /\ merged' = IF Running /\ usr1 # 0 THEN merged \cup {c} ELSE merged
  /\ UNCHANGED <<pc, i, request_threshold, request_count, children_states, rt,
                 perm, early>>

(* usr1_handler of the child: a real-time signal to the parent, and exit.  *)
(* That none comes while the child still has the parent's handler is a     *)
(* property below.                                                         *)
TakePermission(c) ==
  /\ c \in perm
  /\ child[c] # "forked"
  /\ perm' = perm \ {c}
  /\ child' = [child EXCEPT ![c] = "zombie"]
  /\ rt' = IF Running THEN rt \cup {c} ELSE rt
  /\ UNCHANGED <<pc, i, request_threshold, request_count, children_states,
                 usr1, history>>

ParentStep == ReadArguments \/ Fork \/ StorePid \/ MarkTerminated \/ HandleRequest
ChildStep(c) == InstallHandlers(c) \/ Request(c) \/ TakePermission(c)

Next == \/ ParentStep \/ HandleInterrupt
        \/ \E c \in Child : Wait(c) \/ HandleRealTime(c) \/ ChildStep(c)

(* The kernel runs every process, delivers pending signals and lets wait   *)
(* return a zombie; nobody has to send a SIGINT.                           *)
Fairness == /\ WF_vars(ParentStep)
            /\ \A c \in Child : /\ WF_vars(ChildStep(c))
                                /\ WF_vars(Wait(c)) /\ WF_vars(HandleRealTime(c))

Spec == Init /\ [][Next]_vars /\ Fairness
-----------------------------------------------------------------------------
(***************************************************************************)
(* Properties.                                                             *)
(***************************************************************************)

(* The variables keep their types.                                         *)
TypeOK ==
  /\ pc \in Parent
  /\ i \in 1 .. N + 1
  /\ request_threshold \in 0 .. N + 1
  /\ request_count \in 0 .. N
  /\ children_states \in [Child -> {"RUNNING", "REQUESTED", "TERMINATED"}]
  /\ child \in [Child -> {"none", "forked", "sleeping", "waiting", "zombie",
                          "reaped", "gone", "dead"}]
  /\ usr1 \in 0 .. N
  /\ {rt, perm, merged, early} \subseteq SUBSET Child

(* A permission only goes to a child that has its handler, has asked and   *)
(* has not been given one: no child is answered twice, or signalled while  *)
(* it still runs the parent's handler or is past its exit.                 *)
PermissionsAreAwaited ==
  \A c \in perm : child[c] = "waiting" /\ children_states[c] # "REQUESTED"

(* Once the threshold is reached no request is kept waiting: the handler   *)
(* leaves no child REQUESTED, whatever order requests come in.             *)
NoRequestHeldBack ==
  request_count >= request_threshold =>
    \A c \in Child : children_states[c] # "REQUESTED"

(* Where every request is, while the parent runs: each one sent has been   *)
(* counted, is pending or was merged with a pending one, and a child that  *)
(* waits in vain has lost its request in one of the two ways in which a    *)
(* request is lost: merged, or handled before its sender's pid was stored. *)
RequestsAccounted ==
  Running =>
    /\ request_count + (IF usr1 = 0 THEN 0 ELSE 1) = Cardinality(Sent \ merged)
    /\ \A c \in Child : child[c] = "waiting" =>
         \/ c \in perm \cup Lost \/ usr1 = c
         \/ children_states[c] = "REQUESTED"

(* The parent leaves nobody behind: it exits only after every child was    *)
(* waited for, and after a SIGINT no child whose pid was stored survives.  *)
NoChildLeft ==
  /\ pc = "exited" => \A c \in Child : child[c] = "gone"
  /\ pc = "killed" => Alive \cap Stored = {}

(* What the parent's records say of the children is true however signals   *)
(* merge and interrupt it: permissions are awaited, requests neither held  *)
(* back nor lost in any other way, and no child is left (main.c:44-131).   *)
PermissionsKept ==
  /\ TypeOK
  /\ PermissionsAreAwaited
  /\ NoRequestHeldBack
  /\ RequestsAccounted
  /\ NoChildLeft

(* Unless a request is lost, the program ends: every child gets its        *)
(* permission and is waited for.                                           *)
EndsUnlessLost == (pc = "fork") ~> (pc \in {"exited", "killed"} \/ Lost # {})
=============================================================================
