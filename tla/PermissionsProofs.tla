-------------------------- MODULE PermissionsProofs --------------------------
(***************************************************************************)
(* Proofs about Permissions for every number of children: IInv is          *)
(* inductive, so the parent's records of the children are true however     *)
(* their signals merge and whenever its handlers interrupt it.             *)
(***************************************************************************)
EXTENDS Permissions, FiniteSetTheorems, TLAPS

(***************************************************************************)
(* The inductive invariant behind PermissionsKept.                         *)
(***************************************************************************)

(* Children from i on, or after it once fork has returned, do not exist,   *)
(* and have sent nothing.                                                  *)
NotYetForked ==
  /\ pc = "args" => i = 1 /\ request_count = 0 /\ usr1 = 0 /\ merged = {}
  /\ pc \in {"fork", "store"} => i \in Child
  /\ pc \in {"args", "fork"} => \A c \in Child : c >= i => child[c] = "none"
  /\ pc = "store" => \A c \in Child : c > i => child[c] = "none"

(* The parent's records: a request that is noted is awaited, and until it  *)
(* is killed TERMINATED are exactly the children it has waited for.        *)
RecordsTrue ==
  /\ \A c \in Child : children_states[c] = "REQUESTED" => child[c] = "waiting"
  /\ pc # "killed" =>
       \A c \in Child : children_states[c] = "TERMINATED" <=> child[c] = "gone"

(* A pending request is of a child that waits and has no permission.       *)
PendingAwaited ==
  Running =>
    /\ usr1 # 0 => child[usr1] = "waiting" /\ usr1 \notin perm \cup merged
    /\ merged \subseteq Sent

IInv == PermissionsKept /\ NotYetForked /\ RecordsTrue /\ PendingAwaited
-----------------------------------------------------------------------------
\* The requests counted and pending, against those sent and not merged.
Counted(count, pending, requests) ==
  count + (IF pending = 0 THEN 0 ELSE 1) = Cardinality(requests)

Open == Sent \ merged

\* The two halves of RequestsAccounted.
WaitingExplained ==
  \A c \in Child : child[c] = "waiting" =>
    \/ c \in perm \cup Lost \/ usr1 = c
    \/ children_states[c] = "REQUESTED"

LEMMA AccountsSplit ==
  /\ RequestsAccounted <=>
       (Running => Counted(request_count, usr1, Open) /\ WaitingExplained)
  /\ RequestsAccounted' <=>
       (Running' => Counted(request_count', usr1', Open') /\ WaitingExplained')
  BY DEF RequestsAccounted, Counted, Open, WaitingExplained

\* There are N children, so no set of them has more than N members.
LEMMA ChildCount ==
  ASSUME NEW S \in SUBSET Child
  PROVE  IsFiniteSet(S) /\ Cardinality(S) \in 0 .. N
<1>1. 1 \in Int /\ N \in Int /\ N \in Nat
  BY CountAssumption
<1>2. IsFiniteSet(Child) /\ Cardinality(Child) = N
  BY <1>1, FS_Interval, CountAssumption DEF Child
<1>3. IsFiniteSet(S) /\ Cardinality(S) <= Cardinality(Child)
  BY <1>2, FS_Subset
<1>4. Cardinality(S) \in Nat
  BY <1>3, FS_CardinalityType
<1> QED
  BY <1>1, <1>2, <1>3, <1>4

\* Before the arguments are read there are no children.
LEMMA InitInv == Init => IInv
<1> SUFFICES ASSUME Init PROVE IInv
  OBVIOUS
<1> USE CountAssumption DEF Init
<1>1. TypeOK
  BY DEF TypeOK, Parent, Child
<1>2. PermissionsAreAwaited /\ NoRequestHeldBack /\ RequestsAccounted
  BY DEF PermissionsAreAwaited, NoRequestHeldBack, RequestsAccounted, Running
<1>3. NoChildLeft /\ NotYetForked /\ RecordsTrue /\ PendingAwaited
  BY DEF NoChildLeft, NotYetForked, RecordsTrue, PendingAwaited, Running, Child
<1> QED
  BY <1>1, <1>2, <1>3 DEF IInv, PermissionsKept

\* Reading the threshold.
LEMMA ReadArgumentsInv ==
  ASSUME IInv, ReadArguments PROVE IInv'
<1> USE CountAssumption DEF IInv, PermissionsKept, TypeOK, Child, history, ReadArguments
<1>1. TypeOK'
  BY DEF Parent, NotYetForked
<1>2. PermissionsAreAwaited'
  BY DEF PermissionsAreAwaited, NotYetForked, RecordsTrue
<1>3. NoRequestHeldBack'
  BY DEF NoRequestHeldBack, RecordsTrue, NotYetForked
<1>4. RequestsAccounted'
  <2>1. Open' = Open
    BY DEF Open, Sent
  <2>2. usr1 = 0 /\ request_count = 0 /\ Open = {}
    BY DEF NotYetForked, Open, Sent
  <2>3. Running' => WaitingExplained'
    BY DEF WaitingExplained, NotYetForked
  <2> QED
    BY ONLY <2>1, <2>2, <2>3, AccountsSplit, FS_EmptySet, UNCHANGED <<request_count, usr1>>
       DEF Counted
<1>5. NoChildLeft'
  BY DEF NoChildLeft, RecordsTrue, Alive, Stored, NotYetForked, Running
<1>6. NotYetForked'
  BY DEF NotYetForked, Running
<1>7. RecordsTrue'
  BY DEF RecordsTrue, NotYetForked, PermissionsAreAwaited, Running
<1>8. PendingAwaited'
  BY DEF PendingAwaited, Running, Sent, NotYetForked, PermissionsAreAwaited
<1> QED
  BY <1>1, <1>2, <1>3, <1>4, <1>5, <1>6, <1>7, <1>8

\* fork.
LEMMA ForkInv ==
  ASSUME IInv, Fork PROVE IInv'
<1> USE CountAssumption DEF IInv, PermissionsKept, TypeOK, Child, history, Fork
<1>1. TypeOK'
  BY DEF Parent, NotYetForked
<1>2. PermissionsAreAwaited'
  BY DEF PermissionsAreAwaited, NotYetForked, RecordsTrue
<1>3. NoRequestHeldBack'
  BY DEF NoRequestHeldBack, RecordsTrue, NotYetForked
<1>4. RequestsAccounted'
  <2>1. Open' = Open
    BY DEF Open, Sent, NotYetForked
  <2>2. Running' => Running
    BY DEF Running
  <2>3. Running' => WaitingExplained'
    BY <2>2 DEF RequestsAccounted, WaitingExplained, Running, Lost
  <2> QED
    BY ONLY <2>1, <2>2, <2>3, AccountsSplit, RequestsAccounted, UNCHANGED <<request_count, usr1>> 
<1>5. NoChildLeft'
  BY DEF NoChildLeft, RecordsTrue, Alive, Stored, NotYetForked, Running
<1>6. NotYetForked'
  BY DEF NotYetForked, Running
<1>7. RecordsTrue'
  BY DEF RecordsTrue, NotYetForked, PermissionsAreAwaited, Running
<1>8. PendingAwaited'
  BY DEF PendingAwaited, Running, Sent, NotYetForked, PermissionsAreAwaited
<1> QED
  BY <1>1, <1>2, <1>3, <1>4, <1>5, <1>6, <1>7, <1>8

\* Storing the pid of the child.
LEMMA StorePidInv ==
  ASSUME IInv, StorePid PROVE IInv'
<1> USE CountAssumption DEF IInv, PermissionsKept, TypeOK, Child, history, StorePid
<1>1. TypeOK'
  BY DEF Parent, NotYetForked
<1>2. PermissionsAreAwaited'
  BY DEF PermissionsAreAwaited, NotYetForked, RecordsTrue
<1>3. NoRequestHeldBack'
  BY DEF NoRequestHeldBack, RecordsTrue, NotYetForked
<1>4. RequestsAccounted'
  <2>1. Open' = Open
    BY DEF Open, Sent
  <2>2. Running' => Running
    BY DEF Running
  <2>3. Running' => WaitingExplained'
    BY <2>2 DEF RequestsAccounted, WaitingExplained, Running, Lost
  <2> QED
    BY ONLY <2>1, <2>2, <2>3, AccountsSplit, RequestsAccounted, UNCHANGED <<request_count, usr1>> 
<1>5. NoChildLeft'
  BY DEF NoChildLeft, RecordsTrue, Alive, Stored, NotYetForked, Running
<1>6. NotYetForked'
  BY DEF NotYetForked, Running
<1>7. RecordsTrue'
  BY DEF RecordsTrue, NotYetForked, PermissionsAreAwaited, Running
<1>8. PendingAwaited'
  BY DEF PendingAwaited, Running, Sent, NotYetForked, PermissionsAreAwaited
<1> QED
  BY <1>1, <1>2, <1>3, <1>4, <1>5, <1>6, <1>7, <1>8

\* Marking the child that wait returned.
LEMMA MarkTerminatedInv ==
  ASSUME IInv, MarkTerminated PROVE IInv'
<1> USE CountAssumption DEF IInv, PermissionsKept, TypeOK, Child, history, MarkTerminated, all_children_terminated
<1>1. TypeOK'
  BY DEF Parent, NotYetForked
<1>2. PermissionsAreAwaited'
  BY DEF PermissionsAreAwaited, NotYetForked, RecordsTrue
<1>3. NoRequestHeldBack'
  BY DEF NoRequestHeldBack, RecordsTrue, NotYetForked
<1>4. RequestsAccounted'
  <2>1. Open' = Open
    BY DEF Open, Sent
  <2>2. Running' => Running
    BY DEF Running
  <2>3. Running' => WaitingExplained'
    BY <2>2 DEF RequestsAccounted, WaitingExplained, Running, Lost
  <2> QED
    BY ONLY <2>1, <2>2, <2>3, AccountsSplit, RequestsAccounted, UNCHANGED <<request_count, usr1>> 
<1>5. NoChildLeft'
  BY DEF NoChildLeft, RecordsTrue, Alive, Stored, NotYetForked, Running
<1>6. NotYetForked'
  BY DEF NotYetForked, Running
<1>7. RecordsTrue'
  BY DEF RecordsTrue, NotYetForked, PermissionsAreAwaited, Running
<1>8. PendingAwaited'
  BY DEF PendingAwaited, Running, Sent, NotYetForked, PermissionsAreAwaited
<1> QED
  BY <1>1, <1>2, <1>3, <1>4, <1>5, <1>6, <1>7, <1>8

\* int_handler kills the children whose pids are stored.
LEMMA HandleInterruptInv ==
  ASSUME IInv, HandleInterrupt PROVE IInv'
<1> USE CountAssumption DEF IInv, PermissionsKept, TypeOK, Child, history, HandleInterrupt, NotTerminated, Stored
<1>1. TypeOK'
  BY DEF Parent, NotYetForked, Alive
<1>2. PermissionsAreAwaited'
  BY DEF PermissionsAreAwaited, NotYetForked, RecordsTrue, Alive
<1>3. NoRequestHeldBack'
  BY DEF NoRequestHeldBack, RecordsTrue, NotYetForked
<1>4. RequestsAccounted'
  BY DEF RequestsAccounted, Running
<1>5. NoChildLeft'
  BY DEF NoChildLeft, RecordsTrue, Alive, Stored, NotYetForked, Running
<1>6. NotYetForked'
  BY DEF NotYetForked, Running
<1>7. RecordsTrue'
  BY DEF RecordsTrue, NotYetForked, PermissionsAreAwaited, Running
<1>8. PendingAwaited'
  BY DEF PendingAwaited, Running, Sent, NotYetForked, PermissionsAreAwaited
<1> QED
  BY <1>1, <1>2, <1>3, <1>4, <1>5, <1>6, <1>7, <1>8

\* wait returns a zombie.
LEMMA WaitInv ==
  ASSUME NEW c \in Child, IInv, Wait(c) PROVE IInv'
<1> USE CountAssumption DEF IInv, PermissionsKept, TypeOK, Child, history, Wait
<1>1. TypeOK'
  BY DEF Parent, NotYetForked
<1>2. PermissionsAreAwaited'
  BY DEF PermissionsAreAwaited, NotYetForked, RecordsTrue
<1>3. NoRequestHeldBack'
  BY DEF NoRequestHeldBack, RecordsTrue, NotYetForked
<1>4. RequestsAccounted'
  <2>1. Open' = Open
    BY DEF Open, Sent
  <2>2. Running' => Running
    BY DEF Running
  <2>3. Running' => WaitingExplained'
    BY <2>2 DEF RequestsAccounted, WaitingExplained, Running, Lost
  <2> QED
    BY ONLY <2>1, <2>2, <2>3, AccountsSplit, RequestsAccounted, UNCHANGED <<request_count, usr1>> 
<1>5. NoChildLeft'
  BY DEF NoChildLeft, RecordsTrue, Alive, Stored, NotYetForked, Running
<1>6. NotYetForked'
  BY DEF NotYetForked, Running
<1>7. RecordsTrue'
  BY DEF RecordsTrue, NotYetForked, PermissionsAreAwaited, Running
<1>8. PendingAwaited'
  BY DEF PendingAwaited, Running, Sent, NotYetForked, PermissionsAreAwaited
<1> QED
  BY <1>1, <1>2, <1>3, <1>4, <1>5, <1>6, <1>7, <1>8

\* rt_handler.
LEMMA HandleRealTimeInv ==
  ASSUME NEW c \in Child, IInv, HandleRealTime(c) PROVE IInv'
<1> USE CountAssumption DEF IInv, PermissionsKept, TypeOK, Child, history, HandleRealTime, Interrupted
<1>1. TypeOK'
  BY DEF Parent, NotYetForked
<1>2. PermissionsAreAwaited'
  BY DEF PermissionsAreAwaited, NotYetForked, RecordsTrue
<1>3. NoRequestHeldBack'
  BY DEF NoRequestHeldBack, RecordsTrue, NotYetForked
<1>4. RequestsAccounted'
  <2>1. Open' = Open
    BY DEF Open, Sent
  <2>2. Running' => Running
    BY DEF Running
  <2>3. Running' => WaitingExplained'
    BY <2>2 DEF RequestsAccounted, WaitingExplained, Running, Lost
  <2> QED
    BY ONLY <2>1, <2>2, <2>3, AccountsSplit, RequestsAccounted, UNCHANGED <<request_count, usr1>> 
<1>5. NoChildLeft'
  BY DEF NoChildLeft, RecordsTrue, Alive, Stored, NotYetForked, Running
<1>6. NotYetForked'
  BY DEF NotYetForked, Running
<1>7. RecordsTrue'
  BY DEF RecordsTrue, NotYetForked, PermissionsAreAwaited, Running
<1>8. PendingAwaited'
  BY DEF PendingAwaited, Running, Sent, NotYetForked, PermissionsAreAwaited
<1> QED
  BY <1>1, <1>2, <1>3, <1>4, <1>5, <1>6, <1>7, <1>8

\* A child installs its handlers.
LEMMA InstallHandlersInv ==
  ASSUME NEW c \in Child, IInv, InstallHandlers(c) PROVE IInv'
<1> USE CountAssumption DEF IInv, PermissionsKept, TypeOK, Child, history, InstallHandlers
<1>1. TypeOK'
  BY DEF Parent, NotYetForked
<1>2. PermissionsAreAwaited'
  BY DEF PermissionsAreAwaited, NotYetForked, RecordsTrue
<1>3. NoRequestHeldBack'
  BY DEF NoRequestHeldBack, RecordsTrue, NotYetForked
<1>4. RequestsAccounted'
  <2>1. Open' = Open
    BY DEF Open, Sent
  <2>2. Running' => Running
    BY DEF Running
  <2>3. Running' => WaitingExplained'
    BY <2>2 DEF RequestsAccounted, WaitingExplained, Running, Lost
  <2> QED
    BY ONLY <2>1, <2>2, <2>3, AccountsSplit, RequestsAccounted, UNCHANGED <<request_count, usr1>> 
<1>5. NoChildLeft'
  BY DEF NoChildLeft, RecordsTrue, Alive, Stored, NotYetForked, Running
<1>6. NotYetForked'
  BY DEF NotYetForked, Running
<1>7. RecordsTrue'
  BY DEF RecordsTrue, NotYetForked, PermissionsAreAwaited, Running
<1>8. PendingAwaited'
  BY DEF PendingAwaited, Running, Sent, NotYetForked, PermissionsAreAwaited
<1> QED
  BY <1>1, <1>2, <1>3, <1>4, <1>5, <1>6, <1>7, <1>8

\* A child takes its permission and exits.
LEMMA TakePermissionInv ==
  ASSUME NEW c \in Child, IInv, TakePermission(c) PROVE IInv'
<1> USE CountAssumption DEF IInv, PermissionsKept, TypeOK, Child, history, TakePermission
<1>1. TypeOK'
  BY DEF Parent, NotYetForked
<1>2. PermissionsAreAwaited'
  BY DEF PermissionsAreAwaited, NotYetForked, RecordsTrue
<1>3. NoRequestHeldBack'
  BY DEF NoRequestHeldBack, RecordsTrue, NotYetForked
<1>4. RequestsAccounted'
  <2>1. Open' = Open
    BY DEF Open, Sent, PermissionsAreAwaited
  <2>2. Running' => Running
    BY DEF Running
  <2>3. Running' => WaitingExplained'
    BY <2>2 DEF RequestsAccounted, WaitingExplained, Running, Lost
  <2> QED
    BY ONLY <2>1, <2>2, <2>3, AccountsSplit, RequestsAccounted, UNCHANGED <<request_count, usr1>> 
<1>5. NoChildLeft'
  BY DEF NoChildLeft, RecordsTrue, Alive, Stored, NotYetForked, Running, PermissionsAreAwaited
<1>6. NotYetForked'
  BY DEF NotYetForked, Running, PermissionsAreAwaited
<1>7. RecordsTrue'
  BY DEF RecordsTrue, NotYetForked, PermissionsAreAwaited, Running
<1>8. PendingAwaited'
  BY DEF PendingAwaited, Running, Sent, NotYetForked, PermissionsAreAwaited
<1> QED
  BY <1>1, <1>2, <1>3, <1>4, <1>5, <1>6, <1>7, <1>8

\* A child asks: its signal is pending at the parent, or merged with one that
\* is, so that it stays accounted for.
LEMMA RequestInv ==
  ASSUME NEW c \in Child, IInv, Request(c) PROVE IInv'
<1> USE CountAssumption DEF IInv, PermissionsKept, TypeOK, Child, history, Request
<1>1. TypeOK'
  BY DEF Parent
<1>2. PermissionsAreAwaited'
  BY DEF PermissionsAreAwaited
<1>3. NoRequestHeldBack'
  BY DEF NoRequestHeldBack
<1>4. RequestsAccounted'
  <2> SUFFICES ASSUME Running PROVE RequestsAccounted'
    BY DEF RequestsAccounted, Running
  <2>1. Running' /\ Counted(request_count, usr1, Open) /\ WaitingExplained
    BY AccountsSplit DEF Running
  <2>2. WaitingExplained'
    BY <2>1 DEF WaitingExplained, Lost
  <2>3. Counted(request_count', usr1', Open')
    <3>1. Sent' = Sent \cup {c} /\ c \notin Sent /\ merged \subseteq Sent
      BY DEF Sent, PendingAwaited
    <3>2. /\ Open \in SUBSET Child /\ Sent \subseteq Child /\ usr1 \in Nat
          /\ request_count \in Nat /\ c # 0
      BY DEF Open, Sent
    <3>3. CASE usr1 = 0
      <4>1. Open' = Open \cup {c} /\ c \notin Open /\ usr1' = c
        BY <3>1, <3>3 DEF Open
      <4>2. IsFiniteSet(Open) /\ Cardinality(Open) \in Nat
        BY ONLY <3>2, ChildCount, CountAssumption
      <4>3. Cardinality(Open') = Cardinality(Open) + 1
        BY ONLY <4>1, <4>2, FS_AddElement
      <4>4. request_count' = request_count
        OBVIOUS
      <4> QED
        BY ONLY <2>1, <3>2, <3>3, <4>1, <4>2, <4>3, <4>4 DEF Counted
    <3>4. CASE usr1 # 0
      <4>1. Open' = Open /\ usr1' = usr1 /\ request_count' = request_count
        BY <3>1, <3>4 DEF Open
      <4> QED
        BY <2>1, <4>1
    <3> QED
      BY <3>3, <3>4
  <2> QED
    BY <2>1, <2>2, <2>3, AccountsSplit
<1>5. NoChildLeft'
  BY DEF NoChildLeft, Alive, Stored
<1>6. NotYetForked'
  BY DEF NotYetForked, Running
<1>7. RecordsTrue'
  BY DEF RecordsTrue
<1>8. PendingAwaited'
  BY DEF PendingAwaited, Running, Sent, PermissionsAreAwaited
<1> QED
  BY <1>1, <1>2, <1>3, <1>4, <1>5, <1>6, <1>7, <1>8

\* usr1_handler counts the request and, from the threshold on, answers every
\* request noted so far.
LEMMA HandleRequestInv ==
  ASSUME IInv, HandleRequest PROVE IInv'
<1> DEFINE marked == [c \in Child |-> IF c = usr1 /\ c \in Stored THEN "REQUESTED"
                                      ELSE children_states[c]]
           given  == IF ThresholdReached THEN Grantable(marked) ELSE {}
<1>1. /\ Running /\ Running' /\ usr1 # 0 /\ usr1' = 0
      /\ request_count' = request_count + 1
      /\ children_states' = [c \in Child |-> IF c \in given THEN "RUNNING"
                                             ELSE marked[c]]
      /\ perm' = perm \cup (given \cap Alive)
      /\ early' = early \cup ({usr1} \ Stored)
      /\ UNCHANGED <<pc, i, request_threshold, child, rt, merged>>
  BY DEF HandleRequest, CountRequest, Interrupted, Running
<1>2. TypeOK /\ PermissionsKept /\ NotYetForked /\ RecordsTrue /\ PendingAwaited
  BY DEF IInv, PermissionsKept
<1>3. /\ usr1 \in Child /\ child[usr1] = "waiting"
      /\ usr1 \notin perm \cup merged /\ merged \subseteq Sent
  BY <1>1, <1>2, CountAssumption DEF PendingAwaited, TypeOK, Child
<1>4. /\ given \subseteq Child
      /\ \A c \in given : marked[c] = "REQUESTED"
      /\ ThresholdReached => \A c \in Child : marked[c] = "REQUESTED" => c \in given
  BY DEF Grantable
<1>5. marked \in [Child -> {"RUNNING", "REQUESTED", "TERMINATED"}]
  BY <1>2 DEF TypeOK
<1>6. \A c \in Child : /\ marked[c] = "REQUESTED" => child[c] = "waiting" /\ c \notin perm
                       /\ marked[c] = "TERMINATED" <=> child[c] = "gone"
                       /\ usr1 = c => c \in early' \/ marked[c] = "REQUESTED"
                       /\ children_states[c] = "REQUESTED" => marked[c] = "REQUESTED"
  <2>1. pc # "killed"
    BY <1>1 DEF Running
  <2> QED
    BY <1>1, <1>2, <1>3, <2>1
       DEF RecordsTrue, PermissionsKept, PermissionsAreAwaited
<1> HIDE DEF marked, given
<1>7. \A c \in Child : /\ children_states'[c] = IF c \in given THEN "RUNNING"
                                                ELSE marked[c]
                       /\ children_states'[c] \in {"RUNNING", "REQUESTED", "TERMINATED"}
  BY <1>1, <1>5
<1>8. \A c \in given : c \in Child /\ child[c] = "waiting" /\ c \in perm'
  BY <1>1, <1>4, <1>6 DEF Alive
<1>9. TypeOK'
  <2>1. request_count + 1 \in 0 .. N
    <3>1. Counted(request_count, usr1, Open)
      BY <1>1, <1>2, AccountsSplit DEF PermissionsKept
    <3>2. Open \in SUBSET Child
      BY DEF Open, Sent
    <3>3. Cardinality(Open) \in 0 .. N
      BY <3>2, ChildCount
    <3> QED
      BY <1>1, <3>1, <3>3 DEF Counted
  <2>2. children_states' \in [Child -> {"RUNNING", "REQUESTED", "TERMINATED"}]
    BY <1>1, <1>7
  <2>3. perm' \in SUBSET Child /\ early' \in SUBSET Child /\ usr1' \in 0 .. N
    <3>1. perm \in SUBSET Child /\ early \in SUBSET Child
      BY <1>2 DEF TypeOK
    <3>2. 0 \in 0 .. N
      BY CountAssumption
    <3> QED
      BY <1>1, <1>3, <1>4, <3>1, <3>2
  <2> QED
    BY <1>1, <1>2, <2>1, <2>2, <2>3 DEF TypeOK
<1>10. PermissionsAreAwaited'
  <2> SUFFICES ASSUME NEW c \in perm'
               PROVE  child'[c] = "waiting" /\ children_states'[c] # "REQUESTED"
    BY DEF PermissionsAreAwaited
  <2>1. CASE c \in given
    BY <1>1, <1>7, <1>8, <2>1
  <2>2. CASE c \in perm /\ c \notin given
    <3>1. c \in Child /\ child[c] = "waiting"
      BY <1>2, <2>2 DEF TypeOK, PermissionsKept, PermissionsAreAwaited
    <3> QED
      BY <1>1, <1>6, <1>7, <2>2, <3>1
  <2> QED
    BY <1>1, <2>1, <2>2
<1>11. NoRequestHeldBack'
  BY <1>1, <1>2, <1>4, <1>7
     DEF NoRequestHeldBack, PermissionsKept, ThresholdReached, TypeOK
<1>12. RequestsAccounted'
  <2>1. Open' = Open
    BY <1>1 DEF Open, Sent
  <2>2. Counted(request_count, usr1, Open) /\ WaitingExplained
    BY <1>1, <1>2, AccountsSplit DEF PermissionsKept
  <2>3. Counted(request_count', usr1', Open')
    BY <1>1, <1>2, <2>1, <2>2 DEF Counted, TypeOK
  <2>4. WaitingExplained'
    <3> SUFFICES ASSUME NEW c \in Child, child'[c] = "waiting"
                 PROVE  \/ c \in perm' \cup Lost' \/ children_states'[c] = "REQUESTED"
      BY DEF WaitingExplained
    <3>1. perm \subseteq perm' /\ Lost \subseteq Lost' /\ early' \subseteq Lost'
      BY <1>1 DEF Lost
    <3>2. \/ c \in perm \cup Lost \/ usr1 = c \/ children_states[c] = "REQUESTED"
      BY <1>1, <2>2 DEF WaitingExplained
    <3>3. c \in perm' \cup Lost' \/ marked[c] = "REQUESTED"
      BY <1>6, <3>1, <3>2
    <3> QED
      BY <1>7, <1>8, <3>3
  <2> QED
    BY <2>3, <2>4, AccountsSplit
<1>13. NoChildLeft'
  BY <1>1 DEF NoChildLeft, Running
<1>14. NotYetForked'
  BY <1>1, <1>2 DEF NotYetForked, Running
<1>15. RecordsTrue'
  BY <1>1, <1>6, <1>7, <1>8 DEF RecordsTrue
<1>16. PendingAwaited'
  BY <1>1, <1>3 DEF PendingAwaited, Sent
<1> QED
  BY <1>9, <1>10, <1>11, <1>12, <1>13, <1>14, <1>15, <1>16
     DEF IInv, PermissionsKept

\* Steps that change nothing.
LEMMA StutterInv == IInv /\ UNCHANGED vars => IInv'
  BY DEF vars, history, IInv, PermissionsKept, TypeOK, PermissionsAreAwaited,
         NoRequestHeldBack, RequestsAccounted, NoChildLeft, NotYetForked,
         RecordsTrue, PendingAwaited, Running, Sent, Alive, Stored, Lost

\* IInv holds in every reachable state.
THEOREM Invariance == Spec => []IInv
<1>1. Init => IInv
  BY InitInv
<1>2. IInv /\ [Next]_vars => IInv'
  BY ReadArgumentsInv, ForkInv, StorePidInv, MarkTerminatedInv, HandleRequestInv,
     HandleInterruptInv, WaitInv, HandleRealTimeInv, InstallHandlersInv,
     RequestInv, TakePermissionInv, StutterInv
     DEF Next, ParentStep, ChildStep
<1> QED
  BY <1>1, <1>2, PTL DEF Spec

\* For any number of children and any threshold: a permission only goes to a
\* child that has asked and has its handler, no request is held back once the
\* threshold is reached, a child waits in vain only if its signal was merged or
\* came before its pid was stored, and the parent leaves no child behind.
THEOREM PermissionsAlwaysKept == Spec => []PermissionsKept
<1>1. IInv => PermissionsKept
  BY DEF IInv
<1> QED
  BY Invariance, <1>1, PTL
=============================================================================
