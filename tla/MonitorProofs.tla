--------------------------- MODULE MonitorProofs ----------------------------
(***************************************************************************)
(* Proofs about MonitorPC for every number of threads, every file, buffer  *)
(* size and configuration: ChannelInv is inductive, so the buffer is only  *)
(* used by the owner of the mutex, and the monitor implements LineChannel. *)
(* With it: NoWakeupLost, by counting those who wait against those who are *)
(* awake and the lines or free cells there are; PrintedInv, that no line   *)
(* is lost in the hands of a consumer; and EndInv, that a line is left in  *)
(* the buffer at the end only if a consumer was dismissed.                 *)
(***************************************************************************)
EXTENDS MonitorPC, ProdConsProofs

\* The inductive invariant behind LinesLeftOnlyByDismissal.

\* The configuration in which every line should come out: no time limit, every
\* fopen succeeds, and there is a consumer.
ToTheEnd == ~TimeLimit /\ OpenOutcomes = {TRUE} /\ Consumers # {}

\* run cancels no producer, and consumers only after the producers are joined.
CancelsLate ==
  /\ mpc \in {"joinP", "cancelC", "joinC", "done"}
  /\ cancelled \subseteq Consumers
  /\ mpc = "joinP" => cancelled = {}
  /\ mpc # "joinP" => Ended(Producers)
  /\ \A t \in Consumers : pc[t] \in {"unwind", "ended"} => t \in cancelled
  /\ \A p \in Producers : pc[p] # "unwind"

\* A producer ends at the end of its file.
ReadToTheEnd ==
  \A p \in Producers : pc[p] = "ended" => NoMoreLines(p) /\ pos[p] = sent[p]

\* Each producer's lines up to the last one it pushed are in the log, once each
\* and none of them empty, and the lines taken are the log's first ones.
LogComplete ==
  /\ \A p \in Producers, i \in DOMAIN File :
       i <= sent[p] /\ File[i] > 0 =>
         \E k \in DOMAIN log : log[k] = <<p, i>>
  /\ \A k \in DOMAIN log :
       File[log[k][2]] > 0 /\ log[k][2] <= sent[log[k][1]]
  /\ \A j, k \in DOMAIN log : log[j] = log[k] => j = k
  /\ \A k \in DOMAIN taken : k \in DOMAIN log /\ taken[k] = log[k]

\* A line in the buffer has a consumer that will look at the buffer before it
\* waits again, or a producer that is about to signal, unless one was dismissed.
LinesAttended ==
  buffer_length > 0 =>
    \/ \E p \in Producers : pc[p] = "pushed"
    \/ \E c \in Consumers :
         pc[c] \in {"start", "lock", "pop", "popped", "print", "relock"}
    \/ dismissed # {}

EndInv == CancelsLate /\ ReadToTheEnd /\ LogComplete /\ LinesAttended
-----------------------------------------------------------------------------
\* The threads start with an empty buffer and nothing read.
LEMMA InitInv == Init => ChannelInv
<1> SUFFICES ASSUME Init PROVE ChannelInv
  OBVIOUS
<1>1. SharedTypeOK /\ RingFIFO
  BY InitRing DEF Init
<1>2. TypeOK
  BY <1>1, MonitorAssumption, ThreadAssumption
     DEF TypeOK, Init, SharedInit, Threads, ProducerLabels, ConsumerLabels
<1>3. OwnerHolds /\ ReadAhead /\ LineHeld
  BY DEF OwnerHolds, ReadAhead, LineHeld, Holding, Init, SharedInit, Threads
<1> QED
  BY <1>1, <1>2, <1>3 DEF ChannelInv

\* Every step of a producer preserves the invariant.
LEMMA ProducerStepInv ==
  ASSUME NEW p \in Producers, ChannelInv, ProducerStep(p) PROVE ChannelInv'
<1> USE ThreadAssumption, MonitorAssumption
    DEF ChannelInv, TypeOK, SharedTypeOK, Threads, At, ringVars, history
<1>1. CASE OpenFile(p)
  <2> USE <1>1 DEF OpenFile
  <2>1. TypeOK' BY DEF ProducerLabels
  <2>2. OwnerHolds' BY DEF OwnerHolds, Holding
  <2>3. ReadAhead' BY DEF ReadAhead, LineRead, Channel!Follows
  <2>4. LineHeld' BY DEF LineHeld
  <2>5. RingFIFO' BY RingUnchanged
  <2> QED BY <2>1, <2>2, <2>3, <2>4, <2>5
<1>2. CASE ReadLine(p)
  <2> USE <1>2 DEF ReadLine
  <2>1. TypeOK' BY FileAssumption, SMTT(30) DEF ProducerLabels, NextLine
  <2>2. OwnerHolds' BY DEF OwnerHolds, Holding
  <2>3. ReadAhead' BY DEF ReadAhead, LineRead, Channel!Follows, NextLine
  <2>4. LineHeld' BY DEF LineHeld
  <2>5. RingFIFO' BY RingUnchanged
  <2> QED BY <2>1, <2>2, <2>3, <2>4, <2>5
<1>3. CASE EndOfFile(p)
  <2> USE <1>3 DEF EndOfFile
  <2>1. TypeOK' BY DEF ProducerLabels
  <2>2. OwnerHolds' BY DEF OwnerHolds, Holding
  <2>3. ReadAhead' BY DEF ReadAhead, LineRead, Channel!Follows
  <2>4. LineHeld' BY DEF LineHeld
  <2>5. RingFIFO' BY RingUnchanged
  <2> QED BY <2>1, <2>2, <2>3, <2>4, <2>5
<1>4. CASE CancelledOutside(p)
  <2> USE <1>4 DEF CancelledOutside
  <2>1. TypeOK' BY DEF ProducerLabels
  <2>2. OwnerHolds' BY DEF OwnerHolds, Holding
  <2>3. ReadAhead' BY DEF ReadAhead, LineRead, Channel!Follows
  <2>4. LineHeld' BY DEF LineHeld
  <2>5. RingFIFO' BY RingUnchanged
  <2> QED BY <2>1, <2>2, <2>3, <2>4, <2>5
<1>5. CASE LockToPush(p)
  <2> USE <1>5 DEF LockToPush, Lock
  <2>1. TypeOK' BY DEF ProducerLabels
  <2>2. OwnerHolds' BY DEF OwnerHolds, Holding
  <2>3. ReadAhead' BY DEF ReadAhead, LineRead, Channel!Follows
  <2>4. LineHeld' BY DEF LineHeld
  <2>5. RingFIFO' BY RingUnchanged
  <2> QED BY <2>1, <2>2, <2>3, <2>4, <2>5
<1>6. CASE WaitForSpace(p)
  <2> USE <1>6 DEF WaitForSpace, Unlock
  <2>1. TypeOK' BY DEF ProducerLabels
  <2>2. OwnerHolds' BY DEF OwnerHolds, Holding
  <2>3. ReadAhead' BY DEF ReadAhead, LineRead, Channel!Follows
  <2>4. LineHeld' BY DEF LineHeld
  <2>5. RingFIFO' BY RingUnchanged
  <2> QED BY <2>1, <2>2, <2>3, <2>4, <2>5
<1>7. CASE Push(p)
  <2> USE <1>7 DEF Push
  <2>0. LineRead(p) /\ buffer_push(p) BY DEF ReadAhead
  <2>1. TypeOK' BY <2>0, PushType DEF ProducerLabels
  <2>2. OwnerHolds' BY DEF OwnerHolds, Holding
  <2>3. ReadAhead' BY DEF ReadAhead, LineRead, Channel!Follows, buffer_push
  <2>4. LineHeld' BY DEF LineHeld, buffer_push
  <2>5. RingFIFO' BY <2>0, PushRing
  <2> QED BY <2>1, <2>2, <2>3, <2>4, <2>5
<1>8. CASE CancelledInLog(p)
  <2> USE <1>8 DEF CancelledInLog
  <2>1. TypeOK' BY DEF ProducerLabels
  <2>2. OwnerHolds' BY DEF OwnerHolds, Holding
  <2>3. ReadAhead' BY DEF ReadAhead, LineRead, Channel!Follows
  <2>4. LineHeld' BY DEF LineHeld
  <2>5. RingFIFO' BY RingUnchanged
  <2> QED BY <2>1, <2>2, <2>3, <2>4, <2>5
<1>9. CASE SignalLine(p)
  <2> USE <1>9 DEF SignalLine, Signal, Waiters, Unlock
  <2>1. TypeOK' BY DEF ProducerLabels, ConsumerLabels
  <2>2. OwnerHolds' BY DEF OwnerHolds, Holding
  <2>3. ReadAhead' BY ZenonT(60) DEF ReadAhead, LineRead, Channel!Follows
  <2>4. LineHeld' BY DEF LineHeld
  <2>5. RingFIFO' BY RingUnchanged
  <2> QED BY <2>1, <2>2, <2>3, <2>4, <2>5
<1> QED
  BY <1>1, <1>2, <1>3, <1>4, <1>5, <1>6, <1>7, <1>8, <1>9 DEF ProducerStep

\* Every step of a consumer preserves the invariant.
LEMMA ConsumerStepInv ==
  ASSUME NEW c \in Consumers, ChannelInv, ConsumerStep(c) PROVE ChannelInv'
<1> USE ThreadAssumption, MonitorAssumption
    DEF ChannelInv, TypeOK, SharedTypeOK, Threads, At, ringVars, history
<1>1. CASE StartConsumer(c)
  <2> USE <1>1 DEF StartConsumer
  <2>1. TypeOK' BY DEF ConsumerLabels
  <2>2. OwnerHolds' BY DEF OwnerHolds, Holding
  <2>3. ReadAhead' BY DEF ReadAhead, LineRead, Channel!Follows
  <2>4. LineHeld' BY DEF LineHeld
  <2>5. RingFIFO' BY RingUnchanged
  <2> QED BY <2>1, <2>2, <2>3, <2>4, <2>5
<1>2. CASE CancelledAtStart(c)
  <2> USE <1>2 DEF CancelledAtStart
  <2>1. TypeOK' BY DEF ConsumerLabels
  <2>2. OwnerHolds' BY DEF OwnerHolds, Holding
  <2>3. ReadAhead' BY DEF ReadAhead, LineRead, Channel!Follows
  <2>4. LineHeld' BY DEF LineHeld
  <2>5. RingFIFO' BY RingUnchanged
  <2> QED BY <2>1, <2>2, <2>3, <2>4, <2>5
<1>3. CASE LockToPop(c)
  <2> USE <1>3 DEF LockToPop, Lock
  <2>1. TypeOK' BY DEF ConsumerLabels
  <2>2. OwnerHolds' BY DEF OwnerHolds, Holding
  <2>3. ReadAhead' BY DEF ReadAhead, LineRead, Channel!Follows
  <2>4. LineHeld' BY DEF LineHeld
  <2>5. RingFIFO' BY RingUnchanged
  <2> QED BY <2>1, <2>2, <2>3, <2>4, <2>5
<1>4. CASE WaitForLine(c)
  <2> USE <1>4 DEF WaitForLine, Unlock
  <2>1. TypeOK' BY DEF ConsumerLabels
  <2>2. OwnerHolds' BY DEF OwnerHolds, Holding
  <2>3. ReadAhead' BY DEF ReadAhead, LineRead, Channel!Follows
  <2>4. LineHeld' BY DEF LineHeld
  <2>5. RingFIFO' BY RingUnchanged
  <2> QED BY <2>1, <2>2, <2>3, <2>4, <2>5
<1>5. CASE Pop(c)
  <2> USE <1>5 DEF Pop
  <2>1. TypeOK' BY PopType DEF ConsumerLabels
  <2>2. OwnerHolds' BY DEF OwnerHolds, Holding
  <2>3. ReadAhead' BY DEF ReadAhead, LineRead, Channel!Follows, buffer_pop
  <2>4. LineHeld' BY PopType DEF LineHeld, buffer_pop
  <2>5. RingFIFO' BY PopRing
  <2> QED BY <2>1, <2>2, <2>3, <2>4, <2>5
<1>6. CASE SignalSpace(c)
  <2> USE <1>6 DEF SignalSpace, Signal, Waiters, Unlock
  <2>1. TypeOK' BY DEF ProducerLabels, ConsumerLabels
  <2>2. OwnerHolds' BY DEF OwnerHolds, Holding
  <2>3. ReadAhead' BY ZenonT(60) DEF ReadAhead, LineRead, Channel!Follows
  <2>4. LineHeld' BY DEF LineHeld
  <2>5. RingFIFO' BY RingUnchanged
  <2> QED BY <2>1, <2>2, <2>3, <2>4, <2>5
<1>7. CASE PrintLine(c)
  <2> USE <1>7 DEF PrintLine
  <2>1. TypeOK' BY DEF ConsumerLabels, LineHeld
  <2>2. OwnerHolds' BY DEF OwnerHolds, Holding
  <2>3. ReadAhead' BY DEF ReadAhead, LineRead, Channel!Follows
  <2>4. LineHeld' BY DEF LineHeld
  <2>5. RingFIFO' BY RingUnchanged
  <2> QED BY <2>1, <2>2, <2>3, <2>4, <2>5
<1> QED
  BY <1>1, <1>2, <1>3, <1>4, <1>5, <1>6, <1>7 DEF ConsumerStep

\* Waking up, being cancelled and unwinding in pthread_cond_wait preserve it.
LEMMA WaiterStepInv ==
  ASSUME NEW t \in Threads, ChannelInv, WaiterStep(t) \/ SpuriousWakeup(t)
  PROVE  ChannelInv'
<1> USE ThreadAssumption, MonitorAssumption
    DEF ChannelInv, TypeOK, SharedTypeOK, Threads, At, ringVars, history
<1>1. CASE Relock(t)
  <2> USE <1>1 DEF Relock, Lock
  <2>1. TypeOK' BY DEF ProducerLabels, ConsumerLabels
  <2>2. OwnerHolds' BY DEF OwnerHolds, Holding
  <2>3. ReadAhead' BY DEF ReadAhead, LineRead, Channel!Follows
  <2>4. LineHeld' BY DEF LineHeld
  <2>5. RingFIFO' BY RingUnchanged
  <2> QED BY <2>1, <2>2, <2>3, <2>4, <2>5
<1>2. CASE CancelledInWait(t)
  <2> USE <1>2 DEF CancelledInWait, CancelledUnwoken, CancelledWoken, Signal,
                   Waiters, Colleagues
  <2>1. TypeOK' BY ZenonT(60) DEF ProducerLabels, ConsumerLabels
  <2>2. OwnerHolds' BY SMTT(30) DEF OwnerHolds, Holding
  <2>3. ReadAhead' BY DEF ReadAhead, LineRead, Channel!Follows
  <2>4. LineHeld' BY DEF LineHeld
  <2>5. RingFIFO' BY RingUnchanged
  <2> QED BY <2>1, <2>2, <2>3, <2>4, <2>5
<1>3. CASE Unwind(t)
  <2> USE <1>3 DEF Unwind
  <2>1. TypeOK' BY DEF ProducerLabels, ConsumerLabels
  <2>2. OwnerHolds' BY DEF OwnerHolds, Holding
  <2>3. ReadAhead' BY DEF ReadAhead, LineRead, Channel!Follows
  <2>4. LineHeld' BY DEF LineHeld
  <2>5. RingFIFO' BY RingUnchanged
  <2> QED BY <2>1, <2>2, <2>3, <2>4, <2>5
<1>4. CASE SpuriousWakeup(t)
  <2> USE <1>4 DEF SpuriousWakeup
  <2>1. TypeOK' BY DEF ProducerLabels, ConsumerLabels
  <2>2. OwnerHolds' BY DEF OwnerHolds, Holding
  <2>3. ReadAhead' BY DEF ReadAhead, LineRead, Channel!Follows
  <2>4. LineHeld' BY DEF LineHeld
  <2>5. RingFIFO' BY RingUnchanged
  <2> QED BY <2>1, <2>2, <2>3, <2>4, <2>5
<1> QED
  BY <1>1, <1>2, <1>3, <1>4 DEF WaiterStep

\* The main thread only cancels and joins.
LEMMA RunStepInv ==
  ASSUME ChannelInv, RunStep \/ UNCHANGED vars PROVE ChannelInv'
<1> USE DEF ChannelInv, RunStep, MainStep, vars, ringVars, history
<1>1. cancelled' \subseteq Threads /\ mpc' \in MainLabels
  BY DEF TypeOK, SharedTypeOK, Threads, TimeIsUp, CancelThreads,
         WaitForThreads, MainLabels
<1>2. TypeOK'
  BY <1>1 DEF TypeOK, SharedTypeOK
<1>3. OwnerHolds'
  BY DEF OwnerHolds, Holding
<1>4. ReadAhead'
  BY DEF ReadAhead, LineRead, Channel!Follows
<1>5. LineHeld'
  BY DEF LineHeld
<1>6. RingFIFO'
  BY RingUnchanged
<1> QED
  BY <1>2, <1>3, <1>4, <1>5, <1>6

\* ChannelInv holds in every reachable state.
THEOREM ChannelInvariance == Spec => []ChannelInv
<1>1. Init => ChannelInv
  BY InitInv
<1>2. ChannelInv /\ [Next]_vars => ChannelInv'
  BY ProducerStepInv, ConsumerStepInv, WaiterStepInv, RunStepInv DEF Next
<1> QED
  BY <1>1, <1>2, PTL DEF Spec

\* Every variable keeps its type; in particular the ring never holds more than
\* BufferSize lines.
THEOREM TypeCorrect == Spec => []TypeOK
<1>1. ChannelInv => TypeOK
  BY DEF ChannelInv
<1> QED
  BY ChannelInvariance, <1>1, PTL

\* The critical sections around buffer_push and buffer_pop exclude each other,
\* through condition waits, spurious wakeups and cancellation.
THEOREM MutualExclusion == Spec => []BufferExclusive
<1>1. ChannelInv => BufferExclusive
  BY DEF ChannelInv, OwnerHolds, BufferExclusive
<1> QED
  BY ChannelInvariance, <1>1, PTL

\* The monitor implements the channel: lines leave the buffer in the order in
\* which they entered it, each exactly once, and each producer's lines enter it
\* in the order of the file with none left out.
THEOREM ImplementsChannel == Spec => ChannelImplemented
<1>1. Init => Channel!ChannelInit
  BY InitRing DEF Init
<1>2. ASSUME ChannelInv, [Next]_vars
      PROVE  Channel!ChannelNext \/ UNCHANGED Channel!channelVars
  <2> USE <1>2 DEF ChannelInv, TypeOK, history, Channel!channelVars
  <2>1. ASSUME NEW p \in Producers, Push(p)
        PROVE  Channel!ChannelNext
    <3>1. LineRead(p) /\ buffer_push(p)
      BY <2>1 DEF ReadAhead, Push, At
    <3>2. Channel!Put(p, pos[p]) /\ pos[p] \in DOMAIN File
      BY <3>1, PushIsPut DEF LineRead, Channel!Follows
    <3> QED
      BY <3>2 DEF Channel!ChannelNext
  <2>2. ASSUME NEW c \in Consumers, Pop(c)
        PROVE  Channel!ChannelNext
    BY <2>2, PopIsTake DEF Pop, Channel!ChannelNext
  <2>3. ASSUME NEW p \in Producers, ProducerStep(p), ~Push(p)
        PROVE  UNCHANGED Channel!channelVars
    BY <2>3 DEF ProducerStep, OpenFile, ReadLine, EndOfFile, CancelledOutside,
                LockToPush, WaitForSpace, CancelledInLog, SignalLine
  <2>4. ASSUME NEW c \in Consumers, ConsumerStep(c), ~Pop(c)
        PROVE  UNCHANGED Channel!channelVars
    BY <2>4 DEF ConsumerStep, StartConsumer, CancelledAtStart, LockToPop,
                WaitForLine, SignalSpace, PrintLine
  <2>5. ASSUME NEW t \in Threads, WaiterStep(t) \/ SpuriousWakeup(t)
        PROVE  UNCHANGED Channel!channelVars
    BY <2>5 DEF WaiterStep, Relock, CancelledInWait, Unwind, SpuriousWakeup
  <2>6. CASE RunStep \/ UNCHANGED vars
    BY <2>6 DEF RunStep, MainStep, vars
  <2> QED
    BY <2>1, <2>2, <2>3, <2>4, <2>5, <2>6 DEF Next
<1> QED
  BY ChannelInvariance, <1>1, <1>2, PTL
     DEF Spec, ChannelImplemented, Channel!ChannelSpec
-----------------------------------------------------------------------------
\* NoWakeupLost: somebody is on the way to every free cell and every line.

\* The labels of a thread on its way to use the buffer, and what a thread at a
\* label adds to the count of given labels.
AwakeLabels == {"relock", "push", "pop"}
Counted(label, labels) == IF label \in labels THEN 1 ELSE 0

\* When thread u of S moves and no other thread of S does, the count of S changes
\* by what u's labels add.
LEMMA CountUpdate ==
  ASSUME NEW S, IsFiniteSet(S), NEW at, NEW at2, NEW labels, NEW u \in S,
         \A t \in S \ {u} : at2[t] = at[t]
  PROVE  AtLabels(S, at2, labels) =
           AtLabels(S, at, labels) + Counted(at2[u], labels)
                                   - Counted(at[u], labels)
  BY CountMoved DEF Counted

\* The counts NoWakeupLost is about, as functions of the threads' labels.
ProducersAwake(at) == AtLabels(Producers, at, AwakeLabels)
ConsumersAwake(at) == AtLabels(Consumers, at, AwakeLabels)
AboutToSignalLine(at) == AtLabels(Producers, at, {"pushed"})
AboutToSignalSpace(at) == AtLabels(Consumers, at, {"popped"})

LEMMA CountsType ==
  ASSUME NEW at
  PROVE  /\ ProducersAwake(at) \in Nat /\ ConsumersAwake(at) \in Nat
         /\ AboutToSignalLine(at) \in Nat /\ AboutToSignalSpace(at) \in Nat
  BY CountAssumption, CountType, Zenon
     DEF ProducersAwake, ConsumersAwake, AboutToSignalLine, AboutToSignalSpace

\* The two halves of NoWakeupLost, with the counts.
LEMMA WakeupsInCounts ==
  /\ SpaceIsSignalled <=>
       (Waiters(Producers) # {} /\ ~Orphaned =>
          BufferSize - buffer_length <=
            ProducersAwake(pc) + AboutToSignalSpace(pc))
  /\ LinesAreSignalled <=>
       (Waiters(Consumers) # {} /\ ~Orphaned =>
          buffer_length <= ConsumersAwake(pc) + AboutToSignalLine(pc))
  /\ SpaceIsSignalled' <=>
       (Waiters(Producers)' # {} /\ ~Orphaned' =>
          BufferSize - buffer_length' <=
            ProducersAwake(pc') + AboutToSignalSpace(pc'))
  /\ LinesAreSignalled' <=>
       (Waiters(Consumers)' # {} /\ ~Orphaned' =>
          buffer_length' <= ConsumersAwake(pc') + AboutToSignalLine(pc'))
<1>1. /\ \A S : Awake(S) = {t \in S : pc[t] \in AwakeLabels}
      /\ \A S : Awake(S)' = {t \in S : pc'[t] \in AwakeLabels}
      /\ {c \in Consumers : pc[c] = "popped"}
           = {c \in Consumers : pc[c] \in {"popped"}}
      /\ {c \in Consumers : pc'[c] = "popped"}
           = {c \in Consumers : pc'[c] \in {"popped"}}
      /\ {p \in Producers : pc[p] = "pushed"}
           = {p \in Producers : pc[p] \in {"pushed"}}
      /\ {p \in Producers : pc'[p] = "pushed"}
           = {p \in Producers : pc'[p] \in {"pushed"}}
  BY DEF Awake, AwakeLabels
<1> QED
  BY <1>1, Zenon DEF SpaceIsSignalled, LinesAreSignalled, AtLabels, ProducersAwake,
         ConsumersAwake, AboutToSignalLine, AboutToSignalSpace

\* When p moves and no other producer does, the counts change as p's labels say.
LEMMA ProducerMoved ==
  ASSUME NEW p \in Producers,
         \A t \in Producers \ {p} : pc'[t] = pc[t]
  PROVE  /\ ProducersAwake(pc') = ProducersAwake(pc)
              + Counted(pc'[p], AwakeLabels) - Counted(pc[p], AwakeLabels)
         /\ AboutToSignalLine(pc') = AboutToSignalLine(pc)
              + Counted(pc'[p], {"pushed"}) - Counted(pc[p], {"pushed"})
<1>1. IsFiniteSet(Producers)
  BY CountAssumption
<1>2. ASSUME NEW labels
      PROVE  AtLabels(Producers, pc', labels) = AtLabels(Producers, pc, labels)
               + Counted(pc'[p], labels) - Counted(pc[p], labels)
  BY <1>1, CountUpdate
<1> QED
  BY <1>2 DEF ProducersAwake, AboutToSignalLine

\* When no producer moves, the producers' counts stay.
LEMMA ProducersStay ==
  ASSUME \A t \in Producers : pc'[t] = pc[t]
  PROVE  ProducersAwake(pc') = ProducersAwake(pc) /\ AboutToSignalLine(pc') = AboutToSignalLine(pc)
<1>1. AtLabels(Producers, pc', AwakeLabels) = AtLabels(Producers, pc, AwakeLabels)
  BY CountSame
<1>2. AtLabels(Producers, pc', {"pushed"}) = AtLabels(Producers, pc, {"pushed"})
  BY CountSame
<1> QED
  BY <1>1, <1>2 DEF ProducersAwake, AboutToSignalLine

\* When c moves and no other consumer does, the counts change as c's labels say.
LEMMA ConsumerMoved ==
  ASSUME NEW c \in Consumers,
         \A t \in Consumers \ {c} : pc'[t] = pc[t]
  PROVE  /\ ConsumersAwake(pc') = ConsumersAwake(pc)
              + Counted(pc'[c], AwakeLabels) - Counted(pc[c], AwakeLabels)
         /\ AboutToSignalSpace(pc') = AboutToSignalSpace(pc)
              + Counted(pc'[c], {"popped"}) - Counted(pc[c], {"popped"})
<1>1. IsFiniteSet(Consumers)
  BY CountAssumption
<1>2. ASSUME NEW labels
      PROVE  AtLabels(Consumers, pc', labels) = AtLabels(Consumers, pc, labels)
               + Counted(pc'[c], labels) - Counted(pc[c], labels)
  BY <1>1, CountUpdate
<1> QED
  BY <1>2 DEF ConsumersAwake, AboutToSignalSpace

\* When no consumer moves, the consumers' counts stay.
LEMMA ConsumersStay ==
  ASSUME \A t \in Consumers : pc'[t] = pc[t]
  PROVE  ConsumersAwake(pc') = ConsumersAwake(pc) /\ AboutToSignalSpace(pc') = AboutToSignalSpace(pc)
<1>1. AtLabels(Consumers, pc', AwakeLabels) = AtLabels(Consumers, pc, AwakeLabels)
  BY CountSame
<1>2. AtLabels(Consumers, pc', {"popped"}) = AtLabels(Consumers, pc, {"popped"})
  BY CountSame
<1> QED
  BY <1>1, <1>2 DEF ConsumersAwake, AboutToSignalSpace

\* An orphaned mutex stays orphaned: only its owner could release it.
LEMMA OrphanedStays ==
  ASSUME ChannelInv, [Next]_vars, Orphaned PROVE Orphaned'
<1>1. /\ buffer_mx \in Threads /\ pc[buffer_mx] = "ended"
      /\ buffer_mx # NoThread
      /\ pc \in [Threads -> ProducerLabels \cup ConsumerLabels]
      /\ Producers \subseteq Threads /\ Consumers \subseteq Threads
      /\ \A t \in Threads : ~Holding(t)
  BY DEF ChannelInv, TypeOK, OwnerHolds, Orphaned, Holding, Threads
<1>2. ASSUME NEW p \in Producers, ProducerStep(p)
      PROVE  buffer_mx' = buffer_mx /\ pc'[buffer_mx] = "ended"
  <2>1. p \in Threads /\ ~Holding(p)
    BY <1>1
  <2> QED
    BY <1>1, <1>2, <2>1
       DEF ProducerStep, OpenFile, ReadLine, EndOfFile, CancelledOutside,
           LockToPush, WaitForSpace, Push, CancelledInLog, SignalLine, At,
           Lock, Holding
<1>3. ASSUME NEW c \in Consumers, ConsumerStep(c)
      PROVE  buffer_mx' = buffer_mx /\ pc'[buffer_mx] = "ended"
  <2>1. c \in Threads /\ ~Holding(c)
    BY <1>1
  <2> QED
    BY <1>1, <1>3, <2>1
       DEF ConsumerStep, StartConsumer, CancelledAtStart, LockToPop,
           WaitForLine, Pop, SignalSpace, PrintLine, At, Lock, Holding
<1>4. ASSUME NEW t \in Threads, WaiterStep(t) \/ SpuriousWakeup(t)
      PROVE  buffer_mx' = buffer_mx /\ pc'[buffer_mx] = "ended"
  BY <1>1, <1>4
     DEF WaiterStep, Relock, CancelledInWait, CancelledUnwoken, CancelledWoken,
         Unwind, SpuriousWakeup, At, Lock, Signal, Waiters
<1>5. CASE RunStep \/ UNCHANGED vars
  BY <1>1, <1>5 DEF RunStep, MainStep, vars, Orphaned
<1> QED
  BY <1>1, <1>2, <1>3, <1>4, <1>5 DEF Next, Orphaned

\* What a step of p from one label to another does to the counts.
LEMMA ProducerAt ==
  ASSUME TypeOK, NEW p \in Producers, NEW from, NEW to, At(p, from, to)
  PROVE  /\ ProducersAwake(pc') = ProducersAwake(pc)
              + Counted(to, AwakeLabels) - Counted(from, AwakeLabels)
         /\ AboutToSignalLine(pc') = AboutToSignalLine(pc)
              + Counted(to, {"pushed"}) - Counted(from, {"pushed"})
         /\ ConsumersAwake(pc') = ConsumersAwake(pc)
         /\ AboutToSignalSpace(pc') = AboutToSignalSpace(pc)
         /\ Waiters(Consumers)' = Waiters(Consumers)
         /\ to # "wait" => Waiters(Producers)' \subseteq Waiters(Producers)
<1>1. /\ pc[p] = from /\ pc'[p] = to
      /\ \A t \in Producers \ {p} : pc'[t] = pc[t]
      /\ \A t \in Consumers : pc'[t] = pc[t]
  BY ThreadAssumption DEF TypeOK, Threads, At
<1>2. /\ ProducersAwake(pc') = ProducersAwake(pc)
           + Counted(pc'[p], AwakeLabels) - Counted(pc[p], AwakeLabels)
      /\ AboutToSignalLine(pc') = AboutToSignalLine(pc)
           + Counted(pc'[p], {"pushed"}) - Counted(pc[p], {"pushed"})
  BY <1>1, ProducerMoved
<1>3. /\ ConsumersAwake(pc') = ConsumersAwake(pc)
      /\ AboutToSignalSpace(pc') = AboutToSignalSpace(pc)
  BY <1>1, ConsumersStay
<1>4. /\ Waiters(Consumers)' = Waiters(Consumers)
      /\ to # "wait" => Waiters(Producers)' \subseteq Waiters(Producers)
  BY <1>1 DEF Waiters
<1> QED
  BY <1>1, <1>2, <1>3, <1>4

\* What a step of c from one label to another does to the counts.
LEMMA ConsumerAt ==
  ASSUME TypeOK, NEW c \in Consumers, NEW from, NEW to, At(c, from, to)
  PROVE  /\ ConsumersAwake(pc') = ConsumersAwake(pc)
              + Counted(to, AwakeLabels) - Counted(from, AwakeLabels)
         /\ AboutToSignalSpace(pc') = AboutToSignalSpace(pc)
              + Counted(to, {"popped"}) - Counted(from, {"popped"})
         /\ ProducersAwake(pc') = ProducersAwake(pc)
         /\ AboutToSignalLine(pc') = AboutToSignalLine(pc)
         /\ Waiters(Producers)' = Waiters(Producers)
         /\ to # "wait" => Waiters(Consumers)' \subseteq Waiters(Consumers)
<1>1. /\ pc[c] = from /\ pc'[c] = to
      /\ \A t \in Consumers \ {c} : pc'[t] = pc[t]
      /\ \A t \in Producers : pc'[t] = pc[t]
  BY ThreadAssumption DEF TypeOK, Threads, At
<1>2. /\ ConsumersAwake(pc') = ConsumersAwake(pc)
           + Counted(pc'[c], AwakeLabels) - Counted(pc[c], AwakeLabels)
      /\ AboutToSignalSpace(pc') = AboutToSignalSpace(pc)
           + Counted(pc'[c], {"popped"}) - Counted(pc[c], {"popped"})
  BY <1>1, ConsumerMoved
<1>3. /\ ProducersAwake(pc') = ProducersAwake(pc)
      /\ AboutToSignalLine(pc') = AboutToSignalLine(pc)
  BY <1>1, ProducersStay
<1>4. /\ Waiters(Producers)' = Waiters(Producers)
      /\ to # "wait" => Waiters(Consumers)' \subseteq Waiters(Consumers)
  BY <1>1 DEF Waiters
<1> QED
  BY <1>1, <1>2, <1>3, <1>4

\* Every step of a producer keeps the wakeups in step with the buffer.
LEMMA ProducerWakeups ==
  ASSUME NEW p \in Producers, ChannelInv, NoWakeupLost, ProducerStep(p)
  PROVE  NoWakeupLost'
<1>1. /\ TypeOK /\ pc \in [Threads -> ProducerLabels \cup ConsumerLabels]
      /\ Producers \subseteq Threads /\ Consumers \subseteq Threads
      /\ Producers \cap Consumers = {}
      /\ buffer_length \in 0 .. BufferSize /\ BufferSize \in Nat
      /\ ProducersAwake(pc) \in Nat /\ ConsumersAwake(pc) \in Nat
      /\ AboutToSignalLine(pc) \in Nat /\ AboutToSignalSpace(pc) \in Nat
      /\ ProducersAwake(pc') \in Nat /\ ConsumersAwake(pc') \in Nat
      /\ AboutToSignalLine(pc') \in Nat /\ AboutToSignalSpace(pc') \in Nat
      /\ Orphaned => Orphaned'
  BY SizeAssumption, ThreadAssumption, CountsType, OrphanedStays
     DEF ChannelInv, TypeOK, SharedTypeOK, Threads, Next
<1>2. CASE OpenFile(p)
  <2>1. /\ ProducersAwake(pc') = ProducersAwake(pc)
        /\ AboutToSignalLine(pc') = AboutToSignalLine(pc)
        /\ ConsumersAwake(pc') = ConsumersAwake(pc)
        /\ AboutToSignalSpace(pc') = AboutToSignalSpace(pc)
        /\ Waiters(Consumers)' = Waiters(Consumers)
        /\ Waiters(Producers)' \subseteq Waiters(Producers)
    BY <1>1, <1>2, ProducerAt DEF OpenFile, Counted, AwakeLabels
  <2>2. SpaceIsSignalled'
    BY <1>1, <1>2, <2>1, WakeupsInCounts DEF NoWakeupLost, OpenFile, ringVars
  <2>3. LinesAreSignalled'
    BY <1>1, <1>2, <2>1, WakeupsInCounts DEF NoWakeupLost, OpenFile, ringVars
  <2> QED
    BY <2>2, <2>3 DEF NoWakeupLost
<1>3. CASE ReadLine(p)
  <2>1. /\ ProducersAwake(pc') = ProducersAwake(pc)
        /\ AboutToSignalLine(pc') = AboutToSignalLine(pc)
        /\ ConsumersAwake(pc') = ConsumersAwake(pc)
        /\ AboutToSignalSpace(pc') = AboutToSignalSpace(pc)
        /\ Waiters(Consumers)' = Waiters(Consumers)
        /\ Waiters(Producers)' \subseteq Waiters(Producers)
    BY <1>1, <1>3, ProducerAt DEF ReadLine, Counted, AwakeLabels
  <2>2. SpaceIsSignalled'
    BY <1>1, <1>3, <2>1, WakeupsInCounts DEF NoWakeupLost, ReadLine, ringVars
  <2>3. LinesAreSignalled'
    BY <1>1, <1>3, <2>1, WakeupsInCounts DEF NoWakeupLost, ReadLine, ringVars
  <2> QED
    BY <2>2, <2>3 DEF NoWakeupLost
<1>4. CASE EndOfFile(p)
  <2>1. /\ ProducersAwake(pc') = ProducersAwake(pc)
        /\ AboutToSignalLine(pc') = AboutToSignalLine(pc)
        /\ ConsumersAwake(pc') = ConsumersAwake(pc)
        /\ AboutToSignalSpace(pc') = AboutToSignalSpace(pc)
        /\ Waiters(Consumers)' = Waiters(Consumers)
        /\ Waiters(Producers)' \subseteq Waiters(Producers)
    BY <1>1, <1>4, ProducerAt DEF EndOfFile, Counted, AwakeLabels
  <2>2. SpaceIsSignalled'
    BY <1>1, <1>4, <2>1, WakeupsInCounts DEF NoWakeupLost, EndOfFile, ringVars
  <2>3. LinesAreSignalled'
    BY <1>1, <1>4, <2>1, WakeupsInCounts DEF NoWakeupLost, EndOfFile, ringVars
  <2> QED
    BY <2>2, <2>3 DEF NoWakeupLost
<1>5. CASE CancelledOutside(p)
  <2>1. /\ ProducersAwake(pc') = ProducersAwake(pc)
        /\ AboutToSignalLine(pc') = AboutToSignalLine(pc)
        /\ ConsumersAwake(pc') = ConsumersAwake(pc)
        /\ AboutToSignalSpace(pc') = AboutToSignalSpace(pc)
        /\ Waiters(Consumers)' = Waiters(Consumers)
        /\ Waiters(Producers)' \subseteq Waiters(Producers)
    BY <1>1, <1>5, ProducerAt DEF CancelledOutside, Counted, AwakeLabels
  <2>2. SpaceIsSignalled'
    BY <1>1, <1>5, <2>1, WakeupsInCounts DEF NoWakeupLost, CancelledOutside, ringVars
  <2>3. LinesAreSignalled'
    BY <1>1, <1>5, <2>1, WakeupsInCounts DEF NoWakeupLost, CancelledOutside, ringVars
  <2> QED
    BY <2>2, <2>3 DEF NoWakeupLost
<1>6. CASE LockToPush(p)
  <2>1. /\ ProducersAwake(pc') = ProducersAwake(pc) + 1
        /\ AboutToSignalLine(pc') = AboutToSignalLine(pc)
        /\ ConsumersAwake(pc') = ConsumersAwake(pc)
        /\ AboutToSignalSpace(pc') = AboutToSignalSpace(pc)
        /\ Waiters(Consumers)' = Waiters(Consumers)
        /\ Waiters(Producers)' \subseteq Waiters(Producers)
    BY <1>1, <1>6, ProducerAt DEF LockToPush, Counted, AwakeLabels
  <2>2. SpaceIsSignalled'
    BY <1>1, <1>6, <2>1, WakeupsInCounts DEF NoWakeupLost, LockToPush, ringVars
  <2>3. LinesAreSignalled'
    BY <1>1, <1>6, <2>1, WakeupsInCounts DEF NoWakeupLost, LockToPush, ringVars
  <2> QED
    BY <2>2, <2>3 DEF NoWakeupLost
<1>7. CASE WaitForSpace(p)
  <2>1. /\ ProducersAwake(pc') = ProducersAwake(pc) - 1
        /\ AboutToSignalLine(pc') = AboutToSignalLine(pc)
        /\ ConsumersAwake(pc') = ConsumersAwake(pc)
        /\ AboutToSignalSpace(pc') = AboutToSignalSpace(pc)
        /\ Waiters(Consumers)' = Waiters(Consumers)
    BY <1>1, <1>7, ProducerAt DEF WaitForSpace, Counted, AwakeLabels
  <2>2. SpaceIsSignalled'
    BY <1>1, <1>7, <2>1, WakeupsInCounts DEF NoWakeupLost, WaitForSpace, ringVars, buffer_full
  <2>3. LinesAreSignalled'
    BY <1>1, <1>7, <2>1, WakeupsInCounts DEF NoWakeupLost, WaitForSpace, ringVars, buffer_full
  <2> QED
    BY <2>2, <2>3 DEF NoWakeupLost
<1>8. CASE Push(p)
  <2>1. /\ ProducersAwake(pc') = ProducersAwake(pc) - 1
        /\ AboutToSignalLine(pc') = AboutToSignalLine(pc) + 1
        /\ ConsumersAwake(pc') = ConsumersAwake(pc)
        /\ AboutToSignalSpace(pc') = AboutToSignalSpace(pc)
        /\ Waiters(Consumers)' = Waiters(Consumers)
        /\ Waiters(Producers)' \subseteq Waiters(Producers)
    BY <1>1, <1>8, ProducerAt DEF Push, Counted, AwakeLabels
  <2>2. SpaceIsSignalled'
    BY <1>1, <1>8, <2>1, WakeupsInCounts, SMTT(30) DEF NoWakeupLost, Push, ringVars, buffer_push
  <2>3. LinesAreSignalled'
    BY <1>1, <1>8, <2>1, WakeupsInCounts, SMTT(30) DEF NoWakeupLost, Push, ringVars, buffer_push
  <2> QED
    BY <2>2, <2>3 DEF NoWakeupLost
<1>9. CASE CancelledInLog(p)
  <2>1. Orphaned'
    BY <1>1, <1>9, MonitorAssumption
       DEF ChannelInv, OwnerHolds, Holding, CancelledInLog, At, Orphaned, Threads
  <2> QED
    BY <2>1 DEF NoWakeupLost, SpaceIsSignalled, LinesAreSignalled
<1>10. CASE SignalLine(p)
  <2>1. /\ pc[p] = "pushed" /\ pc'[p] = "read"
        /\ \A t \in Producers \ {p} : pc'[t] = pc[t]
        /\ buffer_length' = buffer_length
    BY <1>1, <1>10 DEF SignalLine, Signal, Waiters, ringVars
  <2>2. /\ ProducersAwake(pc') = ProducersAwake(pc)
        /\ AboutToSignalLine(pc') = AboutToSignalLine(pc) - 1
        /\ Waiters(Producers)' = Waiters(Producers)
    <3>1. /\ ProducersAwake(pc') = ProducersAwake(pc)
               + Counted(pc'[p], AwakeLabels) - Counted(pc[p], AwakeLabels)
          /\ AboutToSignalLine(pc') = AboutToSignalLine(pc)
               + Counted(pc'[p], {"pushed"})
               - Counted(pc[p], {"pushed"})
      BY <2>1, ProducerMoved
    <3> QED
      BY <1>1, <2>1, <3>1 DEF Counted, AwakeLabels, Waiters
  <2>3. CASE Waiters(Consumers) = {}
    <3>1. \A t \in Consumers : pc'[t] = pc[t]
      BY <1>1, <1>10, <2>3 DEF SignalLine, Signal
    <3>2. /\ ConsumersAwake(pc') = ConsumersAwake(pc)
          /\ AboutToSignalSpace(pc') = AboutToSignalSpace(pc)
      BY <3>1, ConsumersStay
    <3>3. Waiters(Consumers)' = {}
      BY <2>3, <3>1 DEF Waiters
    <3>4. LinesAreSignalled'
      BY <3>3, WakeupsInCounts
    <3>5. SpaceIsSignalled'
      BY <1>1, <2>1, <2>2, <3>2, WakeupsInCounts DEF NoWakeupLost
    <3> QED
      BY <3>4, <3>5 DEF NoWakeupLost
  <2>4. CASE Waiters(Consumers) # {}
    <3>1. PICK w \in Waiters(Consumers) :
            pc' = [pc EXCEPT ![p] = "read", ![w] = "relock"]
      BY <1>10, <2>4 DEF SignalLine, Signal
    <3>2. /\ w \in Consumers /\ pc[w] = "wait" /\ pc'[w] = "relock"
          /\ \A t \in Consumers \ {w} : pc'[t] = pc[t]
      BY <1>1, <3>1 DEF Waiters
    <3>3. /\ ConsumersAwake(pc') = ConsumersAwake(pc)
               + Counted(pc'[w], AwakeLabels) - Counted(pc[w], AwakeLabels)
          /\ AboutToSignalSpace(pc') = AboutToSignalSpace(pc)
               + Counted(pc'[w], {"popped"})
               - Counted(pc[w], {"popped"})
      BY <3>2, ConsumerMoved
    <3>4. /\ ConsumersAwake(pc') = ConsumersAwake(pc) + 1
          /\ AboutToSignalSpace(pc') = AboutToSignalSpace(pc)
      BY <1>1, <3>2, <3>3 DEF Counted, AwakeLabels
    <3>5. SpaceIsSignalled'
      BY <1>1, <2>1, <2>2, <2>4, <3>4, WakeupsInCounts DEF NoWakeupLost
    <3>6. LinesAreSignalled'
      BY <1>1, <2>1, <2>2, <2>4, <3>4, WakeupsInCounts DEF NoWakeupLost
    <3> QED
      BY <3>5, <3>6 DEF NoWakeupLost
  <2> QED
    BY <2>3, <2>4
<1> QED
  BY <1>2, <1>3, <1>4, <1>5, <1>6, <1>7, <1>8, <1>9, <1>10
     DEF ProducerStep

\* Every step of a consumer keeps the wakeups in step with the buffer.
LEMMA ConsumerWakeups ==
  ASSUME NEW c \in Consumers, ChannelInv, NoWakeupLost, ConsumerStep(c)
  PROVE  NoWakeupLost'
<1>1. /\ TypeOK /\ pc \in [Threads -> ProducerLabels \cup ConsumerLabels]
      /\ Producers \subseteq Threads /\ Consumers \subseteq Threads
      /\ Producers \cap Consumers = {}
      /\ buffer_length \in 0 .. BufferSize /\ BufferSize \in Nat
      /\ ProducersAwake(pc) \in Nat /\ ConsumersAwake(pc) \in Nat
      /\ AboutToSignalLine(pc) \in Nat /\ AboutToSignalSpace(pc) \in Nat
      /\ ProducersAwake(pc') \in Nat /\ ConsumersAwake(pc') \in Nat
      /\ AboutToSignalLine(pc') \in Nat /\ AboutToSignalSpace(pc') \in Nat
      /\ Orphaned => Orphaned'
  BY SizeAssumption, ThreadAssumption, CountsType, OrphanedStays
     DEF ChannelInv, TypeOK, SharedTypeOK, Threads, Next
<1>2. CASE StartConsumer(c)
  <2>1. /\ ConsumersAwake(pc') = ConsumersAwake(pc)
        /\ AboutToSignalSpace(pc') = AboutToSignalSpace(pc)
        /\ ProducersAwake(pc') = ProducersAwake(pc)
        /\ AboutToSignalLine(pc') = AboutToSignalLine(pc)
        /\ Waiters(Producers)' = Waiters(Producers)
        /\ Waiters(Consumers)' \subseteq Waiters(Consumers)
    BY <1>1, <1>2, ConsumerAt DEF StartConsumer, Counted, AwakeLabels
  <2>2. SpaceIsSignalled'
    BY <1>1, <1>2, <2>1, WakeupsInCounts DEF NoWakeupLost, StartConsumer, ringVars
  <2>3. LinesAreSignalled'
    BY <1>1, <1>2, <2>1, WakeupsInCounts DEF NoWakeupLost, StartConsumer, ringVars
  <2> QED
    BY <2>2, <2>3 DEF NoWakeupLost
<1>3. CASE CancelledAtStart(c)
  <2>1. /\ ConsumersAwake(pc') = ConsumersAwake(pc)
        /\ AboutToSignalSpace(pc') = AboutToSignalSpace(pc)
        /\ ProducersAwake(pc') = ProducersAwake(pc)
        /\ AboutToSignalLine(pc') = AboutToSignalLine(pc)
        /\ Waiters(Producers)' = Waiters(Producers)
        /\ Waiters(Consumers)' \subseteq Waiters(Consumers)
    BY <1>1, <1>3, ConsumerAt DEF CancelledAtStart, Counted, AwakeLabels
  <2>2. SpaceIsSignalled'
    BY <1>1, <1>3, <2>1, WakeupsInCounts DEF NoWakeupLost, CancelledAtStart, ringVars
  <2>3. LinesAreSignalled'
    BY <1>1, <1>3, <2>1, WakeupsInCounts DEF NoWakeupLost, CancelledAtStart, ringVars
  <2> QED
    BY <2>2, <2>3 DEF NoWakeupLost
<1>4. CASE LockToPop(c)
  <2>1. /\ ConsumersAwake(pc') = ConsumersAwake(pc) + 1
        /\ AboutToSignalSpace(pc') = AboutToSignalSpace(pc)
        /\ ProducersAwake(pc') = ProducersAwake(pc)
        /\ AboutToSignalLine(pc') = AboutToSignalLine(pc)
        /\ Waiters(Producers)' = Waiters(Producers)
        /\ Waiters(Consumers)' \subseteq Waiters(Consumers)
    BY <1>1, <1>4, ConsumerAt DEF LockToPop, Counted, AwakeLabels
  <2>2. SpaceIsSignalled'
    BY <1>1, <1>4, <2>1, WakeupsInCounts DEF NoWakeupLost, LockToPop, ringVars
  <2>3. LinesAreSignalled'
    BY <1>1, <1>4, <2>1, WakeupsInCounts DEF NoWakeupLost, LockToPop, ringVars
  <2> QED
    BY <2>2, <2>3 DEF NoWakeupLost
<1>5. CASE WaitForLine(c)
  <2>1. /\ ConsumersAwake(pc') = ConsumersAwake(pc) - 1
        /\ AboutToSignalSpace(pc') = AboutToSignalSpace(pc)
        /\ ProducersAwake(pc') = ProducersAwake(pc)
        /\ AboutToSignalLine(pc') = AboutToSignalLine(pc)
        /\ Waiters(Producers)' = Waiters(Producers)
    BY <1>1, <1>5, ConsumerAt DEF WaitForLine, Counted, AwakeLabels
  <2>2. SpaceIsSignalled'
    BY <1>1, <1>5, <2>1, WakeupsInCounts DEF NoWakeupLost, WaitForLine, ringVars, buffer_empty
  <2>3. LinesAreSignalled'
    BY <1>1, <1>5, <2>1, WakeupsInCounts DEF NoWakeupLost, WaitForLine, ringVars, buffer_empty
  <2> QED
    BY <2>2, <2>3 DEF NoWakeupLost
<1>6. CASE Pop(c)
  <2>1. /\ ConsumersAwake(pc') = ConsumersAwake(pc) - 1
        /\ AboutToSignalSpace(pc') = AboutToSignalSpace(pc) + 1
        /\ ProducersAwake(pc') = ProducersAwake(pc)
        /\ AboutToSignalLine(pc') = AboutToSignalLine(pc)
        /\ Waiters(Producers)' = Waiters(Producers)
        /\ Waiters(Consumers)' \subseteq Waiters(Consumers)
    BY <1>1, <1>6, ConsumerAt DEF Pop, Counted, AwakeLabels
  <2>2. buffer_length' = buffer_length - 1
    BY <1>6 DEF Pop, buffer_pop
  <2>3. SpaceIsSignalled'
    BY <1>1, <2>1, <2>2, WakeupsInCounts DEF NoWakeupLost
  <2>4. LinesAreSignalled'
    BY <1>1, <2>1, <2>2, WakeupsInCounts DEF NoWakeupLost
  <2> QED
    BY <2>3, <2>4 DEF NoWakeupLost
<1>7. CASE PrintLine(c)
  <2>1. /\ ConsumersAwake(pc') = ConsumersAwake(pc)
        /\ AboutToSignalSpace(pc') = AboutToSignalSpace(pc)
        /\ ProducersAwake(pc') = ProducersAwake(pc)
        /\ AboutToSignalLine(pc') = AboutToSignalLine(pc)
        /\ Waiters(Producers)' = Waiters(Producers)
        /\ Waiters(Consumers)' \subseteq Waiters(Consumers)
    BY <1>1, <1>7, ConsumerAt DEF PrintLine, Counted, AwakeLabels
  <2>2. SpaceIsSignalled'
    BY <1>1, <1>7, <2>1, WakeupsInCounts DEF NoWakeupLost, PrintLine, ringVars
  <2>3. LinesAreSignalled'
    BY <1>1, <1>7, <2>1, WakeupsInCounts DEF NoWakeupLost, PrintLine, ringVars
  <2> QED
    BY <2>2, <2>3 DEF NoWakeupLost
<1>8. CASE SignalSpace(c)
  <2>1. /\ pc[c] = "popped" /\ pc'[c] = "print"
        /\ \A t \in Consumers \ {c} : pc'[t] = pc[t]
        /\ buffer_length' = buffer_length
    BY <1>1, <1>8 DEF SignalSpace, Signal, Waiters, ringVars
  <2>2. /\ ConsumersAwake(pc') = ConsumersAwake(pc)
        /\ AboutToSignalSpace(pc') = AboutToSignalSpace(pc) - 1
        /\ Waiters(Consumers)' = Waiters(Consumers)
    <3>1. /\ ConsumersAwake(pc') = ConsumersAwake(pc)
               + Counted(pc'[c], AwakeLabels) - Counted(pc[c], AwakeLabels)
          /\ AboutToSignalSpace(pc') = AboutToSignalSpace(pc)
               + Counted(pc'[c], {"popped"})
               - Counted(pc[c], {"popped"})
      BY <2>1, ConsumerMoved
    <3> QED
      BY <1>1, <2>1, <3>1 DEF Counted, AwakeLabels, Waiters
  <2>3. CASE Waiters(Producers) = {}
    <3>1. \A t \in Producers : pc'[t] = pc[t]
      BY <1>1, <1>8, <2>3 DEF SignalSpace, Signal
    <3>2. /\ ProducersAwake(pc') = ProducersAwake(pc)
          /\ AboutToSignalLine(pc') = AboutToSignalLine(pc)
      BY <3>1, ProducersStay
    <3>3. Waiters(Producers)' = {}
      BY <2>3, <3>1 DEF Waiters
    <3>4. SpaceIsSignalled'
      BY <3>3, WakeupsInCounts
    <3>5. LinesAreSignalled'
      BY <1>1, <2>1, <2>2, <3>2, WakeupsInCounts DEF NoWakeupLost
    <3> QED
      BY <3>4, <3>5 DEF NoWakeupLost
  <2>4. CASE Waiters(Producers) # {}
    <3>1. PICK w \in Waiters(Producers) :
            pc' = [pc EXCEPT ![c] = "print", ![w] = "relock"]
      BY <1>8, <2>4 DEF SignalSpace, Signal
    <3>2. /\ w \in Producers /\ pc[w] = "wait" /\ pc'[w] = "relock"
          /\ \A t \in Producers \ {w} : pc'[t] = pc[t]
      BY <1>1, <3>1 DEF Waiters
    <3>3. /\ ProducersAwake(pc') = ProducersAwake(pc)
               + Counted(pc'[w], AwakeLabels) - Counted(pc[w], AwakeLabels)
          /\ AboutToSignalLine(pc') = AboutToSignalLine(pc)
               + Counted(pc'[w], {"pushed"})
               - Counted(pc[w], {"pushed"})
      BY <3>2, ProducerMoved
    <3>4. /\ ProducersAwake(pc') = ProducersAwake(pc) + 1
          /\ AboutToSignalLine(pc') = AboutToSignalLine(pc)
      BY <1>1, <3>2, <3>3 DEF Counted, AwakeLabels
    <3>5. SpaceIsSignalled'
      BY <1>1, <2>1, <2>2, <2>4, <3>4, WakeupsInCounts DEF NoWakeupLost
    <3>6. LinesAreSignalled'
      BY <1>1, <2>1, <2>2, <2>4, <3>4, WakeupsInCounts DEF NoWakeupLost
    <3> QED
      BY <3>5, <3>6 DEF NoWakeupLost
  <2> QED
    BY <2>3, <2>4
<1> QED
  BY <1>2, <1>3, <1>4, <1>5, <1>6, <1>7, <1>8
     DEF ConsumerStep

\* Waking up, being cancelled and unwinding in pthread_cond_wait keep the
\* wakeups of the producers: a cancelled waiter passes its signal on.
LEMMA WaitingProducerWakeups ==
  ASSUME NEW p \in Producers, ChannelInv, NoWakeupLost,
         WaiterStep(p) \/ SpuriousWakeup(p)
  PROVE  NoWakeupLost'
<1>1. /\ TypeOK /\ pc \in [Threads -> ProducerLabels \cup ConsumerLabels]
      /\ Producers \subseteq Threads /\ Consumers \subseteq Threads
      /\ Producers \cap Consumers = {}
      /\ buffer_length \in 0 .. BufferSize /\ BufferSize \in Nat
      /\ ProducersAwake(pc) \in Nat /\ ConsumersAwake(pc) \in Nat
      /\ AboutToSignalLine(pc) \in Nat /\ AboutToSignalSpace(pc) \in Nat
      /\ ProducersAwake(pc') \in Nat /\ ConsumersAwake(pc') \in Nat
      /\ AboutToSignalLine(pc') \in Nat /\ AboutToSignalSpace(pc') \in Nat
      /\ Orphaned => Orphaned'
  BY SizeAssumption, ThreadAssumption, CountsType, OrphanedStays
     DEF ChannelInv, TypeOK, SharedTypeOK, Threads, Next
<1>2. CASE Relock(p)
  <2>1. /\ ProducersAwake(pc') = ProducersAwake(pc)
        /\ AboutToSignalLine(pc') = AboutToSignalLine(pc)
        /\ ConsumersAwake(pc') = ConsumersAwake(pc)
        /\ AboutToSignalSpace(pc') = AboutToSignalSpace(pc)
        /\ Waiters(Consumers)' = Waiters(Consumers)
        /\ Waiters(Producers)' \subseteq Waiters(Producers)
    BY <1>1, <1>2, ProducerAt DEF Relock, Counted, AwakeLabels
  <2>2. SpaceIsSignalled'
    BY <1>1, <1>2, <2>1, WakeupsInCounts DEF NoWakeupLost, Relock, ringVars
  <2>3. LinesAreSignalled'
    BY <1>1, <1>2, <2>1, WakeupsInCounts DEF NoWakeupLost, Relock, ringVars
  <2> QED
    BY <2>2, <2>3 DEF NoWakeupLost
<1>3. CASE SpuriousWakeup(p)
  <2>1. /\ ProducersAwake(pc') = ProducersAwake(pc) + 1
        /\ AboutToSignalLine(pc') = AboutToSignalLine(pc)
        /\ ConsumersAwake(pc') = ConsumersAwake(pc)
        /\ AboutToSignalSpace(pc') = AboutToSignalSpace(pc)
        /\ Waiters(Consumers)' = Waiters(Consumers)
        /\ Waiters(Producers)' \subseteq Waiters(Producers)
    BY <1>1, <1>3, ProducerAt DEF SpuriousWakeup, Counted, AwakeLabels
  <2>2. SpaceIsSignalled'
    BY <1>1, <1>3, <2>1, WakeupsInCounts DEF NoWakeupLost, SpuriousWakeup, ringVars
  <2>3. LinesAreSignalled'
    BY <1>1, <1>3, <2>1, WakeupsInCounts DEF NoWakeupLost, SpuriousWakeup, ringVars
  <2> QED
    BY <2>2, <2>3 DEF NoWakeupLost
<1>4. CASE Unwind(p)
  <2>1. /\ ProducersAwake(pc') = ProducersAwake(pc)
        /\ AboutToSignalLine(pc') = AboutToSignalLine(pc)
        /\ ConsumersAwake(pc') = ConsumersAwake(pc)
        /\ AboutToSignalSpace(pc') = AboutToSignalSpace(pc)
        /\ Waiters(Consumers)' = Waiters(Consumers)
        /\ Waiters(Producers)' \subseteq Waiters(Producers)
    BY <1>1, <1>4, ProducerAt DEF Unwind, Counted, AwakeLabels
  <2>2. SpaceIsSignalled'
    BY <1>1, <1>4, <2>1, WakeupsInCounts DEF NoWakeupLost, Unwind, ringVars
  <2>3. LinesAreSignalled'
    BY <1>1, <1>4, <2>1, WakeupsInCounts DEF NoWakeupLost, Unwind, ringVars
  <2> QED
    BY <2>2, <2>3 DEF NoWakeupLost
<1>5. CASE p \in cancelled /\ At(p, "wait", "unwind") /\ UNCHANGED buffer_length
  <2>1. /\ ProducersAwake(pc') = ProducersAwake(pc)
        /\ AboutToSignalLine(pc') = AboutToSignalLine(pc)
        /\ ConsumersAwake(pc') = ConsumersAwake(pc)
        /\ AboutToSignalSpace(pc') = AboutToSignalSpace(pc)
        /\ Waiters(Consumers)' = Waiters(Consumers)
        /\ Waiters(Producers)' \subseteq Waiters(Producers)
    BY <1>1, <1>5, ProducerAt DEF Counted, AwakeLabels
  <2>2. SpaceIsSignalled'
    BY <1>1, <1>5, <2>1, WakeupsInCounts DEF NoWakeupLost
  <2>3. LinesAreSignalled'
    BY <1>1, <1>5, <2>1, WakeupsInCounts DEF NoWakeupLost
  <2> QED
    BY <2>2, <2>3 DEF NoWakeupLost
<1>6. CASE pc[p] = "relock" /\ Signal(p, "unwind", Producers) /\ UNCHANGED buffer_length
  <2>1. \A t \in Consumers : pc'[t] = pc[t]
    BY <1>1, <1>6 DEF Signal, Waiters
  <2>2. /\ ConsumersAwake(pc') = ConsumersAwake(pc)
        /\ AboutToSignalSpace(pc') = AboutToSignalSpace(pc)
    BY <2>1, ConsumersStay
  <2>3. Waiters(Consumers)' = Waiters(Consumers)
    BY <2>1 DEF Waiters
  <2>4. CASE Waiters(Producers) = {}
    <3>1. pc'[p] = "unwind" /\ \A t \in Producers \ {p} : pc'[t] = pc[t]
      BY <1>1, <1>6, <2>4 DEF Signal
    <3>2. AboutToSignalLine(pc') = AboutToSignalLine(pc)
            + Counted(pc'[p], {"pushed"}) - Counted(pc[p], {"pushed"})
      BY <3>1, ProducerMoved
    <3>3. AboutToSignalLine(pc') = AboutToSignalLine(pc)
      BY <1>1, <1>6, <3>1, <3>2 DEF Counted
    <3>4. Waiters(Producers)' = {}
      BY <2>4, <3>1 DEF Waiters
    <3>5. SpaceIsSignalled'
      BY <3>4, WakeupsInCounts
    <3>6. LinesAreSignalled'
      BY <1>1, <1>6, <2>2, <2>3, <3>3, WakeupsInCounts DEF NoWakeupLost
    <3> QED
      BY <3>5, <3>6 DEF NoWakeupLost
  <2>5. CASE Waiters(Producers) # {}
    <3>1. PICK w \in Waiters(Producers) :
            pc' = [pc EXCEPT ![p] = "unwind", ![w] = "relock"]
      BY <1>6, <2>5 DEF Signal
    <3> DEFINE between == [pc EXCEPT ![p] = "unwind"]
    <3>2. /\ w \in Producers /\ w # p /\ between[w] = "wait" /\ between[p] = "unwind"
          /\ pc'[w] = "relock"
          /\ \A t \in Producers \ {p} : between[t] = pc[t]
          /\ \A t \in Producers \ {w} : pc'[t] = between[t]
      BY <1>1, <1>6, <3>1 DEF Waiters
    <3> HIDE DEF between
    <3>3. ASSUME NEW labels
          PROVE  /\ AtLabels(Producers, between, labels) = AtLabels(Producers, pc, labels)
                      + Counted(between[p], labels) - Counted(pc[p], labels)
                 /\ AtLabels(Producers, pc', labels) = AtLabels(Producers, between, labels)
                      + Counted(pc'[w], labels) - Counted(between[w], labels)
      <4>1. IsFiniteSet(Producers)
        BY CountAssumption
      <4>2. AtLabels(Producers, between, labels) = AtLabels(Producers, pc, labels)
              + Counted(between[p], labels) - Counted(pc[p], labels)
        BY <3>2, <4>1, CountUpdate
      <4>3. AtLabels(Producers, pc', labels) = AtLabels(Producers, between, labels)
              + Counted(pc'[w], labels) - Counted(between[w], labels)
        BY <3>2, <4>1, CountUpdate
      <4> QED
        BY <4>2, <4>3
    <3>4. /\ ProducersAwake(between) \in Nat /\ AboutToSignalLine(between) \in Nat
          /\ ProducersAwake(between) = ProducersAwake(pc)
                + Counted(between[p], AwakeLabels) - Counted(pc[p], AwakeLabels)
          /\ ProducersAwake(pc') = ProducersAwake(between)
                + Counted(pc'[w], AwakeLabels) - Counted(between[w], AwakeLabels)
          /\ AboutToSignalLine(between) = AboutToSignalLine(pc)
                + Counted(between[p], {"pushed"}) - Counted(pc[p], {"pushed"})
          /\ AboutToSignalLine(pc') = AboutToSignalLine(between)
                + Counted(pc'[w], {"pushed"}) - Counted(between[w], {"pushed"})
      BY <3>3, CountsType DEF ProducersAwake, AboutToSignalLine
    <3>5. ProducersAwake(pc') = ProducersAwake(pc) /\ AboutToSignalLine(pc') = AboutToSignalLine(pc)
      BY <1>1, <1>6, <3>2, <3>4 DEF Counted, AwakeLabels
    <3>6. SpaceIsSignalled'
      BY <1>1, <1>6, <2>2, <2>5, <3>5, WakeupsInCounts DEF NoWakeupLost
    <3>7. LinesAreSignalled'
      BY <1>1, <1>6, <2>2, <2>3, <3>5, WakeupsInCounts DEF NoWakeupLost
    <3> QED
      BY <3>6, <3>7 DEF NoWakeupLost
  <2> QED
    BY <2>4, <2>5
<1>7. CancelledInWait(p) =>
         /\ p \in cancelled /\ UNCHANGED buffer_length
         /\ \/ At(p, "wait", "unwind")
            \/ pc[p] = "relock" /\ Signal(p, "unwind", Producers)
  BY <1>1 DEF CancelledInWait, CancelledUnwoken, CancelledWoken, Colleagues,
              ringVars
<1> QED
  BY <1>2, <1>3, <1>4, <1>5, <1>6, <1>7 DEF WaiterStep

\* Waking up, being cancelled and unwinding in pthread_cond_wait keep the
\* wakeups of the consumers: a cancelled waiter passes its signal on.
LEMMA WaitingConsumerWakeups ==
  ASSUME NEW c \in Consumers, ChannelInv, NoWakeupLost,
         WaiterStep(c) \/ SpuriousWakeup(c)
  PROVE  NoWakeupLost'
<1>1. /\ TypeOK /\ pc \in [Threads -> ProducerLabels \cup ConsumerLabels]
      /\ Producers \subseteq Threads /\ Consumers \subseteq Threads
      /\ Producers \cap Consumers = {}
      /\ buffer_length \in 0 .. BufferSize /\ BufferSize \in Nat
      /\ ProducersAwake(pc) \in Nat /\ ConsumersAwake(pc) \in Nat
      /\ AboutToSignalLine(pc) \in Nat /\ AboutToSignalSpace(pc) \in Nat
      /\ ProducersAwake(pc') \in Nat /\ ConsumersAwake(pc') \in Nat
      /\ AboutToSignalLine(pc') \in Nat /\ AboutToSignalSpace(pc') \in Nat
      /\ Orphaned => Orphaned'
  BY SizeAssumption, ThreadAssumption, CountsType, OrphanedStays
     DEF ChannelInv, TypeOK, SharedTypeOK, Threads, Next
<1>2. CASE Relock(c)
  <2>1. /\ ConsumersAwake(pc') = ConsumersAwake(pc)
        /\ AboutToSignalSpace(pc') = AboutToSignalSpace(pc)
        /\ ProducersAwake(pc') = ProducersAwake(pc)
        /\ AboutToSignalLine(pc') = AboutToSignalLine(pc)
        /\ Waiters(Producers)' = Waiters(Producers)
        /\ Waiters(Consumers)' \subseteq Waiters(Consumers)
    BY <1>1, <1>2, ConsumerAt DEF Relock, Counted, AwakeLabels
  <2>2. SpaceIsSignalled'
    BY <1>1, <1>2, <2>1, WakeupsInCounts DEF NoWakeupLost, Relock, ringVars
  <2>3. LinesAreSignalled'
    BY <1>1, <1>2, <2>1, WakeupsInCounts DEF NoWakeupLost, Relock, ringVars
  <2> QED
    BY <2>2, <2>3 DEF NoWakeupLost
<1>3. CASE SpuriousWakeup(c)
  <2>1. /\ ConsumersAwake(pc') = ConsumersAwake(pc) + 1
        /\ AboutToSignalSpace(pc') = AboutToSignalSpace(pc)
        /\ ProducersAwake(pc') = ProducersAwake(pc)
        /\ AboutToSignalLine(pc') = AboutToSignalLine(pc)
        /\ Waiters(Producers)' = Waiters(Producers)
        /\ Waiters(Consumers)' \subseteq Waiters(Consumers)
    BY <1>1, <1>3, ConsumerAt DEF SpuriousWakeup, Counted, AwakeLabels
  <2>2. SpaceIsSignalled'
    BY <1>1, <1>3, <2>1, WakeupsInCounts DEF NoWakeupLost, SpuriousWakeup, ringVars
  <2>3. LinesAreSignalled'
    BY <1>1, <1>3, <2>1, WakeupsInCounts DEF NoWakeupLost, SpuriousWakeup, ringVars
  <2> QED
    BY <2>2, <2>3 DEF NoWakeupLost
<1>4. CASE Unwind(c)
  <2>1. /\ ConsumersAwake(pc') = ConsumersAwake(pc)
        /\ AboutToSignalSpace(pc') = AboutToSignalSpace(pc)
        /\ ProducersAwake(pc') = ProducersAwake(pc)
        /\ AboutToSignalLine(pc') = AboutToSignalLine(pc)
        /\ Waiters(Producers)' = Waiters(Producers)
        /\ Waiters(Consumers)' \subseteq Waiters(Consumers)
    BY <1>1, <1>4, ConsumerAt DEF Unwind, Counted, AwakeLabels
  <2>2. SpaceIsSignalled'
    BY <1>1, <1>4, <2>1, WakeupsInCounts DEF NoWakeupLost, Unwind, ringVars
  <2>3. LinesAreSignalled'
    BY <1>1, <1>4, <2>1, WakeupsInCounts DEF NoWakeupLost, Unwind, ringVars
  <2> QED
    BY <2>2, <2>3 DEF NoWakeupLost
<1>5. CASE c \in cancelled /\ At(c, "wait", "unwind") /\ UNCHANGED buffer_length
  <2>1. /\ ConsumersAwake(pc') = ConsumersAwake(pc)
        /\ AboutToSignalSpace(pc') = AboutToSignalSpace(pc)
        /\ ProducersAwake(pc') = ProducersAwake(pc)
        /\ AboutToSignalLine(pc') = AboutToSignalLine(pc)
        /\ Waiters(Producers)' = Waiters(Producers)
        /\ Waiters(Consumers)' \subseteq Waiters(Consumers)
    BY <1>1, <1>5, ConsumerAt DEF Counted, AwakeLabels
  <2>2. SpaceIsSignalled'
    BY <1>1, <1>5, <2>1, WakeupsInCounts DEF NoWakeupLost
  <2>3. LinesAreSignalled'
    BY <1>1, <1>5, <2>1, WakeupsInCounts DEF NoWakeupLost
  <2> QED
    BY <2>2, <2>3 DEF NoWakeupLost
<1>6. CASE pc[c] = "relock" /\ Signal(c, "unwind", Consumers) /\ UNCHANGED buffer_length
  <2>1. \A t \in Producers : pc'[t] = pc[t]
    BY <1>1, <1>6 DEF Signal, Waiters
  <2>2. /\ ProducersAwake(pc') = ProducersAwake(pc)
        /\ AboutToSignalLine(pc') = AboutToSignalLine(pc)
    BY <2>1, ProducersStay
  <2>3. Waiters(Producers)' = Waiters(Producers)
    BY <2>1 DEF Waiters
  <2>4. CASE Waiters(Consumers) = {}
    <3>1. pc'[c] = "unwind" /\ \A t \in Consumers \ {c} : pc'[t] = pc[t]
      BY <1>1, <1>6, <2>4 DEF Signal
    <3>2. AboutToSignalSpace(pc') = AboutToSignalSpace(pc)
            + Counted(pc'[c], {"popped"}) - Counted(pc[c], {"popped"})
      BY <3>1, ConsumerMoved
    <3>3. AboutToSignalSpace(pc') = AboutToSignalSpace(pc)
      BY <1>1, <1>6, <3>1, <3>2 DEF Counted
    <3>4. Waiters(Consumers)' = {}
      BY <2>4, <3>1 DEF Waiters
    <3>5. LinesAreSignalled'
      BY <3>4, WakeupsInCounts
    <3>6. SpaceIsSignalled'
      BY <1>1, <1>6, <2>2, <2>3, <3>3, WakeupsInCounts DEF NoWakeupLost
    <3> QED
      BY <3>5, <3>6 DEF NoWakeupLost
  <2>5. CASE Waiters(Consumers) # {}
    <3>1. PICK w \in Waiters(Consumers) :
            pc' = [pc EXCEPT ![c] = "unwind", ![w] = "relock"]
      BY <1>6, <2>5 DEF Signal
    <3> DEFINE between == [pc EXCEPT ![c] = "unwind"]
    <3>2. /\ w \in Consumers /\ w # c /\ between[w] = "wait" /\ between[c] = "unwind"
          /\ pc'[w] = "relock"
          /\ \A t \in Consumers \ {c} : between[t] = pc[t]
          /\ \A t \in Consumers \ {w} : pc'[t] = between[t]
      BY <1>1, <1>6, <3>1 DEF Waiters
    <3> HIDE DEF between
    <3>3. ASSUME NEW labels
          PROVE  /\ AtLabels(Consumers, between, labels) = AtLabels(Consumers, pc, labels)
                      + Counted(between[c], labels) - Counted(pc[c], labels)
                 /\ AtLabels(Consumers, pc', labels) = AtLabels(Consumers, between, labels)
                      + Counted(pc'[w], labels) - Counted(between[w], labels)
      <4>1. IsFiniteSet(Consumers)
        BY CountAssumption
      <4>2. AtLabels(Consumers, between, labels) = AtLabels(Consumers, pc, labels)
              + Counted(between[c], labels) - Counted(pc[c], labels)
        BY <3>2, <4>1, CountUpdate
      <4>3. AtLabels(Consumers, pc', labels) = AtLabels(Consumers, between, labels)
              + Counted(pc'[w], labels) - Counted(between[w], labels)
        BY <3>2, <4>1, CountUpdate
      <4> QED
        BY <4>2, <4>3
    <3>4. /\ ConsumersAwake(between) \in Nat /\ AboutToSignalSpace(between) \in Nat
          /\ ConsumersAwake(between) = ConsumersAwake(pc)
                + Counted(between[c], AwakeLabels) - Counted(pc[c], AwakeLabels)
          /\ ConsumersAwake(pc') = ConsumersAwake(between)
                + Counted(pc'[w], AwakeLabels) - Counted(between[w], AwakeLabels)
          /\ AboutToSignalSpace(between) = AboutToSignalSpace(pc)
                + Counted(between[c], {"popped"}) - Counted(pc[c], {"popped"})
          /\ AboutToSignalSpace(pc') = AboutToSignalSpace(between)
                + Counted(pc'[w], {"popped"}) - Counted(between[w], {"popped"})
      BY <3>3, CountsType DEF ConsumersAwake, AboutToSignalSpace
    <3>5. ConsumersAwake(pc') = ConsumersAwake(pc) /\ AboutToSignalSpace(pc') = AboutToSignalSpace(pc)
      BY <1>1, <1>6, <3>2, <3>4 DEF Counted, AwakeLabels
    <3>6. LinesAreSignalled'
      BY <1>1, <1>6, <2>2, <2>5, <3>5, WakeupsInCounts DEF NoWakeupLost
    <3>7. SpaceIsSignalled'
      BY <1>1, <1>6, <2>2, <2>3, <3>5, WakeupsInCounts DEF NoWakeupLost
    <3> QED
      BY <3>6, <3>7 DEF NoWakeupLost
  <2> QED
    BY <2>4, <2>5
<1>7. CancelledInWait(c) =>
         /\ c \in cancelled /\ UNCHANGED buffer_length
         /\ \/ At(c, "wait", "unwind")
            \/ pc[c] = "relock" /\ Signal(c, "unwind", Consumers)
  BY <1>1 DEF CancelledInWait, CancelledUnwoken, CancelledWoken, Colleagues,
              ringVars
<1> QED
  BY <1>2, <1>3, <1>4, <1>5, <1>6, <1>7 DEF WaiterStep

\* Cancelling and joining wake nobody and leave the buffer alone.
LEMMA RunWakeups ==
  ASSUME NoWakeupLost, RunStep \/ UNCHANGED vars PROVE NoWakeupLost'
<1>1. UNCHANGED <<pc, buffer_length, buffer_mx>>
  BY DEF RunStep, MainStep, vars, ringVars
<1> QED
  BY <1>1 DEF NoWakeupLost, SpaceIsSignalled, LinesAreSignalled, Waiters, Orphaned,
              Awake

\* No wakeup is lost on either side of the monitor, for any number of threads
\* and cells, whoever overtakes whom, wakes spuriously, or is cancelled in
\* pthread_cond_wait before or after it was signalled.
THEOREM WakeupsReachSomebody == Spec => []NoWakeupLost
<1>1. Init => NoWakeupLost
  BY ThreadAssumption
     DEF Init, SharedInit, NoWakeupLost, SpaceIsSignalled, LinesAreSignalled,
         Waiters, Threads
<1>2. ChannelInv /\ NoWakeupLost /\ [Next]_vars => NoWakeupLost'
  BY ProducerWakeups, ConsumerWakeups, WaitingProducerWakeups,
     WaitingConsumerWakeups, RunWakeups DEF Next, Threads
<1> QED
  BY ChannelInvariance, <1>1, <1>2, PTL DEF Spec
-----------------------------------------------------------------------------
\* LinesLeftOnlyByDismissal: what is pushed is taken, if nobody is dismissed, and
\* what is taken is printed.

\* A step of a producer moves no other thread, except that it may wake a waiting
\* consumer.
LEMMA ProducerStepMoves ==
  ASSUME TypeOK, NEW p \in Producers, ProducerStep(p)
  PROVE  /\ \A c \in Consumers :
              pc'[c] = pc[c] \/ (pc[c] = "wait" /\ pc'[c] = "relock")
         /\ \A q \in Producers \ {p} : pc'[q] = pc[q]
         /\ pc[p] \notin {"wait", "relock", "unwind", "ended"}
         /\ pc'[p] # "unwind"
<1>1. /\ pc \in [Threads -> ProducerLabels \cup ConsumerLabels]
      /\ Consumers \subseteq Threads /\ Producers \subseteq Threads
      /\ Producers \cap Consumers = {}
  BY ThreadAssumption DEF TypeOK, Threads
<1>2. CASE SignalLine(p)
  <2>1. pc[p] = "pushed"
    BY <1>2 DEF SignalLine
  <2>2. CASE pc' = [pc EXCEPT ![p] = "read"]
    BY <1>1, <2>1, <2>2
  <2>3. ASSUME NEW w \in Consumers, pc[w] = "wait",
               pc' = [pc EXCEPT ![p] = "read", ![w] = "relock"]
        PROVE  /\ pc'[p] = "read" /\ pc'[w] = "relock"
               /\ \A t \in Threads \ {p, w} : pc'[t] = pc[t]
    BY <1>1, <2>1, <2>3
  <2> QED
    BY <1>1, <1>2, <2>1, <2>2, <2>3 DEF SignalLine, Signal, Waiters
<1>3. CASE ~SignalLine(p)
  <2>1. \E from \in {"start", "read", "lock", "push", "pushed"},
           to \in ProducerLabels \ {"unwind"} : At(p, from, to)
    BY <1>3 DEF ProducerStep, OpenFile, ReadLine, EndOfFile, CancelledOutside,
                LockToPush, WaitForSpace, Push, CancelledInLog, ProducerLabels
  <2>2. /\ \A t \in Threads \ {p} : pc'[t] = pc[t]
        /\ pc[p] \notin {"wait", "relock", "unwind", "ended"}
        /\ pc'[p] # "unwind"
    BY <1>1, <2>1 DEF At
  <2> QED
    BY <1>1, <2>2
<1> QED
  BY <1>2, <1>3

\* A step of a consumer moves no other thread, except that it may wake a waiting
\* producer; only cancellation before it disabled it makes it end.
LEMMA ConsumerStepMoves ==
  ASSUME TypeOK, NEW c \in Consumers, ConsumerStep(c)
  PROVE  /\ \A p \in Producers :
              pc'[p] = pc[p] \/ (pc[p] = "wait" /\ pc'[p] = "relock")
         /\ \A d \in Consumers \ {c} : pc'[d] = pc[d]
         /\ pc[c] \notin {"wait", "relock", "unwind", "ended"}
         /\ pc'[c] \notin {"relock", "unwind"}
         /\ pc'[c] = "ended" => c \in cancelled
<1>1. /\ pc \in [Threads -> ProducerLabels \cup ConsumerLabels]
      /\ Consumers \subseteq Threads /\ Producers \subseteq Threads
      /\ Producers \cap Consumers = {}
  BY ThreadAssumption DEF TypeOK, Threads
<1>2. CASE SignalSpace(c)
  <2>1. pc[c] = "popped"
    BY <1>2 DEF SignalSpace
  <2>2. CASE pc' = [pc EXCEPT ![c] = "print"]
    BY <1>1, <2>1, <2>2
  <2>3. ASSUME NEW w \in Producers, pc[w] = "wait",
               pc' = [pc EXCEPT ![c] = "print", ![w] = "relock"]
        PROVE  /\ pc'[c] = "print" /\ pc'[w] = "relock"
               /\ \A t \in Threads \ {c, w} : pc'[t] = pc[t]
    BY <1>1, <2>1, <2>3
  <2> QED
    BY <1>1, <1>2, <2>1, <2>2, <2>3 DEF SignalSpace, Signal, Waiters
<1>3. CASE ~SignalSpace(c)
  <2>1. \E from \in {"start", "lock", "pop", "print"},
           to \in {"lock", "pop", "popped", "wait", "ended"} :
          At(c, from, to) /\ (to = "ended" => c \in cancelled)
    BY <1>3 DEF ConsumerStep, StartConsumer, CancelledAtStart, LockToPop,
                WaitForLine, Pop, PrintLine
  <2>2. /\ \A t \in Threads \ {c} : pc'[t] = pc[t]
        /\ pc[c] \notin {"wait", "relock", "unwind", "ended"}
        /\ pc'[c] \notin {"relock", "unwind"}
        /\ pc'[c] = "ended" => c \in cancelled
    BY <1>1, <2>1 DEF At
  <2> QED
    BY <1>1, <2>2
<1> QED
  BY <1>2, <1>3

\* What pthread_cond_wait does to the threads' labels: the waiter relocks, or it
\* is cancelled, and if it was signalled, a colleague may get the signal.
LEMMA WaiterStepMoves ==
  ASSUME TypeOK, NEW t \in Threads, WaiterStep(t) \/ SpuriousWakeup(t)
  PROVE  /\ \A u \in Threads \ {t} :
              \/ pc'[u] = pc[u]
              \/ pc[u] = "wait" /\ pc'[u] = "relock"
         /\ \/ pc[t] = "relock" /\ pc'[t] = IF t \in Producers THEN "push" ELSE "pop"
            \/ pc[t] = "wait" /\ pc'[t] = "relock"
            \/ pc[t] = "wait" /\ pc'[t] = "unwind" /\ t \in cancelled
            \/ /\ pc[t] = "relock" /\ pc'[t] = "unwind" /\ t \in cancelled
               /\ t \in Consumers => dismissed' # {}
            \/ pc[t] = "unwind" /\ pc'[t] = "ended"
<1>1. pc \in [Threads -> ProducerLabels \cup ConsumerLabels]
  BY DEF TypeOK
<1>2. CASE Relock(t) \/ Unwind(t) \/ SpuriousWakeup(t)
  BY <1>1, <1>2 DEF Relock, Unwind, SpuriousWakeup, At
<1>3. CASE CancelledInWait(t) /\ CancelledUnwoken(t)
  BY <1>1, <1>3 DEF CancelledInWait, CancelledUnwoken, At
<1>4. CASE CancelledInWait(t) /\ CancelledWoken(t)
  <2>1. Colleagues(t) \subseteq Threads
    BY DEF Colleagues, Threads
  <2> QED
    BY <1>1, <1>4, <2>1 DEF CancelledInWait, CancelledWoken, Signal, Waiters
<1> QED
  BY <1>2, <1>3, <1>4 DEF WaiterStep, CancelledInWait

\* Every step keeps PrintedInv: between buffer_pop and printf a consumer is not
\* at a cancellation point that acts.
LEMMA StepPrinted ==
  ASSUME ChannelInv, PrintedInv, [Next]_vars PROVE PrintedInv'
<1>1. /\ pc \in [Threads -> ProducerLabels \cup ConsumerLabels]
      /\ SharedTypeOK /\ Consumers \subseteq Threads /\ Producers \subseteq Threads
  BY DEF ChannelInv, TypeOK, Threads
<1>2. ASSUME NEW c \in Consumers, Pop(c) PROVE PrintedInv'
  <2>1. /\ ~Holds(c) /\ pc[c] # "ended" /\ pc' = [pc EXCEPT ![c] = "popped"]
        /\ buffer_pop(c) /\ UNCHANGED <<mpc, printed>>
    BY <1>2 DEF Pop, At, Holds
  <2> QED
    BY <1>1, <2>1, PrintedPop
<1>3. ASSUME NEW c \in Consumers, PrintLine(c) PROVE PrintedInv'
  <2>1. /\ pc[c] = "print" /\ pc' = [pc EXCEPT ![c] = "lock"]
        /\ printed' = IF cl_shouldprint(line[c]) THEN printed \cup {line[c]}
                                                 ELSE printed
        /\ UNCHANGED <<mpc, line, taken>>
    BY <1>3 DEF PrintLine, At, history
  <2> QED
    BY <1>1, <2>1, PrintedPrint
<1>4. ASSUME UNCHANGED <<line, printed, taken, mpc>>,
             \A c \in Consumers :
               /\ pc[c] \in {"popped", "print"} <=> pc'[c] \in {"popped", "print"}
               /\ pc[c] = "ended" => pc'[c] = "ended"
      PROVE  PrintedInv'
  BY <1>4, PrintedUnchanged DEF PrintedInv, ConsumersJoined, Ended
<1>5. ASSUME NEW c \in Consumers, ConsumerStep(c), ~Pop(c), ~PrintLine(c)
      PROVE  PrintedInv'
  <2>1. UNCHANGED <<line, printed, taken, mpc>>
    BY <1>5 DEF ConsumerStep, StartConsumer, CancelledAtStart, LockToPop,
                WaitForLine, SignalSpace, history
  <2>2. /\ \A d \in Consumers \ {c} : pc'[d] = pc[d]
        /\ pc[c] \in {"popped", "print"} <=> pc'[c] \in {"popped", "print"}
        /\ pc[c] # "ended"
    BY <1>1, <1>5, ThreadAssumption
       DEF ConsumerStep, StartConsumer, CancelledAtStart, LockToPop, WaitForLine,
           SignalSpace, Signal, Waiters, At
  <2> QED
    BY <1>4, <2>1, <2>2
<1>6. ASSUME NEW p \in Producers, ProducerStep(p) PROVE PrintedInv'
  <2>1. UNCHANGED <<line, printed, taken, mpc>>
    BY <1>6 DEF ProducerStep, OpenFile, ReadLine, EndOfFile, CancelledOutside,
                LockToPush, WaitForSpace, Push, buffer_push, CancelledInLog,
                SignalLine, history
  <2>2. \A d \in Consumers : pc'[d] = pc[d] \/ (pc[d] = "wait" /\ pc'[d] = "relock")
    BY <1>6, ProducerStepMoves DEF ChannelInv
  <2> QED
    BY <1>4, <2>1, <2>2
<1>7. ASSUME NEW t \in Threads, WaiterStep(t) \/ SpuriousWakeup(t)
      PROVE  PrintedInv'
  <2>1. UNCHANGED <<line, printed, taken, mpc>>
    BY <1>7 DEF WaiterStep, Relock, CancelledInWait, Unwind, SpuriousWakeup, history
  <2>2. \A d \in Consumers :
          \/ pc'[d] = pc[d]
          \/ /\ pc[d] \in {"wait", "relock", "unwind"}
             /\ pc'[d] \notin {"popped", "print"}
    BY <1>1, <1>7, WaiterStepMoves DEF ChannelInv
  <2> QED
    BY <1>4, <2>1, <2>2
<1>8. CASE RunStep \/ UNCHANGED vars
  <2>1. UNCHANGED <<line, printed, taken, pc>>
    BY <1>8 DEF RunStep, MainStep, vars, history
  <2>2. mpc' = "done" => mpc = "done" \/ Ended(Consumers)
    BY <1>8 DEF RunStep, MainStep, TimeIsUp, CancelThreads, WaitForThreads, vars
  <2> QED
    BY <2>1, <2>2, PrintedUnchanged DEF PrintedInv, ConsumersJoined, Ended
<1> QED
  BY <1>2, <1>3, <1>5, <1>6, <1>7, <1>8 DEF Next

\* Every selected line that was taken is printed or with the consumer that took
\* it, in every reachable state.
THEOREM PrintedInvariance == Spec => []PrintedInv
<1>1. Init => PrintedInv
  BY ThreadAssumption
     DEF Init, SharedInit, PrintedInv, PrintedWasTaken, HeldWasTaken,
         TakenIsKept, ConsumersJoined, Holds, Threads
<1>2. ChannelInv /\ PrintedInv /\ [Next]_vars => PrintedInv'
  BY StepPrinted
<1> QED
  BY ChannelInvariance, <1>1, <1>2, PTL DEF Spec

\* Cancellation never strikes a consumer that holds a line: when run is done,
\* every line taken that cl_shouldprint selects has been printed.
THEOREM NothingTakenIsLost == Spec => []TakenLinesPrinted
<1>1. ChannelInv /\ PrintedInv => TakenLinesPrinted
  BY PrintedAtEnd DEF ChannelInv, TypeOK
<1> QED
  BY ChannelInvariance, PrintedInvariance, <1>1, PTL

\* run never cancels producers, and consumers only after joining the producers.
LEMMA StepCancelsLate ==
  ASSUME ToTheEnd, ChannelInv, CancelsLate, [Next]_vars PROVE CancelsLate'
<1>1. /\ TypeOK /\ Producers \subseteq Threads /\ Consumers \subseteq Threads
      /\ Producers \cap Consumers = {}
  BY ThreadAssumption DEF ChannelInv, Threads
<1>2. ASSUME NEW p \in Producers, ProducerStep(p) PROVE CancelsLate'
  <2>1. UNCHANGED <<mpc, cancelled>>
    BY <1>2 DEF ProducerStep, OpenFile, ReadLine, EndOfFile, CancelledOutside,
                LockToPush, WaitForSpace, Push, CancelledInLog, SignalLine
  <2>2. mpc = "joinP"
    BY <1>1, <1>2, ProducerStepMoves DEF CancelsLate, Ended
  <2> QED
    BY <1>1, <1>2, <2>1, <2>2, ProducerStepMoves DEF CancelsLate, Ended
<1>3. ASSUME NEW c \in Consumers, ConsumerStep(c) PROVE CancelsLate'
  <2>1. UNCHANGED <<mpc, cancelled>>
    BY <1>3 DEF ConsumerStep, StartConsumer, CancelledAtStart, LockToPop,
                WaitForLine, Pop, SignalSpace, PrintLine
  <2>2. mpc # "joinP" => \A p \in Producers : pc'[p] = "ended"
    BY <1>1, <1>3, ConsumerStepMoves DEF CancelsLate, Ended
  <2>3. \A d \in Consumers : pc'[d] \in {"unwind", "ended"} => d \in cancelled
    BY <1>1, <1>3, ConsumerStepMoves DEF CancelsLate
  <2>4. \A p \in Producers : pc'[p] # "unwind"
    BY <1>1, <1>3, ConsumerStepMoves DEF CancelsLate
  <2> QED
    BY <2>1, <2>2, <2>3, <2>4 DEF CancelsLate, Ended
<1>4. ASSUME NEW t \in Threads, WaiterStep(t) \/ SpuriousWakeup(t)
      PROVE  CancelsLate'
  <2>1. UNCHANGED <<mpc, cancelled>>
    BY <1>4 DEF WaiterStep, Relock, CancelledInWait, Unwind, SpuriousWakeup
  <2>2. /\ \A u \in Threads \ {t} :
             pc'[u] = pc[u] \/ (pc[u] = "wait" /\ pc'[u] = "relock")
        /\ \/ pc[t] \in {"wait", "relock"} /\ pc'[t] \in {"relock", "push", "pop"}
           \/ pc[t] \in {"wait", "relock"} /\ pc'[t] = "unwind" /\ t \in cancelled
           \/ pc[t] = "unwind" /\ pc'[t] = "ended"
    BY <1>1, <1>4, WaiterStepMoves
  <2>3. mpc # "joinP" => \A p \in Producers : pc'[p] = "ended"
    BY <1>1, <2>2 DEF CancelsLate, Ended
  <2>4. \A d \in Consumers : pc'[d] \in {"unwind", "ended"} => d \in cancelled
    BY <1>1, <2>2 DEF CancelsLate
  <2>5. \A p \in Producers : pc'[p] # "unwind"
    BY <1>1, <2>2 DEF CancelsLate
  <2> QED
    BY <2>1, <2>3, <2>4, <2>5 DEF CancelsLate, Ended
<1>5. CASE RunStep \/ UNCHANGED vars
  <2>1. pc' = pc
    BY <1>5 DEF RunStep, MainStep, vars
  <2> QED
    BY <1>5, <2>1
       DEF ToTheEnd, CancelsLate, RunStep, MainStep, TimeIsUp, CancelThreads,
           WaitForThreads, Ended, vars
<1> QED
  BY <1>2, <1>3, <1>4, <1>5 DEF Next

\* A producer that is not cancelled ends at the end of its file, with all of it
\* pushed.
LEMMA StepReadToTheEnd ==
  ASSUME ToTheEnd, ChannelInv, CancelsLate, ReadToTheEnd, [Next]_vars
  PROVE  ReadToTheEnd'
<1>1. /\ TypeOK /\ Producers \subseteq Threads /\ Consumers \subseteq Threads
      /\ Producers \cap Consumers = {}
      /\ pc \in [Threads -> ProducerLabels \cup ConsumerLabels]
      /\ pos \in [Producers -> 0 .. Len(File)]
      /\ sent \in [Producers -> 0 .. Len(File)]
  BY ThreadAssumption DEF ChannelInv, Threads, TypeOK, SharedTypeOK
<1>2. ASSUME UNCHANGED <<pos, sent>>,
             \A p \in Producers : pc'[p] = "ended" => pc[p] = "ended"
      PROVE  ReadToTheEnd'
  BY <1>2 DEF ReadToTheEnd, NoMoreLines
<1>3. ASSUME NEW p \in Producers, ProducerStep(p) PROVE ReadToTheEnd'
  <2>1. /\ \A q \in Producers \ {p} : pc'[q] = pc[q]
        /\ pc[p] # "ended" /\ p \notin cancelled
    BY <1>1, <1>3, ProducerStepMoves DEF CancelsLate
  <2>2. CASE ReadLine(p)
    BY <1>1, <2>1, <2>2 DEF ReadLine, At, history, ReadToTheEnd, NoMoreLines
  <2>3. CASE Push(p)
    BY <1>1, <2>1, <2>3 DEF Push, buffer_push, At, ReadToTheEnd, NoMoreLines
  <2>4. CASE EndOfFile(p)
    <3>1. pos[p] = sent[p]
      BY <2>4 DEF EndOfFile, At, ChannelInv, ReadAhead
    <3> QED
      BY <1>1, <2>1, <2>4, <3>1
         DEF EndOfFile, At, history, ReadToTheEnd, NoMoreLines
  <2>5. CASE OpenFile(p) \/ LockToPush(p) \/ WaitForSpace(p) \/ SignalLine(p)
    <3>1. UNCHANGED <<pos, sent>>
      BY <2>5 DEF OpenFile, LockToPush, WaitForSpace, SignalLine, history
    <3>2. pc'[p] # "ended"
      BY <1>1, <2>5
         DEF ToTheEnd, OpenFile, LockToPush, WaitForSpace, SignalLine, Signal,
             Waiters, At
    <3> QED
      BY <1>2, <2>1, <3>1, <3>2
  <2> QED
    BY <1>3, <2>1, <2>2, <2>3, <2>4, <2>5
       DEF ProducerStep, CancelledOutside, CancelledInLog
<1>4. ASSUME NEW c \in Consumers, ConsumerStep(c) PROVE ReadToTheEnd'
  <2>1. UNCHANGED <<pos, sent>>
    BY <1>4 DEF ConsumerStep, StartConsumer, CancelledAtStart, LockToPop,
                WaitForLine, Pop, buffer_pop, SignalSpace, PrintLine, history
  <2> QED
    BY <1>1, <1>2, <1>4, <2>1, ConsumerStepMoves
<1>5. ASSUME NEW t \in Threads, WaiterStep(t) \/ SpuriousWakeup(t)
      PROVE  ReadToTheEnd'
  <2>1. UNCHANGED <<pos, sent>>
    BY <1>5 DEF WaiterStep, Relock, CancelledInWait, Unwind, SpuriousWakeup,
                history
  <2>2. \A p \in Producers : pc'[p] = "ended" => pc[p] = "ended"
    BY <1>1, <1>5, WaiterStepMoves DEF CancelsLate
  <2> QED
    BY <1>2, <2>1, <2>2
<1>6. CASE RunStep \/ UNCHANGED vars
  BY <1>2, <1>6 DEF RunStep, MainStep, vars, history
<1> QED
  BY <1>3, <1>4, <1>5, <1>6 DEF Next

\* The log grows by the line a producer pushes, which follows the last one it
\* pushed, and buffer_pop takes the log's next line.
LEMMA StepLogComplete ==
  ASSUME ChannelInv, LogComplete, [Next]_vars PROVE LogComplete'
<1>1. /\ log \in Seq(Lines) /\ taken \in Seq(Lines)
      /\ sent \in [Producers -> 0 .. Len(File)]
      /\ pos \in [Producers -> 0 .. Len(File)]
      /\ DOMAIN File = 1 .. Len(File) /\ Len(File) \in Nat
      /\ \A i \in DOMAIN File : File[i] \in Nat
      /\ RingFIFO
  BY FileAssumption DEF ChannelInv, TypeOK, SharedTypeOK
<1>2. CASE UNCHANGED history
  BY <1>2 DEF LogComplete, history
<1>3. ASSUME NEW p \in Producers, Push(p) PROVE LogComplete'
  <2>1. LineRead(p) /\ buffer_push(p)
    BY <1>3 DEF Push, At, ChannelInv, ReadAhead
  <2>2. /\ log' = Append(log, <<p, pos[p]>>) /\ taken' = taken
        /\ sent' = [sent EXCEPT ![p] = pos[p]]
        /\ pos[p] \in DOMAIN File /\ sent[p] < pos[p] /\ File[pos[p]] > 0
        /\ \A k \in DOMAIN File : sent[p] < k /\ k < pos[p] => File[k] = 0
    BY <2>1 DEF buffer_push, LineRead, Channel!Follows
  <2>3. /\ Len(log) \in Nat /\ DOMAIN log = 1 .. Len(log)
        /\ DOMAIN log' = 1 .. Len(log) + 1
        /\ log'[Len(log) + 1] = <<p, pos[p]>>
        /\ \A k \in DOMAIN log : log'[k] = log[k]
    BY <1>1, <2>2
  <2>4. ASSUME NEW q \in Producers, NEW i \in DOMAIN File, i <= sent'[q], File[i] > 0
        PROVE  \E k \in DOMAIN log' : log'[k] = <<q, i>>
    <3>1. CASE q = p /\ i = pos[p]
      <4>1. Len(log) + 1 \in DOMAIN log'
        BY <2>3
      <4> QED
        BY <2>3, <3>1, <4>1
    <3>2. CASE q = p /\ i # pos[p]
      <4>1. i < pos[p]
        BY <1>1, <2>2, <2>4, <3>2
      <4>2. ~(sent[p] < i)
        BY <2>2, <2>4, <4>1
      <4>3. i <= sent[q]
        BY <1>1, <3>2, <4>2
      <4>4. PICK k \in DOMAIN log : log[k] = <<q, i>>
        BY <2>4, <4>3 DEF LogComplete
      <4> QED
        BY <2>3, <4>4
    <3>3. CASE q # p
      <4>1. i <= sent[q]
        BY <1>1, <2>2, <2>4, <3>3
      <4>2. PICK k \in DOMAIN log : log[k] = <<q, i>>
        BY <2>4, <4>1 DEF LogComplete
      <4> QED
        BY <2>3, <4>2
    <3> QED
      BY <3>1, <3>2, <3>3
  <2>5. \A k \in DOMAIN log' :
          File[log'[k][2]] > 0 /\ log'[k][2] <= sent'[log'[k][1]]
    <3>1. ASSUME NEW k \in DOMAIN log
          PROVE  File[log[k][2]] > 0 /\ log[k][2] <= sent'[log[k][1]]
      <4>1. /\ log[k][1] \in Producers /\ log[k][2] \in Nat
            /\ File[log[k][2]] > 0 /\ log[k][2] <= sent[log[k][1]]
        <5>1. log[k] \in Lines
          BY <1>1
        <5>2. log[k][1] \in Producers /\ log[k][2] \in DOMAIN File
          BY <5>1 DEF Lines
        <5> QED
          BY <1>1, <5>2 DEF LogComplete
      <4>2. sent[log[k][1]] <= sent'[log[k][1]]
        BY <1>1, <2>2, <4>1
      <4>3. sent[log[k][1]] \in Nat /\ sent'[log[k][1]] \in Nat
        BY <1>1, <2>2, <4>1
      <4> QED
        BY <4>1, <4>2, <4>3
    <3> QED
      BY <1>1, <2>2, <2>3, <3>1
  <2>7. ASSUME NEW j \in DOMAIN log', NEW k \in DOMAIN log', log'[j] = log'[k]
        PROVE  j = k
    <3>1. ASSUME NEW i \in DOMAIN log PROVE log[i] # <<p, pos[p]>>
      BY <1>1, <2>2 DEF LogComplete
    <3> QED
      BY <2>3, <2>7, <3>1 DEF LogComplete
  <2>6. \A k \in DOMAIN taken' : k \in DOMAIN log' /\ taken'[k] = log'[k]
    BY <2>2, <2>3 DEF LogComplete
  <2> QED
    BY <2>4, <2>5, <2>6, <2>7 DEF LogComplete
<1>4. ASSUME NEW c \in Consumers, Pop(c) PROVE LogComplete'
  <2>1. Channel!Take
    BY <1>4, PopIsTake DEF Pop, ChannelInv, TypeOK
  <2>2. /\ Len(taken) < Len(log) /\ taken' = Append(taken, log[Len(taken) + 1])
        /\ sent' = sent /\ log' = log
    BY <2>1 DEF Channel!Take
  <2>3. /\ Len(taken) \in Nat /\ DOMAIN taken = 1 .. Len(taken)
        /\ Len(log) \in Nat /\ DOMAIN log = 1 .. Len(log)
        /\ DOMAIN taken' = 1 .. Len(taken) + 1
        /\ taken'[Len(taken) + 1] = log[Len(taken) + 1]
        /\ \A k \in DOMAIN taken : taken'[k] = taken[k]
    BY <1>1, <2>2
  <2>4. \A k \in DOMAIN taken' : k \in DOMAIN log /\ taken'[k] = log[k]
    BY <2>2, <2>3 DEF LogComplete
  <2> QED
    BY <2>2, <2>4 DEF LogComplete
<1>5. ASSUME NEW p \in Producers, ProducerStep(p), ~Push(p)
      PROVE  UNCHANGED history
  BY <1>5 DEF ProducerStep, OpenFile, ReadLine, EndOfFile, CancelledOutside,
              LockToPush, WaitForSpace, CancelledInLog, SignalLine
<1>6. ASSUME NEW c \in Consumers, ConsumerStep(c), ~Pop(c)
      PROVE  UNCHANGED history
  BY <1>6 DEF ConsumerStep, StartConsumer, CancelledAtStart, LockToPop,
              WaitForLine, SignalSpace, PrintLine
<1>7. ASSUME NEW t \in Threads, WaiterStep(t) \/ SpuriousWakeup(t)
      PROVE  UNCHANGED history
  BY <1>7 DEF WaiterStep, Relock, CancelledInWait, Unwind, SpuriousWakeup
<1>8. CASE RunStep \/ UNCHANGED vars
  BY <1>2, <1>8 DEF RunStep, MainStep, vars
<1> QED
  BY <1>2, <1>3, <1>4, <1>5, <1>6, <1>7, <1>8 DEF Next

\* A line in the buffer stays attended to: a consumer waits only when it found
\* the buffer empty, and the signal of a producer wakes one that waits; consumers
\* that are past both are cancelled only after the last signal.
LEMMA StepLinesAttended ==
  ASSUME ToTheEnd, ChannelInv, CancelsLate, LinesAttended, [Next]_vars
  PROVE  LinesAttended'
<1> DEFINE Active == {"start", "lock", "pop", "popped", "print", "relock"}
<1>1. /\ TypeOK /\ Producers \subseteq Threads /\ Consumers \subseteq Threads
      /\ Producers \cap Consumers = {}
      /\ pc \in [Threads -> ProducerLabels \cup ConsumerLabels]
      /\ \A c \in Consumers : pc[c] \in ConsumerLabels
  BY ThreadAssumption DEF ChannelInv, Threads, TypeOK
<1>2. ASSUME NEW p \in Producers, pc'[p] = "pushed" PROVE LinesAttended'
  BY <1>2 DEF LinesAttended
<1>3. ASSUME NEW c \in Consumers, pc'[c] \in Active PROVE LinesAttended'
  BY <1>3 DEF LinesAttended
<1>4. ASSUME buffer_length' = buffer_length,
             \A p \in Producers : pc[p] = "pushed" => pc'[p] = "pushed",
             \A c \in Consumers :
               pc[c] \in Active => pc'[c] \in Active \/ dismissed' # {},
             dismissed \subseteq dismissed'
      PROVE  LinesAttended'
  BY <1>4 DEF LinesAttended
<1>5. ASSUME NEW p \in Producers, SignalLine(p) PROVE LinesAttended'
  <2>1. pc[p] = "pushed" /\ Signal(p, "read", Consumers)
    BY <1>5 DEF SignalLine
  <2>2. CASE Waiters(Consumers) = {}
    <3>1. mpc = "joinP" /\ cancelled = {}
      BY <2>1 DEF CancelsLate, Ended
    <3>2. PICK c \in Consumers : TRUE
      BY DEF ToTheEnd
    <3>3. pc[c] \notin {"wait", "unwind", "ended"}
      BY <2>2, <3>1 DEF Waiters, CancelsLate
    <3>4. pc'[c] = pc[c]
      BY <1>1, <2>1, <2>2 DEF Signal
    <3> QED
      BY <1>1, <1>3, <3>3, <3>4 DEF ConsumerLabels
  <2>3. CASE Waiters(Consumers) # {}
    <3>1. PICK w \in Waiters(Consumers) :
            pc' = [pc EXCEPT ![p] = "read", ![w] = "relock"]
      BY <2>1, <2>3 DEF Signal
    <3>2. w \in Consumers /\ pc'[w] = "relock"
      BY <1>1, <3>1 DEF Waiters
    <3> QED
      BY <1>3, <3>2
  <2> QED
    BY <2>2, <2>3
<1>6. ASSUME NEW p \in Producers, ProducerStep(p), ~SignalLine(p)
      PROVE  LinesAttended'
  <2>1. CASE Push(p)
    BY <1>1, <1>2, <2>1 DEF Push, At
  <2>2. CASE ~Push(p)
    <3>0. p \notin cancelled
      BY <1>1 DEF CancelsLate
    <3>1. /\ pc[p] # "pushed" /\ buffer_length' = buffer_length
          /\ dismissed' = dismissed
      BY <1>6, <2>2, <3>0
         DEF ProducerStep, OpenFile, ReadLine, EndOfFile, CancelledOutside,
             LockToPush, WaitForSpace, CancelledInLog, At, ringVars
    <3>2. /\ \A q \in Producers \ {p} : pc'[q] = pc[q]
          /\ \A c \in Consumers : pc'[c] = pc[c] \/ pc'[c] = "relock"
      BY <1>1, <1>6, ProducerStepMoves
    <3> QED
      BY <1>4, <3>1, <3>2
  <2> QED
    BY <2>1, <2>2
<1>7. ASSUME NEW c \in Consumers, ConsumerStep(c) PROVE LinesAttended'
  <2>1. CASE WaitForLine(c)
    BY <2>1 DEF WaitForLine, buffer_empty, ringVars, LinesAttended
  <2>2. CASE CancelledAtStart(c)
    BY <2>2 DEF CancelledAtStart, LinesAttended
  <2>3. CASE ~WaitForLine(c) /\ ~CancelledAtStart(c)
    <3>1. pc'[c] \in Active
      BY <1>1, <1>7, <2>3
         DEF ConsumerStep, StartConsumer, LockToPop, Pop, SignalSpace, Signal,
             Waiters, PrintLine, At
    <3> QED
      BY <1>3, <3>1
  <2> QED
    BY <2>1, <2>2, <2>3
<1>8. ASSUME NEW t \in Threads, WaiterStep(t) \/ SpuriousWakeup(t)
      PROVE  LinesAttended'
  <2>1. buffer_length' = buffer_length
    BY <1>8 DEF WaiterStep, Relock, CancelledInWait, Unwind, SpuriousWakeup,
                ringVars
  <2>2. /\ \A u \in Threads \ {t} :
             pc'[u] = pc[u] \/ (pc[u] = "wait" /\ pc'[u] = "relock")
        /\ \/ pc[t] = "relock" /\ pc'[t] = IF t \in Producers THEN "push" ELSE "pop"
           \/ pc[t] = "relock" /\ (t \in Consumers => dismissed' # {})
           \/ pc[t] = "wait" \/ pc[t] = "unwind"
    BY <1>1, <1>8, WaiterStepMoves
  <2>3. dismissed \subseteq dismissed'
    BY <1>8 DEF WaiterStep, Relock, CancelledInWait, CancelledUnwoken,
                CancelledWoken, Unwind, SpuriousWakeup
  <2>4. \A c \in Consumers :
          pc[c] \in Active => pc'[c] \in Active \/ dismissed' # {}
    BY <1>1, <2>2
  <2>5. \A p \in Producers : pc[p] = "pushed" => pc'[p] = "pushed"
    BY <1>1, <2>2
  <2> QED
    BY <1>4, <2>1, <2>3, <2>4, <2>5
<1>9. CASE RunStep \/ UNCHANGED vars
  BY <1>4, <1>9 DEF RunStep, MainStep, vars, ringVars
<1> QED
  BY <1>5, <1>6, <1>7, <1>8, <1>9 DEF Next

\* At the end every line that was pushed was taken and, if selected, printed, or
\* it is still in the ring.
LEMMA EverythingAtEnd ==
  ASSUME ChannelInv, PrintedInv, EndInv PROVE LinesLeftOnlyByDismissal
<1> SUFFICES ASSUME mpc = "done"
             PROVE  /\ printed = {l \in Lines \ LinesLeft :
                                   File[l[2]] > 0 /\ cl_shouldprint(l)}
                    /\ LinesLeft # {} => dismissed # {}
  BY DEF LinesLeftOnlyByDismissal
<1>1. Ended(Producers) /\ Ended(Consumers)
  BY DEF EndInv, CancelsLate, PrintedInv, ConsumersJoined
<1>2. /\ log \in Seq(Lines) /\ taken \in Seq(Lines) /\ printed \subseteq Lines
      /\ buffer_length \in Nat
      /\ sent \in [Producers -> 0 .. Len(File)]
      /\ pos \in [Producers -> 0 .. Len(File)]
      /\ DOMAIN File = 1 .. Len(File) /\ Len(File) \in Nat
      /\ \A i \in DOMAIN File : File[i] \in Nat
  BY FileAssumption, SizeAssumption DEF ChannelInv, TypeOK, SharedTypeOK
<1>3. LinesLeft # {} => dismissed # {}
  <2>1. buffer_length = 0 => LinesLeft = {}
    BY <1>2 DEF LinesLeft
  <2> QED
    BY <1>1, <1>2, <2>1 DEF EndInv, LinesAttended, Ended
\* A line of the log was taken, or it is left in the ring, and not both.
<1>4. ASSUME NEW k \in DOMAIN log
      PROVE  /\ k \in DOMAIN taken \/ log[k] \in LinesLeft
             /\ k \in DOMAIN taken => log[k] \notin LinesLeft
  <2>1. /\ Len(log) = Len(taken) + buffer_length
        /\ Len(taken) \in Nat /\ k \in 1 .. Len(log)
        /\ DOMAIN taken = 1 .. Len(taken) /\ DOMAIN log = 1 .. Len(log)
        /\ \A i \in 0 .. buffer_length - 1 :
             buffer[buffer_at(buffer_start + i)] = log[Len(taken) + 1 + i]
    BY <1>2 DEF ChannelInv, RingFIFO
  <2>2. CASE k \notin DOMAIN taken
    <3>1. k - Len(taken) - 1 \in 0 .. buffer_length - 1
      BY <1>2, <2>1, <2>2
    <3>2. Len(taken) + 1 + (k - Len(taken) - 1) = k
      BY <2>1
    <3> QED
      BY <2>1, <2>2, <3>1, <3>2 DEF LinesLeft
  <2>3. CASE k \in DOMAIN taken
    <3>1. ASSUME NEW i \in 0 .. buffer_length - 1
          PROVE  buffer[buffer_at(buffer_start + i)] # log[k]
      <4>1. Len(taken) + 1 + i \in DOMAIN log /\ Len(taken) + 1 + i # k
        BY <1>2, <2>1, <2>3
      <4> QED
        BY <2>1, <4>1 DEF EndInv, LogComplete
    <3> QED
      BY <2>3, <3>1 DEF LinesLeft
  <2> QED
    BY <2>2, <2>3
<1>5. ASSUME NEW l \in Lines \ LinesLeft, File[l[2]] > 0, cl_shouldprint(l)
      PROVE  l \in printed
  <2>1. PICK p \in Producers, i \in DOMAIN File : l = <<p, i>>
    BY DEF Lines
  <2>2. i <= sent[p]
    <3>1. NoMoreLines(p) /\ pos[p] = sent[p]
      BY <1>1 DEF EndInv, ReadToTheEnd, Ended
    <3>2. File[i] > 0
      BY <1>5, <2>1
    <3>3. ~(pos[p] < i)
      BY <1>2, <3>1, <3>2 DEF NoMoreLines
    <3> QED
      BY <1>2, <3>1, <3>3
  <2>3. PICK k \in DOMAIN log : log[k] = <<p, i>>
    BY <1>5, <2>1, <2>2 DEF EndInv, LogComplete
  <2>4. k \in DOMAIN taken /\ taken[k] = l
    BY <1>4, <2>1, <2>3 DEF EndInv, LogComplete
  <2> QED
    BY <1>1, <1>5, <2>4 DEF PrintedInv, TakenIsKept, Holds, Ended
<1>6. ASSUME NEW l \in printed
      PROVE  /\ l \in Lines \ LinesLeft
             /\ File[l[2]] > 0 /\ cl_shouldprint(l)
  <2>1. Taken(l) /\ cl_shouldprint(l)
    BY DEF PrintedInv, PrintedWasTaken
  <2>2. PICK k \in DOMAIN taken : taken[k] = l
    BY <2>1 DEF Taken
  <2>3. k \in DOMAIN log /\ log[k] = l
    BY <2>2 DEF EndInv, LogComplete
  <2>4. l \notin LinesLeft
    BY <1>4, <2>2, <2>3
  <2> QED
    BY <1>2, <2>1, <2>3, <2>4 DEF EndInv, LogComplete
<1> QED
  BY <1>3, <1>5, <1>6

\* Without a time limit everything is printed that is not left in the buffer,
\* and the buffer is left with lines only if run cancelled a consumer on its
\* way to the buffer, for any number of threads and cells and any file, with or
\* without logging and sleeping.
THEOREM EverythingPrinted ==
  ToTheEnd => (Spec => []LinesLeftOnlyByDismissal)
<1> SUFFICES ASSUME ToTheEnd PROVE Spec => []LinesLeftOnlyByDismissal
  OBVIOUS
<1>1. Init => EndInv
  <2> SUFFICES ASSUME Init PROVE EndInv
    OBVIOUS
  <2>1. CancelsLate /\ ReadToTheEnd /\ LinesAttended
    BY ThreadAssumption
       DEF ToTheEnd, Init, SharedInit, CancelsLate, ReadToTheEnd, LinesAttended,
           Threads
  <2>2. LogComplete
    BY FileAssumption DEF Init, SharedInit, LogComplete
  <2> QED
    BY <2>1, <2>2 DEF EndInv
<1>2. ChannelInv /\ EndInv /\ [Next]_vars => EndInv'
  BY StepCancelsLate, StepReadToTheEnd, StepLogComplete, StepLinesAttended
     DEF EndInv
<1>3. ChannelInv /\ PrintedInv /\ EndInv => LinesLeftOnlyByDismissal
  BY EverythingAtEnd
<1> QED
  BY ChannelInvariance, PrintedInvariance, <1>1, <1>2, <1>3, PTL DEF Spec
=============================================================================
