----------------------------- MODULE SemProofs ------------------------------
(***************************************************************************)
(* Proofs about SemPC for every number of threads, every file, buffer size *)
(* and configuration: ChannelInv is inductive, so buffer_mx excludes the   *)
(* threads from each other and the program implements LineChannel.  With   *)
(* it, the tokens of the two semaphores are counted against the lines and  *)
(* the threads that are about to look at the buffer, and PrintedInv shows  *)
(* that no line is lost in the hands of a consumer.                        *)
(***************************************************************************)
EXTENDS SemPC, ProdConsProofs

\* The threads start with an empty buffer and nothing read.
LEMMA InitInv == Init => ChannelInv
<1> SUFFICES ASSUME Init PROVE ChannelInv
  OBVIOUS
<1>1. SharedTypeOK /\ RingFIFO
  BY InitRing DEF Init
<1>2. TypeOK
  BY <1>1, ThreadAssumption
     DEF TypeOK, Init, SharedInit, Threads, ProducerLabels, ConsumerLabels
<1>3. MutexTaken /\ BufferExclusive /\ ReadAhead /\ LineHeld
  BY DEF MutexTaken, BufferExclusive, ReadAhead, LineHeld, Holding, Init,
         SharedInit, Threads
<1> QED
  BY <1>1, <1>2, <1>3 DEF ChannelInv

\* Every step of a producer preserves the invariant.
LEMMA ProducerStepInv ==
  ASSUME NEW p \in Producers, ChannelInv, ProducerStep(p) PROVE ChannelInv'
<1> USE ThreadAssumption
    DEF ChannelInv, TypeOK, SharedTypeOK, Threads, At, ringVars, history,
        semVars
<1>1. CASE OpenFile(p)
  <2> USE <1>1 DEF OpenFile
  <2>1. TypeOK' BY DEF ProducerLabels
  <2>2. MutexTaken' BY DEF MutexTaken, Holding
  <2>3. BufferExclusive' BY DEF BufferExclusive, Holding
  <2>4. ReadAhead' BY DEF ReadAhead, LineRead, Channel!Follows
  <2>5. LineHeld' BY DEF LineHeld
  <2>6. RingFIFO' BY RingUnchanged
  <2> QED BY <2>1, <2>2, <2>3, <2>4, <2>5, <2>6
<1>2. CASE ReadLine(p)
  <2> USE <1>2 DEF ReadLine
  <2>1. TypeOK' BY FileAssumption DEF ProducerLabels, NextLine
  <2>2. MutexTaken' BY DEF MutexTaken, Holding
  <2>3. BufferExclusive' BY DEF BufferExclusive, Holding
  <2>4. ReadAhead' BY DEF ReadAhead, LineRead, Channel!Follows, NextLine
  <2>5. LineHeld' BY DEF LineHeld
  <2>6. RingFIFO' BY RingUnchanged
  <2> QED BY <2>1, <2>2, <2>3, <2>4, <2>5, <2>6
<1>3. CASE EndOfFile(p)
  <2> USE <1>3 DEF EndOfFile
  <2>1. TypeOK' BY DEF ProducerLabels
  <2>2. MutexTaken' BY DEF MutexTaken, Holding
  <2>3. BufferExclusive' BY DEF BufferExclusive, Holding
  <2>4. ReadAhead' BY DEF ReadAhead, LineRead, Channel!Follows
  <2>5. LineHeld' BY DEF LineHeld
  <2>6. RingFIFO' BY RingUnchanged
  <2> QED BY <2>1, <2>2, <2>3, <2>4, <2>5, <2>6
<1>4. CASE CancelledOutside(p)
  <2> USE <1>4 DEF CancelledOutside
  <2>1. TypeOK' BY DEF ProducerLabels
  <2>2. MutexTaken' BY DEF MutexTaken, Holding
  <2>3. BufferExclusive' BY DEF BufferExclusive, Holding
  <2>4. ReadAhead' BY DEF ReadAhead, LineRead, Channel!Follows
  <2>5. LineHeld' BY DEF LineHeld
  <2>6. RingFIFO' BY RingUnchanged
  <2> QED BY <2>1, <2>2, <2>3, <2>4, <2>5, <2>6
<1>5. CASE Lock(p)
  <2> USE <1>5 DEF Lock
  <2>1. TypeOK' BY DEF ProducerLabels
  <2>2. MutexTaken' BY DEF MutexTaken, Holding
  <2>3. BufferExclusive' BY DEF BufferExclusive, MutexTaken, Holding
  <2>4. ReadAhead' BY DEF ReadAhead, LineRead, Channel!Follows
  <2>5. LineHeld' BY DEF LineHeld
  <2>6. RingFIFO' BY RingUnchanged
  <2> QED BY <2>1, <2>2, <2>3, <2>4, <2>5, <2>6
<1>6. CASE WaitForSpace(p)
  <2> USE <1>6 DEF WaitForSpace, Unlock
  <2>1. TypeOK' BY DEF ProducerLabels, MutexTaken, Holding
  <2>2. MutexTaken' BY DEF MutexTaken, BufferExclusive, Holding
  <2>3. BufferExclusive' BY DEF BufferExclusive, Holding
  <2>4. ReadAhead' BY DEF ReadAhead, LineRead, Channel!Follows
  <2>5. LineHeld' BY DEF LineHeld
  <2>6. RingFIFO' BY RingUnchanged
  <2> QED BY <2>1, <2>2, <2>3, <2>4, <2>5, <2>6
<1>7. CASE GetSpace(p)
  <2> USE <1>7 DEF GetSpace
  <2>1. TypeOK' BY DEF ProducerLabels
  <2>2. MutexTaken' BY DEF MutexTaken, Holding
  <2>3. BufferExclusive' BY DEF BufferExclusive, Holding
  <2>4. ReadAhead' BY DEF ReadAhead, LineRead, Channel!Follows
  <2>5. LineHeld' BY DEF LineHeld
  <2>6. RingFIFO' BY RingUnchanged
  <2> QED BY <2>1, <2>2, <2>3, <2>4, <2>5, <2>6
<1>8. CASE Push(p)
  <2> USE <1>8 DEF Push
  <2>0. LineRead(p) /\ buffer_push(p) BY DEF ReadAhead
  <2>1. TypeOK' BY <2>0, PushType, SMTT(30) DEF ProducerLabels
  <2>2. MutexTaken' BY DEF MutexTaken, Holding
  <2>3. BufferExclusive' BY DEF BufferExclusive, Holding
  <2>4. ReadAhead' BY DEF ReadAhead, LineRead, Channel!Follows, buffer_push
  <2>5. LineHeld' BY DEF LineHeld, buffer_push
  <2>6. RingFIFO' BY <2>0, PushRing
  <2> QED BY <2>1, <2>2, <2>3, <2>4, <2>5, <2>6
<1>9. CASE CancelledInLog(p)
  <2> USE <1>9 DEF CancelledInLog
  <2>1. TypeOK' BY DEF ProducerLabels
  <2>2. MutexTaken' BY DEF MutexTaken, Holding
  <2>3. BufferExclusive' BY DEF BufferExclusive, Holding
  <2>4. ReadAhead' BY DEF ReadAhead, LineRead, Channel!Follows
  <2>5. LineHeld' BY DEF LineHeld
  <2>6. RingFIFO' BY RingUnchanged
  <2> QED BY <2>1, <2>2, <2>3, <2>4, <2>5, <2>6
<1>10. CASE UnlockPushed(p)
  <2> USE <1>10 DEF UnlockPushed, Unlock
  <2>1. TypeOK' BY DEF ProducerLabels, MutexTaken, Holding
  <2>2. MutexTaken' BY DEF MutexTaken, BufferExclusive, Holding
  <2>3. BufferExclusive' BY DEF BufferExclusive, Holding
  <2>4. ReadAhead' BY DEF ReadAhead, LineRead, Channel!Follows
  <2>5. LineHeld' BY DEF LineHeld
  <2>6. RingFIFO' BY RingUnchanged
  <2> QED BY <2>1, <2>2, <2>3, <2>4, <2>5, <2>6
<1> QED
  BY <1>1, <1>2, <1>3, <1>4, <1>5, <1>6, <1>7, <1>8, <1>9, <1>10
     DEF ProducerStep

\* Every step of a consumer preserves the invariant.
LEMMA ConsumerStepInv ==
  ASSUME NEW c \in Consumers, ChannelInv, ConsumerStep(c) PROVE ChannelInv'
<1> USE ThreadAssumption
    DEF ChannelInv, TypeOK, SharedTypeOK, Threads, At, ringVars, history,
        semVars
<1>1. CASE StartConsumer(c)
  <2> USE <1>1 DEF StartConsumer
  <2>1. TypeOK' BY DEF ConsumerLabels
  <2>2. MutexTaken' BY DEF MutexTaken, Holding
  <2>3. BufferExclusive' BY DEF BufferExclusive, Holding
  <2>4. ReadAhead' BY DEF ReadAhead, LineRead, Channel!Follows
  <2>5. LineHeld' BY DEF LineHeld
  <2>6. RingFIFO' BY RingUnchanged
  <2> QED BY <2>1, <2>2, <2>3, <2>4, <2>5, <2>6
<1>2. CASE CancelledAtStart(c)
  <2> USE <1>2 DEF CancelledAtStart
  <2>1. TypeOK' BY DEF ConsumerLabels
  <2>2. MutexTaken' BY DEF MutexTaken, Holding
  <2>3. BufferExclusive' BY DEF BufferExclusive, Holding
  <2>4. ReadAhead' BY DEF ReadAhead, LineRead, Channel!Follows
  <2>5. LineHeld' BY DEF LineHeld
  <2>6. RingFIFO' BY RingUnchanged
  <2> QED BY <2>1, <2>2, <2>3, <2>4, <2>5, <2>6
<1>3. CASE Lock(c)
  <2> USE <1>3 DEF Lock
  <2>1. TypeOK' BY DEF ConsumerLabels
  <2>2. MutexTaken' BY DEF MutexTaken, Holding
  <2>3. BufferExclusive' BY DEF BufferExclusive, MutexTaken, Holding
  <2>4. ReadAhead' BY DEF ReadAhead, LineRead, Channel!Follows
  <2>5. LineHeld' BY DEF LineHeld
  <2>6. RingFIFO' BY RingUnchanged
  <2> QED BY <2>1, <2>2, <2>3, <2>4, <2>5, <2>6
<1>4. CASE WaitForLine(c)
  <2> USE <1>4 DEF WaitForLine, Unlock
  <2>1. TypeOK' BY DEF ConsumerLabels, MutexTaken, Holding
  <2>2. MutexTaken' BY DEF MutexTaken, BufferExclusive, Holding
  <2>3. BufferExclusive' BY DEF BufferExclusive, Holding
  <2>4. ReadAhead' BY DEF ReadAhead, LineRead, Channel!Follows
  <2>5. LineHeld' BY DEF LineHeld
  <2>6. RingFIFO' BY RingUnchanged
  <2> QED BY <2>1, <2>2, <2>3, <2>4, <2>5, <2>6
<1>5. CASE GetLine(c)
  <2> USE <1>5 DEF GetLine
  <2>1. TypeOK' BY DEF ConsumerLabels
  <2>2. MutexTaken' BY DEF MutexTaken, Holding
  <2>3. BufferExclusive' BY DEF BufferExclusive, Holding
  <2>4. ReadAhead' BY DEF ReadAhead, LineRead, Channel!Follows
  <2>5. LineHeld' BY DEF LineHeld
  <2>6. RingFIFO' BY RingUnchanged
  <2> QED BY <2>1, <2>2, <2>3, <2>4, <2>5, <2>6
<1>6. CASE CancelledInWait(c)
  <2> USE <1>6 DEF CancelledInWait
  <2>1. TypeOK' BY DEF ConsumerLabels
  <2>2. MutexTaken' BY DEF MutexTaken, Holding
  <2>3. BufferExclusive' BY DEF BufferExclusive, Holding
  <2>4. ReadAhead' BY DEF ReadAhead, LineRead, Channel!Follows
  <2>5. LineHeld' BY DEF LineHeld
  <2>6. RingFIFO' BY RingUnchanged
  <2> QED BY <2>1, <2>2, <2>3, <2>4, <2>5, <2>6
<1>7. CASE Pop(c)
  <2> USE <1>7 DEF Pop
  <2>1. TypeOK' BY PopType DEF ConsumerLabels
  <2>2. MutexTaken' BY DEF MutexTaken, Holding
  <2>3. BufferExclusive' BY DEF BufferExclusive, Holding
  <2>4. ReadAhead' BY DEF ReadAhead, LineRead, Channel!Follows, buffer_pop
  <2>5. LineHeld' BY PopType DEF LineHeld, buffer_pop
  <2>6. RingFIFO' BY PopRing
  <2> QED BY <2>1, <2>2, <2>3, <2>4, <2>5, <2>6
<1>8. CASE UnlockPopped(c)
  <2> USE <1>8 DEF UnlockPopped, Unlock
  <2>1. TypeOK' BY DEF ConsumerLabels, MutexTaken, Holding
  <2>2. MutexTaken' BY DEF MutexTaken, BufferExclusive, Holding
  <2>3. BufferExclusive' BY DEF BufferExclusive, Holding
  <2>4. ReadAhead' BY DEF ReadAhead, LineRead, Channel!Follows
  <2>5. LineHeld' BY DEF LineHeld
  <2>6. RingFIFO' BY RingUnchanged
  <2> QED BY <2>1, <2>2, <2>3, <2>4, <2>5, <2>6
<1>9. CASE PrintLine(c)
  <2> USE <1>9 DEF PrintLine
  <2>1. TypeOK' BY DEF ConsumerLabels, LineHeld
  <2>2. MutexTaken' BY DEF MutexTaken, Holding
  <2>3. BufferExclusive' BY DEF BufferExclusive, Holding
  <2>4. ReadAhead' BY DEF ReadAhead, LineRead, Channel!Follows
  <2>5. LineHeld' BY DEF LineHeld
  <2>6. RingFIFO' BY RingUnchanged
  <2> QED BY <2>1, <2>2, <2>3, <2>4, <2>5, <2>6
<1> QED
  BY <1>1, <1>2, <1>3, <1>4, <1>5, <1>6, <1>7, <1>8, <1>9 DEF ConsumerStep

\* The main thread only cancels and joins.
LEMMA RunStepInv ==
  ASSUME ChannelInv, RunStep \/ UNCHANGED vars PROVE ChannelInv'
<1> USE DEF ChannelInv, RunStep, MainStep, vars, ringVars, history,
           semVars
<1>1. cancelled' \subseteq Threads /\ mpc' \in MainLabels
  BY DEF TypeOK, SharedTypeOK, Threads, TimeIsUp, CancelThreads,
         WaitForThreads, MainLabels
<1>2. TypeOK'
  BY <1>1 DEF TypeOK, SharedTypeOK
<1>3. MutexTaken' /\ BufferExclusive'
  BY DEF MutexTaken, BufferExclusive, Holding
<1>4. ReadAhead'
  BY DEF ReadAhead, LineRead, Channel!Follows
<1>5. LineHeld'
  BY DEF LineHeld
<1>6. RingFIFO'
  BY RingUnchanged
<1> QED
  BY <1>2, <1>3, <1>4, <1>5, <1>6

\* ChannelInv holds in every reachable state.
THEOREM ChannelInvariance == Spec => []ChannelInv
<1>1. Init => ChannelInv
  BY InitInv
<1>2. ChannelInv /\ [Next]_vars => ChannelInv'
  BY ProducerStepInv, ConsumerStepInv, RunStepInv DEF Next
<1> QED
  BY <1>1, <1>2, PTL DEF Spec

\* Every variable keeps its type; in particular the ring never holds more than
\* BufferSize lines.
THEOREM TypeCorrect == Spec => []TypeOK
<1>1. ChannelInv => TypeOK
  BY DEF ChannelInv
<1> QED
  BY ChannelInvariance, <1>1, PTL

\* The critical sections around buffer_push and buffer_pop exclude each other,
\* wherever threads are cancelled.
THEOREM MutualExclusion == Spec => []BufferExclusive
<1>1. ChannelInv => BufferExclusive
  BY DEF ChannelInv
<1> QED
  BY ChannelInvariance, <1>1, PTL

\* The program implements the channel: lines leave the buffer in the order in
\* which they entered it, each exactly once, and each producer's lines enter it
\* in the order of the file with none left out.
THEOREM ImplementsChannel == Spec => ChannelImplemented
<1>1. Init => Channel!ChannelInit
  BY InitRing DEF Init
<1>2. ASSUME ChannelInv, [Next]_vars
      PROVE  Channel!ChannelNext \/ UNCHANGED Channel!channelVars
  <2> USE <1>2 DEF ChannelInv, TypeOK, history, Channel!channelVars
  <2>1. ASSUME NEW p \in Producers, Push(p)
        PROVE  Channel!ChannelNext
    <3>1. LineRead(p) /\ buffer_push(p)
      BY <2>1 DEF ReadAhead, Push, At
    <3>2. Channel!Put(p, pos[p]) /\ pos[p] \in DOMAIN File
      BY <3>1, PushIsPut DEF LineRead, Channel!Follows
    <3> QED
      BY <3>2 DEF Channel!ChannelNext
  <2>2. ASSUME NEW c \in Consumers, Pop(c)
        PROVE  Channel!ChannelNext
    BY <2>2, PopIsTake DEF Pop, Channel!ChannelNext
  <2>3. ASSUME NEW p \in Producers, ProducerStep(p), ~Push(p)
        PROVE  UNCHANGED Channel!channelVars
    BY <2>3 DEF ProducerStep, OpenFile, ReadLine, EndOfFile, CancelledOutside,
                Lock, WaitForSpace, GetSpace, CancelledInLog, UnlockPushed
  <2>4. ASSUME NEW c \in Consumers, ConsumerStep(c), ~Pop(c)
        PROVE  UNCHANGED Channel!channelVars
    BY <2>4 DEF ConsumerStep, StartConsumer, CancelledAtStart, Lock,
                WaitForLine, GetLine, CancelledInWait, UnlockPopped, PrintLine
  <2>5. CASE RunStep \/ UNCHANGED vars
    BY <2>5 DEF RunStep, MainStep, vars
  <2> QED
    BY <2>1, <2>2, <2>3, <2>4, <2>5 DEF Next
<1> QED
  BY ChannelInvariance, <1>1, <1>2, PTL
     DEF Spec, ChannelImplemented, Channel!ChannelSpec
-----------------------------------------------------------------------------
\* TokensAccounted: the tokens are in step with the buffer.

\* The labels of a thread that is about to use the buffer, and how many threads
\* of S are there before and after a step.
AwakeLabels == {"lock", "check"}
AwakeNow(S) == AtLabels(S, pc, AwakeLabels)
AwakeNext(S) == AtLabels(S, pc', AwakeLabels)
Counted(label) == IF label \in AwakeLabels THEN 1 ELSE 0

\* A step of a producer changes the count of the producers only.
LEMMA ProducerMoved ==
  ASSUME TypeOK, NEW p \in Producers, NEW from, NEW to, At(p, from, to)
  PROVE  /\ AwakeNext(Consumers) = AwakeNow(Consumers)
         /\ AwakeNext(Producers) =
              AwakeNow(Producers) + Counted(to) - Counted(from)
<1>1. /\ pc[p] = from /\ pc'[p] = to
      /\ \A t \in Producers \ {p} : pc'[t] = pc[t]
      /\ \A t \in Consumers : pc'[t] = pc[t]
  BY ThreadAssumption DEF TypeOK, Threads, At
<1>2. AtLabels(Consumers, pc', AwakeLabels) = AtLabels(Consumers, pc, AwakeLabels)
  BY <1>1, CountSame
<1>3. AtLabels(Producers, pc', AwakeLabels) =
        AtLabels(Producers, pc, AwakeLabels)
          + (IF pc'[p] \in AwakeLabels THEN 1 ELSE 0)
          - (IF pc[p] \in AwakeLabels THEN 1 ELSE 0)
  BY <1>1, CountAssumption, CountMoved
<1> QED
  BY <1>1, <1>2, <1>3 DEF AwakeNow, AwakeNext, Counted

\* A step of a consumer changes the count of the consumers only.
LEMMA ConsumerMoved ==
  ASSUME TypeOK, NEW c \in Consumers, NEW from, NEW to, At(c, from, to)
  PROVE  /\ AwakeNext(Producers) = AwakeNow(Producers)
         /\ AwakeNext(Consumers) =
              AwakeNow(Consumers) + Counted(to) - Counted(from)
<1>1. /\ pc[c] = from /\ pc'[c] = to
      /\ \A t \in Consumers \ {c} : pc'[t] = pc[t]
      /\ \A t \in Producers : pc'[t] = pc[t]
  BY ThreadAssumption DEF TypeOK, Threads, At
<1>2. AtLabels(Producers, pc', AwakeLabels) = AtLabels(Producers, pc, AwakeLabels)
  BY <1>1, CountSame
<1>3. AtLabels(Consumers, pc', AwakeLabels) =
        AtLabels(Consumers, pc, AwakeLabels)
          + (IF pc'[c] \in AwakeLabels THEN 1 ELSE 0)
          - (IF pc[c] \in AwakeLabels THEN 1 ELSE 0)
  BY <1>1, CountAssumption, CountMoved
<1> QED
  BY <1>1, <1>2, <1>3 DEF AwakeNow, AwakeNext, Counted

\* The counts are natural numbers.
LEMMA AwakeType ==
  /\ AwakeNow(Producers) \in Nat /\ AwakeNow(Consumers) \in Nat
  /\ AwakeNext(Producers) \in Nat /\ AwakeNext(Consumers) \in Nat
  BY CountAssumption, CountType DEF AwakeNow, AwakeNext

\* The two halves of TokensAccounted, with the counts.
LEMMA TokensInCounts ==
  /\ LinesHaveTokens <=> buffer_length <= consumer_line + AwakeNow(Consumers)
  /\ LinesHaveTokens' <=> buffer_length' <= consumer_line' + AwakeNext(Consumers)
  /\ SpaceHasTokens <=>
       (/\ cancelled \cap Producers = {}
        /\ \E p \in Producers : pc[p] = "space"
        => BufferSize - buffer_length <= producer_line + AwakeNow(Producers))
  /\ SpaceHasTokens' <=>
       (/\ cancelled' \cap Producers = {}
        /\ \E p \in Producers : pc'[p] = "space"
        => BufferSize - buffer_length' <= producer_line' + AwakeNext(Producers))
  BY DEF LinesHaveTokens, SpaceHasTokens, Awake, AwakeNow, AwakeNext, AtLabels,
         AwakeLabels

\* Every step of a producer keeps the tokens in step with the buffer.
LEMMA ProducerTokens ==
  ASSUME NEW p \in Producers, ChannelInv, TokensAccounted, ProducerStep(p)
  PROVE  TokensAccounted'
<1> DEFINE own == AwakeNow(Producers)
           ownNext == AwakeNext(Producers)
           other == AwakeNow(Consumers)
           otherNext == AwakeNext(Consumers)
<1>1. /\ TypeOK /\ pc \in [Threads -> ProducerLabels \cup ConsumerLabels]
      /\ p \in Threads /\ Producers \subseteq Threads
      /\ buffer_length \in 0 .. BufferSize /\ BufferSize \in Nat
      /\ producer_line \in Nat /\ consumer_line \in Nat
      /\ own \in Nat /\ ownNext \in Nat /\ other \in Nat
  BY SizeAssumption, AwakeType DEF ChannelInv, TypeOK, SharedTypeOK, Threads
<1>2. CASE OpenFile(p)
  <2>1. otherNext = other /\ ownNext = own
    BY <1>1, <1>2, ProducerMoved DEF OpenFile, Counted, AwakeLabels
  <2>2. LinesHaveTokens'
    BY <1>1, <1>2, <2>1, TokensInCounts
       DEF TokensAccounted, OpenFile, At, ringVars, semVars
  <2>3. SpaceHasTokens'
    BY <1>1, <1>2, <2>1, TokensInCounts
       DEF TokensAccounted, OpenFile, At, ringVars, semVars
  <2> QED
    BY <2>2, <2>3 DEF TokensAccounted
<1>3. CASE ReadLine(p)
  <2>1. otherNext = other /\ ownNext = own + 1
    BY <1>1, <1>3, ProducerMoved DEF ReadLine, Counted, AwakeLabels
  <2>2. LinesHaveTokens'
    BY <1>1, <1>3, <2>1, TokensInCounts
       DEF TokensAccounted, ReadLine, At, ringVars, semVars
  <2>3. SpaceHasTokens'
    BY <1>1, <1>3, <2>1, TokensInCounts
       DEF TokensAccounted, ReadLine, At, ringVars, semVars
  <2> QED
    BY <2>2, <2>3 DEF TokensAccounted
<1>4. CASE EndOfFile(p)
  <2>1. otherNext = other /\ ownNext = own
    BY <1>1, <1>4, ProducerMoved DEF EndOfFile, Counted, AwakeLabels
  <2>2. LinesHaveTokens'
    BY <1>1, <1>4, <2>1, TokensInCounts
       DEF TokensAccounted, EndOfFile, At, ringVars, semVars
  <2>3. SpaceHasTokens'
    BY <1>1, <1>4, <2>1, TokensInCounts
       DEF TokensAccounted, EndOfFile, At, ringVars, semVars
  <2> QED
    BY <2>2, <2>3 DEF TokensAccounted
<1>5. CASE CancelledOutside(p)
  <2>1. otherNext = other /\ p \in cancelled'
    BY <1>1, <1>5, ProducerMoved DEF CancelledOutside
  <2>2. LinesHaveTokens'
    BY <1>1, <1>5, <2>1, TokensInCounts
       DEF TokensAccounted, CancelledOutside, At, ringVars, semVars
  <2>3. SpaceHasTokens'
    BY <1>1, <1>5, <2>1, TokensInCounts
       DEF TokensAccounted, CancelledOutside, At, ringVars, semVars
  <2> QED
    BY <2>2, <2>3 DEF TokensAccounted
<1>6. CASE Lock(p)
  <2>1. otherNext = other /\ ownNext = own
    BY <1>1, <1>6, ProducerMoved DEF Lock, Counted, AwakeLabels
  <2>2. LinesHaveTokens'
    BY <1>1, <1>6, <2>1, TokensInCounts
       DEF TokensAccounted, Lock, At, ringVars, semVars
  <2>3. SpaceHasTokens'
    BY <1>1, <1>6, <2>1, TokensInCounts
       DEF TokensAccounted, Lock, At, ringVars, semVars
  <2> QED
    BY <2>2, <2>3 DEF TokensAccounted
<1>7. CASE WaitForSpace(p)
  <2>1. otherNext = other /\ ownNext = own - 1
    BY <1>1, <1>7, ProducerMoved DEF WaitForSpace, Counted, AwakeLabels
  <2>2. LinesHaveTokens'
    BY <1>1, <1>7, <2>1, TokensInCounts
       DEF TokensAccounted, WaitForSpace, At, buffer_full, ringVars, semVars
  <2>3. SpaceHasTokens'
    BY <1>1, <1>7, <2>1, TokensInCounts
       DEF TokensAccounted, WaitForSpace, At, buffer_full, ringVars, semVars
  <2> QED
    BY <2>2, <2>3 DEF TokensAccounted
<1>8. CASE GetSpace(p)
  <2>1. otherNext = other /\ ownNext = own + 1
    BY <1>1, <1>8, ProducerMoved DEF GetSpace, Counted, AwakeLabels
  <2>2. LinesHaveTokens'
    BY <1>1, <1>8, <2>1, TokensInCounts
       DEF TokensAccounted, GetSpace, At, ringVars, semVars
  <2>3. SpaceHasTokens'
    BY <1>1, <1>8, <2>1, TokensInCounts
       DEF TokensAccounted, GetSpace, At, ringVars, semVars
  <2> QED
    BY <2>2, <2>3 DEF TokensAccounted
<1>9. CASE Push(p)
  <2>1. otherNext = other /\ ownNext = own - 1
    BY <1>1, <1>9, ProducerMoved DEF Push, Counted, AwakeLabels
  <2>2. LinesHaveTokens'
    BY <1>1, <1>9, <2>1, TokensInCounts
       DEF TokensAccounted, Push, At, buffer_push, ringVars, semVars
  <2>3. SpaceHasTokens'
    BY <1>1, <1>9, <2>1, TokensInCounts, SMTT(30)
       DEF TokensAccounted, Push, At, buffer_push, ringVars, semVars
  <2> QED
    BY <2>2, <2>3 DEF TokensAccounted
<1>10. CASE CancelledInLog(p)
  <2>1. otherNext = other /\ ownNext = own
    BY <1>1, <1>10, ProducerMoved DEF CancelledInLog, Counted, AwakeLabels
  <2>2. LinesHaveTokens'
    BY <1>1, <1>10, <2>1, TokensInCounts
       DEF TokensAccounted, CancelledInLog, At, ringVars, semVars
  <2>3. SpaceHasTokens'
    BY <1>1, <1>10, <2>1, TokensInCounts
       DEF TokensAccounted, CancelledInLog, At, ringVars, semVars
  <2> QED
    BY <2>2, <2>3 DEF TokensAccounted
<1>11. CASE UnlockPushed(p)
  <2>1. otherNext = other /\ ownNext = own
    BY <1>1, <1>11, ProducerMoved DEF UnlockPushed, Counted, AwakeLabels
  <2>2. LinesHaveTokens'
    BY <1>1, <1>11, <2>1, TokensInCounts
       DEF TokensAccounted, UnlockPushed, At, ringVars, semVars
  <2>3. SpaceHasTokens'
    BY <1>1, <1>11, <2>1, TokensInCounts
       DEF TokensAccounted, UnlockPushed, At, ringVars, semVars
  <2> QED
    BY <2>2, <2>3 DEF TokensAccounted
<1> QED
  BY <1>2, <1>3, <1>4, <1>5, <1>6, <1>7, <1>8, <1>9, <1>10, <1>11
     DEF ProducerStep

\* Every step of a consumer keeps the tokens in step with the buffer.
LEMMA ConsumerTokens ==
  ASSUME NEW c \in Consumers, ChannelInv, TokensAccounted, ConsumerStep(c)
  PROVE  TokensAccounted'
<1> DEFINE own == AwakeNow(Consumers)
           ownNext == AwakeNext(Consumers)
           other == AwakeNow(Producers)
           otherNext == AwakeNext(Producers)
<1>1. /\ TypeOK /\ pc \in [Threads -> ProducerLabels \cup ConsumerLabels]
      /\ c \in Threads /\ Producers \subseteq Threads
      /\ buffer_length \in 0 .. BufferSize /\ BufferSize \in Nat
      /\ producer_line \in Nat /\ consumer_line \in Nat
      /\ own \in Nat /\ ownNext \in Nat /\ other \in Nat
  BY SizeAssumption, AwakeType DEF ChannelInv, TypeOK, SharedTypeOK, Threads
<1>2. CASE StartConsumer(c)
  <2>1. otherNext = other /\ ownNext = own + 1
    BY <1>1, <1>2, ConsumerMoved DEF StartConsumer, Counted, AwakeLabels
  <2>2. LinesHaveTokens'
    BY <1>1, <1>2, <2>1, TokensInCounts
       DEF TokensAccounted, StartConsumer, At, ringVars, semVars
  <2>3. SpaceHasTokens'
    BY <1>1, <1>2, <2>1, TokensInCounts
       DEF TokensAccounted, StartConsumer, At, ringVars, semVars
  <2> QED
    BY <2>2, <2>3 DEF TokensAccounted
<1>3. CASE CancelledAtStart(c)
  <2>1. otherNext = other /\ ownNext = own
    BY <1>1, <1>3, ConsumerMoved DEF CancelledAtStart, Counted, AwakeLabels
  <2>2. LinesHaveTokens'
    BY <1>1, <1>3, <2>1, TokensInCounts
       DEF TokensAccounted, CancelledAtStart, At, ringVars, semVars
  <2>3. SpaceHasTokens'
    BY <1>1, <1>3, <2>1, TokensInCounts
       DEF TokensAccounted, CancelledAtStart, At, ringVars, semVars
  <2> QED
    BY <2>2, <2>3 DEF TokensAccounted
<1>4. CASE Lock(c)
  <2>1. otherNext = other /\ ownNext = own
    BY <1>1, <1>4, ConsumerMoved DEF Lock, Counted, AwakeLabels
  <2>2. LinesHaveTokens'
    BY <1>1, <1>4, <2>1, TokensInCounts
       DEF TokensAccounted, Lock, At, ringVars, semVars
  <2>3. SpaceHasTokens'
    BY <1>1, <1>4, <2>1, TokensInCounts
       DEF TokensAccounted, Lock, At, ringVars, semVars
  <2> QED
    BY <2>2, <2>3 DEF TokensAccounted
<1>5. CASE WaitForLine(c)
  <2>1. otherNext = other /\ ownNext = own - 1
    BY <1>1, <1>5, ConsumerMoved DEF WaitForLine, Counted, AwakeLabels
  <2>2. LinesHaveTokens'
    BY <1>1, <1>5, <2>1, TokensInCounts
       DEF TokensAccounted, WaitForLine, At, buffer_empty, ringVars, semVars
  <2>3. SpaceHasTokens'
    BY <1>1, <1>5, <2>1, TokensInCounts
       DEF TokensAccounted, WaitForLine, At, buffer_empty, ringVars, semVars
  <2> QED
    BY <2>2, <2>3 DEF TokensAccounted
<1>6. CASE GetLine(c)
  <2>1. otherNext = other /\ ownNext = own + 1
    BY <1>1, <1>6, ConsumerMoved DEF GetLine, Counted, AwakeLabels
  <2>2. LinesHaveTokens'
    BY <1>1, <1>6, <2>1, TokensInCounts
       DEF TokensAccounted, GetLine, At, ringVars, semVars
  <2>3. SpaceHasTokens'
    BY <1>1, <1>6, <2>1, TokensInCounts
       DEF TokensAccounted, GetLine, At, ringVars, semVars
  <2> QED
    BY <2>2, <2>3 DEF TokensAccounted
<1>7. CASE CancelledInWait(c)
  <2>1. otherNext = other /\ ownNext = own
    BY <1>1, <1>7, ConsumerMoved DEF CancelledInWait, Counted, AwakeLabels
  <2>2. LinesHaveTokens'
    BY <1>1, <1>7, <2>1, TokensInCounts
       DEF TokensAccounted, CancelledInWait, At, ringVars, semVars
  <2>3. SpaceHasTokens'
    BY <1>1, <1>7, <2>1, TokensInCounts
       DEF TokensAccounted, CancelledInWait, At, ringVars, semVars
  <2> QED
    BY <2>2, <2>3 DEF TokensAccounted
<1>8. CASE Pop(c)
  <2>1. otherNext = other /\ ownNext = own - 1
    BY <1>1, <1>8, ConsumerMoved DEF Pop, Counted, AwakeLabels
  <2>2. LinesHaveTokens'
    BY <1>1, <1>8, <2>1, TokensInCounts
       DEF TokensAccounted, Pop, At, buffer_pop, ringVars, semVars
  <2>3. SpaceHasTokens'
    BY <1>1, <1>8, <2>1, TokensInCounts, SMTT(30)
       DEF TokensAccounted, Pop, At, buffer_pop, ringVars, semVars
  <2> QED
    BY <2>2, <2>3 DEF TokensAccounted
<1>9. CASE UnlockPopped(c)
  <2>1. otherNext = other /\ ownNext = own
    BY <1>1, <1>9, ConsumerMoved DEF UnlockPopped, Counted, AwakeLabels
  <2>2. LinesHaveTokens'
    BY <1>1, <1>9, <2>1, TokensInCounts
       DEF TokensAccounted, UnlockPopped, At, ringVars, semVars
  <2>3. SpaceHasTokens'
    BY <1>1, <1>9, <2>1, TokensInCounts
       DEF TokensAccounted, UnlockPopped, At, ringVars, semVars
  <2> QED
    BY <2>2, <2>3 DEF TokensAccounted
<1>10. CASE PrintLine(c)
  <2>1. otherNext = other /\ ownNext = own + 1
    BY <1>1, <1>10, ConsumerMoved DEF PrintLine, Counted, AwakeLabels
  <2>2. LinesHaveTokens'
    BY <1>1, <1>10, <2>1, TokensInCounts
       DEF TokensAccounted, PrintLine, At, ringVars, semVars
  <2>3. SpaceHasTokens'
    BY <1>1, <1>10, <2>1, TokensInCounts
       DEF TokensAccounted, PrintLine, At, ringVars, semVars
  <2> QED
    BY <2>2, <2>3 DEF TokensAccounted
<1> QED
  BY <1>2, <1>3, <1>4, <1>5, <1>6, <1>7, <1>8, <1>9, <1>10
     DEF ConsumerStep

\* Cancelling and joining leave the tokens and the buffer alone; a cancelled
\* producer only weakens what SpaceHasTokens claims.
LEMMA RunTokens ==
  ASSUME ChannelInv, TokensAccounted, RunStep \/ UNCHANGED vars
  PROVE  TokensAccounted'
<1>1. /\ pc' = pc /\ buffer_length' = buffer_length /\ cancelled \subseteq cancelled'
      /\ consumer_line' = consumer_line /\ producer_line' = producer_line
  BY DEF RunStep, MainStep, TimeIsUp, CancelThreads, WaitForThreads, vars,
         ringVars, semVars
<1>2. /\ AwakeNext(Consumers) = AwakeNow(Consumers)
      /\ AwakeNext(Producers) = AwakeNow(Producers)
  BY <1>1 DEF AwakeNow, AwakeNext
<1>3. LinesHaveTokens'
  BY <1>1, <1>2, TokensInCounts DEF TokensAccounted
<1>4. SpaceHasTokens'
  BY <1>1, <1>2, TokensInCounts DEF TokensAccounted
<1> QED
  BY <1>3, <1>4 DEF TokensAccounted

\* The tokens account for the buffer in every reachable state: no consumer waits
\* for a token while a line without one lies in the buffer and nobody is about
\* to look, and, unless producers are cancelled, no producer waits next to a
\* free cell that way.  Follows from ChannelInv, by counting the threads that
\* are about to look at the buffer.
THEOREM TokensInStep == Spec => []TokensAccounted
<1>1. Init => TokensAccounted
  <2> SUFFICES ASSUME Init PROVE TokensAccounted
    OBVIOUS
  <2>1. AwakeNow(Consumers) \in Nat
    BY AwakeType
  <2> QED
    BY <2>1, TokensInCounts, ThreadAssumption
       DEF TokensAccounted, Init, SharedInit, Threads
<1>2. ChannelInv /\ TokensAccounted /\ [Next]_vars => TokensAccounted'
  BY ProducerTokens, ConsumerTokens, RunTokens DEF Next
<1> QED
  BY ChannelInvariance, <1>1, <1>2, PTL DEF Spec
-----------------------------------------------------------------------------
\* TakenLinesPrinted: no taken line is lost.

\* Every step keeps PrintedInv: between buffer_pop and printf a consumer is not
\* at a cancellation point that acts.
LEMMA StepPrinted ==
  ASSUME ChannelInv, PrintedInv, [Next]_vars PROVE PrintedInv'
<1>1. /\ pc \in [Threads -> ProducerLabels \cup ConsumerLabels]
      /\ SharedTypeOK /\ Consumers \subseteq Threads /\ Producers \subseteq Threads
  BY DEF ChannelInv, TypeOK, Threads
<1>2. ASSUME NEW c \in Consumers, Pop(c) PROVE PrintedInv'
  <2>1. /\ ~Holds(c) /\ pc[c] # "ended" /\ pc' = [pc EXCEPT ![c] = "popped"]
        /\ buffer_pop(c) /\ UNCHANGED <<mpc, printed>>
    BY <1>2 DEF Pop, At, Holds
  <2> QED
    BY <1>1, <2>1, PrintedPop
<1>3. ASSUME NEW c \in Consumers, PrintLine(c) PROVE PrintedInv'
  <2>1. /\ pc[c] = "print" /\ pc' = [pc EXCEPT ![c] = "lock"]
        /\ printed' = IF cl_shouldprint(line[c]) THEN printed \cup {line[c]}
                                                 ELSE printed
        /\ UNCHANGED <<mpc, line, taken>>
    BY <1>3 DEF PrintLine, At, history
  <2> QED
    BY <1>1, <2>1, PrintedPrint
<1>4. ASSUME NEW c \in Consumers, ConsumerStep(c), ~Pop(c), ~PrintLine(c)
      PROVE  PrintedInv'
  <2>1. /\ UNCHANGED <<line, printed, taken, mpc>> /\ pc[c] # "ended"
        /\ \E to : /\ pc' = [pc EXCEPT ![c] = to]
                   /\ pc[c] \in {"popped", "print"} <=> to \in {"popped", "print"}
    BY <1>4 DEF ConsumerStep, StartConsumer, CancelledAtStart, Lock, WaitForLine,
                GetLine, CancelledInWait, UnlockPopped, At, history
  <2>2. mpc # "done"
    BY <2>1 DEF PrintedInv, ConsumersJoined, Ended
  <2> QED
    BY <1>1, <2>1, <2>2, PrintedUnchanged
<1>5. ASSUME NEW p \in Producers, ProducerStep(p) PROVE PrintedInv'
  <2>1. /\ UNCHANGED <<line, printed, taken, mpc>>
        /\ \E to : pc' = [pc EXCEPT ![p] = to]
    BY <1>5 DEF ProducerStep, OpenFile, ReadLine, EndOfFile, CancelledOutside,
                Lock, WaitForSpace, GetSpace, Push, buffer_push, CancelledInLog,
                UnlockPushed, At, history
  <2>2. \A c \in Consumers : pc'[c] = pc[c]
    BY <1>1, <2>1, ThreadAssumption
  <2> QED
    BY <2>1, <2>2, PrintedUnchanged DEF PrintedInv, ConsumersJoined, Ended
<1>6. CASE RunStep \/ UNCHANGED vars
  <2>1. UNCHANGED <<line, printed, taken, pc>>
    BY <1>6 DEF RunStep, MainStep, vars, history
  <2>2. mpc' = "done" => mpc = "done" \/ Ended(Consumers)
    BY <1>6 DEF RunStep, MainStep, TimeIsUp, CancelThreads, WaitForThreads, vars
  <2> QED
    BY <2>1, <2>2, PrintedUnchanged DEF PrintedInv, ConsumersJoined, Ended
<1> QED
  BY <1>2, <1>3, <1>4, <1>5, <1>6 DEF Next

\* Cancellation never strikes a consumer that holds a line: when run is done,
\* every line taken that cl_shouldprint selects has been printed, for any
\* number of threads and whenever they are cancelled.
THEOREM NothingTakenIsLost == Spec => []TakenLinesPrinted
<1>1. Init => PrintedInv
  BY ThreadAssumption
     DEF Init, SharedInit, PrintedInv, PrintedWasTaken, HeldWasTaken,
         TakenIsKept, ConsumersJoined, Holds, Threads
<1>2. ChannelInv /\ PrintedInv /\ [Next]_vars => PrintedInv'
  BY StepPrinted
<1>3. ChannelInv /\ PrintedInv => TakenLinesPrinted
  BY PrintedAtEnd DEF ChannelInv, TypeOK
<1> QED
  BY ChannelInvariance, <1>1, <1>2, <1>3, PTL DEF Spec
=============================================================================
