--------------------------- MODULE ProdConsProofs ---------------------------
(***************************************************************************)
(* What buffer.c guarantees, for every buffer size: pushing and popping    *)
(* keep the ring in step with the log of lines, so a push is a Put and a   *)
(* pop is a Take of LineChannel.  The proofs about the two programs cite   *)
(* these lemmas and never look into the ring again.                        *)
(***************************************************************************)
EXTENDS ProdCons, FiniteSetTheorems, TLAPS

\* What makes TakenLinesPrinted inductive: only taken lines that cl_shouldprint
\* selects are printed, each of them is printed or still with the consumer that
\* took it, and run is done only after the last consumer.
Holds(c) == pc[c] \in {"popped", "print"}
Taken(l) == \E i \in DOMAIN taken : taken[i] = l

PrintedWasTaken == \A l \in printed : Taken(l) /\ cl_shouldprint(l)
HeldWasTaken == \A c \in Consumers : Holds(c) => Taken(line[c])
TakenIsKept ==
  \A i \in DOMAIN taken :
    cl_shouldprint(taken[i]) =>
      \/ taken[i] \in printed
      \/ \E c \in Consumers : Holds(c) /\ line[c] = taken[i]
ConsumersJoined == mpc = "done" => Ended(Consumers)

PrintedInv == /\ PrintedWasTaken
              /\ HeldWasTaken
              /\ TakenIsKept
              /\ ConsumersJoined
-----------------------------------------------------------------------------
\* The index after s + i steps through the ring: it wraps around at most once.
RingCell(s, i) == IF s + i < BufferSize THEN s + i ELSE s + i - BufferSize

LEMMA RingIndex ==
  ASSUME NEW s \in 0 .. BufferSize - 1, NEW i \in 0 .. BufferSize
  PROVE  buffer_at(s + i) = RingCell(s, i)
  BY SizeAssumption DEF buffer_at, RingCell

\* The cells the ring uses.
LEMMA CellInRing ==
  ASSUME SharedTypeOK, NEW i \in 0 .. BufferSize - 1
  PROVE  buffer_at(buffer_start + i) \in 0 .. BufferSize - 1
  BY SizeAssumption, RingIndex DEF SharedTypeOK, RingCell

\* Different offsets are different cells.
LEMMA CellsDiffer ==
  ASSUME SharedTypeOK,
         NEW i \in 0 .. BufferSize - 1, NEW j \in 0 .. BufferSize - 1, i # j
  PROVE  buffer_at(buffer_start + i) # buffer_at(buffer_start + j)
<1>1. buffer_start \in 0 .. BufferSize - 1
  BY DEF SharedTypeOK
<1>2. buffer_at(buffer_start + i) = RingCell(buffer_start, i)
  BY <1>1, RingIndex, SizeAssumption
<1>3. buffer_at(buffer_start + j) = RingCell(buffer_start, j)
  BY <1>1, RingIndex, SizeAssumption
<1>4. RingCell(buffer_start, i) # RingCell(buffer_start, j)
  BY <1>1, SizeAssumption DEF RingCell
<1> QED
  BY <1>2, <1>3, <1>4

\* A line that was read can be pushed.
LEMMA LineReadIsLine ==
  ASSUME NEW p \in Producers, LineRead(p)
  PROVE  <<p, pos[p]>> \in Lines
  BY DEF LineRead, Channel!Follows, Lines

\* buffer_push keeps the types of what it changes.
LEMMA PushType ==
  ASSUME SharedTypeOK, NEW p \in Producers, LineRead(p), buffer_push(p)
  PROVE  /\ buffer' \in [0 .. BufferSize - 1 -> Lines \cup {NoLine}]
         /\ buffer_start' \in 0 .. BufferSize - 1
         /\ buffer_length' \in 0 .. BufferSize
         /\ sent' \in [Producers -> 0 .. Len(File)]
         /\ log' \in Seq(Lines)
         /\ taken' \in Seq(Lines)
<1> USE SizeAssumption DEF SharedTypeOK, buffer_push, buffer_full
<1>1. <<p, pos[p]>> \in Lines
  BY LineReadIsLine
<1>2. buffer' \in [0 .. BufferSize - 1 -> Lines \cup {NoLine}]
  BY <1>1
<1>3. sent' \in [Producers -> 0 .. Len(File)]
  OBVIOUS
<1>4. log' \in Seq(Lines) /\ taken' \in Seq(Lines)
  BY <1>1
<1> QED
  BY <1>2, <1>3, <1>4

\* buffer_push writes the cell after the last one in use, and no other.
LEMMA PushRing ==
  ASSUME SharedTypeOK, RingFIFO, NEW p \in Producers, LineRead(p),
         buffer_push(p)
  PROVE  RingFIFO'
<1> USE SizeAssumption DEF SharedTypeOK, buffer_push, buffer_full
<1> DEFINE new == <<p, pos[p]>>
           cell == buffer_at(buffer_start + buffer_length)
<1>1. new \in Lines
  BY LineReadIsLine
<1>2. /\ log \in Seq(Lines) /\ log' = Append(log, new)
      /\ Len(log') = Len(log) + 1
      /\ \A i \in 1 .. Len(log) : log'[i] = log[i]
      /\ log'[Len(log) + 1] = new
  BY <1>1
<1>3. Len(log) = Len(taken) + buffer_length /\ Len(taken) \in Nat
  BY DEF RingFIFO
<1>4. buffer_length \in 0 .. BufferSize - 1 /\ cell \in 0 .. BufferSize - 1
  <2>1. buffer_length \in 0 .. BufferSize - 1
    OBVIOUS
  <2> QED
    BY <2>1, CellInRing
<1>5. ASSUME NEW i \in 0 .. buffer_length' - 1
      PROVE  buffer'[buffer_at(buffer_start + i)] = log'[Len(taken) + 1 + i]
  <2>1. CASE i = buffer_length
    BY <1>2, <1>3, <1>4, <2>1
  <2>2. CASE i # buffer_length
    <3>1. i \in 0 .. buffer_length - 1 /\ i \in 0 .. BufferSize - 1
      BY <2>2
    <3>2. buffer_at(buffer_start + i) # cell
      BY <1>4, <2>2, <3>1, CellsDiffer
    <3>3. buffer_at(buffer_start + i) \in 0 .. BufferSize - 1
      BY <3>1, CellInRing
    <3>4. buffer[buffer_at(buffer_start + i)] = log[Len(taken) + 1 + i]
      BY <3>1 DEF RingFIFO
    <3>5. buffer'[buffer_at(buffer_start + i)]
            = buffer[buffer_at(buffer_start + i)]
      BY <3>2, <3>3
    <3> QED
      BY <1>2, <1>3, <3>1, <3>4, <3>5
  <2> QED
    BY <2>1, <2>2
<1>6. Len(log') = Len(taken') + buffer_length'
  BY <1>2, <1>3
<1>7. buffer_start' = buffer_start /\ taken' = taken
  OBVIOUS
<1> HIDE DEF SharedTypeOK, buffer_push
<1> QED
  BY <1>5, <1>6, <1>7 DEF RingFIFO, buffer_at

\* A push is a Put of the channel.
LEMMA PushIsPut ==
  ASSUME SharedTypeOK, NEW p \in Producers, LineRead(p), buffer_push(p)
  PROVE  Channel!Put(p, pos[p])
  BY DEF LineRead, buffer_push, Channel!Put

\* The line in front of the ring is the oldest one that was not taken.
LEMMA FrontOfRing ==
  ASSUME SharedTypeOK, RingFIFO, ~buffer_empty
  PROVE  /\ Len(taken) \in Nat
         /\ Len(taken) < Len(log)
         /\ buffer[buffer_at(buffer_start)] = log[Len(taken) + 1]
         /\ buffer[buffer_at(buffer_start)] \in Lines
<1> USE SizeAssumption DEF SharedTypeOK, buffer_empty
<1>0. Len(taken) \in Nat /\ Len(log) \in Nat /\ buffer_length \in 1 .. BufferSize
  OBVIOUS
<1>1. Len(taken) \in Nat /\ Len(taken) < Len(log) /\ Len(log) \in Nat
  BY <1>0 DEF RingFIFO
<1>2. buffer[buffer_at(buffer_start)] = log[Len(taken) + 1]
  <2>1. 0 \in 0 .. buffer_length - 1
    BY <1>0
  <2>2. buffer[buffer_at(buffer_start + 0)] = log[Len(taken) + 1 + 0]
    BY <2>1, Zenon DEF RingFIFO
  <2>3. buffer_start + 0 = buffer_start /\ Len(taken) + 1 + 0 = Len(taken) + 1
    BY <1>0
  <2> QED
    BY <2>2, <2>3
<1>3. log[Len(taken) + 1] \in Lines
  BY <1>1
<1> QED
  BY <1>1, <1>2, <1>3

\* buffer_pop keeps the types of what it changes.
LEMMA PopType ==
  ASSUME SharedTypeOK, RingFIFO, NEW c \in Consumers, buffer_pop(c)
  PROVE  /\ line' \in [Consumers -> Lines \cup {NoLine}]
         /\ line'[c] \in Lines
         /\ buffer' \in [0 .. BufferSize - 1 -> Lines \cup {NoLine}]
         /\ buffer_start' \in 0 .. BufferSize - 1
         /\ buffer_length' \in 0 .. BufferSize
         /\ sent' \in [Producers -> 0 .. Len(File)]
         /\ log' \in Seq(Lines)
         /\ taken' \in Seq(Lines)
<1> USE SizeAssumption DEF SharedTypeOK, buffer_pop
<1>1. buffer[buffer_at(buffer_start)] \in Lines
  BY FrontOfRing
<1>2. taken' \in Seq(Lines)
  BY <1>1
<1>3. buffer_start' \in 0 .. BufferSize - 1 /\ buffer_length' \in 0 .. BufferSize
  BY DEF buffer_empty
<1> QED
  BY <1>1, <1>2, <1>3

\* buffer_pop advances the ring's first cell together with the log's.
LEMMA PopRing ==
  ASSUME SharedTypeOK, RingFIFO, NEW c \in Consumers, buffer_pop(c)
  PROVE  RingFIFO'
<1> USE SizeAssumption DEF SharedTypeOK, buffer_pop, buffer_empty
<1>1. buffer[buffer_at(buffer_start)] \in Lines
  BY FrontOfRing
<1>2. Len(taken') = Len(taken) + 1 /\ Len(taken) \in Nat
  BY <1>1
<1>3. buffer_length \in 1 .. BufferSize /\ buffer_length' = buffer_length - 1
  OBVIOUS
<1>4. ASSUME NEW i \in 0 .. buffer_length' - 1
      PROVE  buffer'[buffer_at(buffer_start' + i)] = log'[Len(taken') + 1 + i]
  <2>1. i + 1 \in 0 .. buffer_length - 1 /\ i \in Nat /\ i + 1 < BufferSize
    BY <1>3
  <2>2. buffer_start' = RingCell(buffer_start, 1)
    <3>1. 1 \in 0 .. BufferSize
      OBVIOUS
    <3>2. buffer_start' = buffer_at(buffer_start + 1)
      BY DEF buffer_at
    <3> QED
      BY <3>1, <3>2, RingIndex
  <2>3. buffer_at(buffer_start' + i) = buffer_at(buffer_start + (i + 1))
    <3>1. /\ buffer_start \in 0 .. BufferSize - 1
          /\ buffer_start' \in 0 .. BufferSize - 1
          /\ i \in 0 .. BufferSize /\ i + 1 \in 0 .. BufferSize
      BY <2>1, <2>2 DEF RingCell
    <3>2. buffer_at(buffer_start' + i) = RingCell(buffer_start', i)
      BY <3>1, RingIndex, Zenon
    <3>3. buffer_at(buffer_start + (i + 1)) = RingCell(buffer_start, i + 1)
      BY <3>1, RingIndex, Zenon
    <3>4. RingCell(buffer_start', i) = RingCell(buffer_start, i + 1)
      <4>1. CASE buffer_start + 1 < BufferSize
        <5> HIDE DEF SharedTypeOK, buffer_pop, buffer_empty
        <5>1. buffer_start' = buffer_start + 1
          BY <2>2, <4>1 DEF RingCell
        <5>2. buffer_start \in Nat /\ i \in Nat
          BY <2>1, <3>1
        <5>3. (buffer_start + 1) + i = buffer_start + (i + 1)
          BY <5>2
        <5> QED
          BY <5>1, <5>2, <5>3, SizeAssumption DEF RingCell
      <4>2. CASE ~(buffer_start + 1 < BufferSize)
        BY <2>1, <2>2, <3>1, <4>2 DEF RingCell
      <4> QED BY <4>1, <4>2
    <3> QED
      BY <3>2, <3>3, <3>4
  <2>4. buffer[buffer_at(buffer_start + (i + 1))]
          = log[Len(taken) + 1 + (i + 1)]
    BY <2>1 DEF RingFIFO
  <2>5. Len(taken) + 1 + (i + 1) = Len(taken') + 1 + i
    BY <1>2, <2>1
  <2> QED
    BY <2>3, <2>4, <2>5
<1>5. Len(log') = Len(taken') + buffer_length'
  BY <1>2, <1>3 DEF RingFIFO
<1> QED
  BY <1>4, <1>5 DEF RingFIFO, buffer_at

\* A pop is a Take of the channel.
LEMMA PopIsTake ==
  ASSUME SharedTypeOK, RingFIFO, NEW c \in Consumers, buffer_pop(c)
  PROVE  Channel!Take
  BY FrontOfRing DEF buffer_pop, Channel!Take

\* An empty ring is in step with an empty log.
LEMMA InitRing == SharedInit => SharedTypeOK /\ RingFIFO /\ Channel!ChannelInit
<1> SUFFICES ASSUME SharedInit
             PROVE  SharedTypeOK /\ RingFIFO /\ Channel!ChannelInit
  OBVIOUS
<1> USE SizeAssumption, FileAssumption, ConfigAssumption DEF SharedInit
<1>1. SharedTypeOK
  BY DEF SharedTypeOK, MainLabels
<1>2. RingFIFO
  BY DEF RingFIFO
<1>3. Channel!ChannelInit
  BY DEF Channel!ChannelInit
<1> QED
  BY <1>1, <1>2, <1>3

\* RingFIFO speaks of the ring and the log only.
LEMMA RingUnchanged ==
  ASSUME RingFIFO, UNCHANGED <<ringVars, history>>
  PROVE  RingFIFO'
  BY DEF RingFIFO, ringVars, history, buffer_at
-----------------------------------------------------------------------------
\* Counting threads.

\* The number of threads of S that are at one of the given labels.
AtLabels(S, at, labels) == Cardinality({t \in S : at[t] \in labels})

\* Counts depend only on the labels of the threads counted.
LEMMA CountSame ==
  ASSUME NEW S, NEW at, NEW at2, NEW labels, \A t \in S : at2[t] = at[t]
  PROVE  AtLabels(S, at2, labels) = AtLabels(S, at, labels)
<1>1. {t \in S : at2[t] \in labels} = {t \in S : at[t] \in labels}
  OBVIOUS
<1> QED
  BY <1>1 DEF AtLabels

\* One thread moves: it is counted after the step if its new label is one of
\* the given ones, and it was counted before if its old label was.
LEMMA CountMoved ==
  ASSUME NEW S, IsFiniteSet(S), NEW at, NEW at2, NEW labels, NEW u \in S,
         \A t \in S \ {u} : at2[t] = at[t]
  PROVE  AtLabels(S, at2, labels) =
           AtLabels(S, at, labels) + (IF at2[u] \in labels THEN 1 ELSE 0)
                                   - (IF at[u] \in labels THEN 1 ELSE 0)
<1> DEFINE A == {t \in S : at[t] \in labels}
           B == {t \in S : at2[t] \in labels}
<1>1. IsFiniteSet(A) /\ IsFiniteSet(B)
  BY FS_Subset
<1>2. Cardinality(A) \in Nat /\ Cardinality(B) \in Nat
  BY <1>1, FS_CardinalityType
<1>3. CASE at[u] \in labels <=> at2[u] \in labels
  <2>1. A = B
    BY <1>3
  <2>2. AtLabels(S, at2, labels) = AtLabels(S, at, labels)
    BY <2>1 DEF AtLabels
  <2>3. AtLabels(S, at, labels) \in Nat
    BY <1>2 DEF AtLabels
  <2> QED
    BY <1>3, <2>2, <2>3
<1>4. CASE at[u] \notin labels /\ at2[u] \in labels
  <2>1. B = A \cup {u} /\ u \notin A
    BY <1>4
  <2>2. Cardinality(B) = Cardinality(A) + 1
    BY <1>1, <2>1, FS_AddElement
  <2> QED
    BY <1>2, <1>4, <2>2 DEF AtLabels
<1>5. CASE at[u] \in labels /\ at2[u] \notin labels
  <2>1. B = A \ {u} /\ u \in A
    BY <1>5
  <2>2. Cardinality(B) = Cardinality(A) - 1
    BY <1>1, <2>1, FS_RemoveElement
  <2> QED
    BY <1>2, <1>5, <2>2 DEF AtLabels
<1> QED
  BY <1>3, <1>4, <1>5

\* A count of the threads of a finite set is a natural number.
LEMMA CountType ==
  ASSUME NEW S, IsFiniteSet(S), NEW at, NEW labels
  PROVE  AtLabels(S, at, labels) \in Nat
<1>1. IsFiniteSet({t \in S : at[t] \in labels})
  BY FS_Subset
<1> QED
  BY <1>1, FS_CardinalityType DEF AtLabels
-----------------------------------------------------------------------------
\* PrintedInv: what becomes of the lines taken from the buffer.

\* A step that leaves the lines taken, held and printed alone keeps PrintedInv.
LEMMA PrintedUnchanged ==
  ASSUME PrintedInv, UNCHANGED <<line, printed, taken>>,
         \A c \in Consumers :
           pc[c] \in {"popped", "print"} <=> pc'[c] \in {"popped", "print"},
         mpc' = "done" => \A c \in Consumers : pc'[c] = "ended"
  PROVE  PrintedInv'
  BY DEF PrintedInv, PrintedWasTaken, HeldWasTaken, TakenIsKept, ConsumersJoined,
         Holds, Taken, Ended, cl_shouldprint

\* buffer_pop hands the line it takes to the consumer.
LEMMA PrintedPop ==
  ASSUME PrintedInv, SharedTypeOK, NEW S, pc \in [Threads -> S],
         NEW c \in Consumers, ~Holds(c), pc[c] # "ended",
         pc' = [pc EXCEPT ![c] = "popped"], buffer_pop(c),
         UNCHANGED <<mpc, printed>>
  PROVE  PrintedInv'
<1> DEFINE l == buffer[buffer_at(buffer_start)]
<1>1. /\ line' = [line EXCEPT ![c] = l] /\ taken' = Append(taken, l)
      /\ taken \in Seq(Lines) /\ line \in [Consumers -> Lines \cup {NoLine}]
      /\ c \in Threads /\ Consumers \subseteq Threads
  BY DEF buffer_pop, SharedTypeOK, Threads
<1> HIDE DEF l
<1>2. /\ DOMAIN taken' = 1 .. Len(taken) + 1 /\ DOMAIN taken = 1 .. Len(taken)
      /\ Len(taken) \in Nat
      /\ taken'[Len(taken) + 1] = l
      /\ \A i \in DOMAIN taken : taken'[i] = taken[i]
  BY <1>1
<1>3. \A x : Taken(x) => Taken(x)'
  BY <1>2 DEF Taken
<1>4. PrintedWasTaken'
  BY <1>3 DEF PrintedInv, PrintedWasTaken, cl_shouldprint
<1>5. HeldWasTaken'
  BY <1>1, <1>2, <1>3, SMTT(30) DEF PrintedInv, HeldWasTaken, Holds, Taken
<1>6. TakenIsKept'
  <2> SUFFICES ASSUME NEW i \in DOMAIN taken', cl_shouldprint(taken'[i])
               PROVE  \/ taken'[i] \in printed'
                      \/ \E d \in Consumers : Holds(d)' /\ line'[d] = taken'[i]
    BY DEF TakenIsKept, cl_shouldprint
  <2>1. Holds(c)' /\ line'[c] = l
    BY <1>1 DEF Holds
  <2>2. CASE i = Len(taken) + 1
    BY <1>2, <2>1, <2>2
  <2>3. CASE i \in DOMAIN taken /\ taken[i] \in printed
    BY <1>2, <2>3
  <2>4. ASSUME i \in DOMAIN taken, NEW d \in Consumers, Holds(d), line[d] = taken[i]
        PROVE  Holds(d)' /\ line'[d] = taken'[i]
    BY <1>1, <1>2, <2>4 DEF Holds
  <2>5. i = Len(taken) + 1 \/ i \in DOMAIN taken
    BY <1>2
  <2>6. i \in DOMAIN taken => cl_shouldprint(taken[i])
    BY <1>2
  <2> QED
    BY <2>2, <2>3, <2>4, <2>5, <2>6 DEF PrintedInv, TakenIsKept
<1>7. ConsumersJoined'
  BY <1>1 DEF PrintedInv, ConsumersJoined, Ended
<1> QED
  BY <1>4, <1>5, <1>6, <1>7 DEF PrintedInv

\* The consumer prints the line it holds, if cl_shouldprint selects it.
LEMMA PrintedPrint ==
  ASSUME PrintedInv, NEW S, pc \in [Threads -> S],
         NEW c \in Consumers, pc[c] = "print", NEW to, to \notin {"popped", "print"},
         pc' = [pc EXCEPT ![c] = to],
         printed' = IF cl_shouldprint(line[c]) THEN printed \cup {line[c]}
                                               ELSE printed,
         UNCHANGED <<mpc, line, taken>>
  PROVE  PrintedInv'
<1>1. c \in Threads /\ Consumers \subseteq Threads
  BY DEF Threads
<1>2. PrintedWasTaken'
  BY DEF PrintedInv, PrintedWasTaken, HeldWasTaken, Holds, Taken, cl_shouldprint
<1>3. HeldWasTaken'
  BY <1>1 DEF PrintedInv, HeldWasTaken, Holds, Taken
<1>4. TakenIsKept'
  <2> SUFFICES ASSUME NEW i \in DOMAIN taken, cl_shouldprint(taken[i])
               PROVE  \/ taken[i] \in printed'
                      \/ \E d \in Consumers : Holds(d)' /\ line[d] = taken[i]
    BY DEF TakenIsKept, cl_shouldprint
  <2>1. CASE taken[i] \in printed
    BY <2>1
  <2>2. ASSUME NEW d \in Consumers, Holds(d), line[d] = taken[i]
        PROVE  Holds(d)' \/ taken[i] \in printed'
    BY <1>1, <2>2 DEF Holds
  <2> QED
    BY <2>1, <2>2 DEF PrintedInv, TakenIsKept
<1>5. ConsumersJoined'
  BY <1>1 DEF PrintedInv, ConsumersJoined, Ended
<1> QED
  BY <1>2, <1>3, <1>4, <1>5 DEF PrintedInv

\* At the end no consumer holds a line.
LEMMA PrintedAtEnd == SharedTypeOK /\ PrintedInv => TakenLinesPrinted
  BY DEF SharedTypeOK, PrintedInv, PrintedWasTaken, TakenIsKept, ConsumersJoined,
         TakenLinesPrinted, Holds, Taken, Ended
=============================================================================
